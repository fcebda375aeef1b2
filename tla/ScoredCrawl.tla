------------------------------ MODULE ScoredCrawl ------------------------------
(***************************************************************************)
(* The heuristic run of aegis/live.py over a crawl: the URLs of the command *)
(* line and the candidates of the crawler are cut to the limit and scored  *)
(* one by one.  The crawler and HeuristicStreamBackend share the page      *)
(* store; the backend keeps its scores in a cache of its own.              *)
(***************************************************************************)
EXTENDS Crawler

CONSTANTS Given,          \* the URLs of the command line, in order
          Resembling,     \* URLs whose page scores above the threshold
          Limit           \* parameter of run_live

ASSUME ScoredCrawlAssumption ==
  /\ Given \in Seq(Urls)
  /\ Resembling \subseteq Urls
  /\ Limit \in Nat

VARIABLES scored,         \* how many observations are scored
          matched,        \* the positions of those that matched
          good, bad,      \* the keys of backend._cache, by their score
          added,          \* the keys of html_cache the backend added
          fetches         \* history: how often the backend asked for a URL

scoreVars == <<scored, matched, good, bad, added, fetches>>
vars == <<crawlVars, scoreVars>>

(* Types of the crawl and of the backend: a cached score is one of two, and *)
(* the backend keeps no page that the crawler has kept (heuristic.py:54-61). *)
TypeOK ==
  /\ CrawlTypeOK
  /\ scored \in 0..Limit
  /\ matched \subseteq 1..scored
  /\ good \subseteq Urls /\ bad \subseteq Urls /\ good \cap bad = {}
  /\ added \subseteq Urls \ htmlCache
  /\ fetches \in [Urls -> Nat]

Init ==
  /\ CrawlInit
  /\ scored = 0
  /\ matched = {}
  /\ good = {} /\ bad = {} /\ added = {}
  /\ fetches = [u \in Urls |-> 0]

(* urls + the crawl's candidates, observations[:limit]                     *)
Observations ==
  LET all == Given \o [i \in DOMAIN emitted |-> emitted[i].url]
  IN  SubSeq(all, 1, IF Len(all) <= Limit THEN Len(all) ELSE Limit)

Due == Observations[scored + 1]

Waiting == outcome = "returned" /\ scored < Len(Observations)

Unscored == Waiting /\ Due \notin good \union bad

Unread == Unscored /\ Due \notin htmlCache \union added

(* evaluate(): the next observation matches if its score is high.          *)
Judge(hits) ==
  /\ scored' = scored + 1
  /\ matched' = matched \union (IF Due \in hits THEN {scored + 1} ELSE {})

(* The signals of a page that was read are rated and remembered.           *)
Rate ==
  /\ good' = good \union ({Due} \cap Resembling)
  /\ bad' = bad \union ({Due} \ Resembling)
  /\ Judge(Resembling)

Ask == fetches' = [fetches EXCEPT ![Due] = @ + 1]

(* score() answers from its own cache.                                     *)
ScoreAgain ==
  /\ Waiting
  /\ ~Unscored
  /\ Judge(good)
  /\ UNCHANGED <<crawlVars, good, bad, added, fetches>>

(* A backend that does not look into the page store.                       *)
ScoreStoredFetching ==
  /\ Unscored
  /\ ~Unread
  /\ Rate
  /\ Ask
  /\ UNCHANGED <<crawlVars, added>>

(* if url in self._html_cache                                              *)
ScoreStored ==
  /\ Unscored
  /\ ~Unread
  /\ Rate
  /\ UNCHANGED <<crawlVars, added, fetches>>

(* A page nobody has read is fetched now and kept.                         *)
ScoreFetched ==
  /\ Unread
  /\ Rate
  /\ Ask
  /\ added' = added \union {Due}
  /\ UNCHANGED crawlVars

(* A fetch that fails is scored 0.0, for good.                             *)
ScoreFails ==
  /\ Unread
  /\ Judge({})
  /\ Ask
  /\ bad' = bad \union {Due}
  /\ UNCHANGED <<crawlVars, good, added>>

Next ==
  \/ CrawlNext /\ UNCHANGED scoreVars
  \/ ScoreAgain \/ ScoreStored \/ ScoreFetched \/ ScoreFails

Spec == Init /\ [][Next]_vars /\ WF_vars(Next)

-----------------------------------------------------------------------------
(* The backend asks the network for a URL at most once, and never for a    *)
(* page that the crawler has read (crawler.py:81, heuristic.py:59).        *)
BackendFetchesOnce ==
  \A u \in Urls : fetches[u] <= (IF u \in htmlCache THEN 0 ELSE 1)

(* A crawl over pages that link to each other comes to an end, and every   *)
(* candidate within the limit is scored: what fails to load does not stop  *)
(* the run, only a malformed reference of a page that was read does        *)
(* (crawler.py:106, :142, heuristic.py:81).                                *)
CrawlEnds ==
  <>(\/ outcome = "returned" /\ scored = Len(Observations)
     \/ outcome = "raised" /\ \E u \in htmlCache : Breaks(u))
=============================================================================
