-------------------------------- MODULE Crawler --------------------------------
(***************************************************************************)
(* AggregatorCrawler (aegis/services/discovery/crawler.py): a breadth-first *)
(* walk over the internal links of a few seed portals, bounded in pages,   *)
(* depth and candidates, that nominates what the pages refer to.  What a   *)
(* page says does not change during a crawl; any fetch may fail.           *)
(***************************************************************************)
EXTENDS Lists, FiniteSets, SequencesExt

CONSTANTS Urls,
          SiteOf,         \* SiteOf[u]: _registrable(urlparse(u).hostname)
          NoSite,         \* SiteOf of a link without a host
          EventLike,      \* the URLs _EVENT_HINT finds something in
          Malformed,      \* what urljoin() or urlparse() raises ValueError for
          Seeds,          \* the seed portals, in order
          Webs,           \* what the pages may say
          MaxPages, MaxDepth, MaxCandidates    \* parameters of the crawler

(* A page has the manifests, the iframes and the links of its HTML.        *)
Page == [manifests : Seq(Urls), iframes : Seq(Urls), hrefs : Seq(Urls)]

ASSUME CrawlerAssumption ==
  /\ NoSite \notin {SiteOf[s] : s \in ToSet(Seeds)}
  /\ Seeds \in Seq(Urls)
  /\ EventLike \subseteq Urls
  /\ Malformed \subseteq Urls \ ToSet(Seeds)
  /\ \A w \in Webs : \A u \in Urls : w[u] \in Page
  /\ MaxPages \in Nat /\ MaxDepth \in Nat /\ MaxCandidates \in Nat

VARIABLES web,            \* the pages of this crawl
          frontier,       \* the queue of URLs and their depths
          seenPages,      \* seen_pages
          emitted,        \* the candidates, in order
          pagesFetched,   \* pages_fetched
          htmlCache,      \* the keys of html_cache
          outcome         \* of crawl(): "running", "returned" or "raised"

crawlVars == <<web, frontier, seenPages, emitted, pagesFetched, htmlCache, outcome>>

Candidate == [url : Urls, kind : {"manifest", "embed", "event_page"}]
Entry == [url : Urls, depth : 0..MaxDepth]

(* Types of the crawl: no entry of the queue is deeper than max_depth, no  *)
(* more pages are counted than max_pages, a page that is kept was visited. *)
CrawlTypeOK ==
  /\ web \in Webs
  /\ frontier \in Seq(Entry)
  /\ seenPages \subseteq Urls
  /\ emitted \in Seq(Candidate)
  /\ pagesFetched \in 0..MaxPages
  /\ htmlCache \subseteq seenPages
  /\ outcome \in {"running", "returned", "raised"}

CrawlInit ==
  /\ web \in Webs
  /\ frontier = [i \in DOMAIN Seeds |-> [url |-> Seeds[i], depth |-> 0]]
  /\ seenPages = {}
  /\ emitted = <<>>
  /\ pagesFetched = 0
  /\ htmlCache = {}
  /\ outcome = "running"

SeedSites == {SiteOf[s] : s \in ToSet(Seeds)}

-----------------------------------------------------------------------------
(* What a page is good for.                                                *)

(* if emb_site and emb_site not in seed_sites                              *)
IsEmbed(page, emb) == SiteOf[emb] # NoSite /\ SiteOf[emb] \notin SeedSites

(* Every link with a host.                                                 *)
HasHost(page, link) == SiteOf[link] # NoSite

(* An http(s) link to the site of the page.                                *)
IsInternal(page, link) == SiteOf[link] # NoSite /\ SiteOf[link] = SiteOf[page]

Internal(page) == Kept(web[page].hrefs, {l \in Urls : IsInternal(page, l)})

(* The candidates of a page in the order in which it emits them.           *)
Finds(page) ==
  LET As(kind, urls) == [i \in DOMAIN urls |-> [url |-> urls[i], kind |-> kind]]
  IN  As("manifest", web[page].manifests)
      \o As("embed", Kept(web[page].iframes, {e \in Urls : IsEmbed(page, e)}))
      \o As("event_page", Kept(Internal(page), EventLike))

Nominated(out, url) == \E i \in DOMAIN out : out[i].url = url

(* An _emit that keeps the cap itself.                                     *)
EmitCapped(out, c) ==
  IF Nominated(out, c.url) \/ Len(out) >= MaxCandidates THEN out ELSE Append(out, c)

(* _emit: the first candidate of a URL stays.                              *)
Emit(out, c) == AppendIf(~Nominated(out, c.url), out, c)

(* One candidate of a page after the other.                                *)
EmitAll(out, finds) ==
  LET f[k \in 0..Len(finds)] == IF k = 0 THEN out ELSE Emit(f[k - 1], finds[k])
  IN  f[Len(finds)]

(* Links followed one level too far.                                       *)
FollowDeeper(entry, seen) ==
  LET new == Kept(Internal(entry.url), Urls \ seen)
  IN  IF entry.depth <= MaxDepth
        THEN [i \in DOMAIN new |-> [url |-> new[i], depth |-> entry.depth + 1]]
        ELSE <<>>

(* The links to go on with: if depth < max_depth and nxt not in seen_pages *)
Follow(entry, seen) ==
  LET new == Kept(Internal(entry.url), Urls \ seen)
  IN  IF entry.depth < MaxDepth
        THEN [i \in DOMAIN new |-> [url |-> new[i], depth |-> entry.depth + 1]]
        ELSE <<>>

(* A frontier used as a stack.                                             *)
EnqueueFront(queue, new) == new \o queue

(* frontier.append()                                                       *)
Enqueue(queue, new) == queue \o new

-----------------------------------------------------------------------------
(* The conditions of the loop.                                             *)
GoesOn ==
  /\ outcome = "running"
  /\ frontier # <<>>
  /\ pagesFetched < MaxPages
  /\ Len(emitted) < MaxCandidates

(* A loop that looks at a seen URL and does not take it off the queue.     *)
PeekSeenPage ==
  /\ GoesOn
  /\ Head(frontier).url \in seenPages
  /\ UNCHANGED crawlVars

(* if url in seen_pages: continue                                          *)
SkipSeenPage ==
  /\ GoesOn
  /\ Head(frontier).url \in seenPages
  /\ frontier' = Tail(frontier)
  /\ UNCHANGED <<web, seenPages, emitted, pagesFetched, htmlCache, outcome>>

Take ==
  /\ GoesOn
  /\ Head(frontier).url \notin seenPages
  /\ seenPages' = seenPages \union {Head(frontier).url}
  /\ pagesFetched' = pagesFetched + 1

(* A fetch that fails counts as a page and leaves nothing else.            *)
FetchFails ==
  /\ Take
  /\ frontier' = Tail(frontier)
  /\ UNCHANGED <<web, emitted, htmlCache, outcome>>

(* One malformed reference among those of a page ends the crawl, and with  *)
(* it the run: run_live calls crawl() outside of any try.                  *)
Breaks(page) ==
  Malformed \cap ToSet(web[page].manifests \o web[page].iframes \o web[page].hrefs) # {}

CrawlRaises ==
  /\ Take
  /\ Breaks(Head(frontier).url)
  /\ htmlCache' = htmlCache \union {Head(frontier).url}
  /\ frontier' = Tail(frontier)
  /\ outcome' = "raised"
  /\ UNCHANGED <<web, emitted>>

(* A page is fetched, kept for the detector, and searched.                 *)
CrawlPage ==
  /\ Take
  /\ ~Breaks(Head(frontier).url)
  /\ htmlCache' = htmlCache \union {Head(frontier).url}
  /\ emitted' = EmitAll(emitted, Finds(Head(frontier).url))
  /\ frontier' = Enqueue(Tail(frontier), Follow(Head(frontier), seenPages'))
  /\ UNCHANGED <<web, outcome>>

(* return list(emitted.values())                                           *)
Return ==
  /\ outcome = "running"
  /\ ~GoesOn
  /\ outcome' = "returned"
  /\ UNCHANGED <<web, frontier, seenPages, emitted, pagesFetched, htmlCache>>

CrawlNext == SkipSeenPage \/ FetchFails \/ CrawlRaises \/ CrawlPage \/ Return

-----------------------------------------------------------------------------
Failed == seenPages \ htmlCache

(* The pages at most k links away from a seed, through pages of S.         *)
Within(links, S) ==
  LET f[k \in 0..MaxDepth] ==
        IF k = 0 THEN ToSet(Seeds)
        ELSE f[k - 1] \union UNION {links[u] : u \in f[k - 1] \cap S}
  IN  f

Linked == [u \in Urls |-> ToSet(Internal(u))]

(* Near[k]: through pages that could be fetched.                           *)
Near == Within(Linked, Urls \ Failed)

(* The crawl stays on the sites of its seeds (crawler.py:147).             *)
StaysOnSeedSites == \A u \in seenPages : SiteOf[u] \in SeedSites

(* No page is fetched before all that are nearer to a seed: where a cap    *)
(* ends the crawl, it is the farthest pages that are missing (:106-109).   *)
NearestFirst ==
  \A k \in 0..MaxDepth : seenPages \subseteq Near[k] \/ Near[k] \subseteq seenPages

(* A crawl that no cap ends has fetched every page within max_depth links  *)
(* of a seed: a page met too deep first is not lost for its links (:150).  *)
AllNearPagesFetched ==
  outcome = "returned" /\ frontier = <<>> => seenPages = Near[MaxDepth]

(* Whatever a page that was read refers to has been nominated, under the   *)
(* caps too: none of its manifests, embeds, event links is cut off, unless *)
(* a malformed reference ends it all (crawler.py:107, :111, :142).         *)
FindsAreNominated ==
  outcome # "raised" =>
    \A u \in htmlCache : \A i \in DOMAIN Finds(u) : Nominated(emitted, Finds(u)[i].url)
=============================================================================
