------------------------------- MODULE Detection -------------------------------
(***************************************************************************)
(* DetectionService.evaluate (aegis/services/detection/matcher.py) over    *)
(* the observations of a run, with each of the three backends the code     *)
(* has: the table of the demo, the heuristic one and the headless one,     *)
(* which run_live closes whatever happens to the run.                      *)
(***************************************************************************)
EXTENDS HeadlessBackend, FloatScore, Lists, SequencesExt

CONSTANTS Runs,           \* [backend, threshold (in hundredths), urls]
          References,     \* reference_ids, in order
          Known,          \* known_matches: [Urls -> [ref, score]], in hundredths
          Pages,          \* [signals, terms]: what a page may look like
          NoAsset,        \* best_ref before any reference has scored
          NoScore         \* not a score

VARIABLES run,            \* the run that was started
          phase,          \* "detect", "act", "closing", "done"
          tried,          \* references tried for the observation that is due
          best,           \* best_ref, best_score
          scores,         \* HeuristicStreamBackend._cache, NoScore where absent
          shown,          \* history: the signals a cached score was made of
          results,        \* the DetectionResults
          evidence        \* the detection records

scoring == <<tried, best, scores, shown, results, evidence>>
vars == <<run, phase, scoring, probeVars>>

Zero == [h |-> 0, r |-> 0]
Unscored == [asset |-> NoAsset, score |-> Zero]
NoPage == [signals |-> {}, terms |-> {}]

Signals == {"hls", "dash", "player", "video", "iframe", "live"}
Grades == {"low", "medium", "high"}

Score == [h : Int, r : Int]
Assets == ToSet(References) \union {NoAsset}

(* The backends of run_live have the threshold of live.py:35 or that of    *)
(* config.py:14; Known may have any, and anything for a score.             *)
ASSUME DetectionAssumption ==
  /\ \A r \in Runs : /\ r.backend \in {"stub", "heuristic", "headless"}
                     /\ r.threshold \in Nat /\ (r.backend # "stub" => r.threshold \in {50, 70})
                     /\ r.urls \in Seq(Urls)
  /\ IsFiniteSet(Urls)
  /\ References \in Seq(ToSet(References)) /\ NoAsset \notin ToSet(References)
  /\ \A u \in Urls : Known[u].score \in Nat
  /\ \A p \in Pages : p.signals \subseteq Signals /\ p.terms \subseteq ToSet(References)
  /\ NoScore \notin Score

(* What evaluate() makes of an observation; the ledger has the matches.    *)
Result == [url : Urls, matched : BOOLEAN, score : Score, asset : Assets, grade : Grades]
Match == [url : Urls, matched : {TRUE}, score : Score, asset : Assets, grade : Grades]

(* Types of the loop: a result is there for every observation evaluated,   *)
(* and a record for every match.                                           *)
TypeOK ==
  /\ HeadlessTypeOK
  /\ run \in Runs
  /\ phase \in {"detect", "act", "closing", "done"}
  /\ tried \in 0..Len(References)
  /\ best \in [asset : Assets, score : Score]
  /\ scores \in [Urls -> Score \union {NoScore}]
  /\ shown \in [Urls -> Pages \union {NoPage}]
  /\ results \in Seq(Result)
  /\ Len(results) <= Len(run.urls)
  /\ \A i \in DOMAIN results : results[i].url = run.urls[i]
  /\ evidence = Kept(results, Match)

Init ==
  /\ HeadlessInit
  /\ run \in Runs
  /\ phase = "detect"
  /\ tried = 0
  /\ best = Unscored
  /\ scores = [u \in Urls |-> NoScore]
  /\ shown = [u \in Urls |-> NoPage]
  /\ results = <<>>
  /\ evidence = <<>>

-----------------------------------------------------------------------------
(* The scores of the backends.                                             *)

(* if pattern.search(html): score += weight                                *)
Signal(found, score, weight) == IF found THEN Plus(score, Literal(weight)) ELSE score

(* _signals(): the weights are added in this order, ...                    *)
SignalSum(page, ref) ==
  LET Has(s) == s \in page.signals
      manifests == Signal(Has("dash"), Signal(Has("hls"), Zero, 40), 30)
      players == Signal(Has("video"), Signal(Has("player"), manifests, 20), 15)
      live == Signal(Has("live"), Signal(Has("iframe"), players, 10), 15)
  IN  Signal(Has("live") /\ ref \in page.terms, live, 10)

(* ... and their sum is capped.                                            *)
SignalScore(page, ref) == Least(SignalSum(page, ref), Literal(95))

(* A score() that asks for the player before it asks for manifests.        *)
PlayerScore(probe) ==
  IF probe.player THEN (IF probe.embeds # {} THEN Literal(60) ELSE Literal(45))
  ELSE IF probe.manifests THEN Literal(90)
  ELSE Zero

(* HeadlessStreamBackend.score()                                           *)
ProbeScore(probe) ==
  IF probe.manifests THEN Literal(90)
  ELSE IF probe.player /\ probe.embeds # {} THEN Literal(60)
  ELSE IF probe.player THEN Literal(45)
  ELSE Zero

(* StubFingerprintBackend.score()                                          *)
KnownScore(url, ref) ==
  IF Known[url].ref = ref THEN Literal(Known[url].score) ELSE Zero

-----------------------------------------------------------------------------
(* evaluate(): each reference in turn, then the verdict.                   *)

Due == run.urls[Len(results) + 1]
Ref == References[tried + 1]

Scoring(backend) ==
  /\ phase = "detect" /\ run.backend = backend
  /\ Len(results) < Len(run.urls)
  /\ tried < Len(References)

(* if s > best_score                                                       *)
Better(top, ref, score) ==
  IF AtLeast(top.score, score) THEN top ELSE [asset |-> ref, score |-> score]

Scored(score) ==
  /\ tried' = tried + 1
  /\ best' = Better(best, Ref, score)
  /\ UNCHANGED <<run, phase, results, evidence>>

ScoreStub ==
  /\ Scoring("stub")
  /\ Scored(KnownScore(Due, Ref))
  /\ UNCHANGED <<probeVars, scores, shown>>

ScoreCached ==
  /\ Scoring("heuristic")
  /\ scores[Due] # NoScore
  /\ Scored(scores[Due])
  /\ UNCHANGED <<probeVars, scores, shown>>

(* A cache that has no room for failures.                                  *)
RememberLoaded(page) ==
  IF page = NoPage THEN UNCHANGED scores
  ELSE scores' = [scores EXCEPT ![Due] = SignalScore(page, Ref)]

Remember(page) == scores' = [scores EXCEPT ![Due] = SignalScore(page, Ref)]

(* A page is fetched, rated and its score kept; NoPage: nothing came.      *)
ScorePage(page) ==
  /\ Scoring("heuristic")
  /\ scores[Due] = NoScore
  /\ Remember(page)
  /\ shown' = [shown EXCEPT ![Due] = page]
  /\ Scored(SignalScore(page, Ref))
  /\ UNCHANGED probeVars

ProbePage == Scoring("headless") /\ ProbeNext(Due) /\ UNCHANGED <<run, phase, scoring>>

ScoreProbe ==
  /\ Scoring("headless")
  /\ Probed(Due)
  /\ Scored(ProbeScore(probes[Due]))
  /\ UNCHANGED <<probeVars, scores, shown>>

(* A verdict that needs more than the threshold.                           *)
Exceeds(score, hundredths) == ~AtLeast(Literal(hundredths), score)

(* best_score >= self.threshold                                            *)
Reaches(score, hundredths) == AtLeast(score, Literal(hundredths))

(* _confidence()                                                           *)
Confidence(score) ==
  IF Reaches(score, 90) THEN "high" ELSE IF Reaches(score, 70) THEN "medium" ELSE "low"

(* The DetectionResult for a URL whose best reference is top.              *)
Verdict(url, top) ==
  LET matched == Reaches(top.score, run.threshold)
  IN  [url |-> url, matched |-> matched, score |-> top.score,
       asset |-> IF matched THEN top.asset ELSE NoAsset,
       grade |-> Confidence(top.score)]

(* A match is recorded in the ledger before the result is returned.        *)
Conclude ==
  /\ phase = "detect"
  /\ Len(results) < Len(run.urls)
  /\ tried = Len(References)
  /\ results' = Append(results, Verdict(Due, best))
  /\ evidence' = AppendIf(Verdict(Due, best).matched, evidence, Verdict(Due, best))
  /\ tried' = 0
  /\ best' = Unscored
  /\ UNCHANGED <<run, phase, scores, shown, probeVars>>

-----------------------------------------------------------------------------
(* run_live(): detection, the rest of the run, and finally close().        *)

Goto(next) == phase' = next /\ UNCHANGED <<run, scoring, probeVars>>

EndDetection == phase = "detect" /\ Len(results) = Len(run.urls) /\ Goto("act")

(* The graph, the blocklist and the embedded players (module LiveRun) are  *)
(* dealt with, or an exception or an interrupt ends the run.               *)
EndAct == phase = "act" /\ Goto("closing")

(* KeyboardInterrupt, which no handler of a probe catches, or a URL that   *)
(* the heuristic backend cannot parse (heuristic.py:76-79).                *)
Interrupt == phase = "detect" /\ Goto("closing")

(* if headless and hasattr(backend, "close")                               *)
CloseBackend ==
  /\ phase = "closing"
  /\ phase' = "done"
  /\ IF run.backend = "headless" THEN Close ELSE UNCHANGED probeVars
  /\ UNCHANGED <<run, scoring>>

Next ==
  \/ ScoreStub \/ ScoreCached
  \/ \E page \in Pages \union {NoPage} : ScorePage(page)
  \/ ProbePage \/ ScoreProbe
  \/ Conclude
  \/ EndDetection \/ EndAct \/ Interrupt \/ CloseBackend

Spec == Init /\ [][Next]_vars /\ WF_vars(Next)

-----------------------------------------------------------------------------
(* A URL that comes twice gets one verdict and one grade, whatever the     *)
(* network would show the second time and whether the first time failed:   *)
(* every backend remembers (heuristic.py:112, headless.py:83 and :132).    *)
OneVerdictPerUrl ==
  \A i, j \in DOMAIN results : results[i].url = results[j].url => results[i] = results[j]

(* A manifest request that the browser saw makes a match; it is lost only  *)
(* in a probe that says it has failed, as when the page times out after    *)
(* the request (headless.py:6-9 and :109).                                 *)
SightDecides ==
  \A i \in DOMAIN results :
    LET url == results[i].url
    IN  run.backend = "headless" /\ url \in requested /\ ~probes[url].error
          => results[i].matched

(* Failed probes leave a context open each, and no URL fails twice: what   *)
(* piles up in the browser is bounded by the URLs that failed (:128-132).  *)
LeaksAreBounded ==
  contexts <= Cardinality({u \in Urls : Probed(u) /\ probes[u].error})
              + (IF step = "idle" /\ phase = "detect" THEN 0 ELSE 1)

(* However the run ends nothing is left running, unless closing itself     *)
(* raised, or a driver was started anew after a launch had failed and      *)
(* close() knows one of the two only (headless.py:68 and :71-79).          *)
NothingLeftRunning ==
  phase = "done" => (contexts > 0 => stuck) /\ (drivers > 0 => stuck \/ restarted)

(* Adding floats never turns a verdict, at either threshold, and never     *)
(* gives a better grade than the hundredths add up to (heuristic.py:91,    *)
(* matcher.py:50).                                                         *)
VerdictIsExact ==
  run.backend = "heuristic" => \A i \in DOMAIN results :
    LET page == shown[results[i].url]
        exact == SignalSum(page, References[1]).h
    IN  /\ results[i].matched <=> exact >= run.threshold
        /\ results[i].grade = "high" => exact >= 90
        /\ results[i].grade = "medium" => exact >= 70

(* The run ends: every call has a timeout.                                 *)
RunEnds == <>(phase = "done")
=============================================================================
