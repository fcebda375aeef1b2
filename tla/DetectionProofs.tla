---------------------------- MODULE DetectionProofs ----------------------------
(***************************************************************************)
(* What holds of Detection for any runs, pages and answers: a URL gets one *)
(* verdict however often it comes, a manifest that was seen decides it,    *)
(* rounding turns none, and the drivers and contexts that are open at any  *)
(* moment are accounted for by the state of the backend and the probes     *)
(* that failed.                                                            *)
(***************************************************************************)
EXTENDS Detection, ListLemmas

Opened == step \in {"page", "goto", "look", "frames", "close"}

Failed == {u \in Urls : Probed(u) /\ probes[u].error}

Types ==
  /\ run \in Runs
  /\ phase \in {"detect", "act", "closing", "done"}
  /\ tried \in Nat
  /\ \E S : results \in Seq(S)
  /\ HeadlessTypeOK

(* The backend is in the middle of a probe only while evaluate() waits for *)
(* the score of a URL that it has not probed before.                       *)
ProbeIsDue ==
  phase = "detect" /\ step # "idle" =>
    /\ run.backend = "headless"
    /\ Len(results) < Len(run.urls)
    /\ tried < Len(References)
    /\ ~Probed(Due)

(* What the backend holds is running.                                      *)
HeldIsRunning ==
  /\ step = "launch" => held
  /\ held => drivers >= 1
  /\ Opened => contexts >= 1

(* Without a second start the driver that is held is the only one.         *)
OneDriver == phase # "done" /\ ~restarted => drivers = (IF held THEN 1 ELSE 0)

OthersHoldNothing ==
  run.backend # "headless" => ~held /\ drivers = 0 /\ contexts = 0

(* Each failed probe left at most one context open; a probe that goes on   *)
(* has one, and what was open when close() raised may still be.            *)
ContextsCounted ==
  contexts <= Cardinality(Failed) + (IF Opened \/ phase = "done" THEN 1 ELSE 0)

Resources ==
  /\ Types
  /\ ProbeIsDue
  /\ HeldIsRunning
  /\ OneDriver
  /\ OthersHoldNothing
  /\ ContextsCounted
  /\ NothingLeftRunning

-----------------------------------------------------------------------------
(* There are as many failed probes as a natural number says.               *)
LEMMA FailedIsFinite ==
  ASSUME HeadlessTypeOK
  PROVE  IsFiniteSet(Failed) /\ Cardinality(Failed) \in Nat
<1>1. Failed \subseteq Urls
  BY DEF Failed
<1>2. IsFiniteSet(Urls)
  BY DetectionAssumption DEF DetectionAssumption
<1> QED
  BY <1>1, <1>2, FS_Subset, FS_CardinalityType

(* Keeping a probe of a URL that had none adds it to the failed ones or to *)
(* none (headless.py:132).                                                 *)
LEMMA KeepCounts ==
  ASSUME HeadlessTypeOK, NEW url \in Urls, ~Probed(url), NEW probe \in Probe,
         probes' = [probes EXCEPT ![url] = probe]
  PROVE  /\ probe.error => Cardinality(Failed') = Cardinality(Failed) + 1
         /\ Cardinality(Failed') \in Nat /\ Cardinality(Failed') >= Cardinality(Failed)
         /\ probes' \in [Urls -> Probe \union {NoProbe}]
<1>1. probes' \in [Urls -> Probe \union {NoProbe}]
  BY DEF HeadlessTypeOK
<1>2. url \notin Failed
  BY DEF Failed
<1>3. \A u \in Urls \ {url} : probes'[u] = probes[u]
  BY DEF HeadlessTypeOK
<1>4. probes'[url] = probe
  BY DEF HeadlessTypeOK
<1>5. CASE probe.error
  <2>1. Probed(url)'
    BY <1>4, NoProbeIsNone DEF Probed
  <2>2. Failed' = Failed \union {url}
    BY <1>2, <1>3, <1>4, <1>5, <2>1 DEF Failed, Probed
  <2>3. IsFiniteSet(Failed) /\ Cardinality(Failed) \in Nat
    BY FailedIsFinite
  <2>4. Cardinality(Failed') = Cardinality(Failed) + 1
    BY <1>2, <2>2, <2>3, FS_AddElement
  <2> QED
    BY <1>1, <1>5, <2>3, <2>4
<1>6. CASE ~probe.error
  <2>1. Failed' = Failed
    BY <1>2, <1>3, <1>4, <1>6 DEF Failed, Probed
  <2> QED
    BY <1>1, <1>6, <2>1, FailedIsFinite
<1> QED
  BY <1>5, <1>6

-----------------------------------------------------------------------------
(* Resources holds at first: nothing is open (headless.py:47-61).          *)
LEMMA ResourcesInit == Init => Resources
<1> SUFFICES ASSUME Init PROVE Resources
  OBVIOUS
<1> USE DEF Init, HeadlessInit
<1>a. \E S : results \in Seq(S)
  <2>1. results \in Seq({})
    OBVIOUS
  <2> QED
    BY <2>1
<1>1. Types
  BY <1>a DEF Types, HeadlessTypeOK, Probe, EmptyProbe, Steps
<1>2. Failed = {}
  BY DEF Failed, Probed
<1>3. ContextsCounted
  BY <1>2, FS_EmptySet DEF ContextsCounted, Opened
<1> QED
  BY <1>1, <1>3 DEF Resources, ProbeIsDue, HeldIsRunning, OneDriver, OthersHoldNothing,
                    Opened, NothingLeftRunning

(* The observation that is due is one of the URLs.                         *)
LEMMA DueIsUrl ==
  ASSUME Types, Len(results) < Len(run.urls)
  PROVE  Due \in Urls
<1>1. run.urls \in Seq(Urls)
  BY DetectionAssumption DEF DetectionAssumption, Types
<1>2. Len(results) \in Nat
  BY DEF Types
<1>3. Len(results) + 1 \in 1..Len(run.urls)
  BY <1>1, <1>2
<1> QED
  BY <1>1, <1>3 DEF Due

(* Every call of a probe keeps Resources (headless.py:82-133).             *)
LEMMA ResourcesProbe ==
  ASSUME Resources, ProbePage
  PROVE  Resources'
<1> USE DEF Resources
<1>1. /\ phase = "detect" /\ run.backend = "headless"
      /\ Len(results) < Len(run.urls) /\ tried < Len(References)
      /\ ProbeNext(Due)
      /\ UNCHANGED <<run, phase, tried, results>>
  BY DEF ProbePage, Scoring, scoring
<1>2. Due \in Urls
  BY <1>1, DueIsUrl
<1>3. Due' = Due
  BY <1>1 DEF Due
<1>4. OthersHoldNothing' /\ NothingLeftRunning'
  BY <1>1 DEF OthersHoldNothing, NothingLeftRunning
<1> HIDE DEF Resources
<1> DEFINE Rest == Types' /\ ProbeIsDue' /\ HeldIsRunning' /\ OneDriver' /\ ContextsCounted'
<1>a. SUFFICES Rest
  BY <1>4 DEF Resources
<1>5. HeadlessTypeOK
  BY DEF Resources, Types
<1>6. Cardinality(Failed) \in Nat
  BY <1>5, FailedIsFinite
<1>7. ASSUME probes' = probes
      PROVE  Failed' = Failed /\ (Probed(Due)' <=> Probed(Due))
  BY <1>3, <1>7 DEF Failed, Probed
<1>8. CASE BeginProbe(Due)
  BY <1>1, <1>3, <1>6, <1>7, <1>8
  DEF BeginProbe, processes, Resources, Types, HeadlessTypeOK, Steps, Probe, EmptyProbe,
      ProbeIsDue, HeldIsRunning, OneDriver, ContextsCounted, Opened
<1>9. CASE StartDriver
  BY <1>1, <1>3, <1>6, <1>7, <1>9
  DEF StartDriver, Resources, Types, HeadlessTypeOK, Steps,
      ProbeIsDue, HeldIsRunning, OneDriver, ContextsCounted, Opened
<1>10. CASE LaunchBrowser
  BY <1>1, <1>3, <1>6, <1>7, <1>10
  DEF LaunchBrowser, Resources, Types, HeadlessTypeOK, Steps,
      ProbeIsDue, HeldIsRunning, OneDriver, ContextsCounted, Opened
<1>11. CASE OpenContext
  BY <1>1, <1>3, <1>6, <1>7, <1>11
  DEF OpenContext, Resources, Types, HeadlessTypeOK, Steps,
      ProbeIsDue, HeldIsRunning, OneDriver, ContextsCounted, Opened
<1>12. CASE OpenPage
  BY <1>1, <1>3, <1>6, <1>7, <1>12
  DEF OpenPage, processes, Resources, Types, HeadlessTypeOK, Steps,
      ProbeIsDue, HeldIsRunning, OneDriver, ContextsCounted, Opened
<1>13. CASE RequestManifest(Due)
  BY <1>1, <1>2, <1>3, <1>6, <1>7, <1>13
  DEF RequestManifest, processes, Resources, Types, HeadlessTypeOK,
      ProbeIsDue, HeldIsRunning, OneDriver, ContextsCounted, Opened
<1>14. CASE Load
  BY <1>1, <1>3, <1>6, <1>7, <1>14
  DEF Load, processes, Resources, Types, HeadlessTypeOK, Steps,
      ProbeIsDue, HeldIsRunning, OneDriver, ContextsCounted, Opened
<1>15. ASSUME NEW found \in BOOLEAN, LookForPlayer(found)
       PROVE  Rest
  BY <1>1, <1>3, <1>6, <1>7, <1>15
  DEF LookForPlayer, processes, Resources, Types, HeadlessTypeOK, Steps, Probe,
      ProbeIsDue, HeldIsRunning, OneDriver, ContextsCounted, Opened
<1>16. ASSUME NEW hosts \in SUBSET Embeds, ReadFrames(hosts)
       PROVE  Rest
  <2>1. draft' \in Probe
    BY <1>5, <1>16 DEF ReadFrames, HeadlessTypeOK, Probe
  <2> QED
    BY <1>1, <1>3, <1>6, <1>7, <1>16, <2>1
    DEF ReadFrames, processes, Resources, Types, HeadlessTypeOK, Steps,
        ProbeIsDue, HeldIsRunning, OneDriver, ContextsCounted, Opened
<1>17. ~Probed(Due) \/ step = "idle"
  BY <1>1 DEF Resources, ProbeIsDue
<1>18. CASE CloseContext(Due)
  <2>1. ~Probed(Due) /\ draft \in Probe /\ probes' = [probes EXCEPT ![Due] = draft]
    BY <1>5, <1>17, <1>18 DEF CloseContext, Keep, HeadlessTypeOK
  <2>2. /\ probes' \in [Urls -> Probe \union {NoProbe}]
        /\ Cardinality(Failed') \in Nat /\ Cardinality(Failed') >= Cardinality(Failed)
    BY <1>2, <1>5, <1>6, <2>1, KeepCounts
  <2> QED
    BY <1>1, <1>3, <1>6, <1>18, <2>2
    DEF CloseContext, Keep, Resources, Types, HeadlessTypeOK, Steps,
        ProbeIsDue, HeldIsRunning, OneDriver, ContextsCounted, Opened
<1>19. CASE Fail(Due)
  <2> DEFINE kept == [draft EXCEPT !.error = TRUE]
  <2>1. ~Probed(Due) /\ kept \in Probe /\ kept.error /\ probes' = [probes EXCEPT ![Due] = kept]
    BY <1>5, <1>17, <1>19 DEF Fail, Keep, HeadlessTypeOK, Probe
  <2>2. probes' \in [Urls -> Probe \union {NoProbe}] /\ Cardinality(Failed') = Cardinality(Failed) + 1
    <3> HIDE DEF kept
    <3> QED
      BY <1>2, <1>5, <2>1, KeepCounts
  <2> QED
    BY <1>1, <1>3, <1>6, <1>19, <2>2
    DEF Fail, Keep, Resources, Types, HeadlessTypeOK, Steps,
        ProbeIsDue, HeldIsRunning, OneDriver, ContextsCounted, Opened
<1> QED
  BY <1>1, <1>8, <1>9, <1>10, <1>11, <1>12, <1>13, <1>14, <1>15, <1>16, <1>18, <1>19
  DEF ProbeNext

(* A score leaves the browser alone, and comes when no probe is under way. *)
LEMMA ResourcesScored ==
  ASSUME Resources, NEW score, Scored(score), UNCHANGED probeVars,
         Len(results) < Len(run.urls), phase = "detect",
         step = "idle" \/ run.backend # "headless"
  PROVE  Resources'
<1>1. UNCHANGED <<run, phase, results>> /\ tried' = tried + 1
  BY DEF Scored
<1>2. Failed' = Failed
  BY DEF Failed, Probed, probeVars
<1>3. ProbeIsDue'
  BY <1>1 DEF Resources, ProbeIsDue, probeVars
<1> QED
  BY <1>1, <1>2, <1>3
  DEF Resources, Types, HeadlessTypeOK, HeldIsRunning, OneDriver, OthersHoldNothing,
      ContextsCounted, NothingLeftRunning, Opened, probeVars

(* A verdict does as little (matcher.py:76-95).                            *)
LEMMA ResourcesConclude ==
  ASSUME Resources, Conclude
  PROVE  Resources'
<1>1. UNCHANGED <<run, phase>> /\ tried' = 0 /\ UNCHANGED probeVars
  BY DEF Conclude
<1>2. Failed' = Failed
  BY <1>1 DEF Failed, Probed, probeVars
<1>3. \E S : results' \in Seq(S)
  <2>1. PICK S : results \in Seq(S)
    BY DEF Resources, Types
  <2>2. PICK d : results' = Append(results, d)
    BY DEF Conclude
  <2>3. results' \in Seq(S \union {d})
    <3>1. results \in Seq(S \union {d})
      BY <2>1
    <3> QED
      BY <2>2, <3>1
  <2> QED
    BY <2>3
<1>4. phase = "detect" /\ step = "idle"
  BY DEF Conclude, Resources, Types, ProbeIsDue, HeadlessTypeOK, Steps
<1> QED
  BY <1>1, <1>2, <1>3, <1>4
  DEF Resources, Types, HeadlessTypeOK, ProbeIsDue, HeldIsRunning, OneDriver,
      OthersHoldNothing, ContextsCounted, NothingLeftRunning, Opened, probeVars

(* Whichever way the run gets to its finally (live.py:126-141).            *)
LEMMA ResourcesPhases ==
  ASSUME Resources, EndDetection \/ EndAct \/ Interrupt
  PROVE  Resources'
<1>1. phase' \in {"act", "closing"} /\ phase # "done"
  BY DEF EndDetection, EndAct, Interrupt, Goto
<1>2. UNCHANGED <<run, scoring, probeVars>>
  BY DEF EndDetection, EndAct, Interrupt, Goto
<1>3. Failed' = Failed
  BY <1>2 DEF Failed, Probed, probeVars
<1> QED
  BY <1>1, <1>2, <1>3
  DEF Resources, Types, HeadlessTypeOK, ProbeIsDue, HeldIsRunning, OneDriver, scoring,
      OthersHoldNothing, ContextsCounted, NothingLeftRunning, Opened, probeVars

(* close() lets go of everything it knows of (headless.py:71-79).          *)
LEMMA ResourcesClose ==
  ASSUME Resources, CloseBackend
  PROVE  Resources'
<1>1. phase # "done" /\ phase' = "done" /\ UNCHANGED <<run, tried, results, probes>>
  BY DEF CloseBackend, Close, probeVars, scoring
<1>2. Failed' = Failed /\ Cardinality(Failed) \in Nat
  BY <1>1, FailedIsFinite DEF Failed, Probed, Resources, Types
<1>3. CASE run.backend # "headless"
  BY <1>1, <1>2, <1>3
  DEF CloseBackend, Resources, Types, HeadlessTypeOK, ProbeIsDue, HeldIsRunning, OneDriver,
      OthersHoldNothing, ContextsCounted, NothingLeftRunning, Opened, probeVars
<1>4. CASE run.backend = "headless"
  <2>1. Close
    BY <1>4 DEF CloseBackend
  <2>2. contexts' \in {0, contexts} /\ (stuck' \/ contexts' = 0)
    BY <2>1 DEF Close, CloseAll, CloseSome
  <2>3. /\ held' = FALSE /\ browser' = FALSE /\ step' = "idle"
        /\ UNCHANGED <<draft, seen, requested, restarted>>
    BY <2>1 DEF Close, LetGo
  <2>4. drivers' \in Nat /\ (drivers' > 0 => stuck' \/ restarted')
    <3>1. CASE CloseSome
      BY <3>1, <2>3 DEF CloseSome, Resources, Types, HeadlessTypeOK
    <3>2. CASE CloseAll
      BY <1>1, <2>3, <3>2
      DEF CloseAll, Resources, Types, HeadlessTypeOK, HeldIsRunning, OneDriver
    <3> QED
      BY <2>1, <3>1, <3>2 DEF Close
  <2>5. stuck' \in BOOLEAN
    BY <2>1 DEF Close, CloseAll, CloseSome, Resources, Types, HeadlessTypeOK
  <2>6. HeadlessTypeOK'
    <3>1. HeadlessTypeOK
      BY DEF Resources, Types
    <3>2. contexts' \in Nat
      BY <2>2, <3>1 DEF HeadlessTypeOK
    <3>3. drivers' \in Nat /\ stuck' \in BOOLEAN
      BY <2>4, <2>5
    <3> QED
      BY <1>1, <2>3, <3>1, <3>2, <3>3 DEF HeadlessTypeOK, Steps
  <2>7. Types'
    BY <1>1, <2>6 DEF Resources, Types
  <2> QED
    BY <1>1, <1>2, <1>4, <2>2, <2>3, <2>4, <2>7
    DEF Resources, Types, HeadlessTypeOK, ProbeIsDue, HeldIsRunning, OneDriver,
        OthersHoldNothing, ContextsCounted, NothingLeftRunning, Opened
<1> QED
  BY <1>3, <1>4

-----------------------------------------------------------------------------
(* Every step keeps Resources.                                             *)
LEMMA ResourcesStep == Resources /\ [Next]_vars => Resources'
<1> SUFFICES ASSUME Resources, [Next]_vars PROVE Resources'
  OBVIOUS
<1>1. CASE ScoreStub
  BY <1>1, ResourcesScored DEF ScoreStub, Scoring
<1>2. CASE ScoreCached
  BY <1>2, ResourcesScored DEF ScoreCached, Scoring
<1>3. ASSUME NEW page \in Pages \union {NoPage}, ScorePage(page)
      PROVE  Resources'
  BY <1>3, ResourcesScored DEF ScorePage, Scoring
<1>4. CASE ProbePage
  BY <1>4, ResourcesProbe
<1>5. CASE ScoreProbe
  <2>1. step = "idle"
    BY <1>5 DEF ScoreProbe, Scoring, Resources, Types, ProbeIsDue
  <2> QED
    BY <1>5, <2>1, ResourcesScored DEF ScoreProbe, Scoring
<1>6. CASE Conclude
  BY <1>6, ResourcesConclude
<1>7. CASE EndDetection \/ EndAct \/ Interrupt
  BY <1>7, ResourcesPhases
<1>8. CASE CloseBackend
  BY <1>8, ResourcesClose
<1>9. CASE UNCHANGED vars
  <2>1. Failed' = Failed
    BY <1>9 DEF Failed, Probed, vars, probeVars
  <2> QED
    BY <1>9, <2>1
    DEF vars, scoring, probeVars, Resources, Types, HeadlessTypeOK, ProbeIsDue, HeldIsRunning,
        OneDriver, OthersHoldNothing, ContextsCounted, NothingLeftRunning, Opened, Probed, Due
<1> QED
  BY <1>1, <1>2, <1>3, <1>4, <1>5, <1>6, <1>7, <1>8, <1>9 DEF Next

(* Resources holds in every state of a run, for any runs, pages and        *)
(* answers (headless.py:64-133).                                           *)
THEOREM ResourcesAccounted == Spec => []Resources
BY ResourcesInit, ResourcesStep, PTL DEF Spec

(* A run that has ended left nothing running unless close() raised or a    *)
(* driver was started while one was held (headless.py:68, :71-79).         *)
THEOREM NothingIsLeft == Spec => []NothingLeftRunning
<1>1. Resources => NothingLeftRunning
  BY DEF Resources
<1> QED
  BY <1>1, ResourcesAccounted, PTL

(* Contexts left open are no more than probes that failed and the one that *)
(* is under way (headless.py:128-132).                                     *)
THEOREM ContextsAreBounded == Spec => []LeaksAreBounded
<1>1. Resources => LeaksAreBounded
  <2> SUFFICES ASSUME Resources PROVE LeaksAreBounded
    OBVIOUS
  <2>1. Cardinality(Failed) \in Nat
    BY FailedIsFinite DEF Resources, Types
  <2> QED
    BY <2>1 DEF Resources, ContextsCounted, LeaksAreBounded, Failed, Opened, Types, HeadlessTypeOK
<1> QED
  BY <1>1, ResourcesAccounted, PTL

-----------------------------------------------------------------------------
(* Rounding changes what a score is short of or above its hundredths, and  *)
(* nothing of those (FloatScore).                                          *)
LEMMA RoundEvenType ==
  ASSUME NEW x \in Score
  PROVE  RoundEven(x) \in Score /\ RoundEven(x).h = x.h
<1> DEFINE M == 100 * Spacing(x)
           p == 268435456 % (2 * M)
           t == (x.h * ((p * p) % (2 * M)) + x.r) % (2 * M)
           rest == t % M
<1>1. x.h \in Int /\ x.r \in Int
  BY DEF Score
<1>2. M \in Nat /\ M > 0 /\ 2 * M \in Nat /\ 2 * M > 0
  BY DEF Spacing
<1>3. \A a \in Int : a % M \in Int /\ a % (2 * M) \in Int
  <2> HIDE DEF M
  <2> QED
    BY <1>2
<1>4. p \in Int
  <2> HIDE DEF M
  <2> QED
    BY <1>3, SMT
<1>5. rest \in Int
  <2> HIDE DEF M, p
  <2>1. p * p \in Int
    BY <1>4
  <2>2. x.h * ((p * p) % (2 * M)) \in Int
    BY <1>1, <1>3, <2>1
  <2>3. t \in Int
    BY <1>1, <1>3, <2>2
  <2> QED
    BY <1>3, <2>3
<1>6. x.r - rest \in Int /\ x.r + M - rest \in Int
  <2> HIDE DEF rest, M
  <2> QED
    BY <1>1, <1>2, <1>5
<1>7. \/ RoundEven(x) = [h |-> x.h, r |-> x.r - rest]
      \/ RoundEven(x) = [h |-> x.h, r |-> x.r + M - rest]
  BY SMT DEF RoundEven
<1> HIDE DEF rest, M
<1> QED
  BY <1>1, <1>6, <1>7 DEF Score

(* Literals, sums and the lesser of two are scores.                        *)
LEMMA ScoreArithmetic ==
  /\ Zero \in Score
  /\ \A n \in Int : Literal(n) \in Score /\ Literal(n).h = n
  /\ \A x, y \in Score : Plus(x, y) \in Score /\ Plus(x, y).h = x.h + y.h
  /\ \A x, y \in Score : Least(x, y) \in Score
<1>1. Zero \in Score
  BY DEF Zero, Score
<1>2. \A a, b \in Int : [h |-> a, r |-> b] \in Score
  BY DEF Score
<1>3. ASSUME NEW n \in Int
      PROVE  Literal(n) \in Score /\ Literal(n).h = n
  <2> DEFINE x == [h |-> n, r |-> 0]
  <2>1. x \in Score /\ x.h = n
    BY <1>2
  <2>2. RoundEven(x) \in Score /\ RoundEven(x).h = x.h
    <3> HIDE DEF x
    <3> QED
      BY <2>1, RoundEvenType
  <2> QED
    BY <2>1, <2>2 DEF Literal
<1>4. ASSUME NEW x \in Score, NEW y \in Score
      PROVE  Plus(x, y) \in Score /\ Plus(x, y).h = x.h + y.h
  <2> DEFINE z == [h |-> x.h + y.h, r |-> x.r + y.r]
  <2>1. x.h + y.h \in Int /\ x.r + y.r \in Int
    BY DEF Score
  <2>2. z \in Score /\ z.h = x.h + y.h
    BY <1>2, <2>1
  <2>3. RoundEven(z) \in Score /\ RoundEven(z).h = z.h
    <3> HIDE DEF z
    <3> QED
      BY <2>2, RoundEvenType
  <2> QED
    BY <2>2, <2>3 DEF Plus
<1>5. \A x, y \in Score : Least(x, y) \in Score
  BY DEF Least
<1> QED
  BY <1>1, <1>3, <1>4, <1>5

(* What the backends return is a score (heuristic.py:109, headless.py:138, *)
(* matcher.py:43).                                                         *)
LEMMA BackendsScore ==
  /\ \A page, ref : SignalScore(page, ref) \in Score
  /\ \A probe : ProbeScore(probe) \in Score
  /\ \A url \in Urls : \A ref : KnownScore(url, ref) \in Score
<1>1. \A found, w : \A x \in Score : w \in Int => Signal(found, x, w) \in Score
  BY ScoreArithmetic DEF Signal
<1>2. ASSUME NEW page, NEW ref
      PROVE  SignalScore(page, ref) \in Score
  <2> DEFINE s1 == Signal("hls" \in page.signals, Zero, 40)
             s2 == Signal("dash" \in page.signals, s1, 30)
             s3 == Signal("player" \in page.signals, s2, 20)
             s4 == Signal("video" \in page.signals, s3, 15)
             s5 == Signal("iframe" \in page.signals, s4, 10)
             s6 == Signal("live" \in page.signals, s5, 15)
             s7 == Signal("live" \in page.signals /\ ref \in page.terms, s6, 10)
  <2>1. SignalSum(page, ref) = s7
    BY DEF SignalSum
  <2>2. s1 \in Score
    BY <1>1, ScoreArithmetic
  <2>3. s2 \in Score
    <3> HIDE DEF s1
    <3> QED
      BY <1>1, <2>2
  <2>4. s3 \in Score
    <3> HIDE DEF s2
    <3> QED
      BY <1>1, <2>3
  <2>5. s4 \in Score
    <3> HIDE DEF s3
    <3> QED
      BY <1>1, <2>4
  <2>6. s5 \in Score
    <3> HIDE DEF s4
    <3> QED
      BY <1>1, <2>5
  <2>7. s6 \in Score
    <3> HIDE DEF s5
    <3> QED
      BY <1>1, <2>6
  <2>8. s7 \in Score
    <3> HIDE DEF s6
    <3> QED
      BY <1>1, <2>7
  <2> HIDE DEF s7
  <2> QED
    BY <2>1, <2>8, ScoreArithmetic DEF SignalScore
<1>3. \A probe : ProbeScore(probe) \in Score
  BY ScoreArithmetic DEF ProbeScore
<1>4. \A url \in Urls : \A ref : KnownScore(url, ref) \in Score
  BY ScoreArithmetic, DetectionAssumption DEF KnownScore, DetectionAssumption
<1> QED
  BY <1>2, <1>3, <1>4

-----------------------------------------------------------------------------
Top == [asset : Assets, score : Score]

(* The better of two is one of them, or the new one (matcher.py:70).       *)
LEMMA BetterType ==
  ASSUME NEW top \in Top, NEW ref \in ToSet(References), NEW score \in Score
  PROVE  /\ Better(top, ref, score) \in Top
         /\ AtLeast(Better(top, ref, score).score, score)
<1>1. AtLeast(score, score)
  BY DEF AtLeast, Score
<1> QED
  BY <1>1 DEF Better, Top, Assets

(* A verdict is a result, and a match if it says so (matcher.py:73-95).    *)
LEMMA VerdictType ==
  ASSUME NEW url \in Urls, NEW top \in Top
  PROVE  /\ Verdict(url, top) \in Result
         /\ Verdict(url, top).matched <=> Verdict(url, top) \in Match
<1> DEFINE matched == Reaches(top.score, run.threshold)
           asset == IF matched THEN top.asset ELSE NoAsset
<1>1. matched \in BOOLEAN
  BY DEF Reaches, AtLeast
<1>2. top.score \in Score /\ top.asset \in Assets /\ NoAsset \in Assets
  BY DEF Top, Assets
<1>3. asset \in Assets /\ Confidence(top.score) \in Grades
  BY <1>2 DEF Confidence, Grades
<1>4. Verdict(url, top) = [url |-> url, matched |-> matched, score |-> top.score,
                           asset |-> asset, grade |-> Confidence(top.score)]
  BY DEF Verdict
<1>5. Verdict(url, top).matched <=> matched
  BY <1>1, <1>4
<1>6. Verdict(url, top) \in Match => Verdict(url, top).matched
  BY DEF Match
<1> HIDE DEF matched, asset
<1>7. Verdict(url, top) \in Result
  BY <1>1, <1>2, <1>3, <1>4 DEF Result
<1>8. matched => Verdict(url, top) \in Match
  BY <1>2, <1>3, <1>4 DEF Match
<1> QED
  BY <1>5, <1>6, <1>7, <1>8

-----------------------------------------------------------------------------
(* No run starts with a result, and without results there is no evidence.  *)
LEMMA TypesInit == Init => TypeOK
<1> SUFFICES ASSUME Init PROVE TypeOK
  OBVIOUS
<1>1. HeadlessTypeOK
  BY ResourcesInit DEF Resources, Types
<1>2. Len(References) \in Nat
  BY DetectionAssumption DEF DetectionAssumption
<1>3. run \in Runs /\ run.urls \in Seq(Urls)
  BY DetectionAssumption DEF DetectionAssumption, Init
<1>4. results \in Seq(Result) /\ results = <<>> /\ Len(results) = 0
  BY DEF Init
<1>5. evidence = Kept(results, Match)
  <2>1. PICK f : KeepsIn(f, <<>>, Match) /\ Kept(<<>>, Match) = f[0]
    <3>1. <<>> \in Seq(Result) /\ Len(<<>>) = 0
      OBVIOUS
    <3> QED
      BY <3>1, KeptUnfolds
  <2> QED
    BY <1>4, <2>1 DEF KeepsIn, Init
<1>6. best \in Top
  BY ScoreArithmetic DEF Init, Unscored, Top, Assets
<1>7. scores \in [Urls -> Score \union {NoScore}] /\ shown \in [Urls -> Pages \union {NoPage}]
  BY DEF Init
<1>8. Len(results) <= Len(run.urls) /\ \A i \in DOMAIN results : results[i].url = run.urls[i]
  BY <1>3, <1>4
<1>9. tried \in 0..Len(References) /\ phase = "detect"
  BY <1>2 DEF Init
<1> QED
  BY <1>1, <1>3, <1>4, <1>5, <1>6, <1>7, <1>8, <1>9 DEF TypeOK, Top

(* What a verdict says: its URL, whether the best score reaches the        *)
(* threshold, and the grade (matcher.py:73-95).                            *)
LEMMA VerdictFields ==
  ASSUME NEW url, NEW top
  PROVE  /\ Verdict(url, top).url = url
         /\ Verdict(url, top).matched <=> Reaches(top.score, run.threshold)
         /\ Verdict(url, top).grade = Confidence(top.score)
BY DEF Verdict, Reaches, AtLeast

(* A score that comes back leaves the loop well typed (matcher.py:66-73).  *)
LEMMA TypesScored ==
  ASSUME TypeOK, NEW score \in Score, Scored(score), HeadlessTypeOK', tried < Len(References),
         scores' \in [Urls -> Score \union {NoScore}], shown' \in [Urls -> Pages \union {NoPage}]
  PROVE  TypeOK'
<1>1. UNCHANGED <<run, phase, results, evidence>> /\ tried' = tried + 1
  BY DEF Scored
<1>2. References \in Seq(ToSet(References)) /\ Len(References) \in Nat /\ tried \in Nat
  BY DetectionAssumption DEF DetectionAssumption, TypeOK
<1>3. Ref \in ToSet(References) /\ tried' \in 0..Len(References)
  BY <1>1, <1>2 DEF Ref
<1>4. best' \in Top
  BY <1>3, BetterType DEF Scored, TypeOK, Top
<1> QED
  BY <1>1, <1>3, <1>4 DEF TypeOK, Top

(* So does a verdict, which the ledger has when it is a match              *)
(* (matcher.py:76-95).                                                     *)
LEMMA TypesConclude ==
  ASSUME TypeOK, Conclude, HeadlessTypeOK'
  PROVE  TypeOK'
<1> DEFINE verdict == Verdict(Due, best)
<1>1. UNCHANGED <<run, phase, scores, shown>> /\ tried' = 0 /\ best' = Unscored
  BY DEF Conclude
<1>2. /\ results' = Append(results, verdict)
      /\ evidence' = AppendIf(verdict.matched, evidence, verdict)
  BY DEF Conclude
<1>3. run.urls \in Seq(Urls) /\ Len(run.urls) \in Nat /\ Len(References) \in Nat
  BY DetectionAssumption DEF DetectionAssumption, TypeOK
<1>4. results \in Seq(Result) /\ Len(results) \in Nat /\ Len(results) < Len(run.urls)
  BY DEF TypeOK, Conclude
<1>5. Due \in Urls /\ Due = run.urls[Len(results) + 1]
  <2>1. Len(results) + 1 \in 1..Len(run.urls)
    BY <1>3, <1>4
  <2> QED
    BY <1>3, <2>1 DEF Due
<1>6. /\ verdict \in Result /\ verdict.url = Due
      /\ verdict.matched <=> verdict \in Match
  BY <1>5, VerdictType, VerdictFields DEF TypeOK, Top
<1> HIDE DEF verdict
<1>7. /\ results' \in Seq(Result) /\ Len(results') = Len(results) + 1
      /\ \A i \in 1..Len(results) : results'[i] = results[i]
      /\ results'[Len(results) + 1] = verdict
  BY <1>2, <1>4, <1>6
<1>8. \A i \in DOMAIN results' : results'[i].url = run.urls[i]
  <2>1. \A i \in 1..Len(results) : results[i].url = run.urls[i]
    BY <1>4 DEF TypeOK
  <2> QED
    BY <1>4, <1>5, <1>6, <1>7, <2>1
<1>9. evidence' = Kept(results', Match)
  <2>1. Kept(Append(results, verdict), Match)
          = AppendIf(verdict \in Match, Kept(results, Match), verdict)
    BY <1>4, <1>6, KeptAppend
  <2>2. evidence = Kept(results, Match)
    BY DEF TypeOK
  <2> QED
    BY <1>2, <1>6, <2>1, <2>2 DEF AppendIf
<1>10. best' \in Top
  BY <1>1, ScoreArithmetic DEF Unscored, Top, Assets
<1>11. Len(results') <= Len(run'.urls)
  BY <1>1, <1>3, <1>4, <1>7
<1> QED
  BY <1>1, <1>3, <1>7, <1>8, <1>9, <1>10, <1>11 DEF TypeOK, Top

(* Every step keeps the types, with what Resources says of the backend.    *)
LEMMA TypesStep ==
  ASSUME TypeOK, Resources, Resources', [Next]_vars
  PROVE  TypeOK'
<1>1. HeadlessTypeOK'
  BY DEF Resources, Types
<1>2. Len(results) < Len(run.urls) => Due \in Urls
  BY DueIsUrl DEF Resources
<1>3. ASSUME UNCHANGED <<run, scoring>>, phase' \in {"detect", "act", "closing", "done"}
      PROVE  TypeOK'
  BY <1>1, <1>3 DEF TypeOK, scoring
<1>4. CASE ScoreStub
  <2>1. KnownScore(Due, Ref) \in Score /\ Scored(KnownScore(Due, Ref))
    BY <1>2, <1>4, BackendsScore DEF ScoreStub, Scoring
  <2> QED
    BY <1>1, <1>4, <2>1, TypesScored DEF ScoreStub, Scoring, TypeOK
<1>5. CASE ScoreCached
  <2>1. scores[Due] \in Score /\ Scored(scores[Due])
    BY <1>2, <1>5 DEF ScoreCached, Scoring, TypeOK
  <2> QED
    BY <1>1, <1>5, <2>1, TypesScored DEF ScoreCached, Scoring, TypeOK
<1>6. ASSUME NEW page \in Pages \union {NoPage}, ScorePage(page)
      PROVE  TypeOK'
  <2>1. SignalScore(page, Ref) \in Score /\ Scored(SignalScore(page, Ref))
    BY <1>6, BackendsScore DEF ScorePage
  <2>2. scores' \in [Urls -> Score \union {NoScore}] /\ shown' \in [Urls -> Pages \union {NoPage}]
    BY <1>6, <2>1 DEF ScorePage, Remember, TypeOK
  <2> QED
    BY <1>1, <1>6, <2>1, <2>2, TypesScored DEF ScorePage, Scoring
<1>7. CASE ProbePage
  BY <1>3, <1>7 DEF ProbePage, TypeOK
<1>8. CASE ScoreProbe
  <2>1. ProbeScore(probes[Due]) \in Score /\ Scored(ProbeScore(probes[Due]))
    BY <1>8, BackendsScore DEF ScoreProbe
  <2> QED
    BY <1>1, <1>8, <2>1, TypesScored DEF ScoreProbe, Scoring, TypeOK
<1>9. CASE Conclude
  BY <1>1, <1>9, TypesConclude
<1>10. CASE EndDetection \/ EndAct \/ Interrupt
  BY <1>3, <1>10 DEF EndDetection, EndAct, Interrupt, Goto
<1>11. CASE CloseBackend
  BY <1>3, <1>11 DEF CloseBackend
<1>12. CASE UNCHANGED vars
  BY <1>3, <1>12 DEF vars, TypeOK
<1> QED
  BY <1>4, <1>5, <1>6, <1>7, <1>8, <1>9, <1>10, <1>11, <1>12 DEF Next

(* The state of a run is well typed, with a result for every observation   *)
(* that was evaluated, in order, and a record for every match              *)
(* (matcher.py:57-95).                                                     *)
THEOREM DetectionTypeCorrect == Spec => []TypeOK
<1>1. TypeOK /\ Resources /\ Resources' /\ [Next]_vars => TypeOK'
  BY TypesStep
<1> QED
  BY <1>1, TypesInit, ResourcesAccounted, PTL DEF Spec

-----------------------------------------------------------------------------
(* What the backend of the run gives an observation, a reference at a      *)
(* time; it is settled when it is remembered (heuristic.py:112,            *)
(* headless.py:83 and :132).                                               *)
Marks(url) ==
  [ref \in ToSet(References) |->
     CASE run.backend = "stub" -> KnownScore(url, ref)
       [] run.backend = "heuristic" -> scores[url]
       [] OTHER -> ProbeScore(probes[url])]

Settled(url) ==
  /\ run.backend = "heuristic" => scores[url] # NoScore
  /\ run.backend = "headless" => Probed(url)

(* top is the best of the first n references (matcher.py:66-73).           *)
BestOf(marks, n, top) ==
  \E b \in [0..n -> Top] :
    /\ b[0] = Unscored
    /\ \A k \in 1..n : b[k] = Better(b[k - 1], References[k], marks[References[k]])
    /\ b[n] = top

Evaluating(url) ==
  phase = "detect" /\ Len(results) < Len(run.urls) /\ url = Due

(* The loop has the best of the references tried, and each result is the   *)
(* verdict that any later look at what is remembered would give again.     *)
Verdicts ==
  /\ \A u \in Urls : Evaluating(u) =>
       /\ tried > 0 => Settled(u)
       /\ BestOf(Marks(u), tried, best)
  /\ \A i \in DOMAIN results : \A u \in Urls : u = results[i].url =>
       /\ References # <<>> => Settled(u)
       /\ \E top \in Top : BestOf(Marks(u), Len(References), top) /\ results[i] = Verdict(u, top)

(* There is one best.                                                      *)
LEMMA BestOfUnique ==
  ASSUME NEW marks, NEW n \in Nat, NEW top, NEW other,
         BestOf(marks, n, top), BestOf(marks, n, other)
  PROVE  top = other
<1>1. PICK b \in [0..n -> Top] :
        /\ b[0] = Unscored /\ b[n] = top
        /\ \A k \in 1..n : b[k] = Better(b[k - 1], References[k], marks[References[k]])
  BY DEF BestOf
<1>2. PICK c \in [0..n -> Top] :
        /\ c[0] = Unscored /\ c[n] = other
        /\ \A k \in 1..n : c[k] = Better(c[k - 1], References[k], marks[References[k]])
  BY DEF BestOf
<1> DEFINE T == {k \in 0..n : b[k] = c[k]}
<1>3. 0 \in T
  BY <1>1, <1>2
<1>4. \A k \in 0..(n - 1) : k \in T => k + 1 \in T
  <2> SUFFICES ASSUME NEW k \in 0..(n - 1), b[k] = c[k] PROVE b[k + 1] = c[k + 1]
    OBVIOUS
  <2>1. k + 1 \in 1..n /\ (k + 1) - 1 = k
    OBVIOUS
  <2> QED
    BY <1>1, <1>2, <2>1
<1>5. 0..n \subseteq T
  <2> HIDE DEF T
  <2> QED
    BY <1>3, <1>4, BoundedInduction
<1>6. n \in T
  BY <1>5
<1> QED
  BY <1>1, <1>2, <1>6

(* One reference more.                                                     *)
LEMMA BestOfNext ==
  ASSUME NEW marks \in [ToSet(References) -> Score], NEW n \in Nat, n < Len(References), NEW top,
         BestOf(marks, n, top)
  PROVE  BestOf(marks, n + 1, Better(top, References[n + 1], marks[References[n + 1]]))
<1>1. PICK b \in [0..n -> Top] :
        /\ b[0] = Unscored /\ b[n] = top
        /\ \A k \in 1..n : b[k] = Better(b[k - 1], References[k], marks[References[k]])
  BY DEF BestOf
<1> DEFINE more == Better(top, References[n + 1], marks[References[n + 1]])
           c == [k \in 0..(n + 1) |-> IF k = n + 1 THEN more ELSE b[k]]
<1>2. References[n + 1] \in ToSet(References)
  BY DetectionAssumption DEF DetectionAssumption
<1>3. more \in Top
  BY <1>1, <1>2, BetterType
<1> HIDE DEF more
<1>4. c \in [0..(n + 1) -> Top] /\ c[0] = Unscored /\ c[n + 1] = more
  BY <1>1, <1>3
<1>5. ASSUME NEW k \in 1..(n + 1)
      PROVE  c[k] = Better(c[k - 1], References[k], marks[References[k]])
  BY <1>1, <1>5 DEF more
<1> HIDE DEF c
<1> QED
  BY <1>4, <1>5 DEF BestOf, more

(* What is tried first is compared with nothing.                           *)
LEMMA BestOfNone ==
  /\ \A marks : BestOf(marks, 0, Unscored)
  /\ \A marks, others, top : BestOf(marks, 0, top) => BestOf(others, 0, top)
<1>1. Unscored \in Top
  BY ScoreArithmetic DEF Unscored, Top, Assets
<1>2. ASSUME NEW marks
      PROVE  BestOf(marks, 0, Unscored)
  <2> DEFINE b == [k \in 0..0 |-> Unscored]
  <2>1. b \in [0..0 -> Top] /\ b[0] = Unscored
    BY <1>1
  <2> HIDE DEF b
  <2> QED
    BY <2>1 DEF BestOf
<1>3. \A marks, top : BestOf(marks, 0, top) => top = Unscored
  BY DEF BestOf
<1> QED
  BY <1>2, <1>3

(* Nothing that a backend remembers changes (heuristic.py:74-75,           *)
(* headless.py:83).                                                        *)
LEMMA Remembered ==
  ASSUME TypeOK, Resources, [Next]_vars, NEW u \in Urls
  PROVE  /\ run' = run
         /\ Probed(u) => probes'[u] = probes[u]
         /\ scores[u] # NoScore => scores'[u] = scores[u] /\ shown'[u] = shown[u]
<1>1. ASSUME UNCHANGED <<run, scores, shown>>, ProbeNext(Due), ProbePage
      PROVE  Probed(u) => probes'[u] = probes[u]
  <2>1. step # "idle" => ~Probed(Due)
    BY <1>1 DEF Resources, ProbeIsDue, ProbePage, Scoring
  <2>2. ASSUME NEW p, Keep(Due, p), step # "idle"
        PROVE  Probed(u) => probes'[u] = probes[u]
    BY <2>1, <2>2 DEF Keep, TypeOK, HeadlessTypeOK
  <2>3. CASE CloseContext(Due)
    BY <2>2, <2>3 DEF CloseContext
  <2>4. CASE Fail(Due)
    BY <2>2, <2>4 DEF Fail
  <2>5. \/ BeginProbe(Due) \/ StartDriver \/ LaunchBrowser \/ OpenContext \/ OpenPage
        \/ RequestManifest(Due) \/ Load
        => probes' = probes
    BY DEF BeginProbe, StartDriver, LaunchBrowser, OpenContext, OpenPage, RequestManifest, Load
  <2>6. \A found, hosts : LookForPlayer(found) \/ ReadFrames(hosts) => probes' = probes
    BY DEF LookForPlayer, ReadFrames
  <2> QED
    BY <1>1, <2>3, <2>4, <2>5, <2>6 DEF ProbeNext
<1>2. CASE ProbePage
  BY <1>1, <1>2 DEF ProbePage, scoring
<1>3. ASSUME NEW page \in Pages \union {NoPage}, ScorePage(page)
      PROVE  /\ run' = run /\ probes' = probes
             /\ scores[u] # NoScore => scores'[u] = scores[u] /\ shown'[u] = shown[u]
  BY <1>3 DEF ScorePage, Scored, Remember, probeVars, TypeOK
<1>4. CASE ScoreStub \/ ScoreCached \/ ScoreProbe
  BY <1>4 DEF ScoreStub, ScoreCached, ScoreProbe, Scored, probeVars
<1>5. CASE Conclude
  BY <1>5 DEF Conclude, probeVars
<1>6. CASE EndDetection \/ EndAct \/ Interrupt
  BY <1>6 DEF EndDetection, EndAct, Interrupt, Goto, scoring, probeVars
<1>7. CASE CloseBackend
  BY <1>7 DEF CloseBackend, Close, scoring, probeVars
<1>8. CASE UNCHANGED vars
  BY <1>8 DEF vars, scoring, probeVars
<1> QED
  BY <1>2, <1>3, <1>4, <1>5, <1>6, <1>7, <1>8 DEF Next

(* So what is settled gets the same marks ever after.                      *)
LEMMA SettledStays ==
  ASSUME TypeOK, Resources, [Next]_vars, NEW u \in Urls, Settled(u)
  PROVE  Settled(u)' /\ Marks(u)' = Marks(u)
<1>1. /\ run' = run
      /\ Probed(u) => probes'[u] = probes[u]
      /\ scores[u] # NoScore => scores'[u] = scores[u]
  BY Remembered
<1>2. run.backend \in {"stub", "heuristic", "headless"}
  BY DetectionAssumption DEF DetectionAssumption, TypeOK
<1> QED
  BY <1>1, <1>2 DEF Settled, Marks, Probed

(* Marks are scores once a URL is settled.                                 *)
MarksTyped ==
  TypeOK => \A u \in Urls : Settled(u) => Marks(u) \in [ToSet(References) -> Score]

(* Every backend marks with a score, before a step and after it.           *)
LEMMA MarksType == MarksTyped /\ MarksTyped'
<1>1. MarksTyped
  <2> SUFFICES ASSUME TypeOK, NEW u \in Urls, Settled(u)
               PROVE  Marks(u) \in [ToSet(References) -> Score]
    BY DEF MarksTyped
  <2>1. run.backend \in {"stub", "heuristic", "headless"}
    BY DetectionAssumption DEF DetectionAssumption, TypeOK
  <2>2. run.backend = "heuristic" => scores[u] \in Score
    BY DEF Settled, TypeOK
  <2>3. \A ref \in ToSet(References) : Marks(u)[ref] \in Score
    BY <2>1, <2>2, BackendsScore DEF Marks
  <2> QED
    BY <2>3 DEF Marks
<1> QED
  BY <1>1, PTL

(* The verdicts stay what they are while the loop goes on.                 *)
LEMMA VerdictsStay ==
  ASSUME TypeOK, Resources, Verdicts, [Next]_vars,
         NEW i \in DOMAIN results, NEW u \in Urls, u = results[i].url
  PROVE  /\ (References # <<>> => Settled(u))'
         /\ \E top \in Top : BestOf(Marks(u)', Len(References), top) /\ results[i] = Verdict(u, top)'
<1>1. /\ References # <<>> => Settled(u)
      /\ \E top \in Top : BestOf(Marks(u), Len(References), top) /\ results[i] = Verdict(u, top)
  BY DEF Verdicts
<1>2. PICK top \in Top : BestOf(Marks(u), Len(References), top) /\ results[i] = Verdict(u, top)
  BY <1>1
<1>3. Verdict(u, top)' = Verdict(u, top)
  BY Remembered DEF Verdict
<1>4. CASE References = <<>>
  <2>1. Len(References) = 0
    BY <1>4
  <2> QED
    BY <1>2, <1>3, <1>4, <2>1, BestOfNone
<1>5. CASE References # <<>>
  <2>1. Settled(u)' /\ Marks(u)' = Marks(u)
    BY <1>1, <1>5, SettledStays
  <2> QED
    BY <1>2, <1>3, <2>1
<1> QED
  BY <1>4, <1>5

(* A score that comes back makes best the best of one reference more       *)
(* (matcher.py:68-71).                                                     *)
LEMMA VerdictsScored ==
  ASSUME TypeOK, Resources, Verdicts, [Next]_vars,
         NEW score, Scored(score), phase = "detect",
         Len(results) < Len(run.urls), tried < Len(References),
         Settled(Due)', score = (Marks(Due)')[Ref]
  PROVE  Verdicts'
<1>1. UNCHANGED <<run, phase, results, evidence>> /\ tried' = tried + 1
  BY DEF Scored
<1>2. PICK due \in Urls : due = Due /\ due = Due'
  BY <1>1, DueIsUrl DEF Due, Resources
<1>3. TypeOK' /\ best \in Top
  BY ResourcesStep, TypesStep DEF TypeOK, Top
<1>4. ASSUME NEW u \in Urls, Evaluating(u)'
      PROVE  (tried > 0 => Settled(u))' /\ BestOf(Marks(u)', tried', best')
  <2>1. u = due /\ Evaluating(u) /\ Settled(u)'
    BY <1>1, <1>2, <1>4 DEF Evaluating
  <2>2. BestOf(Marks(u), tried, best) /\ (tried > 0 => Settled(u)) /\ tried \in Nat
    BY <2>1 DEF Verdicts, Resources, Types
  <2>3. BestOf(Marks(u)', tried, best)
    <3>1. CASE tried = 0
      BY <2>2, <3>1, BestOfNone
    <3>2. CASE tried > 0
      BY <2>2, <3>2, SettledStays
    <3> QED
      BY <2>2, <3>1, <3>2
  <2>4. Marks(u)' \in [ToSet(References) -> Score]
    BY <1>3, <2>1, MarksType DEF MarksTyped
  <2>5. best' = Better(best, References[tried + 1], (Marks(u)')[References[tried + 1]])
    BY <1>2, <2>1 DEF Scored, Ref
  <2> QED
    BY <1>1, <2>1, <2>2, <2>3, <2>4, <2>5, BestOfNext
<1>5. ASSUME NEW i \in DOMAIN results', NEW u \in Urls, u = results'[i].url
      PROVE  /\ (References # <<>> => Settled(u))'
             /\ \E top \in Top : BestOf(Marks(u)', Len(References), top) /\ results'[i] = Verdict(u, top)'
  BY <1>1, <1>5, VerdictsStay
<1> QED
  BY <1>4, <1>5 DEF Verdicts

(* The verdict is that of the best of all references (matcher.py:73-95).   *)
LEMMA VerdictsConclude ==
  ASSUME TypeOK, Resources, Verdicts, [Next]_vars, Conclude
  PROVE  Verdicts'
<1>1. /\ UNCHANGED <<run, phase, scores, shown, probeVars>>
      /\ tried = Len(References) /\ tried' = 0 /\ best' = Unscored
      /\ phase = "detect" /\ Len(results) < Len(run.urls)
      /\ results' = Append(results, Verdict(Due, best))
  BY DEF Conclude
<1>2. PICK due \in Urls : due = Due
  BY <1>1, DueIsUrl DEF Resources
<1>3. Evaluating(due) /\ best \in Top
  BY <1>1, <1>2 DEF Evaluating, TypeOK, Top
<1>4. (References # <<>> => Settled(due)) /\ BestOf(Marks(due), Len(References), best)
  <2>1. (tried > 0 => Settled(due)) /\ BestOf(Marks(due), tried, best)
    BY <1>3 DEF Verdicts
  <2>2. References # <<>> => tried > 0
    BY <1>1, DetectionAssumption DEF DetectionAssumption
  <2> QED
    BY <1>1, <2>1, <2>2
<1>5. Verdict(due, best).url = due
  BY VerdictFields
<1> DEFINE verdict == Verdict(due, best)
<1>6. verdict \in Result /\ verdict.url = due
  BY <1>3, <1>5, VerdictType
<1>7. results \in Seq(Result) /\ Len(results) \in Nat /\ results' = Append(results, verdict)
  BY <1>1, <1>2 DEF TypeOK
<1>8. Marks(due)' = Marks(due) /\ (Settled(due)' <=> Settled(due))
  BY <1>1 DEF Marks, Settled, Probed, probeVars
<1>9. \A top : Verdict(due, top)' = Verdict(due, top)
  BY <1>1 DEF Verdict
<1>10. PICK v : v = verdict
  OBVIOUS
<1> HIDE DEF verdict
<1>11. /\ DOMAIN results = 1..Len(results)
       /\ DOMAIN results' = 1..(Len(results) + 1)
       /\ \A i \in 1..Len(results) : results'[i] = results[i]
       /\ results'[Len(results) + 1] = v
  BY <1>6, <1>7, <1>10
<1>12. ASSUME NEW i \in DOMAIN results', NEW u \in Urls, u = results'[i].url
       PROVE  /\ (References # <<>> => Settled(u))'
              /\ \E top \in Top : BestOf(Marks(u)', Len(References), top) /\ results'[i] = Verdict(u, top)'
  <2>1. CASE i \in DOMAIN results
    BY <1>11, <1>12, <2>1, VerdictsStay
  <2>2. CASE i \notin DOMAIN results
    <3>1. i = Len(results) + 1
      BY <1>7, <1>11, <1>12, <2>2
    <3>2. results'[i] = v /\ u = due
      BY <1>6, <1>10, <1>11, <1>12, <3>1
    <3>3. v = Verdict(due, best)
      BY <1>10 DEF verdict
    <3>4. PICK top \in Top : top = best
      BY <1>3
    <3>5. v = Verdict(due, top)'
      BY <1>9, <3>3, <3>4
    <3> QED
      BY <1>4, <1>8, <3>2, <3>4, <3>5
  <2> QED
    BY <2>1, <2>2
<1>13. \A u \in Urls : BestOf(Marks(u)', 0, Unscored)
  BY BestOfNone
<1> QED
  BY <1>1, <1>12, <1>13 DEF Verdicts

(* Every step keeps Verdicts.                                              *)
LEMMA VerdictsStep ==
  ASSUME TypeOK, Resources, Verdicts, [Next]_vars
  PROVE  Verdicts'
<1>1. Len(results) < Len(run.urls) => Due \in Urls
  BY DueIsUrl DEF Resources
<1>2. tried < Len(References) => Ref \in ToSet(References)
  <2>1. References \in Seq(ToSet(References)) /\ tried \in Nat
    BY DetectionAssumption DEF DetectionAssumption, Resources, Types
  <2> QED
    BY <2>1 DEF Ref
<1>3. ASSUME UNCHANGED <<run, tried, best, results>>,
             phase' = phase \/ phase' # "detect"
      PROVE  Verdicts'
  <2>1. ASSUME NEW u \in Urls, Evaluating(u)'
        PROVE  (tried > 0 => Settled(u))' /\ BestOf(Marks(u)', tried', best')
    <3>1. Evaluating(u)
      BY <1>3, <2>1 DEF Evaluating, Due
    <3>2. BestOf(Marks(u), tried, best) /\ (tried > 0 => Settled(u)) /\ tried \in Nat
      BY <3>1 DEF Verdicts, Resources, Types
    <3>3. CASE tried = 0
      BY <1>3, <3>2, <3>3, BestOfNone
    <3>4. CASE tried > 0
      BY <1>3, <3>2, <3>4, SettledStays
    <3> QED
      BY <3>2, <3>3, <3>4
  <2>2. ASSUME NEW i \in DOMAIN results', NEW u \in Urls, u = results'[i].url
        PROVE  /\ (References # <<>> => Settled(u))'
               /\ \E top \in Top : BestOf(Marks(u)', Len(References), top) /\ results'[i] = Verdict(u, top)'
    BY <1>3, <2>2, VerdictsStay
  <2> QED
    BY <2>1, <2>2 DEF Verdicts
<1>4. CASE ScoreStub
  <2>1. Settled(Due)' /\ KnownScore(Due, Ref) = (Marks(Due)')[Ref]
    BY <1>2, <1>4 DEF ScoreStub, Scoring, Scored, Settled, Marks, Due, Ref
  <2> QED
    BY <1>4, <2>1, VerdictsScored DEF ScoreStub, Scoring
<1>5. CASE ScoreCached
  <2>1. Settled(Due)' /\ scores[Due] = (Marks(Due)')[Ref]
    BY <1>2, <1>5 DEF ScoreCached, Scoring, Scored, Settled, Marks, Due, Ref
  <2> QED
    BY <1>5, <2>1, VerdictsScored DEF ScoreCached, Scoring
<1>6. ASSUME NEW page \in Pages \union {NoPage}, ScorePage(page)
      PROVE  Verdicts'
  <2>1. scores'[Due] = SignalScore(page, Ref) /\ scores'[Due] # NoScore /\ Due' = Due /\ run' = run
    BY <1>1, <1>6, BackendsScore, DetectionAssumption
    DEF ScorePage, Scoring, Scored, Remember, TypeOK, DetectionAssumption, Due
  <2>2. Settled(Due)' /\ SignalScore(page, Ref) = (Marks(Due)')[Ref]
    BY <1>2, <1>6, <2>1 DEF ScorePage, Scoring, Settled, Marks
  <2> QED
    BY <1>6, <2>2, VerdictsScored DEF ScorePage, Scoring
<1>7. CASE ProbePage
  <2>1. UNCHANGED <<run, phase, tried, best, results>>
    BY <1>7 DEF ProbePage, scoring
  <2> QED
    BY <1>3, <2>1
<1>8. CASE ScoreProbe
  <2>1. Settled(Due)' /\ ProbeScore(probes[Due]) = (Marks(Due)')[Ref]
    BY <1>2, <1>8 DEF ScoreProbe, Scoring, Scored, Settled, Marks, Due, Ref, Probed, probeVars
  <2> QED
    BY <1>8, <2>1, VerdictsScored DEF ScoreProbe, Scoring
<1>9. CASE Conclude
  BY <1>9, VerdictsConclude
<1>10. CASE EndDetection \/ EndAct \/ Interrupt
  BY <1>3, <1>10 DEF EndDetection, EndAct, Interrupt, Goto, scoring
<1>11. CASE CloseBackend
  BY <1>3, <1>11 DEF CloseBackend, scoring
<1>12. CASE UNCHANGED vars
  BY <1>3, <1>12 DEF vars, scoring
<1> QED
  BY <1>4, <1>5, <1>6, <1>7, <1>8, <1>9, <1>10, <1>11, <1>12 DEF Next

(* Without results there is no verdict to agree with.                      *)
LEMMA VerdictsInit == Init => Verdicts
<1> SUFFICES ASSUME Init PROVE Verdicts
  OBVIOUS
<1>1. \A u \in Urls : BestOf(Marks(u), 0, Unscored)
  BY BestOfNone
<1> QED
  BY <1>1 DEF Init, Verdicts

(* A URL that comes twice gets one verdict, whatever the network would     *)
(* show the second time (heuristic.py:112, headless.py:83 and :132).       *)
THEOREM OneVerdict == Spec => []OneVerdictPerUrl
<1>1. TypeOK /\ Verdicts => OneVerdictPerUrl
  <2> SUFFICES ASSUME TypeOK, Verdicts, NEW i \in DOMAIN results, NEW j \in DOMAIN results,
                      results[i].url = results[j].url
               PROVE  results[i] = results[j]
    BY DEF OneVerdictPerUrl
  <2>1. results[i] \in Result
    BY DEF TypeOK
  <2>2. PICK u \in Urls : u = results[i].url
    BY <2>1 DEF Result
  <2>3. PICK top \in Top : BestOf(Marks(u), Len(References), top) /\ results[i] = Verdict(u, top)
    BY <2>2 DEF Verdicts
  <2>4. PICK other \in Top : BestOf(Marks(u), Len(References), other) /\ results[j] = Verdict(u, other)
    BY <2>2 DEF Verdicts
  <2>5. Len(References) \in Nat
    BY DetectionAssumption DEF DetectionAssumption
  <2> QED
    BY <2>3, <2>4, <2>5, BestOfUnique
<1>2. TypeOK /\ Resources /\ Verdicts /\ [Next]_vars => Verdicts'
  BY VerdictsStep
<1> QED
  BY <1>1, <1>2, VerdictsInit, ResourcesAccounted, DetectionTypeCorrect, PTL DEF Spec

-----------------------------------------------------------------------------
(* A manifest request that was seen is in the draft of the probe that goes *)
(* on, and in the probe that is kept unless that one has failed            *)
(* (headless.py:94-132).                                                   *)
Sightings ==
  /\ requested # {} => References # <<>>
  /\ \A u \in requested : Probed(u) /\ ~probes[u].error => probes[u].manifests
  /\ phase = "detect" /\ step = "close" => draft.manifests = seen
  /\ \A u \in requested : phase = "detect" /\ ~Probed(u) =>
       u = Due /\ seen /\ step \in {"goto", "look", "frames", "close"}

(* No call of a probe, and no failure of one, forgets a request that was   *)
(* seen (headless.py:94-133).                                              *)
LEMMA SightingsProbe ==
  ASSUME Resources, Sightings, ProbePage
  PROVE  Sightings'
<1>1. /\ phase = "detect" /\ phase' = phase
      /\ Len(results) < Len(run.urls) /\ tried < Len(References)
      /\ ProbeNext(Due)
      /\ Due' = Due
  BY DEF ProbePage, Scoring, scoring, Due
<1>2. PICK due \in Urls : due = Due /\ due = Due'
  BY <1>1, DueIsUrl DEF Resources
<1>3. References # <<>>
  BY <1>1, DetectionAssumption DEF DetectionAssumption, Resources, Types
<1>4. step # "idle" => ~Probed(due)
  BY <1>1, <1>2 DEF Resources, ProbeIsDue
<1>5. HeadlessTypeOK
  BY DEF Resources, Types
<1>6. ASSUME UNCHANGED <<probes, requested>>, seen' = seen \/ requested = {} \/ ~(\E u \in requested : ~Probed(u)),
             (\E u \in requested : ~Probed(u)) => step' \in {"goto", "look", "frames", "close"},
             step' = "close" => draft'.manifests = seen'
      PROVE  Sightings'
  BY <1>1, <1>6 DEF Sightings, Probed
<1>7. CASE BeginProbe(Due)
  BY <1>1, <1>6, <1>7 DEF BeginProbe, Sightings
<1>8. CASE StartDriver \/ LaunchBrowser \/ OpenContext
  BY <1>1, <1>6, <1>8 DEF StartDriver, LaunchBrowser, OpenContext, Sightings
<1>9. CASE OpenPage
  BY <1>1, <1>6, <1>9 DEF OpenPage, Sightings
<1>10. CASE RequestManifest(Due)
  <2>1. /\ step \in {"goto", "look"} /\ step' = step /\ seen' /\ probes' = probes
        /\ requested' = requested \union {due}
    BY <1>2, <1>10 DEF RequestManifest
  <2>2. ~Probed(due)
    BY <1>4, <2>1
  <2> QED
    BY <1>1, <1>2, <1>3, <2>1, <2>2 DEF Sightings, Probed
<1>11. CASE Load
  BY <1>1, <1>6, <1>11 DEF Load, Sightings
<1>12. ASSUME NEW found \in BOOLEAN, LookForPlayer(found)
       PROVE  Sightings'
  BY <1>1, <1>6, <1>12 DEF LookForPlayer, Sightings
<1>13. ASSUME NEW hosts \in SUBSET Embeds, ReadFrames(hosts)
       PROVE  Sightings'
  <2>1. draft'.manifests = seen'
    BY <1>5, <1>13 DEF ReadFrames, HeadlessTypeOK, Probe
  <2> QED
    BY <1>1, <1>6, <1>13, <2>1 DEF ReadFrames, Sightings
<1>14. ASSUME NEW probe \in Probe, Keep(Due, probe), step # "idle",
              ~probe.error => step = "close" /\ probe = draft
       PROVE  Sightings'
  <2>1. /\ step' = "idle" /\ requested' = requested
        /\ probes'[due] = probe
        /\ \A u \in Urls \ {due} : probes'[u] = probes[u]
    BY <1>2, <1>5, <1>14 DEF Keep, HeadlessTypeOK
  <2>2. requested \subseteq Urls /\ probe # NoProbe
    BY <1>5, NoProbeIsNone DEF HeadlessTypeOK
  <2>3. ASSUME NEW u \in requested
        PROVE  Probed(u)' /\ (~probes'[u].error => probes'[u].manifests)
    <3>1. CASE u = due
      <4>1. seen
        BY <1>1, <1>2, <1>4, <1>14, <3>1 DEF Sightings
      <4>2. ~probe.error => probe.manifests
        BY <1>1, <1>14, <4>1 DEF Sightings
      <4> QED
        BY <2>1, <2>2, <3>1, <4>2 DEF Probed
    <3>2. CASE u # due
      <4>1. Probed(u)
        BY <1>1, <1>2, <3>2 DEF Sightings
      <4> QED
        BY <2>1, <2>2, <3>2, <4>1 DEF Probed, Sightings
    <3> QED
      BY <3>1, <3>2
  <2> QED
    BY <1>3, <2>1, <2>3 DEF Sightings
<1>15. CASE CloseContext(Due)
  BY <1>5, <1>14, <1>15 DEF CloseContext, HeadlessTypeOK
<1>16. CASE Fail(Due)
  <2>1. [draft EXCEPT !.error = TRUE] \in Probe /\ [draft EXCEPT !.error = TRUE].error
    BY <1>5 DEF HeadlessTypeOK, Probe
  <2> QED
    BY <1>14, <1>16, <2>1 DEF Fail
<1> QED
  BY <1>1, <1>7, <1>8, <1>9, <1>10, <1>11, <1>12, <1>13, <1>15, <1>16 DEF ProbeNext

(* Every step keeps Sightings; the next observation is due only when no    *)
(* probe is under way (headless.py:82-133, matcher.py:66-73).              *)
LEMMA SightingsStep ==
  ASSUME Resources, Sightings, [Next]_vars
  PROVE  Sightings'
<1>1. CASE ProbePage
  BY <1>1, SightingsProbe
<1>2. ASSUME UNCHANGED <<run, probeVars>>, phase' # "detect" \/ UNCHANGED <<phase, results>>
      PROVE  Sightings'
  BY <1>2 DEF Sightings, Probed, probeVars, Due
<1>3. CASE ScoreStub \/ ScoreCached \/ ScoreProbe
  BY <1>2, <1>3 DEF ScoreStub, ScoreCached, ScoreProbe, Scored
<1>4. ASSUME NEW page \in Pages \union {NoPage}, ScorePage(page)
      PROVE  Sightings'
  BY <1>2, <1>4 DEF ScorePage, Scored
<1>5. CASE Conclude
  <2>1. phase = "detect" /\ step = "idle" /\ UNCHANGED <<phase, probeVars>>
    BY <1>5 DEF Conclude, Resources, Types, ProbeIsDue
  <2> QED
    BY <2>1 DEF Sightings, Probed, probeVars
<1>6. CASE EndDetection \/ EndAct \/ Interrupt
  BY <1>2, <1>6 DEF EndDetection, EndAct, Interrupt, Goto, scoring
<1>7. CASE CloseBackend
  BY <1>7 DEF CloseBackend, Close, Sightings, Probed, probeVars
<1>8. CASE UNCHANGED vars
  BY <1>2, <1>8 DEF vars, scoring
<1> QED
  BY <1>1, <1>3, <1>4, <1>5, <1>6, <1>7, <1>8 DEF Next

(* The best of some references is at least as good as the last of them     *)
(* (matcher.py:70).                                                        *)
LEMMA BestOfReaches ==
  ASSUME NEW marks \in [ToSet(References) -> Score], NEW n \in Nat, n > 0, n <= Len(References),
         NEW top, BestOf(marks, n, top)
  PROVE  top \in Top /\ AtLeast(top.score, marks[References[n]])
<1>1. PICK b \in [0..n -> Top] :
        /\ \A k \in 1..n : b[k] = Better(b[k - 1], References[k], marks[References[k]])
        /\ b[n] = top
  BY DEF BestOf
<1>2. n \in 1..n /\ n - 1 \in 0..n /\ References[n] \in ToSet(References)
  BY DetectionAssumption DEF DetectionAssumption
<1> QED
  BY <1>1, <1>2, BetterType

(* A manifest request that the browser saw makes a match unless the probe  *)
(* says that it has failed (headless.py:6-9, :109, :141).                  *)
THEOREM SightMakesMatch == Spec => []SightDecides
<1>1. Init => Sightings
  BY DEF Init, HeadlessInit, Sightings
<1>2. TypeOK /\ Resources /\ Verdicts /\ Sightings => SightDecides
  <2> SUFFICES ASSUME TypeOK, Resources, Verdicts, Sightings, NEW i \in DOMAIN results,
                      run.backend = "headless", results[i].url \in requested,
                      ~probes[results[i].url].error
               PROVE  results[i].matched
    BY DEF SightDecides
  <2>1. PICK u \in Urls : u = results[i].url /\ u \in requested
    BY DEF TypeOK, HeadlessTypeOK
  <2>2. Len(References) \in Nat /\ Len(References) > 0 /\ References # <<>>
    BY <2>1, DetectionAssumption DEF Sightings, DetectionAssumption
  <2>3. Settled(u)
    BY <2>1, <2>2 DEF Verdicts
  <2>4. PICK top \in Top : BestOf(Marks(u), Len(References), top) /\ results[i] = Verdict(u, top)
    BY <2>1 DEF Verdicts
  <2>5. probes[u].manifests
    BY <2>1, <2>3 DEF Sightings, Settled
  <2>6. References[Len(References)] \in ToSet(References)
    BY <2>2, DetectionAssumption DEF DetectionAssumption
  <2>7. Marks(u)[References[Len(References)]] = Literal(90)
    BY <2>5, <2>6 DEF Marks, ProbeScore
  <2>8. AtLeast(top.score, Literal(90))
    BY <2>2, <2>3, <2>4, <2>7, BestOfReaches, MarksType DEF MarksTyped
  <2>9. Literal(90).h = 90 /\ Literal(run.threshold).h = run.threshold /\ run.threshold \in {50, 70}
    BY ScoreArithmetic, DetectionAssumption DEF DetectionAssumption, TypeOK
  <2>10. top.score \in Score /\ Literal(90) \in Score /\ Literal(run.threshold) \in Score
    BY <2>9, ScoreArithmetic DEF Top
  <2>11. Reaches(top.score, run.threshold)
    BY <2>8, <2>9, <2>10 DEF Reaches, AtLeast, Score
  <2> QED
    BY <2>4, <2>11, VerdictFields
<1> QED
  BY <1>1, <1>2, SightingsStep, VerdictsInit, VerdictsStep, ResourcesAccounted, DetectionTypeCorrect,
     PTL DEF Spec

-----------------------------------------------------------------------------
At(h, r) == [h |-> h, r |-> r]

(* RoundEven where doubles are s apart; c stands for 2^56.                 *)
Rounded(h, r, s, c) ==
  LET t == (h * c + r) % (200 * s)
      rest == t % (100 * s)
      down == 2 * rest < 100 * s \/ (2 * rest = 100 * s /\ t < 100 * s)
  IN  At(h, IF down THEN r - rest ELSE r + 100 * s - rest)

(* RoundEven in each of the binades of the scores.                         *)
LEMMA RoundsAt ==
  ASSUME NEW h \in Int, NEW r \in Int
  PROVE  /\ 2 * h < 25 => RoundEven(At(h, r)) = Rounded(h, r, 1, 136)
         /\ 2 * h >= 25 /\ h < 25 => RoundEven(At(h, r)) = Rounded(h, r, 2, 336)
         /\ (h = 25 /\ r >= 0) \/ (25 < h /\ h < 50) \/ (h = 50 /\ r < 0)
            => RoundEven(At(h, r)) = Rounded(h, r, 4, 736)
         /\ (h = 50 /\ r >= 0) \/ (50 < h /\ h < 100) => RoundEven(At(h, r)) = Rounded(h, r, 8, 1536)
<1> DEFINE Power(s) == (268435456 % (200 * s)) * (268435456 % (200 * s)) % (200 * s)
<1>1. At(h, r).h = h /\ At(h, r).r = r
  BY DEF At
<1>2. ASSUME NEW s \in {1, 2, 4, 8}, Spacing(At(h, r)) = s
      PROVE  RoundEven(At(h, r)) = Rounded(h, r, s, Power(s))
  <2> DEFINE x == At(h, r)
  <2>1. x.h = h /\ x.r = r /\ Spacing(x) = s
    BY <1>1, <1>2
  <2>2. 2 * (100 * s) = 200 * s
    BY SMT
  <2> HIDE DEF x
  <2>3. RoundEven(x) = Rounded(h, r, s, Power(s))
    BY <2>1, <2>2, SMT DEF RoundEven, Rounded, At
  <2> QED
    BY <2>3 DEF x
<1>3. Power(1) = 136 /\ Power(2) = 336 /\ Power(4) = 736 /\ Power(8) = 1536
  BY SMT
<1>4. /\ 2 * h < 25 => Spacing(At(h, r)) = 1
      /\ 2 * h >= 25 /\ h < 25 => Spacing(At(h, r)) = 2
      /\ (h = 25 /\ r >= 0) \/ (25 < h /\ h < 50) \/ (h = 50 /\ r < 0) => Spacing(At(h, r)) = 4
      /\ (h = 50 /\ r >= 0) \/ (50 < h /\ h < 100) => Spacing(At(h, r)) = 8
  BY <1>1, SMT DEF Spacing, AtLeast
<1> HIDE DEF Power
<1> QED
  BY <1>2, <1>3, <1>4, SMT

(* A float sum is the exact one, rounded in its binade.                    *)
LEMMA RoundsSum ==
  ASSUME NEW h \in Int, NEW r \in Int, NEW k \in Int, NEW q \in Int
  PROVE  LET sum == Plus(At(h, r), At(k, q))
         IN  /\ 2 * (h + k) < 25 => sum = Rounded(h + k, r + q, 1, 136)
             /\ 2 * (h + k) >= 25 /\ h + k < 25 => sum = Rounded(h + k, r + q, 2, 336)
             /\ (h + k = 25 /\ r + q >= 0) \/ (25 < h + k /\ h + k < 50) \/ (h + k = 50 /\ r + q < 0)
                => sum = Rounded(h + k, r + q, 4, 736)
             /\ (h + k = 50 /\ r + q >= 0) \/ (50 < h + k /\ h + k < 100)
                => sum = Rounded(h + k, r + q, 8, 1536)
<1>1. At(h, r).h = h /\ At(h, r).r = r /\ At(k, q).h = k /\ At(k, q).r = q
  BY DEF At
<1>2. Plus(At(h, r), At(k, q)) = RoundEven(At(h + k, r + q))
  BY <1>1 DEF Plus, At
<1> QED
  BY <1>2, RoundsAt

(* The literals of heuristic.py:89-109 and live.py:35, and the sums that   *)
(* lead to 0.50 or 0.70 in the order of _signals().                        *)
LEMMA Literals ==
  /\ Literal(10) = At(10, 40) /\ Literal(15) = At(15, -40) /\ Literal(20) = At(20, 80)
  /\ Literal(30) = At(30, -80) /\ Literal(40) = At(40, 160)
  /\ Literal(50) = At(50, 0) /\ Literal(70) = At(70, -320)
<1>1. \A n \in Int : Literal(n) = RoundEven(At(n, 0))
  BY DEF Literal, At
<1> QED
  BY <1>1, RoundsAt, SMT DEF Rounded

(* The sums that come up on the way through the signals, in the order in   *)
(* which the code adds them (heuristic.py:91-107).                         *)
LEMMA Sums ==
  /\ \A x \in {At(15, -40), At(20, 80), At(30, -80), At(40, 160)} : Plus(Zero, x) = x
  /\ Plus(At(15, -40), At(10, 40)) = At(25, 0)
  /\ Plus(At(20, 80), At(15, -40)) = At(35, -160)
  /\ Plus(At(25, 0), At(15, -40)) = At(40, 160)
  /\ Plus(At(30, -80), At(15, -40)) = At(45, -320)
  /\ Plus(At(30, -80), At(20, 80)) = At(50, 0)
  /\ Plus(At(35, -160), At(10, 40)) = At(45, -320)
  /\ Plus(At(35, -160), At(15, -40)) = At(50, 0)
  /\ Plus(At(40, 160), At(10, 40)) = At(50, 0)
  /\ Plus(At(40, 160), At(15, -40)) = At(55, 320)
  /\ Plus(At(40, 160), At(20, 80)) = At(60, 640)
  /\ Plus(At(40, 160), At(30, -80)) = At(70, -320)
  /\ Plus(At(45, -320), At(10, 40)) = At(55, -480)
  /\ Plus(At(45, -320), At(15, -40)) = At(60, -160)
  /\ Plus(At(55, -480), At(15, -40)) = At(70, -320)
  /\ Plus(At(55, 320), At(15, -40)) = At(70, 480)
  /\ Plus(At(60, -160), At(10, 40)) = At(70, -320)
  /\ Plus(At(60, 640), At(10, 40)) = At(70, 480)
<1>1. Zero = At(0, 0)
  BY DEF Zero, At
<1>2. Plus(At(0, 0), At(15, -40)) = At(15, -40)
  BY RoundsSum, SMT DEF Rounded
<1>3. Plus(At(0, 0), At(20, 80)) = At(20, 80)
  BY RoundsSum, SMT DEF Rounded
<1>4. Plus(At(0, 0), At(30, -80)) = At(30, -80)
  BY RoundsSum, SMT DEF Rounded
<1>5. Plus(At(0, 0), At(40, 160)) = At(40, 160)
  BY RoundsSum, SMT DEF Rounded
<1>6. Plus(At(15, -40), At(10, 40)) = At(25, 0)
  BY RoundsSum, SMT DEF Rounded
<1>7. Plus(At(20, 80), At(15, -40)) = At(35, -160)
  BY RoundsSum, SMT DEF Rounded
<1>8. Plus(At(25, 0), At(15, -40)) = At(40, 160)
  BY RoundsSum, SMT DEF Rounded
<1>9. Plus(At(30, -80), At(15, -40)) = At(45, -320)
  BY RoundsSum, SMT DEF Rounded
<1>10. Plus(At(30, -80), At(20, 80)) = At(50, 0)
  BY RoundsSum, SMT DEF Rounded
<1>11. Plus(At(35, -160), At(10, 40)) = At(45, -320)
  BY RoundsSum, SMT DEF Rounded
<1>12. Plus(At(35, -160), At(15, -40)) = At(50, 0)
  BY RoundsSum, SMT DEF Rounded
<1>13. Plus(At(40, 160), At(10, 40)) = At(50, 0)
  BY RoundsSum, SMT DEF Rounded
<1>14. Plus(At(40, 160), At(15, -40)) = At(55, 320)
  BY RoundsSum, SMT DEF Rounded
<1>15. Plus(At(40, 160), At(20, 80)) = At(60, 640)
  BY RoundsSum, SMT DEF Rounded
<1>16. Plus(At(40, 160), At(30, -80)) = At(70, -320)
  BY RoundsSum, SMT DEF Rounded
<1>17. Plus(At(45, -320), At(10, 40)) = At(55, -480)
  BY RoundsSum, SMT DEF Rounded
<1>18. Plus(At(45, -320), At(15, -40)) = At(60, -160)
  BY RoundsSum, SMT DEF Rounded
<1>19. Plus(At(55, -480), At(15, -40)) = At(70, -320)
  BY RoundsSum, SMT DEF Rounded
<1>20. Plus(At(55, 320), At(15, -40)) = At(70, 480)
  BY RoundsSum, SMT DEF Rounded
<1>21. Plus(At(60, -160), At(10, 40)) = At(70, -320)
  BY RoundsSum, SMT DEF Rounded
<1>22. Plus(At(60, 640), At(10, 40)) = At(70, 480)
  BY RoundsSum, SMT DEF Rounded
<1> QED
  BY <1>1, <1>2, <1>3, <1>4, <1>5, <1>6, <1>7, <1>8, <1>9, <1>10, <1>11, <1>12, <1>13, <1>14, <1>15,
     <1>16, <1>17, <1>18, <1>19, <1>20, <1>21, <1>22

(* A sum of weights that is 0.50 or 0.70 on paper is not less as a double. *)
LEMMA TiesReach ==
  ASSUME NEW page, NEW ref
  PROVE  LET sum == SignalSum(page, ref)
         IN  /\ sum \in Score
             /\ page.signals = {} => sum = Zero
             /\ sum.h = 50 => AtLeast(sum, Literal(50))
             /\ sum.h = 70 => AtLeast(sum, Literal(70))
<1> DEFINE a == "hls" \in page.signals
           b == "dash" \in page.signals
           c == "player" \in page.signals
           d == "video" \in page.signals
           e == "iframe" \in page.signals
           f == "live" \in page.signals
           g == "live" \in page.signals /\ ref \in page.terms
           s1 == Signal(a, Zero, 40)
           s2 == Signal(b, s1, 30)
           s3 == Signal(c, s2, 20)
           s4 == Signal(d, s3, 15)
           s5 == Signal(e, s4, 10)
           s6 == Signal(f, s5, 15)
           s7 == Signal(g, s6, 10)
<1>1. SignalSum(page, ref) = s7
  BY DEF SignalSum
<1>2. ASSUME NEW x \in Score, NEW n \in {10, 15, 20, 30, 40}
      PROVE  Plus(x, Literal(n)) \in Score /\ Plus(x, Literal(n)).h = x.h + n
  BY ScoreArithmetic
<1>3. /\ a \in BOOLEAN /\ b \in BOOLEAN /\ c \in BOOLEAN /\ d \in BOOLEAN
      /\ e \in BOOLEAN /\ f \in BOOLEAN /\ g \in BOOLEAN /\ (g => f)
  OBVIOUS
<1>4. Zero \in Score /\ Zero.h = 0
  BY ScoreArithmetic DEF Zero
<1>5. page.signals = {} => ~a /\ ~b /\ ~c /\ ~d /\ ~e /\ ~f /\ ~g
  OBVIOUS
<1> HIDE DEF a, b, c, d, e, f, g
<1>6. /\ s1 \in Score
      /\ a => s1.h = Zero.h + 40 /\ s1 = Plus(Zero, Literal(40))
      /\ ~a => s1 = Zero
  BY <1>2, <1>4 DEF Signal
<1>7. /\ s2 \in Score
      /\ b => s2.h = s1.h + 30 /\ s2 = Plus(s1, Literal(30))
      /\ ~b => s2 = s1
  <2> HIDE DEF s1
  <2> QED
    BY <1>2, <1>6 DEF Signal
<1>8. /\ s3 \in Score
      /\ c => s3.h = s2.h + 20 /\ s3 = Plus(s2, Literal(20))
      /\ ~c => s3 = s2
  <2> HIDE DEF s2
  <2> QED
    BY <1>2, <1>7 DEF Signal
<1>9. /\ s4 \in Score
      /\ d => s4.h = s3.h + 15 /\ s4 = Plus(s3, Literal(15))
      /\ ~d => s4 = s3
  <2> HIDE DEF s3
  <2> QED
    BY <1>2, <1>8 DEF Signal
<1>10. /\ s5 \in Score
       /\ e => s5.h = s4.h + 10 /\ s5 = Plus(s4, Literal(10))
       /\ ~e => s5 = s4
  <2> HIDE DEF s4
  <2> QED
    BY <1>2, <1>9 DEF Signal
<1>11. /\ s6 \in Score
       /\ f => s6.h = s5.h + 15 /\ s6 = Plus(s5, Literal(15))
       /\ ~f => s6 = s5
  <2> HIDE DEF s5
  <2> QED
    BY <1>2, <1>10 DEF Signal
<1>12. /\ s7 \in Score
       /\ g => s7.h = s6.h + 10 /\ s7 = Plus(s6, Literal(10))
       /\ ~g => s7 = s6
  <2> HIDE DEF s6
  <2> QED
    BY <1>2, <1>11 DEF Signal
<1> HIDE DEF s1, s2, s3, s4, s5, s6, s7
<1>13. page.signals = {} => s7 = Zero
  BY <1>5, <1>6, <1>7, <1>8, <1>9, <1>10, <1>11, <1>12
<1>14. s7.h = (IF a THEN 40 ELSE 0) + (IF b THEN 30 ELSE 0) + (IF c THEN 20 ELSE 0)
              + (IF d THEN 15 ELSE 0) + (IF e THEN 10 ELSE 0) + (IF f THEN 15 ELSE 0)
              + (IF g THEN 10 ELSE 0)
  BY <1>4, <1>6, <1>7, <1>8, <1>9, <1>10, <1>11, <1>12
<1>15. CASE s7.h = 50
  <2>1. \/ a /\ ~b /\ ~c /\ ~d /\ e /\ ~f /\ ~g
        \/ ~a /\ b /\ c /\ ~d /\ ~e /\ ~f /\ ~g
        \/ ~a /\ ~b /\ c /\ d /\ ~e /\ f /\ ~g
        \/ ~a /\ ~b /\ ~c /\ d /\ e /\ f /\ g
    BY <1>3, <1>14, <1>15, SMT
  <2>2. ASSUME a, ~b, ~c, ~d, e, ~f, ~g
        PROVE  s7 = At(50, 0)
    BY <2>2, <1>6, <1>7, <1>8, <1>9, <1>10, <1>11, <1>12, Literals, Sums
  <2>3. ASSUME ~a, b, c, ~d, ~e, ~f, ~g
        PROVE  s7 = At(50, 0)
    BY <2>3, <1>6, <1>7, <1>8, <1>9, <1>10, <1>11, <1>12, Literals, Sums
  <2>4. ASSUME ~a, ~b, c, d, ~e, f, ~g
        PROVE  s7 = At(50, 0)
    BY <2>4, <1>6, <1>7, <1>8, <1>9, <1>10, <1>11, <1>12, Literals, Sums
  <2>5. ASSUME ~a, ~b, ~c, d, e, f, g
        PROVE  s7 = At(50, 0)
    BY <2>5, <1>6, <1>7, <1>8, <1>9, <1>10, <1>11, <1>12, Literals, Sums
  <2>6. s7 = At(50, 0)
    BY <2>1, <2>2, <2>3, <2>4, <2>5
  <2>7. AtLeast(s7, Literal(50))
    BY <2>6, Literals DEF AtLeast, At
  <2> QED
    BY <1>1, <1>12, <1>13, <1>15, <2>7
<1>16. CASE s7.h = 70
  <2>1. \/ a /\ b /\ ~c /\ ~d /\ ~e /\ ~f /\ ~g
        \/ a /\ ~b /\ c /\ ~d /\ e /\ ~f /\ ~g
        \/ a /\ ~b /\ ~c /\ d /\ ~e /\ f /\ ~g
        \/ ~a /\ b /\ ~c /\ d /\ e /\ f /\ ~g
        \/ ~a /\ b /\ ~c /\ d /\ ~e /\ f /\ g
        \/ ~a /\ ~b /\ c /\ d /\ e /\ f /\ g
    BY <1>3, <1>14, <1>16, SMT
  <2>2. ASSUME a, b, ~c, ~d, ~e, ~f, ~g
        PROVE  s7 = At(70, -320)
    BY <2>2, <1>6, <1>7, <1>8, <1>9, <1>10, <1>11, <1>12, Literals, Sums
  <2>3. ASSUME a, ~b, c, ~d, e, ~f, ~g
        PROVE  s7 = At(70, 480)
    BY <2>3, <1>6, <1>7, <1>8, <1>9, <1>10, <1>11, <1>12, Literals, Sums
  <2>4. ASSUME a, ~b, ~c, d, ~e, f, ~g
        PROVE  s7 = At(70, 480)
    BY <2>4, <1>6, <1>7, <1>8, <1>9, <1>10, <1>11, <1>12, Literals, Sums
  <2>5. ASSUME ~a, b, ~c, d, e, f, ~g
        PROVE  s7 = At(70, -320)
    BY <2>5, <1>6, <1>7, <1>8, <1>9, <1>10, <1>11, <1>12, Literals, Sums
  <2>6. ASSUME ~a, b, ~c, d, ~e, f, g
        PROVE  s7 = At(70, -320)
    BY <2>6, <1>6, <1>7, <1>8, <1>9, <1>10, <1>11, <1>12, Literals, Sums
  <2>7. ASSUME ~a, ~b, c, d, e, f, g
        PROVE  s7 = At(70, -320)
    BY <2>7, <1>6, <1>7, <1>8, <1>9, <1>10, <1>11, <1>12, Literals, Sums
  <2>8. s7 = At(70, -320) \/ s7 = At(70, 480)
    BY <2>1, <2>2, <2>3, <2>4, <2>5, <2>6, <2>7
  <2>9. AtLeast(s7, Literal(70))
    BY <2>8, Literals DEF AtLeast, At
  <2> QED
    BY <1>1, <1>12, <1>13, <1>16, <2>9
<1> QED
  BY <1>1, <1>12, <1>13, <1>15, <1>16

(* So the cap at 0.95 and the thresholds of run_live turn no verdict       *)
(* (heuristic.py:109, matcher.py:73).                                      *)
LEMMA ScoreIsExact ==
  ASSUME NEW page, NEW ref, NEW score \in Score, NEW threshold \in {50, 70},
         score = SignalScore(page, ref) \/ (score = Zero /\ AtLeast(Zero, SignalScore(page, ref)))
  PROVE  LET exact == SignalSum(page, ref).h
         IN  /\ Reaches(score, threshold) <=> exact >= threshold
             /\ Reaches(score, 90) => exact >= 90
             /\ Reaches(score, 70) => exact >= 70
<1> DEFINE sum == SignalSum(page, ref)
<1>1. /\ sum \in Score
      /\ sum.h = 50 => AtLeast(sum, Literal(50))
      /\ sum.h = 70 => AtLeast(sum, Literal(70))
  BY TiesReach
<1>2. /\ Literal(50) \in Score /\ Literal(50).h = 50
      /\ Literal(70) \in Score /\ Literal(70).h = 70
      /\ Literal(90) \in Score /\ Literal(90).h = 90
      /\ Literal(95) \in Score /\ Literal(95).h = 95
  BY ScoreArithmetic
<1>3. SignalScore(page, ref) = sum \/ (SignalScore(page, ref) = Literal(95) /\ sum.h >= 95)
  BY <1>1, <1>2 DEF SignalScore, Least, AtLeast, Score
<1> HIDE DEF sum
<1>4. CASE score = sum
  BY <1>1, <1>2, <1>4 DEF Reaches, AtLeast, Score, sum
<1>5. CASE score = Literal(95) /\ sum.h >= 95
  BY <1>1, <1>2, <1>5 DEF Reaches, AtLeast, Score, sum
<1>6. CASE score = Zero /\ AtLeast(Zero, SignalScore(page, ref))
  <2>1. score.h = 0
    BY <1>6 DEF Zero
  <2>2. SignalScore(page, ref) = sum /\ sum.h <= 0
    BY <1>1, <1>2, <1>3, <1>6, <2>1 DEF AtLeast, Score
  <2> QED
    BY <1>1, <1>2, <2>1, <2>2 DEF Reaches, AtLeast, Score, sum
<1> QED
  BY <1>3, <1>4, <1>5, <1>6

(* When every reference scores the same the best score is that one, or     *)
(* zero, which is no less (matcher.py:66-71).                              *)
LEMMA BestOfSame ==
  ASSUME NEW marks \in [ToSet(References) -> Score], NEW score \in Score,
         \A ref \in ToSet(References) : marks[ref] = score,
         NEW n \in Nat, n > 0, n <= Len(References), NEW top, BestOf(marks, n, top)
  PROVE  top.score = score \/ (top.score = Zero /\ AtLeast(Zero, score))
<1>1. PICK b \in [0..n -> Top] :
        /\ b[0] = Unscored /\ b[n] = top
        /\ \A k \in 1..n : b[k] = Better(b[k - 1], References[k], marks[References[k]])
  BY DEF BestOf
<1>2. \A k \in 1..n : References[k] \in ToSet(References)
  BY DetectionAssumption DEF DetectionAssumption
<1> DEFINE S == {t \in Top : t.score \in {Zero, score}}
<1>3. b[0] \in S
  BY <1>1 DEF Unscored
<1>4. ASSUME NEW k \in 1..n, b[k - 1] \in S
      PROVE  b[k] \in S
  <2>1. b[k] \in Top /\ b[k] = Better(b[k - 1], References[k], score)
    BY <1>1, <1>2
  <2>2. b[k] = b[k - 1] \/ b[k] = [asset |-> References[k], score |-> score]
    BY <2>1 DEF Better
  <2> QED
    BY <1>4, <2>1, <2>2
<1>5. b[n] \in S
  <2> HIDE DEF S
  <2>1. \A k \in 0..n : b[k] \in S
    BY <1>3, <1>4, RecursionKeeps
  <2> QED
    BY <2>1
<1>6. AtLeast(top.score, marks[References[n]]) /\ marks[References[n]] = score
  BY <1>2, BestOfReaches
<1> QED
  BY <1>1, <1>5, <1>6

(* What the heuristic backend remembers is the score of what was shown     *)
(* (heuristic.py:74-112).                                                  *)
Ratings ==
  \A u \in Urls :
    /\ scores[u] = NoScore => shown[u] = NoPage
    /\ scores[u] # NoScore =>
         scores[u] = SignalScore(shown[u], References[1]) /\ References # <<>>

(* A cached score is never overwritten (heuristic.py:112-115).             *)
LEMMA RatingsStep ==
  ASSUME TypeOK, Resources, Verdicts, Ratings, [Next]_vars
  PROVE  Ratings'
<1>1. ASSUME UNCHANGED <<scores, shown>>
      PROVE  Ratings'
  BY <1>1 DEF Ratings
<1>2. ASSUME NEW page \in Pages \union {NoPage}, ScorePage(page)
      PROVE  Ratings'
  <2>1. /\ phase = "detect" /\ run.backend = "heuristic" /\ scores[Due] = NoScore
        /\ Len(results) < Len(run.urls) /\ tried < Len(References) /\ tried \in Nat
        /\ scores' = [scores EXCEPT ![Due] = SignalScore(page, Ref)]
        /\ shown' = [shown EXCEPT ![Due] = page]
    BY <1>2 DEF ScorePage, Scoring, Remember, TypeOK
  <2>2. PICK due \in Urls : due = Due
    BY <2>1, DueIsUrl DEF Resources
  <2>3. tried = 0
    BY <2>1, <2>2 DEF Verdicts, Evaluating, Settled
  <2>4. Ref = References[1] /\ References # <<>>
    BY <2>1, <2>3 DEF Ref
  <2>5. SignalScore(page, Ref) # NoScore
    BY BackendsScore, DetectionAssumption DEF DetectionAssumption
  <2> QED
    BY <2>1, <2>2, <2>4, <2>5 DEF Ratings, TypeOK
<1>3. CASE ScoreStub \/ ScoreCached \/ ScoreProbe
  BY <1>1, <1>3 DEF ScoreStub, ScoreCached, ScoreProbe
<1>4. CASE ProbePage
  BY <1>1, <1>4 DEF ProbePage, scoring
<1>5. CASE Conclude
  BY <1>1, <1>5 DEF Conclude
<1>6. CASE EndDetection \/ EndAct \/ Interrupt
  BY <1>1, <1>6 DEF EndDetection, EndAct, Interrupt, Goto, scoring
<1>7. CASE CloseBackend
  BY <1>1, <1>7 DEF CloseBackend, scoring
<1>8. CASE UNCHANGED vars
  BY <1>1, <1>8 DEF vars, scoring
<1> QED
  BY <1>2, <1>3, <1>4, <1>5, <1>6, <1>7, <1>8 DEF Next

(* Adding doubles never turns a verdict at either threshold and never      *)
(* gives a better grade than the hundredths add up to (heuristic.py:91,    *)
(* :109, matcher.py:50, :73).                                              *)
THEOREM FloatsTurnNoVerdict == Spec => []VerdictIsExact
<1>1. Init => Ratings
  BY DEF Init, Ratings
<1>2. TypeOK /\ Verdicts /\ Ratings => VerdictIsExact
  <2> SUFFICES ASSUME TypeOK, Verdicts, Ratings, run.backend = "heuristic", NEW i \in DOMAIN results
               PROVE  LET exact == SignalSum(shown[results[i].url], References[1]).h
                      IN  /\ results[i].matched <=> exact >= run.threshold
                          /\ results[i].grade = "high" => exact >= 90
                          /\ results[i].grade = "medium" => exact >= 70
    BY DEF VerdictIsExact
  <2>1. results[i] \in Result /\ run.threshold \in {50, 70} /\ Len(References) \in Nat
    BY DetectionAssumption DEF TypeOK, DetectionAssumption
  <2>2. PICK u \in Urls : u = results[i].url
    BY <2>1 DEF Result
  <2>3. PICK top \in Top : BestOf(Marks(u), Len(References), top) /\ results[i] = Verdict(u, top)
    BY <2>2 DEF Verdicts
  <2> DEFINE score == SignalScore(shown[u], References[1])
  <2>4. top.score = score \/ (top.score = Zero /\ AtLeast(Zero, score))
    <3>1. CASE References = <<>>
      <4>1. BestOf(Marks(u), 0, top) /\ BestOf(Marks(u), 0, Unscored)
        BY <2>3, <3>1, BestOfNone
      <4>2. top.score = Zero
        BY <4>1, BestOfUnique DEF Unscored
      <4>3. shown[u] = NoPage
        BY <3>1 DEF Ratings
      <4>4. SignalSum(shown[u], References[1]) = Zero
        BY <4>3, TiesReach DEF NoPage
      <4>5. score = Zero
        <5>1. Literal(95) \in Score /\ Literal(95).h = 95 /\ Zero.h = 0
          BY ScoreArithmetic DEF Zero
        <5> QED
          BY <4>4, <5>1 DEF SignalScore, Least, AtLeast
      <4> QED
        BY <4>2, <4>5
    <3>2. CASE References # <<>>
      <4>1. Settled(u) /\ scores[u] # NoScore /\ scores[u] = score
        BY <2>2, <3>2 DEF Verdicts, Settled, Ratings
      <4>2. Marks(u) \in [ToSet(References) -> Score]
        BY <4>1, MarksType DEF MarksTyped
      <4>3. score \in Score /\ \A ref \in ToSet(References) : Marks(u)[ref] = score
        BY <4>1, BackendsScore DEF Marks
      <4>4. Len(References) > 0
        BY <3>2, DetectionAssumption DEF DetectionAssumption
      <4> HIDE DEF score
      <4> QED
        BY <2>1, <2>3, <4>2, <4>3, <4>4, BestOfSame
    <3> QED
      BY <3>1, <3>2
  <2>5. top.score \in Score
    BY DEF Top
  <2>6. /\ Reaches(top.score, run.threshold) <=> SignalSum(shown[u], References[1]).h >= run.threshold
        /\ Reaches(top.score, 90) => SignalSum(shown[u], References[1]).h >= 90
        /\ Reaches(top.score, 70) => SignalSum(shown[u], References[1]).h >= 70
    BY <2>1, <2>4, <2>5, ScoreIsExact
  <2>7. /\ results[i].matched <=> Reaches(top.score, run.threshold)
        /\ results[i].grade = Confidence(top.score)
    BY <2>3, VerdictFields
  <2>8. /\ results[i].grade = "high" => Reaches(top.score, 90)
        /\ results[i].grade = "medium" => Reaches(top.score, 70)
    BY <2>7 DEF Confidence
  <2> QED
    BY <2>2, <2>6, <2>7, <2>8
<1> QED
  BY <1>1, <1>2, RatingsStep, VerdictsInit, VerdictsStep, ResourcesAccounted, DetectionTypeCorrect,
     PTL DEF Spec
=============================================================================
