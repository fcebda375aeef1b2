--------------------------- MODULE PipelineApiProofs ---------------------------
(***************************************************************************)
(* What the interleaving of any number of runs, readers and submissions    *)
(* leaves intact: the types, the evidence behind the published list, and   *)
(* the observations a run has to cover.                                    *)
(***************************************************************************)
EXTENDS PipelineApi, FiniteSetTheorems, WellFoundedInduction, TLAPS

Reached(r) == pc[r] \in {"upsert", "labels", "record", "count", "summary", "done"}
Made(r) == pc[r] \in {"record", "count", "summary", "done"}

(* The detections of a run are about the first observations, in order, and *)
(* a match refers to its record.                                           *)
Follows(r, i) ==
  LET d == dets[r][i]
  IN  /\ d.url = observations[i]
      /\ d.ref # 0 <=> d.url \in Confirmed
      /\ d.ref # 0 => /\ d.ref \in DOMAIN ledger
                      /\ ledger[d.ref] = [kind |-> "detection", subject |-> d.url]

DetsFollow ==
  \A r \in Runners : /\ Len(dets[r]) <= Len(observations)
                     /\ \A i \in DOMAIN dets[r] : Follows(r, i)

(* A run that is past its detections has evaluated what it began with.     *)
RunsCover ==
  \A r \in Runners : /\ submitted[r] <= Len(observations)
                     /\ Reached(r) => submitted[r] <= Len(dets[r])

EntriesMade == \A r \in Runners : Made(r) => entries[r] = Entries(dets[r])

(* The entries up to the loop index are in the ledger.                     *)
Recorded(r, i) ==
  \E k \in DOMAIN ledger :
    /\ k > dets[r][i].ref
    /\ ledger[k] = [kind |-> "blocklist", subject |-> HostOf[dets[r][i].url]]

RecordsMade ==
  \A r \in Runners : pc[r] = "record" =>
    \A i \in DOMAIN dets[r] : i <= idx[r] /\ IsFirst(dets[r], i) => Recorded(r, i)

RunInv ==
  /\ TypeOK
  /\ DetsFollow
  /\ RunsCover
  /\ EntriesMade
  /\ RecordsMade
  /\ PublishedIsEvidenced

-----------------------------------------------------------------------------
(* The graph is finite, so that its size is a number.                      *)
LEMMA SizeIsNat == ASSUME TypeOK PROVE Cardinality(assets) \in Nat
<1>1. IsFiniteSet(assets)
  BY ApiAssumption, FS_Subset DEF ApiAssumption, TypeOK
<1> QED
  BY <1>1, FS_CardinalityType

(* A detection is about one URL and refers to a record or to none.         *)
LEMMA DetectionType ==
  ASSUME NEW ds \in Seq(Detection), NEW i \in DOMAIN ds
  PROVE  ds[i].url \in Urls /\ ds[i].ref \in Nat /\ HostOf[ds[i].url] \in Hosts
<1>1. ds[i] \in Detection
  OBVIOUS
<1>2. ds[i].url \in Urls /\ ds[i].ref \in Nat
  BY <1>1 DEF Detection
<1> QED
  BY <1>2, ApiAssumption DEF ApiAssumption

(* What generate() returns are entries (generator.py:61-84).               *)
LEMMA EntriesType ==
  ASSUME NEW ds \in Seq(Detection) PROVE Entries(ds) \subseteq Entry
  BY DetectionType DEF Entries, Entry

(* The pipeline a server starts with has the types (pipeline.py:72-85).    *)
LEMMA TypeInit == Init => TypeOK
<1> SUFFICES ASSUME Init PROVE TypeOK
  OBVIOUS
<1> QED
  BY ApiAssumption DEF ApiAssumption, Init, TypeOK, Threads

(* Every step keeps the types.                                             *)
LEMMA TypeStep ==
  ASSUME TypeOK, [Next]_vars PROVE TypeOK'
<1> USE DEF TypeOK
<1>1. ASSUME NEW u \in Urls, Submit(u) PROVE TypeOK'
  BY <1>1 DEF Submit, locals
<1>2. ASSUME NEW r \in Runners, StartRun(r) PROVE TypeOK'
  <2>1. dets' \in [Runners -> Seq(Detection)]
    BY <1>2 DEF StartRun
  <2>2. Len(observations) \in Nat /\ runs' \in 0..MaxRuns
    BY <1>2, ApiAssumption DEF StartRun, ApiAssumption
  <2> QED
    BY <1>2, <2>1, <2>2 DEF StartRun
<1>3. ASSUME NEW r \in Runners, Detect(r) PROVE TypeOK'
  <2> DEFINE u == observations[Len(dets[r]) + 1]
             d == [url |-> u, ref |-> IF u \in Confirmed THEN Len(ledger) + 1 ELSE 0]
  <2>1. observations[Len(dets[r]) + 1] \in Urls
    BY <1>3 DEF Detect
  <2>2. ledger' \in Seq(Evidence)
    BY <1>3, <2>1 DEF Detect, Evaluate, Evidence
  <2>3. dets' = [dets EXCEPT ![r] = Append(@, d)]
    BY <1>3 DEF Detect, Evaluate
  <2>4. d \in Detection
    BY <2>1 DEF Detection
  <2> HIDE DEF d
  <2> QED
    BY <1>3, <2>2, <2>3, <2>4 DEF Detect
<1>4. ASSUME NEW r \in Runners, EndDetect(r) PROVE TypeOK'
  BY <1>4 DEF EndDetect
<1>5. ASSUME NEW r \in Runners, UpsertHost(r) PROVE TypeOK'
  <2>1. dets[r][idx[r] + 1].url \in Urls
    <3>1. idx[r] + 1 \in DOMAIN dets[r]
      BY <1>5 DEF UpsertHost
    <3> QED
      BY <3>1, DetectionType
  <2>2. assets' \subseteq Hosts
    BY <1>5, <2>1, ApiAssumption DEF UpsertHost, ApiAssumption
  <2> QED
    BY <1>5, <2>2 DEF UpsertHost
<1>6. ASSUME NEW r \in Runners, BeginLabels(r) PROVE TypeOK'
  BY <1>6, SizeIsNat DEF BeginLabels
<1>7. ASSUME NEW r \in Runners, LabelsFail(r) PROVE TypeOK'
  BY <1>7 DEF LabelsFail, IterationFails
<1>8. ASSUME NEW r \in Runners, Generate(r) PROVE TypeOK'
  <2>1. Entries(dets[r]) \subseteq Entry
    BY EntriesType
  <2> QED
    BY <1>8, <2>1 DEF Generate
<1>9. ASSUME NEW r \in Runners, RecordEntry(r) PROVE TypeOK'
  <2>1. PICK i \in Unrecorded(r, idx[r]) :
          /\ ledger' = Append(ledger, [kind |-> "blocklist", subject |-> HostOf[dets[r][i].url]])
          /\ idx' = [idx EXCEPT ![r] = i]
    BY <1>9 DEF RecordEntry
  <2>2. i \in Nat /\ HostOf[dets[r][i].url] \in Hosts
    BY <2>1, DetectionType DEF Unrecorded
  <2>3. ledger' \in Seq(Evidence)
    BY <2>1, <2>2 DEF Evidence
  <2> QED
    BY <1>9, <2>1, <2>2, <2>3 DEF RecordEntry
<1>10. ASSUME NEW r \in Runners, Publish(r) PROVE TypeOK'
  BY <1>10 DEF Publish
<1>11. ASSUME NEW t \in Threads, BeginSummary(t) PROVE TypeOK'
  BY <1>11, SizeIsNat DEF BeginSummary
<1>12. ASSUME NEW t \in Threads, EndSummary(t) PROVE TypeOK'
  BY <1>12 DEF EndSummary, IterationFails
<1>13. CASE UNCHANGED vars
  BY <1>13 DEF vars, locals
<1> QED
  BY <1>1, <1>2, <1>3, <1>4, <1>5, <1>6, <1>7, <1>8, <1>9, <1>10, <1>11, <1>12, <1>13
  DEF Next, Serve

-----------------------------------------------------------------------------
(* Appending keeps what is there: nothing leaves the ledger or the list of *)
(* observations (ledger.py:61, pipeline.py:48).                            *)
LEMMA AppendKeeps ==
  ASSUME NEW S, NEW s \in Seq(S), NEW t, t = s \/ \E e \in S : t = Append(s, e)
  PROVE  /\ Len(s) \in Nat /\ Len(t) \in Nat /\ Len(s) <= Len(t)
         /\ DOMAIN s = 1..Len(s) /\ DOMAIN t = 1..Len(t)
         /\ \A k \in DOMAIN s : k \in DOMAIN t /\ t[k] = s[k]
<1>1. CASE t = s
  BY <1>1
<1>2. ASSUME NEW e \in S, t = Append(s, e)
      PROVE  /\ Len(t) = Len(s) + 1 /\ \A k \in DOMAIN s : t[k] = s[k]
             /\ DOMAIN t = 1..Len(t)
  BY <1>2
<1> QED
  BY <1>1, <1>2

(* A host that matched has an entry: that of its first match.              *)
LEMMA EntryOfMatch ==
  ASSUME NEW ds \in Seq(Detection), NEW i \in DOMAIN ds, ds[i].ref # 0
  PROVE  HostOf[ds[i].url] \in Listed(Entries(ds))
<1> DEFINE T == {k \in DOMAIN ds : ds[k].ref # 0 /\ HostOf[ds[k].url] = HostOf[ds[i].url]}
<1>1. T \subseteq Nat /\ T # {}
  OBVIOUS
<1>2. PICK m \in T : \A k \in T : <<k, m>> \notin OpToRel(<, Nat)
  BY <1>1, WFMin, NatLessThanWellFounded
<1>3. \A k \in T : ~(k < m)
  BY <1>1, <1>2 DEF OpToRel
<1>4. IsFirst(ds, m)
  BY <1>1, <1>3 DEF IsFirst
<1>5. [host |-> HostOf[ds[m].url], ref |-> ds[m].ref] \in Entries(ds)
  BY <1>2, <1>4 DEF Entries
<1>6. HostOf[ds[i].url] = [host |-> HostOf[ds[m].url], ref |-> ds[m].ref].host
  BY <1>2
<1> QED
  BY <1>5, <1>6 DEF Listed

(* No host has two entries.                                                *)
LEMMA EntriesDiffer ==
  ASSUME NEW ds \in Seq(Detection), NEW e \in Entries(ds), NEW f \in Entries(ds), e.host = f.host
  PROVE  e = f
<1>1. PICK i \in DOMAIN ds : e = [host |-> HostOf[ds[i].url], ref |-> ds[i].ref] /\ IsFirst(ds, i)
  BY DEF Entries
<1>2. PICK j \in DOMAIN ds : f = [host |-> HostOf[ds[j].url], ref |-> ds[j].ref] /\ IsFirst(ds, j)
  BY DEF Entries
<1>3. ~(i < j) /\ ~(j < i)
  BY <1>1, <1>2 DEF IsFirst
<1> QED
  BY <1>1, <1>2, <1>3

-----------------------------------------------------------------------------
(* Nothing is published and nobody runs at the start (pipeline.py:44-45).  *)
LEMMA RunInit == Init => RunInv
<1> SUFFICES ASSUME Init PROVE RunInv
  OBVIOUS
<1> QED
  BY TypeInit, ApiAssumption
  DEF Init, RunInv, DetsFollow, RunsCover, EntriesMade, RecordsMade, PublishedIsEvidenced,
      Reached, Made, Threads, ApiAssumption

(* The steps that touch neither a detection nor an entry: requests come,   *)
(* hosts are upserted, iterations begin, end or fail.                      *)
LEMMA RunStepAside ==
  ASSUME RunInv, TypeOK', UNCHANGED <<ledger, lastBlocklist, dets, entries, submitted>>,
         observations' = observations \/ \E u \in Urls : observations' = Append(observations, u),
         \A r \in Runners :
           \/ pc'[r] = pc[r] /\ (pc[r] = "record" => idx'[r] = idx[r])
           \/ pc'[r] = "failed"
           \/ pc[r] = "detect" /\ pc'[r] = "upsert" /\ Len(dets[r]) = Len(observations)
           \/ pc[r] = "upsert" /\ pc'[r] = "labels"
           \/ Made(r) /\ pc'[r] \in {"summary", "done"}
  PROVE  RunInv'
<1> USE DEF RunInv
<1>1. /\ Len(observations) \in Nat /\ Len(observations') \in Nat
      /\ Len(observations) <= Len(observations')
      /\ \A i \in 1..Len(observations) : observations'[i] = observations[i]
  BY AppendKeeps DEF TypeOK
<1>2. DetsFollow'
  <2>1. \A r \in Runners : Len(dets[r]) \in Nat /\ DOMAIN dets[r] = 1..Len(dets[r])
    BY DEF TypeOK
  <2> QED
    BY <1>1, <2>1 DEF DetsFollow, Follows
<1>3. RunsCover'
  BY <1>1 DEF RunsCover, Reached, Made, TypeOK
<1>4. EntriesMade'
  BY DEF EntriesMade, Made
<1>5. RecordsMade'
  BY DEF RecordsMade, Recorded
<1>6. PublishedIsEvidenced'
  BY DEF PublishedIsEvidenced
<1> QED
  BY <1>2, <1>3, <1>4, <1>5, <1>6

(* A run that begins has no detections yet (main.py:56).                   *)
LEMMA RunStart ==
  ASSUME RunInv, TypeOK', NEW r \in Runners, StartRun(r)
  PROVE  RunInv'
<1> USE DEF RunInv
<1>1. UNCHANGED <<observations, ledger, lastBlocklist, idx, entries>>
  BY DEF StartRun
<1>2. /\ dets'[r] = <<>> /\ pc'[r] = "detect" /\ submitted'[r] = Len(observations)
      /\ \A s \in Runners \ {r} :
           dets'[s] = dets[s] /\ pc'[s] = pc[s] /\ submitted'[s] = submitted[s]
  BY DEF StartRun, TypeOK, Threads
<1>3. Len(observations) \in Nat
  BY DEF TypeOK
<1>4. DetsFollow'
  <2>1. DOMAIN dets'[r] = {} /\ Len(dets'[r]) = 0
    BY <1>2
  <2>2. ASSUME NEW s \in Runners, NEW i \in DOMAIN dets'[s] PROVE Follows(s, i)'
    <3>1. s # r /\ dets'[s] = dets[s]
      BY <1>2, <2>1
    <3> QED
      BY <1>1, <3>1 DEF DetsFollow, Follows
  <2>3. ASSUME NEW s \in Runners PROVE Len(dets'[s]) <= Len(observations')
    BY <1>1, <1>2, <1>3, <2>1 DEF DetsFollow
  <2> QED
    BY <2>2, <2>3 DEF DetsFollow
<1>5. RunsCover'
  BY <1>1, <1>2, <1>3 DEF RunsCover, Reached
<1>6. EntriesMade' /\ RecordsMade'
  BY <1>1, <1>2 DEF EntriesMade, RecordsMade, Recorded, Made
<1>7. PublishedIsEvidenced'
  BY <1>1 DEF PublishedIsEvidenced
<1> QED
  BY <1>4, <1>5, <1>6, <1>7

(* A detection is about the next observation and refers to the record that *)
(* was made of it (matcher.py:83-95).                                      *)
LEMMA RunDetect ==
  ASSUME RunInv, TypeOK', NEW r \in Runners, Detect(r)
  PROVE  RunInv'
<1> USE DEF RunInv
<1> DEFINE n == Len(dets[r]) + 1
           u == observations[n]
           e == [kind |-> "detection", subject |-> u]
           d == [url |-> u, ref |-> IF u \in Confirmed THEN Len(ledger) + 1 ELSE 0]
<1>1. /\ UNCHANGED <<observations, lastBlocklist, pc, idx, entries, submitted>>
      /\ pc[r] = "detect" /\ n <= Len(observations)
  BY DEF Detect, TypeOK
<1>2. dets'[r] = Append(dets[r], d) /\ \A s \in Runners \ {r} : dets'[s] = dets[s]
  BY DEF Detect, Evaluate, TypeOK
<1>3. ledger' = IF u \in Confirmed THEN Append(ledger, e) ELSE ledger
  BY DEF Detect, Evaluate
<1>4. u \in Urls
  BY <1>1 DEF TypeOK
<1>5. e \in Evidence /\ d \in Detection
  BY <1>4 DEF Evidence, Detection, TypeOK
<1>6. /\ Len(ledger) \in Nat /\ DOMAIN ledger = 1..Len(ledger)
      /\ \A k \in DOMAIN ledger : k \in DOMAIN ledger' /\ ledger'[k] = ledger[k]
  BY <1>3, <1>5, AppendKeeps DEF TypeOK
<1>7. u \in Confirmed => Len(ledger) + 1 \in DOMAIN ledger' /\ ledger'[Len(ledger) + 1] = e
  BY <1>3, <1>5 DEF TypeOK
<1>8. /\ n \in Nat /\ DOMAIN dets'[r] = 1..n /\ Len(dets'[r]) = n
      /\ dets'[r][n] = d /\ \A i \in DOMAIN dets[r] : i \in 1..n /\ dets'[r][i] = dets[r][i]
      /\ \A i \in 1..n : i = n \/ i \in DOMAIN dets[r]
  BY <1>2, <1>5 DEF TypeOK
<1>9. DetsFollow'
  <2>1. ASSUME NEW s \in Runners, s # r, NEW i \in DOMAIN dets[s] PROVE Follows(s, i)'
    <3>1. dets'[s] = dets[s] /\ observations' = observations
      BY <1>1, <1>2, <2>1
    <3>2. Follows(s, i)
      BY DEF DetsFollow
    <3> QED
      BY <1>6, <3>1, <3>2 DEF Follows
  <2>2. d.url = u /\ (d.ref # 0 <=> u \in Confirmed) /\ (d.ref # 0 => d.ref = Len(ledger) + 1)
    BY <1>6
  <2>3. ASSUME NEW i \in DOMAIN dets'[r] PROVE Follows(r, i)'
    <3> HIDE DEF d
    <3>1. CASE i = n
      BY <1>1, <1>7, <1>8, <2>2, <3>1 DEF Follows
    <3>2. CASE i \in DOMAIN dets[r]
      <4>1. Follows(r, i) /\ dets'[r][i] = dets[r][i]
        BY <1>8, <3>2 DEF DetsFollow
      <4> QED
        BY <1>1, <1>6, <4>1 DEF Follows
    <3> QED
      BY <1>8, <3>1, <3>2
  <2>5. \A s \in Runners : Len(dets'[s]) <= Len(observations')
    BY <1>1, <1>2, <1>8 DEF DetsFollow
  <2> QED
    BY <1>2, <2>1, <2>3, <2>5 DEF DetsFollow
<1>10. RunsCover'
  BY <1>1, <1>2, <1>8 DEF RunsCover, Reached
<1>11. EntriesMade'
  BY <1>1, <1>2 DEF EntriesMade, Made
<1>12. RecordsMade'
  <2> SUFFICES ASSUME NEW s \in Runners, pc'[s] = "record", NEW i \in DOMAIN dets'[s],
                      i <= idx'[s], IsFirst(dets'[s], i)
               PROVE  Recorded(s, i)'
    BY DEF RecordsMade
  <2>1. s # r /\ dets'[s] = dets[s]
    BY <1>1, <1>2
  <2>2. Recorded(s, i)
    BY <1>1, <2>1 DEF RecordsMade
  <2> QED
    BY <1>6, <2>1, <2>2 DEF Recorded
<1>13. PublishedIsEvidenced'
  BY <1>1, <1>6 DEF PublishedIsEvidenced
<1> QED
  BY <1>9, <1>10, <1>11, <1>12, <1>13

(* The entries are those of the detections (pipeline.py:61).               *)
LEMMA RunGenerate ==
  ASSUME RunInv, TypeOK', NEW r \in Runners, Generate(r)
  PROVE  RunInv'
<1> USE DEF RunInv
<1>1. UNCHANGED <<observations, ledger, lastBlocklist, dets, submitted>> /\ pc[r] = "labels"
  BY DEF Generate
<1>2. /\ entries'[r] = Entries(dets[r]) /\ pc'[r] = "record" /\ idx'[r] = 0
      /\ \A s \in Runners \ {r} : entries'[s] = entries[s] /\ pc'[s] = pc[s] /\ idx'[s] = idx[s]
  BY DEF Generate, TypeOK, Threads
<1>3. DetsFollow' /\ PublishedIsEvidenced'
  BY <1>1 DEF DetsFollow, Follows, PublishedIsEvidenced
<1>4. RunsCover'
  BY <1>1, <1>2 DEF RunsCover, Reached
<1>5. EntriesMade'
  BY <1>1, <1>2 DEF EntriesMade, Made
<1>6. RecordsMade'
  <2>1. \A i \in DOMAIN dets[r] : ~(i <= 0)
    BY DEF TypeOK
  <2> QED
    BY <1>1, <1>2, <2>1 DEF RecordsMade, Recorded
<1> QED
  BY <1>3, <1>4, <1>5, <1>6

(* The next entry is recorded, after its detection (pipeline.py:62-66).    *)
LEMMA RunRecord ==
  ASSUME RunInv, TypeOK', NEW r \in Runners, RecordEntry(r)
  PROVE  RunInv'
<1> USE DEF RunInv
<1>1. UNCHANGED <<observations, lastBlocklist, pc, dets, entries, submitted>>
  BY DEF RecordEntry
<1>2. PICK i \in Unrecorded(r, idx[r]) :
        /\ \A k \in Unrecorded(r, idx[r]) : i <= k
        /\ ledger' = Append(ledger, [kind |-> "blocklist", subject |-> HostOf[dets[r][i].url]])
        /\ idx' = [idx EXCEPT ![r] = i]
  BY DEF RecordEntry
<1> DEFINE e == [kind |-> "blocklist", subject |-> HostOf[dets[r][i].url]]
<1>3. i \in DOMAIN dets[r] /\ IsFirst(dets[r], i) /\ dets[r] \in Seq(Detection)
  BY <1>2 DEF Unrecorded, TypeOK
<1>4. e \in Evidence
  BY <1>3, DetectionType DEF Evidence
<1>5. /\ \A k \in DOMAIN ledger : k \in DOMAIN ledger' /\ ledger'[k] = ledger[k]
      /\ DOMAIN ledger = 1..Len(ledger) /\ Len(ledger) \in Nat
      /\ Len(ledger) + 1 \in DOMAIN ledger' /\ ledger'[Len(ledger) + 1] = e
  <2>1. ledger \in Seq(Evidence) /\ ledger' = Append(ledger, e)
    BY <1>2 DEF TypeOK
  <2> HIDE DEF e
  <2>2. \A k \in DOMAIN ledger : k \in DOMAIN ledger' /\ ledger'[k] = ledger[k]
    BY <1>4, <2>1, AppendKeeps
  <2> QED
    BY <1>4, <2>1, <2>2
<1>6. DetsFollow'
  BY <1>1, <1>5 DEF DetsFollow, Follows
<1>7. RunsCover' /\ EntriesMade'
  BY <1>1 DEF RunsCover, EntriesMade, Reached, Made
<1>8. RecordsMade'
  <2> SUFFICES ASSUME NEW s \in Runners, pc'[s] = "record", NEW k \in DOMAIN dets'[s],
                      k <= idx'[s], IsFirst(dets'[s], k)
               PROVE  Recorded(s, k)'
    BY DEF RecordsMade
  <2>1. CASE s = r /\ k > idx[r]
    <3>1. k \in Unrecorded(r, idx[r]) /\ idx'[r] = i
      BY <1>1, <1>2, <2>1 DEF Unrecorded, TypeOK
    <3>2. k = i
      BY <1>2, <1>3, <2>1, <3>1 DEF Unrecorded
    <3>3. dets[r][i].ref \in DOMAIN ledger
      BY <1>3 DEF DetsFollow, Follows, IsFirst
    <3> QED
      BY <1>1, <1>5, <2>1, <3>2, <3>3 DEF Recorded
  <2>2. CASE s # r \/ ~(k > idx[r])
    <3>1. k <= idx[s]
      BY <1>1, <1>2, <2>2 DEF TypeOK
    <3>2. Recorded(s, k)
      BY <1>1, <3>1 DEF RecordsMade
    <3> QED
      BY <1>1, <1>5, <3>2 DEF Recorded
  <2> QED
    BY <2>1, <2>2
<1>9. PublishedIsEvidenced'
  BY <1>1, <1>5 DEF PublishedIsEvidenced
<1> QED
  BY <1>6, <1>7, <1>8, <1>9

(* When a list is published all its entries are recorded (pipeline.py:67). *)
LEMMA RunPublish ==
  ASSUME RunInv, TypeOK', NEW r \in Runners, Publish(r)
  PROVE  RunInv'
<1> USE DEF RunInv
<1>1. UNCHANGED <<observations, ledger, idx, dets, entries, submitted>> /\ pc[r] = "record"
  BY DEF Publish
<1>2. /\ lastBlocklist' = Entries(dets[r]) /\ pc'[r] = "count"
      /\ \A s \in Runners \ {r} : pc'[s] = pc[s]
  BY <1>1 DEF Publish, TypeOK, EntriesMade, Made, Threads
<1>3. DetsFollow'
  BY <1>1 DEF DetsFollow, Follows
<1>4. RunsCover'
  BY <1>1, <1>2 DEF RunsCover, Reached
<1>5. EntriesMade' /\ RecordsMade'
  BY <1>1, <1>2 DEF EntriesMade, Made, RecordsMade, Recorded
<1>6. PublishedIsEvidenced'
  <2> SUFFICES ASSUME NEW e \in Entries(dets[r])
               PROVE  /\ e.ref \in DOMAIN ledger
                      /\ \E u \in Urls :
                           /\ ledger[e.ref] = [kind |-> "detection", subject |-> u]
                           /\ HostOf[u] = e.host
                      /\ \E k \in DOMAIN ledger :
                           k > e.ref /\ ledger[k] = [kind |-> "blocklist", subject |-> e.host]
    BY <1>1, <1>2 DEF PublishedIsEvidenced
  <2>1. PICK i \in DOMAIN dets[r] :
          e = [host |-> HostOf[dets[r][i].url], ref |-> dets[r][i].ref] /\ IsFirst(dets[r], i)
    BY DEF Entries
  <2>2. dets[r] \in Seq(Detection) /\ idx[r] \in Nat /\ i \in Nat
    BY DEF TypeOK
  <2>3. i <= idx[r]
    BY <2>1, <2>2 DEF Publish, Unrecorded
  <2>4. Recorded(r, i)
    BY <1>1, <2>1, <2>3 DEF RecordsMade
  <2>5. Follows(r, i) /\ dets[r][i].ref # 0
    BY <2>1 DEF DetsFollow, IsFirst
  <2>6. dets[r][i].url \in Urls
    BY <2>2, DetectionType
  <2> QED
    BY <2>1, <2>4, <2>5, <2>6 DEF Recorded, Follows
<1> QED
  BY <1>3, <1>4, <1>5, <1>6

(* Every step keeps the invariant.                                         *)
LEMMA RunStep ==
  ASSUME RunInv, [Next]_vars PROVE RunInv'
<1>1. TypeOK'
  BY TypeStep DEF RunInv
<1> USE DEF RunInv
<1>2. ASSUME NEW u \in Urls, Submit(u) PROVE RunInv'
  BY <1>1, <1>2, RunStepAside DEF Submit, locals
<1>3. ASSUME NEW r \in Runners, StartRun(r) PROVE RunInv'
  BY <1>1, <1>3, RunStart
<1>4. ASSUME NEW r \in Runners, Detect(r) PROVE RunInv'
  BY <1>1, <1>4, RunDetect
<1>5. ASSUME NEW r \in Runners, EndDetect(r) PROVE RunInv'
  BY <1>1, <1>5, RunStepAside DEF EndDetect, TypeOK, Threads
<1>6. ASSUME NEW r \in Runners, UpsertHost(r) PROVE RunInv'
  BY <1>1, <1>6, RunStepAside DEF UpsertHost, TypeOK
<1>7. ASSUME NEW r \in Runners, BeginLabels(r) PROVE RunInv'
  BY <1>1, <1>7, RunStepAside DEF BeginLabels, TypeOK, Threads
<1>8. ASSUME NEW r \in Runners, LabelsFail(r) PROVE RunInv'
  BY <1>1, <1>8, RunStepAside DEF LabelsFail, IterationFails, TypeOK, Threads
<1>9. ASSUME NEW r \in Runners, Generate(r) PROVE RunInv'
  BY <1>1, <1>9, RunGenerate
<1>10. ASSUME NEW r \in Runners, RecordEntry(r) PROVE RunInv'
  BY <1>1, <1>10, RunRecord
<1>11. ASSUME NEW r \in Runners, Publish(r) PROVE RunInv'
  BY <1>1, <1>11, RunPublish
<1>12. ASSUME NEW t \in Threads, BeginSummary(t) PROVE RunInv'
  BY <1>1, <1>12, RunStepAside, ApiAssumption
  DEF BeginSummary, ApiAssumption, Made, TypeOK, Threads
<1>13. ASSUME NEW t \in Threads, EndSummary(t) PROVE RunInv'
  BY <1>1, <1>13, RunStepAside DEF EndSummary, IterationFails, Made, TypeOK, Threads
<1>14. CASE UNCHANGED vars
  BY <1>1, <1>14, RunStepAside DEF vars, locals
<1> HIDE DEF RunInv
<1> QED
  BY <1>2, <1>3, <1>4, <1>5, <1>6, <1>7, <1>8, <1>9, <1>10, <1>11, <1>12, <1>13, <1>14
  DEF Next, Serve

(* The inductive invariant of the gateway.                                 *)
THEOREM RunInvariant == Spec => []RunInv
<1>1. RunInv /\ [Next]_vars => RunInv'
  BY RunStep
<1> QED
  BY RunInit, <1>1, PTL DEF Spec

(* The shared state and the locals of all threads keep their types         *)
(* (pipeline.py:45-68).                                                    *)
THEOREM TypeCorrect == Spec => []TypeOK
<1>1. RunInv => TypeOK
  BY DEF RunInv
<1> QED
  BY <1>1, RunInvariant, PTL

(* Whoever runs, reads and submits meanwhile, what is published rests on   *)
(* evidence that is in the ledger (pipeline.py:62-67).                     *)
THEOREM PublishedEvidenced == Spec => []PublishedIsEvidenced
<1>1. RunInv => PublishedIsEvidenced
  BY DEF RunInv
<1> QED
  BY <1>1, RunInvariant, PTL

(* What a run that has made its list has on it.                            *)
LEMMA MadeCovers ==
  ASSUME RunInv, NEW r \in Runners, Made(r), NEW i \in 1..submitted[r],
         observations[i] \in Confirmed
  PROVE  HostOf[observations[i]] \in Listed(entries[r])
<1> USE DEF RunInv
<1>1. dets[r] \in Seq(Detection) /\ submitted[r] \in Nat /\ entries[r] = Entries(dets[r])
  BY DEF TypeOK, EntriesMade
<1>2. i \in DOMAIN dets[r]
  BY <1>1 DEF RunsCover, Reached, Made
<1>3. dets[r][i].url = observations[i] /\ dets[r][i].ref # 0
  BY <1>2 DEF DetsFollow, Follows
<1> QED
  BY <1>1, <1>2, <1>3, EntryOfMatch

(* A run misses nothing that was submitted before it began, and lists no   *)
(* host twice (pipeline.py:51-68).                                         *)
THEOREM RunsCoverSubmitted == Spec => []RunCoversSubmitted
<1>1. RunInv => RunCoversSubmitted
  <2> SUFFICES ASSUME RunInv, NEW r \in Runners, pc[r] \in {"count", "summary", "done"}
               PROVE  /\ \A i \in 1..submitted[r] :
                           observations[i] \in Confirmed =>
                             HostOf[observations[i]] \in Listed(entries[r])
                      /\ \A e, f \in entries[r] : e.host = f.host => e = f
    BY DEF RunCoversSubmitted
  <2>1. Made(r) /\ dets[r] \in Seq(Detection) /\ entries[r] = Entries(dets[r])
    BY DEF RunInv, TypeOK, EntriesMade, Made
  <2> QED
    BY <2>1, MadeCovers, EntriesDiffer
<1> QED
  BY <1>1, RunInvariant, PTL

(* A publication withdraws a host only if no confirmed page of it had been *)
(* submitted when the publishing run began (pipeline.py:67).               *)
THEOREM WithdrawalsAreNewer == Spec => WithdrawsOnlyNewer
<1> DEFINE Withdraws ==
      \A h \in Listed(lastBlocklist) \ Listed(lastBlocklist') :
        \E r \in Runners :
          /\ pc[r] = "record" /\ pc'[r] = "count"
          /\ \A i \in 1..submitted[r] :
               observations[i] \in Confirmed => HostOf[observations[i]] # h
<1>1. RunInv /\ [Next]_vars => [Withdraws]_vars
  <2> SUFFICES ASSUME RunInv, Next, NEW h \in Listed(lastBlocklist) \ Listed(lastBlocklist')
               PROVE  \E r \in Runners :
                        /\ pc[r] = "record" /\ pc'[r] = "count"
                        /\ \A i \in 1..submitted[r] :
                             observations[i] \in Confirmed => HostOf[observations[i]] # h
    OBVIOUS
  <2>1. lastBlocklist' # lastBlocklist
    OBVIOUS
  <2>2. PICK r \in Runners : Publish(r)
    BY <2>1 DEF Next, Serve, Submit, StartRun, Detect, EndDetect, UpsertHost, BeginLabels,
                LabelsFail, Generate, RecordEntry, BeginSummary, EndSummary
  <2>3. pc[r] = "record" /\ pc'[r] = "count" /\ lastBlocklist' = entries[r]
    BY <2>2 DEF Publish, RunInv, TypeOK, Threads
  <2>4. \A i \in 1..submitted[r] :
          observations[i] \in Confirmed => HostOf[observations[i]] \in Listed(lastBlocklist')
    BY <2>3, MadeCovers DEF Made
  <2> QED
    BY <2>3, <2>4
<1> QED
  BY <1>1, RunInvariant, PTL DEF Spec, WithdrawsOnlyNewer
=============================================================================
