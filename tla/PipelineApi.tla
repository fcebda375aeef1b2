------------------------------ MODULE PipelineApi ------------------------------
(***************************************************************************)
(* aegis/pipeline.py behind aegis/api/main.py.  The endpoints are plain    *)
(* functions, so the server runs each request in a thread of its own; all  *)
(* of them share one Pipeline and nothing is locked.  A run goes through   *)
(* the live list of observations, upserts the hosts it confirmed, labels   *)
(* the asset graph, records its entries and publishes them.  record() is   *)
(* one step here: EvidenceLedger looks inside it.                          *)
(***************************************************************************)
EXTENDS Naturals, Sequences, FiniteSets

CONSTANTS Runners,          \* threads that serve POST /pipeline/run
          Readers,          \* threads that serve GET /operators
          Urls, Hosts,
          HostOf,           \* HostOf[u]: urlparse(u).netloc
          Confirmed,        \* the URLs the detection backend scores high enough
          Preloaded,        \* the observations the pipeline is created with
          Seeded,           \* the hosts in the graph it is created with
          MaxObservations,  \* bound of the model: length of the submitted list
          MaxRuns           \* bound of the model: calls of run()

ASSUME ApiAssumption ==
  /\ Runners \cap Readers = {}
  /\ HostOf \in [Urls -> Hosts]
  /\ Confirmed \subseteq Urls
  /\ Preloaded \in Seq(Urls)
  /\ Seeded \subseteq Hosts /\ IsFiniteSet(Hosts)
  /\ MaxObservations \in Nat /\ MaxRuns \in Nat

VARIABLES observations,   \* Pipeline._observations
          assets,         \* hosts among the keys of graph.assets
          ledger,         \* the evidence records, in order
          lastBlocklist,  \* Pipeline.last_blocklist
          runs,           \* runs started so far
          pc, idx,        \* per thread: the statement and loop index it is at
          dets, entries,  \* per runner: detections and blocklist of its run
          size,           \* per thread: len(graph.assets) when it began to iterate
          submitted       \* history, per runner: observations when its run began

locals == <<pc, idx, dets, entries, size, submitted>>
vars == <<observations, assets, ledger, lastBlocklist, runs, locals>>

Threads == Runners \union Readers

Detection == [url : Urls, ref : Nat]     \* ref = 0: not matched, no evidence
Entry == [host : Hosts, ref : Nat]
Evidence == [kind : {"detection"}, subject : Urls] \union
            [kind : {"blocklist"}, subject : Hosts]

(* Types of what the threads share and of their locals: the graph holds    *)
(* hosts, and no URLs (pipeline.py:60).                                    *)
TypeOK ==
  /\ observations \in Seq(Urls)
  /\ assets \subseteq Hosts
  /\ ledger \in Seq(Evidence)
  /\ lastBlocklist \subseteq Entry
  /\ runs \in 0..MaxRuns
  /\ pc \in [Threads -> {"idle", "detect", "upsert", "labels", "record",
                         "count", "summary", "done", "failed"}]
  /\ idx \in [Runners -> Nat]
  /\ dets \in [Runners -> Seq(Detection)]
  /\ entries \in [Runners -> SUBSET Entry]
  /\ size \in [Threads -> Nat]
  /\ submitted \in [Runners -> Nat]

(* Pipeline.demo_instance(): the wired pipeline with its observations.     *)
Init ==
  /\ observations = Preloaded
  /\ assets = Seeded
  /\ ledger = <<>>
  /\ lastBlocklist = {}
  /\ runs = 0
  /\ pc = [t \in Threads |-> "idle"]
  /\ idx = [r \in Runners |-> 0]
  /\ dets = [r \in Runners |-> <<>>]
  /\ entries = [r \in Runners |-> {}]
  /\ size = [t \in Threads |-> 0]
  /\ submitted = [r \in Runners |-> 0]

-----------------------------------------------------------------------------
(* A submission that puts its host into the graph at once.                 *)
SubmitAndUpsert(u) ==
  /\ Len(observations) < MaxObservations
  /\ observations' = Append(observations, u)
  /\ assets' = assets \union {HostOf[u]}
  /\ UNCHANGED <<ledger, lastBlocklist, runs, locals>>

(* POST /observations: self._observations.extend(obs) is one step.         *)
Submit(u) ==
  /\ Len(observations) < MaxObservations
  /\ observations' = Append(observations, u)
  /\ UNCHANGED <<assets, ledger, lastBlocklist, runs, locals>>

Idle(t) == pc[t] \in {"idle", "done", "failed"}

(* A run that begins by emptying the published list.                       *)
StartRunEmptied(r) ==
  /\ Idle(r)
  /\ runs < MaxRuns
  /\ runs' = runs + 1
  /\ pc' = [pc EXCEPT ![r] = "detect"]
  /\ dets' = [dets EXCEPT ![r] = <<>>]
  /\ submitted' = [submitted EXCEPT ![r] = Len(observations)]
  /\ lastBlocklist' = {}
  /\ UNCHANGED <<observations, assets, ledger, idx, entries, size>>

StartRun(r) ==
  /\ Idle(r)
  /\ runs < MaxRuns
  /\ runs' = runs + 1
  /\ pc' = [pc EXCEPT ![r] = "detect"]
  /\ dets' = [dets EXCEPT ![r] = <<>>]
  /\ submitted' = [submitted EXCEPT ![r] = Len(observations)]
  /\ UNCHANGED <<observations, assets, ledger, lastBlocklist, idx, entries, size>>

(* DetectionService.evaluate(o): a match is recorded before it is returned. *)
Evaluate(r) ==
  LET u == observations[Len(dets[r]) + 1]
      matched == u \in Confirmed
  IN  /\ ledger' = IF matched
                     THEN Append(ledger, [kind |-> "detection", subject |-> u])
                     ELSE ledger
      /\ dets' = [dets EXCEPT ![r] =
           Append(@, [url |-> u, ref |-> IF matched THEN Len(ledger) + 1 ELSE 0])]

(* The list comprehension takes the next element of the live list.         *)
Detect(r) ==
  /\ pc[r] = "detect"
  /\ Len(dets[r]) < Len(observations)
  /\ Evaluate(r)
  /\ UNCHANGED <<observations, assets, lastBlocklist, runs, pc, idx, entries, size,
                 submitted>>

(* A detection loop that leaves out the last observation.                  *)
EndDetectShort(r) ==
  /\ pc[r] = "detect"
  /\ Len(dets[r]) + 1 >= Len(observations)
  /\ pc' = [pc EXCEPT ![r] = "upsert"]
  /\ idx' = [idx EXCEPT ![r] = 0]
  /\ UNCHANGED <<observations, assets, ledger, lastBlocklist, runs, dets, entries,
                 size, submitted>>

EndDetect(r) ==
  /\ pc[r] = "detect"
  /\ Len(dets[r]) = Len(observations)
  /\ pc' = [pc EXCEPT ![r] = "upsert"]
  /\ idx' = [idx EXCEPT ![r] = 0]
  /\ UNCHANGED <<observations, assets, ledger, lastBlocklist, runs, dets, entries,
                 size, submitted>>

(* A pipeline that stores the URL where it should store the host.          *)
UpsertUrl(r) ==
  /\ pc[r] = "upsert"
  /\ idx[r] < Len(dets[r])
  /\ LET d == dets[r][idx[r] + 1]
     IN  assets' = IF d.ref # 0 THEN assets \union {d.url} ELSE assets
  /\ idx' = [idx EXCEPT ![r] = @ + 1]
  /\ UNCHANGED <<observations, ledger, lastBlocklist, runs, pc, dets, entries, size,
                 submitted>>

(* if det.matched: self.graph.upsert_asset(AssetType.DOMAIN, host)         *)
UpsertHost(r) ==
  /\ pc[r] = "upsert"
  /\ idx[r] < Len(dets[r])
  /\ LET d == dets[r][idx[r] + 1]
     IN  assets' = IF d.ref # 0 THEN assets \union {HostOf[d.url]} ELSE assets
  /\ idx' = [idx EXCEPT ![r] = @ + 1]
  /\ UNCHANGED <<observations, ledger, lastBlocklist, runs, pc, dets, entries, size,
                 submitted>>

(* generate() labels the graph first: operator_clusters() iterates over    *)
(* the assets, and an iteration fails if their number changes meanwhile.   *)
BeginLabels(r) ==
  /\ pc[r] = "upsert"
  /\ idx[r] = Len(dets[r])
  /\ pc' = [pc EXCEPT ![r] = "labels"]
  /\ size' = [size EXCEPT ![r] = Cardinality(assets)]
  /\ UNCHANGED <<observations, assets, ledger, lastBlocklist, runs, idx, dets,
                 entries, submitted>>

(* _dedupe keeps what the first match of a host has asked for.             *)
IsFirst(ds, i) ==
  /\ ds[i].ref # 0
  /\ \A j \in 1..(i - 1) : ds[j].ref # 0 => HostOf[ds[j].url] # HostOf[ds[i].url]

(* The entries of generate().                                              *)
Entries(ds) ==
  {[host |-> HostOf[ds[i].url], ref |-> ds[i].ref] : i \in {k \in DOMAIN ds : IsFirst(ds, k)}}

IterationFails(t) ==
  /\ Cardinality(assets) # size[t]
  /\ pc' = [pc EXCEPT ![t] = "failed"]

LabelsFail(r) ==
  /\ pc[r] = "labels"
  /\ IterationFails(r)
  /\ UNCHANGED <<observations, assets, ledger, lastBlocklist, runs, idx, dets,
                 entries, size, submitted>>

Generate(r) ==
  /\ pc[r] = "labels"
  /\ Cardinality(assets) = size[r]
  /\ entries' = [entries EXCEPT ![r] = Entries(dets[r])]
  /\ pc' = [pc EXCEPT ![r] = "record"]
  /\ idx' = [idx EXCEPT ![r] = 0]
  /\ UNCHANGED <<observations, assets, ledger, lastBlocklist, runs, dets, size,
                 submitted>>

(* The entries after position i of the detections.                         *)
Unrecorded(r, i) == {k \in DOMAIN dets[r] : k > i /\ IsFirst(dets[r], k)}

(* The entries are recorded in the order of the detections.                *)
RecordEntry(r) ==
  /\ pc[r] = "record"
  /\ \E i \in Unrecorded(r, idx[r]) :
       /\ \A k \in Unrecorded(r, idx[r]) : i <= k
       /\ ledger' = Append(ledger, [kind |-> "blocklist",
                                    subject |-> HostOf[dets[r][i].url]])
       /\ idx' = [idx EXCEPT ![r] = i]
  /\ UNCHANGED <<observations, assets, lastBlocklist, runs, pc, dets, entries, size,
                 submitted>>

(* A publication that does not wait for the records.                       *)
PublishEarly(r) ==
  /\ pc[r] = "record"
  /\ lastBlocklist' = entries[r]
  /\ pc' = [pc EXCEPT ![r] = "count"]
  /\ UNCHANGED <<observations, assets, ledger, runs, idx, dets, entries, size,
                 submitted>>

(* self.last_blocklist = blocklist                                         *)
Publish(r) ==
  /\ pc[r] = "record"
  /\ Unrecorded(r, idx[r]) = {}
  /\ lastBlocklist' = entries[r]
  /\ pc' = [pc EXCEPT ![r] = "count"]
  /\ UNCHANGED <<observations, assets, ledger, runs, idx, dets, entries, size,
                 submitted>>

(* pipeline.graph.summarise(), in the answer of a run and of GET /operators, *)
(* iterates over the assets too.                                           *)
BeginSummary(t) ==
  /\ \/ t \in Runners /\ pc[t] = "count"
     \/ t \in Readers /\ Idle(t)
  /\ pc' = [pc EXCEPT ![t] = "summary"]
  /\ size' = [size EXCEPT ![t] = Cardinality(assets)]
  /\ UNCHANGED <<observations, assets, ledger, lastBlocklist, runs, idx, dets,
                 entries, submitted>>

EndSummary(t) ==
  /\ pc[t] = "summary"
  /\ \/ IterationFails(t)
     \/ /\ Cardinality(assets) = size[t]
        /\ pc' = [pc EXCEPT ![t] = "done"]
  /\ UNCHANGED <<observations, assets, ledger, lastBlocklist, runs, idx, dets,
                 entries, size, submitted>>

Serve(r) ==
  \/ Detect(r) \/ EndDetect(r)
  \/ UpsertHost(r) \/ BeginLabels(r)
  \/ LabelsFail(r) \/ Generate(r)
  \/ RecordEntry(r) \/ Publish(r)

Next ==
  \/ \E u \in Urls : Submit(u)
  \/ \E r \in Runners : StartRun(r) \/ Serve(r)
  \/ \E t \in Threads : BeginSummary(t) \/ EndSummary(t)

(* The scheduler gives every thread its turn; no thread waits for another. *)
Fairness ==
  /\ \A r \in Runners : WF_vars(Serve(r))
  /\ \A t \in Threads : WF_vars(BeginSummary(t) \/ EndSummary(t))

Spec == Init /\ [][Next]_vars /\ Fairness

-----------------------------------------------------------------------------
Listed(bl) == {e.host : e \in bl}

(* What GET /blocklist shows rests on evidence: every entry refers to the  *)
(* record of a detection on its host, and the ledger tells of its listing  *)
(* after that (pipeline.py:62-67, generator.py:15).                        *)
PublishedIsEvidenced ==
  \A e \in lastBlocklist :
    /\ e.ref \in DOMAIN ledger
    /\ \E u \in Urls : /\ ledger[e.ref] = [kind |-> "detection", subject |-> u]
                       /\ HostOf[u] = e.host
    /\ \E k \in DOMAIN ledger :
         k > e.ref /\ ledger[k] = [kind |-> "blocklist", subject |-> e.host]

(* A run misses nothing that was submitted before it began: when it has    *)
(* published, each confirmed host of those observations is on its list,    *)
(* once (pipeline.py:51-68, generator.py:132).                             *)
RunCoversSubmitted ==
  \A r \in Runners : pc[r] \in {"count", "summary", "done"} =>
    /\ \A i \in 1..submitted[r] :
         observations[i] \in Confirmed => HostOf[observations[i]] \in Listed(entries[r])
    /\ \A e, f \in entries[r] : e.host = f.host => e = f

(* A started run is answered although it goes through a list that grows    *)
(* meanwhile; submissions are finite.  The answer is a result unless a     *)
(* second run was started: submissions and readers alone, at whatever      *)
(* moment they come, make no run fail (graph.py:76).                       *)
RunsAnswered ==
  \A r \in Runners :
    pc[r] = "detect" ~> pc[r] = "done" \/ (pc[r] = "failed" /\ runs >= 2)

(* A publication withdraws a host only if no page of it that is confirmed  *)
(* had been submitted when the publishing run began: at worst the list is  *)
(* as old as the run (pipeline.py:67).                                     *)
WithdrawsOnlyNewer ==
  [][\A h \in Listed(lastBlocklist) \ Listed(lastBlocklist') :
       \E r \in Runners :
         /\ pc[r] = "record" /\ pc'[r] = "count"
         /\ \A i \in 1..submitted[r] :
              observations[i] \in Confirmed => HostOf[observations[i]] # h]_vars
=============================================================================
