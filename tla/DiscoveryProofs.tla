---------------------------- MODULE DiscoveryProofs ----------------------------
(***************************************************************************)
(* What discovery nominates, for any sources, answers and failures: each   *)
(* domain once, and no neighbour from an address that many names share.    *)
(***************************************************************************)
EXTENDS Discovery, ListLemmas, SequenceTheorems

(* What waits to be yielded comes from no shared host either: the guard    *)
(* works before anything of an address is yielded (sources.py:281).        *)
PrivateHosts(entries) ==
  \A i \in DOMAIN entries :
    entries[i].via.ip => Cardinality(Tenants[entries[i].via.value]) <= SharedHost

DiscoveryInv == TypeOK /\ PrivateHosts(pending) /\ SharedHostsNotNominated

-----------------------------------------------------------------------------
(* What a cut list has is what the list had.                               *)
LEMMA FirstIsPart ==
  ASSUME NEW U, NEW names \in Seq(U), NEW limit \in Nat
  PROVE  /\ First(names, limit) \in Seq(U)
         /\ Len(First(names, limit)) = IF Len(names) <= limit THEN Len(names) ELSE limit
<1> DEFINE n == IF Len(names) <= limit THEN Len(names) ELSE limit
<1>1. n \in Nat /\ n <= Len(names)
  OBVIOUS
<1>2. 1 \in Nat \ {0} /\ n \in 0..Len(names)
  BY <1>1
<1>3. SubSeq(names, 1, n) \in Seq(U) /\ Len(SubSeq(names, 1, n)) = n
  BY <1>1
<1> QED
  BY <1>3 DEF First

(* A list without its repetitions is a list of the same kind.              *)
LEMMA DistinctType ==
  ASSUME NEW U, NEW names \in Seq(U)
  PROVE  Distinct(names) \in Seq(U)
<1> DEFINE n == Len(names)
           Q == Seq(U)
           Add(c, k) == AppendIf(names[k] \notin ToSet(c), c, names[k])
           step == [k \in 1..n |-> [c \in Q |-> Add(c, k)]]
           Body(f) == [k \in 0..n |-> IF k = 0 THEN <<>> ELSE Add(f[k - 1], k)]
           g == CHOOSE f : f = Body(f)
<1>1. n \in Nat /\ \A k \in 1..n : names[k] \in U
  OBVIOUS
<1>2. <<>> \in Q
  OBVIOUS
<1>3. ASSUME NEW c \in Q, NEW k \in 1..n PROVE Add(c, k) \in Q
  BY <1>1, AppendProperties DEF AppendIf
<1>4. Distinct(names) = g[n]
  BY DEF Distinct
<1> HIDE DEF n, Q, Add
<1>5. step \in StepFunctions(n, Q)
  BY <1>3 DEF StepFunctions
<1>6. PICK f \in [0..n -> Q] : Iterates(f, n, <<>>, step)
  <2> HIDE DEF step
  <2> QED
    BY <1>1, <1>2, <1>5, RecursionExists
<1>7. f[0] = <<>> /\ \A k \in 1..n : f[k] = Add(f[k - 1], k)
  <2>1. \A k \in 1..n : f[k - 1] \in Q
    BY <1>1
  <2> QED
    BY <1>6, <2>1 DEF Iterates
<1>8. f = Body(f)
  BY <1>1, <1>7
<1>9. g = Body(g)
  BY <1>8
<1> HIDE DEF g
<1>10. g[0] = <<>> /\ \A k \in 1..n : g[k] = Add(g[k - 1], k)
  BY <1>1, <1>9
<1>11. \A k \in 0..n : g[k] \in Q
  BY <1>1, <1>2, <1>3, <1>10, RecursionKeeps
<1> QED
  BY <1>1, <1>4, <1>11 DEF Q

-----------------------------------------------------------------------------
Pending == [name : Names, via : Via]

(* Names that are yielded as they are have come by no address.             *)
LEMMA PlainNames ==
  ASSUME NEW names \in Seq(Names)
  PROVE  Plain(names) \in Seq(Pending) /\ PrivateHosts(Plain(names))
<1>1. \A i \in DOMAIN names : [name |-> names[i], via |-> NoVia] \in Pending
  BY DEF Pending, Via
<1>2. Plain(names) \in Seq(Pending)
  BY <1>1 DEF Plain
<1> QED
  BY <1>2 DEF Plain, PrivateHosts, NoVia

(* The sources are what the assumption says.                               *)
LEMMA SourceTypes ==
  /\ Len(Sources) \in Nat /\ DOMAIN Sources = 1..Len(Sources)
  /\ \A i \in DOMAIN Sources :
       /\ Sources[i].kind \in Kinds /\ Sources[i].run \in Nat
       /\ Items(i) = Sources[i].items
       /\ Items(i) \in Seq(DOMAIN Holding)
       /\ Sources[i].kind # "ct_log" => Items(i) \in Seq(Names)
<1> DEFINE Source == [kind : Kinds, items : Seq(DOMAIN Holding), run : Nat]
<1>1. Sources \in Seq(Source)
  BY DiscoveryAssumption DEF DiscoveryAssumption
<1>2. Len(Sources) \in Nat /\ DOMAIN Sources = 1..Len(Sources)
  <2> HIDE DEF Source
  <2> QED
    BY <1>1
<1>3. ASSUME NEW i \in DOMAIN Sources
      PROVE  Sources[i] \in Source
  <2> HIDE DEF Source
  <2> QED
    BY <1>1
<1>4. ASSUME NEW i \in DOMAIN Sources
      PROVE  Sources[i].kind \in Kinds /\ Sources[i].run \in Nat /\ Sources[i].items \in Seq(DOMAIN Holding)
  BY <1>3
<1>5. ASSUME NEW i \in DOMAIN Sources
      PROVE  Sources[i].kind # "ct_log" => Sources[i].items \in Seq(Names)
  BY DiscoveryAssumption DEF DiscoveryAssumption
<1>6. \A i \in DOMAIN Sources : Items(i) = Sources[i].items
  BY DEF Items
<1> QED
  BY <1>2, <1>4, <1>5, <1>6

(* A source that starts has the start of its list before it.               *)
LEMMA ItemsAhead ==
  ASSUME NEW i \in 1..(Len(Sources) + 1)
  PROVE  /\ \E n \in 0..Len(Items(i)) : Items(i) = SubSeq(Items(i), n + 1, Len(Items(i)))
         /\ SeenAtFirst(i) \subseteq Names
<1>1. Items(i) \in Seq(DOMAIN Holding)
  <2>1. <<>> \in Seq(DOMAIN Holding)
    OBVIOUS
  <2> QED
    BY <2>1, SourceTypes DEF Items
<1>2. Items(i) = SubSeq(Items(i), 0 + 1, Len(Items(i))) /\ 0 \in 0..Len(Items(i))
  BY <1>1
<1>3. SeenAtFirst(i) \subseteq Names
  <2>1. ASSUME i \in DOMAIN Sources, Sources[i].kind # "ct_log"
        PROVE  ToSet(Items(i)) \subseteq Names
    BY <2>1, SourceTypes, ToSetOfSeq
  <2> QED
    BY <2>1 DEF SeenAtFirst
<1> QED
  BY <1>2, <1>3

(* What comes after the first of the rest of a list is a rest as well.     *)
LEMMA RestOfRest ==
  ASSUME NEW U, NEW items \in Seq(U), NEW rest, rest # <<>>,
         \E n \in 0..Len(items) : rest = SubSeq(items, n + 1, Len(items))
  PROVE  /\ \E n \in 0..Len(items) : Tail(rest) = SubSeq(items, n + 1, Len(items))
         /\ Head(rest) \in U
<1>1. PICK n \in 0..Len(items) : rest = SubSeq(items, n + 1, Len(items))
  OBVIOUS
<1>2. Len(items) \in Nat /\ n \in Nat
  OBVIOUS
<1>3. n + 1 <= Len(items)
  <2> SUFFICES ASSUME Len(items) < n + 1 PROVE FALSE
    BY <1>2
  <2> QED
    BY <1>1, <1>2, SubSeqEmpty
<1>4. n + 1 \in 1..Len(items) /\ Len(items) \in (n + 1)..Len(items)
  BY <1>2, <1>3
<1>5. Head(rest) = items[n + 1] /\ Tail(rest) = SubSeq(items, (n + 1) + 1, Len(items))
  BY <1>1, <1>4, HeadTailOfSubSeq
<1>6. n + 1 \in 0..Len(items) /\ items[n + 1] \in U
  BY <1>4
<1> QED
  BY <1>5, <1>6

-----------------------------------------------------------------------------
(* A source that is running is one of them, and its list that of its kind. *)
LEMMA Running ==
  ASSUME TypeOK, ~Done
  PROVE  /\ current \in DOMAIN Sources /\ Kind \in Kinds
         /\ Items(current) \in Seq(DOMAIN Holding)
         /\ Kind # "ct_log" => Items(current) \in Seq(Names)
<1>1. current \in DOMAIN Sources
  BY SourceTypes DEF TypeOK, Done
<1> QED
  BY <1>1, SourceTypes DEF Kind

(* The rest of the list of a source that goes on.                          *)
LEMMA TodoShrinks ==
  ASSUME TypeOK, ~Done, todo # <<>>
  PROVE  \E n \in 0..Len(Items(current)) :
           Tail(todo) = SubSeq(Items(current), n + 1, Len(Items(current)))
BY Running, RestOfRest DEF TypeOK

(* The first of the list is dealt with, and so is what came of it.         *)
LEMMA FinishKeeps ==
  ASSUME DiscoveryInv, ~Done, todo # <<>>, NEW names \in Seq(Names), Finish(names)
  PROVE  DiscoveryInv'
<1> USE DEF DiscoveryInv
<1>1. Items(current)' = Items(current)
  BY DEF Finish, Items
<1>2. /\ pending' \in Seq(Pending) /\ PrivateHosts(pending)'
  BY PlainNames DEF Finish, PrivateHosts
<1>3. attempt' \in 0..(Retries - 1)
  BY DiscoveryAssumption DEF DiscoveryAssumption, Finish
<1>4. sans' \in [read : BOOLEAN, names : SUBSET Names]
  BY DEF Finish, Unread
<1>5. \E n \in 0..Len(Items(current)') :
        todo' = SubSeq(Items(current)', n + 1, Len(Items(current)'))
  BY <1>1, TodoShrinks DEF Finish
<1>6. TypeOK'
  BY <1>2, <1>3, <1>4, <1>5 DEF TypeOK, Finish, Pending
<1> QED
  BY <1>2, <1>6 DEF Finish, SharedHostsNotNominated

(* A source starts with nothing to yield.                                  *)
LEMMA BeginKeeps ==
  ASSUME DiscoveryInv, NEW i \in 1..(Len(Sources) + 1), Begin(i),
         broken' \subseteq DOMAIN Sources
  PROVE  DiscoveryInv'
<1> USE DEF DiscoveryInv
<1>1. Items(current)' = Items(i)
  BY DEF Begin, Items
<1>2. seen' \subseteq Names
  BY ItemsAhead DEF Begin
<1>3. attempt' \in 0..(Retries - 1)
  BY DiscoveryAssumption DEF DiscoveryAssumption, Begin
<1>4. sans' \in [read : BOOLEAN, names : SUBSET Names]
  BY DEF Begin, Unread
<1>5. \E n \in 0..Len(Items(current)') :
        todo' = SubSeq(Items(current)', n + 1, Len(Items(current)'))
  BY <1>1, ItemsAhead DEF Begin
<1>6. pending' \in Seq(Pending) /\ targets' \in Seq(Ips) /\ current' \in 1..(Len(Sources) + 1)
  BY DEF Begin
<1>7. TypeOK'
  BY <1>2, <1>3, <1>4, <1>5, <1>6 DEF TypeOK, Begin, Pending
<1>8. PrivateHosts(pending)'
  BY DEF Begin, PrivateHosts
<1> QED
  BY <1>7, <1>8 DEF Begin, SharedHostsNotNominated

(* Whatever is asked of crt.sh, names come of it (sources.py:82-88).       *)
LEMMA CandidatesAreNames ==
  ASSUME TypeOK, ~Done, NEW names \in Seq(Names)
  PROVE  Candidates(names) \in Seq(Names) /\ Taken(names) \in Seq(Names)
<1>1. Candidates(names) \in Seq(Names)
  <2>1. sans.names \subseteq Names /\ ToSet(names) \subseteq Names
    BY ToSetOfSeq DEF TypeOK
  <2>2. IsFiniteSet(sans.names \union ToSet(names))
    BY <2>1, FS_Subset, DiscoveryAssumption DEF DiscoveryAssumption
  <2>3. SetToSeq(sans.names \union ToSet(names)) \in Seq(sans.names \union ToSet(names))
    BY <2>2, SetToSeqIsIt
  <2>4. SetToSeq(sans.names \union ToSet(names)) \in Seq(Names)
    BY <2>1, <2>3, SeqMonotonic
  <2> QED
    BY <2>4 DEF Candidates
<1>2. Taken(names) \in Seq(Names)
  <2> DEFINE kept == Kept(names, Holding[Head(todo)])
  <2>1. kept \in Seq(Names \cap Holding[Head(todo)])
    BY KeptIsThose
  <2>2. kept \in Seq(Names)
    BY <2>1, SeqMonotonic
  <2>3. Distinct(kept) \in Seq(Names)
    <3> HIDE DEF kept
    <3> QED
      BY <2>2, DistinctType
  <2>4. CrtLimit \in Nat
    BY DiscoveryAssumption DEF DiscoveryAssumption
  <2> QED
    BY <2>3, <2>4, FirstIsPart DEF Taken
<1> QED
  BY <1>1, <1>2

(* The guard: an address whose names are few enough to be used has no more *)
(* than those, because a list is cut off above the threshold (:281).       *)
LEMMA GuardTells ==
  ASSUME NEW ip \in Ips
  PROVE  /\ Cohosted(ip) \in Seq(Names)
         /\ Len(Cohosted(ip)) <= SharedHost => Cardinality(Tenants[ip]) <= SharedHost
<1>1. /\ Tenants[ip] \subseteq Names /\ IsFiniteSet(Names)
      /\ IpLimit \in Nat /\ SharedHost \in Nat /\ IpLimit > SharedHost
  BY DiscoveryAssumption DEF DiscoveryAssumption
<1>2. IsFiniteSet(Tenants[ip])
  BY <1>1, FS_Subset
<1>3. /\ SetToSeq(Tenants[ip]) \in Seq(Tenants[ip])
      /\ Len(SetToSeq(Tenants[ip])) = Cardinality(Tenants[ip])
      /\ Cardinality(Tenants[ip]) \in Nat
  BY <1>2, SetToSeqIsIt
<1>4. SetToSeq(Tenants[ip]) \in Seq(Names)
  BY <1>1, <1>3, SeqMonotonic
<1> QED
  BY <1>1, <1>3, <1>4, FirstIsPart DEF Cohosted

(* An address that the reverse-IP service answers for is dropped when too  *)
(* many names share it (sources.py:275-297).                               *)
LEMMA LookupKeeps ==
  ASSUME DiscoveryInv, NEW answered \in BOOLEAN, Lookup(answered)
  PROVE  DiscoveryInv'
<1> USE DEF DiscoveryInv
<1> DEFINE ip == Head(targets)
           names == IF answered THEN Cohosted(ip) ELSE <<>>
           entries == [i \in DOMAIN names |-> [name |-> names[i], via |-> ByIp(ip)]]
<1>1. targets \in Seq(Ips) /\ targets # <<>>
  BY DEF Lookup, LooksUp, TypeOK
<1>2. ip \in Ips /\ Tail(targets) \in Seq(Ips)
  BY <1>1
<1>3. pending' = IF Len(names) > SharedHost THEN <<>> ELSE entries
  BY DEF Lookup
<1>4. names \in Seq(Names) /\ (Len(names) <= SharedHost =>
        names = <<>> \/ Cardinality(Tenants[ip]) <= SharedHost)
  <2> HIDE DEF ip
  <2>1. <<>> \in Seq(Names)
    OBVIOUS
  <2> QED
    BY <1>2, <2>1, GuardTells
<1>5. entries \in Seq(Pending)
  <2> HIDE DEF names, ip
  <2>1. \A i \in DOMAIN names : [name |-> names[i], via |-> ByIp(ip)] \in Pending
    BY <1>2, <1>4 DEF Pending, Via
  <2> QED
    BY <1>4, <2>1
<1>6. pending' \in Seq(Pending)
  <2> HIDE DEF entries, names
  <2> QED
    BY <1>3, <1>5
<1>7. PrivateHosts(pending)'
  <2> HIDE DEF names, ip
  <2>1. CASE Len(names) > SharedHost
    BY <1>3, <2>1 DEF PrivateHosts
  <2>2. CASE ~(Len(names) > SharedHost)
    <3>1. Len(names) <= SharedHost
      BY <1>4, <2>2, DiscoveryAssumption DEF DiscoveryAssumption
    <3>2. pending' = entries
      BY <1>3, <2>2
    <3>3. \A i \in DOMAIN names : Cardinality(Tenants[ip]) <= SharedHost
      BY <1>4, <3>1
    <3> QED
      BY <3>2, <3>3 DEF PrivateHosts, ByIp
  <2> QED
    BY <2>1, <2>2
<1>8. Items(current)' = Items(current) /\ UNCHANGED <<current, todo, attempt, sans, seen, out, broken>>
      /\ targets' = Tail(targets)
  BY DEF Lookup, Items
<1>9. TypeOK'
  <2> HIDE DEF names, ip
  <2> QED
    BY <1>2, <1>6, <1>8 DEF TypeOK, Pending
<1> QED
  BY <1>7, <1>8, <1>9 DEF SharedHostsNotNominated

(* What is yielded is listed unless the orchestrator has it (:345-360).    *)
LEMMA YieldKeeps ==
  ASSUME DiscoveryInv, Yield
  PROVE  DiscoveryInv'
<1> USE DEF DiscoveryInv
<1> DEFINE Obs == [name : Names, source : Kinds, via : Via, run : Nat]
<1>1. pending \in Seq(Pending) /\ pending # <<>> /\ ~Done
  BY DEF Yield, TypeOK, Pending
<1>2. Head(pending) \in Pending /\ Tail(pending) \in Seq(Pending) /\ 1 \in DOMAIN pending
      /\ Head(pending) = pending[1]
      /\ \A i \in DOMAIN Tail(pending) : i + 1 \in DOMAIN pending /\ Tail(pending)[i] = pending[i + 1]
  <2> HIDE DEF Pending
  <2> QED
    BY <1>1
<1>3. Head(pending).name \in Names /\ Head(pending).via \in Via
  BY <1>2 DEF Pending
<1>4. current \in DOMAIN Sources /\ Kind \in Kinds /\ Sources[current].run \in Nat
  BY <1>1, Running, SourceTypes
<1>5. Observation \in Obs
  BY <1>3, <1>4 DEF Observation
<1>6. out \in Seq(Obs)
  BY DEF TypeOK
<1>7. PrivateHosts(pending)'
  BY <1>2 DEF Yield, PrivateHosts
<1>8. Items(current)' = Items(current)
  BY DEF Yield, Items
<1>9. Observation.name = Head(pending).name /\ Observation.via = Head(pending).via
      /\ Observation.run = Sources[current].run
  BY DEF Observation
<1>10. CASE out' = out
  <2>1. TypeOK'
    BY <1>2, <1>3, <1>8, <1>10 DEF TypeOK, Pending, Yield, asking
  <2> QED
    BY <1>7, <1>10, <2>1 DEF SharedHostsNotNominated
<1>11. CASE out' = Append(out, Observation) /\ ~Listed(Head(pending).name)
  <2> HIDE DEF Obs
  <2>1. /\ out' \in Seq(Obs) /\ Len(out) \in Nat
        /\ DOMAIN out = 1..Len(out) /\ DOMAIN out' = 1..(Len(out) + 1)
        /\ out'[Len(out) + 1] = Observation
        /\ \A i \in 1..Len(out) : out'[i] = out[i]
    BY <1>5, <1>6, <1>11
  <2>2. \A i \in DOMAIN out : ~(out[i].name = Observation.name /\ out[i].run = Observation.run)
    BY <1>9, <1>11 DEF Listed
  <2>3. \A i, j \in DOMAIN out : out[i].name = out[j].name /\ out[i].run = out[j].run => i = j
    BY DEF TypeOK
  <2>4. ASSUME NEW i \in DOMAIN out', NEW j \in DOMAIN out',
               out'[i].name = out'[j].name, out'[i].run = out'[j].run
        PROVE  i = j
    <3>1. i \in DOMAIN out \/ i = Len(out) + 1
      BY <2>1
    <3>2. j \in DOMAIN out \/ j = Len(out) + 1
      BY <2>1
    <3> QED
      BY <2>1, <2>2, <2>3, <2>4, <3>1, <3>2
  <2>5. TypeOK'
    BY <1>2, <1>3, <1>8, <2>1, <2>4 DEF TypeOK, Pending, Yield, asking, Obs
  <2>6. SharedHostsNotNominated'
    <3> SUFFICES ASSUME NEW i \in DOMAIN out', out'[i].via.ip
                 PROVE  Cardinality(Tenants[out'[i].via.value]) <= SharedHost
      BY DEF SharedHostsNotNominated
    <3>1. CASE i \in DOMAIN out
      BY <2>1, <3>1 DEF SharedHostsNotNominated
    <3>2. CASE i \notin DOMAIN out
      BY <1>2, <1>9, <2>1, <3>2 DEF PrivateHosts
    <3> QED
      BY <3>1, <3>2
  <2> QED
    BY <1>7, <2>5, <2>6
<1> QED
  BY <1>10, <1>11 DEF Yield

-----------------------------------------------------------------------------
(* The steps that only ask yield nothing: a certificate is read, a query   *)
(* repeated, an address kept for later (sources.py:70, :150, :263-271).    *)
LEMMA AsksKeep ==
  ASSUME DiscoveryInv,
         \/ \E names \in CertAnswers : ReadCertificate(names)
         \/ QueryAgain
         \/ \E ip \in Ips, asnKnown \in BOOLEAN : Resolve(ip, asnKnown)
  PROVE  DiscoveryInv'
<1> USE DEF DiscoveryInv
<1>1. ASSUME NEW names \in CertAnswers, ReadCertificate(names)
      PROVE  DiscoveryInv'
  <2>1. sans' \in [read : BOOLEAN, names : SUBSET Names]
    BY <1>1, DiscoveryAssumption DEF DiscoveryAssumption, ReadCertificate
  <2>2. Items(current)' = Items(current)
    BY <1>1 DEF ReadCertificate, Items
  <2> QED
    BY <1>1, <2>1, <2>2
    DEF ReadCertificate, TypeOK, PrivateHosts, SharedHostsNotNominated
<1>2. CASE QueryAgain
  <2>1. attempt' \in 0..(Retries - 1)
    BY <1>2, DiscoveryAssumption DEF DiscoveryAssumption, QueryAgain, TypeOK
  <2>2. Items(current)' = Items(current)
    BY <1>2 DEF QueryAgain, Items
  <2> QED
    BY <1>2, <2>1, <2>2 DEF QueryAgain, TypeOK, PrivateHosts, SharedHostsNotNominated
<1>3. ASSUME NEW ip \in Ips, NEW asnKnown \in BOOLEAN, Resolve(ip, asnKnown)
      PROVE  DiscoveryInv'
  <2>1. targets' \in Seq(Ips)
    BY <1>3 DEF Resolve, TypeOK
  <2>2. Items(current)' = Items(current)
    BY <1>3 DEF Resolve, Items
  <2>3. \E n \in 0..Len(Items(current)') :
          todo' = SubSeq(Items(current)', n + 1, Len(Items(current)'))
    BY <1>3, <2>2, TodoShrinks DEF Resolve, Asks
  <2> QED
    BY <1>3, <2>1, <2>2, <2>3 DEF Resolve, TypeOK, PrivateHosts, SharedHostsNotNominated
<1> QED
  BY <1>1, <1>2, <1>3

(* An answer, a failure in the end, a crawl: names to yield.               *)
LEMMA AnswersKeep ==
  ASSUME DiscoveryInv,
         \/ QueryGivenUp
         \/ \E names \in CrtAnswers : QueryAnswered(names)
         \/ ResolvesToNothing
         \/ \E names \in Crawls : Crawl(names)
  PROVE  DiscoveryInv'
<1>1. ~Done /\ todo # <<>>
  BY DEF QueryGivenUp, QueryAnswered, ResolvesToNothing, Crawl, Queries, Asks
<1>2. CrtAnswers \subseteq Seq(Names) /\ Crawls \subseteq Seq(Names) /\ <<>> \in Seq(Names)
  BY DiscoveryAssumption DEF DiscoveryAssumption
<1>3. PICK names \in Seq(Names) : Finish(names)
  <2>1. TypeOK
    BY DEF DiscoveryInv
  <2>2. CASE QueryGivenUp
    BY <1>1, <1>2, <2>1, <2>2, CandidatesAreNames DEF QueryGivenUp
  <2>3. ASSUME NEW names \in CrtAnswers, QueryAnswered(names)
        PROVE  \E list \in Seq(Names) : Finish(list)
    <3>1. Taken(names) \in Seq(Names)
      BY <1>1, <1>2, <2>1, CandidatesAreNames
    <3>2. Candidates(Taken(names)) \in Seq(Names)
      BY <1>1, <2>1, <3>1, CandidatesAreNames
    <3> QED
      BY <2>3, <3>2 DEF QueryAnswered
  <2>4. CASE ResolvesToNothing
    BY <1>2, <2>4 DEF ResolvesToNothing
  <2>5. ASSUME NEW names \in Crawls, Crawl(names)
        PROVE  \E list \in Seq(Names) : Finish(list)
    BY <1>2, <2>5 DEF Crawl
  <2> QED
    BY <2>2, <2>3, <2>4, <2>5
<1> QED
  BY <1>1, <1>3, FinishKeeps

(* A source ends or raises, and the next one starts (sources.py:348-360).  *)
LEMMA SourcesKeep ==
  ASSUME DiscoveryInv, NextSource \/ Raise
  PROVE  DiscoveryInv'
<1>1. ~Done
  BY DEF NextSource, Raise, CanRaise, Queries, Asks
<1>2. current \in DOMAIN Sources /\ broken \subseteq DOMAIN Sources
  BY <1>1, Running DEF DiscoveryInv, TypeOK
<1>3. current + 1 \in 1..(Len(Sources) + 1)
  BY <1>2, SourceTypes
<1>4. Begin(current + 1) /\ broken' \subseteq DOMAIN Sources
  BY <1>2 DEF NextSource, Raise
<1> QED
  BY <1>3, <1>4, BeginKeeps

(* Discovery starts with nothing found (sources.py:345).                   *)
LEMMA DiscoveryInvInit == Init => DiscoveryInv
<1> SUFFICES ASSUME Init PROVE DiscoveryInv
  OBVIOUS
<1>1. 1 \in 1..(Len(Sources) + 1) /\ current = 1
  BY SourceTypes DEF Init
<1>2. todo = Items(current) /\ seen = SeenAtFirst(current)
  BY DEF Init
<1>3. /\ \E n \in 0..Len(Items(current)) : todo = SubSeq(Items(current), n + 1, Len(Items(current)))
      /\ seen \subseteq Names
  BY <1>1, <1>2, ItemsAhead
<1>4. attempt \in 0..(Retries - 1)
  BY DiscoveryAssumption DEF DiscoveryAssumption, Init
<1>5. sans \in [read : BOOLEAN, names : SUBSET Names]
  BY DEF Init, Unread
<1>6. TypeOK
  BY <1>1, <1>3, <1>4, <1>5 DEF Init, TypeOK
<1> QED
  BY <1>6 DEF DiscoveryInv, Init, PrivateHosts, SharedHostsNotNominated

(* One lemma for each kind of step.                                        *)
LEMMA DiscoveryInvStep == DiscoveryInv /\ [Next]_vars => DiscoveryInv'
<1> SUFFICES ASSUME DiscoveryInv, [Next]_vars PROVE DiscoveryInv'
  OBVIOUS
<1>1. CASE \/ \E names \in CertAnswers : ReadCertificate(names)
           \/ QueryAgain
           \/ \E ip \in Ips, asnKnown \in BOOLEAN : Resolve(ip, asnKnown)
  BY <1>1, AsksKeep
<1>2. CASE \/ QueryGivenUp
           \/ \E names \in CrtAnswers : QueryAnswered(names)
           \/ ResolvesToNothing
           \/ \E names \in Crawls : Crawl(names)
  BY <1>2, AnswersKeep
<1>3. ASSUME NEW answered \in BOOLEAN, Lookup(answered)
      PROVE  DiscoveryInv'
  BY <1>3, LookupKeeps
<1>4. CASE Yield
  BY <1>4, YieldKeeps
<1>5. CASE NextSource \/ Raise
  BY <1>5, SourcesKeep
<1>6. CASE UNCHANGED vars
  <2>1. Items(current)' = Items(current)
    BY <1>6 DEF vars, Items
  <2> QED
    BY <1>6, <2>1
    DEF vars, asking, DiscoveryInv, TypeOK, PrivateHosts, SharedHostsNotNominated
<1> QED
  BY <1>1, <1>2, <1>3, <1>4, <1>5, <1>6 DEF Next

(* Discovery is in a state of its types whatever its sources answer: above *)
(* all an orchestrator lists a domain once, though several sources name it *)
(* (sources.py:354).                                                       *)
THEOREM DiscoveryTypeCorrect == Spec => []TypeOK
<1>1. DiscoveryInv => TypeOK
  BY DEF DiscoveryInv
<1> QED
  BY <1>1, DiscoveryInvInit, DiscoveryInvStep, PTL DEF Spec

(* No name is nominated for an address that more names share than the      *)
(* threshold says, whatever was known of its ASN (sources.py:269, :281).   *)
THEOREM NoSharedHost == Spec => []SharedHostsNotNominated
<1>1. DiscoveryInv => SharedHostsNotNominated
  BY DEF DiscoveryInv
<1> QED
  BY <1>1, DiscoveryInvInit, DiscoveryInvStep, PTL DEF Spec
=============================================================================
