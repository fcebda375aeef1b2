----------------------------- MODULE LiveRunProofs -----------------------------
(***************************************************************************)
(* What holds of the three tools for any number of hosts, addresses,       *)
(* networks and answers: shared infrastructure is neither blocked nor taken *)
(* for a pivot between sites (GuardInv), every confirmed host is listed    *)
(* (Listable), clusters are the chains of strong pivots, on every graph    *)
(* (ClustersAreParts), operators only merge (RunInv), and the list and the *)
(* early-warning queue of the demo complete each other (DemoInv).          *)
(***************************************************************************)
EXTENDS LiveRun, ListLemmas

Single(ip) == ClassOf[AsnOf[ip]] = "other"

(* The inductive invariant: what the steps read, the addresses that are    *)
(* marked, the links that count and the entries that were made.            *)
Read ==
  /\ rows \in Seq(Seq(Ips))
  /\ DOMAIN attrs = Ips

MarksSound == \A ip \in Ips : attrs[ip].dedicated => Single(ip)

EntriesSound == \A e \in blocklist : e.method = "ip" => Single(e.target)

GuardInv ==
  /\ Read
  /\ MarksSound
  /\ SharedFrontsNeverMerge
  /\ EntriesSound

-----------------------------------------------------------------------------
(* What a host resolves to is what the network has answered, or nothing.   *)
LEMMA ResolvedAddresses ==
  ASSUME NEW n, NEW answer \in Answers
  PROVE  Resolved(n, answer) \in Seq(Ips)
  BY LiveRunAssumption DEF Resolved

(* An address is marked for its own network alone: it is the first of its  *)
(* host, whose ASN the result carries (enrichment/live.py:165).            *)
LEMMA DedicatedIsSingle ==
  ASSUME NEW n, NEW answer \in Answers, NEW ip \in Ips,
         Dedicated(Resolved(n, answer), ip, ResultAsn(Resolved(n, answer), answer))
  PROVE  Single(ip)
  BY ResolvedAddresses DEF Dedicated, SingleTenant, ResultAsn, Single

(* Assets of different types are different, and an address is the one in   *)
(* its asset.                                                              *)
LEMMA AssetsDiffer ==
  ASSUME NEW ip, NEW jp, NEW c, NEW n
  PROVE  /\ IpAsset(ip) # CertAsset(c)
         /\ IpAsset(ip) # DomainAsset(n)
         /\ IpAsset(ip) = IpAsset(jp) => ip = jp
<1>1. IpAsset(ip).type = "ip" /\ IpAsset(jp).value = jp /\ IpAsset(ip).value = ip
  BY DEF IpAsset
<1>2. CertAsset(c).type = "tls_cert" /\ DomainAsset(n).type = "domain"
  BY DEF CertAsset, DomainAsset
<1>. QED  BY <1>1, <1>2

(* Enriching a host keeps marks and links sound.                           *)
LEMMA EnrichKeepsSound ==
  ASSUME NEW n, NEW answer \in Answers, Enrich(n, answer),
         MarksSound, SharedFrontsNeverMerge, DOMAIN attrs = Ips
  PROVE  MarksSound' /\ SharedFrontsNeverMerge' /\ DOMAIN attrs' = Ips
<1>. DEFINE ips == Resolved(n, answer)
            asn == ResultAsn(ips, answer)
            dom == DomainAsset(Lower(n))
<1>1. DOMAIN attrs' = Ips
  BY DEF Enrich
<1>2. MarksSound'
  <2>. SUFFICES ASSUME NEW ip \in Ips, attrs'[ip].dedicated
                PROVE  Single(ip)
    BY DEF MarksSound, Single
  <2>1. CASE ip \in ToSet(ips)
    <3>1. attrs'[ip] = [asn |-> asn, dedicated |-> Dedicated(ips, ip, asn)]
      BY <2>1 DEF Enrich
    <3>. QED  BY <3>1, DedicatedIsSingle
  <2>2. CASE ip \notin ToSet(ips)
    <3>1. attrs'[ip] = attrs[ip]
      BY <2>2 DEF Enrich
    <3>. QED  BY <3>1 DEF MarksSound
  <2>. QED  BY <2>1, <2>2
<1>3. SharedFrontsNeverMerge'
  <2>. SUFFICES ASSUME NEW l \in links', NEW ip \in Ips, l.strong, IpAsset(ip) \in l.ends
                PROVE  Single(ip)
    BY DEF SharedFrontsNeverMerge, Single
  <2>1. CASE l \in links
    BY <2>1 DEF SharedFrontsNeverMerge, Single
  <2>2. CASE \E c : l = Link(dom, CertAsset(c), TRUE)
    <3>1. PICK c : l.ends = {dom, CertAsset(c)}
      BY <2>2 DEF Link
    <3>. QED  BY <3>1, AssetsDiffer
  <2>3. CASE \E jp \in ToSet(ips) : l = Link(dom, IpAsset(jp), Dedicated(ips, jp, asn))
    <3>1. PICK jp \in ToSet(ips) : l = Link(dom, IpAsset(jp), Dedicated(ips, jp, asn))
      BY <2>3
    <3>2. l.ends = {dom, IpAsset(jp)} /\ l.strong = Dedicated(ips, jp, asn)
      BY <3>1 DEF Link
    <3>3. ip = jp
      BY <3>2, AssetsDiffer
    <3>. QED  BY <3>2, <3>3, DedicatedIsSingle
  <2>4. \A c \in ToSet(IF ips = <<>> \/ answer.cert = NoCert THEN <<>>
                       ELSE <<CertAsset(answer.cert)>>) : c = CertAsset(answer.cert)
    BY DEF ToSet
  <2>. QED  BY <2>1, <2>2, <2>3, <2>4 DEF Enrich
<1>. QED  BY <1>1, <1>2, <1>3

-----------------------------------------------------------------------------
(* The seeded graph marks the origin and not the front                     *)
(* (synthetic_data.py:39-43).                                              *)
LEMMA InitGuard == Init => GuardInv
<1>. SUFFICES ASSUME Init PROVE GuardInv
  OBVIOUS
<1>1. Read
  BY DEF Init, Read, SeedAttrs
<1>2. MarksSound
  BY LiveRunAssumption DEF Init, SeedAttrs, Unknown, MarksSound, Single
<1>3. SharedFrontsNeverMerge
  <2>. SUFFICES ASSUME NEW l \in SeedLinks, NEW ip \in Ips, l.strong, IpAsset(ip) \in l.ends
                PROVE  Single(ip)
    BY DEF Init, SharedFrontsNeverMerge, Single
  <2>1. PICK n : \/ l = Link(DomainAsset(n), CertAsset(Seed.cert), TRUE)
                 \/ l = Link(DomainAsset(n), IpAsset(Seed.origin), TRUE)
                 \/ l = Link(DomainAsset(n), IpAsset(Seed.front), FALSE)
    BY DEF SeedLinks
  <2>2. l # Link(DomainAsset(n), IpAsset(Seed.front), FALSE)
    BY DEF Link
  <2>3. IpAsset(ip) = IpAsset(Seed.origin)
    BY <2>1, <2>2, AssetsDiffer DEF Link
  <2>. QED  BY <2>3, AssetsDiffer, LiveRunAssumption DEF Single
<1>4. EntriesSound
  BY DEF Init, EntriesSound
<1>. QED  BY <1>1, <1>2, <1>3, <1>4 DEF GuardInv

(* An entry for an address is made of one that is marked (generator.py:98). *)
LEMMA WantedIsSingle ==
  ASSUME MarksSound, NEW i, NEW networks, NEW e \in Wanted(i, networks), e.method = "ip"
  PROVE  Single(e.target)
  BY DEF Wanted, MarksSound, IpSafe

(* Every step of each tool keeps the guards.                               *)
LEMMA StepGuard == GuardInv /\ [Next]_vars => GuardInv'
<1>. SUFFICES ASSUME GuardInv, [Next]_vars PROVE GuardInv'
  OBVIOUS
<1>. USE DEF GuardInv
<1>1. CASE UNCHANGED vars
  BY <1>1 DEF vars, graph, Read, MarksSound, SharedFrontsNeverMerge, EntriesSound
<1>2. ASSUME NEW n \in Names, Detect(n) PROVE GuardInv'
  BY <1>2 DEF Detect, graph, Read, MarksSound, SharedFrontsNeverMerge, EntriesSound
<1>3. CASE EndDetect \/ EnrichRaises \/ Report \/ (\E n \in Embeds : SkipEmbed(n))
  BY <1>3 DEF EndDetect, EnrichRaises, Report, SkipEmbed, graph, Read, MarksSound,
              SharedFrontsNeverMerge, EntriesSound
<1>4. ASSUME NEW answer \in Answers, EnrichHost(answer) PROVE GuardInv'
  <2>1. Enrich(NextHost, answer) /\ blocklist' = blocklist
        /\ rows' = Append(rows, Resolved(NextHost, answer))
    BY <1>4 DEF EnrichHost
  <2>2. MarksSound' /\ SharedFrontsNeverMerge' /\ DOMAIN attrs' = Ips
    BY <2>1, EnrichKeepsSound DEF Read
  <2>3. rows' \in Seq(Seq(Ips))
    BY <2>1, ResolvedAddresses DEF Read
  <2>. QED  BY <2>1, <2>2, <2>3 DEF Read, EntriesSound
<1>5. CASE RecordHost
  <2>1. rows' \in Seq(Seq(Ips))
    BY <1>5 DEF RecordHost, Read
  <2>. QED  BY <1>5, <2>1 DEF RecordHost, Read, MarksSound, SharedFrontsNeverMerge, EntriesSound
<1>6. CASE Generate
  <2>1. EntriesSound'
    <3>. SUFFICES ASSUME NEW e \in AllWanted, e.method = "ip" PROVE Single(e.target)
      BY <1>6 DEF Generate, FirstOfEach, EntriesSound
    <3>. QED  BY WantedIsSingle DEF AllWanted
  <2>. QED  BY <1>6, <2>1 DEF Generate, Read, MarksSound, SharedFrontsNeverMerge
<1>7. ASSUME NEW n \in Embeds, NEW answer \in Answers, EnrichEmbed(n, answer) PROVE GuardInv'
  <2>1. Enrich(n, answer) /\ blocklist' = blocklist /\ rows' = rows
    BY <1>7 DEF EnrichEmbed
  <2>2. MarksSound' /\ SharedFrontsNeverMerge' /\ DOMAIN attrs' = Ips
    BY <2>1, EnrichKeepsSound DEF Read
  <2>. QED  BY <2>1, <2>2 DEF Read, EntriesSound
<1>8. ASSUME NEW k \in 1..Len(assets), QueuePreemptive(k) PROVE GuardInv'
  BY <1>8 DEF QueuePreemptive, graph, Read, MarksSound, SharedFrontsNeverMerge, EntriesSound
<1>. QED  BY <1>1, <1>2, <1>3, <1>4, <1>5, <1>6, <1>7, <1>8 DEF Next

(* The guards hold in every run of every tool.                             *)
THEOREM GuardInvariant == Spec => []GuardInv
  BY InitGuard, StepGuard, PTL DEF Spec

(* No address of a CDN or a VPS network is blocked, nor called safe by a   *)
(* sweep, whatever DNS and the ASN service answer (generator.py:10).       *)
THEOREM SharedNeverBlocked == Spec => []OnlySingleTenantBlocked
<1>1. GuardInv => OnlySingleTenantBlocked
  <2>. SUFFICES ASSUME GuardInv PROVE OnlySingleTenantBlocked
    OBVIOUS
  <2>1. ASSUME NEW i \in DOMAIN rows, RatedSafe(i) PROVE Single(rows[i][1])
    <3>1. rows[i] \in Seq(Ips) /\ rows[i] # <<>> /\ attrs[rows[i][1]].dedicated
      BY <2>1 DEF RatedSafe, IpSafe, GuardInv, Read
    <3>2. rows[i][1] \in Ips
      BY <3>1
    <3>. QED  BY <3>1, <3>2 DEF GuardInv, MarksSound
  <2>. QED  BY <2>1 DEF GuardInv, EntriesSound, OnlySingleTenantBlocked, Single
<1>. QED  BY <1>1, GuardInvariant, PTL

(* No address of a CDN or a VPS network makes one operator of two sites    *)
(* (graph.py:32).                                                          *)
THEOREM FrontsNeverMerge == Spec => []SharedFrontsNeverMerge
<1>1. GuardInv => SharedFrontsNeverMerge
  BY DEF GuardInv
<1>. QED  BY <1>1, GuardInvariant, PTL

-----------------------------------------------------------------------------
(* The list.                                                               *)

Listable == dets \in Seq(Names)

(* Of the detections of a host one is the first.                           *)
LEMMA FirstDetection ==
  ASSUME Listable, NEW i \in DOMAIN dets
  PROVE  \E m \in DOMAIN dets : /\ dets[m] = dets[i]
                                /\ \A k \in DOMAIN dets : dets[k] = dets[i] => m <= k
<1>. DEFINE T == {k \in DOMAIN dets : dets[k] = dets[i]}
<1>1. DOMAIN dets \subseteq Nat
  BY DEF Listable
<1>2. T \subseteq Nat /\ T # {}
  BY <1>1
<1>3. PICK m \in T : \A k \in T : <<k, m>> \notin OpToRel(<, Nat)
  BY <1>2, WFMin, NatLessThanWellFounded
<1>4. \A k \in T : ~(k < m)
  BY <1>2, <1>3 DEF OpToRel
<1>. QED  BY <1>1, <1>2, <1>4

(* The FQDN entries of one host differ in their evidence only.             *)
LEMMA FqdnEntries ==
  ASSUME NEW i \in DOMAIN dets, NEW networks, NEW e \in Wanted(i, networks), e.method = "fqdn"
  PROVE  e = [target |-> dets[i], method |-> "fqdn",
              operator |-> LabelOf(DomainAsset(dets[i]), networks), evidence |-> i]
  BY DEF Wanted

(* generate() makes an entry for each detection and _dedupe() leaves the   *)
(* first of each host (generator.py:65-141).                               *)
LEMMA GenerateLists ==
  ASSUME Listable, Generate
  PROVE  EveryHostListed'
<1>. DEFINE networks == NetworksOf(assets, links)
            Fqdn(k) == [target |-> dets[k], method |-> "fqdn",
                        operator |-> LabelOf(DomainAsset(dets[k]), networks), evidence |-> k]
<1>1. dets' = dets /\ blocklist' = FirstOfEach(AllWanted)
  BY DEF Generate
<1>2. DOMAIN dets \subseteq Nat
  BY DEF Listable
<1>3. \A k \in DOMAIN dets : Fqdn(k) \in AllWanted
  BY DEF AllWanted, Wanted
<1>4. \A f \in AllWanted : f.method = "fqdn" => \E k \in DOMAIN dets : f = Fqdn(k)
  BY FqdnEntries DEF AllWanted
<1>5. ASSUME NEW i \in DOMAIN dets
      PROVE  \E e \in blocklist' :
               /\ e.target = dets[i] /\ e.method = "fqdn"
               /\ e.evidence <= i /\ dets[e.evidence] = dets[i]
               /\ \A f \in blocklist' : SameTarget(e, f) => f = e
  <2>1. PICK m \in DOMAIN dets : /\ dets[m] = dets[i]
                                 /\ \A k \in DOMAIN dets : dets[k] = dets[i] => m <= k
    BY <1>5, FirstDetection
  <2>. DEFINE e == Fqdn(m)
  <2>2. \A f \in AllWanted : SameTarget(e, f) =>
          \E k \in DOMAIN dets : f = Fqdn(k) /\ dets[k] = dets[i] /\ m <= k
    BY <1>4, <2>1 DEF SameTarget
  <2>3. e \in blocklist'
    BY <1>1, <1>3, <2>2 DEF FirstOfEach
  <2>4. ASSUME NEW f \in blocklist', SameTarget(e, f) PROVE f = e
    <3>1. PICK k \in DOMAIN dets : f = Fqdn(k) /\ dets[k] = dets[i] /\ m <= k
      BY <1>1, <2>2, <2>4 DEF FirstOfEach
    <3>2. k <= m
      BY <1>1, <1>3, <2>4, <3>1 DEF FirstOfEach, SameTarget
    <3>. QED  BY <1>2, <3>1, <3>2
  <2>. QED  BY <1>2, <2>1, <2>3, <2>4
<1>. QED  BY <1>1, <1>5 DEF EveryHostListed

(* After generate() no step touches the list.                              *)
LEMMA StepLists == Listable /\ EveryHostListed /\ [Next]_vars => Listable' /\ EveryHostListed'
<1>. SUFFICES ASSUME Listable, EveryHostListed, [Next]_vars PROVE Listable' /\ EveryHostListed'
  OBVIOUS
<1>1. ASSUME NEW n \in Names, Detect(n) PROVE Listable' /\ EveryHostListed'
  BY <1>1 DEF Detect, Listable, EveryHostListed
<1>2. CASE EndDetect \/ EnrichRaises \/ RecordHost \/ (\E a \in Answers : EnrichHost(a))
  BY <1>2 DEF EndDetect, EnrichRaises, RecordHost, EnrichHost, Enriching, Listable, EveryHostListed
<1>3. CASE Generate
  BY <1>3, GenerateLists DEF Generate, Listable
<1>4. CASE Report
  BY <1>4 DEF Report, Listable, EveryHostListed
<1>5. CASE UNCHANGED vars \/ (\E n \in Embeds : SkipEmbed(n))
           \/ (\E n \in Embeds, a \in Answers : EnrichEmbed(n, a))
           \/ (\E k \in 1..Len(assets) : QueuePreemptive(k))
  BY <1>5 DEF vars, SkipEmbed, EnrichEmbed, QueuePreemptive, Listable, EveryHostListed
<1>. QED  BY <1>1, <1>2, <1>3, <1>4, <1>5 DEF Next

(* Every confirmed host has exactly one FQDN entry, and it rests on the    *)
(* first detection of the host (generator.py:71, :132).                    *)
THEOREM HostsAreListed == Spec => []EveryHostListed
<1>1. Init => Listable /\ EveryHostListed
  BY DEF Init, Listable, EveryHostListed
<1>. QED  BY <1>1, StepLists, PTL DEF Spec

-----------------------------------------------------------------------------
(* An upsert: a known asset keeps its place, a new one comes last          *)
(* (graph.py:52-60).                                                       *)
Once(X) == {q \in Seq(X) : IsInjective(q)}

(* One upsert.                                                             *)
LEMMA UpsertFacts ==
  ASSUME NEW X, NEW list \in Once(X), NEW x \in X
  PROVE  /\ Upsert(list, x) \in Once(X)
         /\ ToSet(Upsert(list, x)) = ToSet(list) \union {x}
         /\ x \in ToSet(list) => Upsert(list, x) = list
<1>1. CASE x \in ToSet(list)
  BY <1>1 DEF Upsert, AppendIf
<1>2. CASE x \notin ToSet(list)
  <2> DEFINE more == Append(list, x)
  <2>1. Upsert(list, x) = more
    BY <1>2 DEF Upsert, AppendIf
  <2>2. /\ Len(list) \in Nat /\ DOMAIN list = 1..Len(list) /\ DOMAIN more = 1..(Len(list) + 1)
        /\ \A i \in 1..Len(list) : more[i] = list[i]
        /\ more[Len(list) + 1] = x
        /\ more \in Seq(X) /\ list \in Seq(X)
    BY DEF Once
  <2>3. ToSet(more) = ToSet(list) \union {x}
    BY <2>2, ToSetAppend
  <2> HIDE DEF more
  <2>4. \A i \in 1..Len(list) : more[i] # x
    BY <1>2, <2>2 DEF ToSet
  <2>5. \A i, j \in 1..Len(list) : list[i] = list[j] => i = j
    BY <2>2 DEF Once, IsInjective
  <2>6. \A i \in DOMAIN more : i \in 1..Len(list) \/ i = Len(list) + 1
    BY <2>2
  <2>7. IsInjective(more)
    BY <2>2, <2>4, <2>5, <2>6 DEF IsInjective
  <2> QED
    BY <1>2, <2>1, <2>2, <2>3, <2>7 DEF Once
<1> QED
  BY <1>1, <1>2

(* One upsert after the other.                                             *)
LEMMA UpsertAllFacts ==
  ASSUME NEW X, NEW list \in Once(X), NEW new \in Seq(X)
  PROVE  /\ UpsertAll(list, new) \in Once(X)
         /\ ToSet(UpsertAll(list, new)) = ToSet(list) \union ToSet(new)
         /\ ToSet(new) \subseteq ToSet(list) => UpsertAll(list, new) = list
<1> DEFINE n == Len(new)
           Q == Once(X)
           Add(c, k) == Upsert(c, new[k])
           step == [k \in 1..n |-> [c \in Q |-> Add(c, k)]]
           Body(f) == [k \in 0..n |-> IF k = 0 THEN list ELSE Add(f[k - 1], k)]
           g == CHOOSE f : f = Body(f)
<1>1. n \in Nat /\ DOMAIN new = 1..n /\ \A k \in 1..n : new[k] \in X
  OBVIOUS
<1>2. list \in Q
  OBVIOUS
<1>3. ASSUME NEW c \in Q, NEW k \in 1..n
      PROVE  /\ Add(c, k) \in Q
             /\ ToSet(Add(c, k)) = ToSet(c) \union {new[k]}
             /\ new[k] \in ToSet(c) => Add(c, k) = c
  BY <1>1, UpsertFacts
<1>4. UpsertAll(list, new) = g[n]
  BY DEF UpsertAll
<1> HIDE DEF n, Q, Add
<1>5. step \in StepFunctions(n, Q)
  BY <1>3 DEF StepFunctions
<1>6. PICK f \in [0..n -> Q] : Iterates(f, n, list, step)
  <2> HIDE DEF step
  <2> QED
    BY <1>1, <1>2, <1>5, RecursionExists
<1>7. f[0] = list /\ \A k \in 1..n : f[k] = Add(f[k - 1], k)
  <2>1. \A k \in 1..n : f[k - 1] \in Q
    BY <1>1
  <2> QED
    BY <1>6, <2>1 DEF Iterates
<1>8. f = Body(f)
  BY <1>1, <1>7
<1>9. g = Body(g)
  BY <1>8
<1> HIDE DEF g
<1>10. g[0] = list /\ \A k \in 1..n : g[k] = Add(g[k - 1], k)
  BY <1>1, <1>9
<1>11. \A k \in 0..n : g[k] \in Q
  <2>1. \A k \in 1..n : g[k - 1] \in Q => g[k] \in Q
    BY <1>3, <1>10
  <2> QED
    BY <1>1, <1>2, <1>10, <2>1, RecursionKeeps
<1> DEFINE T == {k \in 0..n : /\ ToSet(g[k]) = ToSet(list) \union {new[i] : i \in 1..k}
                              /\ ToSet(new) \subseteq ToSet(list) => g[k] = list}
<1>12. 0 \in T
  BY <1>1, <1>10
<1>13. ASSUME NEW k \in 0..(n - 1), k \in T PROVE k + 1 \in T
  <2>1. k + 1 \in 1..n /\ k + 1 \in 0..n /\ (k + 1) - 1 = k /\ g[k] \in Q
    BY <1>1, <1>11
  <2>2. g[k + 1] = Add(g[k], k + 1)
    BY <1>10, <2>1
  <2>3. {new[i] : i \in 1..(k + 1)} = {new[i] : i \in 1..k} \union {new[k + 1]}
    BY <1>1, <2>1
  <2>4. new[k + 1] \in ToSet(new)
    BY <1>1, <2>1 DEF ToSet
  <2> QED
    BY <1>3, <1>13, <2>1, <2>2, <2>3, <2>4
<1>14. 0..n \subseteq T
  <2> HIDE DEF T
  <2> QED
    BY <1>1, <1>12, <1>13, BoundedInduction
<1>15. n \in T /\ g[n] \in Q
  BY <1>1, <1>11, <1>14
<1>16. ToSet(new) = {new[i] : i \in 1..n}
  BY <1>1 DEF ToSet
<1> QED
  BY <1>4, <1>15, <1>16 DEF Q

-----------------------------------------------------------------------------
(* The clusters.                                                           *)

(* A set of assets that no link crosses.                                   *)
Whole(S, L) == \A l \in L : l.ends \cap S # {} => l.ends \subseteq S

(* The parts of A that L leaves apart.                                     *)
Parts(cs, A, L) ==
  /\ UNION cs = A
  /\ \A c, d \in cs : c \cap d # {} => c = d
  /\ \A c \in cs : c # {} /\ Whole(c, L)
  /\ \A c \in cs : \A S \in SUBSET A : Whole(S, L) /\ c \cap S # {} => c \subseteq S

Joined(l, cs) == (cs \ {c \in cs : c \cap l.ends # {}})
                   \union {UNION {c \in cs : c \cap l.ends # {}}}

(* A link joins the parts that it touches and leaves the rest as it was.   *)
LEMMA JoinedParts ==
  ASSUME NEW A, NEW L, NEW l \in L, l.ends \subseteq A, l.ends # {},
         NEW cs, Parts(cs, A, L \ {l})
  PROVE  Parts(Joined(l, cs), A, L)
<1> DEFINE hit == {c \in cs : c \cap l.ends # {}}
           whole == UNION hit
           K == L \ {l}
<1>1. /\ UNION cs = A
      /\ \A c, d \in cs : c \cap d # {} => c = d
      /\ \A c \in cs : c # {} /\ Whole(c, K)
      /\ \A c \in cs : \A S \in SUBSET A : Whole(S, K) /\ c \cap S # {} => c \subseteq S
  BY DEF Parts
<1>2. Joined(l, cs) = (cs \ hit) \union {whole}
  BY DEF Joined
<1>3. l.ends \subseteq whole /\ whole # {}
  BY <1>1
<1>4. \A S \in SUBSET A : Whole(S, L) => Whole(S, K)
  BY DEF Whole
<1>5. UNION ((cs \ hit) \union {whole}) = A
  <2>1. ASSUME NEW a \in A PROVE a \in UNION ((cs \ hit) \union {whole})
    <3>1. PICK c \in cs : a \in c
      BY <1>1
    <3>2. CASE c \in hit
      BY <3>1, <3>2
    <3>3. CASE c \notin hit
      BY <3>1, <3>3
    <3> QED
      BY <3>2, <3>3
  <2>2. whole \subseteq UNION cs
    OBVIOUS
  <2> HIDE DEF hit, whole
  <2> QED
    BY <1>1, <2>1, <2>2
<1>6. \A c \in cs \ hit : c \cap whole = {} /\ c \cap l.ends = {}
  BY <1>1
<1>7. \A c \in cs \ hit : Whole(c, L)
  BY <1>1, <1>6 DEF Whole
<1>8. Whole(whole, L)
  <2> SUFFICES ASSUME NEW m \in L, m.ends \cap whole # {} PROVE m.ends \subseteq whole
    BY DEF Whole
  <2>1. CASE m = l
    BY <1>3, <2>1
  <2>2. CASE m # l
    <3>1. PICK c \in hit : m.ends \cap c # {}
      OBVIOUS
    <3>2. m.ends \subseteq c
      BY <1>1, <2>2, <3>1 DEF Whole
    <3> QED
      BY <3>1, <3>2
  <2> QED
    BY <2>1, <2>2
<1>9. ASSUME NEW S \in SUBSET A, Whole(S, L), whole \cap S # {} PROVE whole \subseteq S
  <2>1. PICK c \in hit : c \cap S # {}
    BY <1>9
  <2>5. \A d \in cs : d \cap S # {} => d \subseteq S
    <3>1. Whole(S, K)
      BY <1>4, <1>9
    <3> HIDE DEF K
    <3> QED
      BY <1>1, <3>1
  <2>2. c \subseteq S
    BY <2>1, <2>5
  <2>3. l.ends \subseteq S
    BY <1>9, <2>1, <2>2 DEF Whole
  <2>4. ASSUME NEW d \in hit PROVE d \subseteq S
    <3>1. PICK x \in d : x \in l.ends
      OBVIOUS
    <3>2. d \cap S # {}
      BY <2>3, <3>1
    <3> QED
      BY <2>5, <3>2
  <2> QED
    BY <2>4
<1>10. \A c \in cs \ hit : \A S \in SUBSET A : Whole(S, L) /\ c \cap S # {} => c \subseteq S
  BY <1>1, <1>4
<1> HIDE DEF hit, whole, K
<1>11. /\ \A c, d \in (cs \ hit) \union {whole} : c \cap d # {} => c = d
       /\ \A c \in (cs \ hit) \union {whole} : c # {} /\ Whole(c, L)
  BY <1>1, <1>3, <1>6, <1>7, <1>8
<1>12. \A c \in (cs \ hit) \union {whole} : \A S \in SUBSET A :
         Whole(S, L) /\ c \cap S # {} => c \subseteq S
  BY <1>9, <1>10
<1> QED
  BY <1>2, <1>5, <1>11, <1>12 DEF Parts

(* Whatever order the links are taken in, the clusters are the parts that  *)
(* the strong ones leave apart (graph.py:72-88).                           *)
LEMMA ClustersAreParts ==
  ASSUME NEW list, NEW L, IsFiniteSet(L),
         \A l \in L : l.ends \subseteq ToSet(list) /\ l.ends # {}
  PROVE  Parts(ClustersOf(list, L), ToSet(list), Strong(L))
<1> DEFINE A == ToSet(list)
           M == Strong(L)
           Q == SUBSET SUBSET A
           base == {{a} : a \in A}
           pick == [s \in (SUBSET M) \ {{}} |-> CHOOSE x \in s : TRUE]
           step == [l \in M |-> [cs \in Q |-> Joined(l, cs)]]
           Body(f) == [s \in SUBSET M |->
                         IF s = {} THEN base
                         ELSE Joined(CHOOSE x \in s : TRUE, f[s \ {CHOOSE x \in s : TRUE}])]
           g == CHOOSE f : f = Body(f)
<1>1. IsFiniteSet(M) /\ \A l \in M : l.ends \subseteq A /\ l.ends # {}
  BY FS_Subset DEF Strong
<1>2. ClustersOf(list, L) = g[M]
  BY DEF ClustersOf, FoldSet, MapThenFoldSet, Joined
<1>3. Picks(pick, M)
  BY DEF Picks
<1>4. ASSUME NEW l \in M, NEW cs \in Q PROVE Joined(l, cs) \in Q
  BY DEF Joined
<1>5. base \in Q /\ step \in [M -> [Q -> Q]]
  BY <1>4
<1>6. PICK f \in [SUBSET M -> Q] : Recurs(f, SUBSET M, base, step, pick)
  <2> HIDE DEF M, Q, base, step, pick
  <2> QED
    BY <1>1, <1>3, <1>5, SetRecursionExists
<1>7. ASSUME NEW s \in SUBSET M
      PROVE  f[s] = IF s = {} THEN base
                    ELSE Joined(CHOOSE x \in s : TRUE, f[s \ {CHOOSE x \in s : TRUE}])
  <2>1. CASE s = {}
    BY <1>6, <2>1 DEF Recurs
  <2>2. CASE s # {}
    <3>1. f[s] = step[pick[s]][f[s \ {pick[s]}]]
      BY <1>6, <2>2 DEF Recurs
    <3>2. pick[s] \in M /\ pick[s] = (CHOOSE x \in s : TRUE) /\ s \ {pick[s]} \in SUBSET M
      BY <2>2
    <3>3. f[s \ {pick[s]}] \in Q
      BY <1>6, <3>2
    <3> HIDE DEF M, Q, pick
    <3>4. f[s] = Joined(pick[s], f[s \ {pick[s]}])
      BY <3>1, <3>2, <3>3
    <3> QED
      BY <2>2, <3>2, <3>4
  <2> QED
    BY <2>1, <2>2
<1>8. f = Body(f)
  <2> HIDE DEF M, Q, base
  <2> QED
    BY <1>6, <1>7
<1>9. g = Body(g)
  BY <1>8
<1> HIDE DEF g
<1>10. /\ g[{}] = base
       /\ \A s \in (SUBSET M) \ {{}} : g[s] = Joined(pick[s], g[s \ {pick[s]}])
  <2> HIDE DEF M, base
  <2> QED
    BY <1>9
<1> DEFINE T == {s \in SUBSET M : Parts(g[s], A, s)}
<1>11. {} \in T
  <2>1. UNION base = A
    OBVIOUS
  <2>2. \A c, d \in base : c \cap d # {} => c = d
    OBVIOUS
  <2>3. \A c \in base : c # {} /\ Whole(c, {})
    BY DEF Whole
  <2>4. \A c \in base : \A S \in SUBSET A : Whole(S, {}) /\ c \cap S # {} => c \subseteq S
    OBVIOUS
  <2> HIDE DEF M, A, base
  <2> QED
    BY <1>10, <2>1, <2>2, <2>3, <2>4 DEF Parts
<1>12. ASSUME NEW s \in (SUBSET M) \ {{}}, s \ {pick[s]} \in T PROVE s \in T
  <2>1. pick[s] \in s /\ pick[s] \in M
    BY <1>3 DEF Picks
  <2>2. pick[s].ends \subseteq A /\ pick[s].ends # {}
    BY <1>1, <2>1
  <2> HIDE DEF M, A, pick
  <2>3. Parts(Joined(pick[s], g[s \ {pick[s]}]), A, s)
    BY <1>12, <2>1, <2>2, JoinedParts
  <2> QED
    BY <1>10, <2>3
<1>13. SUBSET M \subseteq T
  <2> HIDE DEF M, T, pick
  <2> QED
    BY <1>1, <1>3, <1>11, <1>12, SetInduction
<1> HIDE DEF M, A
<1>14. Parts(g[M], A, M)
  BY <1>13
<1> QED
  BY <1>2, <1>14 DEF A, M

(* A graph: finitely many links between assets that are in it.             *)
Tied(list, L) == IsFiniteSet(L) /\ \A l \in L : l.ends \subseteq ToSet(list) /\ l.ends # {}

(* No pivot leaves a set of assets if and only if no strong link crosses it. *)
LEMMA ClosedIsWhole ==
  ASSUME NEW list, NEW L, Tied(list, L), NEW S \in SUBSET ToSet(list)
  PROVE  Closed(S, PivotAdj(list, L)) <=> Whole(S, Strong(L))
<1> DEFINE M == Strong(L)
           adj == PivotAdj(list, L)
<1>1. \A a \in S : adj[a] = UNION {l.ends \ {a} : l \in {m \in M : a \in m.ends}}
  BY DEF PivotAdj, Neighbours
<1> HIDE DEF M, adj
<1>2. ASSUME Closed(S, adj), NEW l \in M, l.ends \cap S # {} PROVE l.ends \subseteq S
  <2>1. PICK a \in S : a \in l.ends
    BY <1>2
  <2>2. l.ends \ {a} \subseteq adj[a]
    BY <1>1, <2>1
  <2> QED
    BY <1>2, <2>1, <2>2 DEF Closed
<1>3. ASSUME Whole(S, M), NEW a \in S, NEW b \in adj[a] PROVE b \in S
  <2>1. PICK l \in M : a \in l.ends /\ b \in l.ends
    BY <1>1
  <2> QED
    BY <1>3, <2>1 DEF Whole
<1>4. Closed(S, adj) <=> Whole(S, M)
  BY <1>2, <1>3 DEF Closed, Whole
<1> QED
  BY <1>4 DEF adj, M

(* A cluster is the operator of each of its assets.                        *)
LEMMA ClusterIsOperator ==
  ASSUME NEW list, NEW L, Tied(list, L), NEW c \in ClustersOf(list, L), NEW a \in c
  PROVE  c = OperatorOf(a, ToSet(list), PivotAdj(list, L))
<1> DEFINE A == ToSet(list)
           M == Strong(L)
           adj == PivotAdj(list, L)
<1>1. Parts(ClustersOf(list, L), A, M)
  BY ClustersAreParts DEF Tied
<1>2. c \subseteq A /\ Whole(c, M)
  BY <1>1 DEF Parts
<1>3. \A S \in SUBSET A : Closed(S, adj) <=> Whole(S, M)
  BY ClosedIsWhole
<1> HIDE DEF A, M, adj
<1>4. ASSUME NEW b \in OperatorOf(a, A, adj) PROVE b \in c
  BY <1>2, <1>3 DEF OperatorOf
<1>5. ASSUME NEW b \in c PROVE b \in OperatorOf(a, A, adj)
  <2>1. ASSUME NEW S \in SUBSET A, a \in S, Closed(S, adj) PROVE b \in S
    BY <1>1, <1>3, <2>1 DEF Parts
  <2> QED
    BY <1>2, <2>1 DEF OperatorOf
<1>6. c = OperatorOf(a, A, adj)
  BY <1>4, <1>5
<1> QED
  BY <1>6 DEF A, adj

(* Assets and links that are added merge clusters and split none.          *)
LEMMA ClustersMerge ==
  ASSUME NEW list, NEW L, Tied(list, L), NEW more, NEW K, Tied(more, K),
         ToSet(list) \subseteq ToSet(more), L \subseteq K, NEW c \in ClustersOf(list, L)
  PROVE  \E d \in ClustersOf(more, K) : c \subseteq d
<1> DEFINE A == ToSet(list)
           B == ToSet(more)
<1>1. Parts(ClustersOf(list, L), A, Strong(L)) /\ Parts(ClustersOf(more, K), B, Strong(K))
  BY ClustersAreParts DEF Tied
<1>2. PICK a \in c : a \in A
  BY <1>1 DEF Parts
<1>3. PICK d \in ClustersOf(more, K) : a \in d
  BY <1>1, <1>2 DEF Parts
<1>4. Whole(d \cap A, Strong(L))
  <2>1. Whole(d, Strong(K))
    BY <1>1 DEF Parts
  <2>2. \A l \in Strong(L) : l \in Strong(K) /\ l.ends \subseteq A
    BY DEF Strong, Tied
  <2> QED
    BY <2>1, <2>2 DEF Whole
<1>5. c \subseteq d \cap A
  BY <1>1, <1>2, <1>3, <1>4 DEF Parts
<1> QED
  BY <1>5

-----------------------------------------------------------------------------
(* The oldest asset of a cluster is the first that is in it.               *)
LEMMA AgeIs ==
  ASSUME NEW X, NEW list \in Seq(X), NEW c, c # {}, c \subseteq ToSet(list)
  PROVE  Age(c, list) \in DOMAIN list /\ list[Age(c, list)] \in c
<1> DEFINE T == {i \in DOMAIN list : list[i] \in c}
<1>1. DOMAIN list \subseteq Nat /\ DOMAIN list = 1..Len(list) /\ Len(list) \in Nat
  OBVIOUS
<1>2. T \subseteq Nat /\ T # {}
  BY <1>1 DEF ToSet
<1>3. PICK m \in T : \A k \in T : <<k, m>> \notin OpToRel(<, Nat)
  BY <1>2, WFMin, NatLessThanWellFounded
<1>4. \A k \in T : ~(k < m)
  BY <1>2, <1>3 DEF OpToRel
<1>5. ASSUME NEW j \in 1..(m - 1) PROVE list[j] \notin c
  <2>1. j \in DOMAIN list /\ j < m
    BY <1>1, <1>2
  <2> QED
    BY <1>4, <2>1
<1>6. \E i \in DOMAIN list : list[i] \in c /\ \A j \in 1..(i - 1) : list[j] \notin c
  BY <1>5
<1> QED
  BY <1>6 DEF Age

(* The networks are numbered without a gap: each number is that of one of  *)
(* them (graph.py:105-118).                                                *)
LEMMA NetworksAreClusters ==
  ASSUME NEW X, NEW list \in Seq(X), NEW L, Tied(list, L)
  PROVE  /\ DOMAIN NetworksOf(list, L) \subseteq Nat \ {0}
         /\ \A k \in DOMAIN NetworksOf(list, L) : NetworksOf(list, L)[k] \in ClustersOf(list, L)
<1> DEFINE N == {c \in ClustersOf(list, L) : IsNetwork(c)}
           n == Cardinality(N)
           age == [c \in N |-> Age(c, list)]
           older == [c \in N |-> {d \in N : age[d] < age[c]}]
           rank == [c \in N |-> Cardinality(older[c])]
<1>1. /\ \A c \in N : c # {} /\ c \subseteq ToSet(list)
      /\ \A c, d \in N : c \cap d # {} => c = d
  <2>1. Parts(ClustersOf(list, L), ToSet(list), Strong(L))
    BY ClustersAreParts DEF Tied
  <2> QED
    BY <2>1 DEF Parts
<1>2. IsFiniteSet(N) /\ n \in Nat
  <2>1. IsFiniteSet(SUBSET ToSet(list))
    BY ToSetFinite, FS_SUBSET
  <2>2. N \in SUBSET SUBSET ToSet(list)
    BY <1>1
  <2> HIDE DEF N
  <2>3. IsFiniteSet(N)
    BY <2>1, <2>2, FS_Subset
  <2> QED
    BY <2>3, FS_CardinalityType
<1>3. NetworksOf(list, L) = [k \in 1..n |-> CHOOSE c \in N : Cardinality({d \in N : Age(d, list) < Age(c, list)}) = k - 1]
  BY DEF NetworksOf
<1>4. ASSUME NEW c \in N PROVE age[c] \in Nat /\ list[age[c]] \in c
  <2>1. age[c] \in DOMAIN list /\ list[age[c]] \in c
    BY <1>1, AgeIs
  <2>2. DOMAIN list \subseteq Nat
    OBVIOUS
  <2> QED
    BY <2>1, <2>2
<1>5. ASSUME NEW c \in N PROVE Cardinality({d \in N : Age(d, list) < Age(c, list)}) = rank[c]
  OBVIOUS
<1> HIDE DEF N, age, n
<1>6. ASSUME NEW c \in N, NEW d \in N, age[c] = age[d] PROVE c = d
  BY <1>1, <1>4, <1>6
<1>7. ASSUME NEW c \in N
      PROVE  /\ older[c] \in SUBSET N /\ IsFiniteSet(older[c]) /\ c \notin older[c]
             /\ rank[c] \in 0..(n - 1)
  <2>1. older[c] \in SUBSET N /\ c \notin older[c]
    BY <1>4
  <2>2. IsFiniteSet(older[c]) /\ Cardinality(older[c]) <= n /\ (n = Cardinality(older[c]) => N = older[c])
    BY <1>2, <2>1, FS_Subset DEF n
  <2>3. Cardinality(older[c]) \in Nat
    BY <2>2, FS_CardinalityType
  <2>4. Cardinality(older[c]) # n
    BY <2>1, <2>2
  <2> HIDE DEF older
  <2> QED
    BY <1>2, <2>1, <2>2, <2>3, <2>4
<1>8. ASSUME NEW c \in N, NEW d \in N, age[c] < age[d] PROVE rank[c] # rank[d]
  <2>1. older[c] \in SUBSET older[d]
    BY <1>4, <1>8
  <2>2. c \in older[d] /\ c \notin older[c]
    BY <1>7, <1>8
  <2>3. IsFiniteSet(older[d])
    BY <1>7
  <2> HIDE DEF older
  <2>4. Cardinality(older[d]) = Cardinality(older[c]) => older[d] = older[c]
    BY <2>1, <2>3, FS_Subset
  <2> QED
    BY <2>2, <2>4
<1>9. ASSUME NEW c \in N, NEW d \in N, rank[c] = rank[d] PROVE c = d
  <2>1. age[c] \in Nat /\ age[d] \in Nat
    BY <1>4
  <2>2. ~(age[c] < age[d]) /\ ~(age[d] < age[c])
    BY <1>8, <1>9
  <2> QED
    BY <1>6, <2>1, <2>2
<1>10. rank \in Injection(N, 0..(n - 1))
  <2>1. rank \in [N -> 0..(n - 1)]
    BY <1>7
  <2> HIDE DEF rank
  <2> QED
    BY <1>9, <2>1 DEF Injection, IsInjective
<1> HIDE DEF rank
<1>11. rank \in Surjection(N, 0..(n - 1))
  <2>1. IsFiniteSet(0..(n - 1)) /\ Cardinality(0..(n - 1)) = n
    BY <1>2, FS_Interval
  <2> QED
    BY <1>10, <2>1, FS_Injection DEF n
<1>12. ASSUME NEW k \in 1..n PROVE NetworksOf(list, L)[k] \in N
  <2>1. k - 1 \in 0..(n - 1)
    BY <1>2
  <2>2. PICK c \in N : rank[c] = k - 1
    BY <1>11, <2>1 DEF Surjection
  <2>3. \E b \in N : Cardinality({d \in N : Age(d, list) < Age(b, list)}) = k - 1
    BY <1>5, <2>2
  <2> QED
    BY <1>3, <2>3
<1>13. DOMAIN NetworksOf(list, L) = 1..n
  BY <1>3
<1> QED
  BY <1>2, <1>12, <1>13 DEF N

-----------------------------------------------------------------------------
(* The graph of a run: every asset in it once, every link between assets   *)
(* that are in it (graph.py:52-69).                                        *)
GraphTyped ==
  /\ assets \in Once(Nodes)
  /\ Tied(assets, links)
  /\ \A l \in links : l.strong \in BOOLEAN
  /\ attrs \in [Ips -> Attrs]

Grows == ToSet(assets) \subseteq ToSet(assets') /\ links \subseteq links'

(* The hosts and the addresses that a run has at hand.                     *)
HostsTyped ==
  /\ dets \in Seq(Names) /\ Len(dets) <= MaxDets
  /\ rows \in Seq(Seq(Ips)) /\ Len(rows) <= Len(dets)

(* Whatever is upserted is a node.                                         *)
LEMMA NodesTyped ==
  /\ \A n \in Hosts : DomainAsset(n) \in Nodes /\ DomainAsset(Lower(n)) \in Nodes
  /\ \A answer \in Answers : answer.cert # NoCert => CertAsset(answer.cert) \in Nodes
  /\ \A ip \in Ips : IpAsset(ip) \in Nodes
<1>1. ASSUME NEW n \in Hosts PROVE DomainAsset(n) \in Nodes /\ DomainAsset(Lower(n)) \in Nodes
  BY DEF Nodes, Domains, Lower
<1>2. ASSUME NEW answer \in Answers, answer.cert # NoCert PROVE CertAsset(answer.cert) \in Nodes
  BY <1>2 DEF Nodes, CertAssets
<1>3. ASSUME NEW ip \in Ips PROVE IpAsset(ip) \in Nodes
  BY DEF Nodes, IpAssets
<1> QED
  BY <1>1, <1>2, <1>3

(* Finitely many things have finitely many images.                         *)
LEMMA ImageFinite ==
  ASSUME NEW S, IsFiniteSet(S), NEW f, DOMAIN f = S
  PROVE  IsFiniteSet({f[x] : x \in S})
<1>1. [x \in S |-> f[x]] \in Surjection(S, {f[x] : x \in S})
  BY DEF Surjection
<1> QED
  BY <1>1, FS_Surjection

(* An enrichment adds the host, its certificate and its addresses, and     *)
(* ties the host to each (enrichment/live.py:148-170).                     *)
LEMMA EnrichGrows ==
  ASSUME GraphTyped, NEW n \in Hosts, NEW answer \in Answers, Enrich(n, answer)
  PROVE  GraphTyped' /\ Grows
<1> DEFINE dom == DomainAsset(Lower(n))
           ips == Resolved(n, answer)
           asn == ResultAsn(ips, answer)
           certs == IF ips = <<>> \/ answer.cert = NoCert THEN <<>> ELSE <<CertAsset(answer.cert)>>
           addresses == [k \in DOMAIN ips |-> IpAsset(ips[k])]
           new == <<dom>> \o certs \o addresses
           pins == {Link(dom, c, TRUE) : c \in ToSet(certs)}
           routes == {Link(dom, IpAsset(ip), Dedicated(ips, ip, asn)) : ip \in ToSet(ips)}
<1>1. /\ assets' = UpsertAll(assets, new)
      /\ links' = links \union pins \union routes
      /\ attrs' = [ip \in Ips |-> IF ip \in ToSet(ips)
                     THEN [asn |-> asn, dedicated |-> Dedicated(ips, ip, asn)] ELSE attrs[ip]]
  BY DEF Enrich
<1>2. ips \in Seq(Ips)
  BY ResolvedAddresses
<1>3. dom \in Nodes /\ certs \in Seq(Nodes)
  BY NodesTyped
<1> HIDE DEF ips, certs, dom
<1>4. addresses \in Seq(Nodes) /\ ToSet(addresses) = {IpAsset(ip) : ip \in ToSet(ips)}
  <2>1. \A k \in DOMAIN ips : IpAsset(ips[k]) \in Nodes
    BY <1>2, NodesTyped
  <2>2. addresses \in Seq(Nodes)
    BY <1>2, <2>1
  <2> QED
    BY <2>2 DEF ToSet
<1> HIDE DEF addresses
<1>5. new \in Seq(Nodes) /\ ToSet(new) = {dom} \union ToSet(certs) \union ToSet(addresses)
  <2>1. <<dom>> \in Seq(Nodes) /\ ToSet(<<dom>>) = {dom}
    BY <1>3 DEF ToSet
  <2>2. \A a, b \in Seq(Nodes) : a \o b \in Seq(Nodes) /\ ToSet(a \o b) = ToSet(a) \union ToSet(b)
    BY ToSetConcat, ConcatProperties
  <2>3. <<dom>> \o certs \in Seq(Nodes) /\ ToSet(<<dom>> \o certs) = {dom} \union ToSet(certs)
    BY <1>3, <2>1, <2>2
  <2> QED
    BY <1>4, <2>2, <2>3
<1> HIDE DEF new
<1>6. /\ assets' \in Once(Nodes)
      /\ ToSet(assets') = ToSet(assets) \union {dom} \union ToSet(certs) \union {IpAsset(ip) : ip \in ToSet(ips)}
  BY <1>1, <1>4, <1>5, UpsertAllFacts DEF GraphTyped
<1>7. IsFiniteSet(pins) /\ IsFiniteSet(routes)
  <2> DEFINE pin == [c \in ToSet(certs) |-> Link(dom, c, TRUE)]
             route == [ip \in ToSet(ips) |-> Link(dom, IpAsset(ip), Dedicated(ips, ip, asn))]
  <2>1. pins = {pin[c] : c \in ToSet(certs)} /\ routes = {route[ip] : ip \in ToSet(ips)}
    OBVIOUS
  <2>2. DOMAIN pin = ToSet(certs) /\ DOMAIN route = ToSet(ips)
    OBVIOUS
  <2>3. IsFiniteSet(ToSet(certs)) /\ IsFiniteSet(ToSet(ips))
    BY <1>2, <1>3, ToSetFinite
  <2> HIDE DEF pin, route, pins, routes
  <2> QED
    BY <2>1, <2>2, <2>3, ImageFinite
<1>8. \A l \in pins \union routes : /\ l.ends \subseteq ToSet(assets') /\ l.ends # {}
                                    /\ l.strong \in BOOLEAN
  <2>1. ASSUME NEW c \in ToSet(certs)
        PROVE  /\ Link(dom, c, TRUE).ends \subseteq ToSet(assets') /\ Link(dom, c, TRUE).ends # {}
               /\ Link(dom, c, TRUE).strong \in BOOLEAN
    BY <1>6 DEF Link
  <2>2. ASSUME NEW ip \in ToSet(ips)
        PROVE  LET l == Link(dom, IpAsset(ip), Dedicated(ips, ip, asn))
               IN  l.ends \subseteq ToSet(assets') /\ l.ends # {} /\ l.strong \in BOOLEAN
    BY <1>6 DEF Link, Dedicated
  <2> QED
    BY <2>1, <2>2
<1>9. attrs' \in [Ips -> Attrs]
  <2>1. asn \in {AsnOf[ip] : ip \in Ips} \union {NoAsn}
    BY <1>2 DEF ResultAsn
  <2>2. \A ip \in Ips : Dedicated(ips, ip, asn) \in BOOLEAN
    BY DEF Dedicated
  <2> HIDE DEF asn
  <2>3. \A ip \in Ips : [asn |-> asn, dedicated |-> Dedicated(ips, ip, asn)] \in Attrs
    BY <2>1, <2>2 DEF Attrs
  <2>4. \A ip \in Ips : attrs[ip] \in Attrs
    BY DEF GraphTyped
  <2> QED
    BY <1>1, <2>3, <2>4
<1> HIDE DEF pins, routes
<1>10. Tied(assets', links') /\ \A l \in links' : l.strong \in BOOLEAN
  <2>1. IsFiniteSet(links')
    BY <1>1, <1>7, FS_Union DEF GraphTyped, Tied
  <2> QED
    BY <1>1, <1>6, <1>8, <2>1 DEF GraphTyped, Tied
<1> QED
  BY <1>1, <1>6, <1>9, <1>10 DEF GraphTyped, Grows

(* A host that is only recorded adds its asset and no link.                *)
LEMMA RecordGrows ==
  ASSUME GraphTyped, assets' \in Once(Nodes), ToSet(assets) \subseteq ToSet(assets'),
         links' = links, attrs' = attrs
  PROVE  GraphTyped' /\ Grows
BY DEF GraphTyped, Grows, Tied

-----------------------------------------------------------------------------
(* What the run has made when, and of what.                                *)
EntryTyped(e) ==
  /\ e.method \in {"fqdn", "ip"}
  /\ e.operator \in Nat \union {NoLabel}
  /\ e.evidence \in 0..Len(dets)

Made ==
  /\ tool \in {"live", "sweep", "demo"}
  /\ phase \in {"detect", "enrich", "embed", "report", "raised"}
  /\ phase \notin {"embed", "report"} => blocklist = {}
  /\ phase # "report" => queue = {}
  /\ \A e \in blocklist \union queue : EntryTyped(e)
  /\ embedded \in 0..MaxEmbeds

RunInv == HostsTyped /\ GraphTyped /\ Made

(* The graph of the demo: seed_graph() ties each of its domains to the     *)
(* certificate and to both addresses (demo/synthetic_data.py:36).          *)
LEMMA SeedTyped ==
  /\ SeedAssets \in Once(Nodes)
  /\ Tied(SeedAssets, SeedLinks)
  /\ \A l \in SeedLinks : l.strong \in BOOLEAN
  /\ SeedAttrs \in [Ips -> Attrs]
<1> DEFINE base == <<CertAsset(Seed.cert), IpAsset(Seed.origin), IpAsset(Seed.front)>>
           doms == [i \in DOMAIN Seed.names |-> DomainAsset(Seed.names[i])]
           N == ToSet(Seed.names)
           cert(n) == Link(DomainAsset(n), CertAsset(Seed.cert), TRUE)
           origin(n) == Link(DomainAsset(n), IpAsset(Seed.origin), TRUE)
           front(n) == Link(DomainAsset(n), IpAsset(Seed.front), FALSE)
<1>1. Seed.origin # Seed.front /\ {Seed.origin, Seed.front} \subseteq Ips /\ Seed.names \in Seq(Names)
  BY LiveRunAssumption DEF IsSharedFront
<1>2. base \in Once(Nodes)
  <2>1. CertAsset(Seed.cert) \in Nodes /\ IpAsset(Seed.origin) \in Nodes /\ IpAsset(Seed.front) \in Nodes
    BY <1>1 DEF Nodes, CertAssets, IpAssets
  <2>2. /\ CertAsset(Seed.cert) # IpAsset(Seed.origin) /\ CertAsset(Seed.cert) # IpAsset(Seed.front)
        /\ IpAsset(Seed.origin) # IpAsset(Seed.front)
    BY <1>1, AssetsDiffer
  <2>3. \A a, b, c \in Nodes : a # b /\ a # c /\ b # c => <<a, b, c>> \in Once(Nodes)
    <3> SUFFICES ASSUME NEW a \in Nodes, NEW b \in Nodes, NEW c \in Nodes, a # b, a # c, b # c
                 PROVE  <<a, b, c>> \in Once(Nodes)
      OBVIOUS
    <3>1. <<a, b, c>> \in Seq(Nodes)
      OBVIOUS
    <3>2. IsInjective(<<a, b, c>>)
      BY DEF IsInjective
    <3> QED
      BY <3>1, <3>2 DEF Once
  <2> QED
    BY <2>1, <2>2, <2>3
<1>3. ToSet(base) = {CertAsset(Seed.cert), IpAsset(Seed.origin), IpAsset(Seed.front)}
  <2>1. \A a, b, c : ToSet(<<a, b, c>>) = {a, b, c}
    BY DEF ToSet
  <2> QED
    BY <2>1
<1>4. doms \in Seq(Nodes) /\ ToSet(doms) = {DomainAsset(n) : n \in N}
  <2>1. \A i \in DOMAIN Seed.names : DomainAsset(Seed.names[i]) \in Nodes
    BY <1>1, NodesTyped DEF Hosts
  <2>2. doms \in Seq(Nodes)
    BY <1>1, <2>1
  <2> QED
    BY <2>2 DEF ToSet
<1>5. SeedAssets = UpsertAll(base, doms)
  BY DEF SeedAssets
<1>6. SeedLinks = {cert(n) : n \in N} \union {origin(n) : n \in N} \union {front(n) : n \in N}
  <2>1. SeedLinks = UNION {{cert(n), origin(n), front(n)} : n \in N}
    BY DEF SeedLinks
  <2> HIDE DEF N, cert, origin, front
  <2>2. \A l \in SeedLinks : \E n \in N : l = cert(n) \/ l = origin(n) \/ l = front(n)
    BY <2>1
  <2>3. \A n \in N : cert(n) \in SeedLinks /\ origin(n) \in SeedLinks /\ front(n) \in SeedLinks
    BY <2>1
  <2> QED
    BY <2>2, <2>3
<1> HIDE DEF base, doms
<1>7. /\ SeedAssets \in Once(Nodes)
      /\ ToSet(SeedAssets) = {CertAsset(Seed.cert), IpAsset(Seed.origin), IpAsset(Seed.front)}
                               \union {DomainAsset(n) : n \in N}
  BY <1>2, <1>3, <1>4, <1>5, UpsertAllFacts
<1>8. IsFiniteSet(SeedLinks)
  <2> DEFINE f == [n \in N |-> cert(n)]
             g == [n \in N |-> origin(n)]
             h == [n \in N |-> front(n)]
  <2>1. IsFiniteSet(N)
    BY <1>1, ToSetFinite
  <2>2. /\ {cert(n) : n \in N} = {f[n] : n \in N} /\ {origin(n) : n \in N} = {g[n] : n \in N}
        /\ {front(n) : n \in N} = {h[n] : n \in N}
        /\ DOMAIN f = N /\ DOMAIN g = N /\ DOMAIN h = N
    OBVIOUS
  <2> HIDE DEF f, g, h, N
  <2>3. IsFiniteSet({f[n] : n \in N}) /\ IsFiniteSet({g[n] : n \in N}) /\ IsFiniteSet({h[n] : n \in N})
    BY <2>1, <2>2, ImageFinite
  <2>4. SeedLinks = ({f[n] : n \in N} \union {g[n] : n \in N}) \union {h[n] : n \in N}
    BY <1>6, <2>2
  <2>5. IsFiniteSet({f[n] : n \in N} \union {g[n] : n \in N})
    BY <2>3, FS_Union
  <2> QED
    BY <2>3, <2>4, <2>5, FS_Union
<1>9. ASSUME NEW l \in SeedLinks
      PROVE  l.ends \subseteq ToSet(SeedAssets) /\ l.ends # {} /\ l.strong \in BOOLEAN
  <2>1. PICK n \in N : l = cert(n) \/ l = origin(n) \/ l = front(n)
    BY <1>6
  <2>2. \/ l.ends = {DomainAsset(n), CertAsset(Seed.cert)}
        \/ l.ends = {DomainAsset(n), IpAsset(Seed.origin)}
        \/ l.ends = {DomainAsset(n), IpAsset(Seed.front)}
    BY <2>1 DEF Link
  <2>3. l.strong = TRUE \/ l.strong = FALSE
    BY <2>1 DEF Link
  <2> QED
    BY <1>7, <2>2, <2>3
<1>10. SeedAttrs \in [Ips -> Attrs]
  BY DEF SeedAttrs, Attrs, Unknown
<1> QED
  BY <1>7, <1>8, <1>9, <1>10 DEF Tied

(* The three tools start in a graph that is empty or seeded.               *)
LEMMA InitRun == Init => RunInv
<1> SUFFICES ASSUME Init PROVE RunInv
  OBVIOUS
<1>1. HostsTyped
  BY LiveRunAssumption DEF Init, HostsTyped
<1>2. GraphTyped
  <2>1. CASE tool = "demo"
    BY <2>1, SeedTyped DEF Init, GraphTyped
  <2>2. CASE tool # "demo"
    <3>1. assets = <<>> /\ links = {} /\ attrs = [ip \in Ips |-> Unknown]
      BY <2>2 DEF Init
    <3>2. <<>> \in Once(Nodes)
      BY DEF Once, IsInjective
    <3>3. Unknown \in Attrs
      BY DEF Unknown, Attrs
    <3> QED
      BY <3>1, <3>2, <3>3, FS_EmptySet DEF GraphTyped, Tied
  <2> QED
    BY <2>1, <2>2
<1>3. Made
  BY LiveRunAssumption DEF Init, Made
<1> QED
  BY <1>1, <1>2, <1>3 DEF RunInv

(* A label is the number of the network that the asset is in, or there is  *)
(* none (graph.py:107-113).                                                *)
LEMMA LabelIs ==
  ASSUME NEW networks, DOMAIN networks \subseteq Nat \ {0}, NEW a
  PROVE  \/ LabelOf(a, networks) = NoLabel
         \/ /\ LabelOf(a, networks) \in Nat
            /\ LabelOf(a, networks) + 1 \in DOMAIN networks
            /\ a \in networks[LabelOf(a, networks) + 1]
<1>1. CASE \E i \in DOMAIN networks : a \in networks[i]
  <2> DEFINE i == CHOOSE i \in DOMAIN networks : a \in networks[i]
  <2>1. i \in DOMAIN networks /\ a \in networks[i]
    BY <1>1
  <2>2. LabelOf(a, networks) = i - 1
    BY <1>1 DEF LabelOf
  <2> HIDE DEF i
  <2>3. i - 1 \in Nat /\ (i - 1) + 1 = i
    BY <2>1
  <2> QED
    BY <2>1, <2>2, <2>3
<1>2. CASE ~(\E i \in DOMAIN networks : a \in networks[i])
  BY <1>2 DEF LabelOf
<1> QED
  BY <1>1, <1>2

(* The networks of the run's own graph.                                    *)
LEMMA OwnNetworks ==
  ASSUME GraphTyped
  PROVE  /\ DOMAIN NetworksOf(assets, links) \subseteq Nat \ {0}
         /\ \A k \in DOMAIN NetworksOf(assets, links) :
              NetworksOf(assets, links)[k] \in ClustersOf(assets, links)
  BY NetworksAreClusters DEF GraphTyped, Once

(* What the detections ask for.                                            *)
LEMMA WantedTyped ==
  ASSUME HostsTyped, GraphTyped, NEW e \in AllWanted
  PROVE  /\ EntryTyped(e)
         /\ e.method = "fqdn" => /\ e.target \in Names
                                 /\ e.operator = LabelOf(DomainAsset(e.target), NetworksOf(assets, links))
<1> DEFINE networks == NetworksOf(assets, links)
<1>1. PICK i \in DOMAIN dets : e \in Wanted(i, networks)
  BY DEF AllWanted
<1>2. /\ e.method \in {"fqdn", "ip"} /\ e.evidence = i
      /\ e.operator = LabelOf(DomainAsset(dets[i]), networks)
      /\ e.method = "fqdn" => e.target = dets[i]
  BY <1>1 DEF Wanted
<1>3. DOMAIN networks \subseteq Nat \ {0}
  BY OwnNetworks
<1> HIDE DEF networks
<1>4. e.operator \in Nat \union {NoLabel}
  BY <1>2, <1>3, LabelIs
<1>5. i \in 0..Len(dets) /\ dets[i] \in Names
  BY <1>1 DEF HostsTyped
<1> QED
  BY <1>2, <1>4, <1>5 DEF EntryTyped, networks

(* The graph that a step leaves.                                           *)
LEMMA StepGraph == HostsTyped /\ GraphTyped /\ [Next]_vars => HostsTyped' /\ GraphTyped' /\ Grows
<1> SUFFICES ASSUME HostsTyped, GraphTyped, [Next]_vars PROVE HostsTyped' /\ GraphTyped' /\ Grows
  OBVIOUS
<1>1. ASSUME UNCHANGED graph PROVE GraphTyped' /\ Grows
  BY <1>1 DEF graph, GraphTyped, Grows, Tied
<1>2. ASSUME UNCHANGED <<dets, rows>> PROVE HostsTyped'
  BY <1>2 DEF HostsTyped
<1>3. ASSUME NEW n \in Names, Detect(n) PROVE HostsTyped' /\ GraphTyped' /\ Grows
  <2>1. HostsTyped'
    BY <1>3, LiveRunAssumption DEF Detect, HostsTyped
  <2> QED
    BY <1>1, <1>3, <2>1 DEF Detect
<1>4. CASE \/ UNCHANGED vars \/ EndDetect \/ EnrichRaises \/ Report
           \/ (\E n \in Embeds : SkipEmbed(n)) \/ (\E k \in 1..Len(assets) : QueuePreemptive(k))
  BY <1>1, <1>2, <1>4 DEF vars, EndDetect, EnrichRaises, Report, SkipEmbed, QueuePreemptive
<1>5. ASSUME Enriching PROVE NextHost \in Names /\ Len(rows) + 1 <= Len(dets)
  BY <1>5 DEF Enriching, NextHost, HostsTyped
<1>6. ASSUME NEW answer \in Answers, EnrichHost(answer) PROVE HostsTyped' /\ GraphTyped' /\ Grows
  <2>1. NextHost \in Names /\ Len(rows) + 1 <= Len(dets)
    BY <1>5, <1>6 DEF EnrichHost
  <2>2. GraphTyped' /\ Grows
    BY <1>6, <2>1, EnrichGrows DEF EnrichHost, Hosts
  <2>3. Resolved(NextHost, answer) \in Seq(Ips)
    BY ResolvedAddresses
  <2>4. \A r \in Seq(Ips) : Append(rows, r) \in Seq(Seq(Ips)) /\ Len(Append(rows, r)) = Len(rows) + 1
    BY DEF HostsTyped
  <2>5. dets' = dets /\ rows' = Append(rows, Resolved(NextHost, answer))
    BY <1>6 DEF EnrichHost
  <2>6. HostsTyped'
    BY <2>1, <2>3, <2>4, <2>5 DEF HostsTyped
  <2> QED
    BY <2>2, <2>6
<1>7. CASE RecordHost
  <2>1. NextHost \in Names /\ Len(rows) + 1 <= Len(dets)
    BY <1>5, <1>7 DEF RecordHost
  <2>2. DomainAsset(NextHost) \in Nodes
    BY <2>1, NodesTyped DEF Hosts
  <2>3. GraphTyped' /\ Grows
    <3>1. /\ assets' = Upsert(assets, DomainAsset(NextHost))
          /\ links' = links /\ attrs' = attrs
      BY <1>7 DEF RecordHost
    <3>2. assets' \in Once(Nodes) /\ ToSet(assets) \subseteq ToSet(assets')
      BY <2>2, <3>1, UpsertFacts DEF GraphTyped
    <3> QED
      BY <3>1, <3>2, RecordGrows
  <2>4. Append(rows, <<>>) \in Seq(Seq(Ips)) /\ Len(Append(rows, <<>>)) = Len(rows) + 1
    BY DEF HostsTyped
  <2>5. HostsTyped'
    BY <1>7, <2>1, <2>4 DEF RecordHost, HostsTyped
  <2> QED
    BY <2>3, <2>5
<1>8. CASE Generate
  <2> DEFINE doms == [i \in DOMAIN dets |-> DomainAsset(dets[i])]
  <2>1. doms \in Seq(Nodes)
    BY NodesTyped DEF HostsTyped, Hosts
  <2>2. assets' = UpsertAll(assets, doms) /\ links' = links /\ attrs' = attrs
    BY <1>8 DEF Generate
  <2> HIDE DEF doms
  <2>3. GraphTyped' /\ Grows
    <3>1. assets' \in Once(Nodes) /\ ToSet(assets) \subseteq ToSet(assets')
      BY <2>1, <2>2, UpsertAllFacts DEF GraphTyped
    <3> QED
      BY <2>2, <3>1, RecordGrows
  <2> QED
    BY <1>2, <1>8, <2>3 DEF Generate
<1>9. ASSUME NEW n \in Embeds, NEW answer \in Answers, EnrichEmbed(n, answer)
      PROVE  HostsTyped' /\ GraphTyped' /\ Grows
  <2>1. GraphTyped' /\ Grows
    BY <1>9, EnrichGrows DEF EnrichEmbed, Hosts
  <2> QED
    BY <1>2, <1>9, <2>1 DEF EnrichEmbed
<1> QED
  BY <1>3, <1>4, <1>6, <1>7, <1>8, <1>9 DEF Next

(* The blocklist is made once, between the two enrichments, and the queue  *)
(* after it (live.py:126-143, run_pipeline.py:67).                         *)
LEMMA StepMade == RunInv /\ [Next]_vars => Made'
<1> SUFFICES ASSUME RunInv, [Next]_vars PROVE Made'
  OBVIOUS
<1> USE DEF RunInv
<1>1. ASSUME UNCHANGED <<tool, phase, dets, blocklist, queue, embedded>> PROVE Made'
  BY <1>1 DEF Made, EntryTyped
<1>2. ASSUME phase \in {"detect", "enrich"} PROVE blocklist = {} /\ queue = {}
  BY <1>2 DEF Made
<1>3. CASE (\E n \in Names : Detect(n)) \/ EndDetect \/ EnrichRaises
  BY <1>2, <1>3 DEF Detect, EndDetect, EnrichRaises, Enriching, Made
<1>4. CASE UNCHANGED vars \/ RecordHost \/ (\E a \in Answers : EnrichHost(a))
  BY <1>1, <1>4 DEF vars, RecordHost, EnrichHost
<1>5. CASE Generate
  <2>1. /\ blocklist' = FirstOfEach(AllWanted) /\ phase' = "embed" /\ queue = {}
        /\ tool' = tool /\ dets' = dets /\ queue' = queue /\ embedded' = embedded
    BY <1>2, <1>5 DEF Generate
  <2>2. ASSUME NEW e \in blocklist' PROVE EntryTyped(e)'
    <3>1. e \in AllWanted
      BY <2>1, <2>2 DEF FirstOfEach
    <3>2. EntryTyped(e)
      BY <3>1, WantedTyped
    <3> QED
      BY <2>1, <3>2 DEF EntryTyped
  <2>3. \A e \in (blocklist \union queue)' : EntryTyped(e)'
    BY <2>1, <2>2
  <2>4. /\ tool' \in {"live", "sweep", "demo"} /\ embedded' \in 0..MaxEmbeds
    BY <2>1 DEF Made
  <2> QED
    BY <2>1, <2>3, <2>4 DEF Made, EntryTyped
<1>6. CASE (\E n \in Embeds, a \in Answers : EnrichEmbed(n, a)) \/ (\E n \in Embeds : SkipEmbed(n))
  <2>1. /\ phase = "embed" /\ embedded < MaxEmbeds /\ embedded' = embedded + 1
        /\ UNCHANGED <<tool, phase, dets, blocklist, queue>>
    BY <1>6 DEF EnrichEmbed, SkipEmbed, EmbedDue
  <2> QED
    BY <2>1, LiveRunAssumption DEF Made, EntryTyped
<1>7. CASE Report
  BY <1>7 DEF Report, Made, EntryTyped
<1>8. ASSUME NEW k \in 1..Len(assets), QueuePreemptive(k) PROVE Made'
  <2>1. /\ phase = "report" /\ k \in DOMAIN NetworksOf(assets, links)
        /\ queue' = QueueOf(NetworksOf(assets, links), k)
        /\ UNCHANGED <<tool, phase, dets, blocklist, embedded>>
    BY <1>8 DEF QueuePreemptive
  <2>2. k - 1 \in Nat
    OBVIOUS
  <2>3. Len(dets) \in Nat
    BY DEF HostsTyped
  <2>4. \A q \in queue' : q.method = "fqdn" /\ q.operator = k - 1 /\ q.evidence = 0
    BY <2>1 DEF QueueOf
  <2>5. ASSUME NEW e \in (blocklist \union queue)' PROVE EntryTyped(e)'
    <3>1. CASE e \in blocklist
      BY <2>1, <3>1 DEF Made, EntryTyped
    <3>2. CASE e \in queue'
      BY <2>1, <2>2, <2>3, <2>4, <3>2 DEF EntryTyped
    <3> QED
      BY <2>1, <2>5, <3>1, <3>2
  <2> QED
    BY <2>1, <2>5 DEF Made, EntryTyped
<1> QED
  BY <1>3, <1>4, <1>5, <1>6, <1>7, <1>8 DEF Next

(* Graph, hosts and results have their types in every run.                 *)
THEOREM RunInvariant == Spec => []RunInv
<1>1. RunInv /\ [Next]_vars => RunInv'
  BY StepGraph, StepMade DEF RunInv
<1> QED
  BY <1>1, InitRun, PTL DEF Spec

(* In every run of a tool: an asset is in the graph once, a link ties      *)
(* assets that are in it, a label is the number of a network or none       *)
(* (graph.py:52-69).                                                       *)
THEOREM LiveRunTypeCorrect == Spec => []TypeOK
<1>1. RunInv => TypeOK
  <2> SUFFICES ASSUME RunInv PROVE TypeOK
    OBVIOUS
  <2>1. assets \in Seq(Nodes) /\ Cardinality(ToSet(assets)) = Len(assets)
    BY InjectiveSize DEF RunInv, GraphTyped, Once
  <2>2. \A l \in links : l.ends \subseteq ToSet(assets) /\ l.strong \in BOOLEAN
    BY DEF RunInv, GraphTyped, Tied
  <2> QED
    BY <2>1, <2>2 DEF RunInv, HostsTyped, GraphTyped, Made, EntryTyped, TypeOK
<1> QED
  BY <1>1, RunInvariant, PTL

(* The operator of a site is what strong pivots tie to it, whatever the    *)
(* network answers and however many sites there are (graph.py:73).         *)
THEOREM OperatorsArePivots == Spec => []OperatorsFollowPivots
<1>1. RunInv => OperatorsFollowPivots
  BY ClusterIsOperator DEF RunInv, GraphTyped, OperatorsFollowPivots
<1> QED
  BY <1>1, RunInvariant, PTL

(* No step of any tool splits an operator (graph.py:62-69).                *)
THEOREM OperatorsNeverSplit == Spec => OperatorsOnlyMerge
<1>1. RunInv /\ [Next]_vars =>
        \A c \in ClustersOf(assets, links) : \E d \in ClustersOf(assets', links') : c \subseteq d
  <2> SUFFICES ASSUME RunInv, [Next]_vars, NEW c \in ClustersOf(assets, links)
               PROVE  \E d \in ClustersOf(assets', links') : c \subseteq d
    OBVIOUS
  <2>1. GraphTyped' /\ Grows
    BY StepGraph DEF RunInv
  <2>2. Tied(assets, links) /\ Tied(assets', links')
    BY <2>1 DEF RunInv, GraphTyped
  <2>3. ToSet(assets) \subseteq ToSet(assets') /\ links \subseteq links'
    BY <2>1 DEF Grows
  <2> QED
    BY <2>2, <2>3, ClustersMerge
<1> QED
  BY <1>1, RunInvariant, PTL DEF Spec, OperatorsOnlyMerge

-----------------------------------------------------------------------------
(* The early warning of the demo: what it confirms is in the graph before  *)
(* the blocklist is made, so that generate() adds nothing and the labels   *)
(* that its entries name are the labels of the queue.                      *)
Recorded == tool = "demo" => \A i \in DOMAIN rows : DomainAsset(dets[i]) \in ToSet(assets)

Labelled ==
  tool = "demo" => \A e \in blocklist : e.method = "fqdn" =>
    e.operator = LabelOf(DomainAsset(e.target), NetworksOf(assets, links))

Queued ==
  queue # {} => \E k \in DOMAIN NetworksOf(assets, links) :
    tool = "demo" /\ phase = "report" /\ queue = QueueOf(NetworksOf(assets, links), k)

DemoInv == Recorded /\ Labelled /\ Queued

(* The demo's generate() finds every host in the graph (generator.py:71).  *)
LEMMA DemoAddsNothing ==
  ASSUME HostsTyped, GraphTyped, Recorded, tool = "demo", Generate
  PROVE  assets' = assets
<1> DEFINE doms == [i \in DOMAIN dets |-> DomainAsset(dets[i])]
<1>1. assets' = UpsertAll(assets, doms) /\ DOMAIN rows = DOMAIN dets
  BY DEF Generate, HostsTyped
<1>2. doms \in Seq(Nodes)
  BY NodesTyped DEF HostsTyped, Hosts
<1>3. ToSet(doms) \subseteq ToSet(assets)
  BY <1>1 DEF Recorded, ToSet
<1> HIDE DEF doms
<1> QED
  BY <1>1, <1>2, <1>3, UpsertAllFacts DEF GraphTyped

(* The demo adds no link after its seed, and no asset after the last host  *)
(* is recorded.                                                            *)
LEMMA StepDemo == RunInv /\ DemoInv /\ [Next]_vars => DemoInv'
<1> SUFFICES ASSUME RunInv, DemoInv, [Next]_vars PROVE DemoInv'
  OBVIOUS
<1> USE DEF RunInv, DemoInv
<1>1. ASSUME UNCHANGED <<tool, phase, dets, rows, graph, blocklist, queue>> PROVE DemoInv'
  BY <1>1 DEF graph, Recorded, Labelled, Queued
<1>2. ASSUME phase \in {"detect", "enrich"} PROVE blocklist = {} /\ queue = {}
  BY <1>2 DEF Made
<1>3. ASSUME NEW n \in Names, Detect(n) PROVE DemoInv'
  <2>1. \A i \in DOMAIN rows : dets'[i] = dets[i]
    BY <1>3 DEF Detect, HostsTyped
  <2>2. blocklist' = {} /\ queue' = {} /\ UNCHANGED <<tool, rows, graph>>
    BY <1>2, <1>3 DEF Detect
  <2> QED
    BY <2>1, <2>2 DEF Recorded, Labelled, Queued, graph
<1>4. CASE EndDetect \/ EnrichRaises
  BY <1>2, <1>4 DEF EndDetect, EnrichRaises, Enriching, Recorded, Labelled, Queued, graph
<1>5. ASSUME NEW answer \in Answers, EnrichHost(answer) PROVE DemoInv'
  <2>1. tool' # "demo" /\ queue' = {}
    BY <1>2, <1>5 DEF EnrichHost, Enriching
  <2> QED
    BY <2>1 DEF Recorded, Labelled, Queued
<1>6. CASE RecordHost
  <2>1. /\ tool' = tool /\ dets' = dets /\ blocklist' = {} /\ queue' = {}
        /\ rows' = Append(rows, <<>>) /\ assets' = Upsert(assets, DomainAsset(NextHost))
    BY <1>2, <1>6 DEF RecordHost, Enriching
  <2>2. NextHost \in Names
    BY <1>6 DEF RecordHost, Enriching, NextHost, HostsTyped
  <2>3. ToSet(assets') = ToSet(assets) \union {DomainAsset(NextHost)}
    BY <2>1, <2>2, NodesTyped, UpsertFacts DEF GraphTyped, Hosts
  <2>4. \A i \in DOMAIN rows' : i \in DOMAIN rows \/ i = Len(rows) + 1
    BY <2>1 DEF HostsTyped
  <2>5. Recorded'
    BY <1>6, <2>1, <2>3, <2>4 DEF Recorded, NextHost, RecordHost
  <2> QED
    BY <2>1, <2>5 DEF Labelled, Queued
<1>7. CASE Generate
  <2>1. /\ tool' = tool /\ dets' = dets /\ rows' = rows /\ links' = links /\ queue' = {}
        /\ blocklist' = FirstOfEach(AllWanted)
    BY <1>2, <1>7 DEF Generate
  <2>2. tool = "demo" => assets' = assets
    BY <1>7, DemoAddsNothing
  <2>3. Labelled'
    <3> SUFFICES ASSUME tool = "demo", NEW e \in blocklist', e.method = "fqdn"
                 PROVE  e.operator = LabelOf(DomainAsset(e.target), NetworksOf(assets', links'))
      BY <2>1 DEF Labelled
    <3>1. e \in AllWanted
      BY <2>1 DEF FirstOfEach
    <3>2. e.operator = LabelOf(DomainAsset(e.target), NetworksOf(assets, links))
      BY <3>1, WantedTyped
    <3> QED
      BY <2>1, <2>2, <3>2
  <2> QED
    BY <2>1, <2>2, <2>3 DEF Recorded, Queued
<1>8. ASSUME NEW n \in Embeds, NEW answer \in Answers, EnrichEmbed(n, answer) PROVE DemoInv'
  <2>1. tool' # "demo" /\ queue' = {}
    BY <1>8 DEF EnrichEmbed, EmbedDue, Made
  <2> QED
    BY <2>1 DEF Recorded, Labelled, Queued
<1>9. CASE UNCHANGED vars \/ (\E n \in Embeds : SkipEmbed(n))
  BY <1>1, <1>9 DEF vars, SkipEmbed
<1>10. CASE Report
  <2>1. UNCHANGED <<tool, dets, rows, assets, links, blocklist, queue>> /\ phase # "report"
    BY <1>10 DEF Report, graph
  <2> QED
    BY <2>1 DEF Made, Recorded, Labelled, Queued
<1>11. ASSUME NEW k \in 1..Len(assets), QueuePreemptive(k) PROVE DemoInv'
  BY <1>11 DEF QueuePreemptive, graph, Recorded, Labelled, Queued
<1> QED
  BY <1>3, <1>4, <1>5, <1>6, <1>7, <1>8, <1>9, <1>10, <1>11 DEF Next

(* Of an operator that an entry of the blocklist names, the demo lists or  *)
(* queues every domain: labels are numbered anew on each call and still    *)
(* name the same network (generator.py:107-112).                           *)
THEOREM WarnsOfAllSites == Spec => []EarlyWarning
<1>1. Init => DemoInv
  BY DEF Init, DemoInv, Recorded, Labelled, Queued
<1>2. RunInv /\ DemoInv => EarlyWarning
  <2> SUFFICES ASSUME RunInv, DemoInv,
                      NEW e \in blocklist, NEW q \in queue, e.method = "fqdn", e.operator = q.operator,
                      NEW n \in Names,
                      DomainAsset(n) \in
                        OperatorOf(DomainAsset(e.target), ToSet(assets), PivotAdj(assets, links))
               PROVE  \E f \in queue : f.target = n
    BY DEF EarlyWarning
  <2> DEFINE networks == NetworksOf(assets, links)
             host == DomainAsset(e.target)
  <2>1. PICK k \in DOMAIN networks : tool = "demo" /\ queue = QueueOf(networks, k)
    BY DEF DemoInv, Queued
  <2>2. /\ DOMAIN networks \subseteq Nat \ {0}
        /\ \A i \in DOMAIN networks : networks[i] \in ClustersOf(assets, links)
    BY OwnNetworks DEF RunInv
  <2>3. e.operator = LabelOf(host, networks)
    BY <2>1 DEF DemoInv, Labelled
  <2> HIDE DEF networks, host
  <2>4. q.operator = k - 1
    BY <2>1 DEF QueueOf
  <2>5. host \in networks[k]
    <3>1. k - 1 \in Nat /\ (k - 1) + 1 = k
      BY <2>2
    <3>2. LabelOf(host, networks) = k - 1 /\ LabelOf(host, networks) # NoLabel
      BY <2>3, <2>4, <3>1, LiveRunAssumption
    <3> QED
      BY <2>2, <3>1, <3>2, LabelIs
  <2>6. networks[k] = OperatorOf(host, ToSet(assets), PivotAdj(assets, links))
    BY <2>2, <2>5, ClusterIsOperator DEF RunInv, GraphTyped
  <2>7. DomainAsset(n) \in networks[k] /\ IsDomain(DomainAsset(n)) /\ DomainAsset(n).value = n
    BY <2>6 DEF host, DomainAsset, IsDomain
  <2>8. n \in {a.value : a \in {b \in networks[k] : IsDomain(b)}}
    BY <2>7
  <2> DEFINE f == [target |-> n, method |-> "fqdn", operator |-> k - 1, evidence |-> 0]
  <2>9. f \in queue
    BY <2>1, <2>8 DEF QueueOf
  <2> QED
    BY <2>9
<1> QED
  BY <1>1, <1>2, StepDemo, RunInvariant, PTL DEF Spec
=============================================================================
