-------------------------------- MODULE LiveRun --------------------------------
(***************************************************************************)
(* The three command-line tools over one attribution graph.  A live run    *)
(* (aegis/live.py) enriches the confirmed hosts from DNS, TLS and the ASN  *)
(* service (enrichment/live.py), makes a blocklist (blocklist/generator.py) *)
(* and enriches the players the headless browser saw embedded.  A sweep    *)
(* (aegis/sweep.py) enriches the domains it is given and rates each.  The  *)
(* demo (demo/run_pipeline.py) starts from a graph that is seeded, enriches *)
(* nothing and asks for the early-warning queue.  The network answers as   *)
(* it likes.                                                               *)
(***************************************************************************)
EXTENDS AttributionGraph

CONSTANTS Names,        \* the netlocs of candidate URLs: [host, spelling]
          Embeds,       \* hosts of embedded players, as plain names
          Answers,      \* what the network says of a name: [ips, cert, known]
          NoCert,
          Seed,         \* of the demo: [cert, origin, front, names]
          MaxDets, MaxEmbeds      \* bounds of the model

ASSUME LiveRunAssumption ==
  /\ \A a \in Answers : a.ips \in Seq(Ips)
  /\ ClassOf[AsnOf[Seed.origin]] = "other" /\ IsSharedFront(AsnOf[Seed.front])
  /\ {Seed.origin, Seed.front} \subseteq Ips /\ Seed.names \in Seq(Names)
  /\ NoLabel \notin Nat
  /\ MaxDets \in Nat /\ MaxEmbeds \in Nat

VARIABLES tool,         \* "live", "sweep" or "demo"
          phase,        \* "raised": an exception has ended the run
          dets,         \* names of the matched detections, of a sweep its domains
          rows,         \* the addresses of those that are enriched, in order
          assets, links, attrs,     \* the attribution graph
          blocklist,    \* result.blocklist
          embedded,     \* embeds enriched so far
          queue         \* preemptive_from_operator(), once someone asked for it

graph == <<assets, links, attrs>>
vars == <<tool, phase, dets, rows, graph, blocklist, embedded, queue>>

Attrs == [asn : {AsnOf[ip] : ip \in Ips} \union {NoAsn}, dedicated : BOOLEAN]

Hosts == Names \union Embeds
Domains == {DomainAsset(n) : n \in Hosts \union {[m EXCEPT !.spelling = "plain"] : m \in Hosts}}
CertAssets == {CertAsset(c) : c \in ({a.cert : a \in Answers} \ {NoCert}) \union {Seed.cert}}
IpAssets == {IpAsset(ip) : ip \in Ips}
Nodes == Domains \union CertAssets \union IpAssets

(* Types of a run: an asset is in the graph once, a link ties assets that  *)
(* are in it, an address has an ASN and a mark (graph.py:52-69).           *)
TypeOK ==
  /\ tool \in {"live", "sweep", "demo"}
  /\ phase \in {"detect", "enrich", "embed", "report", "raised"}
  /\ dets \in Seq(Names) /\ Len(dets) <= MaxDets
  /\ rows \in Seq(Seq(Ips)) /\ Len(rows) <= Len(dets)
  /\ assets \in Seq(Nodes)
  /\ Cardinality(ToSet(assets)) = Len(assets)
  /\ \A l \in links : l.ends \subseteq ToSet(assets) /\ l.strong \in BOOLEAN
  /\ attrs \in [Ips -> Attrs]
  /\ \A e \in blocklist \union queue :
       /\ e.method \in {"fqdn", "ip"}
       /\ e.operator \in Nat \union {NoLabel}
       /\ e.evidence \in 0..Len(dets)
  /\ embedded \in 0..MaxEmbeds

(* seed_graph(): every domain of the demo shares the certificate and both  *)
(* addresses.                                                              *)
SeedAssets ==
  UpsertAll(<<CertAsset(Seed.cert), IpAsset(Seed.origin), IpAsset(Seed.front)>>,
            [i \in DOMAIN Seed.names |-> DomainAsset(Seed.names[i])])

SeedLinks ==
  UNION {{Link(DomainAsset(n), CertAsset(Seed.cert), TRUE),
          Link(DomainAsset(n), IpAsset(Seed.origin), TRUE),
          Link(DomainAsset(n), IpAsset(Seed.front), FALSE)} : n \in ToSet(Seed.names)}

Unknown == [asn |-> NoAsn, dedicated |-> FALSE]

SeedAttrs ==
  [ip \in Ips |-> IF ip \in {Seed.origin, Seed.front}
                   THEN [asn |-> AsnOf[ip], dedicated |-> ip = Seed.origin] ELSE Unknown]

Init ==
  /\ tool \in {"live", "sweep", "demo"}
  /\ phase = "detect"
  /\ dets = <<>> /\ rows = <<>>
  /\ assets = IF tool = "demo" THEN SeedAssets ELSE <<>>
  /\ links = IF tool = "demo" THEN SeedLinks ELSE {}
  /\ attrs = IF tool = "demo" THEN SeedAttrs ELSE [ip \in Ips |-> Unknown]
  /\ blocklist = {}
  /\ embedded = 0
  /\ queue = {}

(* A candidate that matches, or a domain for the sweep; a candidate that   *)
(* does not match leaves no trace.                                         *)
Detect(n) ==
  /\ phase = "detect"
  /\ Len(dets) < MaxDets
  /\ dets' = Append(dets, n)
  /\ UNCHANGED <<tool, phase, rows, graph, blocklist, embedded, queue>>

EndDetect ==
  /\ phase = "detect"
  /\ phase' = "enrich"
  /\ UNCHANGED <<tool, dets, rows, graph, blocklist, embedded, queue>>

-----------------------------------------------------------------------------
(* enrich_into_graph(host, graph)                                          *)

(* host.strip().lower()                                                    *)
Lower(n) == IF n.spelling = "cased" THEN [n EXCEPT !.spelling = "plain"] ELSE n

(* A name with a port does not resolve; nothing is asked of what does not. *)
Resolved(n, answer) == IF n.spelling = "ported" THEN <<>> ELSE answer.ips

(* The ASN the result carries is that of the first address.                *)
ResultAsn(ips, answer) == IF ips # <<>> /\ answer.known THEN AsnOf[ips[1]] ELSE NoAsn

(* A result that takes every network it knows for single-tenant.           *)
AnyKnownAsn(asn) == asn # NoAsn

(* Single-tenant: a network known by name and not known for many tenants.  *)
SingleTenant(asn) == asn # NoAsn /\ ClassOf[asn] = "other"

(* An enrichment that marks every address of a single-tenant result.       *)
EveryAddressDedicated(ips, ip, asn) == ip \in ToSet(ips) /\ SingleTenant(asn)

(* dedicated and ip == e.ips[0]                                            *)
Dedicated(ips, ip, asn) == ip = ips[1] /\ SingleTenant(asn)

(* An enrichment that replaces what an earlier one found of the domain.    *)
Relink(n, answer) ==
  LET dom == DomainAsset(Lower(n))
      ips == Resolved(n, answer)
      asn == ResultAsn(ips, answer)
  IN  /\ assets' = UpsertAll(assets, <<dom>> \o [k \in DOMAIN ips |-> IpAsset(ips[k])])
      /\ links' = {l \in links : dom \notin l.ends} \union
                  {Link(dom, IpAsset(ip), Dedicated(ips, ip, asn)) : ip \in ToSet(ips)}
      /\ UNCHANGED attrs

(* Links are only added; the attributes of an address are overwritten with *)
(* the ASN of the first address and its own mark.                          *)
Enrich(n, answer) ==
  LET dom == DomainAsset(Lower(n))
      ips == Resolved(n, answer)
      asn == ResultAsn(ips, answer)
      certs == IF ips = <<>> \/ answer.cert = NoCert THEN <<>>
               ELSE <<CertAsset(answer.cert)>>
  IN  /\ assets' = UpsertAll(assets,
           <<dom>> \o certs \o [k \in DOMAIN ips |-> IpAsset(ips[k])])
      /\ links' = links
           \union {Link(dom, c, TRUE) : c \in ToSet(certs)}
           \union {Link(dom, IpAsset(ip), Dedicated(ips, ip, asn)) : ip \in ToSet(ips)}
      /\ attrs' = [ip \in Ips |->
           IF ip \in ToSet(ips)
             THEN [asn |-> asn, dedicated |-> Dedicated(ips, ip, asn)]
             ELSE attrs[ip]]

Unencodable(n) == n.spelling = "unencodable"

NextHost == dets[Len(rows) + 1]

Enriching == phase = "enrich" /\ Len(rows) < Len(dets)

(* Pipeline.run, sweep(): each host in turn.                               *)
EnrichHost(answer) ==
  /\ Enriching /\ tool # "demo"
  /\ ~Unencodable(NextHost)
  /\ Enrich(NextHost, answer)
  /\ rows' = Append(rows, Resolved(NextHost, answer))
  /\ UNCHANGED <<tool, phase, dets, blocklist, embedded, queue>>

(* getaddrinfo() raises UnicodeError, which nobody catches, before anything *)
(* of the host is in the graph.                                            *)
EnrichRaises ==
  /\ Enriching /\ tool # "demo"
  /\ Unencodable(NextHost)
  /\ phase' = "raised"
  /\ UNCHANGED <<tool, dets, rows, graph, blocklist, embedded, queue>>

(* Pipeline.run without an enricher.                                       *)
RecordHost ==
  /\ Enriching /\ tool = "demo"
  /\ assets' = Upsert(assets, DomainAsset(NextHost))
  /\ rows' = Append(rows, <<>>)
  /\ UNCHANGED <<tool, phase, dets, links, attrs, blocklist, embedded, queue>>

-----------------------------------------------------------------------------
(* BlocklistGenerator                                                      *)

(* _ip_safety(ip) = IP_SAFE                                                *)
IpSafe(ip) == ~IsSharedFront(attrs[ip].asn) /\ attrs[ip].dedicated

(* The verdict of the sweep on the i-th domain, by its first address.      *)
RatedSafe(i) == rows[i] # <<>> /\ IpSafe(rows[i][1])

(* What one detection asks for, under the labels taken at the start.       *)
Wanted(i, networks) ==
  LET dom == DomainAsset(dets[i])
      op == LabelOf(dom, networks)
      Ask(target, method) ==
        [target |-> target, method |-> method, operator |-> op, evidence |-> i]
  IN  {Ask(dets[i], "fqdn")} \union
      {Ask(ip, "ip") : ip \in {x \in Ips : IpAsset(x) \in Neighbours(dom, links) /\ IpSafe(x)}}

SameTarget(e, f) == e.target = f.target /\ e.method = f.method

AllWanted == LET networks == NetworksOf(assets, links)
             IN  UNION {Wanted(i, networks) : i \in DOMAIN dets}

(* A _dedupe that lets the last entry of a target win.                     *)
LastOfEach(wanted) ==
  {e \in wanted : \A f \in wanted : SameTarget(e, f) => f.evidence <= e.evidence}

(* _dedupe: the first entry of a target wins.                              *)
FirstOfEach(wanted) ==
  {e \in wanted : \A f \in wanted : SameTarget(e, f) => e.evidence <= f.evidence}

(* generate(): it upserts the hosts as the URLs spell them.                *)
Generate ==
  /\ phase = "enrich" /\ tool # "sweep"
  /\ Len(rows) = Len(dets)
  /\ assets' = UpsertAll(assets, [i \in DOMAIN dets |-> DomainAsset(dets[i])])
  /\ blocklist' = FirstOfEach(AllWanted)
  /\ phase' = "embed"
  /\ UNCHANGED <<tool, dets, rows, links, attrs, embedded, queue>>

(* Headless runs enrich the embedded players after the blocklist is made.  *)
EmbedDue == phase = "embed" /\ tool = "live" /\ dets # <<>> /\ embedded < MaxEmbeds

EnrichEmbed(n, answer) ==
  /\ EmbedDue
  /\ ~Unencodable(n)
  /\ Enrich(n, answer)
  /\ embedded' = embedded + 1
  /\ UNCHANGED <<tool, phase, dets, rows, blocklist, queue>>

(* An exception of an embed that ends the run.                             *)
FailOnEmbed(n) ==
  /\ EmbedDue
  /\ Unencodable(n)
  /\ phase' = "raised"
  /\ UNCHANGED <<tool, dets, rows, graph, blocklist, embedded, queue>>

(* except Exception: pass                                                  *)
SkipEmbed(n) ==
  /\ EmbedDue
  /\ Unencodable(n)
  /\ embedded' = embedded + 1
  /\ UNCHANGED <<tool, phase, dets, rows, graph, blocklist, queue>>

Report ==
  /\ phase = "embed" \/ (phase = "enrich" /\ tool = "sweep" /\ Len(rows) = Len(dets))
  /\ phase' = "report"
  /\ UNCHANGED <<tool, dets, rows, graph, blocklist, embedded, queue>>

(* A queue drawn from the hosts this run has confirmed.                    *)
QueueConfirmed(networks, k) ==
  [target : {a.value : a \in {b \in networks[k] : IsDomain(b)}} \cap ToSet(dets),
   method : {"fqdn"}, operator : {k - 1}, evidence : {0}]

(* preemptive_from_operator(label of the k-th network)                     *)
QueueOf(networks, k) ==
  [target : {a.value : a \in {b \in networks[k] : IsDomain(b)}},
   method : {"fqdn"}, operator : {k - 1}, evidence : {0}]

QueuePreemptive(k) ==
  /\ phase = "report" /\ tool = "demo"
  /\ LET networks == NetworksOf(assets, links)
     IN  /\ k \in DOMAIN networks
         /\ queue' = QueueOf(networks, k)
  /\ UNCHANGED <<tool, phase, dets, rows, graph, blocklist, embedded>>

Next ==
  \/ \E n \in Names : Detect(n)
  \/ EndDetect
  \/ \E answer \in Answers : EnrichHost(answer)
  \/ EnrichRaises \/ RecordHost
  \/ Generate
  \/ \E n \in Embeds, answer \in Answers : EnrichEmbed(n, answer)
  \/ \E n \in Embeds : SkipEmbed(n)
  \/ Report
  \/ \E k \in 1..Len(assets) : QueuePreemptive(k)

Spec == Init /\ [][Next]_vars /\ WF_vars(Next)

-----------------------------------------------------------------------------
(* No IP block hits shared infrastructure, and no sweep calls an address   *)
(* safe that does: it really lies in a network that is neither a CDN nor a *)
(* VPS host, although the ASN it is given is that of another address of    *)
(* the same host (generator.py:10, live.py:163, sweep.py:87).              *)
OnlySingleTenantBlocked ==
  /\ \A e \in blocklist : e.method = "ip" => ClassOf[AsnOf[e.target]] = "other"
  /\ \A i \in DOMAIN rows : RatedSafe(i) => ClassOf[AsnOf[rows[i][1]]] = "other"

(* An address of a shared network never ties two sites into one operator   *)
(* (graph.py:32).                                                          *)
SharedFrontsNeverMerge ==
  \A l \in links, ip \in Ips :
    l.strong /\ IpAsset(ip) \in l.ends => ClassOf[AsnOf[ip]] = "other"

(* Every confirmed host gets its one FQDN entry, with the evidence of its  *)
(* first detection (generator.py:71, :132).                                *)
EveryHostListed ==
  phase \in {"embed", "report"} /\ tool # "sweep" => \A i \in DOMAIN dets :
    \E e \in blocklist :
      /\ e.target = dets[i] /\ e.method = "fqdn"
      /\ e.evidence <= i /\ dets[e.evidence] = dets[i]
      /\ \A f \in blocklist : SameTarget(e, f) => f = e

(* The operator of a site is what chains of strong pivots tie to it and    *)
(* nothing else: sharing a front or a VPS address does not count (:73).    *)
OperatorsFollowPivots ==
  \A c \in ClustersOf(assets, links) : \A a \in c :
    IsDomain(a) => c = OperatorOf(a, ToSet(assets), PivotAdj(assets, links))

(* What an operator is known to own it keeps: enrichment, of a host met    *)
(* before too, merges operators and never splits one (graph.py:62-69).     *)
OperatorsOnlyMerge ==
  [][\A c \in ClustersOf(assets, links) :
       \E d \in ClustersOf(assets', links') : c \subseteq d]_graph

-----------------------------------------------------------------------------
(* Every domain that a chain of strong pivots ties to a host on the        *)
(* blocklist is listed too or queued under the operator that the entry     *)
(* names: labels are numbered anew on each call, and the hosts that        *)
(* generate() adds do not shift them (generator.py:107-112).               *)
EarlyWarning ==
  \A e \in blocklist, q \in queue : e.method = "fqdn" /\ e.operator = q.operator =>
    {n \in Names : DomainAsset(n) \in
        OperatorOf(DomainAsset(e.target), ToSet(assets), PivotAdj(assets, links))}
      \subseteq {f.target : f \in blocklist \union queue}

(* A run gets to its report, whatever the network fails to answer and what *)
(* it does with embedded players; only a host that has no IDNA form ends a *)
(* live run or a sweep (enrichment/live.py:58, live.py:135-138).           *)
RunReports ==
  <>(phase = "report" \/ (phase = "raised" /\ \E i \in DOMAIN dets : Unencodable(dets[i])))

-----------------------------------------------------------------------------
(* "dedicated => only this operator's assets resolve here" (generator.py:54). *)
BlockedIpServesOneOperator ==
  phase = "embed" /\ embedded = 0 => \A e \in blocklist : e.method = "ip" =>
    \A a, b \in Neighbours(IpAsset(e.target), links) : SameOperator(a, b, assets, links)

(* Co-location on a CDN or cloud front is never a lead (graph.py:137).     *)
FrontsNeverSuspected ==
  \A g \in SuspectedOf(assets, links, attrs) :
    \A ip \in g.ips : ~IsSharedFront(AsnOf[ip])

(* A host that shares a strong pivot with another is attributed to their   *)
(* operator (graph.py:111-113), however its URL spells it.                 *)
PivotedHostsAttributed ==
  \A e \in blocklist : e.method = "fqdn" /\ phase = "embed" /\ embedded = 0
    => e.operator = LabelOf(DomainAsset(Lower(e.target)), NetworksOf(assets, links))
=============================================================================
