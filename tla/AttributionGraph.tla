---------------------------- MODULE AttributionGraph ----------------------------
(***************************************************************************)
(* The asset graph of aegis/services/attribution/graph.py as values: what  *)
(* upsert_asset() and link() make of it, and what the labels and the       *)
(* suspected links are read from it.  An asset is a record with its type   *)
(* and its value; assets holds them in insertion order, links are the      *)
(* edges without direction, attrs the attributes of the IP assets.         *)
(***************************************************************************)
EXTENDS PivotGraph, Lists, FiniteSets, SequencesExt

CONSTANTS Ips,
          AsnOf,      \* AsnOf[ip]: the network that really announces ip
          ClassOf,    \* ClassOf[asn]: asn_registry.classify, "cdn", "vps", "other"
          Slash24,    \* Slash24[ip]: the /24 ip lies in
          NoAsn, NoLabel

IsSharedFront(asn) == asn # NoAsn /\ ClassOf[asn] = "cdn"     \* is_shared_front

IpAsset(ip) == [type |-> "ip", value |-> ip]
CertAsset(cert) == [type |-> "tls_cert", value |-> cert]
DomainAsset(name) == [type |-> "domain", value |-> name]

IsDomain(a) == a.type = "domain"

(* An upsert that adds a second asset of the same id.                      *)
Readd(assets, a) == Append(assets, a)

(* upsert_asset(): a known id keeps its place, a new one goes to the end.  *)
Upsert(assets, a) == AppendIf(a \notin ToSet(assets), assets, a)

UpsertAll(assets, new) ==
  LET f[k \in 0..Len(new)] == IF k = 0 THEN assets ELSE Upsert(f[k - 1], new[k])
  IN  f[Len(new)]

Link(a, b, strong) == [ends |-> {a, b}, strong |-> strong]

(* graph._adj and graph._pivot_adj                                         *)
Neighbours(a, links) == UNION {l.ends \ {a} : l \in {m \in links : a \in m.ends}}

Strong(links) == {l \in links : l.strong}

PivotAdj(assets, links) ==
  [a \in ToSet(assets) |-> Neighbours(a, Strong(links))]

-----------------------------------------------------------------------------
(* Operators and labels.                                                   *)

(* An operator_clusters() over all edges.                                  *)
ClustersOfAllLinks(assets, links) ==
  LET Merge(l, cs) == LET hit == {c \in cs : c \cap l.ends # {}}
                      IN  (cs \ hit) \union {UNION hit}
  IN  FoldSet(Merge, {{a} : a \in ToSet(assets)}, links)

(* operator_clusters(): every strong link joins the clusters of its ends.  *)
ClustersOf(assets, links) ==
  LET Merge(l, cs) == LET hit == {c \in cs : c \cap l.ends # {}}
                      IN  (cs \ hit) \union {UNION hit}
  IN  FoldSet(Merge, {{a} : a \in ToSet(assets)}, Strong(links))

IsNetwork(cluster) == Cardinality({a \in cluster : IsDomain(a)}) >= 2

(* Where the oldest asset of a cluster comes in the order of self.assets.  *)
Age(c, assets) ==
  CHOOSE i \in DOMAIN assets : assets[i] \in c /\ \A j \in 1..(i - 1) : assets[j] \notin c

(* operator_clusters_multi(), in the order OperatorClusters shows: by the  *)
(* oldest asset of each, so that the k-th has k - 1 older ones.            *)
NetworksOf(assets, links) ==
  LET networks == {c \in ClustersOf(assets, links) : IsNetwork(c)}
      Older(c) == {d \in networks : Age(d, assets) < Age(c, assets)}
  IN  [k \in 1..Cardinality(networks) |->
         CHOOSE c \in networks : Cardinality(Older(c)) = k - 1]

(* known_operator_assets().get(a): the number of the label.                *)
LabelOf(a, networks) ==
  IF \E i \in DOMAIN networks : a \in networks[i]
    THEN (CHOOSE i \in DOMAIN networks : a \in networks[i]) - 1
    ELSE NoLabel

SameOperator(a, b, assets, links) ==
  \E c \in ClustersOf(assets, links) : {a, b} \subseteq c

(* suspected_links(): domains on one /24 of a network that is not a front, *)
(* unless one operator has them all.                                       *)
SuspectedOf(assets, links, attrs) ==
  LET confirmed == {{a \in c : IsDomain(a)} : c \in ToSet(NetworksOf(assets, links))}
      known == {ip \in Ips : /\ IpAsset(ip) \in ToSet(assets)
                             /\ attrs[ip].asn # NoAsn
                             /\ ~IsSharedFront(attrs[ip].asn)}
      Group(ip) == {o \in known : attrs[o].asn = attrs[ip].asn /\ Slash24[o] = Slash24[ip]}
      Domains(g) == UNION {{a \in Neighbours(IpAsset(ip), links) : IsDomain(a)} : ip \in g}
      groups == {[ips |-> Group(ip), domains |-> Domains(Group(ip))] : ip \in known}
  IN  {g \in groups : /\ Cardinality(g.domains) >= 2
                      /\ \A c \in confirmed : ~(g.domains \subseteq c)}
=============================================================================
