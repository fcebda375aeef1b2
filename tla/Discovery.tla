------------------------------- MODULE Discovery -------------------------------
(***************************************************************************)
(* DiscoveryOrchestrator and its sources                                   *)
(* (aegis/services/discovery/sources.py): certificate transparency by      *)
(* keyword, the siblings of a confirmed site by certificate, its neighbours *)
(* by address, and a crawl.  Sources are generators, run one after the     *)
(* other: each asks the network when the orchestrator has taken all it     *)
(* had, and may raise an exception when it does.  A run has several        *)
(* orchestrators, one after the other (aegis/live.py).                     *)
(***************************************************************************)
EXTENDS Lists, FiniteSets, SequencesExt

CONSTANTS Names,          \* domain names
          Sources,        \* [kind, items, run]: keywords of "ct_log" or seeds of the
                          \* others, and the number of the orchestrator
          Holding,        \* Holding[k]: the names that contain k
          CrtAnswers,     \* lists of names crt.sh may answer with
          Crawls,         \* lists of names a crawl may come back with
          CertAnswers,    \* sets of names a served certificate may be for
          Ips, FrontIps,  \* addresses; those of CDN fronts
          Tenants,        \* Tenants[ip]: the names that resolve to ip
          Retries,        \* queries of crt.sh before it is given up
          CrtLimit,       \* per_keyword_limit, crtsh_limit
          IpLimit,        \* per_ip_limit
          SharedHost      \* shared_host_threshold

Kinds == {"ct_log", "reverse_infra", "reverse_ip", "seed_crawl"}

(* As the defaults of the sources are: lists are long enough to tell a     *)
(* shared host, and a query is made.  Every name may be searched for.      *)
ASSUME DiscoveryAssumption ==
  /\ IsFiniteSet(Names) /\ Names \subseteq DOMAIN Holding
  /\ Sources \in Seq([kind : Kinds, items : Seq(DOMAIN Holding), run : Nat])
  /\ \A i \in DOMAIN Sources : Sources[i].kind # "ct_log" => Sources[i].items \in Seq(Names)
  /\ CrtAnswers \union Crawls \subseteq Seq(Names)
  /\ CertAnswers \subseteq SUBSET Names
  /\ FrontIps \subseteq Ips
  /\ \A ip \in Ips : Tenants[ip] \subseteq Names
  /\ Retries \in Nat \ {0} /\ CrtLimit \in Nat
  /\ SharedHost \in Nat /\ IpLimit \in Nat /\ IpLimit > SharedHost

VARIABLES current,        \* the source that is running
          todo,           \* the keywords or seeds it has left
          attempt,        \* failed queries of crt.sh for the first of todo
          sans,           \* what the certificate of the first of todo is for
          targets,        \* the addresses it has left to look up
          seen,           \* its own seen set
          pending,        \* what it has left to yield, [name, via]
          out,            \* the orchestrator's list
          broken          \* history: the sources that raised an exception

asking == <<todo, attempt, sans, targets>>
vars == <<current, asking, seen, pending, out, broken>>

Unread == [read |-> FALSE, names |-> {}]
NoVia == [ip |-> FALSE, value |-> FALSE]
ByIp(ip) == [ip |-> TRUE, value |-> ip]
Via == {NoVia} \union {ByIp(ip) : ip \in Ips}

Done == current > Len(Sources)
Kind == Sources[current].kind
Items(i) == IF i \in DOMAIN Sources THEN Sources[i].items ELSE <<>>

(* The reverse sources know their seeds from the start.                    *)
SeenAtFirst(i) ==
  IF i \in DOMAIN Sources /\ Sources[i].kind \in {"reverse_infra", "reverse_ip"}
    THEN ToSet(Items(i)) ELSE {}

(* Types of the loop and of the running source: what it has left to do is  *)
(* the end of its list, a query fails fewer than Retries times (:70), and  *)
(* each orchestrator lists a domain once, though several of its sources    *)
(* name it (:354).                                                         *)
TypeOK ==
  /\ current \in 1..(Len(Sources) + 1)
  /\ \E n \in 0..Len(Items(current)) : todo = SubSeq(Items(current), n + 1, Len(Items(current)))
  /\ attempt \in 0..(Retries - 1)
  /\ sans \in [read : BOOLEAN, names : SUBSET Names]
  /\ targets \in Seq(Ips)
  /\ seen \subseteq Names
  /\ pending \in Seq([name : Names, via : Via])
  /\ out \in Seq([name : Names, source : Kinds, via : Via, run : Nat])
  /\ \A i, j \in DOMAIN out : out[i].name = out[j].name /\ out[i].run = out[j].run => i = j
  /\ broken \subseteq DOMAIN Sources

Init ==
  /\ current = 1
  /\ todo = Items(1)
  /\ attempt = 0
  /\ sans = Unread
  /\ targets = <<>>
  /\ seen = SeenAtFirst(1)
  /\ pending = <<>>
  /\ out = <<>>
  /\ broken = {}

-----------------------------------------------------------------------------
(* A source goes on when the orchestrator wants more.                      *)
Asks(kinds) == ~Done /\ pending = <<>> /\ todo # <<>> /\ Kind \in kinds

First(names, limit) == SubSeq(names, 1, IF Len(names) <= limit THEN Len(names) ELSE limit)

(* if ... d not in domains: domains.append(d)                              *)
Distinct(names) ==
  LET f[k \in 0..Len(names)] ==
        IF k = 0 THEN <<>>
        ELSE AppendIf(names[k] \notin ToSet(f[k - 1]), f[k - 1], names[k])
  IN  f[Len(names)]

Plain(names) == [i \in DOMAIN names |-> [name |-> names[i], via |-> NoVia]]

(* The first of todo is dealt with and has these names to yield.           *)
Finish(names) ==
  /\ pending' = Plain(names)
  /\ todo' = Tail(todo)
  /\ attempt' = 0
  /\ sans' = Unread
  /\ UNCHANGED <<current, targets, seen, out, broken>>

(* _san_names(seed)                                                        *)
ReadCertificate(names) ==
  /\ Asks({"reverse_infra"})
  /\ ~sans.read
  /\ sans' = [read |-> TRUE, names |-> names]
  /\ UNCHANGED <<current, todo, attempt, targets, seen, pending, out, broken>>

Queries == Asks({"ct_log", "reverse_infra"}) /\ (Kind = "ct_log" \/ sans.read)

(* What a source makes of the names crt.sh has; the siblings are sorted.   *)
Candidates(names) ==
  IF Kind = "ct_log" THEN names ELSE SetToSeq(sans.names \union ToSet(names))

(* A query that fails is repeated a few times, ...                         *)
QueryAgain ==
  /\ Queries
  /\ attempt < Retries - 1
  /\ attempt' = attempt + 1
  /\ UNCHANGED <<current, todo, sans, targets, seen, pending, out, broken>>

(* ... and given up in the end: return []                                  *)
QueryGivenUp ==
  /\ Queries
  /\ attempt = Retries - 1
  /\ Finish(Candidates(<<>>))

(* What _query takes from an answer: names that hold the keyword, each     *)
(* once, and so many of them.                                              *)
Taken(names) ==
  First(Distinct(Kept(names, Holding[Head(todo)])), CrtLimit)

QueryAnswered(names) == Queries /\ Finish(Candidates(Taken(names)))

(* enr.enrich(d): an address is looked up unless its ASN is known to be    *)
(* that of a front; the ASN service may be silent.                         *)
Resolve(ip, asnKnown) ==
  /\ Asks({"reverse_ip"})
  /\ Head(todo) \in Tenants[ip]
  /\ targets' = IF asnKnown /\ ip \in FrontIps THEN targets ELSE Append(targets, ip)
  /\ todo' = Tail(todo)
  /\ UNCHANGED <<current, attempt, sans, seen, pending, out, broken>>

ResolvesToNothing == Asks({"reverse_ip"}) /\ Finish(<<>>)

(* A provider that is asked for no more names than a private host has.     *)
CohostedCapped(ip) == First(SetToSeq(Tenants[ip]), SharedHost)

(* _lookup_ip(ip), when it is answered.                                    *)
Cohosted(ip) == First(SetToSeq(Tenants[ip]), IpLimit)

LooksUp == ~Done /\ pending = <<>> /\ todo = <<>> /\ targets # <<>>

(* An address with too many names is passed over as a shared host.         *)
Lookup(answered) ==
  /\ LooksUp
  /\ LET ip == Head(targets)
         names == IF answered THEN Cohosted(ip) ELSE <<>>
     IN  pending' = IF Len(names) > SharedHost THEN <<>>
                    ELSE [i \in DOMAIN names |-> [name |-> names[i], via |-> ByIp(ip)]]
  /\ targets' = Tail(targets)
  /\ UNCHANGED <<current, todo, attempt, sans, seen, out, broken>>

(* SeedCrawlSource: the crawl is over when the first candidate is taken.   *)
Crawl(names) == Asks({"seed_crawl"}) /\ Finish(names)

-----------------------------------------------------------------------------
Listed(name) == \E i \in DOMAIN out : out[i].name = name /\ out[i].run = Sources[current].run

Observation == [name |-> Head(pending).name, source |-> Kind, via |-> Head(pending).via,
                run |-> Sources[current].run]

(* An orchestrator that trusts its sources to tell names apart.            *)
YieldUnchecked ==
  /\ ~Done /\ pending # <<>>
  /\ pending' = Tail(pending)
  /\ seen' = seen \union {Head(pending).name}
  /\ out' = IF Head(pending).name \in seen THEN out ELSE Append(out, Observation)
  /\ UNCHANGED <<current, asking, broken>>

(* The source passes over what it has seen, the orchestrator what it has.  *)
Yield ==
  /\ ~Done /\ pending # <<>>
  /\ pending' = Tail(pending)
  /\ seen' = seen \union {Head(pending).name}
  /\ out' = IF Head(pending).name \in seen \/ Listed(Head(pending).name)
              THEN out ELSE Append(out, Observation)
  /\ UNCHANGED <<current, asking, broken>>

Begin(i) ==
  /\ current' = i
  /\ todo' = Items(i)
  /\ attempt' = 0
  /\ sans' = Unread
  /\ targets' = <<>>
  /\ seen' = SeenAtFirst(i)
  /\ pending' = <<>>
  /\ UNCHANGED out

NextSource ==
  /\ ~Done /\ pending = <<>> /\ todo = <<>> /\ targets = <<>>
  /\ Begin(current + 1)
  /\ UNCHANGED broken

(* An exception: an answer of crt.sh of another shape than a list of       *)
(* objects, a name that cannot be encoded for DNS, a malformed link.       *)
CanRaise == Queries \/ Asks({"reverse_ip", "seed_crawl"})

(* An orchestrator that lets an exception through.                         *)
RaiseThrough ==
  /\ CanRaise
  /\ broken' = broken \union {current}
  /\ Begin(Len(Sources) + 1)

(* except Exception: continue                                              *)
Raise ==
  /\ CanRaise
  /\ broken' = broken \union {current}
  /\ Begin(current + 1)

Next ==
  \/ \E names \in CertAnswers : ReadCertificate(names)
  \/ QueryAgain \/ QueryGivenUp
  \/ \E names \in CrtAnswers : QueryAnswered(names)
  \/ \E ip \in Ips, asnKnown \in BOOLEAN : Resolve(ip, asnKnown)
  \/ ResolvesToNothing
  \/ \E answered \in BOOLEAN : Lookup(answered)
  \/ \E names \in Crawls : Crawl(names)
  \/ Yield
  \/ NextSource
  \/ Raise

(* The loop goes on; every call to the network has a timeout.              *)
Spec == Init /\ [][Next]_vars /\ WF_vars(Next)

-----------------------------------------------------------------------------
(* No name is nominated for sharing the address of a shared host, nor of a *)
(* front with as many tenants that the guard at :269 let pass because the  *)
(* ASN service was silent (sources.py:281).                                *)
SharedHostsNotNominated ==
  \A i \in DOMAIN out :
    out[i].via.ip => Cardinality(Tenants[out[i].via.value]) <= SharedHost

(* One bad source never sinks discovery (sources.py:360): at whatever      *)
(* point one raises, those after it get their turn, and discovery ends     *)
(* whatever is retried.                                                    *)
OneBadSourceSinksNothing ==
  /\ \A s \in DOMAIN Sources : current < s ~> current = s
  /\ <>Done
=============================================================================
