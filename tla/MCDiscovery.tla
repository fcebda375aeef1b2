------------------------------ MODULE MCDiscovery ------------------------------
(* Bounds for Discovery: see README.md, "Runs".                             *)
EXTENDS Discovery, TLC

CONSTANTS n1, n2, n3, n4, k1, k2, ip1, ip2, ipF

MCNames == {n1, n2, n3, n4}
MCIps == {ip1, ip2, ipF}
MCFrontIps == {ipF}
(* ip1 is a private host of n1, ip2 a shared one, ipF a front with many.    *)
MCTenants == [ip \in MCIps |-> CASE ip = ip1 -> {n1, n2} [] ip = ip2 -> {n1, n2, n3}
                                 [] OTHER -> {n1, n3, n4}]
MCHolding == [k \in MCNames \union {k1, k2} |->
  CASE k = k1 -> {n1, n2, n3} [] k = k2 -> {n2, n3, n4} [] OTHER -> {k, n3}]
MCCrtAnswers == {<<>>, <<n3>>, <<n2, n2, n1>>, <<n4, n3, n2>>}
MCCertAnswers == {{}, {n1, n2}}

MCCrawls == {<<>>, <<n2, n4>>}

(* The two orchestrators of run_live, the second with a crawl as well.      *)
CtSource == [kind |-> "ct_log", items |-> <<k1, k2>>, run |-> 1]
InfraSource == [kind |-> "reverse_infra", items |-> <<n1>>, run |-> 2]
IpSource == [kind |-> "reverse_ip", items |-> <<n1>>, run |-> 2]
CrawlSource == [kind |-> "seed_crawl", items |-> <<n1>>, run |-> 2]
AllSources == <<CtSource, InfraSource, IpSource, CrawlSource>>
=============================================================================
