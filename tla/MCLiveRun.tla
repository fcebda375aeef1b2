------------------------------- MODULE MCLiveRun -------------------------------
(* Bounds for LiveRun: see README.md, "Runs".                               *)
EXTENDS LiveRun, TLC

CONSTANTS h1, h2, p1, cert1, asO, asV, asC, ipO, ipV, ipC, netO, netV, netC

MCIps == {ipO, ipV, ipC}
MCAsnOf == [ip \in MCIps |->
  CASE ip = ipO -> asO [] ip = ipV -> asV [] OTHER -> asC]
MCClassOf == [a \in {asO, asV, asC} |->
  CASE a = asO -> "other" [] a = asV -> "vps" [] OTHER -> "cdn"]
MCSlash24 == [ip \in MCIps |->
  CASE ip = ipO -> netO [] ip = ipV -> netV [] OTHER -> netC]

Plain(hs) == [host : hs, spelling : {"plain"}]
PlainTwo == Plain({h1, h2})
OneCased == Plain({h1, h2}) \union [host : {h2}, spelling : {"cased"}]
SomeNames == OneCased \union [host : {h1}, spelling : {"unencodable"}]
Spelled == OneCased \union [host : {h2}, spelling : {"ported"}]
Player == [host : {p1}, spelling : {"plain", "unencodable"}]
NoNames == {}

DemoSeed == [cert |-> cert1, origin |-> ipO, front |-> ipC,
             names |-> <<[host |-> h1, spelling |-> "plain"], [host |-> h2, spelling |-> "plain"]>>]

(* Answers with up to two addresses.                                        *)
Lists(ips) == {<<>>} \union {<<a>> : a \in ips} \union
              ({<<a, b>> : a \in ips, b \in ips} \ {<<a, a>> : a \in ips})
(* Every kind of network first, second or alone; the ASN service silent.   *)
SomeLists == {<<>>, <<ipO>>, <<ipC>>, <<ipO, ipV>>, <<ipV, ipO>>, <<ipO, ipC>>, <<ipC, ipO>>}
MixedAnswers == [ips : SomeLists, cert : {NoCert, cert1}, known : {TRUE}] \union
                [ips : {<<ipO>>, <<ipC>>}, cert : {NoCert}, known : {FALSE}]
CertlessAnswers == [ips : Lists(MCIps), cert : {NoCert}, known : {TRUE}]
===============================================================================
