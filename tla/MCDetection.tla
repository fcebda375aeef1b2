------------------------------ MODULE MCDetection ------------------------------
(* Bounds for Detection: see README.md, "Runs".                             *)
EXTENDS Detection, TLC

CONSTANTS u1, u2, u3, e1, ref1, ref2

MCUrls == {u1, u2, u3}
MCReferences == <<ref1, ref2>>
MCKnown == [u \in MCUrls |-> CASE u = u1 -> [ref |-> ref1, score |-> 96]
                               [] u = u2 -> [ref |-> ref2, score |-> 70]
                               [] OTHER -> [ref |-> ref1, score |-> 69]]

(* Every set of signals, with words of either reference or none.           *)
MCPages == [signals : SUBSET Signals, terms : {{}, {ref1}, {ref2}}]

MCRuns ==
  {[backend |-> "stub", threshold |-> 70, urls |-> <<u1, u2, u3, u1>>]} \union
  [backend : {"heuristic"}, threshold : {50, 70}, urls : {<<u1, u1>>}] \union
  {[backend |-> "headless", threshold |-> 50, urls |-> <<u1, u2, u1, u3>>]}
=============================================================================
