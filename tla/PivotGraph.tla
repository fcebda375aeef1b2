------------------------------- MODULE PivotGraph -------------------------------
(***************************************************************************)
(* What an inferred operator is (aegis/services/attribution/graph.py): the *)
(* assets that strong pivot links tie together, directly or through other  *)
(* assets.  adj[a] is graph._pivot_adj[a].                                 *)
(***************************************************************************)

Symmetric(nodes, adj) == \A a, b \in nodes : b \in adj[a] => a \in adj[b]

Closed(S, adj) == \A a \in S : adj[a] \subseteq S

(* The least closed set of assets that contains a.                         *)
OperatorOf(a, nodes, adj) ==
  {b \in nodes : \A S \in SUBSET nodes : a \in S /\ Closed(S, adj) => b \in S}
=============================================================================
