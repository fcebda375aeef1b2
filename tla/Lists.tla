---------------------------------- MODULE Lists ----------------------------------
(***************************************************************************)
(* The loops over lists that the components share: one that appends what   *)
(* passes a test, and the comprehension that keeps some elements of a list *)
(* in their order, as a recursive function, so that ListLemmas can prove   *)
(* what it computes.                                                       *)
(***************************************************************************)
EXTENDS Naturals, Sequences

AppendIf(test, list, x) == IF test THEN Append(list, x) ELSE list

(* [x for x in list if x in S]                                             *)
Kept(list, S) ==
  LET f[k \in 0..Len(list)] ==
        IF k = 0 THEN <<>> ELSE AppendIf(list[k] \in S, f[k - 1], list[k])
  IN  f[Len(list)]
=============================================================================
