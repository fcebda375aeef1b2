------------------------------ MODULE AtomicLedger ------------------------------
(***************************************************************************)
(* What the evidence service promises (ledger.py:1-8): a list that only    *)
(* grows, one properly linked record at a time.                            *)
(***************************************************************************)
EXTENDS HashChain

VARIABLE chain

Init == chain = <<>>

Extend(c) == chain' = Append(chain, NewRecord(TailHash(chain), Len(chain), c))

Next == \E c \in Contents : Extend(c)

Spec == Init /\ [][Next]_chain
=============================================================================
