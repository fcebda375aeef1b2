------------------------------- MODULE HashChain -------------------------------
(***************************************************************************)
(* The data of aegis/services/evidence/ledger.py: audit records and the    *)
(* hashes that chain them.  SHA-256 is taken to be free of collisions, so  *)
(* a hash is the term it was computed from: the list of the (seq, content) *)
(* pairs from the genesis constant up to the hashed record.                *)
(***************************************************************************)
EXTENDS Naturals, Sequences

CONSTANT Contents      \* what record() stores: kind, subject, payload, timestamp

ASSUME ContentsAssumption == Contents # {}

Genesis == <<>>                          \* sha256("AEGIS-GENESIS")
Hash == Seq(Nat \X Contents)

Record == [seq : Nat, content : Contents, prev : Hash, hash : Hash]

(* A hash that forgets the payload.                                        *)
HeaderDigest(prev, seq, content) ==
  Append(prev, <<seq, CHOOSE c \in Contents : TRUE>>)

(* EvidenceLedger._hash: every field but the hash itself is committed to.  *)
Digest(prev, seq, content) == Append(prev, <<seq, content>>)

(* The record that extends the chain that ends in prev.                    *)
NewRecord(prev, seq, content) ==
  [seq |-> seq, content |-> content, prev |-> prev,
   hash |-> Digest(prev, seq, content)]

(* The hash a record at the end of recs is to be linked to.                *)
TailHash(recs) == IF recs = <<>> THEN Genesis ELSE recs[Len(recs)].hash

(* What the loop of verify() asks of the record after prev.                *)
Rehashes(rec) == rec.hash = Digest(rec.prev, rec.seq, rec.content)
Linked(rec, prev) == rec.prev = prev /\ Rehashes(rec)

(* A verify() that recomputes the hashes and forgets to compare the links. *)
HashesMatch(recs) == \A i \in 1..Len(recs) : Rehashes(recs[i])

(* The answer of verify() on a list nobody is touching.                    *)
Intact(recs) ==
  \A i \in 1..Len(recs) :
    Linked(recs[i], IF i = 1 THEN Genesis ELSE recs[i-1].hash)
=============================================================================
