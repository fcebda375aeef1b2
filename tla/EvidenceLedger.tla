----------------------------- MODULE EvidenceLedger -----------------------------
(***************************************************************************)
(* aegis/services/evidence/ledger.py as the API server runs it: every      *)
(* request has a thread of its own and all threads share one ledger that   *)
(* no lock protects.  record() reads the tail hash, then the length, and   *)
(* appends last; verify() walks the live list one record at a time;        *)
(* export() hands out the live dictionaries of the records.                *)
(***************************************************************************)
EXTENDS HashChain

CONSTANTS Writers,      \* threads inside record()
          Verifiers,    \* threads inside verify()
          MaxRecords    \* bound of the model: calls of record() that start

VARIABLES records,      \* EvidenceLedger._records
          written,      \* history: the records as record() appended them
          edited,       \* history: has an exported record ever been changed?
          pc,           \* pc[w]: where in record() writer w is
          item,         \* item[w]: the content w was called with
          prev,         \* prev[w]: the local prev of record()
          seq,          \* seq[w]: the seq of the record being built
          walk          \* walk[v]: position, prev and answer of verify()

callVars == <<pc, item, prev, seq>>
vars == <<records, written, edited, callVars, walk>>

Walk == [pos : Nat, prev : Hash, answer : {"none", "walking", "intact", "broken"}]

(* Types of the ledger and of the locals of record() and verify(): a seq   *)
(* is a position of the list, never below 0 (ledger.py:53).                *)
TypeOK ==
  /\ records \in Seq(Record)
  /\ written \in Seq(Record)
  /\ edited \in BOOLEAN
  /\ pc \in [Writers -> {"idle", "tail", "length", "append"}]
  /\ item \in [Writers -> Contents]
  /\ prev \in [Writers -> Hash]
  /\ seq \in [Writers -> Nat]
  /\ walk \in [Verifiers -> Walk]

Init ==
  /\ records = <<>>
  /\ written = <<>>
  /\ edited = FALSE
  /\ pc = [w \in Writers |-> "idle"]
  /\ item \in [Writers -> {CHOOSE c \in Contents : TRUE}]
  /\ prev = [w \in Writers |-> Genesis]
  /\ seq = [w \in Writers |-> 0]
  /\ walk = [v \in Verifiers |-> [pos |-> 0, prev |-> Genesis, answer |-> "none"]]

-----------------------------------------------------------------------------
(* record(kind, subject, payload)                                          *)

Call(w, c) ==
  /\ pc[w] = "idle"
  /\ Len(records) < MaxRecords
  /\ pc' = [pc EXCEPT ![w] = "tail"]
  /\ item' = [item EXCEPT ![w] = c]
  /\ UNCHANGED <<records, written, edited, prev, seq, walk>>

(* A record() that links every record to the genesis hash.                 *)
ReadGenesis(w) ==
  /\ pc[w] = "tail"
  /\ prev' = [prev EXCEPT ![w] = Genesis]
  /\ pc' = [pc EXCEPT ![w] = "length"]
  /\ UNCHANGED <<records, written, edited, item, seq, walk>>

(* prev = self._records[-1].hash if self._records else self._genesis       *)
ReadTail(w) ==
  /\ pc[w] = "tail"
  /\ prev' = [prev EXCEPT ![w] = TailHash(records)]
  /\ pc' = [pc EXCEPT ![w] = "length"]
  /\ UNCHANGED <<records, written, edited, item, seq, walk>>

(* seq taken from the index of the tail record, -1 on an empty ledger.     *)
ReadTailIndex(w) ==
  /\ pc[w] = "length"
  /\ seq' = [seq EXCEPT ![w] = Len(records) - 1]
  /\ pc' = [pc EXCEPT ![w] = "append"]
  /\ UNCHANGED <<records, written, edited, item, prev, walk>>

(* seq=len(self._records)                                                  *)
ReadLength(w) ==
  /\ pc[w] = "length"
  /\ seq' = [seq EXCEPT ![w] = Len(records)]
  /\ pc' = [pc EXCEPT ![w] = "append"]
  /\ UNCHANGED <<records, written, edited, item, prev, walk>>

(* rec.hash = self._hash(rec); self._records.append(rec)                   *)
AppendRecord(w) ==
  /\ pc[w] = "append"
  /\ LET rec == NewRecord(prev[w], seq[w], item[w])
     IN  /\ records' = Append(records, rec)
         /\ written' = Append(written, rec)
  /\ pc' = [pc EXCEPT ![w] = "idle"]
  /\ UNCHANGED <<edited, item, prev, seq, walk>>

-----------------------------------------------------------------------------
(* verify()                                                                *)

StartVerify(v) ==
  /\ walk[v].answer # "walking"
  /\ walk' = [walk EXCEPT ![v] = [pos |-> 0, prev |-> Genesis, answer |-> "walking"]]
  /\ UNCHANGED <<records, written, edited, callVars>>

(* A loop body that leaves prev at the genesis hash.                       *)
AdvanceUnlinked(wk, rec) ==
  IF Linked(rec, wk.prev)
    THEN [wk EXCEPT !.pos = wk.pos + 1]
    ELSE [wk EXCEPT !.answer = "broken"]

(* The loop body: compare link and hash, move on or return False.          *)
Advance(wk, rec) ==
  IF Linked(rec, wk.prev)
    THEN [pos |-> wk.pos + 1, prev |-> rec.hash, answer |-> "walking"]
    ELSE [wk EXCEPT !.answer = "broken"]

(* One turn of the loop; the list may have grown since the last one.       *)
CheckRecord(v) ==
  /\ walk[v].answer = "walking"
  /\ walk[v].pos < Len(records)
  /\ walk' = [walk EXCEPT ![v] = Advance(walk[v], records[walk[v].pos + 1])]
  /\ UNCHANGED <<records, written, edited, callVars>>

FinishVerify(v) ==
  /\ walk[v].answer = "walking"
  /\ walk[v].pos = Len(records)
  /\ walk' = [walk EXCEPT ![v].answer = "intact"]
  /\ UNCHANGED <<records, written, edited, callVars>>

-----------------------------------------------------------------------------
(* The holder of an export() changes the content of a record, in the live  *)
(* dictionary; the stored hash stays as it is.                             *)
EditExported(i, c) ==
  /\ records' = [records EXCEPT ![i].content = c]
  /\ edited' = TRUE
  /\ UNCHANGED <<written, callVars, walk>>

Next ==
  \/ \E w \in Writers : \/ \E c \in Contents : Call(w, c)
                        \/ ReadTail(w)
                        \/ ReadLength(w)
                        \/ AppendRecord(w)
  \/ \E v \in Verifiers : StartVerify(v) \/ CheckRecord(v) \/ FinishVerify(v)
  \/ \E i \in 1..Len(records), c \in Contents : EditExported(i, c)

Spec == Init /\ [][Next]_vars

-----------------------------------------------------------------------------
(* Why the properties hold.  HashAt(k) is the hash of the k-th record, and *)
(* a chain that is linked up to n has a hash of n terms there.             *)
HashAt(k) == IF k = 0 THEN Genesis ELSE written[k].hash

LinkedUpTo(n) == \A i \in 1..n : written[i].prev = HashAt(i - 1)

(* An edit reaches no more than the content of a record.                   *)
SameSpine ==
  /\ Len(records) = Len(written)
  /\ \A i \in 1..Len(written) :
       /\ records[i].seq = written[i].seq
       /\ records[i].prev = written[i].prev
       /\ records[i].hash = written[i].hash
       /\ Rehashes(written[i])

(* The tail a record is linked to was the tail at some earlier moment, and *)
(* its seq was read no earlier than that.                                  *)
ReadsAreOld ==
  /\ \A w \in Writers : pc[w] \in {"length", "append"} =>
       \E k \in 0..Len(written) :
         /\ prev[w] = HashAt(k)
         /\ pc[w] = "append" => seq[w] \in k..Len(written)
  /\ \A i \in 1..Len(written) :
       \E k \in 0..(i - 1) :
         written[i].prev = HashAt(k) /\ written[i].seq \in k..(i - 1)

DepthIsPosition ==
  \A n \in 1..Len(written) : LinkedUpTo(n) => Len(HashAt(n)) = n

(* The inductive invariant: every record of the ledger, whatever the       *)
(* threads did, is linked to a record before it, carries a seq between the *)
(* two, and commits to the content it was written with (ledger.py:50-62).  *)
LedgerInv == SameSpine /\ ReadsAreOld /\ DepthIsPosition

-----------------------------------------------------------------------------
(* Tampering is detectable (ledger.py:7): whoever calls record() when, a   *)
(* ledger whose content differs from what was written fails verify().      *)
EditsDetected == records # written => ~Intact(records)

(* An audit chain that verifies is a serial history: its records carry the *)
(* sequence numbers 0, 1, 2, ... in order, even though record() reads the  *)
(* tail hash and the length at different moments (ledger.py:51 and :53).   *)
IntactImpliesSerial ==
  Intact(records) => \A i \in 1..Len(records) : records[i].seq = i - 1

(* verify() iterates over the live list: the answer it gives after racing  *)
(* with record() is the answer an atomic walk would have given on the      *)
(* records it had seen, as long as nobody edits an export.                 *)
VerdictSound ==
  ~edited => \A v \in Verifiers :
    /\ walk[v].answer = "intact" => Intact(SubSeq(records, 1, walk[v].pos))
    /\ walk[v].answer = "broken" => ~Intact(records)

(* A history nobody touched passes verify(): the ledger raises no alarm by *)
(* itself.  record() gives this to one writer, not to two.                 *)
UneditedChainVerifies == records = written => Intact(records)

(* The same as the API tells it: GET /evidence/verify answers "intact":    *)
(* false only after tampering (ledger.py:65, api/main.py:9).               *)
NoFalseAlarm == \A v \in Verifiers : walk[v].answer = "broken" => edited

(* One thread at a time implements the atomic ledger: each record() is one *)
(* step that links a new record to the last.                               *)
Atomic == INSTANCE AtomicLedger WITH chain <- written
ImplementsAtomic == Atomic!Spec
=============================================================================
