-------------------------- MODULE EvidenceLedgerProofs --------------------------
(***************************************************************************)
(* What holds of the evidence ledger for any number of writers, verifiers  *)
(* and records.                                                            *)
(***************************************************************************)
EXTENDS EvidenceLedger, SequenceTheorems, TLAPS

(* A new record is a record, and its hash is the digest of its body.       *)
LEMMA NewRecordFacts ==
  ASSUME NEW p \in Hash, NEW n \in Nat, NEW c \in Contents
  PROVE  LET rec == NewRecord(p, n, c)
         IN  /\ rec \in Record
             /\ rec.seq = n /\ rec.content = c /\ rec.prev = p
             /\ rec.hash = Append(p, <<n, c>>)
             /\ Rehashes(rec)
<1>1. <<n, c>> \in Nat \X Contents
  OBVIOUS
<1>2. Append(p, <<n, c>>) \in Hash
  BY <1>1, AppendProperties DEF Hash
<1>3. QED
  BY <1>2 DEF NewRecord, Digest, Record, Rehashes

(* The hash at the end of a list of records is a hash.                     *)
LEMMA TailHashType ==
  ASSUME NEW recs \in Seq(Record)
  PROVE  TailHash(recs) \in Hash
<1>1. Genesis \in Hash
  BY EmptySeq DEF Genesis, Hash
<1>2. ASSUME recs # <<>>
      PROVE  recs[Len(recs)] \in Record
  BY <1>2, EmptySeq, ElementOfSeq
<1>3. QED
  BY <1>1, <1>2 DEF TailHash, Record

(* Every state is well typed.                                              *)
THEOREM TypeCorrect == Spec => []TypeOK
<1>1. Init => TypeOK
  <2> SUFFICES ASSUME Init PROVE TypeOK
    OBVIOUS
  <2>1. Genesis \in Hash
    BY EmptySeq DEF Genesis, Hash
  <2>2. (CHOOSE c \in Contents : TRUE) \in Contents
    BY ContentsAssumption
  <2>3. records \in Seq(Record) /\ written \in Seq(Record)
    BY EmptySeq DEF Init
  <2>4. QED
    BY <2>1, <2>2, <2>3 DEF Init, TypeOK, Walk
<1>2. TypeOK /\ [Next]_vars => TypeOK'
  <2> SUFFICES ASSUME TypeOK, [Next]_vars PROVE TypeOK'
    OBVIOUS
  <2> USE DEF TypeOK
  <2>1. ASSUME NEW w \in Writers, NEW c \in Contents, Call(w, c) PROVE TypeOK'
    BY <2>1 DEF Call
  <2>2. ASSUME NEW w \in Writers, ReadTail(w) PROVE TypeOK'
    BY <2>2, TailHashType DEF ReadTail
  <2>3. ASSUME NEW w \in Writers, ReadLength(w) PROVE TypeOK'
    BY <2>3, LenProperties DEF ReadLength
  <2>4. ASSUME NEW w \in Writers, AppendRecord(w) PROVE TypeOK'
    <3>1. NewRecord(prev[w], seq[w], item[w]) \in Record
      BY NewRecordFacts
    <3>2. records' \in Seq(Record) /\ written' \in Seq(Record)
      BY <2>4, <3>1, AppendProperties DEF AppendRecord
    <3>3. QED
      BY <2>4, <3>2 DEF AppendRecord
  <2>5. ASSUME NEW v \in Verifiers, StartVerify(v) PROVE TypeOK'
    <3>1. Genesis \in Hash
      BY EmptySeq DEF Genesis, Hash
    <3>2. QED
      BY <2>5, <3>1 DEF StartVerify, callVars, Walk
  <2>6. ASSUME NEW v \in Verifiers, CheckRecord(v) PROVE TypeOK'
    <3> DEFINE rec == records[walk[v].pos + 1]
    <3>1. walk[v] \in Walk
      OBVIOUS
    <3>2. walk[v].pos + 1 \in 1..Len(records)
      BY <2>6, <3>1, LenProperties DEF CheckRecord, Walk
    <3>3. rec \in Record
      BY <3>2, ElementOfSeq
    <3>4. rec.hash \in Hash
      BY <3>3 DEF Record
    <3>5. Advance(walk[v], rec) \in Walk
      <4> HIDE DEF rec, TypeOK
      <4>1. [pos |-> walk[v].pos + 1, prev |-> rec.hash, answer |-> "walking"] \in Walk
        BY <3>1, <3>4 DEF Walk
      <4>2. [walk[v] EXCEPT !.answer = "broken"] \in Walk
        BY <3>1 DEF Walk
      <4>3. QED
        BY <4>1, <4>2 DEF Advance
    <3>6. walk' \in [Verifiers -> Walk]
      BY <2>6, <3>5 DEF CheckRecord
    <3>7. QED
      BY <2>6, <3>6 DEF CheckRecord, callVars
  <2>7. ASSUME NEW v \in Verifiers, FinishVerify(v) PROVE TypeOK'
    BY <2>7 DEF FinishVerify, callVars, Walk
  <2>8. ASSUME NEW i \in 1..Len(records), NEW c \in Contents, EditExported(i, c)
        PROVE  TypeOK'
    <3>1. records[i] \in Record
      BY ElementOfSeq
    <3>2. [records[i] EXCEPT !.content = c] \in Record
      BY <3>1 DEF Record
    <3>3. records' = [records EXCEPT ![i] = [records[i] EXCEPT !.content = c]]
      BY <2>8 DEF EditExported
    <3>4. records' \in Seq(Record)
      BY <3>2, <3>3, ExceptSeq
    <3>5. QED
      BY <2>8, <3>4 DEF EditExported, callVars
  <2>9. ASSUME UNCHANGED vars PROVE TypeOK'
    BY <2>9 DEF vars, callVars
  <2>10. QED
    BY <2>1, <2>2, <2>3, <2>4, <2>5, <2>6, <2>7, <2>8, <2>9 DEF Next
<1>3. QED
  BY <1>1, <1>2, PTL DEF Spec

-----------------------------------------------------------------------------
(* Positions of the chain carry hashes.                                    *)
LEMMA HashAtType ==
  ASSUME TypeOK, NEW k \in 0..Len(written)
  PROVE  HashAt(k) \in Hash
<1>1. Genesis \in Hash
  BY EmptySeq DEF Genesis, Hash
<1>2. CASE k = 0
  BY <1>1, <1>2 DEF HashAt
<1>3. CASE k # 0
  <2>1. Len(written) \in Nat
    BY LenProperties DEF TypeOK
  <2>2. written[k] \in Record
    BY <1>3, <2>1, ElementOfSeq DEF TypeOK
  <2>3. QED
    BY <1>3, <2>2 DEF HashAt, Record
<1>4. QED
  BY <1>2, <1>3

(* What an append leaves of the chain of n records, and what it adds.      *)
LEMMA Extended ==
  ASSUME TypeOK, NEW rec \in Record, written' = Append(written, rec),
         NEW n, n = Len(written)
  PROVE  /\ n \in Nat
         /\ Len(written') = n + 1
         /\ \A i \in 1..n : written'[i] = written[i]
         /\ written'[n + 1] = rec
         /\ \A k \in 0..n : HashAt(k)' = HashAt(k)
         /\ HashAt(n + 1)' = rec.hash
<1>1. n \in Nat
  BY LenProperties DEF TypeOK
<1>2. /\ Len(written') = n + 1
      /\ \A i \in 1..n : written'[i] = written[i]
      /\ written'[n + 1] = rec
  BY AppendProperties DEF TypeOK
<1>3. \A k \in 0..n : HashAt(k)' = HashAt(k)
  BY <1>1, <1>2 DEF HashAt
<1>4. HashAt(n + 1)' = rec.hash
  BY <1>1, <1>2 DEF HashAt
<1>5. QED
  BY <1>1, <1>2, <1>3, <1>4

(* A step that leaves the chain and the reads of the writers alone.        *)
LEMMA Frame ==
  ASSUME LedgerInv, UNCHANGED <<written, pc, prev, seq>>
  PROVE  ReadsAreOld' /\ DepthIsPosition'
  BY DEF LedgerInv, ReadsAreOld, DepthIsPosition, LinkedUpTo, HashAt

(* record() appends: the new record is old enough, and as deep as it is    *)
(* far, if everything before it is linked.                                 *)
LEMMA AppendKeepsLedgerInv ==
  ASSUME TypeOK, LedgerInv, NEW w \in Writers, AppendRecord(w)
  PROVE  LedgerInv'
<1> DEFINE rec == NewRecord(prev[w], seq[w], item[w])
<1>0. PICK n : n = Len(written)
  OBVIOUS
<1>1. /\ rec \in Record
      /\ rec.seq = seq[w] /\ rec.content = item[w] /\ rec.prev = prev[w]
      /\ rec.hash = Append(prev[w], <<seq[w], item[w]>>)
      /\ Rehashes(rec)
  BY NewRecordFacts DEF TypeOK
<1>2. records' = Append(records, rec) /\ written' = Append(written, rec)
  BY DEF AppendRecord
<1> HIDE DEF rec
<1>3. /\ n \in Nat
      /\ Len(written') = n + 1
      /\ \A i \in 1..n : written'[i] = written[i]
      /\ written'[n + 1] = rec
      /\ \A k \in 0..n : HashAt(k)' = HashAt(k)
      /\ HashAt(n + 1)' = rec.hash
  BY <1>0, <1>1, <1>2, Extended
<1>4. PICK k \in 0..n : prev[w] = HashAt(k) /\ seq[w] \in k..n
  BY <1>0 DEF AppendRecord, LedgerInv, ReadsAreOld
<1>5. SameSpine'
  <2>1. Len(records) = n
    BY <1>0 DEF LedgerInv, SameSpine
  <2>2. /\ Len(records') = n + 1
        /\ \A i \in 1..n : records'[i] = records[i]
        /\ records'[n + 1] = rec
    BY <1>1, <1>2, <2>1, AppendProperties DEF TypeOK
  <2>3. QED
    BY <1>0, <1>1, <1>3, <2>1, <2>2 DEF LedgerInv, SameSpine
<1>6. ReadsAreOld'
  <2>1. ASSUME NEW x \in Writers, pc'[x] \in {"length", "append"}
        PROVE  \E j \in 0..(n + 1) : /\ prev'[x] = HashAt(j)'
                                     /\ pc'[x] = "append" => seq'[x] \in j..(n + 1)
    <3>1. x # w /\ pc'[x] = pc[x] /\ prev'[x] = prev[x] /\ seq'[x] = seq[x]
      BY <2>1 DEF AppendRecord, TypeOK
    <3>2. PICK j \in 0..n : /\ prev[x] = HashAt(j)
                            /\ pc[x] = "append" => seq[x] \in j..n
      BY <1>0, <2>1, <3>1 DEF LedgerInv, ReadsAreOld
    <3>3. QED
      BY <1>3, <3>1, <3>2
  <2>2. ASSUME NEW i \in 1..(n + 1)
        PROVE  \E j \in 0..(i - 1) : /\ written'[i].prev = HashAt(j)'
                                     /\ written'[i].seq \in j..(i - 1)
    <3>1. CASE i = n + 1
      BY <1>1, <1>3, <1>4, <3>1
    <3>2. CASE i # n + 1
      <4>1. i \in 1..n
        BY <1>3, <3>2
      <4>2. PICK j \in 0..(i - 1) : written[i].prev = HashAt(j)
                                   /\ written[i].seq \in j..(i - 1)
        BY <1>0, <4>1 DEF LedgerInv, ReadsAreOld
      <4>3. QED
        BY <1>3, <4>1, <4>2
    <3>3. QED
      BY <3>1, <3>2
  <2>3. QED
    BY <1>3, <2>1, <2>2 DEF ReadsAreOld
<1>7. DepthIsPosition'
  <2> SUFFICES ASSUME NEW m \in 1..(n + 1), LinkedUpTo(m)'
               PROVE  Len(HashAt(m)') = m
    BY <1>3 DEF DepthIsPosition
  <2>1. ASSUME NEW j \in 1..n, j <= m PROVE Len(HashAt(j)) = j
    <3>1. \A i \in 1..j : written[i].prev = HashAt(i - 1)
      <4> SUFFICES ASSUME NEW i \in 1..j PROVE written[i].prev = HashAt(i - 1)
        OBVIOUS
      <4>1. i \in 1..m /\ i \in 1..n /\ i - 1 \in 0..n
        BY <1>3, <2>1
      <4>2. written'[i].prev = HashAt(i - 1)'
        BY <4>1 DEF LinkedUpTo
      <4>3. QED
        BY <1>3, <4>1, <4>2
    <3>2. QED
      BY <1>0, <3>1 DEF LedgerInv, DepthIsPosition, LinkedUpTo
  <2>2. CASE m # n + 1
    BY <1>3, <2>1, <2>2
  <2>3. CASE m = n + 1
    <3>1. rec.prev = HashAt(n)
      <4>1. m \in 1..m /\ m - 1 = n /\ n \in 0..n
        BY <1>3, <2>3
      <4>2. written'[m].prev = HashAt(m - 1)'
        BY <4>1 DEF LinkedUpTo
      <4>3. QED
        BY <1>3, <2>3, <4>1, <4>2
    <3>2. Len(HashAt(n)) = n
      <4>1. CASE n = 0
        BY <4>1, EmptySeq DEF HashAt, Genesis
      <4>2. CASE n # 0
        BY <1>3, <2>1, <2>3, <4>2
      <4>3. QED
        BY <4>1, <4>2
    <3>3. Len(rec.hash) = Len(rec.prev) + 1
      <4>1. prev[w] \in Seq(Nat \X Contents) /\ <<seq[w], item[w]>> \in Nat \X Contents
        BY DEF TypeOK, Hash
      <4>2. QED
        BY <1>1, <4>1, AppendProperties
    <3>4. QED
      BY <1>3, <2>3, <3>1, <3>2, <3>3
  <2>4. QED
    BY <2>2, <2>3
<1>8. QED
  BY <1>5, <1>6, <1>7 DEF LedgerInv

(* The inductive invariant holds in every state.                           *)
THEOREM LedgerInvariant == Spec => [](TypeOK /\ LedgerInv)
<1>1. Init => LedgerInv
  <2> SUFFICES ASSUME Init PROVE LedgerInv
    OBVIOUS
  <2>1. Len(records) = 0 /\ Len(written) = 0
    BY EmptySeq DEF Init
  <2>2. QED
    BY <2>1 DEF Init, LedgerInv, SameSpine, ReadsAreOld, DepthIsPosition
<1>2. TypeOK /\ LedgerInv /\ [Next]_vars => LedgerInv'
  <2> SUFFICES ASSUME TypeOK, LedgerInv, [Next]_vars PROVE LedgerInv'
    OBVIOUS
  <2>0. ASSUME UNCHANGED <<records, written>> PROVE SameSpine'
    BY <2>0 DEF LedgerInv, SameSpine
  <2>1. ASSUME NEW w \in Writers, NEW c \in Contents, Call(w, c) PROVE LedgerInv'
    <3>1. \A x \in Writers : pc'[x] \in {"length", "append"} => pc'[x] = pc[x]
      BY <2>1 DEF Call, TypeOK
    <3>2. UNCHANGED <<records, written, prev, seq>>
      BY <2>1 DEF Call
    <3>3. ReadsAreOld'
      BY <3>1, <3>2 DEF LedgerInv, ReadsAreOld, HashAt
    <3>4. DepthIsPosition'
      BY <3>2 DEF LedgerInv, DepthIsPosition, LinkedUpTo, HashAt
    <3>5. QED
      BY <2>0, <3>2, <3>3, <3>4 DEF LedgerInv
  <2>2. ASSUME NEW w \in Writers, ReadTail(w) PROVE LedgerInv'
    <3>1. UNCHANGED <<records, written, seq>>
      BY <2>2 DEF ReadTail
    <3>2. Len(written) \in Nat /\ Len(records) = Len(written)
      BY LenProperties DEF TypeOK, LedgerInv, SameSpine
    <3>3. prev'[w] = HashAt(Len(written)) /\ pc'[w] = "length"
      <4>1. TailHash(records) = HashAt(Len(written))
        BY <3>2, EmptySeq DEF TypeOK, TailHash, HashAt, LedgerInv, SameSpine
      <4>2. QED
        BY <2>2, <4>1 DEF ReadTail, TypeOK
    <3>4. \A x \in Writers : x # w => pc'[x] = pc[x] /\ prev'[x] = prev[x]
      BY <2>2 DEF ReadTail, TypeOK
    <3>5. ReadsAreOld'
      BY <3>1, <3>2, <3>3, <3>4 DEF LedgerInv, ReadsAreOld, HashAt
    <3>6. DepthIsPosition'
      BY <3>1 DEF LedgerInv, DepthIsPosition, LinkedUpTo, HashAt
    <3>7. QED
      BY <2>0, <3>1, <3>5, <3>6 DEF LedgerInv
  <2>3. ASSUME NEW w \in Writers, ReadLength(w) PROVE LedgerInv'
    <3>1. UNCHANGED <<records, written, prev>>
      BY <2>3 DEF ReadLength
    <3>2. Len(written) \in Nat /\ Len(records) = Len(written)
      BY LenProperties DEF TypeOK, LedgerInv, SameSpine
    <3>3. pc[w] = "length" /\ pc'[w] = "append" /\ seq'[w] = Len(written)
      BY <2>3, <3>2 DEF ReadLength, TypeOK
    <3>4. \A x \in Writers : x # w => pc'[x] = pc[x] /\ seq'[x] = seq[x]
      BY <2>3 DEF ReadLength, TypeOK
    <3>5. \A k \in 0..Len(written) : HashAt(k)' = HashAt(k)
      BY <3>1 DEF HashAt
    <3>6. ASSUME NEW x \in Writers, pc'[x] \in {"length", "append"}
          PROVE  \E k \in 0..Len(written) :
                    /\ prev'[x] = HashAt(k)
                    /\ pc'[x] = "append" => seq'[x] \in k..Len(written)
      <4>1. PICK k \in 0..Len(written) :
                    /\ prev[x] = HashAt(k)
                    /\ pc[x] = "append" => seq[x] \in k..Len(written)
        BY <3>3, <3>4, <3>6 DEF LedgerInv, ReadsAreOld
      <4>2. QED
        BY <3>1, <3>2, <3>3, <3>4, <4>1
    <3>7. ReadsAreOld'
      BY <3>1, <3>5, <3>6 DEF LedgerInv, ReadsAreOld, HashAt
    <3>8. DepthIsPosition'
      BY <3>1 DEF LedgerInv, DepthIsPosition, LinkedUpTo, HashAt
    <3>9. QED
      BY <2>0, <3>1, <3>7, <3>8 DEF LedgerInv
  <2>4. ASSUME NEW w \in Writers, AppendRecord(w) PROVE LedgerInv'
    BY <2>4, AppendKeepsLedgerInv
  <2>5. ASSUME NEW v \in Verifiers, StartVerify(v) \/ CheckRecord(v) \/ FinishVerify(v)
        PROVE  LedgerInv'
    <3>1. UNCHANGED <<records, written, pc, prev, seq>>
      BY <2>5 DEF StartVerify, CheckRecord, FinishVerify, callVars
    <3>2. QED
      BY <2>0, <3>1, Frame DEF LedgerInv
  <2>6. ASSUME NEW i \in 1..Len(records), NEW c \in Contents, EditExported(i, c)
        PROVE  LedgerInv'
    <3>1. UNCHANGED <<written, pc, prev, seq>>
      BY <2>6 DEF EditExported, callVars
    <3>2. SameSpine'
      <4> DEFINE rec == [records[i] EXCEPT !.content = c]
      <4>1. records[i] \in Record
        BY ElementOfSeq DEF TypeOK
      <4>2. /\ rec \in Record /\ rec.seq = records[i].seq
            /\ rec.prev = records[i].prev /\ rec.hash = records[i].hash
        BY <4>1 DEF Record
      <4>3. records' = [records EXCEPT ![i] = rec]
        BY <2>6 DEF EditExported
      <4> HIDE DEF rec
      <4>4. /\ Len(records') = Len(records)
            /\ \A j \in 1..Len(records) :
                 records'[j] = IF j = i THEN rec ELSE records[j]
        BY <4>2, <4>3, ExceptSeq DEF TypeOK
      <4>5. QED
        BY <3>1, <4>2, <4>4 DEF LedgerInv, SameSpine
    <3>3. QED
      BY <3>1, <3>2, Frame DEF LedgerInv
  <2>7. ASSUME UNCHANGED vars PROVE LedgerInv'
    BY <2>7, <2>0, Frame DEF vars, callVars, LedgerInv
  <2>8. QED
    BY <2>1, <2>2, <2>3, <2>4, <2>5, <2>6, <2>7 DEF Next
<1>3. QED
  BY <1>1, <1>2, TypeCorrect, PTL DEF Spec

(* Tampering is detected, whatever the writers do at the same time: a      *)
(* ledger that verifies is exactly what record() appended (ledger.py:7).   *)
THEOREM TamperEvident == Spec => []EditsDetected
<1>1. TypeOK /\ LedgerInv => EditsDetected
  <2> SUFFICES ASSUME TypeOK, LedgerInv, Intact(records) PROVE records = written
    BY DEF EditsDetected
  <2>1. Len(records) = Len(written) /\ Len(records) \in Nat
    BY LenProperties DEF TypeOK, LedgerInv, SameSpine
  <2>2. ASSUME NEW i \in 1..Len(records) PROVE records[i] = written[i]
    <3>1. records[i] \in Record /\ written[i] \in Record
      BY <2>1, ElementOfSeq DEF TypeOK
    <3>2. Rehashes(records[i]) /\ Rehashes(written[i])
      BY <2>1 DEF Intact, Linked, LedgerInv, SameSpine
    <3>3. /\ records[i].seq = written[i].seq
          /\ records[i].prev = written[i].prev
          /\ records[i].hash = written[i].hash
      BY <2>1 DEF LedgerInv, SameSpine
    <3>4. records[i].content = written[i].content
      <4> DEFINE p == written[i].prev
                 a == <<records[i].seq, records[i].content>>
                 b == <<written[i].seq, written[i].content>>
      <4>1. p \in Seq(Nat \X Contents) /\ a \in Nat \X Contents /\ b \in Nat \X Contents
        BY <3>1 DEF Record, Hash
      <4>2. Append(p, a) = Append(p, b)
        BY <3>2, <3>3 DEF Rehashes, Digest
      <4> HIDE DEF p, a, b
      <4>3. a = b
        BY <4>1, <4>2, AppendInjective
      <4>4. QED
        BY <4>3 DEF a, b
    <3>5. QED
      BY <3>1, <3>3, <3>4 DEF Record
  <2>3. QED
    BY <2>1, <2>2, SeqEqual DEF TypeOK
<1>2. QED
  BY <1>1, LedgerInvariant, PTL

(* A chain that verifies is numbered 0, 1, 2, ...: a record whose seq was  *)
(* read after another record slipped in is linked to the wrong one too.    *)
THEOREM IntactIsSerial == Spec => []IntactImpliesSerial
<1>1. TypeOK /\ LedgerInv => IntactImpliesSerial
  <2> SUFFICES ASSUME TypeOK, LedgerInv, Intact(records),
                      NEW i \in 1..Len(records)
               PROVE  records[i].seq = i - 1
    BY DEF IntactImpliesSerial
  <2>1. Len(records) = Len(written) /\ Len(written) \in Nat
    BY LenProperties DEF TypeOK, LedgerInv, SameSpine
  <2>2. LinkedUpTo(Len(written))
    <3> SUFFICES ASSUME NEW j \in 1..Len(written)
                 PROVE  written[j].prev = HashAt(j - 1)
      BY DEF LinkedUpTo
    <3>1. records[j].prev = IF j = 1 THEN Genesis ELSE records[j-1].hash
      BY <2>1 DEF Intact, Linked
    <3>2. CASE j = 1
      BY <3>1, <3>2 DEF HashAt, LedgerInv, SameSpine
    <3>3. CASE j # 1
      <4>1. j - 1 \in 1..Len(written) /\ j - 1 # 0
        BY <2>1, <3>3
      <4>2. QED
        BY <3>1, <3>3, <4>1 DEF HashAt, LedgerInv, SameSpine
    <3>4. QED
      BY <3>2, <3>3
  <2>3. \A n \in 0..Len(written) : Len(HashAt(n)) = n
    <3>1. Len(HashAt(0)) = 0
      BY EmptySeq DEF HashAt, Genesis
    <3>2. ASSUME NEW n \in 1..Len(written) PROVE Len(HashAt(n)) = n
      BY <2>1, <2>2 DEF LinkedUpTo, LedgerInv, DepthIsPosition
    <3>3. QED
      BY <2>1, <3>1, <3>2
  <2>4. PICK k \in 0..(i - 1) : written[i].prev = HashAt(k) /\ written[i].seq \in k..(i - 1)
    BY <2>1 DEF LedgerInv, ReadsAreOld
  <2>5. HashAt(k) = HashAt(i - 1)
    BY <2>1, <2>2, <2>4 DEF LinkedUpTo
  <2>6. k = i - 1
    BY <2>1, <2>3, <2>5
  <2>7. QED
    BY <2>1, <2>4, <2>6 DEF LedgerInv, SameSpine
<1>2. QED
  BY <1>1, LedgerInvariant, PTL

-----------------------------------------------------------------------------
(* One thread in record() at a time.                                       *)

(* What a lone writer has read is still so when it appends.                *)
ReadsAreFresh ==
  \A w \in Writers :
    /\ pc[w] \in {"length", "append"} => prev[w] = HashAt(Len(written))
    /\ pc[w] = "append" => seq[w] = Len(written)

SerialInv == ReadsAreFresh /\ Intact(written)

(* An empty ledger is serial.                                              *)
LEMMA SerialInit == Init => SerialInv
<1> SUFFICES ASSUME Init PROVE SerialInv
  OBVIOUS
<1>1. Len(written) = 0
  BY EmptySeq DEF Init
<1>2. QED
  BY <1>1 DEF Init, SerialInv, ReadsAreFresh, Intact

(* With one writer nothing is appended between the reads of record() and   *)
(* its append (ledger.py:51-61).                                           *)
LEMMA SerialStep ==
  ASSUME NEW me, Writers = {me}, TypeOK, LedgerInv, SerialInv, [Next]_vars
  PROVE  SerialInv'
<1>0. Len(written) \in Nat /\ Len(records) = Len(written)
  BY LenProperties DEF TypeOK, LedgerInv, SameSpine
<1>1. ASSUME NEW c \in Contents, Call(me, c) PROVE SerialInv'
  <2>1. pc'[me] = "tail" /\ written' = written
    BY <1>1 DEF Call, TypeOK
  <2>2. QED
    BY <2>1 DEF SerialInv, ReadsAreFresh, Intact
<1>2. ASSUME ReadTail(me) PROVE SerialInv'
  <2>1. written' = written /\ pc'[me] = "length" /\ prev'[me] = TailHash(records)
    BY <1>2 DEF ReadTail, TypeOK
  <2>2. TailHash(records) = HashAt(Len(written))
    BY <1>0, EmptySeq DEF TypeOK, TailHash, HashAt, LedgerInv, SameSpine
  <2>3. QED
    BY <2>1, <2>2 DEF SerialInv, ReadsAreFresh, Intact, HashAt
<1>3. ASSUME ReadLength(me) PROVE SerialInv'
  <2>1. /\ written' = written /\ prev' = prev /\ pc[me] = "length"
        /\ seq'[me] = Len(written)
    BY <1>0, <1>3 DEF ReadLength, TypeOK
  <2>2. QED
    BY <2>1 DEF SerialInv, ReadsAreFresh, Intact, HashAt
<1>4. ASSUME AppendRecord(me) PROVE SerialInv'
  <2> DEFINE rec == NewRecord(prev[me], seq[me], item[me])
  <2>1. PICK n : n = Len(written)
    OBVIOUS
  <2>2. rec \in Record /\ rec.prev = prev[me] /\ Rehashes(rec)
    BY NewRecordFacts DEF TypeOK
  <2>3. written' = Append(written, rec) /\ pc'[me] = "idle"
    BY <1>4 DEF AppendRecord, TypeOK
  <2> HIDE DEF rec
  <2>4. /\ n \in Nat
        /\ Len(written') = n + 1
        /\ \A i \in 1..n : written'[i] = written[i]
        /\ written'[n + 1] = rec
    BY <2>1, <2>2, <2>3, Extended
  <2>5. rec.prev = HashAt(n)
    BY <1>4, <2>1, <2>2 DEF AppendRecord, SerialInv, ReadsAreFresh
  <2>6. ASSUME NEW i \in 1..(n + 1)
        PROVE  Linked(written'[i], IF i = 1 THEN Genesis ELSE written'[i-1].hash)
    <3>1. CASE i = n + 1
      BY <2>2, <2>4, <2>5, <3>1 DEF Linked, HashAt
    <3>2. CASE i # n + 1
      <4>1. i \in 1..n /\ (i # 1 => i - 1 \in 1..n)
        BY <2>4, <3>2
      <4>2. Linked(written[i], IF i = 1 THEN Genesis ELSE written[i-1].hash)
        BY <2>1, <4>1 DEF SerialInv, Intact
      <4>3. QED
        BY <2>4, <4>1, <4>2
    <3>3. QED
      BY <3>1, <3>2
  <2>7. QED
    BY <2>3, <2>4, <2>6 DEF SerialInv, ReadsAreFresh, Intact
<1>5. ASSUME UNCHANGED <<written, pc, prev, seq>> PROVE SerialInv'
  BY <1>5 DEF SerialInv, ReadsAreFresh, Intact, HashAt
<1>6. QED
  BY <1>1, <1>2, <1>3, <1>4, <1>5
  DEF Next, StartVerify, CheckRecord, FinishVerify, EditExported, vars, callVars

(* With one thread at a time, a history nobody edited always verifies.     *)
THEOREM OneWriterVerifies ==
  ASSUME NEW me, Writers = {me}
  PROVE  Spec => []UneditedChainVerifies
<1>1. SerialInv => UneditedChainVerifies
  BY DEF SerialInv, UneditedChainVerifies
<1>2. TypeOK /\ LedgerInv /\ SerialInv /\ [Next]_vars => SerialInv'
  BY SerialStep
<1>3. QED
  BY <1>1, <1>2, SerialInit, LedgerInvariant, PTL DEF Spec

(* With one thread at a time, record() implements the atomic ledger: the   *)
(* append is its one visible step.                                         *)
THEOREM OneWriterImplementsAtomic ==
  ASSUME NEW me, Writers = {me}
  PROVE  Spec => ImplementsAtomic
<1>1. Init => Atomic!Init
  BY DEF Init, Atomic!Init
<1>2. TypeOK /\ LedgerInv /\ SerialInv /\ [Next]_vars => [Atomic!Next]_written
  <2> SUFFICES ASSUME TypeOK, LedgerInv, SerialInv, [Next]_vars
               PROVE  Atomic!Next \/ UNCHANGED written
    OBVIOUS
  <2>1. ASSUME NEW w \in Writers, AppendRecord(w) PROVE Atomic!Next
    <3>1. /\ Len(written) \in Nat /\ prev[w] = HashAt(Len(written))
          /\ seq[w] = Len(written) /\ item[w] \in Contents
      BY <2>1, LenProperties DEF AppendRecord, SerialInv, ReadsAreFresh, TypeOK
    <3>2. HashAt(Len(written)) = TailHash(written)
      BY <3>1, EmptySeq DEF HashAt, TailHash, TypeOK
    <3>3. Atomic!Extend(item[w])
      BY <2>1, <3>1, <3>2
      DEF AppendRecord, NewRecord, Digest, TailHash, Genesis, Atomic!Extend,
          Atomic!NewRecord, Atomic!Digest, Atomic!TailHash, Atomic!Genesis
    <3>4. QED
      BY <3>1, <3>3 DEF Atomic!Next
  <2>2. QED
    BY <2>1 DEF Next, Call, ReadTail, ReadLength, StartVerify, CheckRecord,
                FinishVerify, EditExported, vars
<1>3. TypeOK /\ LedgerInv /\ SerialInv /\ [Next]_vars => SerialInv'
  BY SerialStep
<1>4. QED
  BY <1>1, <1>2, <1>3, SerialInit, LedgerInvariant, PTL
  DEF Spec, ImplementsAtomic, Atomic!Spec

-----------------------------------------------------------------------------
(* The hash that verify() compares the link of the i-th record with.       *)
Before(i) == IF i = 1 THEN Genesis ELSE records[i - 1].hash

(* A walk has found everything up to its position linked and carries the   *)
(* hash of its position; a walk that failed has found a broken link.       *)
Walked(v) ==
  /\ walk[v].answer \in {"walking", "intact"} =>
       /\ walk[v].pos <= Len(records)
       /\ \A i \in 1..walk[v].pos : Linked(records[i], Before(i))
  /\ walk[v].answer = "walking" => walk[v].prev = Before(walk[v].pos + 1)
  /\ walk[v].answer = "broken" => ~Intact(records)

WalkInv == ~edited => \A v \in Verifiers : Walked(v)

(* Records that are appended change no walk (ledger.py:61).                *)
LEMMA AppendKeepsWalks ==
  ASSUME TypeOK, WalkInv, NEW rec \in Record, records' = Append(records, rec),
         UNCHANGED <<walk, edited>>
  PROVE  WalkInv'
<1> SUFFICES ASSUME ~edited, NEW v \in Verifiers PROVE Walked(v)'
  BY DEF WalkInv
<1>1. Len(records) \in Nat /\ walk[v].pos \in Nat
  BY LenProperties DEF TypeOK, Walk
<1>2. Len(records') = Len(records) + 1 /\ \A i \in 1..Len(records) : records'[i] = records[i]
  BY AppendProperties DEF TypeOK
<1>3. \A i \in 1..(Len(records) + 1) : Before(i)' = Before(i)
  BY <1>1, <1>2 DEF Before
<1>4. Walked(v)
  BY DEF WalkInv
<1>5. ~Intact(records) => ~Intact(records')
  BY <1>1, <1>2 DEF Intact, Linked
<1> QED
  BY <1>1, <1>2, <1>3, <1>4, <1>5 DEF Walked

(* One turn of verify() on the records as they are now (ledger.py:67-72).  *)
LEMMA CheckKeepsWalks ==
  ASSUME TypeOK, WalkInv, NEW v \in Verifiers, CheckRecord(v)
  PROVE  WalkInv'
<1> SUFFICES ASSUME ~edited, NEW u \in Verifiers PROVE Walked(u)'
  BY DEF WalkInv, CheckRecord
<1>1. UNCHANGED records /\ Walked(u)
  BY DEF CheckRecord, WalkInv
<1>2. CASE u # v
  BY <1>1, <1>2 DEF CheckRecord, TypeOK, Walked, Before
<1>3. CASE u = v
  <2> DEFINE n == walk[v].pos + 1
             rec == records[n]
  <2>1. /\ walk[v] \in Walk /\ walk[v].pos \in Nat /\ Len(records) \in Nat
        /\ n \in 1..Len(records) /\ walk[v].prev = Before(n)
    BY <1>1, <1>3, LenProperties DEF CheckRecord, TypeOK, Walk, Walked
  <2>2. walk'[v] = Advance(walk[v], rec)
    BY DEF CheckRecord, TypeOK
  <2>3. \A i \in 1..walk[v].pos : Linked(records[i], Before(i))
    BY <1>1, <1>3 DEF CheckRecord, Walked
  <2>4. CASE Linked(rec, walk[v].prev)
    <3>1. walk'[v] = [pos |-> n, prev |-> rec.hash, answer |-> "walking"]
      BY <2>2, <2>4 DEF Advance
    <3>2. \A i \in 1..n : Linked(records[i], Before(i))
      BY <2>1, <2>3, <2>4
    <3>3. Before(n + 1) = rec.hash
      <4>1. n + 1 # 1 /\ (n + 1) - 1 = n
        BY <2>1
      <4> HIDE DEF n
      <4> QED
        BY <4>1 DEF Before
    <3>4. \A i : Before(i)' = Before(i)
      BY <1>1 DEF Before
    <3> QED
      BY <1>1, <1>3, <2>1, <3>1, <3>2, <3>3, <3>4 DEF Walked
  <2>5. CASE ~Linked(rec, walk[v].prev)
    <3>1. walk'[v].answer = "broken"
      BY <2>1, <2>2, <2>5 DEF Advance, Walk
    <3>2. ~Intact(records)
      BY <2>1, <2>5 DEF Intact, Before
    <3> QED
      BY <1>1, <1>3, <3>1, <3>2 DEF Walked
  <2> QED
    BY <2>4, <2>5
<1> QED
  BY <1>2, <1>3

(* Every step keeps the walks sound.                                       *)
LEMMA WalkStep ==
  ASSUME TypeOK, WalkInv, [Next]_vars
  PROVE  WalkInv'
<1>1. ASSUME UNCHANGED <<records, walk, edited>> PROVE WalkInv'
  BY <1>1 DEF WalkInv, Walked, Before
<1>2. ASSUME NEW w \in Writers, AppendRecord(w) PROVE WalkInv'
  <2>1. NewRecord(prev[w], seq[w], item[w]) \in Record
    BY NewRecordFacts DEF TypeOK
  <2> QED
    BY <1>2, <2>1, AppendKeepsWalks DEF AppendRecord
<1>3. ASSUME NEW w \in Writers, (\E c \in Contents : Call(w, c)) \/ ReadTail(w) \/ ReadLength(w)
      PROVE  WalkInv'
  BY <1>1, <1>3 DEF Call, ReadTail, ReadLength
<1>4. ASSUME NEW v \in Verifiers, StartVerify(v) PROVE WalkInv'
  <2> SUFFICES ASSUME ~edited, NEW u \in Verifiers PROVE Walked(u)'
    BY <1>4 DEF WalkInv, StartVerify
  <2>1. UNCHANGED records /\ Walked(u) /\ Len(records) \in Nat
    BY <1>4, LenProperties DEF StartVerify, WalkInv, TypeOK
  <2>2. CASE u # v
    BY <1>4, <2>1, <2>2 DEF StartVerify, TypeOK, Walked, Before
  <2>3. CASE u = v
    <3>1. walk'[u] = [pos |-> 0, prev |-> Genesis, answer |-> "walking"]
      BY <1>4, <2>3 DEF StartVerify, TypeOK
    <3> QED
      BY <2>1, <3>1 DEF Walked, Before
  <2> QED
    BY <2>2, <2>3
<1>5. ASSUME NEW v \in Verifiers, CheckRecord(v) PROVE WalkInv'
  BY <1>5, CheckKeepsWalks
<1>6. ASSUME NEW v \in Verifiers, FinishVerify(v) PROVE WalkInv'
  <2> SUFFICES ASSUME ~edited, NEW u \in Verifiers PROVE Walked(u)'
    BY <1>6 DEF WalkInv, FinishVerify
  <2>1. UNCHANGED records /\ Walked(u)
    BY <1>6 DEF FinishVerify, WalkInv
  <2>2. CASE u # v
    BY <1>6, <2>1, <2>2 DEF FinishVerify, TypeOK, Walked, Before
  <2>3. CASE u = v
    <3>1. /\ walk[u].answer = "walking" /\ walk'[u].answer = "intact"
          /\ walk'[u].pos = walk[u].pos
      BY <1>6, <2>3 DEF FinishVerify, TypeOK, Walk
    <3> QED
      BY <2>1, <3>1 DEF Walked, Before
  <2> QED
    BY <2>2, <2>3
<1>7. ASSUME NEW i \in 1..Len(records), NEW c \in Contents, EditExported(i, c) PROVE WalkInv'
  BY <1>7 DEF EditExported, WalkInv
<1>8. CASE UNCHANGED vars
  BY <1>1, <1>8 DEF vars
<1> QED
  BY <1>2, <1>3, <1>4, <1>5, <1>6, <1>7, <1>8 DEF Next

(* As long as nobody edits an export, verify() answers as an atomic walk   *)
(* over the records it has seen would, whatever races with it              *)
(* (ledger.py:64-73).                                                      *)
THEOREM VerdictsSound == Spec => []VerdictSound
<1>1. Init => WalkInv
  BY DEF Init, WalkInv, Walked
<1>2. TypeOK /\ WalkInv /\ [Next]_vars => WalkInv'
  BY WalkStep
<1>3. TypeOK /\ WalkInv => VerdictSound
  <2> SUFFICES ASSUME TypeOK, WalkInv, ~edited, NEW v \in Verifiers
               PROVE  /\ walk[v].answer = "intact" => Intact(SubSeq(records, 1, walk[v].pos))
                      /\ walk[v].answer = "broken" => ~Intact(records)
    BY DEF VerdictSound
  <2>1. Walked(v)
    BY DEF WalkInv
  <2>2. ASSUME walk[v].answer = "intact" PROVE Intact(SubSeq(records, 1, walk[v].pos))
    <3> DEFINE n == walk[v].pos
               s == SubSeq(records, 1, n)
    <3>1. n \in Nat /\ Len(records) \in Nat /\ n <= Len(records)
      BY <2>1, <2>2, LenProperties DEF TypeOK, Walk, Walked
    <3>2. Len(s) = n /\ \A i \in 1..n : s[i] = records[i]
      BY <3>1 DEF TypeOK
    <3>3. \A i \in 1..n : Linked(records[i], Before(i))
      BY <2>1, <2>2 DEF Walked
    <3> HIDE DEF s
    <3> QED
      BY <3>1, <3>2, <3>3 DEF Intact, Before
  <2> QED
    BY <2>1, <2>2 DEF Walked
<1> QED
  BY <1>1, <1>2, <1>3, TypeCorrect, PTL DEF Spec
================================================================================
