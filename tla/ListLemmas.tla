------------------------------- MODULE ListLemmas -------------------------------
(***************************************************************************)
(* Induction and recursion over the numbers, over lists and over finite    *)
(* sets, without a parameter that is an operator: a property is the set of *)
(* what has it, a step of a recursion is a function.  And what the loops   *)
(* of Lists compute.                                                       *)
(***************************************************************************)
EXTENDS Lists, SequencesExt, Integers, FiniteSetTheorems, SequenceTheorems, WellFoundedInduction, TLAPS

(* A set that has 0 and with each number the next has them all.            *)
LEMMA Induction ==
  ASSUME NEW T, 0 \in T, \A k \in Nat : k \in T => k + 1 \in T
  PROVE  Nat \subseteq T
<1> SUFFICES ASSUME Nat \ T # {} PROVE FALSE
  OBVIOUS
<1>1. PICK x \in Nat \ T : \A y \in Nat \ T : ~(<<y, x>> \in OpToRel(<, Nat))
  BY WFMin, NatLessThanWellFounded
<1>2. x # 0 /\ x - 1 \in Nat
  OBVIOUS
<1>3. <<x - 1, x>> \in OpToRel(<, Nat)
  BY <1>2 DEF OpToRel
<1>4. x - 1 \in T
  BY <1>1, <1>2, <1>3
<1> QED
  BY <1>2, <1>4

(* The same up to some number.                                             *)
LEMMA BoundedInduction ==
  ASSUME NEW n \in Nat, NEW T, 0 \in T, \A k \in 0..(n - 1) : k \in T => k + 1 \in T
  PROVE  0..n \subseteq T
<1> DEFINE U == {k \in Nat : k <= n => k \in T}
<1>1. 0 \in U
  OBVIOUS
<1>2. \A k \in Nat : k \in U => k + 1 \in U
  OBVIOUS
<1>3. Nat \subseteq U
  <2> HIDE DEF U
  <2> QED
    BY <1>1, <1>2, Induction
<1> QED
  BY <1>3

(* The steps of a recursion and the values that it goes through.           *)
StepFunctions(n, S) == [1..n -> [S -> S]]
Iterates(f, n, base, step) == f[0] = base /\ \A k \in 1..n : f[k] = step[k][f[k - 1]]

(* A function can be defined by its first value and a step.                *)
LEMMA RecursionExists ==
  ASSUME NEW n \in Nat, NEW S, NEW base \in S, NEW step \in StepFunctions(n, S)
  PROVE  \E f \in [0..n -> S] : Iterates(f, n, base, step)
<1> DEFINE T == {m \in 0..n : \E f \in [0..m -> S] : Iterates(f, m, base, step)}
<1>1. 0 \in T
  <2> DEFINE f == [k \in 0..0 |-> base]
  <2>1. f \in [0..0 -> S] /\ Iterates(f, 0, base, step)
    BY DEF Iterates
  <2> HIDE DEF f
  <2> QED
    BY <2>1
<1>2. ASSUME NEW m \in 0..(n - 1), m \in T PROVE m + 1 \in T
  <2>1. PICK f \in [0..m -> S] : Iterates(f, m, base, step)
    BY <1>2
  <2> DEFINE g == [k \in 0..(m + 1) |-> IF k <= m THEN f[k] ELSE step[m + 1][f[m]]]
  <2>2. m \in 0..m /\ m + 1 \in 1..n /\ f[m] \in S
    OBVIOUS
  <2>3. step[m + 1][f[m]] \in S
    BY <2>2 DEF StepFunctions
  <2>4. g \in [0..(m + 1) -> S]
    BY <2>3
  <2>5. \A k \in 0..m : g[k] = f[k]
    OBVIOUS
  <2>6. g[m + 1] = step[m + 1][f[m]]
    OBVIOUS
  <2> HIDE DEF g
  <2>7. Iterates(g, m + 1, base, step)
    <3>1. g[0] = base
      BY <2>1, <2>5 DEF Iterates
    <3>2. ASSUME NEW k \in 1..(m + 1) PROVE g[k] = step[k][g[k - 1]]
      <4>1. CASE k = m + 1
        BY <2>2, <2>5, <2>6, <4>1
      <4>2. CASE k # m + 1
        <5>1. k \in 1..m /\ k \in 0..m /\ k - 1 \in 0..m
          BY <4>2
        <5> QED
          BY <2>1, <2>5, <5>1 DEF Iterates
      <4> QED
        BY <4>1, <4>2
    <3> QED
      BY <3>1, <3>2 DEF Iterates
  <2> QED
    BY <2>4, <2>7
<1>3. 0..n \subseteq T
  <2> HIDE DEF T
  <2> QED
    BY <1>1, <1>2, BoundedInduction
<1>4. n \in T
  BY <1>3
<1> QED
  BY <1>4

(* What each step keeps is so throughout.                                  *)
LEMMA RecursionKeeps ==
  ASSUME NEW n \in Nat, NEW S, NEW f, f[0] \in S, \A k \in 1..n : f[k - 1] \in S => f[k] \in S
  PROVE  \A k \in 0..n : f[k] \in S
<1> DEFINE T == {k \in 0..n : f[k] \in S}
<1>1. 0 \in T
  OBVIOUS
<1>2. \A k \in 0..(n - 1) : k \in T => k + 1 \in T
  <2> SUFFICES ASSUME NEW k \in 0..(n - 1), f[k] \in S PROVE f[k + 1] \in S
    OBVIOUS
  <2>1. k + 1 \in 1..n /\ (k + 1) - 1 = k
    OBVIOUS
  <2> QED
    BY <2>1
<1>3. 0..n \subseteq T
  <2> HIDE DEF T
  <2> QED
    BY <1>1, <1>2, BoundedInduction
<1> QED
  BY <1>3

-----------------------------------------------------------------------------
(* Kept goes through the list and takes what is in S.                      *)
KeepsIn(f, list, S) ==
  f[0] = <<>> /\ \A k \in 1..Len(list) : f[k] = AppendIf(list[k] \in S, f[k - 1], list[k])

(* The function that Kept goes by exists and unfolds.                      *)
LEMMA KeptUnfolds ==
  ASSUME NEW U, NEW list \in Seq(U), NEW S
  PROVE  \E f \in [0..Len(list) -> Seq(U \cap S)] :
           KeepsIn(f, list, S) /\ Kept(list, S) = f[Len(list)]
<1> DEFINE n == Len(list)
           Q == Seq(U \cap S)
           Add(c, k) == AppendIf(list[k] \in S, c, list[k])
           step == [k \in 1..n |-> [c \in Q |-> Add(c, k)]]
           Body(f) == [k \in 0..n |-> IF k = 0 THEN <<>> ELSE Add(f[k - 1], k)]
           g == CHOOSE f : f = Body(f)
<1>1. n \in Nat /\ \A k \in 1..n : list[k] \in U
  OBVIOUS
<1>2. <<>> \in Q
  OBVIOUS
<1>3. ASSUME NEW c \in Q, NEW k \in 1..n PROVE Add(c, k) \in Q
  BY <1>1, AppendProperties DEF AppendIf
<1>4. Kept(list, S) = g[n]
  BY DEF Kept
<1>5. ASSUME NEW f, f = Body(f)
      PROVE  KeepsIn(f, list, S)
  <2> HIDE DEF Add
  <2>1. f[0] = <<>> /\ \A k \in 1..n : f[k] = Add(f[k - 1], k)
    BY <1>1, <1>5
  <2> USE DEF Add
  <2> QED
    BY <2>1 DEF KeepsIn
<1> HIDE DEF n, Q, Add
<1>6. step \in StepFunctions(n, Q)
  BY <1>3 DEF StepFunctions
<1>7. PICK f \in [0..n -> Q] : Iterates(f, n, <<>>, step)
  <2> HIDE DEF step
  <2> QED
    BY <1>1, <1>2, <1>6, RecursionExists
<1>8. f[0] = <<>> /\ \A k \in 1..n : f[k] = Add(f[k - 1], k)
  <2>1. \A k \in 1..n : f[k - 1] \in Q
    BY <1>1
  <2> QED
    BY <1>7, <2>1 DEF Iterates
<1>9. f = Body(f)
  BY <1>1, <1>8
<1>10. g = Body(g)
  BY <1>9
<1>11. KeepsIn(g, list, S)
  BY <1>5, <1>10
<1>12. g \in [0..n -> Q]
  <2> HIDE DEF g
  <2>1. g[0] = <<>> /\ \A k \in 1..n : g[k] = Add(g[k - 1], k)
    BY <1>1, <1>10
  <2>2. \A k \in 0..n : g[k] \in Q
    BY <1>1, <1>2, <1>3, <2>1, RecursionKeeps
  <2>3. g = [k \in 0..n |-> g[k]]
    BY <1>10
  <2> QED
    BY <2>2, <2>3
<1> QED
  BY <1>4, <1>11, <1>12 DEF n, Q

-----------------------------------------------------------------------------
(* The elements of a list that something was appended to.                  *)
LEMMA ToSetAppend ==
  ASSUME NEW U, NEW list \in Seq(U), NEW x \in U
  PROVE  ToSet(Append(list, x)) = ToSet(list) \union {x}
<1>1. /\ Append(list, x) \in Seq(U) /\ Len(list) \in Nat
      /\ DOMAIN Append(list, x) = 1..(Len(list) + 1)
      /\ \A i \in 1..Len(list) : Append(list, x)[i] = list[i]
      /\ Append(list, x)[Len(list) + 1] = x
      /\ DOMAIN list = 1..Len(list)
  OBVIOUS
<1>2. ToSet(Append(list, x)) \subseteq ToSet(list) \union {x}
  BY <1>1 DEF ToSet
<1>3. ToSet(list) \subseteq ToSet(Append(list, x))
  BY <1>1 DEF ToSet
<1>4. x \in ToSet(Append(list, x))
  BY <1>1 DEF ToSet
<1> QED
  BY <1>2, <1>3, <1>4

(* The elements of two lists put together.                                 *)
LEMMA ToSetConcat ==
  ASSUME NEW U, NEW list \in Seq(U), NEW more \in Seq(U)
  PROVE  ToSet(list \o more) = ToSet(list) \union ToSet(more)
<1> DEFINE both == list \o more
<1>1. /\ Len(list) \in Nat /\ DOMAIN list = 1..Len(list)
      /\ Len(more) \in Nat /\ DOMAIN more = 1..Len(more)
      /\ both \in Seq(U) /\ DOMAIN both = 1..(Len(list) + Len(more))
      /\ \A i \in 1..Len(list) : both[i] = list[i]
      /\ \A i \in 1..Len(more) : both[Len(list) + i] = more[i]
  BY ConcatProperties
<1> HIDE DEF both
<1>2. ASSUME NEW i \in DOMAIN both
      PROVE  both[i] \in ToSet(list) \union ToSet(more)
  <2>1. CASE i <= Len(list)
    BY <1>1, <1>2, <2>1 DEF ToSet
  <2>2. CASE ~(i <= Len(list))
    <3>1. i - Len(list) \in 1..Len(more) /\ i = Len(list) + (i - Len(list))
      BY <1>1, <1>2, <2>2
    <3>2. both[i] = more[i - Len(list)]
      BY <1>1, <3>1
    <3> QED
      BY <1>1, <3>1, <3>2 DEF ToSet
  <2> QED
    BY <2>1, <2>2
<1>3. ToSet(list) \subseteq ToSet(both)
  BY <1>1 DEF ToSet
<1>4. ToSet(more) \subseteq ToSet(both)
  <2> SUFFICES ASSUME NEW i \in 1..Len(more) PROVE more[i] \in ToSet(both)
    BY <1>1 DEF ToSet
  <2>1. Len(list) + i \in DOMAIN both
    BY <1>1
  <2> QED
    BY <1>1, <2>1 DEF ToSet
<1> QED
  BY <1>2, <1>3, <1>4 DEF both, ToSet

(* An element of a list is in its set, and in any set that the list is of. *)
LEMMA ToSetOfSeq ==
  ASSUME NEW U, NEW list \in Seq(U)
  PROVE  ToSet(list) \subseteq U /\ list \in Seq(ToSet(list))
BY DEF ToSet

(* What Kept keeps: a list of the elements that are in S.                  *)
LEMMA KeptIsThose ==
  ASSUME NEW U, NEW list \in Seq(U), NEW S
  PROVE  Kept(list, S) \in Seq(U \cap S) /\ ToSet(Kept(list, S)) = ToSet(list) \cap S
<1> DEFINE n == Len(list)
<1>1. n \in Nat /\ DOMAIN list = 1..n /\ \A k \in 1..n : list[k] \in U
  OBVIOUS
<1>2. PICK f \in [0..n -> Seq(U \cap S)] : KeepsIn(f, list, S) /\ Kept(list, S) = f[n]
  BY KeptUnfolds
<1> DEFINE T == {k \in 0..n : ToSet(f[k]) = {list[i] : i \in 1..k} \cap S}
<1>3. 0 \in T
  BY <1>1, <1>2 DEF KeepsIn, ToSet
<1>4. ASSUME NEW k \in 0..(n - 1), k \in T PROVE k + 1 \in T
  <2>1. k + 1 \in 1..n /\ k + 1 \in 0..n /\ (k + 1) - 1 = k /\ k \in 0..n
    BY <1>1
  <2>2. f[k + 1] = AppendIf(list[k + 1] \in S, f[k], list[k + 1])
    BY <1>2, <2>1 DEF KeepsIn
  <2>3. f[k] \in Seq(U \cap S) /\ list[k + 1] \in U
    BY <1>1, <2>1
  <2>4. {list[i] : i \in 1..(k + 1)} = {list[i] : i \in 1..k} \union {list[k + 1]}
    BY <2>1
  <2>5. CASE list[k + 1] \in S
    <3>1. ToSet(f[k + 1]) = ToSet(f[k]) \union {list[k + 1]}
      BY <2>2, <2>3, <2>5, ToSetAppend DEF AppendIf
    <3> QED
      BY <1>4, <2>1, <2>4, <2>5, <3>1
  <2>6. CASE list[k + 1] \notin S
    BY <1>4, <2>1, <2>2, <2>4, <2>6 DEF AppendIf
  <2> QED
    BY <2>5, <2>6
<1>5. 0..n \subseteq T
  <2> HIDE DEF T
  <2> QED
    BY <1>1, <1>3, <1>4, BoundedInduction
<1>6. n \in 0..n
  BY <1>1
<1>7. ToSet(f[n]) = {list[i] : i \in 1..n} \cap S
  BY <1>5, <1>6
<1>8. ToSet(list) = {list[i] : i \in 1..n}
  BY <1>1 DEF ToSet
<1> QED
  BY <1>2, <1>6, <1>7, <1>8

(* What Kept takes from a list without repetitions has none.               *)
LEMMA KeptInjective ==
  ASSUME NEW U, NEW list \in Seq(U), NEW S, IsInjective(list)
  PROVE  IsInjective(Kept(list, S))
<1> DEFINE n == Len(list)
<1>1. /\ n \in Nat /\ DOMAIN list = 1..n /\ \A k \in 1..n : list[k] \in U
      /\ \A j, k \in 1..n : list[j] = list[k] => j = k
  BY DEF IsInjective
<1>2. PICK f \in [0..n -> Seq(U \cap S)] : KeepsIn(f, list, S) /\ Kept(list, S) = f[n]
  BY KeptUnfolds
<1> HIDE DEF n
<1> DEFINE T == {k \in 0..n : IsInjective(f[k]) /\ ToSet(f[k]) \subseteq {list[i] : i \in 1..k}}
<1>3. 0 \in T
  BY <1>1, <1>2 DEF KeepsIn, ToSet, IsInjective
<1>4. ASSUME NEW k \in 0..(n - 1), k \in T PROVE k + 1 \in T
  <2>1. k + 1 \in 1..n /\ k + 1 \in 0..n /\ (k + 1) - 1 = k /\ k \in 0..n
    BY <1>1
  <2>2. f[k + 1] = AppendIf(list[k + 1] \in S, f[k], list[k + 1])
    BY <1>2, <2>1 DEF KeepsIn, n
  <2>3. f[k] \in Seq(U \cap S)
    BY <2>1
  <2>4. \A i \in 1..k : i \in 1..(k + 1)
    BY <2>1
  <2>5. list[k + 1] \notin ToSet(f[k])
    <3>1. \A i \in 1..k : i \in 1..n /\ i # k + 1
      BY <1>1, <2>1
    <3>2. \A i \in 1..k : list[i] # list[k + 1]
      BY <1>1, <2>1, <3>1
    <3> QED
      BY <1>4, <3>2
  <2>6. CASE list[k + 1] \in S
    <3> DEFINE was == f[k]
               more == Append(was, list[k + 1])
    <3>1. f[k + 1] = more /\ list[k + 1] \in U \cap S
      BY <1>1, <2>1, <2>2, <2>6 DEF AppendIf
    <3>2. ToSet(more) = ToSet(was) \union {list[k + 1]}
      BY <2>3, <3>1, ToSetAppend
    <3>3. /\ Len(was) \in Nat /\ DOMAIN was = 1..Len(was) /\ DOMAIN more = 1..(Len(was) + 1)
          /\ \A i \in 1..Len(was) : more[i] = was[i]
          /\ more[Len(was) + 1] = list[k + 1]
      BY <2>3, <3>1
    <3> HIDE DEF more
    <3>4. \A i \in 1..Len(was) : more[i] # list[k + 1]
      BY <2>5, <3>3 DEF ToSet
    <3>5. \A i, j \in 1..Len(was) : was[i] = was[j] => i = j
      BY <1>4, <3>3 DEF IsInjective
    <3>6. \A i \in DOMAIN more : i \in 1..Len(was) \/ i = Len(was) + 1
      BY <3>3
    <3>7. IsInjective(more)
      BY <3>3, <3>4, <3>5, <3>6 DEF IsInjective
    <3>8. list[k + 1] \in {list[i] : i \in 1..(k + 1)}
      <4>1. k + 1 \in 1..(k + 1)
        BY <1>1, <2>1
      <4> QED
        BY <4>1
    <3> QED
      BY <1>4, <2>1, <2>4, <3>1, <3>2, <3>7, <3>8
  <2>7. CASE list[k + 1] \notin S
    BY <1>4, <2>1, <2>2, <2>4, <2>7 DEF AppendIf
  <2> QED
    BY <2>6, <2>7
<1>5. 0..n \subseteq T
  <2> HIDE DEF T
  <2> QED
    BY <1>1, <1>3, <1>4, BoundedInduction
<1>6. n \in T
  BY <1>1, <1>5
<1> QED
  BY <1>2, <1>6

(* Kept takes a list that grows element by element.                        *)
LEMMA KeptAppend ==
  ASSUME NEW U, NEW list \in Seq(U), NEW x \in U, NEW S
  PROVE  Kept(Append(list, x), S) = AppendIf(x \in S, Kept(list, S), x)
<1> DEFINE n == Len(list)
           more == Append(list, x)
<1>1. /\ n \in Nat /\ more \in Seq(U) /\ Len(more) = n + 1
      /\ \A k \in 1..n : more[k] = list[k]
      /\ more[n + 1] = x
  OBVIOUS
<1> HIDE DEF more, n
<1>2. PICK f \in [0..n -> Seq(U \cap S)] : KeepsIn(f, list, S) /\ Kept(list, S) = f[n]
  BY KeptUnfolds DEF n
<1>3. PICK g \in [0..(n + 1) -> Seq(U \cap S)] :
        KeepsIn(g, more, S) /\ Kept(more, S) = g[n + 1]
  <2>1. \E g \in [0..Len(more) -> Seq(U \cap S)] :
          KeepsIn(g, more, S) /\ Kept(more, S) = g[Len(more)]
    BY <1>1, KeptUnfolds
  <2> QED
    BY <1>1, <2>1
<1> DEFINE T == {k \in 0..n : g[k] = f[k]}
<1>4. 0 \in T
  BY <1>1, <1>2, <1>3 DEF KeepsIn
<1>5. ASSUME NEW k \in 0..(n - 1), k \in T PROVE k + 1 \in T
  <2>1. k + 1 \in 1..n /\ k + 1 \in 1..(n + 1) /\ k + 1 \in 0..n /\ (k + 1) - 1 = k
    BY <1>1
  <2>2. f[k + 1] = AppendIf(list[k + 1] \in S, f[k], list[k + 1])
    BY <1>2, <2>1 DEF KeepsIn, n
  <2>3. g[k + 1] = AppendIf(more[k + 1] \in S, g[k], more[k + 1])
    BY <1>1, <1>3, <2>1 DEF KeepsIn
  <2> QED
    BY <1>1, <1>5, <2>1, <2>2, <2>3
<1>6. 0..n \subseteq T
  <2> HIDE DEF T
  <2> QED
    BY <1>1, <1>4, <1>5, BoundedInduction
<1>7. g[n] = f[n]
  BY <1>1, <1>6
<1>8. g[n + 1] = AppendIf(more[n + 1] \in S, g[n], more[n + 1])
  <2>1. n + 1 \in 1..(n + 1) /\ (n + 1) - 1 = n
    BY <1>1
  <2> QED
    BY <1>1, <1>3, <2>1 DEF KeepsIn
<1> QED
  BY <1>1, <1>2, <1>3, <1>7, <1>8 DEF more

-----------------------------------------------------------------------------
(* A list has finitely many elements.                                      *)
LEMMA ToSetFinite ==
  ASSUME NEW U, NEW list \in Seq(U)
  PROVE  IsFiniteSet(ToSet(list))
<1>1. Len(list) \in Nat /\ DOMAIN list = 1..Len(list)
  OBVIOUS
<1>2. IsFiniteSet(1..Len(list))
  BY <1>1, FS_Interval
<1>3. list \in Surjection(1..Len(list), ToSet(list))
  BY <1>1 DEF Surjection, ToSet
<1> QED
  BY <1>2, <1>3, FS_Surjection

(* A finite set as a list has each of its elements once.                   *)
LEMMA SetToSeqIsIt ==
  ASSUME NEW S, IsFiniteSet(S)
  PROVE  /\ SetToSeq(S) \in Seq(S)
         /\ Len(SetToSeq(S)) = Cardinality(S) /\ Cardinality(S) \in Nat
         /\ ToSet(SetToSeq(S)) = S
         /\ IsInjective(SetToSeq(S))
<1> DEFINE n == Cardinality(S)
           f == SetToSeq(S)
<1>1. n \in Nat /\ ExistsBijection(1..n, S)
  BY FS_CardinalityType
<1>2. \E g \in [1..n -> S] : IsInjective(g)
  BY <1>1 DEF ExistsBijection, Bijection, Injection
<1>3. f \in [1..n -> S] /\ IsInjective(f)
  BY <1>2 DEF SetToSeq
<1> HIDE DEF f
<1>4. f \in Seq(S) /\ Len(f) = n
  BY <1>1, <1>3
<1>5. Cardinality(1..n) = n
  BY <1>1, FS_Interval
<1>6. f \in Surjection(1..n, S)
  <2>1. f \in Injection(1..n, S)
    BY <1>3 DEF Injection
  <2> QED
    BY <1>5, <2>1, FS_Injection
<1>7. ToSet(f) = S
  BY <1>3, <1>6 DEF Surjection, ToSet
<1> QED
  BY <1>1, <1>3, <1>4, <1>7 DEF f

(* A list without repetitions has as many elements as places.              *)
LEMMA InjectiveSize ==
  ASSUME NEW U, NEW list \in Seq(U), IsInjective(list)
  PROVE  Cardinality(ToSet(list)) = Len(list)
<1>1. Len(list) \in Nat /\ DOMAIN list = 1..Len(list)
  OBVIOUS
<1>2. IsFiniteSet(1..Len(list)) /\ Cardinality(1..Len(list)) = Len(list)
  BY <1>1, FS_Interval
<1>3. list \in Surjection(1..Len(list), ToSet(list))
  BY <1>1 DEF Surjection, ToSet
<1>4. list \in Injection(1..Len(list), ToSet(list))
  BY <1>1, <1>3 DEF Surjection, Injection, IsInjective
<1> QED
  BY <1>2, <1>3, <1>4, FS_Surjection

-----------------------------------------------------------------------------
(* Recursion over a finite set takes one element after the other from it,  *)
(* each time the one that pick names.                                      *)
Picks(pick, S) ==
  /\ pick \in [(SUBSET S) \ {{}} -> S]
  /\ \A s \in (SUBSET S) \ {{}} : pick[s] \in s

Recurs(f, some, base, step, pick) ==
  \A s \in some : f[s] = IF s = {} THEN base ELSE step[pick[s]][f[s \ {pick[s]}]]

(* What holds of no elements, and of some if of all but the one that is    *)
(* picked, holds of them all.                                              *)
LEMMA SetInduction ==
  ASSUME NEW S, IsFiniteSet(S), NEW pick, Picks(pick, S), NEW T, {} \in T,
         \A s \in (SUBSET S) \ {{}} : s \ {pick[s]} \in T => s \in T
  PROVE  SUBSET S \subseteq T
<1> DEFINE n == Cardinality(S)
           K == {k \in 0..n : \A s \in SUBSET S : Cardinality(s) = k => s \in T}
<1>1. n \in Nat
  BY FS_CardinalityType
<1>2. \A s \in SUBSET S : IsFiniteSet(s) /\ Cardinality(s) \in 0..n
  <2>1. ASSUME NEW s \in SUBSET S
        PROVE  IsFiniteSet(s) /\ Cardinality(s) <= n
    BY FS_Subset
  <2>2. ASSUME NEW s \in SUBSET S
        PROVE  Cardinality(s) \in Nat
    BY <2>1, FS_CardinalityType
  <2> QED
    BY <1>1, <2>1, <2>2
<1> HIDE DEF n
<1>3. 0 \in K
  BY <1>1, <1>2, FS_EmptySet
<1>4. ASSUME NEW k \in 0..(n - 1), k \in K PROVE k + 1 \in K
  <2>1. k + 1 \in 0..n
    BY <1>1
  <2>2. ASSUME NEW s \in SUBSET S, Cardinality(s) = k + 1 PROVE s \in T
    <3>1. s # {}
      BY <1>1, <2>2, FS_EmptySet
    <3>2. pick[s] \in s
      BY <3>1 DEF Picks
    <3>3. Cardinality(s \ {pick[s]}) = Cardinality(s) - 1
      BY <1>2, <3>2, FS_RemoveElement
    <3>4. s \ {pick[s]} \in SUBSET S /\ Cardinality(s \ {pick[s]}) = k
      BY <1>1, <2>2, <3>3
    <3> QED
      BY <1>4, <3>1, <3>4
  <2> QED
    BY <2>1, <2>2
<1>5. 0..n \subseteq K
  <2> HIDE DEF K
  <2> QED
    BY <1>1, <1>3, <1>4, BoundedInduction
<1> QED
  BY <1>2, <1>5

(* Such a recursion computes a function.                                   *)
LEMMA SetRecursionExists ==
  ASSUME NEW S, IsFiniteSet(S), NEW pick, Picks(pick, S),
         NEW Q, NEW base \in Q, NEW step \in [S -> [Q -> Q]]
  PROVE  \E f \in [SUBSET S -> Q] : Recurs(f, SUBSET S, base, step, pick)
<1> DEFINE n == Cardinality(S)
           UpTo(k) == {s \in SUBSET S : Cardinality(s) <= k}
           K == {k \in 0..n : \E f \in [SUBSET S -> Q] : Recurs(f, UpTo(k), base, step, pick)}
<1>1. n \in Nat
  BY FS_CardinalityType
<1>2. \A s \in SUBSET S : IsFiniteSet(s) /\ Cardinality(s) \in 0..n
  <2>1. ASSUME NEW s \in SUBSET S
        PROVE  IsFiniteSet(s) /\ Cardinality(s) <= n
    BY FS_Subset
  <2>2. ASSUME NEW s \in SUBSET S
        PROVE  Cardinality(s) \in Nat
    BY <2>1, FS_CardinalityType
  <2> QED
    BY <1>1, <2>1, <2>2
<1> HIDE DEF n
<1>3. 0 \in K
  <2> DEFINE f == [s \in SUBSET S |-> base]
  <2>1. \A s \in UpTo(0) : s = {}
    <3>1. ASSUME NEW s \in UpTo(0) PROVE s = {}
      <4>1. Cardinality(s) = 0 /\ IsFiniteSet(s)
        BY <1>2
      <4> QED
        BY <4>1, FS_EmptySet
    <3> QED
      BY <3>1
  <2>2. f \in [SUBSET S -> Q] /\ Recurs(f, UpTo(0), base, step, pick)
    BY <2>1 DEF Recurs
  <2> HIDE DEF f, UpTo
  <2>3. 0 \in 0..n
    BY <1>1
  <2> QED
    BY <2>2, <2>3
<1>4. ASSUME NEW k \in 0..(n - 1), k \in K PROVE k + 1 \in K
  <2>1. PICK f \in [SUBSET S -> Q] : Recurs(f, UpTo(k), base, step, pick)
    BY <1>4
  <2> DEFINE g == [s \in SUBSET S |->
                     IF s = {} THEN base ELSE step[pick[s]][f[s \ {pick[s]}]]]
  <2>2. g \in [SUBSET S -> Q]
    BY DEF Picks
  <2>3. \A s \in UpTo(k) : g[s] = f[s]
    BY <2>1 DEF Recurs
  <2>4. ASSUME NEW s \in UpTo(k + 1), s # {} PROVE s \ {pick[s]} \in UpTo(k)
    <3>1. pick[s] \in s /\ Cardinality(s) <= k + 1 /\ Cardinality(s) \in Nat
      BY <1>1, <1>2, <2>4 DEF Picks
    <3>2. Cardinality(s \ {pick[s]}) = Cardinality(s) - 1
      BY <1>2, <3>1, FS_RemoveElement
    <3> QED
      BY <1>1, <3>1, <3>2
  <2>5. \A s \in UpTo(k + 1) : g[s] = IF s = {} THEN base ELSE step[pick[s]][f[s \ {pick[s]}]]
    OBVIOUS
  <2> HIDE DEF g, UpTo
  <2>6. Recurs(g, UpTo(k + 1), base, step, pick)
    BY <2>3, <2>4, <2>5 DEF Recurs
  <2>7. k + 1 \in 0..n
    BY <1>1
  <2> QED
    BY <2>2, <2>6, <2>7
<1>5. 0..n \subseteq K
  <2> HIDE DEF K
  <2> QED
    BY <1>1, <1>3, <1>4, BoundedInduction
<1>6. n \in K
  <2>1. n \in 0..n
    BY <1>1
  <2> HIDE DEF K
  <2> QED
    BY <1>5, <2>1
<1>7. UpTo(n) = SUBSET S
  BY <1>1, <1>2
<1> QED
  BY <1>6, <1>7
=============================================================================
