------------------------- MODULE OperatorClustersProofs -------------------------
(***************************************************************************)
(* The depth-first search finds the operators of every finite pivot graph, *)
(* in the order of their oldest asset, and the labels tell them apart.     *)
(***************************************************************************)
EXTENDS OperatorClusters, ListLemmas

-----------------------------------------------------------------------------
(* A set of assets in some order is a sequence of exactly its members.     *)
LEMMA OrderFacts ==
  ASSUME NEW S \in SUBSET Assets, NEW order \in Orders(S)
  PROVE  /\ order \in Seq(Assets)
         /\ {order[k] : k \in 1..Len(order)} = S
<1>1. Cardinality(S) \in Nat
  <2>1. IsFiniteSet(Assets)
    BY FS_Interval, NumAssetsAssumption DEF Assets
  <2>2. QED
    BY <2>1, FS_Subset, FS_CardinalityType
<1>2. order \in [1..Cardinality(S) -> S]
  BY DEF Orders
<1>3. order \in Seq(S)
  BY <1>1, <1>2, SeqDef
<1>4. DOMAIN order = 1..Len(order)
  BY <1>3, LenProperties
<1>5. \A x \in S : \E k \in 1..Len(order) : order[k] = x
  BY <1>4 DEF Orders
<1>6. \A k \in 1..Len(order) : order[k] \in S
  BY <1>3, ElementOfSeq
<1>7. order \in Seq(Assets)
  BY <1>3, SeqMonotonic
<1>8. QED
  BY <1>5, <1>6, <1>7

(* What pop() takes and leaves.                                            *)
LEMMA PopFacts ==
  ASSUME stack \in Seq(Assets), stack # <<>>
  PROVE  /\ Top \in Assets /\ Top \in OnStack
         /\ Rest \in Seq(Assets)
         /\ OnStack = {Top} \union {Rest[k] : k \in 1..Len(Rest)}
         /\ OnStack \subseteq Assets
<1>1. Len(stack) \in Nat \ {0}
  BY EmptySeq
<1>2. \A k \in 1..Len(stack) : stack[k] \in Assets
  BY ElementOfSeq
<1>3. /\ Rest \in Seq(Assets)
      /\ Len(Rest) = Len(stack) - 1
      /\ \A k \in 1..(Len(stack) - 1) : Rest[k] = stack[k]
  <2> DEFINE m == Len(stack) - 1
  <2>1. m \in Nat /\ \A k \in 1..m : stack[k] \in Assets
    BY <1>1, <1>2
  <2> HIDE DEF m
  <2>2. /\ SubSeq(stack, 1, m) \in Seq(Assets)
        /\ Len(SubSeq(stack, 1, m)) = IF 1 <= m THEN m - 1 + 1 ELSE 0
        /\ \A k \in 1..(m - 1 + 1) : SubSeq(stack, 1, m)[k] = stack[1 + k - 1]
    BY <2>1, SubSeqProperties
  <2>3. m - 1 + 1 = m /\ (~(1 <= m) => m = 0) /\ \A k \in 1..m : 1 + k - 1 = k
    BY <2>1
  <2>4. QED
    BY <2>2, <2>3 DEF Rest, m
<1>4. OnStack = {Top} \union {Rest[k] : k \in 1..Len(Rest)}
  BY <1>1, <1>3 DEF OnStack, Top
<1>5. QED
  BY <1>1, <1>2, <1>3, <1>4 DEF OnStack, Top

(* What the search pushes lies on top of what was left.                    *)
LEMMA PushFacts ==
  ASSUME stack \in Seq(Assets), stack # <<>>,
         NEW order \in Seq(Assets), stack' = Rest \o order
  PROVE  /\ stack' \in Seq(Assets)
         /\ OnStack' = {Rest[k] : k \in 1..Len(Rest)}
                         \union {order[k] : k \in 1..Len(order)}
<1>1. Rest \in Seq(Assets)
  BY PopFacts
<1> DEFINE r == Rest
<1> HIDE DEF r
<1>2. Len(r) \in Nat /\ Len(order) \in Nat
  BY <1>1, LenProperties DEF r
<1>3. /\ r \o order \in Seq(Assets)
      /\ Len(r \o order) = Len(r) + Len(order)
      /\ \A k \in 1..(Len(r) + Len(order)) :
           (r \o order)[k] = IF k <= Len(r) THEN r[k] ELSE order[k - Len(r)]
  BY <1>1, ConcatProperties DEF r
<1>4. {(r \o order)[k] : k \in 1..Len(r \o order)}
        = {r[k] : k \in 1..Len(r)} \union {order[k] : k \in 1..Len(order)}
  <2> DEFINE A == {(r \o order)[k] : k \in 1..Len(r \o order)}
             B == {r[k] : k \in 1..Len(r)} \union {order[k] : k \in 1..Len(order)}
  <2>1. ASSUME NEW x \in A PROVE x \in B
    <3>1. PICK k \in 1..(Len(r) + Len(order)) : x = (r \o order)[k]
      BY <1>3, <2>1
    <3>2. CASE k <= Len(r)
      BY <1>2, <1>3, <3>1, <3>2
    <3>3. CASE ~(k <= Len(r))
      <4>1. k - Len(r) \in 1..Len(order)
        BY <1>2, <3>3
      <4>2. QED
        BY <1>3, <3>1, <3>3, <4>1
    <3>4. QED
      BY <3>2, <3>3
  <2>2. ASSUME NEW k \in 1..Len(r) PROVE r[k] \in A
    BY <1>2, <1>3
  <2>3. ASSUME NEW k \in 1..Len(order) PROVE order[k] \in A
    <3>1. Len(r) + k \in 1..(Len(r) + Len(order))
      BY <1>2
    <3>2. (r \o order)[Len(r) + k] = order[k]
      BY <1>2, <1>3, <3>1
    <3>3. QED
      BY <1>3, <3>1, <3>2
  <2>4. QED
    BY <2>1, <2>2, <2>3
<1>5. QED
  BY <1>3, <1>4 DEF OnStack, r

(* Every state is well typed; the search is inside the outer loop while it *)
(* has a component at hand.                                                *)
THEOREM TypeCorrect == Spec => [](TypeOK /\ CursorInRange)
<1>1. Init => TypeOK /\ CursorInRange
  <2>1. <<>> \in Seq(Assets) /\ <<>> \in Seq(SUBSET Assets)
    BY EmptySeq
  <2>2. QED
    BY <2>1, NumAssetsAssumption DEF Init, TypeOK, CursorInRange, BetweenComponents
<1>2. TypeOK /\ CursorInRange /\ [Next]_vars => (TypeOK /\ CursorInRange)'
  <2> SUFFICES ASSUME TypeOK, CursorInRange, [Next]_vars
               PROVE  TypeOK' /\ CursorInRange'
    OBVIOUS
  <2>0. ASSUME UNCHANGED graph
        PROVE  /\ pivotAdj' \in [Assets -> SUBSET Assets]
               /\ Symmetric(Assets, pivotAdj')
               /\ domains' \in SUBSET Assets
    BY <2>0 DEF TypeOK, graph
  <2>1. CASE SkipSeen
    <3>1. cursor + 1 \in 1..(NumAssets + 1)
      BY <2>1, NumAssetsAssumption DEF SkipSeen, TypeOK, Assets
    <3>2. QED
      BY <2>0, <2>1, <3>1 DEF SkipSeen, TypeOK, CursorInRange, BetweenComponents
  <2>2. CASE StartComponent
    <3>1. <<cursor>> \in Seq(Assets)
      BY <2>2 DEF StartComponent
    <3>2. QED
      BY <2>0, <2>2, <3>1 DEF StartComponent, TypeOK, CursorInRange
  <2>3. CASE PopSeen
    BY <2>0, <2>3, PopFacts DEF PopSeen, TypeOK, CursorInRange, BetweenComponents
  <2>4. CASE Visit
    <3>1. Top \in Assets
      BY <2>4, PopFacts DEF Visit, TypeOK
    <3>2. PICK order \in Orders(pivotAdj[Top] \ seen') : stack' = Rest \o order
      BY <2>4 DEF Visit
    <3>3. order \in Seq(Assets)
      BY <3>1, OrderFacts DEF TypeOK
    <3>4. stack' \in Seq(Assets)
      BY <2>4, <3>2, <3>3, PushFacts DEF Visit, TypeOK
    <3>5. QED
      BY <2>0, <2>4, <3>1, <3>4 DEF Visit, TypeOK, CursorInRange, BetweenComponents
  <2>5. CASE CloseComponent
    <3>1. Append(clusters, comp) \in Seq(SUBSET Assets)
      BY AppendProperties DEF TypeOK
    <3>2. cursor + 1 \in 1..(NumAssets + 1)
      BY <2>5, NumAssetsAssumption
      DEF CloseComponent, CursorInRange, BetweenComponents, Assets
    <3>3. BetweenComponents'
      BY <2>5 DEF CloseComponent, BetweenComponents
    <3>4. QED
      BY <2>0, <2>5, <3>1, <3>2, <3>3 DEF CloseComponent, TypeOK, CursorInRange
  <2>6. CASE UNCHANGED vars
    BY <2>0, <2>6 DEF vars, TypeOK, CursorInRange, BetweenComponents
  <2>7. QED
    BY <2>1, <2>2, <2>3, <2>4, <2>5, <2>6 DEF Next, Terminated
<1>3. QED
  BY <1>1, <1>2, PTL DEF Spec

-----------------------------------------------------------------------------
(* The steps of the search, one lemma each.                                *)

(* An asset that is not seen starts a component (graph.py:79).             *)
LEMMA StartKeeps ==
  ASSUME TypeOK, SearchInv, StartComponent
  PROVE  SearchInv'
<1>1. /\ stack' = <<cursor>> /\ comp = {} /\ cursor \in Assets /\ cursor \notin seen
      /\ UNCHANGED <<pivotAdj, cursor, seen, comp, clusters>>
  BY DEF StartComponent, BetweenComponents, graph
<1>2. OnStack' = {cursor}
  BY <1>1 DEF OnStack
<1>3. SeenIsPlaced' /\ Disjoint' /\ ClustersRooted' /\ OldestOperatorFirst'
  BY <1>1 DEF SearchInv, SeenIsPlaced, Disjoint, ClustersRooted, RootedAt,
              OldestOperatorFirst, Clustered
<1>4. CursorPassed'
  BY <1>1 DEF SearchInv, CursorPassed, SeenIsPlaced, Clustered
<1>5. FrontierOnStack' /\ ReachedFromCursor'
  BY <1>1, <1>2 DEF FrontierOnStack, ReachedFromCursor
<1>6. QED
  BY <1>3, <1>4, <1>5 DEF SearchInv

(* An asset that is seen is in a cluster already (graph.py:77).            *)
LEMMA SkipKeeps ==
  ASSUME TypeOK, SearchInv, SkipSeen
  PROVE  SearchInv'
<1>1. /\ stack = <<>> /\ comp = {} /\ cursor \in seen /\ cursor' = cursor + 1
      /\ UNCHANGED <<pivotAdj, stack, seen, comp, clusters>>
  BY DEF SkipSeen, BetweenComponents, graph
<1>2. OnStack' = {}
  BY <1>1, EmptySeq DEF OnStack
<1>3. cursor \in Nat /\ (\A a \in Assets : a \in Nat)
  BY NumAssetsAssumption DEF TypeOK, Assets
<1>4. SeenIsPlaced' /\ Disjoint' /\ OldestOperatorFirst'
  BY <1>1 DEF SearchInv, SeenIsPlaced, Disjoint, OldestOperatorFirst, Clustered
<1>5. Clustered(cursor)
  BY <1>1 DEF TypeOK, SearchInv, SeenIsPlaced
<1>6. CursorPassed'
  BY <1>1, <1>3, <1>5 DEF SearchInv, CursorPassed, BetweenComponents, Clustered
<1>7. ClustersRooted'
  <2> SUFFICES ASSUME NEW i \in 1..Len(clusters)
               PROVE  /\ Closed(clusters[i], pivotAdj)
                      /\ \E r \in clusters[i] : r < cursor + 1 /\ RootedAt(clusters[i], r)'
    BY <1>1 DEF ClustersRooted
  <2>1. PICK r \in clusters[i] : r < cursor /\ RootedAt(clusters[i], r)
    BY DEF SearchInv, ClustersRooted
  <2>2. r \in Assets
    BY ElementOfSeq DEF TypeOK
  <2>3. QED
    BY <1>1, <1>3, <2>1, <2>2 DEF RootedAt, SearchInv, ClustersRooted
<1>8. FrontierOnStack' /\ ReachedFromCursor'
  BY <1>1, <1>2 DEF FrontierOnStack, ReachedFromCursor
<1>9. QED
  BY <1>4, <1>6, <1>7, <1>8 DEF SearchInv

(* A node that was pushed twice is dropped (graph.py:82).                  *)
LEMMA PopKeeps ==
  ASSUME TypeOK, SearchInv, PopSeen
  PROVE  SearchInv'
<1>1. /\ stack # <<>> /\ Top \in seen /\ stack' = Rest
      /\ UNCHANGED <<pivotAdj, cursor, seen, comp, clusters>>
  BY DEF PopSeen, graph
<1>2. /\ OnStack' \subseteq OnStack
      /\ OnStack \subseteq OnStack' \union seen
  BY <1>1, PopFacts DEF TypeOK, OnStack
<1>3. SeenIsPlaced' /\ Disjoint' /\ ClustersRooted' /\ OldestOperatorFirst'
  BY <1>1 DEF SearchInv, SeenIsPlaced, Disjoint, ClustersRooted, RootedAt,
              OldestOperatorFirst, Clustered
<1>4. comp # {}
  <2> SUFFICES ASSUME comp = {} PROVE FALSE
    OBVIOUS
  <2>1. stack = <<cursor>> /\ cursor \in Assets /\ ~Clustered(cursor)
    BY <1>1 DEF SearchInv, CursorPassed, BetweenComponents
  <2>2. Top = cursor
    BY <2>1 DEF Top
  <2>3. QED
    BY <1>1, <2>1, <2>2 DEF SearchInv, SeenIsPlaced
<1>5. CursorPassed'
  BY <1>1, <1>4 DEF SearchInv, CursorPassed, BetweenComponents, Clustered
<1>6. FrontierOnStack' /\ ReachedFromCursor'
  BY <1>1, <1>2 DEF SearchInv, FrontierOnStack, ReachedFromCursor
<1>7. QED
  BY <1>3, <1>5, <1>6 DEF SearchInv

(* A visited node joins the component and its neighbours are on the stack  *)
(* (graph.py:84-86).                                                       *)
LEMMA VisitKeeps ==
  ASSUME TypeOK, SearchInv, Visit
  PROVE  SearchInv'
<1> DEFINE n == Top
<1>1. /\ stack # <<>> /\ n \notin seen
      /\ seen' = seen \union {n} /\ comp' = comp \union {n}
      /\ UNCHANGED <<pivotAdj, cursor, clusters>>
  BY DEF Visit, graph
<1>2. n \in Assets /\ n \in OnStack /\ OnStack \subseteq Assets
  BY <1>1, PopFacts DEF TypeOK
<1>3. /\ OnStack \subseteq OnStack' \union {n}
      /\ OnStack' \subseteq OnStack \union pivotAdj[n]
      /\ pivotAdj[n] \subseteq seen' \union OnStack'
  <2>1. PICK order \in Orders(pivotAdj[n] \ seen') : stack' = Rest \o order
    BY DEF Visit
  <2>2. pivotAdj[n] \ seen' \in SUBSET Assets
    BY <1>2 DEF TypeOK
  <2>3. /\ order \in Seq(Assets)
        /\ {order[k] : k \in 1..Len(order)} = pivotAdj[n] \ seen'
    BY <2>1, <2>2, OrderFacts
  <2>4. OnStack' = {Rest[k] : k \in 1..Len(Rest)} \union (pivotAdj[n] \ seen')
    BY <1>1, <2>1, <2>3, PushFacts DEF TypeOK
  <2>5. OnStack = {n} \union {Rest[k] : k \in 1..Len(Rest)}
    BY <1>1, PopFacts DEF TypeOK
  <2>6. QED
    BY <2>4, <2>5
<1> HIDE DEF n
<1>4. ~Clustered(n)
  BY <1>1, <1>2 DEF SearchInv, SeenIsPlaced
<1>5. cursor \in comp'
  <2>1. CASE comp = {}
    <3>1. stack = <<cursor>>
      BY <1>1, <2>1 DEF SearchInv, CursorPassed
    <3>2. n = cursor
      BY <3>1 DEF n, Top
    <3>3. QED
      BY <1>1, <3>2
  <2>2. CASE comp # {}
    BY <1>1, <2>2 DEF SearchInv, CursorPassed
  <2>3. QED
    BY <2>1, <2>2
<1>6. SeenIsPlaced' /\ Disjoint' /\ ClustersRooted' /\ OldestOperatorFirst'
  <2>1. SeenIsPlaced'
    BY <1>1 DEF SearchInv, SeenIsPlaced, Clustered
  <2>2. Disjoint'
    BY <1>1, <1>4 DEF SearchInv, Disjoint, Clustered
  <2>3. ClustersRooted' /\ OldestOperatorFirst'
    BY <1>1 DEF SearchInv, ClustersRooted, RootedAt, OldestOperatorFirst
  <2>4. QED
    BY <2>1, <2>2, <2>3
<1>7. CursorPassed'
  <2>1. ~BetweenComponents
    BY <1>1 DEF BetweenComponents
  <2>2. comp' # {}
    BY <1>1
  <2>3. QED
    BY <1>1, <1>5, <2>1, <2>2 DEF SearchInv, CursorPassed, Clustered
<1>8. FrontierOnStack'
  BY <1>1, <1>3 DEF SearchInv, FrontierOnStack
<1>9. ReachedFromCursor'
  <2> SUFFICES ASSUME NEW S \in SUBSET Assets, Closed(S, pivotAdj), cursor \in S
               PROVE  comp' \union OnStack' \subseteq S
    BY <1>1 DEF ReachedFromCursor
  <2>1. comp \union OnStack \subseteq S
    BY DEF SearchInv, ReachedFromCursor
  <2>2. pivotAdj[n] \subseteq S
    BY <1>2, <2>1 DEF Closed
  <2>3. QED
    BY <1>1, <1>2, <1>3, <2>1, <2>2
<1>10. QED
  BY <1>6, <1>7, <1>8, <1>9 DEF SearchInv

(* A finished component is closed: a neighbour in an older cluster would   *)
(* have drawn the component into that cluster.                             *)
LEMMA ComponentIsClosed ==
  ASSUME TypeOK, SearchInv, stack = <<>>
  PROVE  Closed(comp, pivotAdj)
<1> SUFFICES ASSUME NEW a \in comp, NEW b \in pivotAdj[a] PROVE b \in comp
  BY DEF Closed
<1>1. a \in Assets /\ b \in Assets /\ a \in pivotAdj[b]
  BY DEF TypeOK, Symmetric
<1>2. OnStack = {}
  BY EmptySeq DEF OnStack
<1>3. b \in comp \/ Clustered(b)
  BY <1>1, <1>2 DEF SearchInv, FrontierOnStack, SeenIsPlaced
<1>4. ASSUME Clustered(b) PROVE FALSE
  <2>1. PICK i \in 1..Len(clusters) : b \in clusters[i]
    BY <1>4 DEF Clustered
  <2>2. a \in clusters[i]
    BY <1>1, <2>1 DEF SearchInv, ClustersRooted, Closed
  <2>3. QED
    BY <2>2 DEF SearchInv, Disjoint
<1>5. QED
  BY <1>3, <1>4

(* With the stack empty the component is an operator (graph.py:87).        *)
LEMMA CloseKeeps ==
  ASSUME TypeOK, CursorInRange, SearchInv, CloseComponent
  PROVE  SearchInv'
<1>0. PICK n : n = Len(clusters)
  OBVIOUS
<1>1. /\ stack = <<>> /\ comp # {} /\ comp' = {} /\ cursor' = cursor + 1
      /\ clusters' = Append(clusters, comp)
      /\ UNCHANGED <<pivotAdj, stack, seen>>
  BY DEF CloseComponent, graph
<1>2. /\ n \in Nat /\ Len(clusters') = n + 1
      /\ \A i \in 1..n : clusters'[i] = clusters[i]
      /\ clusters'[n + 1] = comp
  BY <1>0, <1>1, AppendProperties, LenProperties DEF TypeOK
<1>3. /\ cursor \in comp /\ cursor \in Assets /\ comp \subseteq Assets
      /\ cursor \in Nat /\ \A a \in Assets : a \in Nat
  BY <1>1, NumAssetsAssumption
  DEF TypeOK, Assets, SearchInv, CursorPassed, CursorInRange, BetweenComponents
<1>4. OnStack = {} /\ OnStack' = {}
  BY <1>1, EmptySeq DEF OnStack
<1>5. \A a : Clustered(a)' <=> (Clustered(a) \/ a \in comp)
  <2> SUFFICES ASSUME NEW a
               PROVE  (\E i \in 1..(n + 1) : a \in clusters'[i])
                        <=> (\E i \in 1..n : a \in clusters[i]) \/ a \in comp
    BY <1>0, <1>2 DEF Clustered
  <2>1. \A i \in 1..(n + 1) : i \in 1..n \/ i = n + 1
    BY <1>2
  <2>2. \A i \in 1..n : i \in 1..(n + 1)
    BY <1>2
  <2>3. n + 1 \in 1..(n + 1)
    BY <1>2
  <2>4. QED
    BY <1>2, <2>1, <2>2, <2>3
<1>6. SeenIsPlaced'
  BY <1>1, <1>5 DEF SearchInv, SeenIsPlaced
<1>7. Disjoint'
  <2> SUFFICES ASSUME NEW i \in 1..(n + 1), NEW j \in 1..(n + 1), i # j
               PROVE  clusters'[i] \cap clusters'[j] = {}
    BY <1>1, <1>2 DEF Disjoint
  <2>1. CASE i \in 1..n /\ j \in 1..n
    BY <1>0, <1>2, <2>1 DEF SearchInv, Disjoint
  <2>2. CASE i = n + 1
    <3>1. j \in 1..n
      BY <1>2, <2>2
    <3>2. QED
      BY <1>0, <1>2, <2>2, <3>1 DEF SearchInv, Disjoint
  <2>3. CASE j = n + 1
    <3>1. i \in 1..n
      BY <1>2, <2>3
    <3>2. QED
      BY <1>0, <1>2, <2>3, <3>1 DEF SearchInv, Disjoint
  <2>4. QED
    BY <1>2, <2>1, <2>2, <2>3
<1>8. CursorPassed'
  <2>1. \A a \in Assets : a < cursor + 1 => Clustered(a)'
    BY <1>3, <1>5 DEF SearchInv, CursorPassed
  <2>2. BetweenComponents'
    BY <1>1 DEF BetweenComponents
  <2>3. QED
    BY <1>1, <2>1, <2>2 DEF CursorPassed
<1>9. FrontierOnStack' /\ ReachedFromCursor'
  BY <1>1, <1>4 DEF FrontierOnStack, ReachedFromCursor
<1>10. RootedAt(comp, cursor)
  <2>1. ASSUME NEW b \in comp PROVE cursor <= b
    <3>1. ~Clustered(b)
      BY DEF SearchInv, Disjoint, Clustered
    <3>2. QED
      BY <1>3, <3>1 DEF SearchInv, CursorPassed
  <2>2. QED
    BY <1>3, <2>1 DEF RootedAt, SearchInv, ReachedFromCursor
<1>11. ClustersRooted'
  <2> SUFFICES ASSUME NEW i \in 1..(n + 1)
               PROVE  /\ Closed(clusters'[i], pivotAdj)
                      /\ \E r \in clusters'[i] : /\ r < cursor + 1
                                                /\ RootedAt(clusters'[i], r)
    BY <1>1, <1>2 DEF ClustersRooted, RootedAt
  <2>1. CASE i = n + 1
    <3>1. Closed(comp, pivotAdj)
      BY <1>1, ComponentIsClosed
    <3>2. cursor < cursor + 1
      BY <1>3
    <3>3. QED
      BY <1>2, <1>3, <1>10, <2>1, <3>1, <3>2
  <2>2. CASE i \in 1..n
    <3>1. PICK r \in clusters[i] : r < cursor /\ RootedAt(clusters[i], r)
      BY <1>0, <2>2 DEF SearchInv, ClustersRooted
    <3>2. r \in Assets
      BY <1>0, <2>2, ElementOfSeq DEF TypeOK
    <3>3. Closed(clusters[i], pivotAdj)
      BY <1>0, <2>2 DEF SearchInv, ClustersRooted
    <3>4. r < cursor + 1
      BY <1>3, <3>1, <3>2
    <3>5. QED
      BY <1>2, <2>2, <3>1, <3>3, <3>4
  <2>3. QED
    BY <1>2, <2>1, <2>2
<1>12. OldestOperatorFirst'
  <2>1. DOMAIN clusters = 1..n /\ DOMAIN clusters' = 1..(n + 1)
    <3>1. clusters' \in Seq(SUBSET Assets)
      BY <1>1, AppendProperties DEF TypeOK
    <3>2. QED
      BY <1>0, <1>2, <3>1, LenProperties DEF TypeOK
  <2> SUFFICES ASSUME NEW i \in 1..(n + 1), NEW j \in 1..(n + 1), i < j
               PROVE  \E a \in clusters'[i] : \A b \in clusters'[j] : a < b
    BY <2>1 DEF OldestOperatorFirst
  <2>2. CASE j \in 1..n
    <3>1. i \in 1..n
      BY <1>2, <2>2
    <3>2. QED
      BY <1>2, <2>1, <2>2, <3>1 DEF SearchInv, OldestOperatorFirst
  <2>3. CASE j = n + 1
    <3>1. i \in 1..n
      BY <1>2, <2>3
    <3>2. PICK r \in clusters[i] : r < cursor
      BY <1>0, <3>1 DEF SearchInv, ClustersRooted
    <3>3. r \in Assets
      BY <1>0, <3>1, ElementOfSeq DEF TypeOK
    <3>4. \A b \in comp : b \in Assets /\ cursor <= b
      BY <1>3, <1>10 DEF RootedAt
    <3>5. \A b \in comp : r < b
      BY <1>3, <3>2, <3>3, <3>4
    <3>6. QED
      BY <1>2, <2>3, <3>1, <3>5
  <2>4. QED
    BY <1>2, <2>2, <2>3
<1>13. QED
  BY <1>6, <1>7, <1>8, <1>9, <1>11, <1>12 DEF SearchInv

(* The inductive invariant of the search.                                  *)
THEOREM SearchInvariant == Spec => [](TypeOK /\ SearchInv)
<1>1. Init => SearchInv
  <2> SUFFICES ASSUME Init PROVE SearchInv
    OBVIOUS
  <2>1. /\ Len(clusters) = 0 /\ Len(stack) = 0 /\ DOMAIN clusters = {}
        /\ cursor = 1 /\ comp = {} /\ seen = {} /\ BetweenComponents
    BY EmptySeq DEF Init, BetweenComponents
  <2>2. \A a \in Assets : ~(a < 1)
    BY NumAssetsAssumption DEF Assets
  <2>3. OnStack = {}
    BY <2>1 DEF OnStack
  <2>4. SeenIsPlaced /\ Disjoint /\ ClustersRooted /\ OldestOperatorFirst
    BY <2>1 DEF SeenIsPlaced, Disjoint, ClustersRooted, OldestOperatorFirst, Clustered
  <2>5. CursorPassed
    BY <2>1, <2>2 DEF CursorPassed, BetweenComponents
  <2>6. FrontierOnStack /\ ReachedFromCursor
    BY <2>1, <2>3 DEF FrontierOnStack, ReachedFromCursor
  <2>7. QED
    BY <2>4, <2>5, <2>6 DEF SearchInv
<1>2. TypeOK /\ CursorInRange /\ SearchInv /\ [Next]_vars => SearchInv'
  <2> SUFFICES ASSUME TypeOK, CursorInRange, SearchInv, [Next]_vars PROVE SearchInv'
    OBVIOUS
  <2>1. CASE SkipSeen
    BY <2>1, SkipKeeps
  <2>2. CASE StartComponent
    BY <2>2, StartKeeps
  <2>3. CASE PopSeen
    BY <2>3, PopKeeps
  <2>4. CASE Visit
    BY <2>4, VisitKeeps
  <2>5. CASE CloseComponent
    BY <2>5, CloseKeeps
  <2>6. CASE UNCHANGED vars
    BY <2>6 DEF vars, graph, SearchInv, SeenIsPlaced, Disjoint, CursorPassed,
        FrontierOnStack, ReachedFromCursor, ClustersRooted, RootedAt,
        OldestOperatorFirst, BetweenComponents, Clustered, OnStack
  <2>7. QED
    BY <2>1, <2>2, <2>3, <2>4, <2>5, <2>6 DEF Next, Terminated
<1>3. QED
  BY <1>1, <1>2, TypeCorrect, PTL DEF Spec

-----------------------------------------------------------------------------
(* In a symmetric graph what lies outside a closed set is closed.          *)
LEMMA ComplementIsClosed ==
  ASSUME TypeOK, NEW S \in SUBSET Assets, Closed(S, pivotAdj)
  PROVE  Closed(Assets \ S, pivotAdj)
  BY DEF TypeOK, Symmetric, Closed

(* A closed cluster is the operator of each of its members, for every      *)
(* number of assets, every pivot graph and every order of iteration.       *)
THEOREM ClustersCorrect == Spec => []ClustersAreOperators
<1>1. TypeOK /\ SearchInv => ClustersAreOperators
  <2> SUFFICES ASSUME TypeOK, SearchInv, NEW i \in DOMAIN clusters,
                      NEW a \in clusters[i]
               PROVE  clusters[i] = OperatorOf(a, Assets, pivotAdj)
    BY DEF ClustersAreOperators
  <2>1. i \in 1..Len(clusters) /\ clusters[i] \in SUBSET Assets
    BY LenProperties, ElementOfSeq DEF TypeOK
  <2> DEFINE c == clusters[i]
  <2>2. PICK r \in c : RootedAt(c, r)
    BY <2>1 DEF SearchInv, ClustersRooted
  <2>3. Closed(c, pivotAdj)
    BY <2>1 DEF SearchInv, ClustersRooted
  <2>4. ASSUME NEW S \in SUBSET Assets, a \in S, Closed(S, pivotAdj)
        PROVE  c \subseteq S
    <3>1. CASE r \in S
      BY <2>2, <2>4, <3>1 DEF RootedAt
    <3>2. CASE r \notin S
      <4>1. Closed(Assets \ S, pivotAdj) /\ r \in Assets \ S
        BY <2>1, <2>4, <3>2, ComplementIsClosed
      <4>2. c \subseteq Assets \ S
        BY <2>2, <4>1 DEF RootedAt
      <4>3. QED
        BY <2>4, <4>2
    <3>3. QED
      BY <3>1, <3>2
  <2>5. OperatorOf(a, Assets, pivotAdj) \subseteq c
    BY <2>1, <2>3 DEF OperatorOf
  <2>6. c \subseteq OperatorOf(a, Assets, pivotAdj)
    BY <2>1, <2>4 DEF OperatorOf
  <2>7. QED
    BY <2>5, <2>6
<1>2. QED
  BY <1>1, SearchInvariant, PTL

(* The finished search has put every asset into exactly one cluster.       *)
THEOREM PartitionCorrect == Spec => []EveryAssetHasOneOperator
<1>1. TypeOK /\ SearchInv => EveryAssetHasOneOperator
  <2> SUFFICES ASSUME TypeOK, SearchInv, Done, NEW a \in Assets
               PROVE  \E i \in DOMAIN clusters :
                        /\ a \in clusters[i]
                        /\ \A j \in DOMAIN clusters : a \in clusters[j] => i = j
    BY DEF EveryAssetHasOneOperator
  <2>1. a < cursor
    BY NumAssetsAssumption DEF Done, Assets
  <2>2. DOMAIN clusters = 1..Len(clusters)
    BY LenProperties DEF TypeOK
  <2>3. PICK i \in 1..Len(clusters) : a \in clusters[i]
    BY <2>1 DEF SearchInv, CursorPassed, Clustered
  <2>4. QED
    BY <2>2, <2>3 DEF SearchInv, Disjoint
<1>2. QED
  BY <1>1, SearchInvariant, PTL

(* Clusters come out in the order of their oldest assets.                  *)
THEOREM OrderCorrect == Spec => []OldestOperatorFirst
<1>1. SearchInv => OldestOperatorFirst
  BY DEF SearchInv
<1>2. QED
  BY <1>1, SearchInvariant, PTL

-----------------------------------------------------------------------------
Position(a) == CHOOSE i \in DOMAIN Multi : a \in Multi[i]

(* The networks are the clusters of two and more domains, each once.       *)
LEMMA NetworkFacts ==
  ASSUME TypeOK, SearchInv, ClustersAreOperators
  PROVE  /\ DOMAIN Multi = 1..Len(Multi) /\ Len(Multi) \in Nat
         /\ IsInjective(Multi)
         /\ \A i \in DOMAIN Multi :
              /\ IsMulti(Multi[i]) /\ Multi[i] # {} /\ Multi[i] \subseteq Assets
              /\ \A a \in Multi[i] : Multi[i] = OperatorOf(a, Assets, pivotAdj)
         /\ \A j \in DOMAIN clusters : IsMulti(clusters[j]) =>
              \E i \in DOMAIN Multi : Multi[i] = clusters[j]
<1> DEFINE wide == {c \in SUBSET Assets : IsMulti(c)}
<1>1. /\ clusters \in Seq(SUBSET Assets) /\ DOMAIN clusters = 1..Len(clusters)
      /\ \A j \in DOMAIN clusters : clusters[j] \subseteq Assets
  BY DEF TypeOK
<1>2. \A j \in DOMAIN clusters : clusters[j] # {}
  BY <1>1 DEF SearchInv, ClustersRooted
<1>3. IsInjective(clusters)
  BY <1>1, <1>2 DEF SearchInv, Disjoint, IsInjective
<1>4. /\ Multi \in Seq((SUBSET Assets) \cap wide)
      /\ ToSet(Multi) = ToSet(clusters) \cap wide
      /\ IsInjective(Multi)
  <2> HIDE DEF wide
  <2>1. Multi = Kept(clusters, wide)
    BY DEF Multi, wide
  <2> QED
    BY <1>1, <1>3, <2>1, KeptIsThose, KeptInjective
<1>5. DOMAIN Multi = 1..Len(Multi) /\ Len(Multi) \in Nat
  <2> HIDE DEF wide
  <2> QED
    BY <1>4
<1>6. ASSUME NEW i \in DOMAIN Multi
      PROVE  IsMulti(Multi[i]) /\ \E j \in DOMAIN clusters : Multi[i] = clusters[j]
  <2>1. Multi[i] \in ToSet(Multi)
    BY DEF ToSet
  <2> QED
    BY <1>4, <2>1 DEF ToSet
<1>7. ASSUME NEW j \in DOMAIN clusters, IsMulti(clusters[j])
      PROVE  \E i \in DOMAIN Multi : Multi[i] = clusters[j]
  <2>1. clusters[j] \in ToSet(clusters) \cap wide
    BY <1>1, <1>7 DEF ToSet
  <2>2. clusters[j] \in ToSet(Multi)
    BY <1>4, <2>1
  <2> QED
    BY <2>2 DEF ToSet
<1> QED
  BY <1>1, <1>2, <1>4, <1>5, <1>6, <1>7 DEF ClustersAreOperators

(* The labels name the operators of two and more domains, one number each, *)
(* without a gap, for every graph and every order of iteration             *)
(* (graph.py:105-118).                                                     *)
THEOREM LabelsCorrect == Spec => []LabelsNameOperators
<1>1. TypeOK /\ SearchInv /\ ClustersAreOperators /\ EveryAssetHasOneOperator
        => LabelsNameOperators
  <2> SUFFICES ASSUME TypeOK, SearchInv, ClustersAreOperators, EveryAssetHasOneOperator, Done
               PROVE  /\ \A a, b \in DOMAIN Labels :
                           (Labels[a] = Labels[b]) <=> (b \in OperatorOf(a, Assets, pivotAdj))
                      /\ DOMAIN Labels =
                           {a \in Assets :
                              Cardinality(OperatorOf(a, Assets, pivotAdj) \cap domains) >= 2}
                      /\ {Labels[a] : a \in DOMAIN Labels} = 0..(Len(Multi) - 1)
    BY DEF LabelsNameOperators
  <2> DEFINE Op(a) == OperatorOf(a, Assets, pivotAdj)
  <2> HIDE DEF Op
  <2>1. /\ DOMAIN Multi = 1..Len(Multi) /\ Len(Multi) \in Nat
        /\ \A i, j \in DOMAIN Multi : Multi[i] = Multi[j] => i = j
        /\ \A i \in DOMAIN Multi : IsMulti(Multi[i]) /\ Multi[i] # {} /\ Multi[i] \subseteq Assets
        /\ \A i \in DOMAIN Multi : \A a \in Multi[i] : Multi[i] = Op(a)
    BY NetworkFacts DEF IsInjective, Op
  <2>2. ASSUME NEW a \in Assets, IsMulti(Op(a))
        PROVE  \E i \in DOMAIN Multi : a \in Multi[i]
    <3>1. PICK j \in DOMAIN clusters : a \in clusters[j]
      BY DEF EveryAssetHasOneOperator
    <3>2. clusters[j] = Op(a)
      BY <3>1 DEF ClustersAreOperators, Op
    <3> QED
      BY <2>2, <3>1, <3>2, NetworkFacts
  <2>3. /\ DOMAIN Labels = UNION {Multi[i] : i \in DOMAIN Multi}
        /\ \A a \in DOMAIN Labels : Labels[a] = Position(a) - 1
    BY DEF Labels, Position
  <2>4. ASSUME NEW a \in DOMAIN Labels
        PROVE  /\ Position(a) \in 1..Len(Multi) /\ a \in Multi[Position(a)]
               /\ Multi[Position(a)] = Op(a)
    <3>1. \E i \in DOMAIN Multi : a \in Multi[i]
      BY <2>3
    <3>2. Position(a) \in DOMAIN Multi /\ a \in Multi[Position(a)]
      BY <3>1 DEF Position
    <3> QED
      BY <2>1, <3>2
  <2>5. ASSUME NEW a \in DOMAIN Labels, NEW b \in DOMAIN Labels
        PROVE  (Labels[a] = Labels[b]) <=> (b \in Op(a))
    <3>1. Labels[a] = Position(a) - 1 /\ Labels[b] = Position(b) - 1
      BY <2>3
    <3>2. Position(a) = Position(b) => b \in Op(a)
      BY <2>4
    <3>3. b \in Op(a) => Position(a) = Position(b)
      BY <2>1, <2>4
    <3>4. Position(a) \in Int /\ Position(b) \in Int
      BY <2>1, <2>4
    <3>5. Labels[a] = Labels[b] <=> Position(a) = Position(b)
      BY <3>1, <3>4
    <3> QED
      BY <3>2, <3>3, <3>5
  <2>6. DOMAIN Labels = {a \in Assets : IsMulti(Op(a))}
    <3>1. \A a \in DOMAIN Labels : a \in Assets /\ IsMulti(Op(a))
      BY <2>1, <2>4
    <3>2. \A a \in Assets : IsMulti(Op(a)) => a \in DOMAIN Labels
      BY <2>2, <2>3
    <3> QED
      BY <3>1, <3>2
  <2>7. ASSUME NEW m \in 0..(Len(Multi) - 1)
        PROVE  \E a \in DOMAIN Labels : Labels[a] = m
    <3>1. m + 1 \in DOMAIN Multi
      BY <2>1
    <3>2. PICK a : a \in Multi[m + 1]
      BY <2>1, <3>1
    <3>3. a \in DOMAIN Labels /\ Multi[m + 1] = Op(a)
      BY <2>1, <2>3, <3>1, <3>2
    <3>4. Position(a) = m + 1
      BY <2>1, <2>4, <3>1, <3>3
    <3> QED
      BY <2>1, <2>3, <3>3, <3>4
  <2>8. \A a \in DOMAIN Labels : Labels[a] \in 0..(Len(Multi) - 1)
    BY <2>1, <2>3, <2>4
  <2>9. {Labels[a] : a \in DOMAIN Labels} = 0..(Len(Multi) - 1)
    BY <2>7, <2>8
  <2> QED
    BY <2>5, <2>6, <2>9 DEF Op, IsMulti
<1>2. QED
  BY <1>1, SearchInvariant, ClustersCorrect, PartitionCorrect, PTL
=============================================================================
