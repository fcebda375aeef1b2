---------------------------- MODULE OperatorClusters ----------------------------
(***************************************************************************)
(* AttributionGraph.operator_clusters(), the depth-first search that turns *)
(* the pivot graph into operators, with the labels operator_clusters_multi *)
(* and known_operator_assets derive from its result.  An asset is named by *)
(* its position in the insertion order of self.assets.                     *)
(***************************************************************************)
EXTENDS PivotGraph, Lists, FiniteSets

CONSTANT NumAssets

ASSUME NumAssetsAssumption == NumAssets \in Nat

Assets == 1..NumAssets

VARIABLES pivotAdj,     \* graph._pivot_adj, fixed while the search runs
          domains,      \* the assets of type DOMAIN, fixed too
          cursor,       \* node of the outer loop; NumAssets + 1 at its end
          stack, seen, comp, clusters      \* the locals of the same names

graph == <<pivotAdj, domains>>
vars == <<graph, cursor, stack, seen, comp, clusters>>

(* Types of the graph and of the locals of operator_clusters(): the outer  *)
(* loop stays within the assets and so does the stack (graph.py:76-86).    *)
TypeOK ==
  /\ pivotAdj \in [Assets -> SUBSET Assets]
  /\ Symmetric(Assets, pivotAdj)
  /\ domains \in SUBSET Assets
  /\ cursor \in 1..(NumAssets + 1)
  /\ stack \in Seq(Assets)
  /\ seen \in SUBSET Assets
  /\ comp \in SUBSET Assets
  /\ clusters \in Seq(SUBSET Assets)

(* Any graph link() can build: it enters each pivot in both directions.    *)
Init ==
  /\ pivotAdj \in [Assets -> SUBSET Assets]
  /\ Symmetric(Assets, pivotAdj)
  /\ domains \in SUBSET Assets
  /\ cursor = 1
  /\ stack = <<>>
  /\ seen = {}
  /\ comp = {}
  /\ clusters = <<>>

Top == stack[Len(stack)]
Rest == SubSeq(stack, 1, Len(stack) - 1)

(* The orders in which a Python set may be iterated.                       *)
Orders(S) == {f \in [1..Cardinality(S) -> S] : \A x \in S : \E i \in DOMAIN f : f[i] = x}

BetweenComponents == stack = <<>> /\ comp = {}

(* if node in seen: continue                                               *)
SkipSeen ==
  /\ BetweenComponents
  /\ cursor \in seen
  /\ cursor' = cursor + 1
  /\ UNCHANGED <<graph, stack, seen, comp, clusters>>

(* An outer loop that runs one node too far.                               *)
StartBeyond ==
  /\ BetweenComponents
  /\ cursor \notin seen
  /\ stack' = <<cursor>>
  /\ UNCHANGED <<graph, cursor, seen, comp, clusters>>

(* stack, comp = [node], set()                                             *)
StartComponent ==
  /\ BetweenComponents
  /\ cursor \in Assets \ seen
  /\ stack' = <<cursor>>
  /\ UNCHANGED <<graph, cursor, seen, comp, clusters>>

(* A search that looks at the top of the stack and leaves it there.        *)
PeekSeen ==
  /\ stack # <<>>
  /\ Top \in seen
  /\ UNCHANGED vars

(* n = stack.pop(); if n in seen: continue                                 *)
PopSeen ==
  /\ stack # <<>>
  /\ Top \in seen
  /\ stack' = Rest
  /\ UNCHANGED <<graph, cursor, seen, comp, clusters>>

(* A search that forgets what was on the stack.                            *)
VisitOverwriting ==
  /\ stack # <<>>
  /\ Top \notin seen
  /\ seen' = seen \union {Top}
  /\ comp' = comp \union {Top}
  /\ \E order \in Orders(pivotAdj[Top] \ seen') : stack' = order
  /\ UNCHANGED <<graph, cursor, clusters>>

(* The search pushes the unseen neighbours of n in the order of a set.     *)
Visit ==
  /\ stack # <<>>
  /\ Top \notin seen
  /\ seen' = seen \union {Top}
  /\ comp' = comp \union {Top}
  /\ \E order \in Orders(pivotAdj[Top] \ seen') : stack' = Rest \o order
  /\ UNCHANGED <<graph, cursor, clusters>>

(* Clusters inserted at the front of the list.                             *)
CloseInFront ==
  /\ stack = <<>>
  /\ comp # {}
  /\ clusters' = <<comp>> \o clusters
  /\ comp' = {}
  /\ cursor' = cursor + 1
  /\ UNCHANGED <<graph, stack, seen>>

(* while stack ends: clusters.append(comp)                                 *)
CloseComponent ==
  /\ stack = <<>>
  /\ comp # {}
  /\ clusters' = Append(clusters, comp)
  /\ comp' = {}
  /\ cursor' = cursor + 1
  /\ UNCHANGED <<graph, stack, seen>>

Done == cursor = NumAssets + 1

Terminated == Done /\ UNCHANGED vars

Next == SkipSeen \/ StartComponent \/ PopSeen \/ Visit \/ CloseComponent \/ Terminated

Spec == Init /\ [][Next]_vars /\ WF_vars(Next)

-----------------------------------------------------------------------------
(* Labels.                                                                 *)

(* A count of assets of any type.                                          *)
IsPair(c) == Cardinality(c) >= 2

IsMulti(c) == Cardinality(c \cap domains) >= 2

(* operator_clusters_multi()                                               *)
Multi == Kept(clusters, {c \in SUBSET Assets : IsMulti(c)})

(* known_operator_assets(): the i of the label OP-i of every labelled asset. *)
Labels ==
  [a \in UNION {Multi[i] : i \in DOMAIN Multi} |->
    (CHOOSE i \in DOMAIN Multi : a \in Multi[i]) - 1]

-----------------------------------------------------------------------------
(* Every cluster the search has closed is a whole operator and nothing     *)
(* more: the assets some chain of strong pivots ties to any of its members *)
(* (graph.py:73), in whatever order the sets are iterated.                 *)
ClustersAreOperators ==
  \A i \in DOMAIN clusters : \A a \in clusters[i] :
    clusters[i] = OperatorOf(a, Assets, pivotAdj)

(* When the search ends every asset is in exactly one operator: the outer  *)
(* loop misses none and gives none to two.                                 *)
EveryAssetHasOneOperator ==
  Done => \A a \in Assets : \E i \in DOMAIN clusters :
            /\ a \in clusters[i]
            /\ \A j \in DOMAIN clusters : a \in clusters[j] => i = j

(* Operators come out in the order of their first-known asset: an asset    *)
(* inserted later cannot move an operator up the enumeration the labels    *)
(* OP-0000, OP-0001, ... are taken from (graph.py:115).                    *)
OldestOperatorFirst ==
  \A i, j \in DOMAIN clusters :
    i < j => \E a \in clusters[i] : \A b \in clusters[j] : a < b

(* The labels of the finished search tell operators apart, number the      *)
(* networks of two and more domains without a gap, and leave single sites  *)
(* without a label (graph.py:105, :111).                                   *)
LabelsNameOperators ==
  Done =>
    /\ \A a, b \in DOMAIN Labels :
         (Labels[a] = Labels[b]) <=> (b \in OperatorOf(a, Assets, pivotAdj))
    /\ DOMAIN Labels =
         {a \in Assets : Cardinality(OperatorOf(a, Assets, pivotAdj) \cap domains) >= 2}
    /\ {Labels[a] : a \in DOMAIN Labels} = 0..(Len(Multi) - 1)

(* The search ends.                                                        *)
Terminates == <>Done

-----------------------------------------------------------------------------
(* Why they hold.                                                          *)

(* What lies on the stack.                                                 *)
OnStack == {stack[k] : k \in 1..Len(stack)}

Clustered(a) == \E i \in 1..Len(clusters) : a \in clusters[i]

(* The inductive invariant, in the order in which the search makes use of  *)
(* it: where the nodes met so far are, ...                                 *)
SeenIsPlaced == \A a \in Assets : a \in seen <=> a \in comp \/ Clustered(a)

Disjoint ==
  /\ \A i \in 1..Len(clusters) : clusters[i] \cap comp = {}
  /\ \A i, j \in 1..Len(clusters) : i # j => clusters[i] \cap clusters[j] = {}

(* ... that everything before the cursor has been met, ...                 *)
CursorInRange == ~BetweenComponents => cursor \in Assets

CursorPassed ==
  /\ \A a \in Assets : a < cursor => Clustered(a)
  /\ ~BetweenComponents => cursor \in Assets /\ ~Clustered(cursor)
  /\ comp # {} => cursor \in comp
  /\ comp = {} /\ stack # <<>> => stack = <<cursor>>

(* ... that no neighbour is lost, and none is taken for nothing.           *)
FrontierOnStack == \A a \in comp : pivotAdj[a] \subseteq seen \union OnStack

ReachedFromCursor ==
  \A S \in SUBSET Assets :
    Closed(S, pivotAdj) /\ cursor \in S => comp \union OnStack \subseteq S

(* Every closed cluster has its first asset, and is its least closed set.  *)
RootedAt(c, r) ==
  /\ r \in c
  /\ \A b \in c : r <= b
  /\ \A S \in SUBSET Assets : Closed(S, pivotAdj) /\ r \in S => c \subseteq S

ClustersRooted ==
  \A i \in 1..Len(clusters) :
    /\ Closed(clusters[i], pivotAdj)
    /\ \E r \in clusters[i] : r < cursor /\ RootedAt(clusters[i], r)

(* Every asset met is in one cluster or in comp, every neighbour of comp is *)
(* met or on the stack, all that is reached belongs to the operator of the *)
(* cursor, and the closed clusters are whole operators (graph.py:72-88).   *)
SearchInv ==
  /\ SeenIsPlaced
  /\ Disjoint
  /\ CursorPassed
  /\ FrontierOnStack
  /\ ReachedFromCursor
  /\ ClustersRooted
  /\ OldestOperatorFirst
=============================================================================
