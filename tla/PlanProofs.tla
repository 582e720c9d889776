----------------------------- MODULE PlanProofs -----------------------------
(***************************************************************************)
(* Theorems about Plan, for every finite set of changes, every graph of    *)
(* their dependencies and every grouping: what filtering keeps, and what   *)
(* happens to a change that it drops; that a cycle of groups is given up   *)
(* only for a cycle of changes; and that the second iteration has nothing  *)
(* left to give up.                                                        *)
(*                                                                         *)
(* IInv is about the graph, GroupsInv about its groups, SecondInv about    *)
(* the two iterations.  The first two are inductive by themselves.         *)
(***************************************************************************)
EXTENDS Plan, FiniteSetTheorems, WellFoundedInduction, TLAPS

----------------------------------------------------------------------------
(* Paths, as in DagWalkProofs. *)

\* Reachable(edges, from) holds "from" and is closed under edges.
LEMMA ReachableIsClosed ==
    ASSUME NEW edges \in [Nodes -> SUBSET Nodes], NEW from \in SUBSET Nodes
    PROVE  /\ from \subseteq Reachable(edges, from)
           /\ Reachable(edges, from) \subseteq Nodes
           /\ \A m \in Reachable(edges, from) : edges[m] \subseteq Reachable(edges, from)
<1>1. from \subseteq Reachable(edges, from) /\ Reachable(edges, from) \subseteq Nodes
    BY DEF Reachable
<1>2. ASSUME NEW m \in Reachable(edges, from), NEW k \in edges[m]
      PROVE  k \in Reachable(edges, from)
    <2>1. m \in Nodes /\ k \in Nodes
        BY <1>1, <1>2
    <2>2. ASSUME NEW S \in SUBSET Nodes, from \subseteq S, \A j \in S : edges[j] \subseteq S
          PROVE  k \in S
        BY <2>1, <2>2, <1>2 DEF Reachable
    <2> QED
        BY <2>1, <2>2 DEF Reachable
<1> QED
    BY <1>1, <1>2

\* It is the least such set.
LEMMA ReachableIsLeast ==
    ASSUME NEW edges, NEW from,
           NEW S \in SUBSET Nodes, from \subseteq S, \A m \in S : edges[m] \subseteq S
    PROVE  Reachable(edges, from) \subseteq S
    BY DEF Reachable

\* A path of the inverse relation is a path of the relation, backwards.
LEMMA ReachableBackwards ==
    ASSUME NEW edges \in [Nodes -> SUBSET Nodes],
           NEW inverse \in [Nodes -> SUBSET Nodes],
           \A n, m \in Nodes : m \in inverse[n] => n \in edges[m],
           NEW n \in Nodes,
           NEW m \in Reachable(inverse, {n})
    PROVE  n \in Reachable(edges, {m})
<1> DEFINE S == {k \in Nodes : n \in Reachable(edges, {k})}
<1>1. {n} \subseteq S
    BY ReachableIsClosed
<1>2. ASSUME NEW k \in S, NEW j \in inverse[k] PROVE j \in S
    <2>1. j \in Nodes /\ k \in Nodes /\ k \in edges[j]
        BY <1>2
    <2>2. k \in Reachable(edges, {j})
        BY <2>1, ReachableIsClosed
    <2>3. Reachable(edges, {k}) \subseteq Reachable(edges, {j})
        <3> DEFINE R == Reachable(edges, {j})
        <3>1. R \in SUBSET Nodes /\ {k} \subseteq R /\ \A i \in R : edges[i] \subseteq R
            BY <2>1, <2>2, ReachableIsClosed
        <3> HIDE DEF R
        <3>2. Reachable(edges, {k}) \subseteq R
            BY <3>1, ReachableIsLeast
        <3> QED
            BY <3>2 DEF R
    <2> QED
        BY <2>1, <2>3
<1>3. Reachable(inverse, {n}) \subseteq S
    BY <1>1, <1>2, ReachableIsLeast
<1> QED
    BY <1>3

\* A path from a set of nodes is one from one of them.
LEMMA ReachableFromOne ==
    ASSUME NEW edges \in [Nodes -> SUBSET Nodes], NEW from \in SUBSET Nodes,
           NEW n \in Reachable(edges, from)
    PROVE  \E start \in from : n \in Reachable(edges, {start})
<1> DEFINE S == {k \in Nodes : \E start \in from : k \in Reachable(edges, {start})}
<1>1. from \subseteq S
    <2> SUFFICES ASSUME NEW start \in from PROVE start \in Reachable(edges, {start})
        OBVIOUS
    <2> QED
        BY ReachableIsClosed
<1>2. ASSUME NEW k \in S PROVE edges[k] \subseteq S
    <2>1. PICK start \in from : k \in Reachable(edges, {start})
        OBVIOUS
    <2>2. edges[k] \subseteq Reachable(edges, {start}) /\ edges[k] \subseteq Nodes
        BY <2>1, ReachableIsClosed
    <2> QED
        BY <2>2
<1>3. Reachable(edges, from) \subseteq S
    BY <1>1, <1>2, ReachableIsLeast
<1> QED
    BY <1>3

\* In a finite graph a path that never has to end runs into a cycle.
LEMMA EndlessPathsMeetACycle ==
    ASSUME IsFiniteSet(Nodes),
           NEW edges \in [Nodes -> SUBSET Nodes],
           NEW U \in SUBSET Nodes, \A m \in U : edges[m] \cap U # {},
           NEW n \in U
    PROVE  \E m \in Reachable(edges, {n}) : m \in Reachable(edges, edges[m])
<1> DEFINE Ahead(m) == Reachable(edges, {m})
           Sizes == {Cardinality(Ahead(m)) : m \in Ahead(n) \cap U}
<1>1. \A m \in Nodes : /\ m \in Ahead(m) /\ Ahead(m) \subseteq Nodes
                       /\ \A k \in Ahead(m) : edges[k] \subseteq Ahead(m)
    BY ReachableIsClosed
<1> HIDE DEF Ahead
<1>2. \A m \in Nodes : IsFiniteSet(Ahead(m)) /\ Cardinality(Ahead(m)) \in Nat
    BY <1>1, FS_Subset, FS_CardinalityType
<1>3. Sizes \subseteq Nat /\ Sizes # {}
    BY <1>1, <1>2
<1>4. PICK size \in Sizes : \A other \in Sizes : ~(<<other, size>> \in OpToRel(<, Nat))
    BY <1>3, WFMin, NatLessThanWellFounded, Zenon
<1>5. \A other \in Sizes : ~(other < size)
    BY <1>3, <1>4, Zenon DEF OpToRel
<1>6. PICK m \in Ahead(n) \cap U : size = Cardinality(Ahead(m))
    OBVIOUS
<1>7. PICK d \in edges[m] : d \in U
    OBVIOUS
<1>8. Cardinality(Ahead(d)) \in Sizes
    BY <1>1, <1>7
<1>9. Ahead(d) \subseteq Reachable(edges, edges[m])
    BY <1>7, ReachableIsClosed, ReachableIsLeast DEF Ahead
<1>10. Ahead(d) \subseteq Ahead(m)
    BY <1>1, <1>7, ReachableIsLeast DEF Ahead
<1>11. m \in Ahead(d)
    <2>1. Cardinality(Ahead(d)) = Cardinality(Ahead(m))
        <3>1. Cardinality(Ahead(d)) <= Cardinality(Ahead(m))
            BY <1>2, <1>10, FS_Subset
        <3>2. ~(Cardinality(Ahead(d)) < Cardinality(Ahead(m)))
            BY <1>5, <1>6, <1>8, Zenon
        <3> QED
            BY <1>2, <3>1, <3>2
    <2> QED
        BY <1>1, <1>2, <1>10, <2>1, FS_Subset
<1> QED
    BY <1>9, <1>11 DEF Ahead

\* Paths can be joined.
LEMMA ReachableIsTransitive ==
    ASSUME NEW edges \in [Nodes -> SUBSET Nodes], NEW a \in Nodes,
           NEW b \in Reachable(edges, {a})
    PROVE  Reachable(edges, {b}) \subseteq Reachable(edges, {a})
<1> DEFINE R == Reachable(edges, {a})
<1>1. R \in SUBSET Nodes /\ {b} \subseteq R /\ \A k \in R : edges[k] \subseteq R
    BY ReachableIsClosed
<1> HIDE DEF R
<1>2. Reachable(edges, {b}) \subseteq R
    BY <1>1, ReachableIsLeast
<1> QED
    BY <1>2 DEF R

\* An edge makes a path longer.
LEMMA EdgesMakePaths ==
    ASSUME NEW edges \in [Nodes -> SUBSET Nodes], NEW a \in Nodes,
           NEW k \in Reachable(edges, {a}), NEW j \in edges[k]
    PROVE  /\ k \in Nodes /\ j \in Nodes
           /\ j \in Reachable(edges, {a}) /\ j \in Reachable(edges, {k})
<1>1. k \in Nodes /\ j \in Nodes /\ j \in Reachable(edges, {a})
    BY ReachableIsClosed
<1>2. k \in Reachable(edges, {k})
    BY <1>1, ReachableIsClosed
<1>3. j \in Reachable(edges, {k})
    BY <1>1, <1>2, ReachableIsClosed
<1> QED
    BY <1>1, <1>3

\* A node from which a path leads on to m, along edges that do not raise the rank
\* when a path from their ends leads on to m, has no higher rank than the start.
LEMMA RankFallsOnTheWay ==
    ASSUME NEW edges \in [Nodes -> SUBSET Nodes], NEW rank \in [Nodes -> Nat],
           NEW m \in Nodes, NEW a \in Reachable(edges, {m}),
           NEW b \in Reachable(edges, {a}), m \in Reachable(edges, {b}),
           \A k \in Reachable(edges, {m}) :
               \A j \in edges[k] : m \in Reachable(edges, {j}) => rank[j] <= rank[k]
    PROVE  rank[b] <= rank[a]
<1> DEFINE T == {k \in Reachable(edges, {a}) : m \in Reachable(edges, {k}) => rank[k] <= rank[a]}
<1>1. a \in Nodes /\ Reachable(edges, {m}) \subseteq Nodes
    BY ReachableIsClosed
<1>2. /\ a \in Reachable(edges, {a}) /\ Reachable(edges, {a}) \subseteq Nodes
      /\ \A k \in Reachable(edges, {a}) : edges[k] \subseteq Reachable(edges, {a})
    BY <1>1, ReachableIsClosed
<1>3. T \in SUBSET Nodes /\ {a} \subseteq T
    BY <1>1, <1>2
<1>4. ASSUME NEW k \in T, NEW j \in edges[k] PROVE j \in T
    <2>1. k \in Nodes /\ j \in Nodes /\ j \in Reachable(edges, {a})
        BY <1>2, <1>4
    <2> SUFFICES ASSUME m \in Reachable(edges, {j}) PROVE rank[j] <= rank[a]
        BY <2>1
    <2>2. j \in Reachable(edges, {k})
        BY <1>4, <2>1, ReachableIsClosed
    <2>3. m \in Reachable(edges, {k})
        BY <2>1, <2>2, ReachableIsTransitive
    <2>4. k \in Reachable(edges, {m})
        BY <1>4, ReachableIsTransitive
    <2>5. rank[j] <= rank[k] /\ rank[k] <= rank[a]
        BY <1>4, <2>3, <2>4
    <2> QED
        BY <1>1, <2>1, <2>5
<1>5. b \in T
    <2> HIDE DEF T
    <2> QED
        BY <1>3, <1>4, ReachableIsLeast
<1> QED
    BY <1>5

----------------------------------------------------------------------------
(* The order of evaluation of a set of nodes. *)

\* A set of numbers that is not empty has a least one.
LEMMA LeastNumber ==
    ASSUME NEW T \in SUBSET Nat, T # {}
    PROVE  \E k \in T : \A j \in T : k <= j
<1>1. PICK k \in T : \A j \in T : ~(<<j, k>> \in OpToRel(<, Nat))
    BY WFMin, NatLessThanWellFounded, Zenon
<1>2. \A j \in T : ~(j < k)
    BY <1>1, Zenon DEF OpToRel
<1> QED
    BY <1>2

\* LevelsOf is what its definition says: the recursion is well founded.
LEMMA LevelsOfDef ==
    ASSUME NEW S, Cardinality(S) \in Nat, NEW edges
    PROVE  LevelsOf(S, edges) =
               [k \in 0 .. Cardinality(S) |->
                  IF k = 0 THEN {}
                  ELSE {n \in S : edges[n] \cap S \subseteq LevelsOf(S, edges)[k - 1]}]
<1> DEFINE NextLevel(P) == {n \in S : edges[n] \cap S \subseteq P}
           IsLevels(f, N) == f = [k \in 0 .. N |-> IF k = 0 THEN {} ELSE NextLevel(f[k - 1])]
           Without == {N \in Nat : \A f : ~IsLevels(f, N)}
<1>1. Without = {}
    <2> SUFFICES ASSUME Without # {} PROVE FALSE
        OBVIOUS
    <2>1. PICK N \in Without : \A M \in Without : N <= M
        BY LeastNumber
    <2>2. N # 0
        <3>1. IsLevels([k \in 0 .. 0 |-> {}], 0)
            OBVIOUS
        <3> QED
            BY <2>1, <3>1
    <2>3. N - 1 \in Nat /\ N - 1 \notin Without
        <3> HIDE DEF Without
        <3>1. N \in Nat
            BY <2>1 DEF Without
        <3> QED
            BY <2>1, <2>2, <3>1
    <2>4. PICK f : IsLevels(f, N - 1)
        BY <2>3
    <2> DEFINE g == [k \in 0 .. N |-> IF k = N THEN NextLevel(f[N - 1]) ELSE f[k]]
    <2>5. IsLevels(g, N)
        <3> HIDE DEF NextLevel
        <3>0. g[N] = NextLevel(f[N - 1]) /\ \A k \in 0 .. N - 1 : g[k] = f[k]
            BY <2>2, <2>3
        <3>9. \A k \in 0 .. N - 1 : f[k] = IF k = 0 THEN {} ELSE NextLevel(f[k - 1])
            BY <2>4
        <3>8. g = [k \in 0 .. N |-> g[k]]
            OBVIOUS
        <3> HIDE DEF g
        <3>1. \A k \in 0 .. N : g[k] = IF k = 0 THEN {} ELSE NextLevel(g[k - 1])
            <4> SUFFICES ASSUME NEW k \in 0 .. N
                         PROVE  g[k] = IF k = 0 THEN {} ELSE NextLevel(g[k - 1])
                OBVIOUS
            <4>1. CASE k = N
                BY <2>2, <2>3, <3>0, <4>1
            <4>2. CASE k # N
                BY <2>2, <2>3, <3>0, <3>9, <4>2
            <4> QED
                BY <4>1, <4>2
        <3> QED
            BY <3>1, <3>8
    <2> QED
        BY <2>1, <2>5
<1>2. \E f : IsLevels(f, Cardinality(S))
    BY <1>1
<1>3. LevelsOf(S, edges) = CHOOSE f : IsLevels(f, Cardinality(S))
    BY DEF LevelsOf
<1> HIDE DEF IsLevels
<1>4. IsLevels(LevelsOf(S, edges), Cardinality(S))
    BY <1>2, <1>3, Zenon
<1> QED
    BY <1>4 DEF IsLevels

\* The levels of a set of nodes that is acyclic grow, from none to all of them, and
\* a node is in a level only if what it needs of the set is in the one before.
LEMMA LevelsGrow ==
    ASSUME NEW S, Cardinality(S) \in Nat, NEW edges
    PROVE  LET levels == LevelsOf(S, edges) IN
           /\ DOMAIN levels = 0 .. Cardinality(S)
           /\ levels[0] = {}
           /\ \A k \in 1 .. Cardinality(S) :
                levels[k] = {n \in S : edges[n] \cap S \subseteq levels[k - 1]}
           /\ \A k \in 1 .. Cardinality(S) : levels[k - 1] \subseteq levels[k]
<1> DEFINE levels == LevelsOf(S, edges)
           Shrinks == {k \in 1 .. Cardinality(S) : ~(levels[k - 1] \subseteq levels[k])}
<1>1. levels = [k \in 0 .. Cardinality(S) |->
                  IF k = 0 THEN {} ELSE {n \in S : edges[n] \cap S \subseteq levels[k - 1]}]
    BY LevelsOfDef
<1> HIDE DEF levels
<1>2. /\ DOMAIN levels = 0 .. Cardinality(S)
      /\ levels[0] = {}
      /\ \A k \in 1 .. Cardinality(S) :
           levels[k] = {n \in S : edges[n] \cap S \subseteq levels[k - 1]}
    <2>1. /\ 0 \in 0 .. Cardinality(S)
          /\ \A k \in 1 .. Cardinality(S) : k \in 0 .. Cardinality(S) /\ k # 0
        OBVIOUS
    <2> QED
        BY <1>1, <2>1
<1>3. Shrinks = {}
    <2> SUFFICES ASSUME Shrinks # {} PROVE FALSE
        OBVIOUS
    <2>1. PICK k \in Shrinks : \A j \in Shrinks : k <= j
        <3>1. Shrinks \in SUBSET Nat
            OBVIOUS
        <3> HIDE DEF Shrinks
        <3> QED
            BY <3>1, LeastNumber
    <2>2. k \in 1 .. Cardinality(S) /\ k # 1
        BY <1>2
    <2>3. k - 1 \in 1 .. Cardinality(S) /\ k - 1 \notin Shrinks
        <3>1. k - 1 \in 1 .. Cardinality(S) /\ ~(k <= k - 1)
            BY <2>2
        <3> HIDE DEF Shrinks
        <3> QED
            BY <2>1, <3>1
    <2>4. levels[k - 1 - 1] \subseteq levels[k - 1]
        BY <2>3
    <2> QED
        BY <1>2, <2>1, <2>2, <2>3, <2>4
<1> QED
    BY <1>2, <1>3 DEF levels

\* How many levels there are before the one of a node: its place in the order of
\* evaluation, as BreakToDisjointGroups counts it.
Place(n, S, edges) ==
    Cardinality({k \in DOMAIN LevelsOf(S, edges) : n \notin LevelsOf(S, edges)[k]})

LEMMA PlacesAreOrdered ==
    ASSUME NEW S, IsFiniteSet(S), NEW edges, ~IsCyclic(S, edges), NEW n \in S
    PROVE  /\ Place(n, S, edges) \in 0 .. Cardinality(S)
           /\ \A m \in edges[n] \cap S : Place(m, S, edges) < Place(n, S, edges)
<1> DEFINE levels == LevelsOf(S, edges)
           Before(m) == {k \in 0 .. Cardinality(S) : m \notin levels[k]}
           In == {k \in 0 .. Cardinality(S) : n \in levels[k]}
<1>1. Cardinality(S) \in Nat
    BY FS_CardinalityType
<1>2. /\ DOMAIN levels = 0 .. Cardinality(S) /\ levels[0] = {}
      /\ \A k \in 1 .. Cardinality(S) :
           /\ levels[k] = {m \in S : edges[m] \cap S \subseteq levels[k - 1]}
           /\ levels[k - 1] \subseteq levels[k]
    BY <1>1, LevelsGrow
<1>3. levels[Cardinality(S)] = S
    BY DEF IsCyclic
<1>4. \A m : Place(m, S, edges) = Cardinality(Before(m))
    BY <1>2 DEF Place
<1> HIDE DEF levels
<1>5. IsFiniteSet(0 .. Cardinality(S)) /\ Cardinality(0 .. Cardinality(S)) = Cardinality(S) + 1
    BY <1>1, FS_Interval
<1>6. \A m : IsFiniteSet(Before(m)) /\ Cardinality(Before(m)) \in Nat
    BY <1>5, FS_Subset, FS_CardinalityType
<1>7. PICK k \in In : \A j \in In : k <= j
    <2>1. In \in SUBSET Nat /\ Cardinality(S) \in In
        BY <1>1, <1>3
    <2> HIDE DEF In
    <2> QED
        BY <2>1, LeastNumber
<1>8. k \in 1 .. Cardinality(S) /\ k - 1 \in 0 .. Cardinality(S) /\ n \notin levels[k - 1]
    <2>1. k \in 1 .. Cardinality(S) /\ k - 1 \in 0 .. Cardinality(S) /\ ~(k <= k - 1)
        BY <1>1, <1>2
    <2> QED
        BY <1>7, <2>1
<1>9. Cardinality(Before(n)) <= Cardinality(S)
    <2>1. Before(n) \subseteq (0 .. Cardinality(S)) \ {k} /\ k \in 0 .. Cardinality(S)
        OBVIOUS
    <2> DEFINE All == 0 .. Cardinality(S)
    <2>2. IsFiniteSet(All) /\ Cardinality(All) = Cardinality(S) + 1 /\ k \in All
        BY <1>5, <2>1
    <2> HIDE DEF Before, All
    <2>3. IsFiniteSet(All \ {k}) /\ Cardinality(All \ {k}) = Cardinality(S)
        <3>1. /\ IsFiniteSet(All \ {k})
              /\ Cardinality(All \ {k}) =
                   IF k \in All THEN Cardinality(All) - 1 ELSE Cardinality(All)
            BY <2>2, FS_RemoveElement, Zenon
        <3> QED
            BY <1>1, <2>2, <3>1
    <2>4. Before(n) \subseteq All \ {k}
        BY <2>1 DEF All
    <2> QED
        BY <2>3, <2>4, FS_Subset
<1>10. ASSUME NEW m \in edges[n] \cap S PROVE Cardinality(Before(m)) < Cardinality(Before(n))
    <2>1. Before(m) \subseteq Before(n)
        <3> SUFFICES ASSUME NEW j \in 0 .. Cardinality(S), m \notin levels[j], n \in levels[j]
                     PROVE  FALSE
            OBVIOUS
        <3>1. j \in 1 .. Cardinality(S)
            BY <1>1, <1>2
        <3> QED
            BY <1>2, <1>10, <3>1
    <2>2. m \in levels[k - 1]
        BY <1>2, <1>7, <1>8, <1>10
    <2>3. k - 1 \in Before(n) /\ k - 1 \notin Before(m)
        BY <1>8, <2>2
    <2> HIDE DEF Before
    <2> QED
        BY <1>6, <2>1, <2>3, FS_Subset
<1> HIDE DEF Before
<1> QED
    BY <1>1, <1>4, <1>6, <1>9, <1>10

----------------------------------------------------------------------------
(* Cycles of groups. *)

\* The place of the next group in a cycle of L groups, and of the one after it.
LEMMA NextOnACycle ==
    ASSUME NEW L \in Nat, L >= 2, NEW i \in 1 .. L
    PROVE  /\ (i % L) + 1 \in 1 .. L
           /\ (((i % L) + 1) % L) + 1 = ((i + 1) % L) + 1
<1>1. CASE i < L
    <2>1. i % L = i
        BY <1>1
    <2> QED
        BY <1>1, <2>1
<1>2. CASE i = L
    <2>1. L % L = 0
        OBVIOUS
    <2>2. 1 % L = 1
        OBVIOUS
    <2>3. (L + 1) % L = 1
        OBVIOUS
    <2> QED
        BY <1>2, <2>1, <2>2, <2>3
<1> QED
    BY <1>1, <1>2

\* There are no more groups than nodes.
LEMMA GroupsAreFew ==
    ASSUME IsFiniteSet(source.nodes)
    PROVE  IsFiniteSet(Groups) /\ Cardinality(Groups) <= Cardinality(source.nodes)
<1> DEFINE f == [n \in source.nodes |-> groupKey[n]]
<1>1. f \in Surjection(source.nodes, Groups)
    BY DEF Surjection, Groups
<1> QED
    BY <1>1, FS_Surjection

\* A cycle of groups is a sequence of two or more, each of which depends on the next.
LEMMA CyclesAreSequences ==
    ASSUME IsFiniteSet(source.nodes), NEW c \in Cycles
    PROVE  /\ Len(c) \in Nat /\ Len(c) >= 2
           /\ \A i \in 1 .. Len(c) :
                c[i] \in Groups /\ c[(i % Len(c)) + 1] \in GroupDependsOn(c[i])
<1> DEFINE dependencies == [group \in Groups |-> GroupDependsOn(group)]
           withOrder == LevelsOf(Groups, dependencies)[Cardinality(Groups)]
<1>1. /\ c \in SetToAllKPermutations(Groups \ withOrder) /\ c # <<>>
      /\ \A i \in 1 .. Len(c) :
           c[(i % Len(c)) + 1] \in [group \in Groups |-> GroupDependsOn(group)][c[i]]
    BY DEF Cycles
<1>2. PICK s \in SUBSET (Groups \ withOrder) : c \in SetToSeqs(s)
    BY <1>1 DEF SetToAllKPermutations
<1>3. IsFiniteSet(Groups)
    BY GroupsAreFew
<1>4. IsFiniteSet(s) /\ Cardinality(s) \in Nat
    BY <1>2, <1>3, FS_Subset, FS_CardinalityType
<1>5. c \in [1 .. Cardinality(s) -> s]
    BY <1>2 DEF SetToSeqs
<1>6. Len(c) = Cardinality(s) /\ c \in Seq(s)
    BY <1>4, <1>5
<1>7. \A i \in 1 .. Len(c) : c[i] \in Groups
    BY <1>2, <1>5, <1>6
<1>8. \A i \in 1 .. Len(c) : c[(i % Len(c)) + 1] \in GroupDependsOn(c[i])
    BY <1>1, <1>7
<1>9. Len(c) # 0
    BY <1>1, <1>4, <1>5, <1>6
<1>10. Len(c) # 1
    <2> SUFFICES ASSUME Len(c) = 1 PROVE FALSE
        OBVIOUS
    <2>1. (1 % 1) + 1 = 1
        OBVIOUS
    <2>2. c[1] \in GroupDependsOn(c[1])
        BY <1>8, <2>1
    <2> QED
        BY <2>2 DEF GroupDependsOn
<1> QED
    BY <1>4, <1>6, <1>7, <1>8, <1>9, <1>10

\* A node of the component that is to be avoided reaches one that it is avoided for.
LEMMA ComponentReaches ==
    ASSUME NEW edges \in [Nodes -> SUBSET Nodes], NEW M \in SUBSET Nodes,
           NEW targets \in SUBSET M,
           NEW n \in Reachable(ReversedWithin(M, edges), targets)
    PROVE  n \in M /\ \E t \in targets : t \in Reachable(Within(M, edges), {n})
<1> DEFINE inside == Within(M, edges)
           T == {k \in M : \E t \in targets : t \in Reachable(inside, {k})}
<1>1. inside \in [Nodes -> SUBSET Nodes] /\ \A k \in Nodes : inside[k] = edges[k] \cap M
    BY DEF Within
<1> HIDE DEF inside
<1>2. T \in SUBSET Nodes /\ targets \subseteq T
    BY <1>1, ReachableIsClosed
<1>3. ASSUME NEW k \in T, NEW j \in ReversedWithin(M, edges)[k] PROVE j \in T
    <2>1. j \in M /\ k \in edges[j] /\ j \in Nodes /\ k \in Nodes
        BY <1>3 DEF ReversedWithin
    <2>2. k \in Reachable(inside, {j})
        BY <1>1, <1>3, <2>1, ReachableIsClosed
    <2>3. Reachable(inside, {k}) \subseteq Reachable(inside, {j})
        BY <1>1, <2>1, <2>2, ReachableIsTransitive
    <2> QED
        BY <1>3, <2>1, <2>3
<1>4. n \in T
    <2> HIDE DEF T
    <2> QED
        BY <1>2, <1>3, ReachableIsLeast
<1> QED
    BY <1>4 DEF inside

\* A rank of the nodes that shows that the groups of one key are in an order: a
\* node depends on nodes of its own group, or of groups of a lower rank.
RanksGroups(rank) ==
    \A n \in source.nodes : \A m \in source.dependsOn[n] :
        keys[m] = keys[n] =>
            IF groupKey[m] = groupKey[n] THEN rank[m] = rank[n] ELSE rank[m] < rank[n]

\* The nodes of group that the members of previous depend on.
Entries(previous, group) ==
    {m \in Members(group) : \E n \in Members(previous) : m \in source.dependsOn[n]}

\* Where a path through a group of a cycle that cannot be broken leads on to: from
\* each node that the group before depends on, to such a node of the group after.
LEMMA CyclesLeadOn ==
    ASSUME GroupTypeOK, IsFiniteSet(Nodes), NEW c \in Cycles, CannotBeBroken(c),
           NEW i \in 1 .. Len(c), NEW m \in Entries(c[i], c[(i % Len(c)) + 1])
    PROVE  LET j == (i % Len(c)) + 1
               k == (j % Len(c)) + 1
           IN  /\ j \in 1 .. Len(c) /\ c[j] # c[k]
               /\ \E x \in Reachable(Within(Members(c[j]), source.dependsOn), {m}) :
                     \E d \in Entries(c[j], c[k]) :
                        x \in Members(c[j]) /\ d \in source.dependsOn[x]
<1> DEFINE j == (i % Len(c)) + 1
           k == (j % Len(c)) + 1
           inside == Within(Members(c[j]), source.dependsOn)
           targets == {n \in Members(c[j]) : source.dependsOn[n] \cap Members(c[k]) # {}}
<1>1. IsFiniteSet(source.nodes)
    BY FS_Subset DEF GroupTypeOK
<1>2. /\ Len(c) \in Nat /\ Len(c) >= 2
      /\ \A h \in 1 .. Len(c) :
           c[h] \in Groups /\ c[(h % Len(c)) + 1] \in GroupDependsOn(c[h])
    BY <1>1, CyclesAreSequences
<1>3. j \in 1 .. Len(c) /\ k = ((i + 1) % Len(c)) + 1
    BY <1>2, NextOnACycle
<1>4. c[k] \in GroupDependsOn(c[j])
    BY <1>2, <1>3
<1>5. c[j] # c[k]
    BY <1>4 DEF GroupDependsOn
<1>6. PartsAt(c, i) = {}
    BY DEF CannotBeBroken
<1>7. PartsToSplit(c[i], c[j], c[k]) = {}
    BY <1>3, <1>6 DEF PartsAt
<1> HIDE DEF j, k
<1>8. m \in ComponentToAvoid(c[j], targets)
    <2>1. m \in {n \in Members(c[j]) : \E p \in Members(c[i]) : n \in source.dependsOn[p]}
        BY DEF Entries, j
    <2> QED
        BY <1>7, <2>1 DEF PartsToSplit
<1>9. /\ source.dependsOn \in [Nodes -> SUBSET Nodes] /\ source.nodes \subseteq Nodes
      /\ \A n \in Nodes : source.dependsOn[n] \subseteq source.nodes
    BY DEF GroupTypeOK
<1>10. Members(c[j]) \in SUBSET Nodes /\ targets \in SUBSET Members(c[j])
    BY <1>9 DEF Members
<1>11. PICK x \in targets : x \in Reachable(inside, {m})
    BY <1>8, <1>9, <1>10, ComponentReaches DEF ComponentToAvoid
<1>12. PICK d \in Members(c[k]) : d \in source.dependsOn[x]
    BY <1>11
<1>13. d \in Entries(c[j], c[k])
    BY <1>11, <1>12 DEF Entries
<1> QED
    BY <1>3, <1>5, <1>11, <1>12, <1>13 DEF j, k

\* The nodes of a cycle of groups that cannot be broken hold a cycle of changes that
\* goes through nodes with different keys.
LEMMA UnbreakableCyclesHoldACycle ==
    ASSUME GroupTypeOK, IsFiniteSet(Nodes), NEW rank \in [Nodes -> Nat], RanksGroups(rank),
           NEW c \in Cycles, CannotBeBroken(c),
           NEW S, S = {n \in source.nodes : \E i \in 1 .. Len(c) : groupKey[n] = c[i]},
           NEW edges \in [Nodes -> SUBSET Nodes],
           \A n \in S : edges[n] = source.dependsOn[n] \cap S
    PROVE  \E n \in S : \E m \in {k \in S : keys[k] # keys[n]} :
               n \in Reachable(edges, {m}) /\ m \in Reachable(edges, {n})
<1> DEFINE next(i) == (i % Len(c)) + 1
           U == UNION {Entries(c[i], c[next(i)]) : i \in 1 .. Len(c)}
           inside(m) == Within(Members(groupKey[m]), source.dependsOn)
           onward == [m \in Nodes |->
                        {d \in U : groupKey[d] # groupKey[m]
                            /\ \E x \in Reachable(inside(m), {m}) :
                                  x \in Members(groupKey[m]) /\ d \in source.dependsOn[x]}]
<1>1. /\ source.dependsOn \in [Nodes -> SUBSET Nodes] /\ source.nodes \subseteq Nodes
      /\ \A n \in Nodes : source.dependsOn[n] \subseteq source.nodes
    BY DEF GroupTypeOK
<1>2. /\ Len(c) \in Nat /\ Len(c) >= 2
      /\ \A i \in 1 .. Len(c) :
           c[i] \in Groups /\ c[next(i)] \in GroupDependsOn(c[i])
    BY <1>1, FS_Subset, CyclesAreSequences
<1>3. \A i \in 1 .. Len(c) : next(i) \in 1 .. Len(c)
    BY <1>2, NextOnACycle
<1>4. S \subseteq Nodes /\ S \subseteq source.nodes
    BY <1>1
<1>5. \A i \in 1 .. Len(c) : Members(c[i]) \subseteq S
    BY DEF Members
<1>6. U \subseteq S
    BY <1>3, <1>5 DEF Entries
<1> HIDE DEF next
<1>7. U # {}
    <2>1. 1 \in 1 .. Len(c) /\ c[next(1)] \in GroupDependsOn(c[1])
        BY <1>2
    <2>2. PICK n \in Members(c[1]) : \E m \in source.dependsOn[n] : groupKey[m] = c[next(1)]
        BY <2>1 DEF GroupDependsOn
    <2> PICK m \in source.dependsOn[n] : groupKey[m] = c[next(1)]
        BY <2>2
    <2>3. n \in Nodes /\ m \in source.nodes
        BY <1>1, <2>2 DEF Members
    <2>4. m \in Entries(c[1], c[next(1)])
        BY <2>2, <2>3 DEF Entries, Members
    <2> QED
        BY <2>1, <2>4
<1>8. \A m \in U : onward[m] \cap U # {}
    <2> SUFFICES ASSUME NEW m \in U PROVE onward[m] \cap U # {}
        BY Zenon
    <2> PICK i \in 1 .. Len(c) : m \in Entries(c[i], c[next(i)])
        OBVIOUS
    <2> DEFINE j == next(i)
               k == next(j)
    <2>1. j \in 1 .. Len(c) /\ c[j] # c[k]
        BY CyclesLeadOn DEF next
    <2>2. PICK x \in Reachable(Within(Members(c[j]), source.dependsOn), {m}),
               d \in Entries(c[j], c[k]) :
                 x \in Members(c[j]) /\ d \in source.dependsOn[x]
        BY CyclesLeadOn DEF next
    <2> HIDE DEF j
    <2>3. d \in U
        BY <2>1, <2>2
    <2>4. groupKey[m] = c[j] /\ m \in Nodes
        BY <1>1 DEF Entries, Members, j
    <2>5. groupKey[d] = c[k]
        BY <2>2 DEF Entries, Members
    <2> HIDE DEF U
    <2> QED
        BY <2>1, <2>2, <2>3, <2>4, <2>5
<1>9. onward \in [Nodes -> SUBSET Nodes]
    BY <1>4, <1>6
<1> HIDE DEF U, onward
<1>10. \E m \in Nodes : \E d \in onward[m] : m \in Reachable(onward, {d}) /\ m \in U
    <2>1. PICK n \in U : TRUE
        BY <1>7
    <2>2. PICK m \in Reachable(onward, {n}) : m \in Reachable(onward, onward[m])
        BY <1>4, <1>6, <1>8, <1>9, EndlessPathsMeetACycle
    <2>3. m \in U
        <3>1. U \in SUBSET Nodes /\ {n} \subseteq U /\ \A a \in U : onward[a] \subseteq U
            BY <1>4, <1>6 DEF onward
        <3> QED
            BY <3>1, ReachableIsLeast
    <2>4. m \in Nodes /\ onward[m] \in SUBSET Nodes
        BY <1>4, <1>6, <1>9, <2>3
    <2>5. PICK d \in onward[m] : m \in Reachable(onward, {d})
        BY <1>9, <2>2, <2>4, ReachableFromOne
    <2> QED
        BY <2>3, <2>4, <2>5
<1>23. PICK m \in Nodes : \E d \in onward[m] : m \in Reachable(onward, {d}) /\ m \in U
    BY <1>10
<1>24. PICK d \in onward[m] : m \in Reachable(onward, {d}) /\ m \in U
    BY <1>23
\* Inside a group, a path is one of the nodes of the cycle.
<1>11. ASSUME NEW a \in U PROVE Reachable(inside(a), {a}) \subseteq Reachable(edges, {a}) \cap S
    <2> DEFINE T == Reachable(edges, {a}) \cap S
    <2>1. a \in S /\ Members(groupKey[a]) \subseteq S /\ a \in Nodes
        BY <1>4, <1>6 DEF Members
    <2>2. T \in SUBSET Nodes /\ {a} \subseteq T
        BY <1>4, <2>1, ReachableIsClosed
    <2>3. ASSUME NEW k \in T, NEW j \in inside(a)[k] PROVE j \in T
        <3>1. k \in Nodes /\ k \in S /\ j \in source.dependsOn[k] /\ j \in S
            BY <1>4, <2>1, <2>3 DEF Within
        <3>2. j \in edges[k]
            BY <3>1
        <3>3. j \in Reachable(edges, {a})
            BY <2>1, <2>3, <3>2, EdgesMakePaths
        <3> QED
            BY <3>1, <3>3
    <2> HIDE DEF T
    <2>4. Reachable(inside(a), {a}) \subseteq T
        BY <2>2, <2>3, ReachableIsLeast
    <2> QED
        BY <2>4 DEF T
<1>12. ASSUME NEW a \in U PROVE onward[a] \subseteq Reachable(edges, {a}) \cap U
    <2> SUFFICES ASSUME NEW b \in onward[a] PROVE b \in Reachable(edges, {a}) /\ b \in U
        OBVIOUS
    <2>1. a \in Nodes /\ b \in U /\ b \in S
        BY <1>4, <1>6 DEF onward
    <2>2. PICK x \in Reachable(inside(a), {a}) : b \in source.dependsOn[x]
        BY <2>1 DEF onward
    <2>3. x \in Reachable(edges, {a}) /\ x \in S
        BY <1>11, <2>2
    <2>4. b \in edges[x]
        BY <2>1, <2>2, <2>3
    <2> QED
        BY <2>1, <2>3, <2>4, ReachableIsClosed
<1>13. d \in U /\ d \in Nodes /\ d \in S /\ m \in S
    BY <1>4, <1>6, <1>24 DEF onward
<1>14. m \in Reachable(edges, {d})
    <2> DEFINE T == Reachable(edges, {d}) \cap U
    <2>1. T \in SUBSET Nodes /\ {d} \subseteq T
        BY <1>13, ReachableIsClosed
    <2>2. ASSUME NEW a \in T PROVE onward[a] \subseteq T
        <3>1. Reachable(edges, {a}) \subseteq Reachable(edges, {d})
            BY <1>13, <2>2, ReachableIsTransitive
        <3> QED
            BY <1>12, <2>2, <3>1
    <2> HIDE DEF T
    <2>3. Reachable(onward, {d}) \subseteq T
        BY <2>1, <2>2, ReachableIsLeast
    <2> QED
        BY <1>24, <2>3 DEF T
<1>15. PICK x \in Reachable(edges, {m}) \cap S :
          d \in source.dependsOn[x] /\ groupKey[d] # groupKey[x]
    <2>1. PICK x \in Reachable(inside(m), {m}) :
             /\ x \in Members(groupKey[m]) /\ d \in source.dependsOn[x]
             /\ groupKey[d] # groupKey[m]
        BY <1>24 DEF onward
    <2> QED
        BY <1>24, <1>11, <2>1 DEF Members
<1>16. /\ x \in Nodes /\ d \in edges[x]
       /\ d \in Reachable(edges, {x}) /\ m \in Reachable(edges, {x})
       /\ d \in Reachable(edges, {m})
    <2>1. x \in Nodes /\ x \in S /\ d \in edges[x]
        BY <1>4, <1>13, <1>15
    <2>2. d \in Reachable(edges, {x})
        BY <2>1, ReachableIsClosed
    <2> QED
        BY <1>24, <1>14, <1>15, <2>1, <2>2, ReachableIsTransitive
<1> DEFINE OnTheCycle(k) == k \in Reachable(edges, {m}) /\ m \in Reachable(edges, {k})
<1>25. \A k \in S : \A j \in edges[k] : j \in S /\ j \in source.dependsOn[k]
    <2> SUFFICES ASSUME NEW k \in S, NEW j \in edges[k]
                 PROVE  j \in S /\ j \in source.dependsOn[k]
        BY Zenon
    <2>1. edges[k] = source.dependsOn[k] \cap S
        BY Zenon
    <2> QED
        BY <2>1, Zenon
<1>17. SUFFICES ASSUME \A k \in S : OnTheCycle(k) => keys[k] = keys[m] PROVE FALSE
    BY <1>13
<1>18. ASSUME NEW k \in Reachable(edges, {m}), NEW j \in edges[k], m \in Reachable(edges, {j})
      PROVE  rank[j] <= rank[k]
    <2>1. Reachable(edges, {m}) \cap S = Reachable(edges, {m})
        <3> DEFINE T == Reachable(edges, {m}) \cap S
        <3>1. T \in SUBSET Nodes /\ {m} \subseteq T /\ \A a \in T : edges[a] \subseteq T
            <4> HIDE DEF OnTheCycle
            <4>1. /\ m \in Reachable(edges, {m}) /\ Reachable(edges, {m}) \subseteq Nodes
                  /\ \A a \in Reachable(edges, {m}) : edges[a] \subseteq Reachable(edges, {m})
                BY ReachableIsClosed
            <4> QED
                BY <1>13, <1>25, <4>1, Zenon
        <3> HIDE DEF T
        <3>2. Reachable(edges, {m}) \subseteq T
            BY <3>1, ReachableIsLeast
        <3> QED
            BY <3>2 DEF T
    <2>2. k \in S /\ j \in S /\ j \in source.dependsOn[k] /\ k \in Nodes /\ j \in Nodes
        BY <1>4, <1>18, <1>25, <2>1, Zenon
    <2>3. OnTheCycle(k) /\ OnTheCycle(j)
        <3>1. j \in Reachable(edges, {k}) /\ j \in Reachable(edges, {m})
            BY <1>18, EdgesMakePaths
        <3>2. m \in Reachable(edges, {k})
            BY <1>18, <2>2, <3>1, ReachableIsTransitive
        <3> QED
            BY <1>18, <3>1, <3>2
    <2>4. keys[j] = keys[k]
        BY <1>17, <2>2, <2>3
    <2>5. k \in source.nodes
        BY <1>4, <2>2, Zenon
    <2>6. IF groupKey[j] = groupKey[k] THEN rank[j] = rank[k] ELSE rank[j] < rank[k]
        BY <2>2, <2>4, <2>5, Zenon DEF RanksGroups
    <2>7. rank[j] \in Nat /\ rank[k] \in Nat
        BY <2>2, Zenon
    <2> HIDE DEF OnTheCycle
    <2> QED
        BY <2>6, <2>7
<1>19. m \in Reachable(edges, {m})
    BY <1>24, ReachableIsClosed
<1>20. rank[x] <= rank[m]
    BY <1>24, <1>15, <1>16, <1>18, <1>19, RankFallsOnTheWay
<1>21. rank[m] <= rank[d]
    BY <1>24, <1>14, <1>16, <1>18, <1>19, RankFallsOnTheWay
<1>22. rank[d] < rank[x]
    <2>1. keys[d] = keys[m] /\ keys[x] = keys[m]
        BY <1>13, <1>14, <1>15, <1>16, <1>17
    <2> QED
        BY <1>4, <1>15, <2>1 DEF RanksGroups
<1> QED
    BY <1>24, <1>13, <1>16, <1>20, <1>21, <1>22

\* Walks along edges, of L nodes of G, and those that can go on from the last to
\* the first.
IsWalk(w, L, G, edges) ==
    w \in [1 .. L -> G] /\ \A i \in 1 .. L - 1 : w[i + 1] \in edges[w[i]]

IsClosedWalk(w, L, G, edges) == IsWalk(w, L, G, edges) /\ w[1] \in edges[w[L]]

\* What lies between two visits of a node is a closed walk.
LEMMA WalksCloseBetweenVisits ==
    ASSUME NEW G, NEW edges, NEW L \in Nat, NEW w, IsWalk(w, L, G, edges),
           NEW i \in 1 .. L, NEW j \in 1 .. L, i < j, w[i] = w[j]
    PROVE  j - i \in Nat /\ j - i # 0 /\ \E v : IsClosedWalk(v, j - i, G, edges)
<1> DEFINE N == j - i
           v == [k \in 1 .. N |-> w[k + i - 1]]
<1>1. N \in Nat /\ N # 0 /\ N >= 1
    OBVIOUS
<1>2. \A k \in 1 .. N : k + i - 1 \in 1 .. L /\ v[k] = w[k + i - 1]
    OBVIOUS
<1>3. v \in [1 .. N -> G]
    BY <1>2 DEF IsWalk
<1>4. \A k \in 1 .. N - 1 : v[k + 1] \in edges[v[k]]
    <2> SUFFICES ASSUME NEW k \in 1 .. N - 1 PROVE v[k + 1] \in edges[v[k]]
        OBVIOUS
    <2>1. k \in 1 .. N /\ k + 1 \in 1 .. N /\ (k + 1) + i - 1 = (k + i - 1) + 1
        BY <1>1
    <2>2. k + i - 1 \in 1 .. L - 1
        BY <1>1
    <2>3. v[k] = w[k + i - 1] /\ v[k + 1] = w[(k + i - 1) + 1]
        BY <1>2, <2>1
    <2> HIDE DEF v
    <2> QED
        BY <2>2, <2>3 DEF IsWalk
<1>5. v[1] \in edges[v[N]]
    <2>1. 1 \in 1 .. N /\ N \in 1 .. N /\ 1 + i - 1 = i /\ N + i - 1 = j - 1
        BY <1>1
    <2>2. v[1] = w[j] /\ v[N] = w[j - 1]
        BY <1>2, <2>1
    <2>3. j - 1 \in 1 .. L - 1 /\ (j - 1) + 1 = j
        OBVIOUS
    <2>4. w[(j - 1) + 1] \in edges[w[j - 1]]
        BY <2>3 DEF IsWalk
    <2> HIDE DEF v
    <2> QED
        BY <2>2, <2>3, <2>4
<1> HIDE DEF v, N
<1>6. IsClosedWalk(v, N, G, edges)
    BY <1>3, <1>4, <1>5 DEF IsClosedWalk, IsWalk
<1> QED
    BY <1>1, <1>6 DEF N

\* If each node of a finite set has an edge to one of the set, then there is a cycle
\* that visits no node twice.
LEMMA SimpleCycleExists ==
    ASSUME NEW G, IsFiniteSet(G), G # {}, NEW edges, \A g \in G : edges[g] \cap G # {}
    PROVE  \E L \in Nat \ {0} : \E w : /\ IsClosedWalk(w, L, G, edges)
                                       /\ \A i, j \in 1 .. L : w[i] = w[j] => i = j
<1> DEFINE TooLong == {L \in Nat : \A w : ~IsWalk(w, L, G, edges)}
           Lengths == {L \in Nat \ {0} : \E w : IsClosedWalk(w, L, G, edges)}
<1>1. TooLong = {}
    <2> SUFFICES ASSUME TooLong # {} PROVE FALSE
        OBVIOUS
    <2>1. PICK L \in TooLong : \A M \in TooLong : L <= M
        <3>1. TooLong \in SUBSET Nat
            OBVIOUS
        <3> HIDE DEF TooLong
        <3> QED
            BY <3>1, LeastNumber
    <2>2. L # 0
        <3>1. IsWalk([i \in 1 .. 0 |-> 0], 0, G, edges)
            BY DEF IsWalk
        <3> QED
            BY <2>1, <3>1
    <2>3. L # 1
        <3>1. PICK g \in G : TRUE
            OBVIOUS
        <3>2. IsWalk([i \in 1 .. 1 |-> g], 1, G, edges)
            BY DEF IsWalk
        <3> QED
            BY <2>1, <3>2
    <2>4. L \in Nat /\ L - 1 \in Nat /\ L - 1 >= 1
        BY <2>1, <2>2, <2>3
    <2>5. L - 1 \notin TooLong
        <3> HIDE DEF TooLong
        <3> QED
            BY <2>1, <2>4
    <2>6. PICK w : IsWalk(w, L - 1, G, edges)
        BY <2>4, <2>5
    <2>7. w[L - 1] \in G
        BY <2>4, <2>6 DEF IsWalk
    <2>8. PICK next \in G : next \in edges[w[L - 1]]
        BY <2>7
    <2> DEFINE v == [i \in 1 .. L |-> IF i = L THEN next ELSE w[i]]
    <2>9. v[L] = next /\ \A i \in 1 .. L - 1 : v[i] = w[i]
        BY <2>4
    <2>10. v \in [1 .. L -> G]
        BY <2>4, <2>6 DEF IsWalk
    <2> HIDE DEF v
    <2>11. \A i \in 1 .. L - 1 : v[i + 1] \in edges[v[i]]
        <3> SUFFICES ASSUME NEW i \in 1 .. L - 1 PROVE v[i + 1] \in edges[v[i]]
            OBVIOUS
        <3>1. CASE i = L - 1
            BY <2>4, <2>8, <2>9, <3>1
        <3>2. CASE i # L - 1
            <4>1. i \in 1 .. (L - 1) - 1 /\ i + 1 \in 1 .. L - 1
                BY <2>4, <3>2
            <4>2. w[i + 1] \in edges[w[i]]
                BY <2>6, <4>1 DEF IsWalk
            <4> QED
                BY <2>9, <4>1, <4>2
        <3> QED
            BY <3>1, <3>2
    <2>12. IsWalk(v, L, G, edges)
        BY <2>10, <2>11 DEF IsWalk
    <2> QED
        BY <2>1, <2>12
<1>2. Lengths # {}
    <2>1. Cardinality(G) \in Nat
        BY FS_CardinalityType
    <2> DEFINE L == Cardinality(G) + 1
               Steps == 1 .. L
    <2>2. L \in Nat
        BY <2>1
    <2>3. PICK w : IsWalk(w, L, G, edges)
        BY <1>1, <2>2
    <2>4. IsFiniteSet(Steps) /\ Cardinality(Steps) = L
        <3>1. 1 \in Int /\ L \in Int /\ ~(1 > L) /\ L - 1 + 1 = L
            BY <2>1
        <3> HIDE DEF L
        <3> QED
            BY <3>1, FS_Interval, Zenon DEF Steps
    <2>5. w \in [Steps -> G] /\ Cardinality(G) < Cardinality(Steps)
        BY <2>1, <2>3, <2>4 DEF IsWalk
    <2> HIDE DEF L
    <2>6. \E i, j \in Steps : i # j /\ w[i] = w[j]
        <3> HIDE DEF Steps
        <3> QED
            BY <2>4, <2>5, FS_PigeonHole
    <2>7. PICK i \in 1 .. L, j \in 1 .. L : i < j /\ w[i] = w[j]
        BY <2>2, <2>6
    <2> QED
        BY <2>2, <2>3, <2>7, WalksCloseBetweenVisits
<1>3. PICK L \in Lengths : \A M \in Lengths : L <= M
    <2>1. Lengths \in SUBSET Nat
        OBVIOUS
    <2> HIDE DEF Lengths
    <2> QED
        BY <1>2, <2>1, LeastNumber
<1>4. PICK w : IsClosedWalk(w, L, G, edges)
    OBVIOUS
<1>5. ASSUME NEW i \in 1 .. L, NEW j \in 1 .. L, w[i] = w[j], i < j PROVE FALSE
    <2>1. L \in Nat /\ IsWalk(w, L, G, edges)
        BY <1>4 DEF IsClosedWalk
    <2>2. j - i \in Lengths
        BY <1>5, <2>1, WalksCloseBetweenVisits
    <2>3. ~(L <= j - i)
        BY <1>5, <2>1
    <2> HIDE DEF Lengths
    <2> QED
        BY <1>3, <2>2, <2>3
<1>6. \A i, j \in 1 .. L : w[i] = w[j] => i = j
    <2> SUFFICES ASSUME NEW i \in 1 .. L, NEW j \in 1 .. L, w[i] = w[j], i # j PROVE FALSE
        OBVIOUS
    <2>1. i < j \/ j < i
        OBVIOUS
    <2> HIDE DEF Lengths
    <2> QED
        BY <1>5, <2>1
<1> QED
    BY <1>4, <1>6

\* getCycle finds one if there is one: when it finds none, no two nodes of
\* different groups depend on each other.
LEMMA NoCyclesLeft ==
    ASSUME GroupTypeOK, IsFiniteSet(Nodes), Cycles = {},
           NEW n \in source.nodes, NEW m \in source.nodes,
           m \in Reachable(source.dependsOn, {n}), n \in Reachable(source.dependsOn, {m})
    PROVE  groupKey[n] = groupKey[m]
<1> SUFFICES ASSUME groupKey[n] # groupKey[m] PROVE FALSE
    OBVIOUS
<1> DEFINE deps == source.dependsOn
           V == {k \in source.nodes : k \in Reachable(deps, {n}) /\ n \in Reachable(deps, {k})}
           G == {groupKey[k] : k \in V}
           edges == [group \in Groups |-> GroupDependsOn(group)]
           levels == LevelsOf(Groups, edges)
           withOrder == levels[Cardinality(Groups)]
<1>1. /\ deps \in [Nodes -> SUBSET Nodes] /\ source.nodes \subseteq Nodes
      /\ \A k \in Nodes : deps[k] \subseteq source.nodes
      /\ IsFiniteSet(source.nodes)
    BY FS_Subset DEF GroupTypeOK
<1> HIDE DEF deps
<1>2. n \in V /\ m \in V /\ V \subseteq source.nodes
    BY <1>1, ReachableIsClosed DEF deps
<1>3. \A k, j \in V : j \in Reachable(deps, {k})
    <2> SUFFICES ASSUME NEW k \in V, NEW j \in V PROVE j \in Reachable(deps, {k})
        OBVIOUS
    <2>1. k \in Nodes /\ n \in Reachable(deps, {k}) /\ j \in Reachable(deps, {n})
        BY <1>1
    <2> QED
        BY <1>1, <2>1, ReachableIsTransitive
\* Each group of the component depends on another one of it.
<1>4. ASSUME NEW g \in G PROVE g \in Groups /\ edges[g] \cap G # {}
    <2>1. PICK k \in V : groupKey[k] = g
        OBVIOUS
    <2>2. PICK t \in V : groupKey[t] # g
        <3> HIDE DEF V
        <3> QED
            BY <1>2
    <2>3. g \in Groups
        BY <2>1 DEF Groups
    <2>4. \E x \in V : \E y \in deps[x] : y \in V /\ groupKey[x] = g /\ groupKey[y] # g
        <3> SUFFICES ASSUME \A x \in V : \A y \in deps[x] :
                               y \in V /\ groupKey[x] = g => groupKey[y] = g
                     PROVE  FALSE
            OBVIOUS
        <3> DEFINE S == {j \in Reachable(deps, {k}) : j \in V => groupKey[j] = g}
        <3>1. k \in Nodes /\ n \in Reachable(deps, {k}) /\ k \in Reachable(deps, {n})
            BY <1>1
        <3>2. /\ k \in Reachable(deps, {k}) /\ Reachable(deps, {k}) \subseteq Nodes
              /\ \A j \in Reachable(deps, {k}) : deps[j] \subseteq Reachable(deps, {k})
            BY <1>1, <3>1, ReachableIsClosed
        <3>3. S \in SUBSET Nodes /\ {k} \subseteq S
            BY <2>1, <3>2
        <3>4. ASSUME NEW j \in S, NEW y \in deps[j] PROVE y \in S
            <4>1. j \in Nodes /\ y \in Reachable(deps, {k}) /\ y \in Nodes /\ y \in source.nodes
                BY <1>1, <3>2, <3>4
            <4> SUFFICES ASSUME y \in V PROVE groupKey[y] = g
                BY <4>1
            <4>2. j \in Reachable(deps, {n})
                BY <1>1, <3>1, <3>4, ReachableIsTransitive
            <4>3. n \in Reachable(deps, {j})
                <5>1. y \in Reachable(deps, {j})
                    BY <1>1, <3>4, <4>1, ReachableIsClosed
                <5> QED
                    BY <1>1, <4>1, <5>1, ReachableIsTransitive
            <4>4. j \in source.nodes
                <5> DEFINE D == {i \in Nodes : i \in source.nodes}
                <5>1. D \in SUBSET Nodes /\ {k} \subseteq D /\ \A i \in D : deps[i] \subseteq D
                    BY <1>1
                <5> HIDE DEF D
                <5>2. Reachable(deps, {k}) \subseteq D
                    BY <5>1, ReachableIsLeast
                <5> QED
                    BY <3>4, <5>2 DEF D
            <4>5. j \in V /\ groupKey[j] = g
                BY <3>4, <4>2, <4>3, <4>4
            <4> QED
                BY <3>4, <4>5
        <3>5. t \in S
            <4>1. Reachable(deps, {k}) \subseteq S
                <5> HIDE DEF S
                <5> QED
                    BY <3>3, <3>4, ReachableIsLeast
            <4>2. t \in Reachable(deps, {k})
                <5> HIDE DEF V, S
                <5> QED
                    BY <1>3, <2>1, <2>2
            <4> QED
                BY <4>1, <4>2
        <3> QED
            BY <2>2, <3>5
    <2>5. PICK x \in V : \E y \in deps[x] : y \in V /\ groupKey[x] = g /\ groupKey[y] # g
        BY <2>4
    <2>6. PICK y \in deps[x] : y \in V /\ groupKey[x] = g /\ groupKey[y] # g
        BY <2>5
    <2>7. groupKey[y] \in GroupDependsOn(g) /\ groupKey[y] \in G
        <3>1. x \in source.nodes /\ groupKey[y] \in G
            BY <1>2, <2>6
        <3> HIDE DEF G, V
        <3> QED
            BY <2>6, <3>1 DEF GroupDependsOn, Members, deps
    <2>8. edges[g] = GroupDependsOn(g)
        BY <2>3
    <2> HIDE DEF G, V, edges
    <2> QED
        BY <2>3, <2>7, <2>8
<1> HIDE DEF V, edges
\* So none of them is in a level.
<1>5. IsFiniteSet(Groups) /\ Cardinality(Groups) \in Nat
    BY <1>1, GroupsAreFew, FS_CardinalityType
<1>6. G \cap withOrder = {}
    <2> DEFINE Bad == {k \in 0 .. Cardinality(Groups) : G \cap levels[k] # {}}
    <2> SUFFICES ASSUME Bad # {} PROVE FALSE
        <3>1. Cardinality(Groups) \in 0 .. Cardinality(Groups)
            BY <1>5
        <3> HIDE DEF levels
        <3> QED
            BY <3>1
    <2>1. /\ levels[0] = {}
          /\ \A k \in 1 .. Cardinality(Groups) :
               levels[k] = {g \in Groups : edges[g] \cap Groups \subseteq levels[k - 1]}
        BY <1>5, LevelsGrow
    <2> HIDE DEF levels
    <2>2. PICK k \in Bad : \A j \in Bad : k <= j
        <3>1. Bad \in SUBSET Nat
            OBVIOUS
        <3> HIDE DEF Bad
        <3> QED
            BY <3>1, LeastNumber
    <2>3. k \in 1 .. Cardinality(Groups) /\ k - 1 \in 0 .. Cardinality(Groups) /\ ~(k <= k - 1)
        BY <1>5, <2>1
    <2>4. PICK g \in G : g \in levels[k]
        OBVIOUS
    <2>5. PICK h \in G : h \in edges[g]
        BY <1>4
    <2>6. h \in levels[k - 1]
        BY <1>4, <2>1, <2>3, <2>4, <2>5
    <2>7. k - 1 \in Bad
        BY <2>3, <2>6
    <2> HIDE DEF Bad
    <2> QED
        BY <2>2, <2>3, <2>7
<1>7. G \subseteq Groups \ withOrder /\ G # {} /\ IsFiniteSet(G)
    <2>1. G \subseteq Groups /\ G # {}
        BY <1>2, <1>4
    <2> HIDE DEF G, withOrder
    <2> QED
        BY <1>5, <1>6, <2>1, FS_Subset
<1> HIDE DEF G
<1>8. PICK L \in Nat \ {0} : \E w : /\ IsClosedWalk(w, L, G, edges)
                                    /\ \A i, j \in 1 .. L : w[i] = w[j] => i = j
    BY <1>4, <1>7, SimpleCycleExists
<1>9. PICK c : /\ IsClosedWalk(c, L, G, edges)
               /\ \A i, j \in 1 .. L : c[i] = c[j] => i = j
    BY <1>8
<1> DEFINE s == {c[i] : i \in 1 .. L}
<1>10. /\ c \in [1 .. L -> G] /\ \A i \in 1 .. L - 1 : c[i + 1] \in edges[c[i]]
       /\ c[1] \in edges[c[L]]
    BY <1>9 DEF IsClosedWalk, IsWalk
<1>11. s \subseteq G /\ c \in [1 .. L -> s]
    BY <1>10
<1>12. Cardinality(s) = L
    <2> DEFINE D == 1 .. L
    <2>1. IsFiniteSet(D) /\ Cardinality(D) = L
        <3>1. 1 \in Int /\ L \in Int /\ ~(1 > L) /\ L - 1 + 1 = L
            OBVIOUS
        <3> QED
            BY <3>1, FS_Interval, Zenon
    <2>2. c \in Surjection(D, s) /\ c \in Injection(D, s)
        BY <1>9, <1>11 DEF Surjection, Injection, IsInjective
    <2> HIDE DEF D, s
    <2> QED
        BY <2>1, <2>2, FS_Surjection
<1>13. c \in SetToSeqs(s)
    <2> HIDE DEF s
    <2> QED
        BY <1>9, <1>11, <1>12 DEF SetToSeqs
<1>14. c \in SetToAllKPermutations(Groups \ withOrder)
    <2> HIDE DEF s, withOrder
    <2> QED
        BY <1>7, <1>11, <1>13 DEF SetToAllKPermutations
<1>15. Len(c) = L /\ c # <<>>
    BY <1>10
<1>16. \A i \in 1 .. Len(c) : c[(i % Len(c)) + 1] \in edges[c[i]]
    <2> SUFFICES ASSUME NEW i \in 1 .. L PROVE c[(i % L) + 1] \in edges[c[i]]
        BY <1>15
    <2>1. CASE i = L
        <3>1. L % L = 0
            OBVIOUS
        <3> QED
            BY <1>10, <2>1, <3>1
    <2>2. CASE i # L
        <3>1. i % L = i /\ i \in 1 .. L - 1
            BY <2>2
        <3> QED
            BY <1>10, <3>1
    <2> QED
        BY <2>1, <2>2
<1>17. c \in Cycles
    <2> HIDE DEF s
    <2> QED
        BY <1>14, <1>15, <1>16 DEF Cycles, edges
<1> QED
    BY <1>17

----------------------------------------------------------------------------
(* What is left of the plan. *)

\* The sets that the steps of a plan move nodes between.
NodesOK ==
    /\ diffGraph \in [Nodes -> SUBSET Nodes]
    /\ planned \subseteq Nodes
    /\ source.nodes \subseteq Nodes
    /\ removedCycles \subseteq SUBSET Nodes

\* What is left of the graph needs nothing that was dropped.
PlannedIsClosed == \A n \in planned : diffGraph[n] \subseteq planned

DroppedIsExplained ==
    \A n \in Nodes \ planned : n \in invalid \cup dependencyErrors \/ IsFieldOf(n, invalid)

\* As long as no cycle is removed, the graph being grouped holds the whole plan.
SourceHoldsThePlan ==
    phase \in {"group", "regroup", "planned"} /\ removedCycles = {} =>
        source.nodes = {NodeOrParent(n, planned) : n \in planned}

NoneRemovedFromThePlan == phase = "planned" => removedCycles = {}

\* What the proofs below keep invariant.
IInv ==
    /\ NodesOK
    /\ PlannedIsClosed
    /\ DroppedIsExplained
    /\ SourceHoldsThePlan
    /\ NoneRemovedFromThePlan

----------------------------------------------------------------------------

LEMMA InitEstablishesIInv == Init => IInv
<1> SUFFICES ASSUME Init PROVE IInv
    OBVIOUS
<1>1. diffGraph \in [Nodes -> SUBSET Nodes]
    BY PlanAssumption DEF Init
<1>2. NodesOK
    BY <1>1 DEF Init, NodesOK
<1>3. PlannedIsClosed
    BY <1>1 DEF Init, PlannedIsClosed
<1>4. DroppedIsExplained /\ SourceHoldsThePlan /\ NoneRemovedFromThePlan
    BY DEF Init, DroppedIsExplained, SourceHoldsThePlan, NoneRemovedFromThePlan
<1> QED
    BY <1>2, <1>3, <1>4 DEF IInv

\* A field is merged with a change of the same graph.
LEMMA NodeOrParentIsANode ==
    ASSUME NEW nodes \in SUBSET Nodes, NEW n \in nodes
    PROVE  NodeOrParent(n, nodes) \in nodes
BY DEF NodeOrParent

\* The edges that lead to a rejected change, backwards.
LEMMA ReversedWithinIsAGraph ==
    ASSUME NEW S \in SUBSET Nodes, NEW edges
    PROVE  ReversedWithin(S, edges) \in [Nodes -> SUBSET Nodes]
BY DEF ReversedWithin

\* Dropping a rejected change and all that needs it leaves a closed set.
LEMMA FilteringKeepsDependencies ==
    ASSUME NodesOK, PlannedIsClosed, NEW rejected \in SUBSET Nodes,
           NEW n \in ValidNodes(rejected), NEW m \in diffGraph[n]
    PROVE  m \in ValidNodes(rejected)
<1> DEFINE edges == ReversedWithin(planned, diffGraph)
           dropped == Reachable(edges, rejected)
<1>1. edges \in [Nodes -> SUBSET Nodes]
    BY ReversedWithinIsAGraph DEF NodesOK
<1>2. \A k \in dropped : edges[k] \subseteq dropped
    BY <1>1, ReachableIsClosed
<1>3. n \in planned /\ n \notin dropped /\ m \in planned /\ m \in Nodes
    BY DEF ValidNodes, PlannedIsClosed, NodesOK
<1>4. n \in edges[m]
    BY <1>3 DEF ReversedWithin
<1>5. m \notin dropped
    BY <1>2, <1>3, <1>4
<1> QED
    BY <1>3, <1>5 DEF ValidNodes

\* A change that is dropped was rejected, or its error names the cause, or it is
\* a field of a rejected type.
LEMMA FilteringExplains ==
    ASSUME NodesOK, NEW rejected \in SUBSET Nodes, NEW circular \in SUBSET rejected,
           NEW n \in planned \ ValidNodes(rejected)
    PROVE  \/ n \in rejected \cup DependencyErrorsOf(rejected, circular)
           \/ IsFieldOf(n, rejected)
<1> DEFINE edges == ReversedWithin(planned, diffGraph)
<1>1. edges \in [Nodes -> SUBSET Nodes]
    BY ReversedWithinIsAGraph DEF NodesOK
<1>2. n \in Reachable(edges, rejected)
    BY DEF ValidNodes
<1>3. PICK cause \in rejected : n \in Reachable(edges, {cause})
    BY <1>1, <1>2, ReachableFromOne
<1>4. CASE n \in rejected
    BY <1>4
<1>5. CASE IsFieldOf(n, {cause})
    BY <1>5 DEF IsFieldOf
<1>6. CASE n \notin rejected /\ ~IsFieldOf(n, {cause})
    <2> DEFINE named(c) == {k \in Reachable(edges, {c}) :
                              k \notin circular \cup {c} /\ ~IsFieldOf(k, {c})}
    <2>1. n \in named(cause)
        BY <1>3, <1>6
    <2>2. DependencyErrorsOf(rejected, circular) = UNION {named(c) : c \in rejected}
        BY DEF DependencyErrorsOf
    <2> QED
        BY <2>1, <2>2
<1> QED
    BY <1>4, <1>5, <1>6

\* Both steps that filter the plan and group what is left.
LEMMA FilteringKeepsIInv ==
    ASSUME IInv, NEW rejected \in SUBSET Nodes, NEW circular \in SUBSET rejected,
           FilterInvalidChanges(rejected, circular),
           BuildGroupedGraph(ValidNodes(rejected)),
           UNCHANGED inputVars, phase' # "planned"
    PROVE  IInv'
<1> USE DEF IInv
<1>1. planned' = ValidNodes(rejected) /\ planned' \subseteq planned /\ planned' \subseteq Nodes
    BY DEF FilterInvalidChanges, ValidNodes, NodesOK
<1>2. diffGraph' = diffGraph /\ keys' = keys
    BY DEF inputVars
<1>3. source' = WithoutRedundantFieldNodes(planned') /\ removedCycles' = {}
    BY <1>1 DEF BuildGroupedGraph, BuildAcyclicGroupedGraph
<1>4. source'.nodes = {NodeOrParent(n, planned') : n \in planned'}
    BY <1>3 DEF WithoutRedundantFieldNodes
<1>5. source'.nodes \subseteq Nodes
    BY <1>1, <1>4, NodeOrParentIsANode
<1>6. NodesOK'
    BY <1>1, <1>2, <1>3, <1>5 DEF NodesOK
<1>7. PlannedIsClosed'
    BY <1>1, <1>2, FilteringKeepsDependencies DEF PlannedIsClosed
<1>8. DroppedIsExplained'
    <2> SUFFICES ASSUME NEW n \in Nodes \ planned'
                 PROVE  n \in invalid' \cup dependencyErrors' \/ IsFieldOf(n, invalid')
        BY DEF DroppedIsExplained, IsFieldOf
    <2>1. /\ invalid' = invalid \cup rejected
          /\ dependencyErrors' = dependencyErrors \cup DependencyErrorsOf(rejected, circular)
        BY DEF FilterInvalidChanges
    <2>2. CASE n \in planned
        <3>1. \/ n \in rejected \cup DependencyErrorsOf(rejected, circular)
              \/ IsFieldOf(n, rejected)
            BY <1>1, <2>2, FilteringExplains
        <3> QED
            BY <2>1, <3>1 DEF IsFieldOf
    <2>3. CASE n \notin planned
        BY <2>1, <2>3 DEF DroppedIsExplained, IsFieldOf
    <2> QED
        BY <2>2, <2>3
<1>9. SourceHoldsThePlan'
    BY <1>2, <1>4 DEF SourceHoldsThePlan, NodeOrParent
<1>10. NoneRemovedFromThePlan'
    BY DEF NoneRemovedFromThePlan
<1> QED
    BY <1>6, <1>7, <1>8, <1>9, <1>10

\* A step of grouping leaves the graph alone, or removes some of its nodes.
LEMMA GroupingKeepsIInv ==
    ASSUME IInv, BuildStep
    PROVE  IInv'
<1> USE DEF IInv
<1>1. /\ phase \in {"group", "regroup"}
      /\ UNCHANGED <<diffGraph, keys, planned, invalid, dependencyErrors, phase>>
    BY DEF BuildStep, inputVars
<1>2. \/ UNCHANGED <<source, removedCycles>>
      \/ \E c : RemoveCycle(c)
    BY DEF BuildStep, BuildGroups, SplitGroup
<1>3. PlannedIsClosed' /\ DroppedIsExplained' /\ NoneRemovedFromThePlan'
    BY <1>1 DEF PlannedIsClosed, DroppedIsExplained, IsFieldOf, NoneRemovedFromThePlan
<1>4. CASE UNCHANGED <<source, removedCycles>>
    BY <1>1, <1>3, <1>4 DEF NodesOK, SourceHoldsThePlan, NodeOrParent
<1>5. CASE \E c : RemoveCycle(c)
    <2>1. PICK c : RemoveCycle(c)
        BY <1>5
    <2> DEFINE ids == {n \in source.nodes : \E i \in 1 .. Len(c) : groupKey[n] = c[i]}
    <2>2. source' = CloneWithout(ids) /\ removedCycles' = removedCycles \cup {ids}
        BY <2>1 DEF RemoveCycle
    <2>3. source'.nodes = source.nodes \ ids
        BY <2>2 DEF CloneWithout
    <2>4. NodesOK'
        <3>1. ids \in SUBSET Nodes
            BY DEF NodesOK
        <3> HIDE DEF ids
        <3> QED
            BY <1>1, <2>2, <2>3, <3>1 DEF NodesOK
    <2>5. removedCycles' # {}
        BY <2>2
    <2>6. SourceHoldsThePlan'
        BY <2>5 DEF SourceHoldsThePlan
    <2> QED
        BY <1>3, <2>4, <2>6
<1> QED
    BY <1>2, <1>4, <1>5

LEMMA NextKeepsIInv ==
    ASSUME IInv, [Next]_vars
    PROVE  IInv'
<1> USE DEF IInv
<1>1. ASSUME NEW rejected \in SUBSET Nodes, Validate(rejected) PROVE IInv'
    BY <1>1, FilteringKeepsIInv DEF Validate
<1>2. CASE BuildStep
    BY <1>2, GroupingKeepsIInv
<1>3. CASE PlanIsReady
    <2>1. /\ phase \in {"group", "regroup"} /\ removedCycles = {}
          /\ UNCHANGED <<diffGraph, keys, planned, invalid, dependencyErrors,
                         source, removedCycles>>
        BY <1>3 DEF PlanIsReady, inputVars, groupVars
    <2> QED
        BY <2>1 DEF NodesOK, PlannedIsClosed, DroppedIsExplained, IsFieldOf,
                    SourceHoldsThePlan, NodeOrParent, NoneRemovedFromThePlan
<1>4. CASE FilterCycles
    <2>1. UNION removedCycles \in SUBSET Nodes
        BY DEF NodesOK
    <2> QED
        BY <1>4, <2>1, FilteringKeepsIInv DEF FilterCycles
<1>5. CASE PlanFails
    <2>1. /\ phase' = "failed"
          /\ UNCHANGED <<diffGraph, keys, planned, invalid, dependencyErrors,
                         source, removedCycles>>
        BY <1>5 DEF PlanFails, inputVars, groupVars
    <2> QED
        BY <2>1 DEF NodesOK, PlannedIsClosed, DroppedIsExplained, IsFieldOf,
                    SourceHoldsThePlan, NoneRemovedFromThePlan
<1>6. CASE UNCHANGED vars
    <2>1. UNCHANGED <<diffGraph, keys, planned, invalid, dependencyErrors,
                      source, removedCycles, phase>>
        BY <1>6 DEF vars, inputVars, groupVars
    <2> QED
        BY <2>1 DEF NodesOK, PlannedIsClosed, DroppedIsExplained, IsFieldOf,
                    SourceHoldsThePlan, NodeOrParent, NoneRemovedFromThePlan
<1> QED
    BY <1>1, <1>2, <1>3, <1>4, <1>5, <1>6 DEF Next

LEMMA IInvIsInvariant == Spec => []IInv
<1>1. Init => IInv
    BY InitEstablishesIInv
<1>2. IInv /\ [Next]_vars => IInv'
    BY NextKeepsIInv
<1> QED
    BY <1>1, <1>2, PTL DEF Spec

----------------------------------------------------------------------------

\* Nothing is deployed on top of a change that was dropped from the plan, whatever
\* changes are rejected and however the cycles of groups are broken.
THEOREM PlannedChangesAlwaysHaveTheirDependencies ==
    Spec => []PlannedChangesHaveTheirDependencies
<1>1. IInv => PlannedChangesHaveTheirDependencies
    BY DEF IInv, PlannedIsClosed, PlannedChangesHaveTheirDependencies
<1> QED
    BY <1>1, IInvIsInvariant, PTL

\* No change is lost between the diff and the plan: it is in a group, or reported.
THEOREM DroppedChangesAreAlwaysReported == Spec => []DroppedChangesAreReported
<1>1. IInv => DroppedChangesAreReported
    <2> SUFFICES ASSUME IInv, phase = "planned", NEW n \in Nodes
                 PROVE  \/ n \in planned /\ NodeOrParent(n, planned) \in source.nodes
                        \/ n \in invalid \cup dependencyErrors
                        \/ IsFieldOf(n, invalid)
        BY DEF DroppedChangesAreReported
    <2>1. source.nodes = {NodeOrParent(k, planned) : k \in planned}
        BY DEF IInv, SourceHoldsThePlan, NoneRemovedFromThePlan
    <2> QED
        BY <2>1 DEF IInv, DroppedIsExplained
<1> QED
    BY <1>1, IInvIsInvariant, PTL

----------------------------------------------------------------------------
(* The groups of the plan. *)

\* A group is of the key of its nodes.
GroupsFollowKeys == \A n \in source.nodes : groupKey[n][1] = keys[n]

\* What is left to be grouped depends on what the plan says, as far as it is left.
SourceIsOfThePlan ==
    phase \in {"group", "regroup"} =>
        \A n \in source.nodes :
            source.dependsOn[n] =
                WithoutRedundantFieldNodes(planned).dependsOn[n] \cap source.nodes

GroupsAreRanked == building # "failed" => \E rank \in [Nodes -> Nat] : RanksGroups(rank)

\* What the proofs below keep invariant.
GroupsInv ==
    /\ TypeOK
    /\ GroupsFollowKeys
    /\ SourceIsOfThePlan
    /\ GroupsAreRanked
    /\ RemovedNodesHoldACycle

\* The nodes of S hold a cycle of changes with different keys.
HoldsACycle(S) ==
    LET edges == Within(S, WithoutRedundantFieldNodes(planned).dependsOn)
    IN  \E n \in S : \E m \in {k \in S : keys[k] # keys[n]} :
            n \in Reachable(edges, {m}) /\ m \in Reachable(edges, {n})

\* As long as the plan is the same, what held a cycle still does.
LEMMA RemovedStillHoldACycle ==
    ASSUME RemovedNodesHoldACycle, UNCHANGED <<diffGraph, keys, planned>>,
           phase' \in {phase, "planned", "failed"},
           \A S \in removedCycles' : S \in removedCycles \/ HoldsACycle(S)
    PROVE  RemovedNodesHoldACycle'
<1>1. WithoutRedundantFieldNodes(planned)' = WithoutRedundantFieldNodes(planned)
    BY DEF WithoutRedundantFieldNodes, NodeOrParent
<1>2. keys' = keys
    OBVIOUS
<1>3. \A S : HoldsACycle(S)' <=> HoldsACycle(S)
    BY <1>1, <1>2, Zenon DEF HoldsACycle
<1>4. phase' \in {"group", "regroup"} => phase \in {"group", "regroup"}
    OBVIOUS
<1>5. phase \in {"group", "regroup"} => \A S \in removedCycles : HoldsACycle(S)
    BY Zenon DEF RemovedNodesHoldACycle, HoldsACycle
<1>6. phase' \in {"group", "regroup"} => \A S \in removedCycles' : HoldsACycle(S)'
    BY <1>3, <1>4, <1>5, Zenon
<1> QED
    BY <1>6, Zenon DEF RemovedNodesHoldACycle, HoldsACycle

\* The graph is still of the plan, if both are left as they are.
LEMMA SourceIsStillOfThePlan ==
    ASSUME SourceIsOfThePlan, UNCHANGED <<diffGraph, keys, planned, source>>,
           phase' \in {phase, "planned", "failed"}
    PROVE  SourceIsOfThePlan'
<1>1. WithoutRedundantFieldNodes(planned)' = WithoutRedundantFieldNodes(planned)
    BY DEF WithoutRedundantFieldNodes, NodeOrParent
<1> QED
    BY <1>1 DEF SourceIsOfThePlan

LEMMA InitEstablishesGroupsInv == Init => GroupsInv
<1> SUFFICES ASSUME Init PROVE GroupsInv
    OBVIOUS
<1>1. source.nodes = {} /\ \A n \in Nodes : source.dependsOn[n] = {}
    BY DEF Init
<1>2. GroupTypeOK
    BY <1>1 DEF Init, GroupTypeOK
<1>3. TypeOK
    BY <1>1, <1>2 DEF Init, TypeOK, Fields
<1>4. GroupsFollowKeys /\ SourceIsOfThePlan /\ RemovedNodesHoldACycle
    BY <1>1 DEF Init, GroupsFollowKeys, SourceIsOfThePlan, RemovedNodesHoldACycle
<1>5. GroupsAreRanked
    <2>1. [n \in Nodes |-> 0] \in [Nodes -> Nat] /\ RanksGroups([n \in Nodes |-> 0])
        BY <1>1 DEF RanksGroups
    <2> QED
        BY <2>1 DEF GroupsAreRanked
<1> QED
    BY <1>3, <1>4, <1>5 DEF GroupsInv

\* Merging fields with their types leaves a graph of changes.
LEMMA MergedGraphTypes ==
    ASSUME NEW nodes \in SUBSET Nodes
    PROVE  LET merged == WithoutRedundantFieldNodes(nodes) IN
           /\ merged \in [nodes : SUBSET Nodes, dependsOn : [Nodes -> SUBSET Nodes]]
           /\ \A n \in Nodes : merged.dependsOn[n] \subseteq merged.nodes
<1> DEFINE kept == {NodeOrParent(n, nodes) : n \in nodes}
           needs == [p \in Nodes |->
                       {NodeOrParent(m, nodes) : m \in
                           UNION {diffGraph[n] \cap nodes :
                                    n \in {k \in nodes : NodeOrParent(k, nodes) = p}}}
                       \ {p}]
<1>1. WithoutRedundantFieldNodes(nodes) = [nodes |-> kept, dependsOn |-> needs]
    BY DEF WithoutRedundantFieldNodes
<1>2. kept \subseteq Nodes
    BY NodeOrParentIsANode
<1>3. \A p \in Nodes : needs[p] \subseteq kept
    OBVIOUS
<1>4. needs \in [Nodes -> SUBSET Nodes]
    BY <1>2, <1>3
<1> HIDE DEF kept, needs
<1> QED
    BY <1>1, <1>2, <1>3, <1>4

\* The groups that are built from a graph are ranked by their numbers, unless a
\* disjoint group has a cycle.
LEMMA DisjointGroupsAreRanked ==
    ASSUME NEW src \in [nodes : SUBSET Nodes, dependsOn : [Nodes -> SUBSET Nodes]],
           \A n \in Nodes : src.dependsOn[n] \subseteq src.nodes,
           BuildAcyclicGroupedGraph(src, keys, disjoint), UNCHANGED keys,
           building' # "failed"
    PROVE  /\ \A n \in src.nodes : groupKey'[n][2] \in Numbers
           /\ \E rank \in [Nodes -> Nat] : RanksGroups(rank)'
<1> DEFINE groupOf(n) == {m \in src.nodes : keys[m] = keys[n]}
           place(n) == Place(n, groupOf(n), src.dependsOn)
<1>1. source' = src /\ keys' = keys
    BY DEF BuildAcyclicGroupedGraph
<1>2. \A n \in src.nodes :
        groupKey'[n] = <<keys[n], IF keys[n] \in disjoint THEN place(n) ELSE 0>>
    BY DEF BuildAcyclicGroupedGraph, BreakToDisjointGroups, Place
<1>3. \A n \in src.nodes : keys[n] \in disjoint => ~IsCyclic(groupOf(n), src.dependsOn)
    BY DEF BuildAcyclicGroupedGraph
<1>4. \A n \in src.nodes : /\ groupOf(n) \subseteq Nodes /\ n \in groupOf(n)
                           /\ IsFiniteSet(groupOf(n))
                           /\ Cardinality(groupOf(n)) <= Cardinality(Nodes)
    BY PlanAssumption, FS_Subset
<1>5. IsFiniteSet(Nodes) /\ Cardinality(Nodes) \in Nat
    BY PlanAssumption, FS_CardinalityType
<1>6. \A n, m \in src.nodes : keys[m] = keys[n] => groupOf(m) = groupOf(n)
    OBVIOUS
<1> HIDE DEF groupOf
<1>7. ASSUME NEW n \in src.nodes, keys[n] \in disjoint
      PROVE  /\ place(n) \in Numbers /\ place(n) \in Nat
             /\ \A m \in src.dependsOn[n] \cap groupOf(n) :
                    Place(m, groupOf(n), src.dependsOn) < place(n)
    <2>1. /\ place(n) \in 0 .. Cardinality(groupOf(n))
          /\ \A m \in src.dependsOn[n] \cap groupOf(n) :
                 Place(m, groupOf(n), src.dependsOn) < place(n)
        BY <1>3, <1>4, <1>7, PlacesAreOrdered
    <2>2. Cardinality(groupOf(n)) \in Nat
        BY <1>4, FS_CardinalityType
    <2> QED
        BY <1>4, <1>5, <2>1, <2>2 DEF Numbers
<1> HIDE DEF place
<1>8. \A n \in src.nodes : groupKey'[n][2] \in Numbers /\ groupKey'[n][2] \in Nat
    <2> SUFFICES ASSUME NEW n \in src.nodes
                 PROVE  groupKey'[n][2] \in Numbers /\ groupKey'[n][2] \in Nat
        OBVIOUS
    <2>1. groupKey'[n][2] = IF keys[n] \in disjoint THEN place(n) ELSE 0
        BY <1>2
    <2>2. 0 \in Numbers
        BY <1>5 DEF Numbers
    <2> QED
        BY <1>7, <2>1, <2>2
<1>9. PICK rank \in [Nodes -> Nat] : \A n \in src.nodes : rank[n] = groupKey'[n][2]
    <2> DEFINE number == [n \in Nodes |-> IF n \in src.nodes THEN groupKey'[n][2] ELSE 0]
    <2>1. number \in [Nodes -> Nat] /\ \A n \in src.nodes : number[n] = groupKey'[n][2]
        BY <1>8
    <2> HIDE DEF number
    <2> QED
        BY <2>1
<1>10. ASSUME NEW n \in src.nodes, NEW m \in src.dependsOn[n], keys[m] = keys[n]
       PROVE  IF groupKey'[m] = groupKey'[n] THEN rank[m] = rank[n] ELSE rank[m] < rank[n]
    <2>1. m \in src.nodes /\ n \in Nodes /\ m \in Nodes
        BY <1>10
    <2>2. rank[m] = groupKey'[m][2] /\ rank[n] = groupKey'[n][2]
        BY <1>9, <2>1
    <2>3. CASE keys[n] \in disjoint
        <3>1. m \in groupOf(n) /\ place(m) = Place(m, groupOf(n), src.dependsOn)
            BY <1>6, <1>10, <2>1 DEF groupOf, place
        <3>2. place(m) < place(n) /\ place(n) \in Nat /\ place(m) \in Nat
            BY <1>7, <1>10, <2>1, <2>3, <3>1
        <3>3. groupKey'[m] = <<keys[n], place(m)>> /\ groupKey'[n] = <<keys[n], place(n)>>
            BY <1>2, <1>10, <2>1, <2>3
        <3> QED
            BY <2>2, <3>2, <3>3
    <2>4. CASE keys[n] \notin disjoint
        <3>1. groupKey'[m] = <<keys[n], 0>> /\ groupKey'[n] = <<keys[n], 0>>
            BY <1>2, <1>10, <2>1, <2>4
        <3> QED
            BY <2>2, <3>1
    <2> QED
        BY <2>3, <2>4
<1>11. RanksGroups(rank)'
    BY <1>1, <1>10 DEF RanksGroups
<1> QED
    BY <1>8, <1>11

\* Filtering: the changes that get an error are not planned any more, and the new
\* graph is grouped from the start.
LEMMA FilteringKeepsGroups ==
    ASSUME GroupsInv, NEW rejected \in SUBSET Nodes, NEW circular \in SUBSET rejected,
           FilterInvalidChanges(rejected, circular),
           BuildGroupedGraph(ValidNodes(rejected)),
           UNCHANGED inputVars, phase' \in {"group", "regroup"}
    PROVE  GroupsInv'
<1> DEFINE edges == ReversedWithin(planned, diffGraph)
           src == WithoutRedundantFieldNodes(planned')
<1>1. TypeOK /\ planned \subseteq Nodes
    BY DEF GroupsInv, TypeOK
<1>2. UNCHANGED <<diffGraph, keys, disjoint>>
    BY DEF inputVars
<1>3. /\ planned' = planned \ Reachable(edges, rejected)
      /\ invalid' = invalid \cup rejected
      /\ dependencyErrors' = dependencyErrors \cup DependencyErrorsOf(rejected, circular)
      /\ valueFields' = FieldsShown(rejected)
    BY DEF FilterInvalidChanges, ValidNodes
<1>4. edges \in [Nodes -> SUBSET Nodes]
    BY <1>1, ReversedWithinIsAGraph
<1>5. BuildAcyclicGroupedGraph(src, keys, disjoint)
    BY <1>3 DEF BuildGroupedGraph, ValidNodes
<1>6. /\ source' = src /\ removedCycles' = {} /\ building' \in {"failed", "building"}
      /\ groupKey' = BreakToDisjointGroups(src, keys, disjoint)
    BY <1>5 DEF BuildAcyclicGroupedGraph
<1>7. /\ src \in [nodes : SUBSET Nodes, dependsOn : [Nodes -> SUBSET Nodes]]
      /\ \A n \in Nodes : src.dependsOn[n] \subseteq src.nodes
    <2>1. planned' \in SUBSET Nodes
        BY <1>1, <1>3
    <2> QED
        BY <1>2, <2>1, MergedGraphTypes
<1> HIDE DEF edges, src
<1>8. building' # "failed" => /\ \A n \in src.nodes : groupKey'[n][2] \in Numbers
                              /\ \E rank \in [Nodes -> Nat] : RanksGroups(rank)'
    BY <1>2, <1>5, <1>7, DisjointGroupsAreRanked
<1>9. GroupTypeOK'
    BY <1>6, <1>7, <1>8 DEF GroupTypeOK
<1>10. /\ rejected \subseteq Nodes \ planned'
       /\ DependencyErrorsOf(rejected, circular) \subseteq Nodes \ planned'
    <2>1. rejected \subseteq Reachable(edges, rejected) /\ Reachable(edges, rejected) \subseteq Nodes
        BY <1>4, ReachableIsClosed
    <2>2. ASSUME NEW cause \in rejected
          PROVE  Reachable(edges, {cause}) \subseteq Reachable(edges, rejected)
        <3> DEFINE R == Reachable(edges, rejected)
        <3>1. R \in SUBSET Nodes /\ {cause} \subseteq R /\ \A m \in R : edges[m] \subseteq R
            BY <1>4, ReachableIsClosed
        <3> HIDE DEF R
        <3>2. Reachable(edges, {cause}) \subseteq R
            BY <3>1, ReachableIsLeast
        <3> QED
            BY <3>2 DEF R
    <2>3. DependencyErrorsOf(rejected, circular) \subseteq
              UNION {Reachable(edges, {cause}) : cause \in rejected}
        BY DEF DependencyErrorsOf, edges
    <2>4. DependencyErrorsOf(rejected, circular) \subseteq Reachable(edges, rejected)
        BY <2>2, <2>3
    <2> QED
        BY <1>3, <2>1, <2>4
<1>11. planned' \subseteq planned
    BY <1>3
<1>12. /\ invalid' \subseteq Nodes \ planned'
       /\ dependencyErrors' \subseteq Nodes \ planned'
    BY <1>1, <1>3, <1>10, <1>11 DEF TypeOK
<1>13. \A n \in Nodes : valueFields'[n] \subseteq Fields(n)
    BY <1>1, <1>3 DEF TypeOK, FieldsShown
<1>14. TypeOK'
    BY <1>1, <1>6, <1>7, <1>9, <1>11, <1>12, <1>13 DEF TypeOK, Fields
<1>15. GroupsFollowKeys'
    <2>1. \A n \in src.nodes : groupKey'[n][1] = keys[n]
        BY <1>6 DEF BreakToDisjointGroups
    <2> QED
        BY <1>2, <1>6, <2>1 DEF GroupsFollowKeys
<1>16. SourceIsOfThePlan'
    <2>1. \A n \in src.nodes : src.dependsOn[n] = src.dependsOn[n] \cap src.nodes
        BY <1>7
    <2>2. WithoutRedundantFieldNodes(planned)' = src
        BY <1>2 DEF src, WithoutRedundantFieldNodes, NodeOrParent
    <2> QED
        BY <1>6, <2>1, <2>2 DEF SourceIsOfThePlan
<1>17. GroupsAreRanked'
    BY <1>8 DEF GroupsAreRanked
<1>18. RemovedNodesHoldACycle'
    BY <1>6 DEF RemovedNodesHoldACycle
<1> QED
    BY <1>14, <1>15, <1>16, <1>17, <1>18 DEF GroupsInv

\* There is a number left for the group that is split off.
LEMMA ANumberIsUnused ==
    ASSUME IsFiniteSet(source.nodes), source.nodes \subseteq Nodes, NEW key
    PROVE  \E k \in Numbers :
              <<key, k>> \notin Groups /\ \A j \in Numbers : <<key, j>> \notin Groups => k <= j
<1> DEFINE unused == {k \in Numbers : <<key, k>> \notin Groups}
           f == [k \in Numbers |-> <<key, k>>]
<1>1. IsFiniteSet(Nodes) /\ Cardinality(Nodes) \in Nat
    BY PlanAssumption, FS_CardinalityType
<1>2. IsFiniteSet(Groups) /\ Cardinality(Groups) <= Cardinality(source.nodes)
    BY GroupsAreFew
<1>3. Cardinality(source.nodes) <= Cardinality(Nodes)
    BY <1>1, FS_Subset
<1>4. Cardinality(Groups) \in Nat /\ Cardinality(source.nodes) \in Nat
    BY <1>2, FS_CardinalityType
<1>5. Cardinality(Numbers) = Cardinality(Nodes) + 1
    <2>1. 0 \in Int /\ Cardinality(Nodes) \in Int /\ ~(0 > Cardinality(Nodes))
        BY <1>1
    <2>2. Cardinality(0 .. Cardinality(Nodes)) = Cardinality(Nodes) - 0 + 1
        BY <2>1, FS_Interval, Zenon
    <2> QED
        BY <1>1, <2>2 DEF Numbers
<1>6. unused # {}
    <2> SUFFICES ASSUME unused = {} PROVE FALSE
        OBVIOUS
    <2>1. f \in Injection(Numbers, Groups)
        BY DEF Injection, IsInjective
    <2>2. Cardinality(Numbers) <= Cardinality(Groups)
        BY <1>2, <2>1, FS_Injection
    <2> QED
        BY <1>1, <1>2, <1>3, <1>4, <1>5, <2>2
<1>7. unused \in SUBSET Nat
    BY <1>1 DEF Numbers
<1>8. PICK k \in unused : \A j \in unused : k <= j
    <2> HIDE DEF unused
    <2> QED
        BY <1>6, <1>7, LeastNumber
<1> QED
    BY <1>8

\* Splitting a group: the part that leaves needs nothing of the group that stays.
LEMMA SplittingKeepsGroups ==
    ASSUME GroupsInv, BuildStep, building = "building", NEW c \in Cycles, SplitGroup(c)
    PROVE  GroupsInv'
<1>1. /\ TypeOK /\ GroupTypeOK /\ GroupsFollowKeys /\ SourceIsOfThePlan
      /\ RemovedNodesHoldACycle
    BY DEF GroupsInv, TypeOK
<1>2. /\ UNCHANGED <<source, removedCycles, building>>
      /\ UNCHANGED <<diffGraph, keys, planned, valueFields, invalid, dependencyErrors, phase>>
    BY DEF SplitGroup, BuildStep, inputVars
<1>3. /\ source.dependsOn \in [Nodes -> SUBSET Nodes] /\ source.nodes \subseteq Nodes
      /\ \A n \in Nodes : source.dependsOn[n] \subseteq source.nodes
      /\ IsFiniteSet(source.nodes)
    BY <1>1, PlanAssumption, FS_Subset DEF GroupTypeOK
<1>4. PICK i \in 1 .. Len(c) : \E part \in PartsAt(c, i) :
         LET key == c[(i % Len(c)) + 1][1]
             unused == {k \in Numbers : <<key, k>> \notin Groups}
         IN  groupKey' = [n \in source.nodes |->
                            IF n \in part
                            THEN <<key, CHOOSE k \in unused : \A j \in unused : k <= j>>
                            ELSE groupKey[n]]
    BY DEF SplitGroup
<1> DEFINE group == c[(i % Len(c)) + 1]
           unused == {k \in Numbers : <<group[1], k>> \notin Groups}
           inside == Within(Members(group), source.dependsOn)
<1>5. PICK part \in PartsAt(c, i) :
         groupKey' = [n \in source.nodes |->
                        IF n \in part
                        THEN <<group[1], CHOOSE k \in unused : \A j \in unused : k <= j>>
                        ELSE groupKey[n]]
    BY <1>4
<1>6. PICK start \in Members(group) : part = Reachable(inside, {start})
    BY <1>5 DEF PartsAt, PartsToSplit
<1> HIDE DEF group
<1>7. /\ inside \in [Nodes -> SUBSET Nodes] /\ Members(group) \in SUBSET Nodes
      /\ \A n \in Nodes : inside[n] = source.dependsOn[n] \cap Members(group)
    BY <1>3 DEF Within, Members
<1> HIDE DEF inside
<1>8. part \subseteq Members(group)
    <2>1. \A m \in Members(group) : inside[m] \subseteq Members(group)
        BY <1>7
    <2> QED
        BY <1>6, <1>7, <2>1, ReachableIsLeast
<1>9. \A n \in part : \A m \in source.dependsOn[n] : m \in part \/ m \notin Members(group)
    <2>1. start \in Nodes
        BY <1>7
    <2>2. \A n \in Reachable(inside, {start}) : inside[n] \subseteq Reachable(inside, {start})
        BY <1>7, <2>1, ReachableIsClosed
    <2>3. \A n \in part : inside[n] \subseteq part
        BY <1>6, <2>2, Zenon
    <2> QED
        BY <1>7, <1>8, <2>3
<1>10. PICK number \in unused :
          groupKey' = [n \in source.nodes |->
                         IF n \in part THEN <<group[1], number>> ELSE groupKey[n]]
    <2>1. \E k \in unused : \A j \in unused : k <= j
        BY <1>3, ANumberIsUnused
    <2>2. (CHOOSE k \in unused : \A j \in unused : k <= j) \in unused
        <3> HIDE DEF unused
        <3> QED
            BY <2>1, Zenon
    <2> HIDE DEF unused
    <2> QED
        BY <1>5, <2>2, Zenon
<1>11. number \in Numbers /\ <<group[1], number>> \notin Groups
    OBVIOUS
<1>12. \A n \in source.nodes :
          groupKey'[n] = IF n \in part THEN <<group[1], number>> ELSE groupKey[n]
    BY <1>10
<1> HIDE DEF unused
<1>13. \A n \in part : n \in source.nodes /\ groupKey[n] = group
    BY <1>8 DEF Members
<1>14. \A n \in source.nodes : groupKey[n] \in Groups
    BY DEF Groups
<1>15. \A n \in source.nodes : groupKey'[n][1] = groupKey[n][1]
    BY <1>12, <1>13
<1>16. \A n \in source.nodes : groupKey'[n][2] \in Numbers
    BY <1>1, <1>11, <1>12 DEF GroupTypeOK
<1>17. GroupTypeOK'
    BY <1>1, <1>2, <1>16 DEF GroupTypeOK
<1>18. TypeOK'
    BY <1>1, <1>2, <1>17 DEF TypeOK, Fields
<1>19. GroupsFollowKeys'
    BY <1>1, <1>2, <1>15 DEF GroupsFollowKeys
<1>20. SourceIsOfThePlan' /\ RemovedNodesHoldACycle'
    BY <1>1, <1>2, SourceIsStillOfThePlan, RemovedStillHoldACycle
<1>21. GroupsAreRanked'
    <2>1. PICK rank \in [Nodes -> Nat] : RanksGroups(rank)
        BY DEF GroupsInv, GroupsAreRanked
    <2> DEFINE split == [n \in Nodes |-> IF n \in part THEN 2 * rank[n] ELSE 2 * rank[n] + 1]
    <2>2. split \in [Nodes -> Nat]
        OBVIOUS
    <2>3. ASSUME NEW n \in source.nodes, NEW m \in source.dependsOn[n], keys[m] = keys[n]
          PROVE  IF groupKey'[m] = groupKey'[n] THEN split[m] = split[n] ELSE split[m] < split[n]
        <3>1. m \in source.nodes /\ m \in Nodes /\ n \in Nodes
            BY <1>3, <2>3
        <3>2. /\ split[m] = IF m \in part THEN 2 * rank[m] ELSE 2 * rank[m] + 1
              /\ split[n] = IF n \in part THEN 2 * rank[n] ELSE 2 * rank[n] + 1
              /\ rank[m] \in Nat /\ rank[n] \in Nat
            BY <3>1
        <3> HIDE DEF split
        <3>3. IF groupKey[m] = groupKey[n] THEN rank[m] = rank[n] ELSE rank[m] < rank[n]
            BY <2>1, <2>3 DEF RanksGroups
        <3>4. CASE n \in part /\ m \in part
            <4>1. groupKey[m] = groupKey[n] /\ groupKey'[m] = groupKey'[n]
                BY <1>12, <1>13, <3>1, <3>4
            <4> QED
                BY <3>2, <3>3, <3>4, <4>1
        <3>5. CASE n \in part /\ m \notin part
            <4>1. groupKey[m] # groupKey[n]
                BY <1>9, <1>13, <3>1, <3>5 DEF Members
            <4>2. groupKey'[m] # groupKey'[n]
                BY <1>11, <1>12, <1>14, <3>1, <3>5
            <4> QED
                BY <3>2, <3>3, <3>5, <4>1, <4>2
        <3>6. CASE n \notin part /\ m \in part
            <4>1. groupKey'[m] # groupKey'[n]
                BY <1>11, <1>12, <1>14, <3>1, <3>6
            <4> QED
                BY <3>2, <3>3, <3>6, <4>1
        <3>7. CASE n \notin part /\ m \notin part
            <4>1. groupKey'[m] = groupKey[m] /\ groupKey'[n] = groupKey[n]
                BY <1>12, <3>1, <3>7
            <4> QED
                BY <3>2, <3>3, <3>7, <4>1
        <3> QED
            BY <3>4, <3>5, <3>6, <3>7
    <2>4. PICK r \in [Nodes -> Nat] : r = split
        BY <2>2
    <2>5. RanksGroups(r)'
        <3> HIDE DEF split
        <3> QED
            BY <1>2, <2>3, <2>4 DEF RanksGroups
    <2> QED
        BY <2>5 DEF GroupsAreRanked
<1> QED
    BY <1>18, <1>19, <1>20, <1>21 DEF GroupsInv

\* Removing a cycle that cannot be broken: its nodes hold a cycle of changes.
LEMMA RemovingKeepsGroups ==
    ASSUME GroupsInv, BuildStep, building = "building", NEW c \in Cycles, RemoveCycle(c)
    PROVE  GroupsInv'
<1> DEFINE ids == {n \in source.nodes : \E i \in 1 .. Len(c) : groupKey[n] = c[i]}
           merged == WithoutRedundantFieldNodes(planned)
<1>1. /\ TypeOK /\ GroupTypeOK /\ GroupsFollowKeys /\ SourceIsOfThePlan
      /\ RemovedNodesHoldACycle
    BY DEF GroupsInv, TypeOK
<1>2. /\ CannotBeBroken(c) /\ source' = CloneWithout(ids)
      /\ groupKey' = [n \in source.nodes \ ids |-> groupKey[n]]
      /\ removedCycles' = removedCycles \cup {ids}
      /\ UNCHANGED building
    BY DEF RemoveCycle
<1>3. /\ UNCHANGED <<diffGraph, keys, planned, valueFields, invalid, dependencyErrors, phase>>
      /\ phase \in {"group", "regroup"}
    BY DEF BuildStep, inputVars
<1>4. /\ source.dependsOn \in [Nodes -> SUBSET Nodes] /\ source.nodes \subseteq Nodes
      /\ \A n \in Nodes : source.dependsOn[n] \subseteq source.nodes
    BY <1>1 DEF GroupTypeOK
<1>5. ids \subseteq source.nodes
    OBVIOUS
<1>6. PICK rank \in [Nodes -> Nat] : RanksGroups(rank)
    BY DEF GroupsInv, GroupsAreRanked
<1>7. PICK edges \in [Nodes -> SUBSET Nodes] : edges = Within(ids, merged.dependsOn)
    <2>1. merged.dependsOn \in [Nodes -> SUBSET Nodes]
        BY <1>1, MergedGraphTypes DEF TypeOK
    <2> HIDE DEF ids, merged
    <2> QED
        BY <2>1 DEF Within
<1>8. \A n \in ids : edges[n] = source.dependsOn[n] \cap ids
    <2> SUFFICES ASSUME NEW n \in ids PROVE edges[n] = source.dependsOn[n] \cap ids
        OBVIOUS
    <2>1. n \in Nodes /\ n \in source.nodes
        BY <1>4
    <2> HIDE DEF ids
    <2>2. edges[n] = merged.dependsOn[n] \cap ids
        BY <1>7, <2>1 DEF Within
    <2>3. source.dependsOn[n] = merged.dependsOn[n] \cap source.nodes
        BY <1>1, <1>3, <2>1 DEF SourceIsOfThePlan
    <2> QED
        BY <1>5, <2>2, <2>3
<1>9. HoldsACycle(ids)
    <2>1. \E n \in ids : \E m \in {k \in ids : keys[k] # keys[n]} :
              n \in Reachable(edges, {m}) /\ m \in Reachable(edges, {n})
        BY <1>1, <1>2, <1>6, <1>8, PlanAssumption, UnbreakableCyclesHoldACycle
    <2> HIDE DEF ids
    <2> QED
        BY <1>7, <2>1 DEF HoldsACycle
<1> HIDE DEF ids, merged
<1>10. /\ source' = [nodes |-> source.nodes \ ids,
                    dependsOn |-> [n \in Nodes |-> IF n \in ids THEN {}
                                                   ELSE source.dependsOn[n] \ ids]]
    BY <1>2 DEF CloneWithout
<1>11. /\ source'.nodes = source.nodes \ ids
       /\ source'.dependsOn \in [Nodes -> SUBSET Nodes]
       /\ \A n \in Nodes : source'.dependsOn[n] \subseteq source'.nodes
       /\ \A n \in source'.nodes : source'.dependsOn[n] = source.dependsOn[n] \ ids
    BY <1>4, <1>10
<1>12. source' \in [nodes : SUBSET Nodes, dependsOn : [Nodes -> SUBSET Nodes]]
    BY <1>4, <1>10
<1>13. \A n \in source'.nodes : n \in source.nodes /\ groupKey'[n] = groupKey[n]
    BY <1>2, <1>11
<1>14. GroupTypeOK'
    <2>1. removedCycles' \subseteq SUBSET (Nodes \ source'.nodes)
        BY <1>1, <1>2, <1>4, <1>5, <1>11 DEF GroupTypeOK
    <2> QED
        BY <1>1, <1>2, <1>11, <1>12, <1>13, <2>1 DEF GroupTypeOK
<1>15. TypeOK'
    BY <1>1, <1>3, <1>4, <1>11, <1>14 DEF TypeOK, Fields
<1>16. GroupsFollowKeys'
    BY <1>1, <1>3, <1>13 DEF GroupsFollowKeys
<1>17. merged' = merged
    BY <1>3 DEF merged, WithoutRedundantFieldNodes, NodeOrParent
<1>18. SourceIsOfThePlan'
    <2>1. \A n \in source'.nodes :
             source'.dependsOn[n] = merged.dependsOn[n] \cap source'.nodes
        BY <1>1, <1>3, <1>11, <1>13 DEF SourceIsOfThePlan, merged
    <2> QED
        BY <1>17, <2>1 DEF SourceIsOfThePlan, merged
<1>19. GroupsAreRanked'
    <2>1. RanksGroups(rank)'
        <3> SUFFICES ASSUME NEW n \in source'.nodes, NEW m \in source'.dependsOn[n],
                            keys[m] = keys[n]
                     PROVE  IF groupKey'[m] = groupKey'[n] THEN rank[m] = rank[n]
                                                           ELSE rank[m] < rank[n]
            BY <1>3 DEF RanksGroups
        <3>1. n \in Nodes /\ m \in source'.nodes /\ m \in source.dependsOn[n]
            BY <1>4, <1>11, <1>13
        <3> QED
            BY <1>6, <1>13, <3>1 DEF RanksGroups
    <2> QED
        BY <2>1 DEF GroupsAreRanked
<1>20. RemovedNodesHoldACycle'
    BY <1>1, <1>2, <1>3, <1>9, RemovedStillHoldACycle
<1> QED
    BY <1>15, <1>16, <1>18, <1>19, <1>20 DEF GroupsInv

LEMMA GroupingKeepsGroups ==
    ASSUME GroupsInv, BuildStep
    PROVE  GroupsInv'
<1>1. building = "building"
    BY DEF BuildStep, BuildGroups
<1>2. CASE building' = "built" /\ UNCHANGED <<source, groupKey, removedCycles>>
    <2>1. UNCHANGED <<diffGraph, keys, planned, valueFields, invalid, dependencyErrors, phase>>
        BY DEF BuildStep, inputVars
    <2>2. GroupTypeOK'
        BY <1>1, <1>2 DEF GroupsInv, TypeOK, GroupTypeOK
    <2>3. TypeOK' /\ GroupsFollowKeys'
        BY <1>2, <2>1, <2>2 DEF GroupsInv, TypeOK, Fields, GroupsFollowKeys
    <2>4. SourceIsOfThePlan' /\ RemovedNodesHoldACycle'
        BY <1>2, <2>1, SourceIsStillOfThePlan, RemovedStillHoldACycle DEF GroupsInv
    <2>5. GroupsAreRanked'
        BY <1>1, <1>2, <2>1 DEF GroupsInv, GroupsAreRanked, RanksGroups
    <2> QED
        BY <2>3, <2>4, <2>5 DEF GroupsInv
<1>3. ASSUME NEW c \in Cycles, SplitGroup(c) \/ RemoveCycle(c) PROVE GroupsInv'
    BY <1>1, <1>3, SplittingKeepsGroups, RemovingKeepsGroups
<1> QED
    BY <1>2, <1>3 DEF BuildStep, BuildGroups

LEMMA NextKeepsGroups ==
    ASSUME GroupsInv, [Next]_vars
    PROVE  GroupsInv'
<1>1. ASSUME NEW rejected \in SUBSET Nodes, Validate(rejected) PROVE GroupsInv'
    BY <1>1, FilteringKeepsGroups DEF Validate
<1>2. CASE BuildStep
    BY <1>2, GroupingKeepsGroups
<1>3. CASE FilterCycles
    <2>1. UNION removedCycles \in SUBSET Nodes
        BY DEF GroupsInv, TypeOK, GroupTypeOK
    <2> QED
        BY <1>3, <2>1, FilteringKeepsGroups DEF FilterCycles
<1>4. CASE PlanIsReady \/ PlanFails \/ UNCHANGED vars
    <2>1. /\ UNCHANGED <<diffGraph, keys, planned, valueFields, invalid, dependencyErrors,
                         source, groupKey, removedCycles, building>>
          /\ phase' \in {phase, "planned", "failed"}
        BY <1>4 DEF PlanIsReady, PlanFails, vars, inputVars, groupVars
    <2>2. GroupTypeOK'
        BY <2>1 DEF GroupsInv, TypeOK, GroupTypeOK
    <2>3. TypeOK' /\ GroupsFollowKeys'
        BY <2>1, <2>2 DEF GroupsInv, TypeOK, Fields, GroupsFollowKeys
    <2>4. SourceIsOfThePlan' /\ RemovedNodesHoldACycle'
        BY <2>1, SourceIsStillOfThePlan, RemovedStillHoldACycle DEF GroupsInv
    <2>5. GroupsAreRanked'
        BY <2>1 DEF GroupsInv, GroupsAreRanked, RanksGroups
    <2> QED
        BY <2>3, <2>4, <2>5 DEF GroupsInv
<1> QED
    BY <1>1, <1>2, <1>3, <1>4 DEF Next

LEMMA GroupsInvIsInvariant == Spec => []GroupsInv
<1>1. Init => GroupsInv
    BY InitEstablishesGroupsInv
<1>2. GroupsInv /\ [Next]_vars => GroupsInv'
    BY NextKeepsGroups
<1> QED
    BY <1>1, <1>2, PTL DEF Spec

----------------------------------------------------------------------------
(* The second iteration. *)

\* Changes with different keys depend on each other.
DependOnEachOther(edges) ==
    \E n, m \in Nodes : /\ keys[n] # keys[m]
                        /\ m \in Reachable(edges, {n}) /\ n \in Reachable(edges, {m})

\* What is grouped is the plan without the cycles that were removed, and what the
\* second iteration starts from has no cycle to remove.
SecondInv ==
    /\ diffGraph \in Graphs
    /\ building = "built" => Cycles = {}
    /\ phase = "group" =>
           source.nodes = WithoutRedundantFieldNodes(planned).nodes \ UNION removedCycles
    /\ phase = "regroup" => ~DependOnEachOther(WithoutRedundantFieldNodes(planned).dependsOn)
    /\ phase = "failed" => building = "failed"

\* The comment of createGroupedGraphAndChangeErrors.
SecondIterationRemovesNoCycles == phase = "regroup" => removedCycles = {}

\* A plan fails only for a cycle within a disjoint group.
OnlyDisjointGroupsFail == phase = "failed" => building = "failed"

\* More edges make longer paths.
LEMMA ReachableIsMonotone ==
    ASSUME NEW edges \in [Nodes -> SUBSET Nodes], NEW fewer \in [Nodes -> SUBSET Nodes],
           \A n \in Nodes : fewer[n] \subseteq edges[n], NEW from \in SUBSET Nodes
    PROVE  Reachable(fewer, from) \subseteq Reachable(edges, from)
<1> DEFINE R == Reachable(edges, from)
<1>1. R \in SUBSET Nodes /\ from \subseteq R /\ \A k \in R : edges[k] \subseteq R
    BY ReachableIsClosed
<1> HIDE DEF R
<1>2. Reachable(fewer, from) \subseteq R
    BY <1>1, ReachableIsLeast
<1> QED
    BY <1>2 DEF R

\* In the second iteration nothing holds a cycle, so nothing was removed.
LEMMA NothingToRemove ==
    ASSUME GroupsInv, SecondInv, phase = "regroup"
    PROVE  removedCycles = {}
<1> SUFFICES ASSUME NEW S \in removedCycles PROVE FALSE
    OBVIOUS
<1> DEFINE edges == WithoutRedundantFieldNodes(planned).dependsOn
<1>1. edges \in [Nodes -> SUBSET Nodes] /\ S \subseteq Nodes
    BY MergedGraphTypes DEF GroupsInv, TypeOK, GroupTypeOK
<1>2. HoldsACycle(S)
    BY Zenon DEF GroupsInv, RemovedNodesHoldACycle, HoldsACycle
<1> HIDE DEF edges
<1>3. PICK n \in S : \E m \in {k \in S : keys[k] # keys[n]} :
         n \in Reachable(Within(S, edges), {m}) /\ m \in Reachable(Within(S, edges), {n})
    BY <1>2, Zenon DEF HoldsACycle, edges
<1>4. PICK m \in S : /\ keys[m] # keys[n]
                     /\ n \in Reachable(Within(S, edges), {m})
                     /\ m \in Reachable(Within(S, edges), {n})
    BY <1>3
<1>5. /\ Within(S, edges) \in [Nodes -> SUBSET Nodes]
      /\ \A k \in Nodes : Within(S, edges)[k] \subseteq edges[k]
    BY <1>1 DEF Within
<1>6. n \in Nodes /\ m \in Nodes
    BY <1>1
<1>7. n \in Reachable(edges, {m}) /\ m \in Reachable(edges, {n})
    BY <1>1, <1>4, <1>5, <1>6, ReachableIsMonotone
<1>8. DependOnEachOther(edges)
    BY <1>4, <1>6, <1>7 DEF DependOnEachOther
<1> QED
    BY <1>8 DEF SecondInv, edges

\* Fields are merged with the types that they are merged with in the whole graph: a
\* type is kept with its fields, since they depend on it.
LEMMA MergingIsKept ==
    ASSUME diffGraph \in Graphs, NEW nodes \in SUBSET Nodes, NEW kept \in SUBSET nodes,
           \A n \in kept : diffGraph[n] \subseteq kept
    PROVE  LET all == WithoutRedundantFieldNodes(nodes)
               rest == WithoutRedundantFieldNodes(kept)
           IN  /\ rest.nodes \subseteq all.nodes \cap kept
               /\ \A p \in Nodes : rest.dependsOn[p] \subseteq all.dependsOn[p]
<1>1. \A n \in kept : NodeOrParent(n, kept) = NodeOrParent(n, nodes)
    <2> SUFFICES ASSUME NEW n \in kept PROVE NodeOrParent(n, kept) = NodeOrParent(n, nodes)
        OBVIOUS
    <2>1. CASE n \in DOMAIN TypeChange /\ TypeChange[n] \in AddedOrRemoved
        <3>1. TypeChange[n] \in diffGraph[n]
            BY <2>1, PlanAssumption, Zenon
        <3>2. TypeChange[n] \in kept /\ TypeChange[n] \in nodes
            BY <3>1
        <3> QED
            BY <3>2 DEF NodeOrParent
    <2>2. CASE ~(n \in DOMAIN TypeChange /\ TypeChange[n] \in AddedOrRemoved)
        BY <2>2 DEF NodeOrParent
    <2> QED
        BY <2>1, <2>2
<1> DEFINE all == WithoutRedundantFieldNodes(nodes)
           rest == WithoutRedundantFieldNodes(kept)
<1>2. rest.nodes \subseteq all.nodes /\ rest.nodes \subseteq kept
    <2>1. /\ rest.nodes = {NodeOrParent(n, kept) : n \in kept}
          /\ all.nodes = {NodeOrParent(n, nodes) : n \in nodes}
        BY DEF WithoutRedundantFieldNodes
    <2>2. \A n \in kept : NodeOrParent(n, kept) \in kept
        BY NodeOrParentIsANode
    <2> HIDE DEF all, rest
    <2> QED
        BY <1>1, <2>1, <2>2
<1>3. ASSUME NEW p \in Nodes, NEW d \in rest.dependsOn[p] PROVE d \in all.dependsOn[p]
    <2>1. d # p /\ \E n \in kept : \E m \in diffGraph[n] \cap kept :
              NodeOrParent(n, kept) = p /\ d = NodeOrParent(m, kept)
        BY <1>3 DEF WithoutRedundantFieldNodes
    <2>2. PICK n \in kept : \E m \in diffGraph[n] \cap kept :
              NodeOrParent(n, kept) = p /\ d = NodeOrParent(m, kept)
        BY <2>1
    <2>3. PICK m \in diffGraph[n] \cap kept :
              NodeOrParent(n, kept) = p /\ d = NodeOrParent(m, kept)
        BY <2>2
    <2>4. /\ n \in nodes /\ NodeOrParent(n, nodes) = p
          /\ m \in diffGraph[n] \cap nodes /\ d = NodeOrParent(m, nodes)
        BY <1>1, <2>3
    <2> QED
        BY <2>1, <2>4 DEF WithoutRedundantFieldNodes
<1> QED
    BY <1>2, <1>3

\* What the second iteration starts from: without the removed cycles and all that
\* needs them, no changes with different keys depend on each other.
LEMMA SecondIterationStartsWithoutCycles ==
    ASSUME IInv, IInv', GroupsInv, SecondInv, FilterCycles
    PROVE  ~DependOnEachOther(WithoutRedundantFieldNodes(planned).dependsOn)'
<1> DEFINE all == WithoutRedundantFieldNodes(planned)
           rest == WithoutRedundantFieldNodes(planned')
           rejected == UNION removedCycles
<1>1. /\ phase = "group" /\ building = "built" /\ planned' = ValidNodes(rejected)
      /\ UNCHANGED <<diffGraph, keys>>
    BY DEF FilterCycles, FilterInvalidChanges, inputVars
<1>2. /\ GroupTypeOK /\ GroupsFollowKeys /\ SourceIsOfThePlan
      /\ planned \in SUBSET Nodes /\ rejected \in SUBSET Nodes
    BY DEF GroupsInv, TypeOK, GroupTypeOK
<1>3. planned' \in SUBSET planned /\ planned' \cap rejected = {}
    <2>1. rejected \subseteq Reachable(ReversedWithin(planned, diffGraph), rejected)
        BY <1>2, ReversedWithinIsAGraph, ReachableIsClosed
    <2> HIDE DEF rejected
    <2> QED
        BY <1>1, <2>1 DEF ValidNodes
<1>4. \A n \in planned' : diffGraph[n] \subseteq planned'
    BY <1>1 DEF IInv, PlannedIsClosed
<1>5. /\ rest.nodes \subseteq all.nodes \cap planned'
      /\ \A p \in Nodes : rest.dependsOn[p] \subseteq all.dependsOn[p]
    BY <1>2, <1>3, <1>4, MergingIsKept DEF SecondInv
<1>6. /\ rest \in [nodes : SUBSET Nodes, dependsOn : [Nodes -> SUBSET Nodes]]
      /\ \A n \in Nodes : rest.dependsOn[n] \subseteq rest.nodes
    BY <1>2, <1>3, MergedGraphTypes
<1>7. source.nodes = all.nodes \ rejected
    BY <1>1 DEF SecondInv
<1>8. rest.nodes \subseteq source.nodes
    <2> HIDE DEF all, rest, rejected
    <2> QED
        BY <1>3, <1>5, <1>7
<1>9. \A n \in source.nodes : source.dependsOn[n] = all.dependsOn[n] \cap source.nodes
    BY <1>1, <1>2 DEF SourceIsOfThePlan
<1>10. WithoutRedundantFieldNodes(planned)' = rest
    BY <1>1 DEF WithoutRedundantFieldNodes, NodeOrParent
<1> DEFINE edges == rest.dependsOn
<1>11. edges \in [Nodes -> SUBSET Nodes] /\ source.dependsOn \in [Nodes -> SUBSET Nodes]
    BY <1>2, <1>6 DEF GroupTypeOK
<1>12. \A n \in rest.nodes : edges[n] \subseteq source.dependsOn[n]
    <2> SUFFICES ASSUME NEW n \in rest.nodes PROVE edges[n] \subseteq source.dependsOn[n]
        OBVIOUS
    <2>1. n \in Nodes /\ n \in source.nodes
        BY <1>6, <1>8
    <2> HIDE DEF all, rest
    <2> QED
        BY <1>5, <1>6, <1>8, <1>9, <2>1
<1> HIDE DEF all, rest, rejected
<1>13. ASSUME NEW n \in Nodes, NEW m \in Reachable(edges, {n}), n # m
       PROVE  m \in rest.nodes
    <2> DEFINE T == {k \in Nodes : k = n \/ k \in rest.nodes}
    <2>1. T \in SUBSET Nodes /\ {n} \subseteq T /\ \A k \in T : edges[k] \subseteq T
        BY <1>6
    <2> HIDE DEF T
    <2>2. Reachable(edges, {n}) \subseteq T
        BY <2>1, ReachableIsLeast
    <2> QED
        BY <1>13, <2>2 DEF T
<1>14. ASSUME NEW n \in rest.nodes, NEW m \in Reachable(edges, {n})
       PROVE  m \in Reachable(source.dependsOn, {n})
    <2> DEFINE T == Reachable(source.dependsOn, {n}) \cap rest.nodes
    <2>1. /\ n \in Nodes /\ n \in Reachable(source.dependsOn, {n})
          /\ Reachable(source.dependsOn, {n}) \subseteq Nodes
          /\ \A k \in Reachable(source.dependsOn, {n}) :
                source.dependsOn[k] \subseteq Reachable(source.dependsOn, {n})
        BY <1>6, <1>11, ReachableIsClosed
    <2>2. T \in SUBSET Nodes /\ {n} \subseteq T
        BY <2>1
    <2>3. \A k \in T : edges[k] \subseteq T
        <3> SUFFICES ASSUME NEW k \in T, NEW j \in edges[k] PROVE j \in T
            OBVIOUS
        <3>1. k \in Nodes /\ j \in source.dependsOn[k] /\ j \in rest.nodes
            BY <1>6, <1>12, <2>1
        <3> QED
            BY <2>1, <3>1
    <2> HIDE DEF T
    <2>4. Reachable(edges, {n}) \subseteq T
        BY <2>2, <2>3, ReachableIsLeast
    <2> QED
        BY <2>4 DEF T
<1>15. ASSUME NEW n \in Nodes, NEW m \in Nodes, keys[n] # keys[m],
              m \in Reachable(edges, {n}), n \in Reachable(edges, {m})
       PROVE  FALSE
    <2>1. n \in rest.nodes /\ m \in rest.nodes
        BY <1>13, <1>15
    <2>2. m \in Reachable(source.dependsOn, {n}) /\ n \in Reachable(source.dependsOn, {m})
        BY <1>14, <1>15, <2>1
    <2>3. Cycles = {}
        BY <1>1 DEF SecondInv
    <2>4. groupKey[n] = groupKey[m]
        BY <1>2, <1>8, <2>1, <2>2, <2>3, PlanAssumption, NoCyclesLeft
    <2> QED
        BY <1>2, <1>8, <1>15, <2>1, <2>4 DEF GroupsFollowKeys
<1>16. keys' = keys
    BY <1>1
<1> HIDE DEF edges
<1>17. ~DependOnEachOther(edges)
    BY <1>15 DEF DependOnEachOther
<1> QED
    BY <1>10, <1>16, <1>17 DEF DependOnEachOther, edges

LEMMA InitEstablishesSecondInv == Init => SecondInv
BY DEF Init, SecondInv

LEMMA NextKeepsSecondInv ==
    ASSUME IInv, IInv', GroupsInv, SecondInv, [Next]_vars
    PROVE  SecondInv'
<1>1. ASSUME NEW rejected \in SUBSET Nodes, Validate(rejected) PROVE SecondInv'
    <2>1. /\ UNCHANGED <<diffGraph, keys>> /\ phase' = "group"
          /\ planned' = ValidNodes(rejected)
          /\ source' = WithoutRedundantFieldNodes(planned') /\ removedCycles' = {}
          /\ building' # "built"
        BY <1>1 DEF Validate, inputVars, FilterInvalidChanges, BuildGroupedGraph,
                    BuildAcyclicGroupedGraph
    <2>2. WithoutRedundantFieldNodes(planned)' = WithoutRedundantFieldNodes(planned')
        BY <2>1 DEF WithoutRedundantFieldNodes, NodeOrParent
    <2> QED
        BY <2>1, <2>2 DEF SecondInv
<1>2. CASE FilterCycles
    <2>1. UNCHANGED <<diffGraph, keys>> /\ phase' = "regroup" /\ building' # "built"
        BY <1>2 DEF FilterCycles, inputVars, BuildGroupedGraph, BuildAcyclicGroupedGraph
    <2>2. ~DependOnEachOther(WithoutRedundantFieldNodes(planned).dependsOn)'
        BY <1>2, SecondIterationStartsWithoutCycles
    <2> QED
        BY <2>1, <2>2 DEF SecondInv
<1>3. CASE BuildStep
    <2>1. /\ phase \in {"group", "regroup"} /\ building = "building"
          /\ UNCHANGED <<diffGraph, keys, planned, phase>>
        BY <1>3 DEF BuildStep, inputVars, BuildGroups
    <2>2. /\ WithoutRedundantFieldNodes(planned)' = WithoutRedundantFieldNodes(planned)
          /\ keys' = keys
        BY <2>1 DEF WithoutRedundantFieldNodes, NodeOrParent
    <2>3. phase = "regroup" =>
              ~DependOnEachOther(WithoutRedundantFieldNodes(planned).dependsOn)'
        <3> DEFINE needs == WithoutRedundantFieldNodes(planned).dependsOn
        <3>1. needs' = needs /\ (phase = "regroup" => ~DependOnEachOther(needs))
            BY <2>2 DEF SecondInv
        <3> HIDE DEF needs
        <3> QED
            BY <2>2, <3>1 DEF DependOnEachOther, needs
    <2>4. CASE Cycles = {} /\ building' = "built" /\ UNCHANGED <<source, groupKey, removedCycles>>
        <3>1. Cycles' = Cycles
            BY <2>4 DEF Cycles, Groups, GroupDependsOn, Members
        <3> QED
            BY <2>1, <2>2, <2>3, <2>4, <3>1 DEF SecondInv
    <2>5. ASSUME NEW c \in Cycles, SplitGroup(c) PROVE SecondInv'
        <3>1. UNCHANGED <<source, removedCycles, building>>
            BY <2>5 DEF SplitGroup
        <3> QED
            BY <2>1, <2>2, <2>3, <3>1 DEF SecondInv
    <2>6. ASSUME NEW c \in Cycles, RemoveCycle(c) PROVE SecondInv'
        <3> DEFINE ids == {n \in source.nodes : \E i \in 1 .. Len(c) : groupKey[n] = c[i]}
        <3>1. /\ source' = CloneWithout(ids) /\ removedCycles' = removedCycles \cup {ids}
              /\ UNCHANGED building
            BY <2>6 DEF RemoveCycle
        <3> HIDE DEF ids
        <3>2. source'.nodes = source.nodes \ ids
            BY <3>1 DEF CloneWithout
        <3>3. UNION removedCycles' = (UNION removedCycles) \cup ids
            BY <3>1
        <3>4. phase = "group" => source'.nodes =
                 WithoutRedundantFieldNodes(planned).nodes \ UNION removedCycles'
            BY <3>2, <3>3 DEF SecondInv
        <3> QED
            BY <2>1, <2>2, <2>3, <3>1, <3>4 DEF SecondInv
    <2> QED
        BY <1>3, <2>4, <2>5, <2>6 DEF BuildStep, BuildGroups
<1>4. CASE PlanIsReady \/ PlanFails \/ UNCHANGED vars
    <2>1. /\ UNCHANGED <<diffGraph, keys, planned, source, groupKey, removedCycles, building>>
          /\ phase' \in {phase, "planned", "failed"}
          /\ phase' = "failed" => building = "failed"
        <3>1. CASE PlanFails
            <4>1. phase = "regroup" => removedCycles = {}
                BY NothingToRemove
            <4> QED
                BY <3>1, <4>1 DEF PlanFails, inputVars, groupVars
        <3>2. CASE PlanIsReady \/ UNCHANGED vars
            BY <3>2 DEF PlanIsReady, vars, inputVars, groupVars, SecondInv
        <3> QED
            BY <1>4, <3>1, <3>2
    <2>2. Cycles' = Cycles
        BY <2>1 DEF Cycles, Groups, GroupDependsOn, Members
    <2>3. /\ WithoutRedundantFieldNodes(planned)' = WithoutRedundantFieldNodes(planned)
          /\ keys' = keys
        BY <2>1 DEF WithoutRedundantFieldNodes, NodeOrParent
    <2>4. phase' = "regroup" =>
              ~DependOnEachOther(WithoutRedundantFieldNodes(planned).dependsOn)'
        <3> DEFINE needs == WithoutRedundantFieldNodes(planned).dependsOn
        <3>1. needs' = needs /\ (phase' = "regroup" => ~DependOnEachOther(needs))
            BY <2>1, <2>3 DEF SecondInv
        <3> HIDE DEF needs
        <3> QED
            BY <2>3, <3>1 DEF DependOnEachOther, needs
    <2> QED
        BY <2>1, <2>2, <2>3, <2>4 DEF SecondInv
<1> QED
    BY <1>1, <1>2, <1>3, <1>4 DEF Next

LEMMA SecondInvIsInvariant == Spec => []SecondInv
<1>1. Init => SecondInv
    BY InitEstablishesSecondInv
<1>2. IInv /\ IInv' /\ GroupsInv /\ SecondInv /\ [Next]_vars => SecondInv'
    BY NextKeepsSecondInv
<1> QED
    BY <1>1, <1>2, IInvIsInvariant, GroupsInvIsInvariant, PTL DEF Spec

----------------------------------------------------------------------------

\* The graph that is grouped, the groups' numbers and the errors stay in their
\* sets: a free number is always left for a group that is split off.
THEOREM PlanTypes == Spec => []TypeOK
<1>1. GroupsInv => TypeOK
    BY DEF GroupsInv
<1> QED
    BY <1>1, GroupsInvIsInvariant, PTL

\* A cycle of groups is given up only if the changes in it form a cycle that no
\* grouping by their keys can contain: whatever cycles are found, in whatever order
\* groups are split, a plan loses nothing that could have been ordered.
THEOREM RemovedNodesAlwaysHoldACycle == Spec => []RemovedNodesHoldACycle
<1>1. GroupsInv => RemovedNodesHoldACycle
    BY DEF GroupsInv
<1> QED
    BY <1>1, GroupsInvIsInvariant, PTL

\* What createGroupedGraphAndChangeErrors says shouldn't happen does not: once the
\* nodes of the cycles are dropped with all that depends on them, grouping what is
\* left by the same keys finds no cycle that it has to remove.
THEOREM SecondIterationAlwaysRemovesNoCycles == Spec => []SecondIterationRemovesNoCycles
<1>1. GroupsInv /\ SecondInv => SecondIterationRemovesNoCycles
    BY NothingToRemove DEF SecondIterationRemovesNoCycles
<1> QED
    BY <1>1, GroupsInvIsInvariant, SecondInvIsInvariant, PTL

\* So a plan can fail only because of a cycle within a disjoint group: the safety
\* part of PlanIsMade.
THEOREM PlansFailOnlyForDisjointGroups == Spec => []OnlyDisjointGroupsFail
<1>1. SecondInv => OnlyDisjointGroupsFail
    BY DEF SecondInv, OnlyDisjointGroupsFail
<1> QED
    BY <1>1, SecondInvIsInvariant, PTL

=============================================================================
