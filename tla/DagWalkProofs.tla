--------------------------- MODULE DagWalkProofs ---------------------------
(***************************************************************************)
(* Theorems about DagWalk, for every set of nodes and every set of maps    *)
(* over them, finite or not.                                               *)
(***************************************************************************)
EXTENDS DagWalk, FiniteSetTheorems, WellFoundedInduction, TLAPS

\* Reachable(edges, from) holds "from" and is closed under edges.
LEMMA ReachableIsClosed ==
    ASSUME NEW edges \in [Nodes -> SUBSET Nodes], NEW from \in SUBSET Nodes
    PROVE  /\ from \subseteq Reachable(edges, from)
           /\ Reachable(edges, from) \subseteq Nodes
           /\ \A m \in Reachable(edges, from) : edges[m] \subseteq Reachable(edges, from)
<1>1. from \subseteq Reachable(edges, from) /\ Reachable(edges, from) \subseteq Nodes
    BY DEF Reachable
<1>2. ASSUME NEW m \in Reachable(edges, from), NEW k \in edges[m]
      PROVE  k \in Reachable(edges, from)
    <2>1. m \in Nodes /\ k \in Nodes
        BY <1>1, <1>2
    <2>2. ASSUME NEW S \in SUBSET Nodes, from \subseteq S, \A j \in S : edges[j] \subseteq S
          PROVE  k \in S
        BY <2>1, <2>2, <1>2 DEF Reachable
    <2> QED
        BY <2>1, <2>2 DEF Reachable
<1> QED
    BY <1>1, <1>2

\* It is the least such set.
LEMMA ReachableIsLeast ==
    ASSUME NEW edges, NEW from,
           NEW S \in SUBSET Nodes, from \subseteq S, \A m \in S : edges[m] \subseteq S
    PROVE  Reachable(edges, from) \subseteq S
    BY DEF Reachable

\* A path of the inverse relation is a path of the relation, backwards.
LEMMA ReachableBackwards ==
    ASSUME NEW edges \in [Nodes -> SUBSET Nodes],
           NEW inverse \in [Nodes -> SUBSET Nodes],
           \A n, m \in Nodes : m \in inverse[n] => n \in edges[m],
           NEW n \in Nodes,
           NEW m \in Reachable(inverse, {n})
    PROVE  n \in Reachable(edges, {m})
<1> DEFINE S == {k \in Nodes : n \in Reachable(edges, {k})}
<1>1. {n} \subseteq S
    BY ReachableIsClosed
<1>2. ASSUME NEW k \in S, NEW j \in inverse[k] PROVE j \in S
    <2>1. j \in Nodes /\ k \in Nodes /\ k \in edges[j]
        BY <1>2
    <2>2. k \in Reachable(edges, {j})
        BY <2>1, ReachableIsClosed
    <2>3. Reachable(edges, {k}) \subseteq Reachable(edges, {j})
        <3> DEFINE R == Reachable(edges, {j})
        <3>1. R \in SUBSET Nodes /\ {k} \subseteq R /\ \A i \in R : edges[i] \subseteq R
            BY <2>1, <2>2, ReachableIsClosed
        <3> HIDE DEF R
        <3>2. Reachable(edges, {k}) \subseteq R
            BY <3>1, ReachableIsLeast
        <3> QED
            BY <3>2 DEF R
    <2> QED
        BY <2>1, <2>3
<1>3. Reachable(inverse, {n}) \subseteq S
    BY <1>1, <1>2, ReachableIsLeast
<1> QED
    BY <1>3

\* In a finite graph a path that never has to end runs into a cycle.
LEMMA EndlessPathsMeetACycle ==
    ASSUME IsFiniteSet(Nodes),
           NEW edges \in [Nodes -> SUBSET Nodes],
           NEW U \in SUBSET Nodes, \A m \in U : edges[m] \cap U # {},
           NEW n \in U
    PROVE  \E m \in Reachable(edges, {n}) : m \in Reachable(edges, edges[m])
<1> DEFINE Ahead(m) == Reachable(edges, {m})
           Sizes == {Cardinality(Ahead(m)) : m \in Ahead(n) \cap U}
<1>1. \A m \in Nodes : /\ m \in Ahead(m) /\ Ahead(m) \subseteq Nodes
                       /\ \A k \in Ahead(m) : edges[k] \subseteq Ahead(m)
    BY ReachableIsClosed
<1> HIDE DEF Ahead
<1>2. \A m \in Nodes : IsFiniteSet(Ahead(m)) /\ Cardinality(Ahead(m)) \in Nat
    BY <1>1, FS_Subset, FS_CardinalityType
<1>3. Sizes \subseteq Nat /\ Sizes # {}
    BY <1>1, <1>2
<1>4. PICK size \in Sizes : \A other \in Sizes : ~(<<other, size>> \in OpToRel(<, Nat))
    BY <1>3, WFMin, NatLessThanWellFounded, Zenon
<1>5. \A other \in Sizes : ~(other < size)
    BY <1>3, <1>4, Zenon DEF OpToRel
<1>6. PICK m \in Ahead(n) \cap U : size = Cardinality(Ahead(m))
    OBVIOUS
<1>7. PICK d \in edges[m] : d \in U
    OBVIOUS
<1>8. Cardinality(Ahead(d)) \in Sizes
    BY <1>1, <1>7
<1>9. Ahead(d) \subseteq Reachable(edges, edges[m])
    BY <1>7, ReachableIsClosed, ReachableIsLeast DEF Ahead
<1>10. Ahead(d) \subseteq Ahead(m)
    BY <1>1, <1>7, ReachableIsLeast DEF Ahead
<1>11. m \in Ahead(d)
    <2>1. Cardinality(Ahead(d)) = Cardinality(Ahead(m))
        <3>1. Cardinality(Ahead(d)) <= Cardinality(Ahead(m))
            BY <1>2, <1>10, FS_Subset
        <3>2. ~(Cardinality(Ahead(d)) < Cardinality(Ahead(m)))
            BY <1>5, <1>6, <1>8, Zenon
        <3> QED
            BY <1>2, <3>1, <3>2
    <2> QED
        BY <1>1, <1>2, <1>10, <2>1, FS_Subset
<1> QED
    BY <1>9, <1>11 DEF Ahead

----------------------------------------------------------------------------

\* A handler is called at most once, and that is what "idle" records.
CallsMatchHandlers ==
    \A n \in Nodes : calls[n] = IF handler[n] = "idle" THEN 0 ELSE 1

\* Handlers of nodes with unfinished dependencies were not called.
StartedInOrder ==
    \A n \in Nodes : handler[n] # "idle" => graph[n] \subseteq Succeeded

NoneStartedBeforeTheWalk ==
    walk = "created" => \A n \in Nodes : handler[n] = "idle"

StartedOnceReady ==
    walk # "created" =>
        \A n \in Nodes : graph[n] \subseteq Succeeded => handler[n] # "idle"

\* The map is the original without the nodes that succeeded.
MapMirrorsHandlers ==
    /\ keys = Nodes \ Succeeded
    /\ \A n \in Nodes : dependsOn[n] = graph[n] \ Succeeded
    /\ \A n \in Nodes : reverseNeighbors[n] = {m \in Nodes : n \in dependsOn[m]}

\* An error entry belongs to a failed node, or to one that waits for a node
\* with an error entry.
ErrorsAreExplained ==
    ~aborted =>
        \A n \in Nodes :
            errors[n] # "none" =>
                \/ handler[n] = "failed"
                \/ handler[n] = "idle" /\ \E m \in graph[n] : errors[m] # "none"

AbortedByFailure == aborted => \E n \in Nodes : handler[n] = "failed"

\* Without a fatal error, failures spread: whatever depends on a node with an
\* error entry has one, and every error entry stems from a failed handler.
ErrorsSpread ==
    ~aborted =>
        /\ \A n \in Nodes : \A m \in graph[n] : errors[m] # "none" => errors[n] # "none"
        /\ \A n \in Nodes : errors[n] = "error" <=> handler[n] = "failed"
        /\ \A n \in Nodes : errors[n] # "fatal"
        /\ \A n \in Nodes : errors[n] # "none" => Reachable(graph, {n}) \cap Failed # {}

\* What the proofs below keep invariant.
IInv ==
    /\ TypeOK
    /\ CallsMatchHandlers
    /\ StartedInOrder
    /\ NoneStartedBeforeTheWalk
    /\ StartedOnceReady
    /\ MapMirrorsHandlers
    /\ ErrorsAreExplained
    /\ AbortedByFailure
    /\ ErrorsSpread

----------------------------------------------------------------------------

\* The initial state satisfies the invariant.
LEMMA InitEstablishesIInv == Init => IInv
<1> SUFFICES ASSUME Init PROVE IInv
    OBVIOUS
<1> USE DEF Init, NewNodeMap, NoErrors
<1>1. graph \in [Nodes -> SUBSET Nodes]
    BY GraphsAssumption
<1>2. TypeOK
    BY <1>1 DEF TypeOK, NodeMapTypeOK, CreateReverseNeighbors, HandlerStates,
                WalkStates, ErrorKinds
<1>3. Succeeded = {}
    BY DEF Succeeded
<1>4. MapMirrorsHandlers
    BY <1>1, <1>3 DEF MapMirrorsHandlers, CreateReverseNeighbors
<1>5. ErrorsSpread
    <2>1. \A n \in Nodes : errors[n] = "none" /\ handler[n] = "idle"
        OBVIOUS
    <2>2. \A n \in Nodes : \A m \in graph[n] : errors[m] = "none"
        BY <1>1, <2>1
    <2> QED
        BY <2>1, <2>2 DEF ErrorsSpread
<1> QED
    BY <1>2, <1>4, <1>5 DEF IInv, CallsMatchHandlers, StartedInOrder,
       NoneStartedBeforeTheWalk, StartedOnceReady, ErrorsAreExplained,
       AbortedByFailure

\* walkAsync starts the nodes that depend on nothing, and only those.
LEMMA WalkAsyncKeepsIInv == IInv /\ WalkAsync => IInv'
<1> SUFFICES ASSUME IInv, WalkAsync PROVE IInv'
    OBVIOUS
<1> USE DEF IInv, TypeOK, NodeMapTypeOK, mapVars, errorVars
<1>1. /\ \A n \in Nodes : handler[n] = "idle"
      /\ Succeeded = {}
      /\ keys = Nodes
      /\ \A n \in Nodes : dependsOn[n] = graph[n]
    BY DEF WalkAsync, NoneStartedBeforeTheWalk, Succeeded, MapMirrorsHandlers
<1>2. \A n \in Nodes :
        /\ handler'[n] = IF graph[n] = {} THEN "running" ELSE "idle"
        /\ calls'[n] = IF graph[n] = {} THEN 1 ELSE 0
    BY <1>1, NoNodeAssumption
       DEF WalkAsync, HandlerAfter, CallsAfter, FreeNodes, IsFreeNode,
           CallsMatchHandlers
<1>3. Succeeded' = {}
    BY <1>2 DEF Succeeded
<1>4. TypeOK'
    BY DEF WalkAsync, HandlerAfter, CallsAfter, HandlerStates, WalkStates
<1>5. CallsMatchHandlers' /\ StartedInOrder' /\ StartedOnceReady'
    BY <1>2, <1>3 DEF WalkAsync, CallsMatchHandlers, StartedInOrder, StartedOnceReady
<1>6. MapMirrorsHandlers'
    BY <1>1, <1>3 DEF WalkAsync, MapMirrorsHandlers
<1>7. NoneStartedBeforeTheWalk' /\ AbortedByFailure'
    BY <1>1 DEF WalkAsync, NoneStartedBeforeTheWalk, AbortedByFailure
<1>8. ErrorsAreExplained'
    <2> SUFFICES ASSUME ~aborted, NEW n \in Nodes, errors[n] # "none"
                 PROVE  handler'[n] = "idle" /\ \E m \in graph[n] : errors[m] # "none"
        BY DEF WalkAsync, ErrorsAreExplained
    <2> QED
        BY <1>1, <1>2 DEF ErrorsAreExplained
<1>9. ErrorsSpread'
    <2>1. Failed' = Failed
        BY <1>1, <1>2 DEF Failed
    <2>2. \A n \in Nodes : handler'[n] # "failed" /\ handler[n] # "failed"
        BY <1>1, <1>2
    <2>3. graph' = graph /\ errors' = errors /\ aborted' = aborted
        BY DEF WalkAsync
    <2> QED
        BY <2>1, <2>2, <2>3 DEF ErrorsSpread
<1> QED
    BY <1>4, <1>5, <1>6, <1>7, <1>8, <1>9

\* The nodes that a finished handler frees are those that waited for it alone.
LEMMA FreedByFinishedHandler ==
    ASSUME IInv, NEW n \in Nodes, Running(n)
    PROVE  FreedBy(n) = {m \in Nodes : /\ handler[m] = "idle"
                                       /\ graph[m] \subseteq Succeeded \cup {n}}
<1> USE DEF IInv, TypeOK, NodeMapTypeOK, MapMirrorsHandlers
<1>1. walk # "created" /\ n \notin Succeeded
    BY DEF Running, NoneStartedBeforeTheWalk, Succeeded
<1>2. ASSUME NEW m \in FreedBy(n)
      PROVE  m \in Nodes /\ handler[m] = "idle" /\ graph[m] \subseteq Succeeded \cup {n}
    BY <1>1, <1>2 DEF FreedBy, StartedInOrder, Succeeded
<1>3. ASSUME NEW m \in Nodes, handler[m] = "idle", graph[m] \subseteq Succeeded \cup {n}
      PROVE  m \in FreedBy(n)
    <2>1. ~(graph[m] \subseteq Succeeded)
        BY <1>1, <1>3 DEF StartedOnceReady
    <2>2. n \in dependsOn[m] /\ dependsOn[m] \subseteq {n}
        BY <2>1, <1>1, <1>3
    <2> QED
        BY <2>2 DEF FreedBy
<1> QED
    BY <1>2, <1>3

\* A handler that resolves hands over to exactly the nodes it frees.
LEMMA HandlerResolvesKeepsIInv ==
    ASSUME IInv, NEW n \in Nodes, HandlerResolves(n)
    PROVE  IInv'
<1> USE DEF IInv, TypeOK, NodeMapTypeOK, errorVars
<1>1. /\ handler[n] = "running"
      /\ walk # "created"
      /\ graph[n] \subseteq Succeeded
      /\ n \notin Succeeded
    BY DEF HandlerResolves, Running, NoneStartedBeforeTheWalk, StartedInOrder, Succeeded
<1>2. FreedBy(n) = {m \in Nodes : handler[m] = "idle" /\ graph[m] \subseteq Succeeded \cup {n}}
    BY FreedByFinishedHandler DEF HandlerResolves
<1>3. \A m \in Nodes :
        /\ handler'[m] = IF m \in FreedBy(n) THEN "running"
                         ELSE IF m = n THEN "succeeded" ELSE handler[m]
        /\ calls'[m] = IF m \in FreedBy(n) THEN calls[m] + 1 ELSE calls[m]
    BY DEF HandlerResolves, HandlerAfter, CallsAfter
<1>4. Succeeded' = Succeeded \cup {n}
    BY <1>1, <1>2, <1>3 DEF Succeeded
<1>5. UNCHANGED <<errors, causingNode, graph, walk, aborted, circularNodes>>
    BY DEF HandlerResolves
<1>6. TypeOK'
    <2>1. keys' \subseteq Nodes /\ dependsOn' \in [Nodes -> SUBSET Nodes]
          /\ reverseNeighbors' \in [Nodes -> SUBSET Nodes]
        BY DEF HandlerResolves, DeleteNode
    <2>2. handler' \in [Nodes -> HandlerStates] /\ calls' \in [Nodes -> Nat]
        BY DEF HandlerResolves, HandlerAfter, CallsAfter, HandlerStates
    <2> QED
        BY <2>1, <2>2, <1>5
<1>7. CallsMatchHandlers'
    BY <1>1, <1>2, <1>3 DEF CallsMatchHandlers
<1>8. StartedInOrder' /\ StartedOnceReady'
    BY <1>1, <1>2, <1>3, <1>4, <1>5 DEF StartedInOrder, StartedOnceReady
<1>9. MapMirrorsHandlers'
    <2>1. keys' = Nodes \ Succeeded'
        BY <1>4 DEF HandlerResolves, DeleteNode, MapMirrorsHandlers
    <2>2. \A m \in Nodes : dependsOn'[m] = dependsOn[m] \ {n}
        <3>1. dependsOn[n] = {}
            BY <1>1 DEF MapMirrorsHandlers
        <3> QED
            BY <3>1 DEF HandlerResolves, DeleteNode, MapMirrorsHandlers
    <2>3. \A m \in Nodes : dependsOn'[m] = graph'[m] \ Succeeded'
        BY <2>2, <1>4, <1>5 DEF MapMirrorsHandlers
    <2>4. \A m \in Nodes : reverseNeighbors'[m] = {k \in Nodes : m \in dependsOn'[k]}
        <3>1. dependsOn[n] = {}
            BY <1>1 DEF MapMirrorsHandlers
        <3>2. \A m \in Nodes : reverseNeighbors'[m] =
                 IF m = n THEN {} ELSE reverseNeighbors[m]
            BY <3>1 DEF HandlerResolves, DeleteNode
        <3> QED
            BY <3>2, <2>2 DEF MapMirrorsHandlers
    <2> QED
        BY <2>1, <2>3, <2>4 DEF MapMirrorsHandlers
<1>10. NoneStartedBeforeTheWalk'
    BY <1>1, <1>5 DEF NoneStartedBeforeTheWalk
<1>11. AbortedByFailure'
    BY <1>1, <1>2, <1>3, <1>5 DEF AbortedByFailure
<1>12. ErrorsAreExplained'
    <2> SUFFICES ASSUME ~aborted, NEW m \in Nodes, errors[m] # "none"
                 PROVE  \/ handler'[m] = "failed"
                        \/ handler'[m] = "idle" /\ \E k \in graph[m] : errors[k] # "none"
        BY <1>5 DEF ErrorsAreExplained
    <2>1. \A k \in Succeeded \cup {n} : errors[k] = "none"
        BY <1>1 DEF ErrorsAreExplained, Succeeded
    <2>2. m # n /\ m \notin FreedBy(n)
        BY <2>1, <1>2 DEF ErrorsAreExplained
    <2> QED
        BY <2>2, <1>3 DEF ErrorsAreExplained
<1>13. ErrorsSpread'
    <2>1. \A m \in Nodes : handler'[m] = "failed" <=> handler[m] = "failed"
        BY <1>1, <1>2, <1>3
    <2>2. Failed' = Failed
        BY <2>1 DEF Failed
    <2> QED
        BY <2>1, <2>2, <1>5 DEF ErrorsSpread
<1> QED
    BY <1>6, <1>7, <1>8, <1>9, <1>10, <1>11, <1>12, <1>13

\* The nodes that an error spreads to wait for the node that failed; they have
\* not been started, and depend on it in the original map.
LEMMA VisitedNodesWait ==
    ASSUME IInv, NEW n \in Nodes, Running(n)
    PROVE  /\ n \in VisitedFrom(n)
           /\ VisitedFrom(n) \subseteq Nodes
           /\ \A m \in VisitedFrom(n) : reverseNeighbors[m] \subseteq VisitedFrom(n)
           /\ \A m \in VisitedFrom(n) : n \in Reachable(graph, {m})
           /\ \A m \in VisitedFrom(n) : m \notin Succeeded
<1> USE DEF IInv, TypeOK, NodeMapTypeOK
<1>1. /\ n \in VisitedFrom(n)
      /\ VisitedFrom(n) \subseteq Nodes
      /\ \A m \in VisitedFrom(n) : reverseNeighbors[m] \subseteq VisitedFrom(n)
    BY ReachableIsClosed DEF VisitedFrom
<1>2. \A k, m \in Nodes : m \in reverseNeighbors[k] => k \in graph[m] /\ k \in dependsOn[m]
    BY DEF MapMirrorsHandlers
<1>3. \A m \in VisitedFrom(n) : n \in Reachable(graph, {m})
    BY <1>2, ReachableBackwards DEF VisitedFrom
<1>4. \A m \in VisitedFrom(n) : m \notin Succeeded
    <2> DEFINE S == Nodes \ Succeeded
    <2>1. {n} \subseteq S
        BY DEF Running, Succeeded
    <2>2. \A m \in S : reverseNeighbors[m] \subseteq S
        BY DEF MapMirrorsHandlers, StartedInOrder, Succeeded
    <2> HIDE DEF S
    <2>3. Reachable(reverseNeighbors, {n}) \subseteq S
        BY <2>1, <2>2, ReachableIsLeast DEF S
    <2> QED
        BY <2>3 DEF S, VisitedFrom
<1> QED
    BY <1>1, <1>3, <1>4

\* A handler that rejects marks exactly what depends on its node.
LEMMA HandlerRejectsKeepsIInv ==
    ASSUME IInv, NEW n \in Nodes, NEW kind \in ThrownKinds, HandlerRejects(n, kind)
    PROVE  IInv'
<1> USE DEF IInv, TypeOK, NodeMapTypeOK, mapVars
<1>1. handler[n] = "running" /\ handler' = [handler EXCEPT ![n] = "failed"]
    BY DEF HandlerRejects, Running, HandlerAfter
<1>2. Succeeded' = Succeeded /\ Failed' = Failed \cup {n}
    BY <1>1 DEF Succeeded, Failed
<1>3. UNCHANGED <<keys, dependsOn, reverseNeighbors, graph, calls, walk, circularNodes>>
    BY DEF HandlerRejects
<1>4. aborted' = (aborted \/ kind = "fatal")
    BY DEF HandlerRejects
<1>5. \A visited, direct :
        n \in visited /\ visited \subseteq Nodes /\ SetErrors(n, kind, visited, direct)
          => errors' \in [Nodes -> ErrorKinds] /\ causingNode' \in [Nodes -> Nodes \cup {NoNode}]
    BY ThrownKindsAssumption DEF SetErrors, Attributions, ErrorKinds
<1>6. TypeOK'
    <2>1. errors' \in [Nodes -> ErrorKinds] /\ causingNode' \in [Nodes -> Nodes \cup {NoNode}]
        <3>1. CASE kind = "error"
            BY <3>1, <1>5, <1>1, VisitedNodesWait DEF HandlerRejects, SetError, Running
        <3>2. CASE kind = "fatal"
            <4>1. SetErrors(n, kind, keys \cup {n}, keys)
                BY <3>2 DEF HandlerRejects, SetFatalError
            <4> QED
                BY <4>1, <1>5
        <3> QED
            BY <3>1, <3>2, ThrownKindsAssumption
    <2>2. handler' \in [Nodes -> HandlerStates] /\ aborted' \in BOOLEAN
        BY <1>1, <1>4 DEF HandlerStates
    <2> QED
        BY <2>1, <2>2, <1>3
<1>7. CallsMatchHandlers' /\ StartedInOrder' /\ StartedOnceReady' /\ NoneStartedBeforeTheWalk'
    BY <1>1, <1>2, <1>3
       DEF CallsMatchHandlers, StartedInOrder, StartedOnceReady, NoneStartedBeforeTheWalk
<1>8. MapMirrorsHandlers'
    BY <1>2, <1>3 DEF MapMirrorsHandlers
<1>9. AbortedByFailure'
    BY <1>1 DEF AbortedByFailure
<1>10. ErrorsAreExplained' /\ ErrorsSpread'
    <2>1. CASE aborted'
        BY <2>1 DEF ErrorsAreExplained, ErrorsSpread
    <2>2. CASE ~aborted'
        <3> DEFINE V == VisitedFrom(n)
        <3>1. ~aborted /\ kind = "error" /\ SetErrors(n, "error", V, {})
            BY <2>2, <1>4, ThrownKindsAssumption DEF HandlerRejects, SetError
        <3>2. /\ n \in V
              /\ V \subseteq Nodes
              /\ \A m \in V : reverseNeighbors[m] \subseteq V
              /\ \A m \in V : n \in Reachable(graph, {m})
              /\ \A m \in V : m \notin Succeeded
            BY <1>1, VisitedNodesWait DEF Running
        <3> HIDE DEF V
        <3>3. \A m \in Nodes : errors'[m] = IF m = n THEN "error"
                                            ELSE IF m \in V THEN "skipped" ELSE errors[m]
            BY <3>1 DEF SetErrors
        <3>4. \A m \in V \ {n} : \E k \in V : k \in dependsOn[m]
            BY <3>1 DEF SetErrors, Attributions
        <3>5. \A m \in V \ {n} : handler[m] = "idle"
            BY <3>2, <3>4 DEF MapMirrorsHandlers, StartedInOrder
        <3>6. ErrorsAreExplained'
            <4> SUFFICES ASSUME NEW m \in Nodes, errors'[m] # "none"
                         PROVE  \/ handler'[m] = "failed"
                                \/ handler'[m] = "idle" /\ \E k \in graph[m] : errors'[k] # "none"
                BY <1>3 DEF ErrorsAreExplained
            <4>1. CASE m \in V \ {n}
                BY <4>1, <3>2, <3>3, <3>4, <3>5, <1>1 DEF MapMirrorsHandlers
            <4>2. CASE m \notin V
                BY <4>2, <3>1, <3>2, <3>3, <1>1 DEF ErrorsAreExplained
            <4>3. CASE m = n
                BY <4>3, <1>1
            <4> QED
                BY <4>1, <4>2, <4>3
        <3>7. \A m \in Nodes : \A k \in graph[m] : errors'[k] # "none" => errors'[m] # "none"
            <4> SUFFICES ASSUME NEW m \in Nodes, NEW k \in graph[m], errors'[k] # "none"
                         PROVE  errors'[m] # "none"
                OBVIOUS
            <4>1. CASE k \in V
                <5>1. m \in reverseNeighbors[k]
                    BY <4>1, <3>2 DEF MapMirrorsHandlers
                <5> QED
                    BY <5>1, <4>1, <3>2, <3>3
            <4>2. CASE k \notin V
                BY <4>2, <3>1, <3>2, <3>3 DEF ErrorsSpread
            <4> QED
                BY <4>1, <4>2
        <3>8. \A m \in Nodes : errors'[m] = "error" <=> handler'[m] = "failed"
            BY <3>1, <3>2, <3>3, <3>5, <1>1 DEF ErrorsSpread
        <3>9. \A m \in Nodes : errors'[m] # "fatal"
            BY <3>1, <3>3 DEF ErrorsSpread
        <3>10. \A m \in Nodes : errors'[m] # "none" => Reachable(graph, {m}) \cap Failed' # {}
            <4> SUFFICES ASSUME NEW m \in Nodes, errors'[m] # "none"
                         PROVE  Reachable(graph, {m}) \cap Failed' # {}
                OBVIOUS
            <4>1. CASE m \in V
                BY <4>1, <3>2, <1>2
            <4>2. CASE m \notin V
                <5>1. Reachable(graph, {m}) \cap Failed # {}
                    BY <4>2, <3>1, <3>2, <3>3 DEF ErrorsSpread
                <5> QED
                    BY <5>1, <1>2
            <4> QED
                BY <4>1, <4>2
        <3> QED
            BY <3>6, <3>7, <3>8, <3>9, <3>10, <1>3 DEF ErrorsSpread
    <2> QED
        BY <2>1, <2>2
<1> QED
    BY <1>6, <1>7, <1>8, <1>9, <1>10

\* Settling the promise of the walk touches none of what the invariant is about.
LEMMA SettlingKeepsIInv == IInv /\ (RejectEarly \/ ThrowIfNotEmpty) => IInv'
<1> SUFFICES ASSUME IInv, RejectEarly \/ ThrowIfNotEmpty PROVE IInv'
    OBVIOUS
<1> USE DEF IInv, TypeOK, NodeMapTypeOK, mapVars, errorVars
<1>1. /\ UNCHANGED <<keys, dependsOn, reverseNeighbors, errors, causingNode>>
      /\ UNCHANGED <<graph, handler, calls, aborted>>
      /\ walk = "walking" /\ walk' \in {"resolved", "rejected"}
      /\ circularNodes' \subseteq Nodes
    BY DEF RejectEarly, ThrowIfNotEmpty, EndOfWalk, UnhandledNodes
<1>2. Succeeded' = Succeeded /\ Failed' = Failed
    BY <1>1 DEF Succeeded, Failed
<1>3. TypeOK' /\ CallsMatchHandlers' /\ StartedInOrder' /\ NoneStartedBeforeTheWalk'
      /\ StartedOnceReady'
    BY <1>1, <1>2 DEF WalkStates, CallsMatchHandlers, StartedInOrder,
       NoneStartedBeforeTheWalk, StartedOnceReady
<1>4. MapMirrorsHandlers' /\ ErrorsAreExplained' /\ AbortedByFailure' /\ ErrorsSpread'
    BY <1>1, <1>2 DEF MapMirrorsHandlers, ErrorsAreExplained, AbortedByFailure, ErrorsSpread
<1> QED
    BY <1>3, <1>4

\* Nothing the invariant is about changes in a stuttering step.
LEMMA StutteringKeepsIInv == IInv /\ UNCHANGED vars => IInv'
<1> SUFFICES ASSUME IInv, UNCHANGED vars PROVE IInv'
    OBVIOUS
<1> USE DEF vars, mapVars, errorVars, walkVars
<1>1. Succeeded' = Succeeded /\ Failed' = Failed
    BY DEF Succeeded, Failed
<1>2. TypeOK' /\ CallsMatchHandlers' /\ StartedInOrder' /\ NoneStartedBeforeTheWalk'
      /\ StartedOnceReady'
    BY <1>1 DEF IInv, TypeOK, NodeMapTypeOK, CallsMatchHandlers, StartedInOrder,
       NoneStartedBeforeTheWalk, StartedOnceReady
<1>3. MapMirrorsHandlers' /\ ErrorsAreExplained' /\ AbortedByFailure' /\ ErrorsSpread'
    BY <1>1 DEF IInv, MapMirrorsHandlers, ErrorsAreExplained, AbortedByFailure, ErrorsSpread
<1> QED
    BY <1>2, <1>3 DEF IInv

\* The inductive step, action by action.
LEMMA NextKeepsIInv == IInv /\ [Next]_vars => IInv'
<1> SUFFICES ASSUME IInv, [Next]_vars PROVE IInv'
    OBVIOUS
<1>1. CASE WalkAsync
    BY <1>1, WalkAsyncKeepsIInv
<1>2. ASSUME NEW n \in Nodes, HandlerResolves(n) PROVE IInv'
    BY <1>2, HandlerResolvesKeepsIInv
<1>3. ASSUME NEW n \in Nodes, NEW kind \in ThrownKinds, HandlerRejects(n, kind) PROVE IInv'
    BY <1>3, HandlerRejectsKeepsIInv
<1>4. CASE RejectEarly \/ ThrowIfNotEmpty
    BY <1>4, SettlingKeepsIInv
<1>5. CASE UNCHANGED vars
    BY <1>5, StutteringKeepsIInv
<1> QED
    BY <1>1, <1>2, <1>3, <1>4, <1>5 DEF Next

\* The invariant, of every behaviour of a walk.
LEMMA IInvIsInvariant == Spec => []IInv
    BY InitEstablishesIInv, NextKeepsIInv, PTL DEF Spec

----------------------------------------------------------------------------
(* The theorems. *)

\* The state of a walk stays well-typed.
THEOREM TypeCorrectness == Spec => []TypeOK
<1>1. IInv => TypeOK
    BY DEF IInv
<1> QED
    BY <1>1, IInvIsInvariant, PTL

\* For every map, walkAsync calls the handler of a node once as soon as all its
\* dependencies succeeded, and never otherwise.
THEOREM NodesAreHandledExactlyWhenReady == Spec => []HandledExactlyWhenReady
<1>1. ASSUME IInv, NEW n \in Nodes
      PROVE  handler[n] # "idle" <=> walk # "created" /\ graph[n] \subseteq Succeeded
    BY <1>1 DEF IInv, StartedInOrder, NoneStartedBeforeTheWalk, StartedOnceReady
<1>2. IInv => HandledExactlyWhenReady
    BY <1>1 DEF IInv, CallsMatchHandlers, HandledExactlyWhenReady
<1> QED
    BY <1>2, IInvIsInvariant, PTL

\* deleteNode keeps the map and its inverse relation in step with the nodes
\* that are done.
THEOREM MapStaysConsistent == Spec => []MapIsRemainder
<1>1. IInv => MapIsRemainder
    BY DEF IInv, TypeOK, NodeMapTypeOK, MapMirrorsHandlers, MapIsRemainder,
       CreateReverseNeighbors
<1> QED
    BY <1>1, IInvIsInvariant, PTL

\* Without a fatal error, the nodes a walk reports as skipped are exactly those
\* that depend on a failed one.
THEOREM SkipsAreExact == Spec => []SkippedAreTheDoomed
<1>1. ASSUME IInv, ~aborted, NEW n \in Nodes
      PROVE  errors[n] = "skipped" <=>
               n \notin Failed /\ Reachable(graph, {n}) \cap Failed # {}
    <2> USE DEF IInv, TypeOK, NodeMapTypeOK
    <2>1. ASSUME errors[n] = "none" PROVE Reachable(graph, {n}) \cap Failed = {}
        <3> DEFINE S == {m \in Nodes : errors[m] = "none"}
        <3>1. S \in SUBSET Nodes /\ {n} \subseteq S /\ \A m \in S : graph[m] \subseteq S
            BY <1>1, <2>1 DEF ErrorsSpread
        <3>2. S \cap Failed = {}
            BY <1>1 DEF ErrorsSpread, Failed
        <3> HIDE DEF S
        <3>3. Reachable(graph, {n}) \subseteq S
            BY <3>1, ReachableIsLeast
        <3> QED
            BY <3>2, <3>3
    <2>2. ASSUME errors[n] # "none" PROVE Reachable(graph, {n}) \cap Failed # {}
        BY <1>1, <2>2 DEF ErrorsSpread
    <2>3. errors[n] \in {"none", "error", "skipped"} /\ (errors[n] = "error" <=> n \in Failed)
        BY <1>1 DEF ErrorsSpread, Failed, ErrorKinds
    <2> QED
        BY <2>1, <2>2, <2>3
<1>2. IInv => SkippedAreTheDoomed
    BY <1>1 DEF SkippedAreTheDoomed
<1> QED
    BY <1>2, IInvIsInvariant, PTL

----------------------------------------------------------------------------
(* Whom a skip is blamed on. *)

\* A failure blames the nodes it skips along paths that end at its own node, and
\* leaves the others blamed as they were.
LEMMA FailuresAreBlamed ==
    ASSUME IInv, BlameLeadsToAFailure,
           NEW n \in Nodes, NEW kind \in ThrownKinds, HandlerRejects(n, kind)
    PROVE  BlameLeadsToAFailure'
<1> DEFINE V == VisitedFrom(n)
           Blamed(causing) == [m \in Nodes |-> {causing[m]} \cap Nodes]
<1> SUFFICES ASSUME ~aborted'
             PROVE  BlameLeadsToAFailure'
    BY DEF BlameLeadsToAFailure
<1>1. ~aborted /\ SetErrors(n, "error", V, {})
    BY ThrownKindsAssumption DEF HandlerRejects, SetError
<1>2. n \in V /\ V \subseteq Nodes
    BY VisitedNodesWait DEF HandlerRejects
<1>3. UNCHANGED <<graph, dependsOn>> /\ graph \in [Nodes -> SUBSET Nodes]
    BY DEF HandlerRejects, mapVars, IInv, TypeOK
<1>4. Failed' = Failed \cup {n}
    BY DEF HandlerRejects, HandlerAfter, Running, Failed
<1> HIDE DEF V
<1>5. PICK blame \in Attributions(n, V, {}) :
        causingNode' = [m \in Nodes |-> IF m = n THEN NoNode
                                        ELSE IF m \in V THEN blame[m] ELSE causingNode[m]]
    BY <1>1 DEF SetErrors
<1>6. /\ \A m \in V \ {n} : blame[m] \in V /\ blame[m] \in graph[m]
      /\ \A S \in SUBSET (V \ {n}) : S # {} => \E m \in S : blame[m] \notin S
    BY <1>2, <1>3 DEF Attributions, IInv, MapMirrorsHandlers
<1>7. /\ Blamed(causingNode') \in [Nodes -> SUBSET Nodes]
      /\ Blamed(causingNode) \in [Nodes -> SUBSET Nodes]
      /\ \A m \in V \ {n} : Blamed(causingNode')[m] = {blame[m]}
      /\ \A m \in Nodes \ V : Blamed(causingNode')[m] = Blamed(causingNode)[m]
    BY <1>2, <1>5, <1>6
<1>8. \A m \in Nodes \ V : errors'[m] = errors[m] /\ causingNode'[m] = causingNode[m]
    BY <1>1, <1>2, <1>5 DEF SetErrors
<1> DEFINE Path(m) == Reachable(Blamed(causingNode'), {m})
<1>9. \A m \in Nodes : /\ m \in Path(m) /\ Path(m) \subseteq Nodes
                       /\ \A k \in Path(m) : Blamed(causingNode')[k] \subseteq Path(m)
    <2> HIDE DEF Blamed
    <2> QED
        BY <1>7, ReachableIsClosed
<1> HIDE DEF Path, Blamed
<1>10. ASSUME NEW m \in Nodes, Path(m) \cap V # {}
       PROVE  n \in Path(m)
    <2>1. SUFFICES ASSUME n \notin Path(m) PROVE FALSE
        OBVIOUS
    <2> DEFINE S == Path(m) \cap V
    <2>2. S \in SUBSET (V \ {n}) /\ S # {}
        BY <1>10, <2>1
    <2>3. PICK k \in S : blame[k] \notin S
        BY <1>6, <2>2
    <2>4. blame[k] \in V /\ blame[k] \in Path(m)
        BY <1>6, <1>7, <1>9, <2>2, <2>3
    <2> QED
        BY <2>3, <2>4
<1>11. ASSUME NEW m \in Nodes, errors'[m] = "skipped"
       PROVE  causingNode'[m] \in graph'[m] /\ Path(m) \cap Failed' # {}
    <2>1. CASE m \in V
        <3>1. m # n
            BY <1>1, <1>11 DEF SetErrors
        <3>2. causingNode'[m] = blame[m]
            BY <1>5, <2>1, <3>1
        <3> QED
            BY <1>3, <1>4, <1>6, <1>9, <1>10, <2>1, <3>1, <3>2
    <2>2. CASE m \notin V
        <3>1. /\ causingNode[m] \in graph[m]
              /\ Reachable(Blamed(causingNode), {m}) \cap Failed # {}
            BY <1>1, <1>8, <1>11, <2>2 DEF BlameLeadsToAFailure, Blamed
        <3>2. CASE Path(m) \cap V # {}
            BY <1>3, <1>4, <1>8, <1>10, <2>2, <3>1, <3>2
        <3>3. CASE Path(m) \cap V = {}
            <4>1. \A k \in Path(m) : Blamed(causingNode)[k] \subseteq Path(m)
                BY <1>7, <1>9, <3>3
            <4>2. Reachable(Blamed(causingNode), {m}) \subseteq Path(m)
                BY <1>9, <4>1, ReachableIsLeast
            <4> QED
                BY <1>3, <1>4, <1>8, <2>2, <3>1, <4>2
        <3> QED
            BY <3>2, <3>3
    <2> QED
        BY <2>1, <2>2
<1> QED
    BY <1>11 DEF BlameLeadsToAFailure, Path, Blamed

LEMMA NextKeepsBlame ==
    IInv /\ BlameLeadsToAFailure /\ [Next]_vars => BlameLeadsToAFailure'
<1> SUFFICES ASSUME IInv, BlameLeadsToAFailure, [Next]_vars PROVE BlameLeadsToAFailure'
    OBVIOUS
<1>1. ASSUME UNCHANGED <<errors, causingNode, graph, aborted>>, Failed' = Failed
      PROVE  BlameLeadsToAFailure'
    BY <1>1 DEF BlameLeadsToAFailure, Reachable
<1>2. CASE WalkAsync
    BY <1>1, <1>2 DEF WalkAsync, errorVars, HandlerAfter, FreeNodes, Failed, IInv,
       NoneStartedBeforeTheWalk, TypeOK
<1>3. ASSUME NEW n \in Nodes, HandlerResolves(n) PROVE BlameLeadsToAFailure'
    <2>1. \A m \in FreedBy(n) : handler[m] = "idle"
        BY <1>3, FreedByFinishedHandler DEF HandlerResolves
    <2> QED
        BY <1>1, <1>3, <2>1 DEF HandlerResolves, Running, errorVars, HandlerAfter, Failed
<1>4. ASSUME NEW n \in Nodes, NEW kind \in ThrownKinds, HandlerRejects(n, kind)
      PROVE  BlameLeadsToAFailure'
    BY <1>4, FailuresAreBlamed
<1>5. CASE RejectEarly \/ ThrowIfNotEmpty
    BY <1>1, <1>5 DEF RejectEarly, ThrowIfNotEmpty, EndOfWalk, errorVars, Failed
<1>6. CASE UNCHANGED vars
    BY <1>1, <1>6 DEF vars, errorVars, walkVars, Failed
<1> QED
    BY <1>2, <1>3, <1>4, <1>5, <1>6 DEF Next

\* Whatever order the recursion meets dependents in, the blame for a skip leads from
\* node to node to one whose handler threw.
THEOREM BlameAlwaysLeadsToAFailure == Spec => []BlameLeadsToAFailure
<1>1. Init => BlameLeadsToAFailure
    BY DEF Init, NoErrors, BlameLeadsToAFailure
<1> QED
    BY <1>1, IInvIsInvariant, NextKeepsBlame, PTL DEF Spec

----------------------------------------------------------------------------
(* What a walk leaves at its end. *)

\* No node of a cycle is ever started.
CyclesAreNotStarted ==
    \A n \in Nodes : handler[n] # "idle" => n \notin Reachable(graph, graph[n])

\* Without a fatal error a walk ends when no handler runs, with what is left of the
\* map as circular, and resolves if nothing is left.
EndIsQuiet ==
    Settled /\ ~aborted =>
        /\ \A n \in Nodes : handler[n] # "running"
        /\ circularNodes = UnhandledNodes
        /\ walk = "resolved" <=> ErrorNodes = {} /\ circularNodes = {}

\* What is started depends on nodes that succeeded, and so do these.
LEMMA StartedNodesAreNotOnCycles ==
    ASSUME NEW edges \in [Nodes -> SUBSET Nodes], NEW S \in SUBSET Nodes,
           \A m \in S : edges[m] \subseteq S,
           NEW n \in Nodes, n \notin S, edges[n] \subseteq S
    PROVE  n \notin Reachable(edges, edges[n])
    BY ReachableIsLeast

LEMMA CyclesStayUnstarted ==
    ASSUME IInv, CyclesAreNotStarted, [Next]_vars
    PROVE  CyclesAreNotStarted'
<1> USE DEF IInv, TypeOK
<1>1. SUFFICES ASSUME NEW n \in Nodes, handler'[n] # "idle", handler[n] = "idle"
               PROVE  n \notin Reachable(graph, graph[n])
    <2>1. graph' = graph
        BY DEF Next, WalkAsync, HandlerResolves, HandlerRejects, RejectEarly,
           ThrowIfNotEmpty, EndOfWalk, vars, walkVars
    <2> QED
        BY <1>1, <2>1 DEF CyclesAreNotStarted, Reachable
<1>2. graph \in [Nodes -> SUBSET Nodes] /\ \A m \in Succeeded : graph[m] \subseteq Succeeded
    BY DEF StartedInOrder, Succeeded
<1>3. CASE WalkAsync
    <2>1. n \in FreeNodes(keys)
        BY <1>1, <1>3 DEF WalkAsync, HandlerAfter
    <2>2. graph[n] \subseteq Succeeded /\ n \notin Succeeded /\ Succeeded \subseteq Nodes
        BY <1>1, <2>1 DEF FreeNodes, IsFreeNode, MapMirrorsHandlers, Succeeded
    <2> QED
        BY <1>2, <2>2, StartedNodesAreNotOnCycles
<1>4. ASSUME NEW m \in Nodes, HandlerResolves(m)
      PROVE  n \notin Reachable(graph, graph[n])
    <2>1. handler[m] = "running" /\ n # m
        BY <1>1, <1>4 DEF HandlerResolves, Running
    <2>2. n \in FreedBy(m)
        BY <1>1, <1>4, <2>1 DEF HandlerResolves, HandlerAfter
    <2>3. graph[n] \subseteq Succeeded \cup {m}
        BY <1>4, <2>2, FreedByFinishedHandler DEF HandlerResolves
    <2>4. \A k \in Succeeded \cup {m} : graph[k] \subseteq Succeeded \cup {m}
        BY <1>2, <2>1 DEF StartedInOrder
    <2>5. n \notin Succeeded \cup {m} /\ Succeeded \cup {m} \subseteq Nodes
        BY <1>1, <2>1 DEF Succeeded
    <2> QED
        BY <1>2, <2>3, <2>4, <2>5, StartedNodesAreNotOnCycles
<1>5. ASSUME NEW m \in Nodes, NEW kind \in ThrownKinds, HandlerRejects(m, kind)
      PROVE  FALSE
    BY <1>1, <1>5 DEF HandlerRejects, Running, HandlerAfter
<1>6. ~(RejectEarly \/ ThrowIfNotEmpty \/ UNCHANGED vars)
    BY <1>1 DEF RejectEarly, ThrowIfNotEmpty, EndOfWalk, vars, walkVars
<1> QED
    BY <1>3, <1>4, <1>5, <1>6 DEF Next

LEMMA EndStaysQuiet ==
    ASSUME IInv, EndIsQuiet, [Next]_vars
    PROVE  EndIsQuiet'
<1>1. SUFFICES ASSUME Settled', ~aborted'
               PROVE  /\ \A n \in Nodes : handler'[n] # "running"
                      /\ circularNodes' = UnhandledNodes'
                      /\ walk' = "resolved" <=> ErrorNodes' = {} /\ circularNodes' = {}
    BY DEF EndIsQuiet
<1>2. ~aborted
    BY <1>1 DEF Next, WalkAsync, HandlerResolves, HandlerRejects, RejectEarly,
       ThrowIfNotEmpty, EndOfWalk, vars, walkVars
<1>3. CASE ThrowIfNotEmpty
    BY <1>3 DEF ThrowIfNotEmpty, EndOfWalk, Running, UnhandledNodes, ErrorNodes, mapVars,
       errorVars
<1>4. CASE UNCHANGED vars
    BY <1>1, <1>4 DEF EndIsQuiet, Settled, UnhandledNodes, ErrorNodes, vars, walkVars, mapVars,
       errorVars
<1>5. ~WalkAsync /\ ~RejectEarly
    BY <1>1, <1>2 DEF WalkAsync, RejectEarly, Settled
<1>6. ASSUME NEW n \in Nodes, Running(n), walk' = walk
      PROVE  FALSE
    BY <1>1, <1>2, <1>6 DEF EndIsQuiet, Settled, Running
<1> QED
    BY <1>3, <1>4, <1>5, <1>6 DEF Next, HandlerResolves, HandlerRejects

\* In a finite map, a node that is left is on the way to a cycle: something it
\* depends on is left, too.
LEMMA QuietEndAccountsForAllNodes ==
    ASSUME IsFiniteSet(Nodes), IInv, CyclesAreNotStarted, EndIsQuiet
    PROVE  EndAccountsForAllNodes
<1> SUFFICES ASSUME Settled, ~aborted
             PROVE  /\ \A n \in Nodes :
                          /\ (n \in Succeeded) # (errors[n] # "none" \/ n \in circularNodes)
                          /\ n \in circularNodes <=>
                               /\ Reachable(graph, {n}) \cap Failed = {}
                               /\ \E m \in Reachable(graph, {n}) : m \in Reachable(graph, graph[m])
                    /\ walk = "resolved" <=> Succeeded = Nodes
    BY DEF EndAccountsForAllNodes
<1> USE DEF IInv, TypeOK, NodeMapTypeOK
<1>1. /\ \A n \in Nodes : handler[n] \in {"idle", "succeeded", "failed"}
      /\ walk = "resolved" <=> ErrorNodes = {} /\ circularNodes = {}
    BY DEF EndIsQuiet, HandlerStates
<1>2. \A n \in Nodes : n \in circularNodes <=> n \notin Succeeded /\ errors[n] = "none"
    BY DEF EndIsQuiet, UnhandledNodes, ErrorNodes, MapMirrorsHandlers
<1>3. \A n \in Succeeded : errors[n] = "none"
    BY DEF ErrorsAreExplained, Succeeded
<1>4. /\ graph \in [Nodes -> SUBSET Nodes]
      /\ \A n \in Nodes : /\ n \in Reachable(graph, {n})
                          /\ Reachable(graph, {n}) \subseteq Nodes
                          /\ \A m \in Reachable(graph, {n}) :
                                graph[m] \subseteq Reachable(graph, {n})
    BY ReachableIsClosed
<1>5. ASSUME NEW n \in Nodes, errors[n] = "none"
      PROVE  Reachable(graph, {n}) \cap Failed = {}
    <2> DEFINE S == {m \in Nodes : errors[m] = "none"}
    <2>1. S \in SUBSET Nodes /\ {n} \subseteq S /\ \A m \in S : graph[m] \subseteq S
        BY <1>5 DEF ErrorsSpread
    <2>2. S \cap Failed = {}
        BY DEF ErrorsSpread, Failed
    <2> HIDE DEF S
    <2> QED
        BY <2>1, <2>2, ReachableIsLeast
<1>6. ASSUME NEW n \in Nodes, n \in circularNodes
      PROVE  \E m \in Reachable(graph, {n}) : m \in Reachable(graph, graph[m])
    <2>1. ASSUME NEW m \in circularNodes
          PROVE  graph[m] \cap circularNodes # {}
        <3>1. m \in Nodes /\ handler[m] = "idle"
            BY <1>1, <1>2, <2>1 DEF ErrorsSpread, Succeeded
        <3>2. PICK k \in graph[m] : k \notin Succeeded
            BY <3>1 DEF StartedOnceReady, Settled
        <3>3. errors[k] = "none"
            BY <1>2, <2>1, <3>1, <3>2 DEF ErrorsSpread
        <3> QED
            BY <1>2, <1>4, <3>1, <3>2, <3>3
    <2>2. \A m \in circularNodes : graph[m] \cap circularNodes # {}
        BY <2>1
    <2>3. circularNodes \in SUBSET Nodes
        OBVIOUS
    <2>4. graph \in [Nodes -> SUBSET Nodes]
        BY <1>4
    <2> QED
        BY <1>6, <2>2, <2>3, <2>4, EndlessPathsMeetACycle, Zenon
<1>7. ASSUME NEW n \in Nodes, Reachable(graph, {n}) \cap Failed = {},
             NEW m \in Reachable(graph, {n}), m \in Reachable(graph, graph[m])
      PROVE  n \in circularNodes
    <2>1. errors[n] = "none"
        BY <1>7 DEF ErrorsSpread
    <2>2. n \notin Succeeded
        <3>1. SUFFICES ASSUME n \in Succeeded PROVE FALSE
            OBVIOUS
        <3>2. \A k \in Succeeded : graph[k] \subseteq Succeeded
            BY DEF StartedInOrder, Succeeded
        <3>3. Succeeded \in SUBSET Nodes /\ {n} \subseteq Succeeded
            BY <3>1 DEF Succeeded
        <3>4. m \in Succeeded
            BY <1>7, <3>2, <3>3, ReachableIsLeast
        <3> QED
            BY <1>7, <3>4 DEF CyclesAreNotStarted, Succeeded
    <2> QED
        BY <1>2, <2>1, <2>2
<1>8. \A n \in Nodes : (n \in Succeeded) # (errors[n] # "none" \/ n \in circularNodes)
    BY <1>2, <1>3
<1>9. walk = "resolved" <=> Succeeded = Nodes
    BY <1>1, <1>2, <1>3 DEF ErrorNodes, Succeeded
<1> QED
    BY <1>2, <1>5, <1>6, <1>7, <1>8, <1>9

\* A walk over a finite map ends with each node succeeded, failed, skipped or, if
\* it leads to a cycle and to no failure, circular; and with nothing else as circular.
THEOREM EndAlwaysAccountsForAllNodes ==
    IsFiniteSet(Nodes) => (Spec => []EndAccountsForAllNodes)
<1> SUFFICES ASSUME IsFiniteSet(Nodes) PROVE Spec => []EndAccountsForAllNodes
    OBVIOUS
<1>1. Init => CyclesAreNotStarted /\ EndIsQuiet
    BY DEF Init, CyclesAreNotStarted, EndIsQuiet, Settled
<1>2. IInv /\ CyclesAreNotStarted /\ EndIsQuiet /\ [Next]_vars
        => (CyclesAreNotStarted /\ EndIsQuiet)'
    BY CyclesStayUnstarted, EndStaysQuiet
<1>3. IInv /\ CyclesAreNotStarted /\ EndIsQuiet => EndAccountsForAllNodes
    BY QuietEndAccountsForAllNodes
<1> QED
    BY <1>1, <1>2, <1>3, IInvIsInvariant, PTL DEF Spec

----------------------------------------------------------------------------
(* A walk implements EvaluationOrder. *)

\* The start of a walk begins the execution.
LEMMA WalkAsyncBegins == IInv /\ WalkAsync => Order!Begin
<1> SUFFICES ASSUME IInv, WalkAsync PROVE Order!Begin
    OBVIOUS
<1> USE DEF IInv, TypeOK, NodeMapTypeOK
<1>1. keys = Nodes /\ \A n \in Nodes : dependsOn[n] = graph[n]
    BY DEF WalkAsync, NoneStartedBeforeTheWalk, MapMirrorsHandlers, Succeeded
<1>2. handler' = [n \in Nodes |-> IF graph[n] = {} THEN "running" ELSE handler[n]]
    BY <1>1, NoNodeAssumption DEF WalkAsync, HandlerAfter, FreeNodes, IsFreeNode
<1> QED
    BY <1>2 DEF WalkAsync, Order!Begin

\* A handler that resolves succeeds, and passes on to what became ready.
LEMMA HandlerResolvesSucceeds ==
    ASSUME IInv, NEW n \in Nodes, HandlerResolves(n)
    PROVE  Order!Succeed(n)
<1> USE DEF IInv, TypeOK, NodeMapTypeOK
<1>1. FreedBy(n) = {m \in Nodes : handler[m] = "idle" /\ graph[m] \subseteq Succeeded \cup {n}}
    BY FreedByFinishedHandler DEF HandlerResolves
<1>2. handler[n] = "running" /\ n \notin FreedBy(n)
    BY <1>1 DEF HandlerResolves, Running
<1>3. Order!Succeeded = Succeeded
    BY DEF Order!Succeeded, Succeeded
<1>4. handler' = [m \in Nodes |->
                    IF m = n THEN "succeeded"
                    ELSE IF Order!Ready(m, Order!Succeeded \cup {n}) THEN "running"
                    ELSE handler[m]]
    BY <1>1, <1>2, <1>3 DEF HandlerResolves, HandlerAfter, Order!Ready
<1> QED
    BY <1>2, <1>4 DEF HandlerResolves, Order!Succeed

\* A handler that rejects fails, whatever it throws.
LEMMA HandlerRejectsFails ==
    ASSUME IInv, NEW n \in Nodes, NEW kind \in ThrownKinds, HandlerRejects(n, kind)
    PROVE  Order!Fail(n)
<1>1. handler[n] = "running" /\ handler' = [handler EXCEPT ![n] = "failed"]
    BY DEF IInv, TypeOK, HandlerRejects, Running, HandlerAfter
<1> QED
    BY <1>1 DEF HandlerRejects, Order!Fail

\* A walk that rejects early was aborted by a failure.
LEMMA RejectEarlyRejects == IInv /\ RejectEarly => Order!Reject
<1> SUFFICES ASSUME IInv, RejectEarly PROVE Order!Reject
    OBVIOUS
<1>1. PICK n \in Nodes : handler[n] = "failed"
    BY DEF IInv, AbortedByFailure, RejectEarly
<1>2. n \notin Order!Succeeded
    BY <1>1 DEF Order!Succeeded
<1> QED
    BY <1>1, <1>2 DEF RejectEarly, Order!Reject

\* A walk that runs to its end resolves iff all nodes succeeded.
LEMMA ThrowIfNotEmptyConcludes == IInv /\ ThrowIfNotEmpty => Order!Resolve \/ Order!Reject
<1> SUFFICES ASSUME IInv, ThrowIfNotEmpty PROVE Order!Resolve \/ Order!Reject
    OBVIOUS
<1> USE DEF IInv, TypeOK, NodeMapTypeOK
<1>1. /\ walk = "walking" /\ ~aborted
      /\ \A n \in Nodes : handler[n] # "running"
      /\ walk' = IF ErrorNodes = {} /\ keys \ ErrorNodes = {} THEN "resolved" ELSE "rejected"
      /\ UNCHANGED <<graph, handler>>
    BY DEF ThrowIfNotEmpty, EndOfWalk, UnhandledNodes, Running
<1>2. Order!Succeeded = Succeeded /\ keys = Nodes \ Succeeded
    BY DEF Order!Succeeded, Succeeded, MapMirrorsHandlers
<1>3. ErrorNodes \cap Succeeded = {}
    BY <1>1 DEF ErrorNodes, Succeeded, ErrorsAreExplained
<1>4. CASE Succeeded = Nodes
    <2>1. ErrorNodes = {} /\ keys \ ErrorNodes = {}
        BY <1>2, <1>3, <1>4 DEF ErrorNodes
    <2> QED
        BY <2>1, <1>1, <1>2, <1>4 DEF Order!Resolve
<1>5. CASE Succeeded # Nodes
    <2>1. ~(ErrorNodes = {} /\ keys \ ErrorNodes = {})
        BY <1>2, <1>5 DEF Succeeded
    <2> QED
        BY <2>1, <1>1, <1>2, <1>5 DEF Order!Reject
<1> QED
    BY <1>4, <1>5

\* walkAsync executes a graph in evaluation order, once each, and its promise
\* resolves only when everything was executed.
THEOREM WalkImplementsEvaluationOrder == Spec => ImplementsEvaluationOrder
<1>1. Init => Order!Init
    BY DEF Init, Order!Init
<1>2. ASSUME IInv, [Next]_vars PROVE [Order!Next]_Order!vars
    <2>1. CASE WalkAsync
        BY <2>1, <1>2, WalkAsyncBegins DEF Order!Next
    <2>2. ASSUME NEW n \in Nodes, HandlerResolves(n) PROVE Order!Next
        BY <2>2, <1>2, HandlerResolvesSucceeds DEF Order!Next
    <2>3. ASSUME NEW n \in Nodes, NEW kind \in ThrownKinds, HandlerRejects(n, kind)
          PROVE  Order!Next
        BY <2>3, <1>2, HandlerRejectsFails DEF Order!Next
    <2>4. CASE RejectEarly
        BY <2>4, <1>2, RejectEarlyRejects DEF Order!Next
    <2>5. CASE ThrowIfNotEmpty
        BY <2>5, <1>2, ThrowIfNotEmptyConcludes DEF Order!Next
    <2>6. CASE UNCHANGED vars
        BY <2>6 DEF vars, walkVars, Order!vars
    <2> QED
        BY <1>2, <2>1, <2>2, <2>3, <2>4, <2>5, <2>6 DEF Next
<1> QED
    BY <1>1, <1>2, IInvIsInvariant, PTL DEF Spec, ImplementsEvaluationOrder, Order!Spec

============================================================================
