------------------------------ MODULE NodeMap ------------------------------
(***************************************************************************)
(* The mutable dependency map of packages/dag/src/nodemap.ts               *)
(* (AbstractNodeMap, DataNodeMap) and the error map that a walk over it    *)
(* fills (WalkErrors).                                                     *)
(*                                                                         *)
(* A map sends a node to the set of nodes it depends on, and keeps the     *)
(* inverse relation beside it so that deleteNode can find the dependents   *)
(* of a node.  Both are DefaultMaps: a missing key reads as the empty set, *)
(* so they are total functions here and "keys" is the set of keys that     *)
(* dependsOn really has.  WalkErrors is a Map from nodes to Errors: kind   *)
(* and causingNode are what the rest of the code reads of an Error.        *)
(***************************************************************************)
EXTENDS Naturals, Dependencies

VARIABLES
    keys,              \* the keys of the map
    dependsOn,         \* node -> the nodes it (still) depends on
    reverseNeighbors,  \* node -> the nodes that (still) depend on it
    errors,            \* node -> kind of its entry in WalkErrors
    causingNode        \* node -> NodeSkippedError.causingNode

mapVars == <<keys, dependsOn, reverseNeighbors>>
errorVars == <<errors, causingNode>>

NoNode == "no node"

ASSUME NoNodeAssumption == NoNode \notin Nodes

\* "none": no entry.  "error": what the handler threw.  "fatal": it threw a
\* FatalError.  "skipped": a NodeSkippedError.
ErrorKinds == {"none", "error", "fatal", "skipped"}

NodeMapTypeOK ==
    /\ keys \subseteq Nodes
    /\ dependsOn \in [Nodes -> SUBSET Nodes]
    /\ reverseNeighbors \in [Nodes -> SUBSET Nodes]
    /\ errors \in [Nodes -> ErrorKinds]
    /\ causingNode \in [Nodes -> Nodes \cup {NoNode}]

----------------------------------------------------------------------------
(* AbstractNodeMap *)

CreateReverseNeighbors(entries) ==
    [id \in Nodes |-> {n \in Nodes : id \in entries[n]}]

\* A map built from entries (the constructor, and clone which calls it).
NewNodeMap(entries) ==
    /\ keys = Nodes
    /\ dependsOn = entries
    /\ reverseNeighbors = CreateReverseNeighbors(entries)

IsFreeNode(id) == dependsOn[id] = {}

FreeNodes(source) == {id \in source : IsFreeNode(id)}

\* Mistaken variant of DeleteNode: the inverse relation is left as it was.
DeleteNodeOneSided(id) ==
    /\ keys' = keys \ {id}
    /\ dependsOn' = [n \in Nodes |-> IF n = id THEN {} ELSE dependsOn[n] \ {id}]
    /\ UNCHANGED reverseNeighbors

\* Removes a node and its edges, on both sides; the affected nodes that the
\* method returns are reverseNeighbors[id], read before the step.
DeleteNode(id) ==
    /\ keys' = keys \ {id}
    /\ dependsOn' =
         [n \in Nodes |->
            IF n = id THEN {}
            ELSE IF n \in reverseNeighbors[id] THEN dependsOn[n] \ {id}
            ELSE dependsOn[n]]
    /\ reverseNeighbors' =
         [n \in Nodes |->
            IF n = id THEN {}
            ELSE IF n \in dependsOn[id] THEN reverseNeighbors[n] \ {id}
            ELSE reverseNeighbors[n]]

----------------------------------------------------------------------------
(* WalkErrors *)

NoErrors ==
    /\ errors = [n \in Nodes |-> "none"]
    /\ causingNode = [n \in Nodes |-> NoNode]

ErrorNodes == {n \in Nodes : errors[n] # "none"}

\* Mistaken variant of VisitedFrom: no recursion.
VisitedFromDirectly(id) == {id} \cup reverseNeighbors[id]

\* The nodes that the recursion of WalkErrors.set over getReverse visits when
\* it starts at id.
VisitedFrom(id) == Reachable(reverseNeighbors, {id})

\* Mistaken variant of Attributions: everything is blamed on the first failure.
AttributionsToRoot(id, visited, direct) == [visited \ {id} -> {id}]

\* The ways the recursion may attribute the nodes of "visited" to a parent, and
\* a few that no order leads to: the order in which it meets them depends on the
\* insertion order of sets and maps.  A node is blamed on a node it depends on that was visited before it,
\* or, for those a FatalError reaches directly ("direct"), on id itself.
Attributions(id, visited, direct) ==
    {blame \in [visited \ {id} -> visited] :
        /\ \A n \in visited \ {id} :
              blame[n] \in dependsOn[n] \/ (n \in direct /\ blame[n] = id)
        /\ \A S \in SUBSET (visited \ {id}) :
              S # {} => \E n \in S : blame[n] \notin S}

SetErrors(id, kind, visited, direct) ==
    /\ errors' =
         [n \in Nodes |-> IF n = id THEN kind
                          ELSE IF n \in visited THEN "skipped"
                          ELSE errors[n]]
    /\ \E blame \in Attributions(id, visited, direct) :
         causingNode' =
           [n \in Nodes |-> IF n = id THEN NoNode
                            ELSE IF n \in visited THEN blame[n]
                            ELSE causingNode[n]]

\* set(id, e) where e is no FatalError: e, and a NodeSkippedError for every
\* node that transitively depends on id.
SetError(id) == SetErrors(id, "error", VisitedFrom(id), {})

\* set(id, e) where e is a FatalError: every node left in the map is skipped;
\* the caller then gets the WalkError that set throws.
SetFatalError(id) == SetErrors(id, "fatal", keys \cup {id}, keys)

\* throwIfNotEmpty: nodes with neither a result nor an error are a cycle, or
\* depend on one.
UnhandledNodes == keys \ ErrorNodes

============================================================================
