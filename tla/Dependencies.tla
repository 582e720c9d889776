---------------------------- MODULE Dependencies ----------------------------
(***************************************************************************)
(* Graphs of dependencies: functions from a node to the set of nodes it    *)
(* depends on.                                                             *)
(***************************************************************************)
CONSTANT Nodes   \* the node ids (NodeId)

\* The nodes at the end of a path of "edges" that starts in "from": the least
\* set that holds "from" and is closed under "edges".
Reachable(edges, from) ==
    {n \in Nodes :
        \A S \in SUBSET Nodes :
            (from \subseteq S /\ \A m \in S : edges[m] \subseteq S) => n \in S}

\* The edges that lead to nodes of S, and the edges that come from nodes of S in
\* the other direction: Reachable along these is getComponent filtered by S.
Within(S, edges) == [n \in Nodes |-> edges[n] \cap S]
ReversedWithin(S, edges) == [n \in Nodes |-> {m \in S : n \in edges[m]}]

=============================================================================
