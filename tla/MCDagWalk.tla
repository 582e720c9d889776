----------------------------- MODULE MCDagWalk -----------------------------
(***************************************************************************)
(* An instance of DagWalk for TLC.  The maps over four nodes: all the      *)
(* acyclic ones, up to renaming, and all with additional edges that close  *)
(* cycles of one to four nodes.                                            *)
(***************************************************************************)
EXTENDS DagWalk

CONSTANTS n1, n2, n3, n4

MCNodes == {n1, n2, n3, n4}

Edges ==
    {<<n2, n1>>, <<n3, n1>>, <<n3, n2>>, <<n4, n1>>, <<n4, n2>>, <<n4, n3>>, <<n2, n4>>, <<n1, n4>>,
     <<n3, n3>>}

MCGraphs ==
    {[n \in MCNodes |-> {m \in MCNodes : <<n, m>> \in E}] : E \in SUBSET Edges}

============================================================================
