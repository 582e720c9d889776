--------------------------- MODULE MCDagWalkSync ---------------------------
(***************************************************************************)
(* An instance of DagWalkSync for TLC: every map over three nodes, and     *)
(* handlers that never throw.                                              *)
(***************************************************************************)
EXTENDS DagWalkSync

CONSTANTS n1, n2, n3

MCNodes == {n1, n2, n3}
MCGraphs == [MCNodes -> SUBSET MCNodes]

============================================================================
