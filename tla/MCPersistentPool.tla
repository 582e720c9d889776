-------------------------- MODULE MCPersistentPool --------------------------
(***************************************************************************)
(* An instance of PersistentPool for TLC: two clients with one caller      *)
(* each.                                                                   *)
(***************************************************************************)
EXTENDS PersistentPool, TLC

CONSTANTS p1, p2, c1, c2

MCClientId == (p1 :> c1) @@ (p2 :> c2)

============================================================================
