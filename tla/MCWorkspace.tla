----------------------------- MODULE MCWorkspace -----------------------------
(***************************************************************************)
(* An instance of Workspace for TLC: a visible and a hidden element of an   *)
(* account, and a visible one of another.                                  *)
(***************************************************************************)
EXTENDS Workspace

CONSTANTS visible, secret, other, A, B

MCElements == {visible, secret, other}
MCAccountOf == [e \in MCElements |-> IF e = other THEN B ELSE A]

==============================================================================
