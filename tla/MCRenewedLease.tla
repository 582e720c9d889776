--------------------------- MODULE MCRenewedLease ---------------------------
(***************************************************************************)
(* Instances of RenewedLease for TLC: two clients that are                 *)
(* interchangeable.                                                        *)
(***************************************************************************)
EXTENDS RenewedLease, TLC

ClientSymmetry == Permutations(Clients)

============================================================================
