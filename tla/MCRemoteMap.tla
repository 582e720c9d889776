---------------------------- MODULE MCRemoteMap ----------------------------
(***************************************************************************)
(* Instances of RemoteMap for TLC: one key with two values and two readers *)
(* that are interchangeable, and two keys with one value.                  *)
(***************************************************************************)
EXTENDS RemoteMap, TLC

OneKey == {1}
TwoKeys == {1, 2}

ReaderSymmetry == Permutations(Readers)

============================================================================
