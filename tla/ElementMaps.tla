---------------------------- MODULE ElementMaps ----------------------------
(***************************************************************************)
(* What the sources of elements of a workspace hold: for each element its  *)
(* value, or Absent.  A hash of the elements of a source is the map itself *)
(* (no two contents have one hash), and a hash that was never set is that  *)
(* of a source without elements.                                           *)
(***************************************************************************)
EXTENDS Naturals

CONSTANTS
    Elements,
    Hidden,     \* the elements that are hidden as a whole: in the state only
    Values      \* the contents an element may have

ASSUME ElementMapsAssumption ==
    /\ Hidden \subseteq Elements
    /\ Values \subseteq Nat \ {0}

Absent == 0
Maps == [Elements -> Values \cup {Absent}]
Empty == [e \in Elements |-> Absent]

\* The elements of a source.
Listed(m) == {e \in Elements : m[e] # Absent}

\* The changes, as their ids with what is there after them, from one content
\* of a source to another.
Changes(before, after) ==
    [e \in {f \in Elements : before[f] # after[f]} |-> after[e]]

============================================================================
