------------------------------ MODULE SavedMap ------------------------------
(***************************************************************************)
(* What the owner of a persistent remote map relies on                     *)
(* (packages/workspace/src/workspace/remote_map.ts): a map from keys to    *)
(* values, changed entry by entry or cleared, of which flush saves all     *)
(* and only what was changed since the last flush; a process that opens    *)
(* the map again finds what was saved.  A flush that does not come to its  *)
(* end promises nothing.                                                   *)
(***************************************************************************)
CONSTANTS Keys, Values, None

VARIABLES
    data,     \* key -> value, or None
    saved,    \* what another process would find
    saving    \* a flush is in progress

vars == <<data, saved, saving>>

Contents == [Keys -> Values \cup {None}]
Nothing == [k \in Keys |-> None]

Init ==
    /\ data = Nothing
    /\ saved = Nothing
    /\ saving = FALSE

\* The map changes: set, delete, an entry of setAll or deleteAll, or clear.
Change ==
    /\ ~saving
    /\ \/ \E k \in Keys, v \in Values \cup {None} : data' = [data EXCEPT ![k] = v]
       \/ data' = Nothing
    /\ UNCHANGED <<saved, saving>>

StartFlush ==
    /\ ~saving
    /\ saving' = TRUE
    /\ UNCHANGED <<data, saved>>

EndFlush ==
    /\ saving
    /\ saving' = FALSE
    /\ saved' = data
    /\ UNCHANGED data

Reopen ==
    /\ saving \/ saved' = saved
    /\ saved' \in Contents
    /\ data' = saved'
    /\ saving' = FALSE

Next == Change \/ StartFlush \/ EndFlush \/ Reopen

Spec == Init /\ [][Next]_vars

============================================================================
