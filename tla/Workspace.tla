----------------------------- MODULE Workspace -----------------------------
(***************************************************************************)
(* A persistent workspace with one environment:                            *)
(* packages/workspace/src/workspace/workspace.ts over its state            *)
(* (LocalState), its NaCl files and the cache of the two merged            *)
(* (MergeManager).  A process loads the workspace, changes it and flushes  *)
(* it, one call after the other, and may stop at any step.                 *)
(*                                                                         *)
(* The NaCl files source keeps a cache of its own; of it is modelled what  *)
(* load tells the workspace: the changes since the cache was flushed.      *)
(***************************************************************************)
EXTENDS LocalState, MergeManager

CONSTANTS
    MaxSessions, MaxChanges     \* bounds on the processes and on the changes made in all

ASSUME WorkspaceAssumption == MaxSessions \in Nat /\ MaxChanges \in Nat

VARIABLES
    phase,      \* of the process
    pending,    \* elements changed in the state, not yet reported to updateNaclFiles
    naclFiles, naclDb,          \* the NaCl files, their cache on disk
    nacl,                       \* the NaCl files source of the process
    sessions, changes           \* counters for the bounds

naclVars == <<naclFiles, naclDb, nacl>>
vars == <<stateVars, mergeVars, naclVars, phase, pending, sessions, changes>>

TypeOK ==
    /\ StateTypeOK /\ MergeTypeOK
    /\ phase \in {"down", "ready", "broken", "flush merge", "flush nacl", "flush nacl cache",
                  "flush state"}
    /\ pending \subseteq Elements
    /\ naclFiles \in Maps /\ nacl \in Maps
    /\ naclDb \in [elements : Maps, valid : BOOLEAN]
    /\ sessions \in 0 .. MaxSessions /\ changes \in 0 .. MaxChanges

Init ==
    /\ StateInit /\ MergeInit
    /\ phase = "down"
    /\ pending = {}
    /\ naclFiles = Empty /\ nacl = Empty
    /\ naclDb = [elements |-> Empty, valid |-> TRUE]
    /\ sessions = 0 /\ changes = 0

MayChange == changes < MaxChanges /\ changes' = changes + 1

\* An account keeps an element once it has one (see the README).
KeepsItsAccount(e, v) ==
    v # Absent \/ \E f \in OfAccount(AccountOf[e]) \ {e} : elements[f] # Absent

----------------------------------------------------------------------------
\* buildWorkspaceState

\* completeStateOnlyChanges
CompleteStateOnlyChanges(m, initBuild, c1, after, pre, src1, src2, stateHash) ==
    LET kept == {e \in DOMAIN after : after[e] = Absent \/ src1[e] # Absent \/ e \in Hidden}
        isFirstInitFromNacls == DOMAIN after = {} /\ \A e \in Elements : m.merged[e] = Nothing
        hidden == IF isFirstInitFromNacls THEN Listed(src2) \cap Hidden ELSE {}
        removed == RemovedIds(c1) \ Hidden
    IN  ChangeSet([e \in kept \cup hidden \cup removed |->
                      IF e \in kept THEN after[e] ELSE IF e \in removed THEN Absent ELSE src2[e]],
                  initBuild => m.sourceHash = stateHash, pre, stateHash)

\* Mistaken variant of BuildWorkspace: a process whose merge failed goes on.
BuildWorkspaceOrGoOn(m, c1, c2, src1, src2) ==
    \/ /\ mm' = Merged(m, c1, c2, src1, src2)
       /\ phase' = "ready"
    \/ /\ mm' = FailedMerge(m, c1, c2)
       /\ phase' = "ready"

\* updateWorkspace: if the merge throws, workspaceState is a rejected promise
\* from then on.
BuildWorkspace(m, c1, c2, src1, src2) ==
    \/ /\ mm' = Merged(m, c1, c2, src1, src2)
       /\ phase' = "ready"
    \/ /\ mm' = FailedMerge(m, c1, c2)
       /\ phase' = "broken"

NoChanges == [e \in {} |-> Absent]

LoadWorkspace ==
    LET m == Initiated(mmDb)
        c1 == ChangeSet(Changes(IF naclDb.valid THEN naclDb.elements ELSE Empty, naclFiles),
                        naclDb.valid, naclDb.elements, naclFiles)
        c2 == CompleteStateOnlyChanges(m, TRUE, c1, NoChanges, stateFiles, naclFiles,
                                       LoadedElements, stateFiles)
    IN  /\ phase = "down"
        /\ sessions < MaxSessions
        /\ sessions' = sessions + 1
        /\ LoadState
        /\ nacl' = naclFiles
        /\ BuildWorkspace(m, c1, c2, naclFiles, LoadedElements)
        /\ UNCHANGED <<mmDb, mergeStep, naclFiles, naclDb, pending, changes>>

\* updateStateFromChanges, by a fetch or a deployment
UpdateState(e, v) ==
    /\ phase = "ready"
    /\ MayChange
    /\ v # elements[e]
    /\ KeepsItsAccount(e, v)
    /\ ChangeState(e, v)
    /\ pending' = pending \cup {e}
    /\ UNCHANGED <<mergeVars, naclVars, phase, sessions>>

\* updateNaclFiles: the visible changes go to the NaCl files, the hidden ones are
\* merged with them.
UpdateNaclFiles(to) ==
    LET c1 == ChangeSet(Changes(nacl, to), TRUE, nacl, to)
        c2 == CompleteStateOnlyChanges(mm, FALSE, c1, [e \in pending |-> elements[e]],
                                       mm.sourceHash, to, elements, CalculatedHash)
    IN  /\ phase = "ready"
        /\ CalculateHash
        /\ nacl' = to
        /\ pending' = {}
        /\ BuildWorkspace(mm, c1, c2, to, elements)
        /\ UNCHANGED <<mmDb, mergeStep, naclFiles, naclDb, sessions>>

\* setNaclFiles, removeNaclFiles and their like
SetNaclFiles(to) ==
    LET c1 == ChangeSet(Changes(nacl, to), TRUE, nacl, to)
        c2 == CompleteStateOnlyChanges(mm, FALSE, c1, NoChanges, hash, to, elements, hash)
    IN  /\ phase = "ready"
        /\ nacl' = to
        /\ BuildWorkspace(mm, c1, c2, to, elements)
        /\ UNCHANGED <<stateVars, mmDb, mergeStep, naclFiles, naclDb, pending, sessions>>

\* What an update makes of the NaCl files.
NaclUpdates == {nacl} \cup {[nacl EXCEPT ![e] = v] : e \in Elements, v \in Values \cup {Absent}}

ChangeNaclFiles ==
    \E to \in NaclUpdates :
        /\ IF to = nacl THEN UNCHANGED changes ELSE MayChange
        /\ UpdateNaclFiles(to) \/ SetNaclFiles(to)

----------------------------------------------------------------------------
\* flush: the merged cache, the NaCl files with their cache, the state

Flush ==
    /\ phase = "ready"
    /\ pending = {}
    /\ phase' = "flush merge"
    /\ MarkFlush
    /\ UNCHANGED <<stateVars, naclVars, pending, sessions, changes>>

FlushMerge ==
    /\ phase = "flush merge"
    /\ \/ FlushMergeStep /\ UNCHANGED phase
       \/ UnmarkFlush /\ phase' = "flush nacl"
    /\ UNCHANGED <<stateVars, naclVars, pending, sessions, changes>>

\* A process that stops before the end of the flush of the cache may leave it as
\* it was, or one that does not belong together.
FlushNaclFiles ==
    /\ phase = "flush nacl"
    /\ phase' = "flush nacl cache"
    /\ naclFiles' = nacl
    /\ \E untouched \in BOOLEAN : naclDb' = [naclDb EXCEPT !.valid = @ /\ untouched]
    /\ UNCHANGED <<stateVars, mergeVars, nacl, pending, sessions, changes>>

FlushNaclCache ==
    /\ phase = "flush nacl cache"
    /\ phase' = "flush state"
    /\ naclDb' = [elements |-> nacl, valid |-> TRUE]
    /\ FlushState
    /\ UNCHANGED <<mergeVars, naclFiles, nacl, pending, sessions, changes>>

FlushStateSteps ==
    /\ phase = "flush state"
    /\ FlushStateStep
    /\ UNCHANGED <<mergeVars, naclVars, phase, pending, sessions, changes>>

FlushEnds ==
    /\ phase = "flush state"
    /\ stateStep = "idle"
    /\ phase' = "ready"
    /\ UNCHANGED <<stateVars, mergeVars, naclVars, pending, sessions, changes>>

----------------------------------------------------------------------------

\* The process ends, between any two steps.
Stop ==
    /\ phase # "down"
    /\ phase' = "down"
    /\ pending' = {}
    /\ StateStops
    /\ MergeStops
    /\ nacl' = Empty /\ UNCHANGED <<naclFiles, naclDb>>
    /\ UNCHANGED <<sessions, changes>>

\* The files of the workspace are changed by others, while no process runs.
EditFiles(e, v) ==
    /\ phase = "down"
    /\ MayChange
    /\ \/ /\ v # naclFiles[e]
          /\ naclFiles' = [naclFiles EXCEPT ![e] = v]
          /\ UNCHANGED stateFiles
       \/ /\ v # stateFiles[e]
          /\ stateFiles' = [stateFiles EXCEPT ![e] = v]
          /\ UNCHANGED naclFiles
    /\ UNCHANGED <<stateDb, memoryVars, stepVars, mergeVars, naclDb, nacl, phase, pending, sessions>>

\* While the cached state is torn between two contents, by a flush that did not
\* end, the state files do not become again what its hash names (see the README).
ContentsAreNew ==
    stateFiles' # stateFiles /\ stateFiles' = stateDb.hash => stateDb.elements = stateDb.hash

Step ==
    \/ LoadWorkspace
    \/ \E e \in Elements, v \in Values \cup {Absent} : UpdateState(e, v)
    \/ ChangeNaclFiles
    \/ Flush \/ FlushMerge \/ FlushNaclFiles \/ FlushNaclCache \/ FlushStateSteps \/ FlushEnds
    \/ Stop
    \/ \E e \in Elements, v \in Values \cup {Absent} : EditFiles(e, v)

Next == Step /\ ContentsAreNew

Spec == Init /\ [][Next]_vars

----------------------------------------------------------------------------

\* The merge of the two sources from scratch: what is in the NaCl files or hidden.
FullMerge(src1, src2) ==
    [e \in Elements |-> IF src1[e] # Absent \/ e \in Hidden THEN <<src1[e], src2[e]>> ELSE Nothing]

IsMergeOf(m, src1, src2) ==
    /\ m.merged = FullMerge(src1, src2)
    /\ m.errors = ConflictsOf(m.merged)

\* What a workspace shows, after any number of incremental updates, processes
\* that stopped in the middle of a flush and files changed in between, is the
\* merge of its NaCl files and its state as they are, with the errors of that
\* merge, unless changes of the state are still to be reported.
MergedIsCurrent ==
    phase = "ready" /\ pending = {} => IsMergeOf(mm, nacl, elements)

\* A cache on disk that is not marked as being flushed is the merge of the
\* contents that its hash names: a later process that compares the hash only
\* takes nothing else for the merge of these.
SavedMergeIsOfItsHash ==
    ~mmDb.flushing => IsMergeOf(mmDb, mmDb.mergedHash[1], mmDb.mergedHash[2])

\* A flush that ends has saved the workspace: the NaCl files, the state, and a
\* merged cache that the next process accepts.
FlushSavesTheWorkspace ==
    [][phase = "flush state" /\ phase' = "ready" =>
          /\ naclFiles = nacl /\ naclDb = [elements |-> nacl, valid |-> TRUE]
          /\ stateFiles = elements /\ LoadedElements = elements
          /\ mmDb = mm /\ ~mm.flushing /\ mm.mergedHash = <<naclFiles, stateFiles>>]_vars

============================================================================
