----------------------------- MODULE LocalState -----------------------------
(***************************************************************************)
(* The state of an environment: localState of                              *)
(* packages/local-workspace/src/state/state.ts over the in-memory state of *)
(* packages/workspace/src/workspace/state/in_mem.ts and the state files of *)
(* content_providers/file_content_provider.ts.                             *)
(*                                                                         *)
(* There is a file per account; the files are the truth.  The remote maps  *)
(* of the state are a copy of them, kept with the hash of the files it is  *)
(* of (stateDb), and read again from the files when the hash differs.      *)
(***************************************************************************)
EXTENDS ElementMaps

CONSTANTS Accounts, AccountOf

ASSUME LocalStateAssumption == AccountOf \in [Elements -> Accounts]

OfAccount(a) == {e \in Elements : AccountOf[e] = a}

VARIABLES
    stateFiles,     \* what the state files hold; an account without elements has none
    stateDb,        \* the remote maps on disk: elements and hash
    elements, hash, \* the remote maps of the running process
    dirty, cacheDirty,
    contents,       \* contentsAndHash: {} or what is memoised
    stateStep, unwritten    \* how far flush is, the accounts whose files are to be written

diskVars == <<stateFiles, stateDb>>
memoryVars == <<elements, hash, dirty, cacheDirty, contents>>
stepVars == <<stateStep, unwritten>>
stateVars == <<diskVars, memoryVars, stepVars>>

StateTypeOK ==
    /\ stateFiles \in Maps
    /\ stateDb \in [elements : Maps, hash : Maps]
    /\ elements \in Maps /\ hash \in Maps
    /\ dirty \in BOOLEAN /\ cacheDirty \in BOOLEAN
    /\ contents \in {{}} \cup {{m} : m \in Maps}
    /\ stateStep \in {"idle", "files", "cache", "cache elements"}
    /\ unwritten \subseteq Accounts

StateInit ==
    /\ stateFiles = Empty
    /\ stateDb = [elements |-> Empty, hash |-> Empty]
    /\ elements = Empty /\ hash = Empty
    /\ dirty = FALSE /\ cacheDirty = FALSE
    /\ contents = {}
    /\ stateStep = "idle" /\ unwritten = {}

\* The process ends: what is in memory is lost.
StateStops ==
    /\ elements' = Empty /\ hash' = Empty
    /\ dirty' = FALSE /\ cacheDirty' = FALSE
    /\ contents' = {}
    /\ stateStep' = "idle" /\ unwritten' = {}
    /\ UNCHANGED diskVars

----------------------------------------------------------------------------

\* loadStateData
LoadedElements == IF stateDb.hash = stateFiles THEN stateDb.elements ELSE stateFiles

LoadState ==
    /\ elements' = LoadedElements
    /\ hash' = stateFiles
    /\ cacheDirty' = (stateDb.hash # stateFiles)
    /\ UNCHANGED <<diskVars, dirty, contents, stepVars>>

\* Mistaken variant of ChangeState: setDirty keeps the memoised contents.
ChangeStateKeepsContents(e, v) ==
    /\ elements' = [elements EXCEPT ![e] = v]
    /\ dirty' = TRUE
    /\ UNCHANGED <<diskVars, hash, cacheDirty, contents, stepVars>>

\* set, remove and updateStateFromChanges, of one element
ChangeState(e, v) ==
    /\ elements' = [elements EXCEPT ![e] = v]
    /\ dirty' = TRUE
    /\ contents' = {}
    /\ UNCHANGED <<diskVars, hash, cacheDirty, stepVars>>

\* getContentAndHash
Contents == IF contents = {} THEN elements ELSE CHOOSE m \in contents : TRUE

CalculatedHash == IF dirty THEN Contents ELSE hash

CalculateHash ==
    /\ hash' = CalculatedHash
    /\ contents' = IF dirty THEN {Contents} ELSE contents
    /\ UNCHANGED <<diskVars, elements, dirty, cacheDirty, stepVars>>

----------------------------------------------------------------------------
\* flush

FlushState ==
    /\ stateStep = "idle"
    /\ contents' = IF dirty THEN {Contents} ELSE contents
    /\ unwritten' = IF dirty THEN Accounts ELSE {}
    /\ stateStep' = CASE dirty -> "files" [] ~dirty /\ cacheDirty -> "cache" [] OTHER -> "idle"
    /\ UNCHANGED <<diskVars, elements, hash, dirty, cacheDirty>>

\* writeContents: an account without elements has no text, and keeps its file.
WriteFile(a) ==
    /\ stateStep = "files"
    /\ a \in unwritten
    /\ unwritten' = unwritten \ {a}
    /\ stateFiles' = [e \in Elements |->
                        IF AccountOf[e] = a /\ OfAccount(a) \cap Listed(Contents) # {}
                        THEN Contents[e] ELSE stateFiles[e]]
    /\ UNCHANGED <<stateDb, memoryVars, stateStep>>

FilesWritten ==
    /\ stateStep = "files"
    /\ unwritten = {}
    /\ hash' = Contents
    /\ stateStep' = "cache"
    /\ UNCHANGED <<diskVars, elements, dirty, cacheDirty, contents, unwritten>>

\* Mistaken variant of FlushElements: the hash comes first.
FlushElementsAfterHash ==
    /\ stateStep = "cache"
    /\ stateDb' = [stateDb EXCEPT !.hash = hash]
    /\ stateStep' = "cache elements"
    /\ UNCHANGED <<stateFiles, memoryVars, unwritten>>

\* flush of the in-memory state: its maps one after the other, the hash last
FlushElements ==
    /\ stateStep = "cache"
    /\ stateDb' = [stateDb EXCEPT !.elements = elements]
    /\ stateStep' = "cache elements"
    /\ UNCHANGED <<stateFiles, memoryVars, unwritten>>

FlushHash ==
    /\ stateStep = "cache elements"
    /\ stateDb' = [stateDb EXCEPT !.hash = hash]
    /\ stateStep' = "idle"
    /\ dirty' = FALSE
    /\ cacheDirty' = (dirty /\ cacheDirty)
    /\ UNCHANGED <<stateFiles, elements, hash, contents, unwritten>>

FlushStateStep ==
    \/ \E a \in Accounts : WriteFile(a)
    \/ FilesWritten \/ FlushElements \/ FlushHash

----------------------------------------------------------------------------

\* Whoever loads the state next, whenever the process stops, gets what the
\* state files hold: a copy that is used has the elements of the files its
\* hash is of.
NextLoadIsOfTheFiles == LoadedElements = stateFiles

============================================================================
