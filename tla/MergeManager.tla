---------------------------- MODULE MergeManager ----------------------------
(***************************************************************************)
(* createMergeManager of                                                   *)
(* packages/workspace/src/workspace/nacl_files/elements_cache.ts: a cache  *)
(* of the merge of two sources, src1 (the NaCl files) and src2 (the hidden *)
(* parts of the state), that is brought up to date from the changes of the *)
(* sources and knows its contents by their hashes.                         *)
(***************************************************************************)
EXTENDS ElementMaps

VARIABLES
    mm,         \* the cache of the running process
    mmDb,       \* the one on disk
    mergeStep   \* how far flush is

mergeVars == <<mm, mmDb, mergeStep>>

\* The fragments of an element; neither is there in one that is not merged.
Nothing == <<Absent, Absent>>
MergedMaps == [Elements -> (Values \cup {Absent}) \X (Values \cup {Absent})]

\* merged and errors are the flushables; the hash of a merge is the pair of
\* those of its sources, sourceHash is that of src2, and flushing is the marker.
Caches == [merged : MergedMaps, errors : SUBSET Elements,
           mergedHash : Maps \X Maps, sourceHash : Maps, flushing : BOOLEAN]

Cleared == [merged |-> [e \in Elements |-> Nothing], errors |-> {},
            mergedHash |-> <<Empty, Empty>>, sourceHash |-> Empty, flushing |-> FALSE]

MergeTypeOK ==
    /\ mm \in Caches /\ mmDb \in Caches
    /\ mergeStep \in {"idle", "merged", "errors", "done"}

MergeInit == mm = Cleared /\ mmDb = Cleared /\ mergeStep = "idle"

MergeStops == mm' = Cleared /\ mergeStep' = "idle" /\ UNCHANGED mmDb

\* mergeElements: the parts of a visible element do not overlap, while a hidden
\* element is in the state as a whole.
Conflict(e, m) == e \in Hidden /\ m[1] # Absent /\ m[2] # Absent

\* Mistaken variant of ConflictsOf: yields the fragments that conflict.
ConflictingFragments(merge) == {merge[e] : e \in {f \in DOMAIN merge : Conflict(f, merge[f])}}

ConflictsOf(merge) == {e \in DOMAIN merge : Conflict(e, merge[e])}

\* A set of changes: after maps the ids to what is there afterwards.
ChangeSet(after, cacheValid, pre, post) ==
    [after |-> after, cacheValid |-> cacheValid, pre |-> pre, post |-> post]

Ids(c) == DOMAIN c.after
RemovedIds(c) == {e \in Ids(c) : c.after[e] = Absent}

----------------------------------------------------------------------------
\* getElementsToMerge

\* What changed, with the unmodified fragment of the source it did not change in.
MergeOfChanges(c1, c2, src1, src2) ==
    [e \in Ids(c1) \cup Ids(c2) |->
        <<IF e \in Ids(c1) THEN c1.after[e] ELSE src1[e],
          IF e \in Ids(c2) THEN c2.after[e] ELSE src2[e]>>]

\* The recovery from the sources: an element of the state that is not in the
\* NaCl files is dropped, unless it is hidden (dropStateOnlyElementsRecovery).
MergeOfSources(c1, c2, src1, src2) ==
    LET After(c, src, e) == IF e \in Ids(c) \ RemovedIds(c) THEN c.after[e] ELSE src[e]
    IN  [e \in Listed(src1) \cup (Listed(src2) \cap Hidden) |->
            <<IF src1[e] = Absent THEN Absent ELSE After(c1, src1, e),
              IF src2[e] = Absent THEN Absent ELSE After(c2, src2, e)>>]

----------------------------------------------------------------------------
\* mergeComponents

IsCacheValid(m, c1, c2) ==
    /\ m.mergedHash = <<c1.pre, c2.pre>>
    /\ c1.cacheValid /\ c2.cacheValid

\* applyChanges after updateCache: what the cache is after a merge.
Merged(m, c1, c2, src1, src2) ==
    LET valid == IsCacheValid(m, c1, c2)
        new == IF valid THEN MergeOfChanges(c1, c2, src1, src2)
               ELSE MergeOfSources(c1, c2, src1, src2)
        present == {e \in DOMAIN new : new[e] # Nothing}
        deleted == {e \in (RemovedIds(c1) \cup RemovedIds(c2)) \ present : m.merged[e] # Nothing}
        removed == IF valid THEN deleted ELSE Elements
        isFresh == \A e \in Elements : m.merged[e] = Nothing
        noErrors == IF isFresh THEN {} ELSE present \ ConflictsOf(new)
    IN  [m EXCEPT
            !.merged = [e \in Elements |-> IF e \in present THEN new[e]
                                           ELSE IF e \in removed THEN Nothing ELSE @[e]],
            !.errors = (@ \ (removed \cup noErrors)) \cup ConflictsOf(new),
            !.mergedHash = <<c1.post, c2.post>>,
            !.sourceHash = c2.post]

\* A merge that throws has set the hash of its result already.
FailedMerge(m, c1, c2) == [m EXCEPT !.mergedHash = <<c1.post, c2.post>>]

\* ensureInitiated: clears everything if the last flush did not end.
Initiated(m) == IF m.flushing THEN Cleared ELSE m

----------------------------------------------------------------------------
\* flush

\* Mistaken variant of MarkFlush: the marker is set in memory only.
MarkFlushInMemory ==
    /\ mergeStep = "idle"
    /\ mergeStep' = "merged"
    /\ mm' = [mm EXCEPT !.flushing = TRUE]
    /\ mmDb' = [mmDb EXCEPT !.mergedHash = mm.mergedHash, !.sourceHash = mm.sourceHash]

MarkFlush ==
    /\ mergeStep = "idle"
    /\ mergeStep' = "merged"
    /\ mm' = [mm EXCEPT !.flushing = TRUE]
    /\ mmDb' = [mmDb EXCEPT !.mergedHash = mm.mergedHash, !.sourceHash = mm.sourceHash,
                            !.flushing = TRUE]

FlushMerged ==
    /\ mergeStep = "merged"
    /\ mergeStep' = "errors"
    /\ mmDb' = [mmDb EXCEPT !.merged = mm.merged]
    /\ UNCHANGED mm

FlushErrors ==
    /\ mergeStep = "errors"
    /\ mergeStep' = "done"
    /\ mmDb' = [mmDb EXCEPT !.errors = mm.errors]
    /\ UNCHANGED mm

UnmarkFlush ==
    /\ mergeStep = "done"
    /\ mergeStep' = "idle"
    /\ mm' = [mm EXCEPT !.flushing = FALSE]
    /\ mmDb' = [mmDb EXCEPT !.flushing = FALSE]

FlushMergeStep == FlushMerged \/ FlushErrors

============================================================================
