--------------------------- MODULE WorkspaceProofs ---------------------------
(***************************************************************************)
(* Theorems about Workspace, for every set of elements and accounts, and   *)
(* every bound on the processes and changes: the state is what its files   *)
(* hold, the merged cache is the merge of its sources, and a flush saves   *)
(* both.                                                                   *)
(***************************************************************************)
EXTENDS Workspace, TLAPS

MergeIsFlushed == {"flush nacl", "flush nacl cache", "flush state"}
Flushing == MergeIsFlushed \cup {"flush merge"}

\* The workspace of the process can be used.
IsUp == phase \in {"ready"} \cup Flushing

\* What the phase of the process says of the steps of the two flushes.
PhasesOK ==
    /\ stateStep # "idle" => phase = "flush state"
    /\ mergeStep # "idle" <=> phase = "flush merge"
    /\ phase \in Flushing => pending = {}
    /\ phase = "down" => ~dirty /\ contents = {}
    /\ phase = "flush state" /\ stateStep = "idle" => ~dirty
    /\ stateStep = "files" => dirty

\* The state in memory and its copy on disk, against the state files.
StateOK ==
    /\ stateDb.hash = stateFiles => stateDb.elements = stateFiles
    /\ contents = {} \/ contents = {elements}
    /\ phase # "down" /\ ~dirty => elements = stateFiles /\ hash = stateFiles
    /\ stateStep = "files" =>
          \A e \in Elements : AccountOf[e] \notin unwritten => stateFiles[e] = elements[e]
    /\ stateStep \in {"cache", "cache elements"} => elements = stateFiles /\ hash = stateFiles
    /\ stateStep = "cache elements" => stateDb.elements = stateFiles
    /\ phase # "down" =>
          \A f \in Elements : stateFiles[f] # Absent =>
              \E e \in Elements : AccountOf[e] = AccountOf[f] /\ elements[e] # Absent

\* The merge in memory, against the sources in memory: elements that are pending
\* may be out of date, but what is in no NaCl file is not shown.
MergeOK ==
    IsUp =>
        /\ mm.mergedHash = <<nacl, hash>> /\ mm.sourceHash = hash
        /\ \A e \in Elements \ pending :
              hash[e] = elements[e] /\ mm.merged[e] = FullMerge(nacl, elements)[e]
        /\ \A e \in Elements \ Hidden : nacl[e] = Absent => mm.merged[e] = Nothing
        /\ mm.errors = ConflictsOf(mm.merged)
        /\ mm.flushing <=> phase = "flush merge"

\* The merge on disk.
SavedMergeOK ==
    /\ SavedMergeIsOfItsHash
    /\ phase = "flush merge" =>
          /\ mmDb.flushing /\ mmDb.mergedHash = mm.mergedHash /\ mmDb.sourceHash = mm.sourceHash
          /\ mergeStep \in {"errors", "done"} => mmDb.merged = mm.merged
          /\ mergeStep = "done" => mmDb.errors = mm.errors
    /\ phase \in MergeIsFlushed => mmDb = mm

\* The NaCl files.
NaclOK ==
    /\ phase \in {"flush nacl cache", "flush state"} => naclFiles = nacl
    /\ phase = "flush state" => naclDb = [elements |-> nacl, valid |-> TRUE]

\* What the proofs below keep invariant.
IInv == TypeOK /\ PhasesOK /\ StateOK /\ MergeOK /\ SavedMergeOK /\ NaclOK

----------------------------------------------------------------------------
(* What a merge computes. *)

\* The elements that a merge gets the fragments of, and these.
NewOf(m, c1, c2, src1, src2) ==
    IF IsCacheValid(m, c1, c2) THEN MergeOfChanges(c1, c2, src1, src2)
    ELSE MergeOfSources(c1, c2, src1, src2)

PresentIn(new) == {e \in DOMAIN new : new[e] # Nothing}

\* The entries that a merge removes, unless they are present.
RemovedBy(m, c1, c2, new) ==
    IF IsCacheValid(m, c1, c2)
    THEN {e \in (RemovedIds(c1) \cup RemovedIds(c2)) \ PresentIn(new) : m.merged[e] # Nothing}
    ELSE Elements

MergedOf(m, new, removed) ==
    [e \in Elements |-> IF e \in PresentIn(new) THEN new[e]
                       ELSE IF e \in removed THEN Nothing ELSE m.merged[e]]

ErrorsOf(m, new, removed) ==
    LET noErrors == IF \A e \in Elements : m.merged[e] = Nothing THEN {}
                    ELSE PresentIn(new) \ ConflictsOf(new)
    IN  (m.errors \ (removed \cup noErrors)) \cup ConflictsOf(new)

\* A merge, field by field.
LEMMA MergedFields ==
    ASSUME NEW m \in Caches, NEW c1, NEW c2, NEW src1, NEW src2, NEW new, NEW removed,
           new = NewOf(m, c1, c2, src1, src2), removed = RemovedBy(m, c1, c2, new)
    PROVE  Merged(m, c1, c2, src1, src2) =
             [merged |-> MergedOf(m, new, removed), errors |-> ErrorsOf(m, new, removed),
              mergedHash |-> <<c1.post, c2.post>>, sourceHash |-> c2.post,
              flushing |-> m.flushing]
<1>1. Merged(m, c1, c2, src1, src2) =
        [m EXCEPT !.merged = MergedOf(m, new, removed), !.errors = ErrorsOf(m, new, removed),
                  !.mergedHash = <<c1.post, c2.post>>, !.sourceHash = c2.post]
    BY Zenon DEF Merged, NewOf, RemovedBy, PresentIn, MergedOf, ErrorsOf
<1> QED
    BY <1>1 DEF Caches

\* The errors of a merge are those of its result, if they were before.
LEMMA ErrorsOfMerged ==
    ASSUME NEW m \in Caches, m.errors = ConflictsOf(m.merged), NEW new, NEW removed,
           DOMAIN new \subseteq Elements
    PROVE  ErrorsOf(m, new, removed) = ConflictsOf(MergedOf(m, new, removed))
<1> DEFINE fresh == \A e \in Elements : m.merged[e] = Nothing
           noErrors == IF fresh THEN {} ELSE PresentIn(new) \ ConflictsOf(new)
           merged == MergedOf(m, new, removed)
           errors == (m.errors \ (removed \cup noErrors)) \cup ConflictsOf(new)
<1>1. DOMAIN m.merged = Elements
    BY DEF Caches, MergedMaps
<1>2. DOMAIN merged = Elements
    BY DEF MergedOf
<1>3. ASSUME NEW e \in Elements PROVE e \in m.errors <=> Conflict(e, m.merged[e])
    BY <1>1 DEF ConflictsOf
<1>4. \A e \in Elements : ~Conflict(e, Nothing)
    BY DEF Conflict, Nothing
<1>5. \A e \in ConflictsOf(new) : e \in PresentIn(new) /\ Conflict(e, new[e])
    BY <1>4 DEF ConflictsOf, PresentIn
<1>6. \A e \in PresentIn(new) : e \in Elements /\ (e \in ConflictsOf(new) <=> Conflict(e, new[e]))
    BY DEF ConflictsOf, PresentIn
<1>7. m.errors \subseteq Elements
    BY <1>1 DEF ConflictsOf
<1>8. \A e \in Elements : merged[e] = IF e \in PresentIn(new) THEN new[e]
                                       ELSE IF e \in removed THEN Nothing ELSE m.merged[e]
    BY DEF MergedOf
<1> HIDE DEF merged
<1>9. ASSUME NEW e \in Elements PROVE e \in errors <=> Conflict(e, merged[e])
    <2>1. CASE e \in PresentIn(new)
        <3>1. merged[e] = new[e]
            BY <1>8, <2>1
        <3>2. e \in errors <=> e \in ConflictsOf(new)
            <4>1. CASE fresh
                BY <4>1, <1>3, <1>4
            <4>2. CASE ~fresh
                BY <4>2, <2>1
            <4> QED
                BY <4>1, <4>2
        <3> QED
            BY <3>1, <3>2, <2>1, <1>6
    <2>2. CASE e \notin PresentIn(new) /\ e \in removed
        BY <2>2, <1>4, <1>5, <1>8
    <2>3. CASE e \notin PresentIn(new) /\ e \notin removed
        BY <2>3, <1>3, <1>5, <1>8
    <2> QED
        BY <2>1, <2>2, <2>3
<1>10. errors \subseteq Elements
    BY <1>5, <1>6, <1>7
<1>11. errors = ConflictsOf(merged)
    BY <1>2, <1>9, <1>10 DEF ConflictsOf
<1> QED
    BY <1>11 DEF ErrorsOf, merged

\* The changes of the NaCl files since they were "before".
IsNaclChange(c1, before, src1) ==
    /\ Ids(c1) = {e \in Elements : before[e] # src1[e]}
    /\ \A e \in Ids(c1) : c1.after[e] = src1[e]
    /\ c1.post = src1

\* Changes of the elements of S in the state, completed.
IsStateChange(c2, c1, S, src1, src2) ==
    /\ Ids(c2) \subseteq Elements
    /\ RemovedIds(c1) \ Hidden \subseteq Ids(c2)
    /\ \A e \in Ids(c2) :
          \/ c2.after[e] = src2[e] /\ (e \in Hidden \/ src1[e] # Absent \/ src2[e] = Absent)
          \/ c2.after[e] = Absent /\ src1[e] = Absent /\ e \notin Hidden
    /\ \A e \in S \ Ids(c2) : src1[e] = Absent /\ e \notin Hidden

LEMMA NaclChangesAre ==
    ASSUME NEW before \in Maps, NEW src1 \in Maps, NEW valid, NEW pre, NEW c1,
           c1 = ChangeSet(Changes(before, src1), valid, pre, src1)
    PROVE  /\ IsNaclChange(c1, before, src1)
           /\ c1.pre = pre /\ c1.cacheValid = valid
<1>1. c1.after = [e \in {f \in Elements : before[f] # src1[f]} |-> src1[e]]
    BY DEF ChangeSet, Changes
<1> QED
    BY <1>1 DEF ChangeSet, IsNaclChange, Ids

LEMMA StateChangesAre ==
    ASSUME NEW m, NEW initBuild, NEW src1 \in Maps, NEW src2 \in Maps, NEW S \in SUBSET Elements,
           NEW before, NEW c1, IsNaclChange(c1, before, src1), NEW pre, NEW stateHash, NEW c2,
           NEW after, after = [e \in S |-> src2[e]],
           c2 = CompleteStateOnlyChanges(m, initBuild, c1, after, pre, src1, src2, stateHash)
    PROVE  /\ IsStateChange(c2, c1, S, src1, src2)
           /\ c2.pre = pre /\ c2.post = stateHash
<1> DEFINE kept == {e \in DOMAIN after : after[e] = Absent \/ src1[e] # Absent \/ e \in Hidden}
           first == DOMAIN after = {} /\ \A e \in Elements : m.merged[e] = Nothing
           hidden == IF first THEN Listed(src2) \cap Hidden ELSE {}
           removed == RemovedIds(c1) \ Hidden
           valid == initBuild => m.sourceHash = stateHash
           full == [e \in kept \cup hidden \cup removed |->
                      IF e \in kept THEN after[e] ELSE IF e \in removed THEN Absent ELSE src2[e]]
<1>1. c2 = ChangeSet(full, valid, pre, stateHash)
    BY Zenon DEF CompleteStateOnlyChanges
<1>2. \A e \in removed : e \in Elements /\ src1[e] = Absent /\ e \notin Hidden
    BY DEF RemovedIds, IsNaclChange
<1>3. \A e \in hidden : e \in Elements /\ e \in Hidden
    BY DEF Listed
<1>4. \A e \in kept : /\ e \in S /\ after[e] = src2[e]
                      /\ e \in Hidden \/ src1[e] # Absent \/ src2[e] = Absent
    OBVIOUS
<1>5. \A e \in S \ kept : src1[e] = Absent /\ e \notin Hidden
    OBVIOUS
<1> HIDE DEF kept, hidden, removed, valid
<1>6. full = [e \in kept \cup hidden \cup removed |->
                IF e \in kept THEN after[e] ELSE IF e \in removed THEN Absent ELSE src2[e]]
    OBVIOUS
<1>7. c2.after = full /\ c2.pre = pre /\ c2.post = stateHash
    BY <1>1 DEF ChangeSet
<1>8. Ids(c2) = kept \cup hidden \cup removed
    BY <1>6, <1>7 DEF Ids
<1>9. ASSUME NEW e \in Ids(c2)
      PROVE  \/ c2.after[e] = src2[e] /\ (e \in Hidden \/ src1[e] # Absent \/ src2[e] = Absent)
             \/ c2.after[e] = Absent /\ src1[e] = Absent /\ e \notin Hidden
    BY <1>2, <1>3, <1>4, <1>6, <1>7, <1>8
<1>10. Ids(c2) \subseteq Elements
    BY <1>2, <1>3, <1>4, <1>8
<1>11. RemovedIds(c1) \ Hidden \subseteq Ids(c2)
    BY <1>8 DEF removed
<1> QED
    BY <1>5, <1>7, <1>8, <1>9, <1>10, <1>11 DEF IsStateChange

\* Without changes of the state that are to be reported.
LEMMA StateOnlyChangesAre ==
    ASSUME NEW m, NEW initBuild, NEW src1 \in Maps, NEW src2 \in Maps,
           NEW before, NEW c1, IsNaclChange(c1, before, src1), NEW pre, NEW stateHash, NEW c2,
           c2 = CompleteStateOnlyChanges(m, initBuild, c1, NoChanges, pre, src1, src2, stateHash)
    PROVE  /\ IsStateChange(c2, c1, {}, src1, src2)
           /\ c2.pre = pre /\ c2.post = stateHash
<1> DEFINE S == {}
<1>1. S \in SUBSET Elements /\ NoChanges = [e \in S |-> src2[e]]
    BY DEF NoChanges
<1> HIDE DEF S
<1>2. /\ IsStateChange(c2, c1, S, src1, src2)
      /\ c2.pre = pre /\ c2.post = stateHash
    BY <1>1, StateChangesAre
<1> QED
    BY <1>2 DEF S

\* What each of the two ways to merge yields.
LEMMA NewIsFull ==
    ASSUME NEW src1 \in Maps, NEW src2 \in Maps, NEW S, NEW before, NEW c1, NEW c2,
           IsNaclChange(c1, before, src1), IsStateChange(c2, c1, S, src1, src2)
    PROVE  /\ \A e \in Ids(c1) \cup Ids(c2) :
                 LET new == MergeOfChanges(c1, c2, src1, src2)
                 IN  /\ new[e] = FullMerge(src1, src2)[e]
                     /\ new[e] = Nothing => e \in RemovedIds(c1) \cup RemovedIds(c2)
           /\ \A e \in Listed(src1) \cup (Listed(src2) \cap Hidden) :
                 MergeOfSources(c1, c2, src1, src2)[e] = <<src1[e], src2[e]>>
<1>1. ASSUME NEW e \in Ids(c1) \cup Ids(c2)
      PROVE  LET new == MergeOfChanges(c1, c2, src1, src2)
             IN  /\ new[e] = FullMerge(src1, src2)[e]
                 /\ new[e] = Nothing => e \in RemovedIds(c1) \cup RemovedIds(c2)
    <2> DEFINE first == IF e \in Ids(c1) THEN c1.after[e] ELSE src1[e]
               second == IF e \in Ids(c2) THEN c2.after[e] ELSE src2[e]
    <2>1. MergeOfChanges(c1, c2, src1, src2)[e] = <<first, second>>
        BY DEF MergeOfChanges
    <2>2. e \in Elements /\ first = src1[e]
        BY DEF IsNaclChange, IsStateChange
    <2>3. FullMerge(src1, src2)[e] =
            IF src1[e] # Absent \/ e \in Hidden THEN <<src1[e], src2[e]>> ELSE Nothing
        BY <2>2 DEF FullMerge
    <2>4. e \in Ids(c1) \ Ids(c2) => src1[e] # Absent \/ e \in Hidden
        BY DEF IsNaclChange, IsStateChange, RemovedIds
    <2>5. IF src1[e] # Absent \/ e \in Hidden THEN second = src2[e] ELSE second = Absent
        BY <2>2, <2>4 DEF IsStateChange
    <2>6. first = Absent /\ second = Absent => e \in RemovedIds(c1) \cup RemovedIds(c2)
        BY DEF RemovedIds
    <2> HIDE DEF first, second
    <2> QED
        BY <2>1, <2>2, <2>3, <2>5, <2>6 DEF Nothing
<1>2. ASSUME NEW e \in Listed(src1) \cup (Listed(src2) \cap Hidden)
      PROVE  MergeOfSources(c1, c2, src1, src2)[e] = <<src1[e], src2[e]>>
    <2>1. e \in Ids(c1) \ RemovedIds(c1) => c1.after[e] = src1[e]
        BY DEF IsNaclChange
    <2>2. e \in Ids(c2) \ RemovedIds(c2) => c2.after[e] = src2[e]
        BY DEF IsStateChange, RemovedIds
    <2> QED
        BY <2>1, <2>2 DEF MergeOfSources
<1> QED
    BY <1>1, <1>2

LEMMA FullMergeIsAMerge ==
    ASSUME NEW src1 \in Maps, NEW src2 \in Maps
    PROVE  FullMerge(src1, src2) \in MergedMaps
BY DEF FullMerge, MergedMaps, Maps, Nothing

\* What a merge is for the elements that it is about and for the others.
LEMMA MergedIsFull ==
    ASSUME NEW m \in Caches, NEW src1 \in Maps, NEW src2 \in Maps, NEW S, NEW before,
           NEW c1, NEW c2, IsNaclChange(c1, before, src1), IsStateChange(c2, c1, S, src1, src2),
           NEW new, NEW removed,
           new = NewOf(m, c1, c2, src1, src2), removed = RemovedBy(m, c1, c2, new)
    PROVE  /\ DOMAIN new \subseteq Elements
           /\ IsCacheValid(m, c1, c2) =>
                \A e \in Elements :
                    MergedOf(m, new, removed)[e] =
                        IF e \in Ids(c1) \cup Ids(c2) THEN FullMerge(src1, src2)[e]
                        ELSE m.merged[e]
           /\ ~IsCacheValid(m, c1, c2) => MergedOf(m, new, removed) = FullMerge(src1, src2)
<1>1. Ids(c1) \subseteq Elements /\ Ids(c2) \subseteq Elements
    BY DEF IsNaclChange, IsStateChange
<1>2. CASE IsCacheValid(m, c1, c2)
    <2>1. new = MergeOfChanges(c1, c2, src1, src2)
        BY <1>2 DEF NewOf
    <2>2. DOMAIN new = Ids(c1) \cup Ids(c2)
        BY <2>1 DEF MergeOfChanges
    <2>3. \A e \in Ids(c1) \cup Ids(c2) :
             /\ new[e] = FullMerge(src1, src2)[e]
             /\ new[e] = Nothing => e \in RemovedIds(c1) \cup RemovedIds(c2)
        BY <2>1, NewIsFull
    <2>4. removed = {e \in (RemovedIds(c1) \cup RemovedIds(c2)) \ PresentIn(new) :
                        m.merged[e] # Nothing}
        BY <1>2 DEF RemovedBy
    <2>5. PresentIn(new) = {e \in Ids(c1) \cup Ids(c2) : new[e] # Nothing}
        BY <2>2 DEF PresentIn
    <2>6. RemovedIds(c1) \cup RemovedIds(c2) \subseteq Ids(c1) \cup Ids(c2)
        BY DEF RemovedIds
    <2>7. ASSUME NEW e \in Elements
          PROVE  MergedOf(m, new, removed)[e] =
                    IF e \in Ids(c1) \cup Ids(c2) THEN FullMerge(src1, src2)[e] ELSE m.merged[e]
        <3>1. MergedOf(m, new, removed)[e] =
                IF e \in PresentIn(new) THEN new[e]
                ELSE IF e \in removed THEN Nothing ELSE m.merged[e]
            BY DEF MergedOf
        <3>2. CASE e \in PresentIn(new)
            BY <3>1, <3>2, <2>3, <2>5
        <3>3. CASE e \in (Ids(c1) \cup Ids(c2)) \ PresentIn(new)
            <4>1. new[e] = Nothing /\ FullMerge(src1, src2)[e] = Nothing
                BY <3>3, <2>3, <2>5
            <4>2. e \in removed \/ m.merged[e] = Nothing
                BY <3>3, <4>1, <2>3, <2>4
            <4> QED
                BY <3>1, <3>3, <4>1, <4>2
        <3>4. CASE e \notin Ids(c1) \cup Ids(c2)
            BY <3>1, <3>4, <2>4, <2>5, <2>6
        <3> QED
            BY <3>2, <3>3, <3>4
    <2> QED
        BY <1>1, <1>2, <2>2, <2>7
<1>3. CASE ~IsCacheValid(m, c1, c2)
    <2>1. new = MergeOfSources(c1, c2, src1, src2) /\ removed = Elements
        BY <1>3 DEF NewOf, RemovedBy
    <2>2. DOMAIN new = Listed(src1) \cup (Listed(src2) \cap Hidden)
        BY <2>1 DEF MergeOfSources
    <2>3. \A e \in DOMAIN new : new[e] = <<src1[e], src2[e]>>
        BY <2>1, <2>2, NewIsFull
    <2>4. DOMAIN new \subseteq Elements
        BY <2>2 DEF Listed
    <2>5. ASSUME NEW e \in Elements
          PROVE  MergedOf(m, new, removed)[e] = FullMerge(src1, src2)[e]
        <3>1. MergedOf(m, new, removed)[e] = IF e \in DOMAIN new /\ new[e] # Nothing
                                             THEN new[e] ELSE Nothing
            BY <2>1 DEF MergedOf, PresentIn
        <3>2. FullMerge(src1, src2)[e] =
                IF src1[e] # Absent \/ e \in Hidden THEN <<src1[e], src2[e]>> ELSE Nothing
            BY DEF FullMerge
        <3>3. e \in DOMAIN new <=> src1[e] # Absent \/ (e \in Hidden /\ src2[e] # Absent)
            BY <2>2 DEF Listed
        <3>4. CASE e \in DOMAIN new
            BY <3>1, <3>2, <3>3, <3>4, <2>3
        <3>5. CASE e \notin DOMAIN new
            BY <3>1, <3>2, <3>3, <3>5 DEF Nothing
        <3> QED
            BY <3>4, <3>5
    <2>6. MergedOf(m, new, removed) = FullMerge(src1, src2)
        BY <2>5 DEF MergedOf, FullMerge
    <2> QED
        BY <1>3, <2>4, <2>6
<1> QED
    BY <1>2, <1>3

\* A merge is a cache again, with the errors of what it holds.
LEMMA MergedIsACache ==
    ASSUME NEW m \in Caches, m.errors = ConflictsOf(m.merged),
           NEW src1 \in Maps, NEW src2 \in Maps, NEW S, NEW before,
           NEW c1, NEW c2, IsNaclChange(c1, before, src1), IsStateChange(c2, c1, S, src1, src2),
           c2.post \in Maps,
           NEW result, result = Merged(m, c1, c2, src1, src2)
    PROVE  /\ result \in Caches
           /\ result.errors = ConflictsOf(result.merged)
           /\ result.mergedHash = <<src1, c2.post>> /\ result.sourceHash = c2.post
           /\ result.flushing = m.flushing
           /\ IsCacheValid(m, c1, c2) =>
                \A e \in Elements :
                    result.merged[e] = IF e \in Ids(c1) \cup Ids(c2) THEN FullMerge(src1, src2)[e]
                                       ELSE m.merged[e]
           /\ ~IsCacheValid(m, c1, c2) => result.merged = FullMerge(src1, src2)
<1> DEFINE new == NewOf(m, c1, c2, src1, src2)
           removed == RemovedBy(m, c1, c2, new)
           merged == MergedOf(m, new, removed)
           errors == ErrorsOf(m, new, removed)
<1>1. result = [merged |-> merged, errors |-> errors, mergedHash |-> <<c1.post, c2.post>>,
                sourceHash |-> c2.post, flushing |-> m.flushing]
    BY MergedFields
<1>2. c1.post = src1
    BY DEF IsNaclChange
<1>3. /\ DOMAIN new \subseteq Elements
      /\ IsCacheValid(m, c1, c2) =>
           \A e \in Elements : merged[e] = IF e \in Ids(c1) \cup Ids(c2)
                                           THEN FullMerge(src1, src2)[e] ELSE m.merged[e]
      /\ ~IsCacheValid(m, c1, c2) => merged = FullMerge(src1, src2)
    BY MergedIsFull
<1>4. errors = ConflictsOf(merged)
    BY <1>3, ErrorsOfMerged
<1>5. merged = [e \in Elements |-> merged[e]]
    BY DEF MergedOf
<1> HIDE DEF new, removed, merged, errors
<1>6. merged \in MergedMaps
    <2>1. FullMerge(src1, src2) \in MergedMaps /\ m.merged \in MergedMaps
        BY FullMergeIsAMerge DEF Caches
    <2>2. CASE IsCacheValid(m, c1, c2)
        BY <1>3, <1>5, <2>1, <2>2 DEF MergedMaps
    <2> QED
        BY <1>3, <2>1, <2>2
<1>7. errors \in SUBSET Elements
    BY <1>4, <1>6 DEF ConflictsOf, MergedMaps
<1>8. m.flushing \in BOOLEAN
    BY DEF Caches
<1>9. result \in Caches
    BY <1>1, <1>2, <1>6, <1>7, <1>8 DEF Caches
<1> QED
    BY <1>1, <1>2, <1>3, <1>4, <1>9

----------------------------------------------------------------------------
(* Each action keeps the invariant. *)

LEMMA EmptyIsAMap == Empty \in Maps
BY DEF Empty, Maps

LEMMA ClearedIsAMerge ==
    Cleared \in Caches /\ ~Cleared.flushing /\ IsMergeOf(Cleared, Empty, Empty)
<1>1. [e \in Elements |-> Nothing] \in MergedMaps
    BY DEF MergedMaps, Nothing
<1>2. Cleared \in Caches
    BY <1>1, EmptyIsAMap DEF Cleared, Caches
<1>3. FullMerge(Empty, Empty) = [e \in Elements |-> Nothing]
    BY DEF FullMerge, Empty, Nothing
<1>4. ConflictsOf([e \in Elements |-> Nothing]) = {}
    BY DEF ConflictsOf, Conflict, Nothing
<1> QED
    BY <1>2, <1>3, <1>4 DEF IsMergeOf, Cleared

LEMMA InitEstablishesIInv == Init => IInv
<1> SUFFICES ASSUME Init PROVE IInv
    OBVIOUS
<1> USE DEF Init, StateInit, MergeInit
<1>1. TypeOK
    <2>1. StateTypeOK
        BY EmptyIsAMap DEF StateTypeOK
    <2>2. MergeTypeOK
        BY ClearedIsAMerge DEF MergeTypeOK
    <2> QED
        BY <2>1, <2>2, EmptyIsAMap, WorkspaceAssumption DEF TypeOK
<1>2. PhasesOK
    BY DEF PhasesOK, Flushing, MergeIsFlushed
<1>3. StateOK
    BY DEF StateOK
<1>4. MergeOK /\ NaclOK
    BY DEF MergeOK, NaclOK, IsUp, Flushing, MergeIsFlushed
<1>5. SavedMergeOK
    <2>1. SavedMergeIsOfItsHash
        BY ClearedIsAMerge DEF SavedMergeIsOfItsHash, Cleared
    <2> QED
        BY <2>1 DEF SavedMergeOK, MergeIsFlushed
<1> QED
    BY <1>1, <1>2, <1>3, <1>4, <1>5 DEF IInv

\* What a process starts from is a merge: the one on disk, or none.
LEMMA InitiatedIsAMerge ==
    ASSUME IInv, NEW m, m = Initiated(mmDb)
    PROVE  m \in Caches /\ ~m.flushing /\ IsMergeOf(m, m.mergedHash[1], m.mergedHash[2])
<1>1. CASE mmDb.flushing
    BY <1>1, ClearedIsAMerge DEF Initiated, Cleared
<1>2. CASE ~mmDb.flushing
    BY <1>2 DEF Initiated, IInv, TypeOK, MergeTypeOK, SavedMergeOK, SavedMergeIsOfItsHash
<1> QED
    BY <1>1, <1>2

LEMMA FailedMergeIsACache ==
    ASSUME NEW m \in Caches, NEW c1, NEW c2, c1.post \in Maps, c2.post \in Maps
    PROVE  FailedMerge(m, c1, c2) \in Caches
BY DEF FailedMerge, Caches

\* While phase is "ready" nothing is being flushed.
LEMMA ReadyIsIdle ==
    ASSUME IInv, phase \in {"ready", "down"}
    PROVE  stateStep = "idle" /\ mergeStep = "idle"
BY DEF IInv, PhasesOK

\* What stays as it is does not disturb its part of the invariant.
LEMMA StateIsKept ==
    ASSUME StateOK, UNCHANGED stateVars, phase' = "down" => phase = "down",
           phase = "down" => phase' = "down"
    PROVE  StateOK'
BY DEF StateOK, stateVars, diskVars, memoryVars, stepVars

LEMMA LoadKeepsIInv ==
    ASSUME IInv, LoadWorkspace
    PROVE  IInv'
<1> DEFINE m == Initiated(mmDb)
           before == IF naclDb.valid THEN naclDb.elements ELSE Empty
           c1 == ChangeSet(Changes(before, naclFiles), naclDb.valid, naclDb.elements, naclFiles)
           c2 == CompleteStateOnlyChanges(m, TRUE, c1, NoChanges, stateFiles, naclFiles,
                                          LoadedElements, stateFiles)
<1>1. /\ phase = "down" /\ sessions < MaxSessions /\ sessions' = sessions + 1
      /\ LoadState
      /\ nacl' = naclFiles
      /\ BuildWorkspace(m, c1, c2, naclFiles, LoadedElements)
      /\ UNCHANGED <<mmDb, mergeStep, naclFiles, naclDb, pending, changes>>
    BY DEF LoadWorkspace
<1>2. LoadedElements = stateFiles
    BY DEF IInv, StateOK, LoadedElements
<1>3. /\ elements' = stateFiles /\ hash' = stateFiles
      /\ cacheDirty' \in BOOLEAN
      /\ UNCHANGED <<stateFiles, stateDb, dirty, contents, stateStep, unwritten>>
    BY <1>1, <1>2 DEF LoadState, diskVars, stepVars
<1>4. ~dirty /\ contents = {} /\ stateStep = "idle" /\ mergeStep = "idle"
    BY <1>1, ReadyIsIdle DEF IInv, PhasesOK
<1>5. stateFiles \in Maps /\ naclFiles \in Maps /\ naclDb.elements \in Maps
    BY DEF IInv, TypeOK, StateTypeOK
<1>6. before \in Maps
    BY <1>5, EmptyIsAMap
<1>7. m \in Caches /\ ~m.flushing /\ IsMergeOf(m, m.mergedHash[1], m.mergedHash[2])
    BY InitiatedIsAMerge
<1>8. /\ IsNaclChange(c1, before, naclFiles)
      /\ c1.pre = naclDb.elements /\ c1.cacheValid = naclDb.valid
    BY <1>5, <1>6, NaclChangesAre
<1>9. /\ IsStateChange(c2, c1, {}, naclFiles, stateFiles)
      /\ c2.pre = stateFiles /\ c2.post = stateFiles
    <2> DEFINE initBuild == TRUE
    <2>1. IsNaclChange(c1, before, naclFiles)
        BY <1>8
    <2> HIDE DEF c1, m, before
    <2>2. c2 = CompleteStateOnlyChanges(m, initBuild, c1, NoChanges, stateFiles,
                                        naclFiles, stateFiles, stateFiles)
        BY <1>2
    <2> HIDE DEF c2, initBuild
    <2> QED
        BY <1>5, <2>1, <2>2, StateOnlyChangesAre
<1>10. \/ mm' = Merged(m, c1, c2, naclFiles, stateFiles) /\ phase' = "ready"
       \/ mm' = FailedMerge(m, c1, c2) /\ phase' = "broken"
    BY <1>1, <1>2 DEF BuildWorkspace
<1>11. IsCacheValid(m, c1, c2) =>
          naclDb.valid /\ m.mergedHash = <<naclDb.elements, stateFiles>>
    BY <1>8, <1>9 DEF IsCacheValid
<1> HIDE DEF m, c1, c2
<1>12. ASSUME mm' = Merged(m, c1, c2, naclFiles, stateFiles), phase' = "ready"
       PROVE  mm' \in Caches /\ MergeOK'
    <2>1. /\ mm' \in Caches
          /\ mm'.errors = ConflictsOf(mm'.merged)
          /\ mm'.mergedHash = <<naclFiles, stateFiles>> /\ mm'.sourceHash = stateFiles
          /\ ~mm'.flushing
          /\ IsCacheValid(m, c1, c2) =>
               \A e \in Elements :
                   mm'.merged[e] = IF e \in Ids(c1) \cup Ids(c2)
                                   THEN FullMerge(naclFiles, stateFiles)[e] ELSE m.merged[e]
          /\ ~IsCacheValid(m, c1, c2) => mm'.merged = FullMerge(naclFiles, stateFiles)
        BY <1>5, <1>7, <1>8, <1>9, <1>12, MergedIsACache DEF IsMergeOf
    <2>2. ASSUME NEW e \in Elements
          PROVE  mm'.merged[e] = FullMerge(naclFiles, stateFiles)[e]
        <3>1. CASE IsCacheValid(m, c1, c2) /\ e \notin Ids(c1) \cup Ids(c2)
            <4>1. before[e] = naclFiles[e] /\ before = naclDb.elements
                BY <1>8, <1>11, <3>1 DEF IsNaclChange
            <4>2. m.merged[e] = FullMerge(before, stateFiles)[e]
                BY <1>7, <1>11, <3>1, <4>1 DEF IsMergeOf
            <4>3. FullMerge(before, stateFiles)[e] = FullMerge(naclFiles, stateFiles)[e]
                BY <4>1 DEF FullMerge
            <4> QED
                BY <2>1, <3>1, <4>2, <4>3
        <3>2. CASE ~(IsCacheValid(m, c1, c2) /\ e \notin Ids(c1) \cup Ids(c2))
            BY <2>1, <3>2
        <3> QED
            BY <3>1, <3>2
    <2>3. \A e \in Elements \ Hidden : naclFiles[e] = Absent =>
                FullMerge(naclFiles, stateFiles)[e] = Nothing
        BY DEF FullMerge
    <2>4. nacl' = naclFiles /\ elements' = stateFiles /\ hash' = stateFiles
        BY <1>1, <1>3
    <2>5. MergeOK'
        BY <1>12, <2>1, <2>2, <2>3, <2>4 DEF MergeOK, FullMerge
    <2> QED
        BY <2>1, <2>5
<1>13. ASSUME mm' = FailedMerge(m, c1, c2), phase' = "broken"
       PROVE  mm' \in Caches /\ MergeOK'
    <2>1. mm' \in Caches
        BY <1>5, <1>7, <1>8, <1>9, <1>13, FailedMergeIsACache DEF IsNaclChange
    <2>2. MergeOK'
        BY <1>13 DEF MergeOK, IsUp, Flushing, MergeIsFlushed
    <2> QED
        BY <2>1, <2>2
<1>14. mm' \in Caches /\ MergeOK' /\ phase' \in {"ready", "broken"}
    BY <1>10, <1>12, <1>13
<1> QED
    <2>1. TypeOK'
        <3>1. StateTypeOK'
            BY <1>3, <1>5 DEF IInv, TypeOK, StateTypeOK
        <3>2. MergeTypeOK'
            BY <1>1, <1>14 DEF IInv, TypeOK, MergeTypeOK
        <3>3. sessions' \in 0 .. MaxSessions
            BY <1>1, WorkspaceAssumption DEF IInv, TypeOK
        <3> QED
            BY <1>1, <1>5, <1>14, <3>1, <3>2, <3>3 DEF IInv, TypeOK
    <2>2. PhasesOK'
        BY <1>1, <1>3, <1>4, <1>14 DEF PhasesOK, Flushing, MergeIsFlushed
    <2>3. StateOK'
        BY <1>3, <1>4 DEF IInv, StateOK
    <2>4. SavedMergeOK'
        BY <1>1, <1>14 DEF IInv, SavedMergeOK, SavedMergeIsOfItsHash, MergeIsFlushed, IsMergeOf
    <2>5. NaclOK'
        BY <1>14 DEF NaclOK
    <2> QED
        BY <1>14, <2>1, <2>2, <2>3, <2>4, <2>5 DEF IInv

\* What is memoised is what the state holds.
LEMMA ContentsAreElements == IInv => Contents = elements
<1> SUFFICES ASSUME IInv PROVE Contents = elements
    OBVIOUS
<1>1. contents = {} \/ contents = {elements}
    BY DEF IInv, StateOK
<1>2. CASE contents = {}
    BY <1>2 DEF Contents
<1>3. CASE contents = {elements}
    <2>1. (CHOOSE m \in contents : TRUE) \in contents
        BY <1>3
    <2> QED
        BY <1>3, <2>1 DEF Contents
<1> QED
    BY <1>1, <1>2, <1>3

LEMMA CalculatedHashIsCurrent == IInv /\ phase # "down" => CalculatedHash = elements
BY ContentsAreElements DEF IInv, StateOK, CalculatedHash

\* Changes that are reported after the start are valid.
LEMMA LaterChangesAreValid ==
    ASSUME NEW m, NEW c1, NEW after, NEW pre, NEW src1, NEW src2, NEW stateHash
    PROVE  CompleteStateOnlyChanges(m, FALSE, c1, after, pre, src1, src2, stateHash).cacheValid
BY DEF CompleteStateOnlyChanges, ChangeSet

\* A merge of what the sources hold now, but for the elements of "left".
IsCurrent(m, src1, src2, stateHash, left) ==
    /\ m \in Caches
    /\ m.mergedHash = <<src1, stateHash>> /\ m.sourceHash = stateHash
    /\ \A e \in Elements \ left : m.merged[e] = FullMerge(src1, src2)[e]
    /\ \A e \in Elements \ Hidden : src1[e] = Absent => m.merged[e] = Nothing
    /\ m.errors = ConflictsOf(m.merged)
    /\ ~m.flushing

\* An update of a merge that is right, but for what is pending, is right again but
\* for what was left out of it.
LEMMA UpdateOfMergeIsMerge ==
    ASSUME IInv, phase = "ready", NEW to \in Maps, NEW S, NEW left, pending \subseteq S \cup left,
           NEW c1, IsNaclChange(c1, nacl, to), c1.pre = nacl, c1.cacheValid,
           NEW c2, IsStateChange(c2, c1, S, to, elements), c2.pre = hash, c2.cacheValid,
           c2.post \in Maps,
           NEW result, result = Merged(mm, c1, c2, to, elements)
    PROVE  IsCurrent(result, to, elements, c2.post, left)
<1>1. mm \in Caches /\ nacl \in Maps /\ elements \in Maps /\ hash \in Maps
    BY DEF IInv, TypeOK, StateTypeOK, MergeTypeOK
<1>2. /\ mm.mergedHash = <<nacl, hash>>
      /\ \A e \in Elements \ pending : mm.merged[e] = FullMerge(nacl, elements)[e]
      /\ \A e \in Elements \ Hidden : nacl[e] = Absent => mm.merged[e] = Nothing
      /\ mm.errors = ConflictsOf(mm.merged)
      /\ ~mm.flushing
    BY DEF IInv, MergeOK, IsUp
<1>3. IsCacheValid(mm, c1, c2)
    BY <1>2 DEF IsCacheValid
<1>4. /\ result \in Caches
      /\ result.errors = ConflictsOf(result.merged)
      /\ result.mergedHash = <<to, c2.post>> /\ result.sourceHash = c2.post
      /\ result.flushing = mm.flushing
      /\ \A e \in Elements :
            result.merged[e] = IF e \in Ids(c1) \cup Ids(c2) THEN FullMerge(to, elements)[e]
                               ELSE mm.merged[e]
    BY <1>1, <1>2, <1>3, MergedIsACache
<1>5. ASSUME NEW e \in Elements, to[e] = nacl[e]
      PROVE  FullMerge(to, elements)[e] = FullMerge(nacl, elements)[e]
    BY <1>5 DEF FullMerge
<1>6. ASSUME NEW e \in Elements \ Hidden, to[e] = Absent
      PROVE  FullMerge(to, elements)[e] = Nothing
    BY <1>6 DEF FullMerge
<1>7. \A e \in Elements \ Ids(c1) : to[e] = nacl[e]
    BY DEF IsNaclChange
<1>8. \A e \in S \ Ids(c2) : to[e] = Absent /\ e \notin Hidden
    BY DEF IsStateChange
<1>9. ASSUME NEW e \in Elements \ left
      PROVE  result.merged[e] = FullMerge(to, elements)[e]
    <2>1. CASE e \in Ids(c1) \cup Ids(c2)
        BY <1>4, <2>1
    <2>2. CASE e \notin Ids(c1) \cup Ids(c2) /\ e \in pending
        BY <1>2, <1>4, <1>6, <1>7, <1>8, <2>2
    <2>3. CASE e \notin Ids(c1) \cup Ids(c2) /\ e \notin pending
        BY <1>2, <1>4, <1>5, <1>7, <2>3
    <2> QED
        BY <2>1, <2>2, <2>3
<1>10. ASSUME NEW e \in Elements \ Hidden, to[e] = Absent
       PROVE  result.merged[e] = Nothing
    <2>1. CASE e \in Ids(c1) \cup Ids(c2)
        BY <1>4, <1>6, <1>10, <2>1
    <2>2. CASE e \notin Ids(c1) \cup Ids(c2)
        BY <1>2, <1>4, <1>7, <1>10, <2>2
    <2> QED
        BY <2>1, <2>2
<1> QED
    BY <1>2, <1>4, <1>9, <1>10 DEF IsCurrent

\* Both updates of the NaCl files end in the same way.
LEMMA BuildKeepsIInv ==
    ASSUME IInv, phase = "ready", NEW to \in Maps, NEW S, pending \subseteq S \cup pending',
           NEW c1, IsNaclChange(c1, nacl, to), c1.pre = nacl, c1.cacheValid,
           NEW c2, IsStateChange(c2, c1, S, to, elements), c2.pre = hash, c2.cacheValid,
           c2.post = hash',
           BuildWorkspace(mm, c1, c2, to, elements),
           hash' \in {hash, elements}, ~dirty => hash' = hash,
           pending' \subseteq pending, pending' # pending => hash' = elements,
           contents' = contents \/ contents' = {elements},
           nacl' = to, changes' \in 0 .. MaxChanges,
           UNCHANGED <<elements, dirty, cacheDirty, diskVars, stepVars, mmDb, mergeStep,
                       naclFiles, naclDb, sessions>>
    PROVE  IInv'
<1>1. /\ stateFiles' = stateFiles /\ stateDb' = stateDb /\ elements' = elements
      /\ dirty' = dirty /\ cacheDirty' = cacheDirty
      /\ stateStep' = stateStep /\ unwritten' = unwritten
      /\ stateStep = "idle" /\ mergeStep = "idle"
    BY ReadyIsIdle DEF diskVars, stepVars
<1>2. mm \in Caches /\ nacl \in Maps /\ elements \in Maps /\ hash \in Maps /\ hash' \in Maps
    BY DEF IInv, TypeOK, StateTypeOK, MergeTypeOK
<1>3. \A e \in Elements \ pending : hash[e] = elements[e]
    BY DEF IInv, MergeOK, IsUp
<1>4. \A e \in Elements \ pending' : hash'[e] = elements[e]
    BY <1>3
<1>5. ASSUME mm' = Merged(mm, c1, c2, to, elements), phase' = "ready"
      PROVE  mm' \in Caches /\ MergeOK'
    <2>1. /\ mm' \in Caches
          /\ mm'.mergedHash = <<to, hash'>> /\ mm'.sourceHash = hash'
          /\ \A e \in Elements \ pending' : mm'.merged[e] = FullMerge(to, elements)[e]
          /\ \A e \in Elements \ Hidden : to[e] = Absent => mm'.merged[e] = Nothing
          /\ mm'.errors = ConflictsOf(mm'.merged)
          /\ ~mm'.flushing
        <3>1. c2.post \in Maps
            BY <1>2
        <3>2. IsCurrent(mm', to, elements, c2.post, pending')
            BY <1>5, <3>1, UpdateOfMergeIsMerge
        <3> QED
            BY <3>2 DEF IsCurrent
    <2>2. FullMerge(nacl, elements)' = FullMerge(to, elements)
        BY <1>1 DEF FullMerge
    <2>3. MergeOK'
        BY <1>1, <1>4, <1>5, <2>1, <2>2 DEF MergeOK
    <2> QED
        BY <2>1, <2>3
<1>6. ASSUME mm' = FailedMerge(mm, c1, c2), phase' = "broken"
      PROVE  mm' \in Caches /\ MergeOK'
    <2>1. mm' \in Caches
        BY <1>2, <1>6, FailedMergeIsACache DEF IsNaclChange
    <2>2. MergeOK'
        BY <1>6 DEF MergeOK, IsUp, Flushing, MergeIsFlushed
    <2> QED
        BY <2>1, <2>2
<1>7. mm' \in Caches /\ MergeOK' /\ phase' \in {"ready", "broken"}
    BY <1>5, <1>6 DEF BuildWorkspace
<1>8. TypeOK'
    <2>1. StateTypeOK'
        BY <1>1, <1>2 DEF IInv, TypeOK, StateTypeOK
    <2>2. MergeTypeOK'
        BY <1>7 DEF IInv, TypeOK, MergeTypeOK
    <2> QED
        BY <1>7, <2>1, <2>2 DEF IInv, TypeOK
<1>9. PhasesOK'
    BY <1>1, <1>7 DEF PhasesOK, Flushing, MergeIsFlushed
<1>10. StateOK'
    BY <1>1 DEF IInv, StateOK
<1>11. SavedMergeOK'
    BY <1>7 DEF IInv, SavedMergeOK, SavedMergeIsOfItsHash, MergeIsFlushed, IsMergeOf
<1>12. NaclOK'
    BY <1>7 DEF NaclOK
<1> QED
    BY <1>7, <1>8, <1>9, <1>10, <1>11, <1>12 DEF IInv

LEMMA SetNaclFilesKeepsIInv ==
    ASSUME IInv, NEW to \in Maps, SetNaclFiles(to), changes' \in 0 .. MaxChanges
    PROVE  IInv'
<1> DEFINE initBuild == FALSE
           valid == TRUE
           c1 == ChangeSet(Changes(nacl, to), valid, nacl, to)
           c2 == CompleteStateOnlyChanges(mm, initBuild, c1, NoChanges, hash, to, elements, hash)
<1>1. /\ phase = "ready" /\ nacl' = to
      /\ BuildWorkspace(mm, c1, c2, to, elements)
      /\ UNCHANGED <<stateVars, mmDb, mergeStep, naclFiles, naclDb, pending, sessions>>
    BY DEF SetNaclFiles
<1>2. nacl \in Maps /\ elements \in Maps
    BY DEF IInv, TypeOK, StateTypeOK
<1>3. c1.cacheValid
    BY DEF ChangeSet
<1>4. IsNaclChange(c1, nacl, to) /\ c1.pre = nacl
    <2> HIDE DEF valid
    <2> QED
        BY <1>2, NaclChangesAre
<1>5. c2.cacheValid
    BY LaterChangesAreValid
<1> HIDE DEF c1, initBuild
<1>6. c2 = CompleteStateOnlyChanges(mm, initBuild, c1, NoChanges, hash, to, elements, hash)
    OBVIOUS
<1> HIDE DEF c2
<1>7. IsStateChange(c2, c1, {}, to, elements) /\ c2.pre = hash /\ c2.post = hash
    BY <1>2, <1>4, <1>6, StateOnlyChangesAre
<1> DEFINE S == {}
<1>8. IsStateChange(c2, c1, S, to, elements) /\ pending \subseteq S \cup pending'
    BY <1>1, <1>7
<1> HIDE DEF S
<1> QED
    BY <1>1, <1>3, <1>4, <1>5, <1>7, <1>8, BuildKeepsIInv DEF stateVars, memoryVars

LEMMA UpdateNaclFilesKeepsIInv ==
    ASSUME IInv, NEW to \in Maps, UpdateNaclFiles(to), changes' \in 0 .. MaxChanges
    PROVE  IInv'
<1> DEFINE initBuild == FALSE
           valid == TRUE
           c1 == ChangeSet(Changes(nacl, to), valid, nacl, to)
           after == [e \in pending |-> elements[e]]
           c2 == CompleteStateOnlyChanges(mm, initBuild, c1, after, mm.sourceHash, to, elements,
                                          CalculatedHash)
<1>1. /\ phase = "ready" /\ nacl' = to /\ pending' = {}
      /\ CalculateHash
      /\ BuildWorkspace(mm, c1, c2, to, elements)
      /\ UNCHANGED <<mmDb, mergeStep, naclFiles, naclDb, sessions>>
    BY DEF UpdateNaclFiles
<1>2. nacl \in Maps /\ elements \in Maps /\ pending \in SUBSET Elements
    BY DEF IInv, TypeOK, StateTypeOK
<1>3. /\ hash' = elements /\ CalculatedHash = elements
      /\ contents' = contents \/ contents' = {elements}
      /\ UNCHANGED <<elements, dirty, cacheDirty, diskVars, stepVars>>
    BY <1>1, ContentsAreElements, CalculatedHashIsCurrent DEF CalculateHash, diskVars, stepVars
<1>4. ~dirty => hash' = hash
    BY <1>1 DEF CalculateHash, CalculatedHash
<1>5. mm.sourceHash = hash
    BY <1>1 DEF IInv, MergeOK, IsUp
<1>6. c1.cacheValid
    BY DEF ChangeSet
<1>7. IsNaclChange(c1, nacl, to) /\ c1.pre = nacl
    <2> HIDE DEF valid
    <2> QED
        BY <1>2, NaclChangesAre
<1>8. c2.cacheValid
    BY LaterChangesAreValid
<1>9. after = [e \in pending |-> elements[e]]
    OBVIOUS
<1> HIDE DEF c1, initBuild, after
<1>10. c2 = CompleteStateOnlyChanges(mm, initBuild, c1, after, hash, to, elements, elements)
    BY <1>3, <1>5
<1> HIDE DEF c2
<1>11. IsStateChange(c2, c1, pending, to, elements) /\ c2.pre = hash /\ c2.post = hash'
    BY <1>2, <1>3, <1>7, <1>9, <1>10, StateChangesAre
<1>12. pending \subseteq pending \cup pending' /\ pending' \subseteq pending
    BY <1>1
<1> QED
    BY <1>1, <1>3, <1>4, <1>6, <1>7, <1>8, <1>11, <1>12, BuildKeepsIInv

LEMMA UpdateStateKeepsIInv ==
    ASSUME IInv, NEW e \in Elements, NEW v \in Values \cup {Absent}, UpdateState(e, v)
    PROVE  IInv'
<1>1. /\ phase = "ready" /\ phase' = "ready"
      /\ elements' = [elements EXCEPT ![e] = v]
      /\ dirty' = TRUE /\ contents' = {}
      /\ pending' = pending \cup {e}
      /\ changes' = changes + 1 /\ changes < MaxChanges
      /\ UNCHANGED <<stateFiles, stateDb, hash, cacheDirty, stateStep, unwritten,
                     mm, mmDb, mergeStep, nacl, naclFiles, naclDb, sessions>>
    BY DEF UpdateState, ChangeState, MayChange, diskVars, stepVars, mergeVars, naclVars
<1>2. stateStep = "idle" /\ mergeStep = "idle"
    BY <1>1, ReadyIsIdle
<1>3. elements \in Maps
    BY DEF IInv, TypeOK, StateTypeOK
<1>4. elements' \in Maps
    BY <1>1, <1>3 DEF Maps
<1>5. \A f \in Elements : elements'[f] = IF f = e THEN v ELSE elements[f]
    BY <1>1, <1>3 DEF Maps
<1>6. TypeOK'
    <2>1. StateTypeOK'
        BY <1>1, <1>4 DEF IInv, TypeOK, StateTypeOK
    <2>2. changes' \in 0 .. MaxChanges
        BY <1>1, WorkspaceAssumption DEF IInv, TypeOK
    <2> QED
        BY <1>1, <2>1, <2>2 DEF IInv, TypeOK, MergeTypeOK
<1>7. PhasesOK'
    BY <1>1, <1>2 DEF PhasesOK, Flushing, MergeIsFlushed
<1>8. StateOK'
    <2>1. ASSUME NEW f \in Elements, stateFiles[f] # Absent
          PROVE  \E k \in Elements : AccountOf[k] = AccountOf[f] /\ elements'[k] # Absent
        <3>1. PICK k \in Elements : AccountOf[k] = AccountOf[f] /\ elements[k] # Absent
            BY <1>1, <2>1 DEF IInv, StateOK
        <3>2. CASE k # e
            BY <1>5, <3>1, <3>2
        <3>3. CASE k = e /\ v # Absent
            BY <1>5, <3>1, <3>3
        <3>4. CASE k = e /\ v = Absent
            <4>1. PICK j \in OfAccount(AccountOf[e]) \ {e} : elements[j] # Absent
                BY <3>4 DEF UpdateState, KeepsItsAccount
            <4> QED
                BY <1>5, <3>1, <3>4, <4>1 DEF OfAccount
        <3> QED
            BY <3>2, <3>3, <3>4
    <2> QED
        BY <1>1, <1>2, <2>1 DEF IInv, StateOK
<1>9. MergeOK'
    <2>1. \A f \in Elements \ pending' : elements'[f] = elements[f]
        BY <1>1, <1>5
    <2>2. \A f \in Elements \ pending' :
             FullMerge(nacl', elements')[f] = FullMerge(nacl, elements)[f]
        BY <1>1, <2>1 DEF FullMerge
    <2> QED
        BY <1>1, <2>1, <2>2 DEF IInv, MergeOK, IsUp
<1>10. SavedMergeOK'
    BY <1>1 DEF IInv, SavedMergeOK, SavedMergeIsOfItsHash, MergeIsFlushed, IsMergeOf
<1>11. NaclOK'
    BY <1>1 DEF NaclOK
<1> QED
    BY <1>6, <1>7, <1>8, <1>9, <1>10, <1>11 DEF IInv

\* Without pending changes, the merge and the hash are those of the sources.
LEMMA NothingPending ==
    ASSUME IInv, IsUp, pending = {}
    PROVE  hash = elements /\ IsMergeOf(mm, nacl, elements)
<1>1. \A e \in Elements : hash[e] = elements[e] /\ mm.merged[e] = FullMerge(nacl, elements)[e]
    BY DEF IInv, MergeOK
<1>2. hash \in Maps /\ elements \in Maps /\ mm.merged \in MergedMaps
    BY DEF IInv, TypeOK, StateTypeOK, MergeTypeOK, Caches
<1>3. hash = elements
    BY <1>1, <1>2 DEF Maps
<1>4. mm.merged = FullMerge(nacl, elements)
    BY <1>1, <1>2 DEF MergedMaps, FullMerge
<1>5. mm.errors = ConflictsOf(mm.merged)
    BY DEF IInv, MergeOK
<1> QED
    BY <1>3, <1>4, <1>5 DEF IsMergeOf

LEMMA FlushKeepsIInv ==
    ASSUME IInv, Flush
    PROVE  IInv'
<1>1. /\ phase = "ready" /\ phase' = "flush merge" /\ pending = {} /\ pending' = {}
      /\ mergeStep = "idle" /\ mergeStep' = "merged"
      /\ mm' = [mm EXCEPT !.flushing = TRUE]
      /\ mmDb' = [mmDb EXCEPT !.mergedHash = mm.mergedHash, !.sourceHash = mm.sourceHash,
                              !.flushing = TRUE]
      /\ UNCHANGED <<stateFiles, stateDb, elements, hash, dirty, cacheDirty, contents,
                     stateStep, unwritten, naclFiles, naclDb, nacl, sessions, changes>>
    BY DEF Flush, MarkFlush, stateVars, diskVars, memoryVars, stepVars, naclVars
<1>2. stateStep = "idle"
    BY <1>1, ReadyIsIdle
<1>3. mm \in Caches /\ mmDb \in Caches
    BY DEF IInv, TypeOK, MergeTypeOK
<1>4. /\ mm' \in Caches /\ mm'.merged = mm.merged /\ mm'.errors = mm.errors
      /\ mm'.mergedHash = mm.mergedHash /\ mm'.sourceHash = mm.sourceHash /\ mm'.flushing
    BY <1>1, <1>3 DEF Caches
<1>5. /\ mmDb' \in Caches
      /\ mmDb'.mergedHash = mm.mergedHash /\ mmDb'.sourceHash = mm.sourceHash
      /\ mmDb'.flushing
    BY <1>1, <1>3 DEF Caches
<1>6. TypeOK'
    BY <1>1, <1>4, <1>5 DEF IInv, TypeOK, StateTypeOK, MergeTypeOK
<1>7. PhasesOK'
    BY <1>1, <1>2 DEF PhasesOK, Flushing, MergeIsFlushed
<1>8. StateOK'
    BY <1>1 DEF IInv, StateOK
<1>9. MergeOK'
    <2>1. MergeOK /\ IsUp
        BY <1>1 DEF IInv, IsUp
    <2>2. /\ mm.mergedHash = <<nacl, hash>> /\ mm.sourceHash = hash
          /\ \A e \in Elements \ pending :
                hash[e] = elements[e] /\ mm.merged[e] = FullMerge(nacl, elements)[e]
          /\ \A e \in Elements \ Hidden : nacl[e] = Absent => mm.merged[e] = Nothing
          /\ mm.errors = ConflictsOf(mm.merged)
        BY <2>1 DEF MergeOK
    <2>3. nacl' = nacl /\ hash' = hash /\ elements' = elements /\ pending' = pending
          /\ FullMerge(nacl, elements)' = FullMerge(nacl, elements)
        BY <1>1 DEF FullMerge
    <2>4. mm'.flushing <=> phase' = "flush merge"
        BY <1>1, <1>4
    <2> QED
        BY <1>4, <2>2, <2>3, <2>4 DEF MergeOK
<1>10. SavedMergeOK'
    BY <1>1, <1>4, <1>5 DEF SavedMergeOK, SavedMergeIsOfItsHash, MergeIsFlushed
<1>11. NaclOK'
    BY <1>1 DEF NaclOK
<1> QED
    BY <1>6, <1>7, <1>8, <1>9, <1>10, <1>11 DEF IInv

LEMMA FlushMergeKeepsIInv ==
    ASSUME IInv, FlushMerge
    PROVE  IInv'
<1>1. /\ phase = "flush merge" /\ pending = {} /\ pending' = {} /\ stateStep = "idle"
      /\ UNCHANGED <<stateFiles, stateDb, elements, hash, dirty, cacheDirty, contents,
                     stateStep, unwritten, naclFiles, naclDb, nacl, sessions, changes>>
    BY DEF FlushMerge, stateVars, diskVars, memoryVars, stepVars, naclVars,
           IInv, PhasesOK, Flushing
<1>2. mm \in Caches /\ mmDb \in Caches
    BY DEF IInv, TypeOK, MergeTypeOK
<1>3. /\ mmDb.flushing /\ mmDb.mergedHash = mm.mergedHash /\ mmDb.sourceHash = mm.sourceHash
      /\ mergeStep \in {"errors", "done"} => mmDb.merged = mm.merged
      /\ mergeStep = "done" => mmDb.errors = mm.errors
    BY <1>1 DEF IInv, SavedMergeOK
<1>4. ASSUME phase' \in {"flush merge", "flush nacl"},
             mergeStep' \in {"idle", "errors", "done"},
             mergeStep' # "idle" <=> phase' = "flush merge",
             mm' \in Caches, mmDb' \in Caches,
             mm'.merged = mm.merged, mm'.errors = mm.errors,
             mm'.mergedHash = mm.mergedHash, mm'.sourceHash = mm.sourceHash,
             mm'.flushing <=> phase' = "flush merge"
      PROVE  TypeOK' /\ PhasesOK' /\ StateOK' /\ MergeOK' /\ NaclOK'
    <2>1. TypeOK'
        BY <1>1, <1>4 DEF IInv, TypeOK, StateTypeOK, MergeTypeOK
    <2>2. PhasesOK'
        BY <1>1, <1>4 DEF IInv, PhasesOK, Flushing, MergeIsFlushed
    <2>3. StateOK'
        BY <1>1, <1>4 DEF IInv, StateOK
    <2>4. MergeOK'
        <3>1. /\ mm.mergedHash = <<nacl, hash>> /\ mm.sourceHash = hash
              /\ \A e \in Elements \ pending :
                    hash[e] = elements[e] /\ mm.merged[e] = FullMerge(nacl, elements)[e]
              /\ \A e \in Elements \ Hidden : nacl[e] = Absent => mm.merged[e] = Nothing
              /\ mm.errors = ConflictsOf(mm.merged)
            <4>1. MergeOK /\ IsUp
                BY <1>1 DEF IInv, IsUp, Flushing
            <4> QED
                BY <4>1 DEF MergeOK
        <3>2. /\ nacl' = nacl /\ hash' = hash /\ elements' = elements /\ pending' = pending
              /\ FullMerge(nacl, elements)' = FullMerge(nacl, elements)
            BY <1>1 DEF FullMerge
        <3> QED
            BY <1>4, <3>1, <3>2 DEF MergeOK
    <2>5. NaclOK'
        BY <1>4 DEF NaclOK
    <2> QED
        BY <2>1, <2>2, <2>3, <2>4, <2>5
<1>5. CASE FlushMerged /\ UNCHANGED phase
    <2>1. /\ phase' = "flush merge" /\ mergeStep' = "errors" /\ mm' = mm
          /\ mmDb' = [mmDb EXCEPT !.merged = mm.merged]
        BY <1>1, <1>5 DEF FlushMerged
    <2>2. /\ mmDb' \in Caches /\ mmDb'.flushing /\ mmDb'.merged = mm.merged
          /\ mmDb'.mergedHash = mm.mergedHash /\ mmDb'.sourceHash = mm.sourceHash
        BY <1>2, <1>3, <2>1 DEF Caches
    <2>3. mm.flushing
        BY <1>1 DEF IInv, MergeOK, IsUp, Flushing
    <2>4. SavedMergeOK'
        BY <2>1, <2>2 DEF SavedMergeOK, SavedMergeIsOfItsHash, MergeIsFlushed
    <2> QED
        BY <1>2, <1>4, <2>1, <2>2, <2>3, <2>4 DEF IInv
<1>6. CASE FlushErrors /\ UNCHANGED phase
    <2>1. /\ phase' = "flush merge" /\ mergeStep = "errors" /\ mergeStep' = "done" /\ mm' = mm
          /\ mmDb' = [mmDb EXCEPT !.errors = mm.errors]
        BY <1>1, <1>6 DEF FlushErrors
    <2>2. /\ mmDb' \in Caches /\ mmDb'.flushing
          /\ mmDb'.merged = mm.merged /\ mmDb'.errors = mm.errors
          /\ mmDb'.mergedHash = mm.mergedHash /\ mmDb'.sourceHash = mm.sourceHash
        BY <1>2, <1>3, <2>1 DEF Caches
    <2>3. mm.flushing
        BY <1>1 DEF IInv, MergeOK, IsUp, Flushing
    <2>4. SavedMergeOK'
        BY <2>1, <2>2 DEF SavedMergeOK, SavedMergeIsOfItsHash, MergeIsFlushed
    <2> QED
        BY <1>2, <1>4, <2>1, <2>2, <2>3, <2>4 DEF IInv
<1>7. CASE UnmarkFlush /\ phase' = "flush nacl"
    <2>1. /\ phase' = "flush nacl" /\ mergeStep = "done" /\ mergeStep' = "idle"
          /\ mm' = [mm EXCEPT !.flushing = FALSE]
          /\ mmDb' = [mmDb EXCEPT !.flushing = FALSE]
        BY <1>7 DEF UnmarkFlush
    <2>2. mm' = [merged |-> mm.merged, errors |-> mm.errors, mergedHash |-> mm.mergedHash,
                 sourceHash |-> mm.sourceHash, flushing |-> FALSE]
        BY <1>2, <2>1 DEF Caches
    <2>3. mmDb' = [merged |-> mmDb.merged, errors |-> mmDb.errors,
                   mergedHash |-> mmDb.mergedHash, sourceHash |-> mmDb.sourceHash,
                   flushing |-> FALSE]
        BY <1>2, <2>1 DEF Caches
    <2>4. mmDb' = mm'
        BY <1>3, <2>1, <2>2, <2>3
    <2>5. /\ mm' \in Caches /\ mm'.merged = mm.merged /\ mm'.errors = mm.errors
          /\ mm'.mergedHash = mm.mergedHash /\ mm'.sourceHash = mm.sourceHash /\ ~mm'.flushing
        BY <1>2, <2>2 DEF Caches
    <2>6. hash = elements /\ IsMergeOf(mm, nacl, elements)
        BY <1>1, NothingPending DEF IsUp, Flushing
    <2>7. mm.mergedHash = <<nacl, hash>>
        BY <1>1 DEF IInv, MergeOK, IsUp, Flushing
    <2>8. IsMergeOf(mm', mm'.mergedHash[1], mm'.mergedHash[2])
        BY <2>5, <2>6, <2>7 DEF IsMergeOf
    <2>9. SavedMergeOK'
        BY <2>1, <2>4, <2>8 DEF SavedMergeOK, SavedMergeIsOfItsHash, MergeIsFlushed
    <2> QED
        BY <1>4, <2>1, <2>4, <2>5, <2>9 DEF IInv
<1> QED
    BY <1>5, <1>6, <1>7 DEF FlushMerge, FlushMergeStep

\* What the merge is compared with does not change.
LEMMA MergeIsKept ==
    ASSUME IInv, IsUp, phase # "flush merge", phase' # "flush merge",
           UNCHANGED <<mm, nacl, elements, hash, pending>>
    PROVE  MergeOK'
BY DEF IInv, MergeOK, FullMerge

LEMMA SavedMergeIsKept ==
    ASSUME IInv, UNCHANGED <<mm, mmDb>>, phase' # "flush merge",
           phase' \in MergeIsFlushed => phase \in MergeIsFlushed
    PROVE  SavedMergeOK'
BY DEF IInv, SavedMergeOK, SavedMergeIsOfItsHash, IsMergeOf

LEMMA FlushNaclFilesKeepsIInv ==
    ASSUME IInv, FlushNaclFiles
    PROVE  IInv'
<1>1. /\ phase = "flush nacl" /\ phase' = "flush nacl cache"
      /\ naclFiles' = nacl
      /\ \E untouched \in BOOLEAN : naclDb' = [naclDb EXCEPT !.valid = @ /\ untouched]
      /\ UNCHANGED <<stateFiles, stateDb, elements, hash, dirty, cacheDirty, contents,
                     stateStep, unwritten, mm, mmDb, mergeStep, nacl, pending,
                     sessions, changes>>
    BY DEF FlushNaclFiles, stateVars, diskVars, memoryVars, stepVars, mergeVars
<1>2. naclDb' \in [elements : Maps, valid : BOOLEAN]
    BY <1>1 DEF IInv, TypeOK
<1>3. TypeOK'
    BY <1>1, <1>2 DEF IInv, TypeOK, StateTypeOK, MergeTypeOK
<1>4. PhasesOK'
    BY <1>1 DEF IInv, PhasesOK, Flushing, MergeIsFlushed
<1>5. StateOK'
    BY <1>1 DEF IInv, StateOK
<1>6. MergeOK' /\ SavedMergeOK'
    BY <1>1, MergeIsKept, SavedMergeIsKept DEF IsUp, Flushing, MergeIsFlushed
<1>7. NaclOK'
    BY <1>1 DEF NaclOK
<1> QED
    BY <1>3, <1>4, <1>5, <1>6, <1>7 DEF IInv

LEMMA FlushNaclCacheKeepsIInv ==
    ASSUME IInv, FlushNaclCache
    PROVE  IInv'
<1>1. /\ phase = "flush nacl cache" /\ phase' = "flush state"
      /\ naclDb' = [elements |-> nacl, valid |-> TRUE]
      /\ stateStep = "idle"
      /\ contents' = IF dirty THEN {elements} ELSE contents
      /\ unwritten' = IF dirty THEN Accounts ELSE {}
      /\ stateStep' = CASE dirty -> "files"
                        [] ~dirty /\ cacheDirty -> "cache"
                        [] OTHER -> "idle"
      /\ UNCHANGED <<stateFiles, stateDb, elements, hash, dirty, cacheDirty,
                     mm, mmDb, mergeStep, naclFiles, nacl, pending, sessions, changes>>
    BY ContentsAreElements DEF FlushNaclCache, FlushState, diskVars, mergeVars
<1>2. /\ dirty => stateStep' = "files"
      /\ ~dirty => stateStep' \in {"cache", "idle"}
    BY <1>1
<1>3. elements \in Maps /\ nacl \in Maps
    BY DEF IInv, TypeOK, StateTypeOK
<1>4. TypeOK'
    <2>1. StateTypeOK'
        BY <1>1, <1>2, <1>3 DEF IInv, TypeOK, StateTypeOK
    <2> QED
        BY <1>1, <1>3, <2>1 DEF IInv, TypeOK, MergeTypeOK
<1>5. PhasesOK'
    BY <1>1, <1>2 DEF IInv, PhasesOK, Flushing, MergeIsFlushed
<1>6. StateOK'
    <2>1. dirty => \A e \in Elements : AccountOf[e] \in unwritten'
        BY <1>1, LocalStateAssumption
    <2> QED
        BY <1>1, <1>2, <2>1 DEF IInv, StateOK
<1>7. MergeOK' /\ SavedMergeOK'
    BY <1>1, MergeIsKept, SavedMergeIsKept DEF IsUp, Flushing, MergeIsFlushed
<1>8. NaclOK'
    BY <1>1 DEF IInv, NaclOK
<1> QED
    BY <1>4, <1>5, <1>6, <1>7, <1>8 DEF IInv

LEMMA FlushEndsKeepsIInv ==
    ASSUME IInv, FlushEnds
    PROVE  IInv'
<1>1. /\ phase = "flush state" /\ phase' = "ready" /\ stateStep = "idle"
      /\ UNCHANGED <<stateFiles, stateDb, elements, hash, dirty, cacheDirty, contents,
                     stateStep, unwritten, mm, mmDb, mergeStep, naclFiles, naclDb, nacl,
                     pending, sessions, changes>>
    BY DEF FlushEnds, stateVars, diskVars, memoryVars, stepVars, mergeVars, naclVars
<1>2. TypeOK'
    BY <1>1 DEF IInv, TypeOK, StateTypeOK, MergeTypeOK
<1>3. PhasesOK'
    BY <1>1 DEF IInv, PhasesOK, Flushing, MergeIsFlushed
<1>4. StateOK'
    BY <1>1 DEF IInv, StateOK
<1>5. MergeOK' /\ SavedMergeOK'
    BY <1>1, MergeIsKept, SavedMergeIsKept DEF IsUp, Flushing, MergeIsFlushed
<1>6. NaclOK'
    BY <1>1 DEF NaclOK
<1> QED
    BY <1>2, <1>3, <1>4, <1>5, <1>6 DEF IInv

\* The steps of the flush of the state: the invariant, but for what they change.
LEMMA FlushStateStepsKeepTheRest ==
    ASSUME IInv, phase = "flush state", phase' = "flush state",
           UNCHANGED <<elements, contents, mm, mmDb, mergeStep, naclFiles, naclDb, nacl,
                       pending, sessions, changes>>,
           hash' = elements,
           StateTypeOK'
    PROVE  TypeOK' /\ MergeOK' /\ SavedMergeOK' /\ NaclOK'
<1>1. pending = {} /\ IsUp
    BY DEF IInv, PhasesOK, IsUp, Flushing, MergeIsFlushed
<1>2. hash = elements
    BY <1>1, NothingPending
<1>3. MergeOK' /\ SavedMergeOK'
    BY <1>1, <1>2, MergeIsKept, SavedMergeIsKept
<1>4. TypeOK'
    BY DEF IInv, TypeOK, MergeTypeOK
<1>5. NaclOK'
    BY DEF IInv, NaclOK
<1> QED
    BY <1>3, <1>4, <1>5

LEMMA WriteFileKeepsIInv ==
    ASSUME IInv, FlushStateSteps, ContentsAreNew, NEW a \in Accounts, WriteFile(a)
    PROVE  IInv'
<1> DEFINE listed == OfAccount(a) \cap Listed(elements) # {}
<1>1. /\ phase = "flush state" /\ phase' = "flush state"
      /\ stateStep = "files" /\ unwritten' = unwritten \ {a}
      /\ UNCHANGED <<stateDb, elements, hash, dirty, cacheDirty, contents, stateStep,
                     mm, mmDb, mergeStep, naclFiles, naclDb, nacl, pending, sessions, changes>>
    BY DEF FlushStateSteps, WriteFile, memoryVars, mergeVars, naclVars
<1>2. stateFiles' = [e \in Elements |-> IF AccountOf[e] = a /\ listed
                                         THEN elements[e] ELSE stateFiles[e]]
    BY ContentsAreElements DEF WriteFile
<1>3. \A e \in Elements : stateFiles'[e] = IF AccountOf[e] = a /\ listed
                                            THEN elements[e] ELSE stateFiles[e]
    BY <1>2
<1>4. elements \in Maps /\ stateFiles \in Maps
    BY DEF IInv, TypeOK, StateTypeOK
<1>5. stateFiles' \in Maps
    BY <1>2, <1>4 DEF Maps
<1>6. \A f \in Elements : stateFiles[f] # Absent =>
          \E e \in Elements : AccountOf[e] = AccountOf[f] /\ elements[e] # Absent
    BY <1>1 DEF IInv, StateOK
<1>7. listed <=> \E e \in Elements : AccountOf[e] = a /\ elements[e] # Absent
    BY DEF OfAccount, Listed
<1> HIDE DEF listed
<1>8. StateTypeOK'
    BY <1>1, <1>5 DEF IInv, TypeOK, StateTypeOK
<1>9. hash' = elements
    BY <1>1, NothingPending DEF IInv, PhasesOK, IsUp, Flushing, MergeIsFlushed
<1>10. TypeOK' /\ MergeOK' /\ SavedMergeOK' /\ NaclOK'
    BY <1>1, <1>8, <1>9, FlushStateStepsKeepTheRest
<1>11. PhasesOK'
    BY <1>1 DEF IInv, PhasesOK, Flushing, MergeIsFlushed
<1>12. dirty
    BY <1>1 DEF IInv, PhasesOK
<1>13. ASSUME stateDb.hash = stateFiles' PROVE stateDb.elements = stateFiles'
    BY <1>13 DEF ContentsAreNew, IInv, StateOK
<1>14. ASSUME NEW e \in Elements, AccountOf[e] \notin unwritten'
       PROVE  stateFiles'[e] = elements[e]
    <2>1. CASE AccountOf[e] = a /\ listed
        BY <1>3, <2>1
    <2>2. CASE AccountOf[e] = a /\ ~listed
        BY <1>3, <1>6, <1>7, <2>2
    <2>3. CASE AccountOf[e] # a
        BY <1>1, <1>3, <1>14, <2>3 DEF IInv, StateOK
    <2> QED
        BY <2>1, <2>2, <2>3
<1>15. ASSUME NEW f \in Elements, stateFiles'[f] # Absent
       PROVE  \E e \in Elements : AccountOf[e] = AccountOf[f] /\ elements[e] # Absent
    BY <1>3, <1>6, <1>15
<1>16. StateOK'
    BY <1>1, <1>12, <1>13, <1>14, <1>15 DEF IInv, StateOK
<1> QED
    BY <1>10, <1>11, <1>16 DEF IInv

LEMMA FilesWrittenKeepsIInv ==
    ASSUME IInv, FlushStateSteps, FilesWritten
    PROVE  IInv'
<1>1. /\ phase = "flush state" /\ phase' = "flush state"
      /\ stateStep = "files" /\ stateStep' = "cache" /\ unwritten = {}
      /\ hash' = elements
      /\ UNCHANGED <<stateFiles, stateDb, elements, dirty, cacheDirty, contents, unwritten,
                     mm, mmDb, mergeStep, naclFiles, naclDb, nacl, pending, sessions, changes>>
    BY ContentsAreElements DEF FlushStateSteps, FilesWritten, diskVars, mergeVars, naclVars
<1>2. elements \in Maps /\ stateFiles \in Maps
    BY DEF IInv, TypeOK, StateTypeOK
<1>3. \A e \in Elements : stateFiles[e] = elements[e]
    BY <1>1 DEF IInv, StateOK
<1>4. stateFiles = elements
    BY <1>2, <1>3 DEF Maps
<1>5. StateTypeOK'
    BY <1>1, <1>2 DEF IInv, TypeOK, StateTypeOK
<1>6. TypeOK' /\ MergeOK' /\ SavedMergeOK' /\ NaclOK'
    BY <1>1, <1>5, FlushStateStepsKeepTheRest
<1>7. PhasesOK'
    BY <1>1 DEF IInv, PhasesOK, Flushing, MergeIsFlushed
<1>8. StateOK'
    BY <1>1, <1>4 DEF IInv, StateOK
<1> QED
    BY <1>6, <1>7, <1>8 DEF IInv

LEMMA FlushElementsKeepsIInv ==
    ASSUME IInv, FlushStateSteps, FlushElements
    PROVE  IInv'
<1>1. /\ phase = "flush state" /\ phase' = "flush state"
      /\ stateStep = "cache" /\ stateStep' = "cache elements"
      /\ stateDb' = [stateDb EXCEPT !.elements = elements]
      /\ UNCHANGED <<stateFiles, elements, hash, dirty, cacheDirty, contents, unwritten,
                     mm, mmDb, mergeStep, naclFiles, naclDb, nacl, pending, sessions, changes>>
    BY DEF FlushStateSteps, FlushElements, memoryVars, mergeVars, naclVars
<1>2. elements = stateFiles /\ hash = stateFiles
    BY <1>1 DEF IInv, StateOK
<1>3. stateDb' \in [elements : Maps, hash : Maps] /\ stateDb'.elements = elements
    BY <1>1 DEF IInv, TypeOK, StateTypeOK
<1>4. StateTypeOK'
    BY <1>1, <1>3 DEF IInv, TypeOK, StateTypeOK
<1>5. TypeOK' /\ MergeOK' /\ SavedMergeOK' /\ NaclOK'
    BY <1>1, <1>2, <1>4, FlushStateStepsKeepTheRest
<1>6. PhasesOK'
    BY <1>1 DEF IInv, PhasesOK, Flushing, MergeIsFlushed
<1>7. StateOK'
    BY <1>1, <1>2, <1>3 DEF IInv, StateOK
<1> QED
    BY <1>5, <1>6, <1>7 DEF IInv

LEMMA FlushHashKeepsIInv ==
    ASSUME IInv, FlushStateSteps, FlushHash
    PROVE  IInv'
<1>1. /\ phase = "flush state" /\ phase' = "flush state"
      /\ stateStep = "cache elements" /\ stateStep' = "idle"
      /\ stateDb' = [stateDb EXCEPT !.hash = hash]
      /\ dirty' = FALSE /\ cacheDirty' = (dirty /\ cacheDirty)
      /\ UNCHANGED <<stateFiles, elements, hash, contents, unwritten,
                     mm, mmDb, mergeStep, naclFiles, naclDb, nacl, pending, sessions, changes>>
    BY DEF FlushStateSteps, FlushHash, mergeVars, naclVars
<1>2. elements = stateFiles /\ hash = stateFiles /\ stateDb.elements = stateFiles
    BY <1>1 DEF IInv, StateOK
<1>3. /\ stateDb' \in [elements : Maps, hash : Maps]
      /\ stateDb'.elements = stateFiles /\ stateDb'.hash = stateFiles
    BY <1>1, <1>2 DEF IInv, TypeOK, StateTypeOK
<1>4. StateTypeOK'
    BY <1>1, <1>3 DEF IInv, TypeOK, StateTypeOK
<1>5. TypeOK' /\ MergeOK' /\ SavedMergeOK' /\ NaclOK'
    BY <1>1, <1>2, <1>4, FlushStateStepsKeepTheRest
<1>6. PhasesOK'
    BY <1>1 DEF IInv, PhasesOK, Flushing, MergeIsFlushed
<1>7. StateOK'
    BY <1>1, <1>2, <1>3 DEF IInv, StateOK
<1> QED
    BY <1>5, <1>6, <1>7 DEF IInv

\* A process may stop whatever the phase: what is on disk is kept.
LEMMA StopKeepsIInv ==
    ASSUME IInv, Stop
    PROVE  IInv'
<1>1. /\ phase' = "down" /\ pending' = {}
      /\ elements' = Empty /\ hash' = Empty /\ ~dirty' /\ ~cacheDirty' /\ contents' = {}
      /\ dirty' \in BOOLEAN /\ cacheDirty' \in BOOLEAN
      /\ stateStep' = "idle" /\ unwritten' = {}
      /\ mm' = Cleared /\ mergeStep' = "idle" /\ nacl' = Empty
      /\ UNCHANGED <<stateFiles, stateDb, mmDb, naclFiles, naclDb, sessions, changes>>
    BY DEF Stop, StateStops, MergeStops, diskVars
<1>2. TypeOK'
    <2>1. StateTypeOK'
        BY <1>1, EmptyIsAMap DEF IInv, TypeOK, StateTypeOK
    <2>2. MergeTypeOK'
        BY <1>1, ClearedIsAMerge DEF IInv, TypeOK, MergeTypeOK
    <2> QED
        BY <1>1, <2>1, <2>2, EmptyIsAMap DEF IInv, TypeOK
<1>3. PhasesOK'
    BY <1>1 DEF PhasesOK, Flushing, MergeIsFlushed
<1>4. StateOK'
    BY <1>1 DEF IInv, StateOK
<1>5. MergeOK' /\ NaclOK'
    BY <1>1 DEF MergeOK, NaclOK, IsUp, Flushing, MergeIsFlushed
<1>6. SavedMergeOK'
    BY <1>1 DEF IInv, SavedMergeOK, SavedMergeIsOfItsHash, MergeIsFlushed, IsMergeOf
<1> QED
    BY <1>2, <1>3, <1>4, <1>5, <1>6 DEF IInv

LEMMA EditFilesKeepsIInv ==
    ASSUME IInv, ContentsAreNew, NEW e \in Elements, NEW v \in Values \cup {Absent},
           EditFiles(e, v)
    PROVE  IInv'
<1>1. /\ phase = "down" /\ phase' = "down"
      /\ changes' = changes + 1 /\ changes < MaxChanges
      /\ naclFiles' = [naclFiles EXCEPT ![e] = v] \/ naclFiles' = naclFiles
      /\ stateFiles' = [stateFiles EXCEPT ![e] = v] \/ stateFiles' = stateFiles
      /\ UNCHANGED <<stateDb, elements, hash, dirty, cacheDirty, contents, stateStep, unwritten,
                     mm, mmDb, mergeStep, naclDb, nacl, pending, sessions>>
    BY DEF EditFiles, MayChange, memoryVars, stepVars, mergeVars
<1>2. naclFiles' \in Maps /\ stateFiles' \in Maps
    <2>1. naclFiles \in Maps /\ stateFiles \in Maps
        BY DEF IInv, TypeOK, StateTypeOK
    <2>2. ASSUME NEW m \in Maps PROVE [m EXCEPT ![e] = v] \in Maps
        BY DEF Maps
    <2> QED
        BY <1>1, <2>1, <2>2
<1>3. TypeOK'
    <2>1. StateTypeOK'
        BY <1>1, <1>2 DEF IInv, TypeOK, StateTypeOK
    <2>2. changes' \in 0 .. MaxChanges
        BY <1>1, WorkspaceAssumption DEF IInv, TypeOK
    <2> QED
        BY <1>1, <1>2, <2>1, <2>2 DEF IInv, TypeOK, MergeTypeOK
<1>4. PhasesOK'
    BY <1>1 DEF IInv, PhasesOK, Flushing, MergeIsFlushed
<1>5. stateStep = "idle"
    BY <1>1, ReadyIsIdle
<1>6. stateDb'.hash = stateFiles' => stateDb'.elements = stateFiles'
    BY <1>1 DEF ContentsAreNew, IInv, StateOK
<1>7. StateOK'
    BY <1>1, <1>5, <1>6 DEF IInv, StateOK
<1>8. MergeOK' /\ NaclOK'
    BY <1>1 DEF MergeOK, NaclOK, IsUp, Flushing, MergeIsFlushed
<1>9. SavedMergeOK'
    BY <1>1, SavedMergeIsKept DEF MergeIsFlushed
<1> QED
    BY <1>3, <1>4, <1>7, <1>8, <1>9 DEF IInv

LEMMA NextKeepsIInv ==
    ASSUME IInv, [Next]_vars
    PROVE  IInv'
<1>1. CASE Next
    <2>1. ContentsAreNew /\ Step
        BY <1>1 DEF Next
    <2>2. ASSUME ChangeNaclFiles PROVE IInv'
        <3>1. PICK to \in NaclUpdates :
                 /\ IF to = nacl THEN UNCHANGED changes ELSE MayChange
                 /\ UpdateNaclFiles(to) \/ SetNaclFiles(to)
            BY <2>2 DEF ChangeNaclFiles
        <3>2. nacl \in Maps
            BY DEF IInv, TypeOK
        <3>3. \A e \in Elements, v \in Values \cup {Absent} : [nacl EXCEPT ![e] = v] \in Maps
            BY <3>2 DEF Maps
        <3>4. to \in Maps
            BY <3>2, <3>3 DEF NaclUpdates
        <3>5. changes' \in 0 .. MaxChanges
            <4>1. changes \in 0 .. MaxChanges
                BY DEF IInv, TypeOK
            <4>2. changes' = changes \/ (changes < MaxChanges /\ changes' = changes + 1)
                BY <3>1 DEF MayChange
            <4> QED
                BY <4>1, <4>2, WorkspaceAssumption
        <3> QED
            BY <3>1, <3>4, <3>5, UpdateNaclFilesKeepsIInv, SetNaclFilesKeepsIInv
    <2>3. ASSUME FlushStateSteps PROVE IInv'
        BY <2>1, <2>3, WriteFileKeepsIInv, FilesWrittenKeepsIInv, FlushElementsKeepsIInv,
           FlushHashKeepsIInv DEF FlushStateSteps, FlushStateStep
    <2> QED
        BY <2>1, <2>2, <2>3, LoadKeepsIInv, UpdateStateKeepsIInv, FlushKeepsIInv,
           FlushMergeKeepsIInv, FlushNaclFilesKeepsIInv, FlushNaclCacheKeepsIInv,
           FlushEndsKeepsIInv, StopKeepsIInv, EditFilesKeepsIInv DEF Step
<1>2. CASE UNCHANGED vars
    <2>1. UNCHANGED <<stateFiles, stateDb, elements, hash, dirty, cacheDirty, contents, stateStep,
                      unwritten, mm, mmDb, mergeStep, naclFiles, naclDb, nacl,
                      phase, pending, sessions, changes>>
        BY <1>2 DEF vars, stateVars, diskVars, memoryVars, stepVars, mergeVars, naclVars
    <2>2. TypeOK'
        <3>1. StateTypeOK'
            BY <2>1 DEF IInv, TypeOK, StateTypeOK
        <3>2. MergeTypeOK'
            BY <2>1 DEF IInv, TypeOK, MergeTypeOK
        <3> QED
            BY <2>1, <3>1, <3>2 DEF IInv, TypeOK
    <2>3. PhasesOK' /\ StateOK' /\ NaclOK'
        BY <2>1 DEF IInv, PhasesOK, StateOK, NaclOK
    <2>4. MergeOK'
        BY <2>1 DEF IInv, MergeOK, IsUp, FullMerge
    <2>5. SavedMergeOK'
        BY <2>1 DEF IInv, SavedMergeOK, SavedMergeIsOfItsHash, IsMergeOf
    <2> QED
        BY <2>2, <2>3, <2>4, <2>5 DEF IInv
<1> QED
    BY <1>1, <1>2

LEMMA IInvIsInvariant == Spec => []IInv
<1>1. Init => IInv
    BY InitEstablishesIInv
<1>2. IInv /\ [Next]_vars => IInv'
    BY NextKeepsIInv
<1> QED
    BY <1>1, <1>2, PTL DEF Spec

----------------------------------------------------------------------------

\* The variables of the state, the merge and the NaCl files keep their types.
THEOREM TypeOKAlways == Spec => []TypeOK
<1>1. IInv => TypeOK
    BY DEF IInv
<1> QED
    BY <1>1, IInvIsInvariant, PTL

\* Whenever a process stops, between any two of the writes of the state files, of
\* the cached elements and of the hash, the next one reads what the files hold.
THEOREM NextLoadIsAlwaysOfTheFiles == Spec => []NextLoadIsOfTheFiles
<1>1. IInv => NextLoadIsOfTheFiles
    BY DEF IInv, StateOK, NextLoadIsOfTheFiles, LoadedElements
<1> QED
    BY <1>1, IInvIsInvariant, PTL

\* The incremental updates of the merged elements, in any number and across
\* processes, amount to a merge from scratch.
THEOREM MergedIsAlwaysCurrent == Spec => []MergedIsCurrent
<1>1. IInv => MergedIsCurrent
    BY NothingPending DEF MergedIsCurrent, IsUp
<1> QED
    BY <1>1, IInvIsInvariant, PTL

\* No crash leaves a merge on disk that passes for that of other contents.
THEOREM SavedMergeIsAlwaysOfItsHash == Spec => []SavedMergeIsOfItsHash
<1>1. IInv => SavedMergeIsOfItsHash
    BY DEF IInv, SavedMergeOK
<1> QED
    BY <1>1, IInvIsInvariant, PTL

\* A flush that ends leaves on disk what the process has in memory.
THEOREM FlushAlwaysSavesTheWorkspace == Spec => FlushSavesTheWorkspace
<1> DEFINE Saved == /\ naclFiles = nacl /\ naclDb = [elements |-> nacl, valid |-> TRUE]
                    /\ stateFiles = elements /\ LoadedElements = elements
                    /\ mmDb = mm /\ ~mm.flushing /\ mm.mergedHash = <<naclFiles, stateFiles>>
           Ends == phase = "flush state" /\ phase' = "ready"
<1>1. ASSUME Next, Ends PROVE stateStep = "idle"
    <2>1. ASSUME NEW to, UpdateNaclFiles(to) \/ SetNaclFiles(to) PROVE phase = "ready"
        BY <2>1 DEF UpdateNaclFiles, SetNaclFiles
    <2>2. Step
        BY <1>1 DEF Next
    <2> QED
        BY <1>1, <2>1, <2>2 DEF Step, LoadWorkspace, UpdateState, ChangeNaclFiles, Flush,
            FlushMerge, FlushNaclFiles, FlushNaclCache, FlushStateSteps, FlushEnds, Stop, EditFiles
<1>2. ASSUME IInv, phase = "flush state", stateStep = "idle" PROVE Saved
    <2>1. naclFiles = nacl /\ naclDb = [elements |-> nacl, valid |-> TRUE]
        BY <1>2 DEF IInv, NaclOK
    <2>2. elements = stateFiles /\ hash = stateFiles
        BY <1>2 DEF IInv, PhasesOK, StateOK
    <2>3. LoadedElements = elements
        BY <1>2, <2>2 DEF IInv, StateOK, LoadedElements
    <2>4. mmDb = mm
        BY <1>2 DEF IInv, SavedMergeOK, MergeIsFlushed
    <2>5. ~mm.flushing /\ mm.mergedHash = <<nacl, hash>>
        BY <1>2 DEF IInv, MergeOK, IsUp, Flushing, MergeIsFlushed
    <2> QED
        BY <2>1, <2>2, <2>3, <2>4, <2>5
<1>3. IInv /\ [Next]_vars => [Ends => Saved]_vars
    BY <1>1, <1>2
<1>4. Spec => [][Ends => Saved]_vars
    BY <1>3, IInvIsInvariant, PTL DEF Spec
<1> QED
    BY <1>4 DEF FlushSavesTheWorkspace

=============================================================================
