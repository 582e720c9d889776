-------------------------- MODULE RemoteMapProofs --------------------------
(***************************************************************************)
(* A remote map keeps its promises for any keys, values and number of      *)
(* readers, provided its callers take care.                                *)
(***************************************************************************)
EXTENDS RemoteMap, WellFoundedInduction, TLAPS

\* Nobody reads during a clear or a flush, and Careful: has and isEmpty are asked
\* when no deletion waits for a flush, nothing is changed while isEmpty is
\* answered, and no deleted key is set again while entries are listed.
CallersTakeCare == {"clear", "flush"} \subseteq Exclusive /\ Careful

Stages == {"tmp", "persistent", "iterating", "done"}

Reads == [op : ReadOps, key : Keys, at : Stages \cup Readers,
          found : Contents, current : BOOLEAN]

Types ==
    /\ tmp \in Contents /\ persistent \in Contents
    /\ cache \in [Keys -> Maybe \cup {NotCached} \cup Readers]
    /\ overtaken \in [Keys -> SUBSET Maybe]
    /\ delKeys \subseteq Keys /\ wasClearCalled \in BOOLEAN
    /\ isNamespaceEmpty \in {"unknown", "yes", "no"}
    /\ writer \in WriterStages
    /\ pending \in Contents /\ savedBefore \in Contents
    /\ reader \in [Readers -> Reads]

\* A promise in the cache is that of a reader that reads the key; if it has gone
\* on to the persistent database, there was nothing to wait for in the other one,
\* or there is now, and its value was overtaken.
PromisesOK ==
    \A k \in Keys : cache[k] \in Readers =>
        /\ reader[cache[k]].at \in {"tmp", "persistent"}
        /\ reader[cache[k]].key = k
        /\ reader[cache[k]].at = "persistent" =>
              ~wasClearCalled /\ (tmp[k] = None \/ persistent[k] \in overtaken[k])

\* Entries are pending in a set or setAll only, and are cached until written,
\* unless they were evicted; what a get then finds is overtaken.
WriterOK ==
    /\ writer = "set" => isNamespaceEmpty # "yes"
    /\ \A k \in Keys : pending[k] # None =>
          /\ writer \in {"set", "setAll"}
          /\ cache[k] \in {NotCached, pending[k]} \/ Stored[k] \in overtaken[k]
          /\ k \notin delKeys

\* Nobody reads during a clear or a flush.
ExclusionOK ==
    Operation(writer) \in {"clear", "flush"} => \A r \in Readers : reader[r].at = "done"

\* Known to be empty means that nothing is lost with the temporary database,
\* except that setAll finds out at its end only; and while a reader finds out,
\* nothing changes.
EmptinessOK ==
    /\ isNamespaceEmpty = "yes" /\ writer # "setAll" => tmp = Nothing
    /\ \A r \in Readers : reader[r].at = "iterating" /\ reader[r].op = "isEmpty" =>
          /\ writer = "idle"
          /\ delKeys = {}
          /\ KeysOf(reader[r].found) = {} => tmp = Nothing

\* The steps of clear.
ClearOK ==
    /\ Operation(writer) = "clear" => \A k \in Keys : cache[k] = NotCached /\ overtaken[k] = {}
    /\ writer = "clear tmp" => tmp = Nothing

\* The steps of flush.
FlushOK ==
    /\ writer = "flush" /\ wasClearCalled => persistent = Nothing
    /\ writer = "flush written" =>
          \A k \in Keys : /\ tmp[k] # None => persistent[k] = tmp[k]
                          /\ tmp[k] = None /\ wasClearCalled => persistent[k] = None
    /\ writer \in {"flush tmp cleared", "flush deleted"} => tmp = Nothing
    /\ writer = "flush deleted" => \A k \in delKeys : persistent[k] = None

\* The new value of an entry that was overtaken is a value.
OvertakenOK == \A k \in Keys \ delKeys : overtaken[k] # {} => Data[k] # None

IInv ==
    /\ Types /\ PromisesOK /\ WriterOK /\ ExclusionOK /\ EmptinessOK
    /\ ClearOK /\ FlushOK /\ CacheIsCoherent /\ OvertakenOK

----------------------------------------------------------------------------
(* Facts about contents and reads. *)

LEMMA NothingIsContents == Nothing \in Contents /\ \A k \in Keys : Nothing[k] = None
  BY DEF Nothing, Contents, Maybe

LEMMA OverIsContents ==
  ASSUME NEW upper \in Contents, NEW lower \in Contents
  PROVE  Over(upper, lower) \in Contents
  BY DEF Over, Contents

LEMMA EqualContents ==
  ASSUME NEW a \in Contents, NEW b \in Contents, \A k \in Keys : a[k] = b[k]
  PROVE  a = b
  BY DEF Contents

LEMMA NothingHasNoKeys ==
  ASSUME NEW m \in Contents
  PROVE  KeysOf(m) = {} <=> m = Nothing
  <1>1. ASSUME KeysOf(m) = {} PROVE m = Nothing
    <2>1. \A k \in Keys : m[k] = Nothing[k]
      BY <1>1 DEF KeysOf, Nothing
    <2>. QED
      BY <2>1, EqualContents, NothingIsContents
  <1>. QED
    BY <1>1 DEF KeysOf, Nothing

LEMMA DoneIsARead ==
  ASSUME NEW b \in BOOLEAN
  PROVE  Done(b) \in Reads /\ Done(b).at = "done" /\ Done(b).op = "get"
  <1>1. (CHOOSE k \in Keys : TRUE) \in Keys
    BY RemoteMapAssumption
  <1>. QED
    BY <1>1, NothingIsContents DEF Done, Reads, ReadOps, Stages

\* Every map with an entry has a first one.
LEMMA FirstExists ==
  ASSUME NEW m \in Contents, m # Nothing
  PROVE  First(m) # {}
  <1>1. KeysOf(m) # {} /\ KeysOf(m) \subseteq Nat
    BY NothingHasNoKeys, RemoteMapAssumption DEF KeysOf
  <1>2. PICK k \in KeysOf(m) : \A j \in KeysOf(m) : ~(<<j, k>> \in OpToRel(<, Nat))
    BY <1>1, WFMin, NatLessThanWellFounded, Zenon
  <1>3. \A j \in KeysOf(m) : ~(j < k)
    BY <1>1, <1>2, Zenon DEF OpToRel
  <1>4. \A j \in KeysOf(m) : k <= j
    BY <1>1, <1>3
  <1>. QED
    BY <1>4 DEF First

LEMMA DataIsContents == Types => Data \in Contents
  BY NothingIsContents DEF Types, Data, Contents, Maybe

\* The data depends on nothing but the databases, the deletions and the writer.
LEMMA DataStays ==
  ASSUME UNCHANGED <<dbVars, delKeys, wasClearCalled, writer, pending>>
  PROVE  Data' = Data
  BY DEF Data, dbVars

LEMMA StoredIs ==
  /\ Stored = [k \in Keys |-> IF tmp[k] # None THEN tmp[k]
                              ELSE IF wasClearCalled THEN None ELSE persistent[k]]
  /\ Stored' = [k \in Keys |-> IF tmp'[k] # None THEN tmp'[k]
                               ELSE IF wasClearCalled' THEN None ELSE persistent'[k]]
  BY NothingIsContents DEF Stored, Over

\* What the map contains while it may be read.
LEMMA DataWhileReading ==
  ASSUME IInv, writer \in {"idle", "set", "setAll"}
  PROVE  Data = [k \in Keys |-> IF k \in delKeys THEN None
                                ELSE IF pending[k] # None THEN pending[k] ELSE Stored[k]]
  BY StoredIs DEF Data, Operation, FlushStages, WriterStages

LEMMA InitIInv == Init => IInv
  <1>. SUFFICES ASSUME Init PROVE IInv
    OBVIOUS
  <1>1. Types
    BY NothingIsContents, DoneIsARead DEF Init, Types, Contents, Maybe, WriterStages
  <1>2. PromisesOK /\ WriterOK /\ ClearOK /\ FlushOK /\ CacheIsCoherent /\ OvertakenOK
    BY NothingIsContents, RemoteMapAssumption
    DEF Init, PromisesOK, WriterOK, ClearOK, FlushOK, CacheIsCoherent, OvertakenOK,
        Operation, FlushStages, Maybe
  <1>3. ExclusionOK /\ EmptinessOK
    BY DoneIsARead DEF Init, ExclusionOK, EmptinessOK
  <1>. QED
    BY <1>1, <1>2, <1>3 DEF IInv

----------------------------------------------------------------------------
(* Reads.  They change nothing but the cache, what is known of the emptiness, *)
(* and the readers.                                                           *)

\* The cache keeps an entry, or gets the promise of a get, or what it settles to.
CacheChange ==
    \A k \in Keys :
       \/ cache'[k] = cache[k] /\ overtaken'[k] = overtaken[k]
       \/ /\ cache[k] = NotCached /\ cache'[k] \in Readers
          /\ overtaken'[k] = Outdated(k)
       \/ /\ cache[k] \in Readers /\ cache'[k] \in Maybe
          /\ overtaken'[k] = overtaken[k]
          /\ k \notin delKeys => cache'[k] = Data[k] \/ cache'[k] \in overtaken[k]

LEMMA ReadStep ==
  ASSUME IInv, writer \in {"idle", "set", "setAll"},
         UNCHANGED <<dbVars, delKeys, wasClearCalled, writerVars>>,
         Types', PromisesOK', CacheChange, EmptinessOK',
         isNamespaceEmpty' \in {"no", isNamespaceEmpty} \/ writer = "idle"
  PROVE  IInv'
  <1>1. Data' = Data /\ Stored' = Stored
    BY DataStays, StoredIs DEF writerVars, dbVars
  <1>2. WriterOK'
    <2>1. ASSUME NEW k \in Keys, pending[k] # None
          PROVE  cache'[k] \in {NotCached, pending[k]} \/ Stored[k] \in overtaken'[k]
      <3>1. pending[k] \notin Readers /\ NotCached \notin Readers
        BY RemoteMapAssumption DEF IInv, Types, Contents, Maybe
      <3>. QED
        BY <2>1, <3>1 DEF CacheChange, Outdated, IInv, WriterOK
    <2>. QED
      BY <1>1, <2>1 DEF IInv, WriterOK, writerVars
  <1>3. ExclusionOK' /\ ClearOK' /\ FlushOK'
    BY DEF ExclusionOK, ClearOK, FlushOK, Operation, FlushStages, writerVars
  <1>4. CacheIsCoherent'
    <2>1. ASSUME NEW k \in Keys \ delKeys, cache'[k] \in Maybe
          PROVE  cache'[k] = Data[k] \/ cache'[k] \in overtaken'[k]
      <3>1. CASE cache'[k] = cache[k] /\ overtaken'[k] = overtaken[k]
        BY <2>1, <3>1 DEF IInv, CacheIsCoherent, Operation, FlushStages
      <3>2. cache'[k] \notin Readers
        BY <2>1, RemoteMapAssumption DEF Maybe
      <3>. QED
        BY <2>1, <3>1, <3>2 DEF CacheChange
    <2>. QED
      BY <1>1, <2>1 DEF CacheIsCoherent
  <1>5. OvertakenOK'
    <2>1. ASSUME NEW k \in Keys \ delKeys, overtaken'[k] # {} PROVE Data[k] # None
      <3>1. CASE overtaken[k] # {}
        BY <3>1 DEF IInv, OvertakenOK
      <3>2. CASE pending[k] # None
        BY <3>2, DataWhileReading
      <3>. QED
        BY <2>1, <3>1, <3>2 DEF CacheChange, Outdated
    <2>. QED
      BY <1>1, <2>1 DEF OvertakenOK
  <1>. QED
    BY <1>2, <1>3, <1>4, <1>5 DEF IInv

LEMMA ReadersMayRead ==
  ASSUME IInv, CallersTakeCare, NEW r \in Readers
  PROVE  /\ \A op \in ReadOps, k \in Keys : MayRead(r, op, k) => writer \in {"idle", "set", "setAll"}
         /\ Reading(r) => writer \in {"idle", "set", "setAll"}
  BY DEF IInv, Types, CallersTakeCare, MayRead, Reading, ExclusionOK, WriterStages, Operation, FlushStages

\* A read that is answered at once.
LEMMA AnsweredAtOnce ==
  ASSUME IInv, CallersTakeCare, NEW r \in Readers, NEW op \in ReadOps, NEW k \in Keys, NEW answer,
         MayRead(r, op, k), AnswerAtOnce(r, op, k, answer),
         isNamespaceEmpty' \in {"no", isNamespaceEmpty}
  PROVE  IInv'
  <1>. DEFINE done == Done(answer \subseteq ObservableNow(op, k))
  <1>1. done \in Reads /\ done.at = "done"
    BY DoneIsARead
  <1>2. reader' = [reader EXCEPT ![r] = done]
    BY DEF AnswerAtOnce
  <1>. HIDE DEF done
  <1>3. UNCHANGED <<dbVars, cache, overtaken, delKeys, wasClearCalled, writerVars>>
    BY DEF AnswerAtOnce, cacheVars
  <1>4. ~Reading(r) /\ writer \in {"idle", "set", "setAll"}
    BY ReadersMayRead DEF MayRead
  <1>5. Types'
    BY <1>1, <1>2, <1>3 DEF IInv, Types, dbVars, writerVars
  <1>6. PromisesOK'
    BY <1>2, <1>3, <1>4 DEF IInv, Types, PromisesOK, Reading, dbVars
  <1>7. EmptinessOK'
    BY <1>1, <1>2, <1>3, <1>4 DEF IInv, Types, EmptinessOK, dbVars, writerVars
  <1>8. CacheChange
    BY <1>3 DEF CacheChange
  <1>. QED
    BY <1>3, <1>4, <1>5, <1>6, <1>7, <1>8, ReadStep

\* A read that starts.
LEMMA Started ==
  ASSUME IInv, CallersTakeCare, NEW r \in Readers, NEW op \in ReadOps, NEW k \in Keys,
         NEW at \in Stages \cup Readers, NEW found \in Contents,
         MayRead(r, op, k), Start(r, op, k, at, found),
         UNCHANGED isNamespaceEmpty,
         \/ UNCHANGED cacheVars
         \/ /\ cache[k] = NotCached /\ at = "tmp" /\ cache' = [cache EXCEPT ![k] = r]
            /\ overtaken' = [overtaken EXCEPT ![k] = Outdated(k)],
         op = "isEmpty" /\ at = "iterating" =>
            writer = "idle" /\ delKeys = {} /\ (KeysOf(found) = {} => tmp = Nothing)
  PROVE  IInv'
  <1>. DEFINE read == [op |-> op, key |-> k, at |-> at, found |-> found, current |-> TRUE]
  <1>1. read \in Reads /\ read.at = at /\ read.key = k /\ read.op = op /\ read.found = found
    BY DEF Reads
  <1>2. reader' = [reader EXCEPT ![r] = read]
    BY DEF Start
  <1>. HIDE DEF read
  <1>3. UNCHANGED <<dbVars, delKeys, wasClearCalled, writerVars, isNamespaceEmpty>>
    BY DEF Start
  <1>4. ~Reading(r) /\ writer \in {"idle", "set", "setAll"}
    BY ReadersMayRead DEF MayRead
  <1>5. Types'
    <2>1. Outdated(k) \in SUBSET Maybe
      BY OverIsContents, NothingIsContents DEF Outdated, Stored, IInv, Types, Contents
    <2>. QED
      BY <1>1, <1>2, <1>3, <2>1 DEF IInv, Types, dbVars, writerVars, cacheVars
  <1>6. PromisesOK'
    <2>1. \A j \in Keys : cache[j] # r
      BY <1>4 DEF IInv, PromisesOK, Reading
    <2>2. ASSUME NEW j \in Keys, cache'[j] \in Readers
          PROVE  /\ reader'[cache'[j]].at \in {"tmp", "persistent"}
                 /\ reader'[cache'[j]].key = j
                 /\ reader'[cache'[j]].at = "persistent" =>
                       ~wasClearCalled /\ (tmp[j] = None \/ persistent[j] \in overtaken'[j])
      <3>1. CASE cache'[j] = cache[j] /\ overtaken'[j] = overtaken[j]
        BY <1>2, <2>1, <2>2, <3>1 DEF IInv, Types, PromisesOK
      <3>2. CASE cache'[j] = r /\ at = "tmp" /\ j = k
        BY <1>1, <1>2, <3>2 DEF IInv, Types
      <3>. QED
        BY <3>1, <3>2 DEF IInv, Types, cacheVars
    <2>. QED
      BY <1>3, <2>2 DEF PromisesOK, dbVars
  <1>7. EmptinessOK'
    BY <1>1, <1>2, <1>3, <1>4 DEF IInv, Types, EmptinessOK, dbVars, writerVars, KeysOf
  <1>8. CacheChange
    BY DEF CacheChange, IInv, Types, cacheVars
  <1>. QED
    BY <1>3, <1>4, <1>5, <1>6, <1>7, <1>8, ReadStep

\* The values that a read finds.
LEMMA Settles ==
  ASSUME IInv, CallersTakeCare, NEW r \in Readers, NEW v \in Maybe, Settle(r, v),
         reader[r].at \in {"tmp", "persistent"},
         \A k \in Keys \ delKeys : cache[k] = r => v = Data[k] \/ v \in overtaken[k]
  PROVE  IInv'
  <1>1. UNCHANGED <<dbVars, overtaken, delKeys, wasClearCalled, writerVars>>
    BY DEF Settle
  <1>2. writer \in {"idle", "set", "setAll"}
    BY ReadersMayRead DEF Reading
  <1>. DEFINE done(q) == Done(AnswerTo(reader[q].op, v) \subseteq allowed[q])
  <1>3. \A q \in Readers : done(q) \in Reads /\ done(q).at = "done"
    BY DoneIsARead
  <1>4. reader' = [q \in Readers |-> IF q \in Awaiting(r) THEN done(q) ELSE reader[q]]
    BY DEF Settle, Finish
  <1>. HIDE DEF done
  <1>5. cache' = [k \in Keys |-> IF cache[k] = r THEN v ELSE cache[k]]
    BY DEF Settle
  <1>6. isNamespaceEmpty' \in {"no", isNamespaceEmpty}
    BY DEF Settle, EmptinessAfterFinding
  <1>7. Types'
    BY <1>1, <1>3, <1>4, <1>5, <1>6 DEF IInv, Types, dbVars, writerVars
  <1>8. PromisesOK'
    <2>. SUFFICES ASSUME NEW k \in Keys, cache'[k] \in Readers
                  PROVE  /\ cache[k] \in Readers
                         /\ cache'[k] = cache[k]
                         /\ reader'[cache'[k]] = reader[cache[k]]
      BY <1>1 DEF IInv, PromisesOK, dbVars
    <2>1. cache'[k] = cache[k] /\ cache[k] # r
      BY <1>5, RemoteMapAssumption DEF Maybe
    <2>2. cache[k] \notin Awaiting(r)
      BY <2>1, RemoteMapAssumption DEF IInv, PromisesOK, Awaiting
    <2>. QED
      BY <1>4, <2>1, <2>2
  <1>9. EmptinessOK'
    BY <1>1, <1>3, <1>4, <1>6 DEF IInv, EmptinessOK, dbVars, writerVars, KeysOf
  <1>10. CacheChange
    BY <1>1, <1>5 DEF CacheChange
  <1>. QED
    BY <1>1, <1>2, <1>6, <1>7, <1>8, <1>9, <1>10, ReadStep

\* A get that looks a pending entry up is too early.
LEMMA PromiseIsOvertaken ==
  ASSUME IInv, NEW k \in Keys, cache[k] \in Readers, pending[k] # None
  PROVE  Stored[k] \in overtaken[k]
  BY RemoteMapAssumption DEF IInv, Types, WriterOK, Contents, Maybe

LEMMA ReadTmpIInv ==
  ASSUME IInv, CallersTakeCare, NEW r \in Readers, ReadTmp(r)
  PROVE  IInv'
  <1>. DEFINE k == reader[r].key
  <1>1. k \in Keys /\ reader[r].at = "tmp" /\ tmp[k] \in Maybe
    BY DEF ReadTmp, IInv, Types, Reads, Contents
  <1>2. writer \in {"idle", "set", "setAll"}
    BY <1>1, ReadersMayRead DEF Reading
  <1>. HIDE DEF k
  <1>3. CASE GoesOn(k)
    <2>1. /\ reader' = [reader EXCEPT ![r].at = "persistent"]
          /\ UNCHANGED <<dbVars, memoryVars, writerVars>>
      BY <1>3 DEF ReadTmp, k
    <2>2. UNCHANGED <<cache, overtaken, delKeys, wasClearCalled, isNamespaceEmpty>>
      BY <2>1 DEF memoryVars, cacheVars
    <2>3. reader' = [reader EXCEPT ![r] = [op |-> reader[r].op, key |-> k, at |-> "persistent",
                                           found |-> reader[r].found, current |-> reader[r].current]]
      <3>. DEFINE old == reader[r]
      <3>1. old \in Reads
        BY DEF IInv, Types
      <3>2. reader' = [reader EXCEPT ![r] = [old EXCEPT !.at = "persistent"]]
        BY <2>1
      <3>3. [old EXCEPT !.at = "persistent"] =
              [op |-> old.op, key |-> old.key, at |-> "persistent",
               found |-> old.found, current |-> old.current]
        <4>. HIDE DEF old
        <4>. QED
          BY <3>1 DEF Reads
      <3>. QED
        BY <3>2, <3>3 DEF k
    <2>4. Types'
      BY <1>1, <2>1, <2>2, <2>3 DEF IInv, Types, Reads, Stages, dbVars, writerVars
    <2>5. PromisesOK'
      <3>1. ASSUME NEW j \in Keys, cache[j] \in Readers
            PROVE  /\ reader'[cache[j]].at \in {"tmp", "persistent"}
                   /\ reader'[cache[j]].key = j
                   /\ reader'[cache[j]].at = "persistent" =>
                         ~wasClearCalled /\ (tmp[j] = None \/ persistent[j] \in overtaken[j])
        <4>1. CASE cache[j] = r
          BY <1>1, <1>3, <2>3, <3>1, <4>1 DEF IInv, Types, PromisesOK, GoesOn, k
        <4>2. CASE cache[j] # r
          BY <2>3, <3>1, <4>2 DEF IInv, Types, PromisesOK
        <4>. QED
          BY <4>1, <4>2
      <3>. QED
        BY <2>1, <2>2, <3>1 DEF PromisesOK, dbVars
    <2>6. EmptinessOK'
      BY <2>1, <2>2, <2>3 DEF IInv, Types, EmptinessOK, dbVars, writerVars, KeysOf
    <2>7. CacheChange
      BY <2>2 DEF CacheChange
    <2>. QED
      BY <1>2, <2>1, <2>2, <2>4, <2>5, <2>6, <2>7, ReadStep
  <1>4. CASE ~GoesOn(k)
    <2>1. Settle(r, tmp[k])
      BY <1>4 DEF ReadTmp, k
    <2>2. ASSUME NEW j \in Keys \ delKeys, cache[j] = r
          PROVE  tmp[k] = Data[j] \/ tmp[k] \in overtaken[j]
      <3>1. j = k
        BY <2>2 DEF IInv, PromisesOK, k
      <3>2. tmp[k] = Stored[k]
        BY <1>1, <1>4, StoredIs DEF GoesOn, IInv, Types
      <3>3. CASE pending[j] = None
        BY <1>2, <3>1, <3>2, <3>3, DataWhileReading
      <3>4. CASE pending[j] # None
        BY <2>2, <3>1, <3>2, <3>4, PromiseIsOvertaken
      <3>. QED
        BY <3>3, <3>4
    <2>. QED
      BY <1>1, <2>1, <2>2, Settles
  <1>. QED
    BY <1>3, <1>4

LEMMA ReadPersistentIInv ==
  ASSUME IInv, CallersTakeCare, NEW r \in Readers, ReadPersistent(r)
  PROVE  IInv'
  <1>. DEFINE k == reader[r].key
  <1>1. k \in Keys /\ reader[r].at = "persistent" /\ persistent[k] \in Maybe
    BY DEF ReadPersistent, IInv, Types, Reads, Contents
  <1>2. writer \in {"idle", "set", "setAll"}
    BY <1>1, ReadersMayRead DEF Reading
  <1>3. Settle(r, persistent[k])
    BY DEF ReadPersistent
  <1>. HIDE DEF k
  <1>4. ASSUME NEW j \in Keys \ delKeys, cache[j] = r
        PROVE  persistent[k] = Data[j] \/ persistent[k] \in overtaken[j]
    <2>1. j = k /\ ~wasClearCalled /\ (tmp[j] = None \/ persistent[j] \in overtaken[j])
      BY <1>1, <1>4 DEF IInv, PromisesOK, k
    <2>2. CASE tmp[j] = None /\ pending[j] = None
      BY <1>2, <1>4, <2>1, <2>2, DataWhileReading, StoredIs
    <2>3. CASE tmp[j] = None /\ pending[j] # None
      BY <1>4, <2>1, <2>3, PromiseIsOvertaken, StoredIs
    <2>. QED
      BY <2>1, <2>2, <2>3
  <1>. QED
    BY <1>1, <1>3, <1>4, Settles

\* isEmpty and entries iterate over the databases.
LEMMA IterationStartsIInv ==
  ASSUME IInv, CallersTakeCare, NEW r \in Readers, IsEmptyStarts(r) \/ EntriesStart(r)
  PROVE  IInv'
  <1>1. AnyKey \in Keys
    BY RemoteMapAssumption DEF AnyKey, Done
  <1>2. CASE IsEmptyStarts(r)
    <2>. DEFINE found == [k \in Keys |-> IF k \in FirstKeys THEN Over(tmp, persistent)[k] ELSE None]
    <2>1. found \in Contents
      BY OverIsContents DEF IInv, Types, Contents, Maybe
    <2>2. /\ MayRead(r, "isEmpty", AnyKey) /\ Start(r, "isEmpty", AnyKey, "iterating", found)
          /\ UNCHANGED <<cacheVars, isNamespaceEmpty>>
      BY <1>2 DEF IsEmptyStarts
    <2>3. writer = "idle" /\ delKeys = {}
      BY <2>2 DEF MayRead, CallersTakeCare
    <2>4. ASSUME tmp # Nothing PROVE KeysOf(found) # {}
      <3>1. PICK k \in First(tmp) : TRUE
        BY <2>4, FirstExists DEF IInv, Types
      <3>2. k \in Keys /\ tmp[k] # None /\ k \in FirstKeys
        BY <3>1 DEF First, KeysOf, FirstKeys
      <3>3. found[k] = tmp[k]
        BY <3>2 DEF Over
      <3>. QED
        BY <3>2, <3>3 DEF KeysOf
    <2>. HIDE DEF found
    <2>. QED
      BY <1>1, <2>1, <2>2, <2>3, <2>4, Started DEF ReadOps, Stages
  <1>3. CASE EntriesStart(r)
    <2>1. Iterated \in Contents
      BY OverIsContents, NothingIsContents DEF IInv, Types, Iterated
    <2>. QED
      BY <1>1, <1>3, <2>1, Started DEF EntriesStart, ReadOps, Stages
  <1>. QED
    BY <1>2, <1>3

LEMMA IterationEnds ==
  ASSUME IInv, CallersTakeCare, NEW r \in Readers, NEW b \in BOOLEAN,
         reader[r].at = "iterating",
         reader' = [q \in Readers |-> IF q = r THEN Done(b) ELSE reader[q]],
         UNCHANGED <<dbVars, cacheVars, delKeys, wasClearCalled, writerVars>>,
         isNamespaceEmpty' \in {"yes", "no", isNamespaceEmpty},
         isNamespaceEmpty' = "yes" => tmp = Nothing \/ writer = "setAll",
         isNamespaceEmpty' \in {"no", isNamespaceEmpty} \/ writer = "idle"
  PROVE  IInv'
  <1>. USE DEF cacheVars
  <1>1. Done(b) \in Reads /\ Done(b).at = "done"
    BY DoneIsARead
  <1>2. Types'
    BY <1>1 DEF IInv, Types, dbVars, writerVars
  <1>3. PromisesOK'
    BY <1>1 DEF IInv, PromisesOK, dbVars
  <1>4. EmptinessOK'
    BY <1>1 DEF IInv, EmptinessOK, dbVars, writerVars, KeysOf
  <1>5. CacheChange
    BY DEF CacheChange
  <1>6. writer \in {"idle", "set", "setAll"}
    BY ReadersMayRead DEF Reading
  <1>. QED
    BY <1>2, <1>3, <1>4, <1>5, <1>6, ReadStep

LEMMA IterationEndsIInv ==
  ASSUME IInv, CallersTakeCare, NEW r \in Readers, IsEmptyEnds(r) \/ EntriesEnd(r)
  PROVE  IInv'
  <1>1. CASE IsEmptyEnds(r)
    <2>. DEFINE isEmpty == KeysOf(reader[r].found) \ delKeys = {}
                b == {isEmpty} \subseteq allowed[r]
    <2>1. /\ reader[r].at = "iterating" /\ reader[r].op = "isEmpty"
          /\ isNamespaceEmpty' = IF isEmpty THEN "yes" ELSE "no"
          /\ UNCHANGED <<dbVars, cacheVars, delKeys, wasClearCalled, writerVars>>
          /\ reader' = [q \in Readers |-> IF q = r THEN Done(b) ELSE reader[q]]
      BY <1>1 DEF IsEmptyEnds, Finish
    <2>2. writer = "idle" /\ (isEmpty => tmp = Nothing)
      BY <2>1 DEF IInv, EmptinessOK
    <2>3. b \in BOOLEAN
      OBVIOUS
    <2>. HIDE DEF isEmpty, b
    <2>4. isNamespaceEmpty' \in {"yes", "no"} /\ (isNamespaceEmpty' = "yes" => tmp = Nothing)
      BY <2>1, <2>2
    <2>. QED
      BY <2>1, <2>2, <2>3, <2>4, IterationEnds
  <1>2. CASE EntriesEnd(r)
    <2>1. PICK b \in BOOLEAN : reader' = [q \in Readers |-> IF q = r THEN Done(b) ELSE reader[q]]
      <3>. DEFINE yielded == KeysOf(reader[r].found) \ delKeys
                  value(k) == IF cache[k] \in Values THEN cache[k] ELSE reader[r].found[k]
                  answer == {<<k, IF k \in yielded THEN value(k) ELSE None>> : k \in Keys}
                  b == answer \subseteq allowed[r]
      <3>1. reader' = [q \in Readers |-> IF q = r THEN Done(b) ELSE reader[q]]
        BY <1>2 DEF EntriesEnd, Finish
      <3>2. b \in BOOLEAN
        OBVIOUS
      <3>. HIDE DEF b
      <3>. QED
        BY <3>1, <3>2
    <2>2. /\ reader[r].at = "iterating"
          /\ UNCHANGED <<dbVars, cacheVars, delKeys, wasClearCalled, writerVars, isNamespaceEmpty>>
      BY <1>2 DEF EntriesEnd, memoryVars
    <2>3. isNamespaceEmpty' = "yes" => tmp = Nothing \/ writer = "setAll"
      BY <2>2 DEF IInv, EmptinessOK
    <2>. QED
      BY <2>1, <2>2, <2>3, IterationEnds
  <1>. QED
    BY <1>1, <1>2

LEMMA ReadIInv ==
  ASSUME IInv, CallersTakeCare, NEW r \in Readers, Read(r)
  PROVE  IInv'
  <1>1. ASSUME NEW k \in Keys, GetDeleted(r, k) PROVE IInv'
    BY <1>1, AnsweredAtOnce DEF GetDeleted, ReadOps
  <1>2. ASSUME NEW k \in Keys, NEW op \in {"get", "has"}, ReadCached(r, op, k) PROVE IInv'
    <2>1. op \in ReadOps
      BY DEF ReadOps
    <2>. QED
      BY <1>2, <2>1, AnsweredAtOnce DEF ReadCached, Lookup, EmptinessAfterFinding
  <1>3. ASSUME NEW k \in Keys, NEW op \in {"get", "has"}, JoinRead(r, op, k) PROVE IInv'
    <2>1. op \in ReadOps /\ Nothing \in Contents
      BY NothingIsContents DEF ReadOps
    <2>. QED
      BY <1>3, <2>1, Started DEF JoinRead, Lookup
  <1>4. ASSUME NEW k \in Keys, NEW op \in {"get", "has"}, ReadUncached(r, op, k) PROVE IInv'
    <2>1. op \in ReadOps /\ Nothing \in Contents /\ "tmp" \in Stages
      BY NothingIsContents DEF ReadOps, Stages
    <2>2. \/ UNCHANGED cacheVars
          \/ /\ cache[k] = NotCached /\ cache' = [cache EXCEPT ![k] = r]
             /\ overtaken' = [overtaken EXCEPT ![k] = Outdated(k)]
      BY <1>4 DEF ReadUncached, IInv, Types, cacheVars
    <2>. QED
      BY <1>4, <2>1, <2>2, Started DEF ReadUncached, Lookup
  <1>5. ASSUME IsEmptyKnown(r) PROVE IInv'
    <2>1. AnyKey \in Keys
      BY RemoteMapAssumption DEF AnyKey, Done
    <2>. QED
      BY <1>5, <2>1, AnsweredAtOnce DEF IsEmptyKnown, ReadOps
  <1>. QED
    BY <1>1, <1>2, <1>3, <1>4, <1>5, ReadTmpIInv, ReadPersistentIInv,
       IterationStartsIInv, IterationEndsIInv DEF Read

----------------------------------------------------------------------------
(* The writer.  Readers stay as they are. *)

LEMMA NoReadIsOpen ==
  ASSUME IInv, CallersTakeCare
  PROVE  /\ MayStart("clear") => \A r \in Readers : reader[r].at = "done"
         /\ MayStart("flush") => \A r \in Readers : reader[r].at = "done"
         /\ \A op : MayStart(op) =>
               \A r \in Readers : ~(reader[r].at = "iterating" /\ reader[r].op = "isEmpty")
  BY DEF CallersTakeCare, MayStart, Reading

LEMMA IdleHasNothingPending ==
  ASSUME IInv
  PROVE  writer \notin {"set", "setAll"} => \A k \in Keys : pending[k] = None
  BY DEF IInv, WriterOK

\* The effect of an entry that set or setAll takes.
LEMMA EntryTaken ==
  ASSUME IInv, CallersTakeCare, NEW k \in Keys, NEW v \in Values, TakeEntry(k, v),
         writer \in {"idle", "set", "setAll"}, writer' \in {"set", "setAll"},
         writer # "setAll" => MayStart(writer'),
         writer = "setAll" => writer' = "setAll",
         isNamespaceEmpty' = IF writer' = "set" THEN "no" ELSE isNamespaceEmpty
  PROVE  IInv' /\ Data' = [Data EXCEPT ![k] = v]
  <1>1. /\ delKeys' = delKeys \ {k}
        /\ cache' = [cache EXCEPT ![k] = v] /\ overtaken' = [overtaken EXCEPT ![k] = {}]
        /\ pending' = [pending EXCEPT ![k] = v]
        /\ UNCHANGED <<tmp, persistent, wasClearCalled, savedBefore, reader>>
    BY DEF TakeEntry, dbVars
  <1>2. v \in Maybe /\ v # None /\ v \notin Readers
    BY RemoteMapAssumption DEF Maybe
  <1>3. Types'
    BY <1>1, <1>2 DEF IInv, Types, WriterStages, Contents
  <1>4. Stored' = Stored
    BY <1>1, StoredIs
  <1>5. \A j \in Keys : /\ cache'[j] = IF j = k THEN v ELSE cache[j]
                        /\ pending'[j] = IF j = k THEN v ELSE pending[j]
                        /\ overtaken'[j] = IF j = k THEN {} ELSE overtaken[j]
    BY <1>1 DEF IInv, Types, Contents
  <1>6. PromisesOK'
    BY <1>1, <1>2, <1>5 DEF IInv, PromisesOK
  <1>7. WriterOK'
    BY <1>1, <1>4, <1>5 DEF IInv, WriterOK
  <1>8. ExclusionOK' /\ ClearOK' /\ FlushOK'
    BY DEF ExclusionOK, ClearOK, FlushOK, Operation, FlushStages
  <1>9. EmptinessOK'
    <2>1. \A r \in Readers : ~(reader[r].at = "iterating" /\ reader[r].op = "isEmpty")
      BY NoReadIsOpen DEF IInv, EmptinessOK
    <2>. QED
      BY <1>1, <2>1 DEF EmptinessOK
  <1>10. ASSUME NEW j \in Keys PROVE Data'[j] = IF j = k THEN v ELSE Data[j]
    <2>1. /\ Operation(writer) # "clear" /\ Operation(writer') # "clear"
          /\ writer \in WriterStages \ {"flush tmp cleared", "flush deleted"}
          /\ writer' \in WriterStages \ {"flush tmp cleared", "flush deleted"}
      BY DEF Operation, FlushStages, WriterStages
    <2>2. Data[j] = IF j \in delKeys THEN None
                    ELSE IF pending[j] # None THEN pending[j]
                    ELSE IF tmp[j] # None THEN tmp[j]
                    ELSE IF wasClearCalled THEN None ELSE persistent[j]
      BY <2>1 DEF Data
    <2>3. Data'[j] = IF j \in delKeys' THEN None
                     ELSE IF pending'[j] # None THEN pending'[j]
                     ELSE IF tmp[j] # None THEN tmp[j]
                     ELSE IF wasClearCalled THEN None ELSE persistent[j]
      <3>1. UNCHANGED <<tmp, persistent, wasClearCalled>>
        BY <1>1
      <3>2. Data'[j] = IF j \in delKeys' THEN None
                       ELSE IF pending'[j] # None THEN pending'[j]
                       ELSE IF tmp'[j] # None THEN tmp'[j]
                       ELSE IF wasClearCalled' THEN None ELSE persistent'[j]
        BY <2>1 DEF Data
      <3>. QED
        BY <3>1, <3>2
    <2>4. CASE j = k
      BY <1>1, <1>2, <1>5, <2>3, <2>4
    <2>5. CASE j # k
      <3>1. (j \in delKeys' <=> j \in delKeys) /\ pending'[j] = pending[j]
        BY <1>1, <1>5, <2>5
      <3>. QED
        BY <2>2, <2>3, <2>5, <3>1
    <2>. QED
      BY <2>4, <2>5
  <1>11. CacheIsCoherent' /\ OvertakenOK'
    BY <1>1, <1>2, <1>5, <1>10 DEF IInv, CacheIsCoherent, OvertakenOK, Operation, FlushStages
  <1>12. Data' = [Data EXCEPT ![k] = v]
    BY <1>10 DEF Data
  <1>. QED
    BY <1>3, <1>6, <1>7, <1>8, <1>9, <1>11, <1>12 DEF IInv

LEMMA SetEffect ==
  ASSUME IInv, CallersTakeCare, NEW k \in Keys, NEW v \in Values, Set(k, v)
  PROVE  IInv' /\ Data' = [Data EXCEPT ![k] = v]
  BY EntryTaken DEF Set, MayStart

LEMMA SetAllEntryEffect ==
  ASSUME IInv, CallersTakeCare, NEW k \in Keys, NEW v \in Values, SetAllEntry(k, v)
  PROVE  IInv' /\ Data' = [Data EXCEPT ![k] = v]
  BY EntryTaken DEF SetAllEntry, MayStart

LEMMA EntriesWrittenEffect ==
  ASSUME IInv, EntriesWritten
  PROVE  IInv' /\ Data' = Data
  <1>1. /\ pending # Nothing
        /\ writer' = IF writer = "set" THEN "idle" ELSE writer
        /\ tmp' = Over(pending, tmp) /\ pending' = Nothing
        /\ UNCHANGED <<persistent, cache, overtaken, delKeys, wasClearCalled, isNamespaceEmpty,
                       savedBefore, reader>>
    BY DEF EntriesWritten, readerVars, memoryVars, cacheVars
  <1>2. tmp' \in Contents /\ \A k \in Keys : tmp'[k] = IF pending[k] = None THEN tmp[k] ELSE pending[k]
    BY <1>1, OverIsContents DEF IInv, Types, Over
  <1>3. writer \in {"set", "setAll"} /\ writer' \in {"idle", "setAll"}
    <2>1. \E k \in Keys : pending[k] # None
      BY <1>1, EqualContents, NothingIsContents DEF IInv, Types
    <2>. QED
      BY <1>1, <2>1 DEF IInv, WriterOK
  <1>4. Types'
    BY <1>1, <1>2, <1>3, NothingIsContents DEF IInv, Types, WriterStages
  <1>5. PromisesOK'
    <2>1. ASSUME NEW k \in Keys, cache[k] \in Readers, pending[k] # None,
                 tmp[k] = None, ~wasClearCalled
          PROVE  persistent[k] \in overtaken[k]
      BY <2>1, PromiseIsOvertaken, StoredIs
    <2>. QED
      BY <1>1, <1>2, <2>1 DEF IInv, PromisesOK
  <1>6. WriterOK' /\ ExclusionOK' /\ ClearOK' /\ FlushOK'
    BY <1>1, <1>3, NothingIsContents DEF WriterOK, ExclusionOK, ClearOK, FlushOK, Operation, FlushStages
  <1>7. EmptinessOK'
    BY <1>1, <1>3 DEF IInv, WriterOK, EmptinessOK
  <1>8. Data' = Data
    <2>1. \A k \in Keys : pending[k] # None => k \notin delKeys
      BY DEF IInv, WriterOK
    <2>. QED
      BY <1>1, <1>2, <1>3, <2>1, NothingIsContents DEF Data, Operation, FlushStages, WriterStages
  <1>9. CacheIsCoherent' /\ OvertakenOK'
    BY <1>1, <1>3, <1>8 DEF IInv, CacheIsCoherent, OvertakenOK, Operation, FlushStages
  <1>. QED
    BY <1>4, <1>5, <1>6, <1>7, <1>8, <1>9 DEF IInv

LEMMA SetAllEndsEffect ==
  ASSUME IInv, SetAllEnds
  PROVE  IInv' /\ Data' = Data
  <1>1. /\ writer = "setAll" /\ writer' = "idle" /\ isNamespaceEmpty' = "unknown"
        /\ \A k \in Keys : pending[k] = None
        /\ UNCHANGED <<tmp, persistent, cache, overtaken, delKeys, wasClearCalled,
                       pending, savedBefore, reader>>
    BY NothingIsContents DEF SetAllEnds, dbVars, cacheVars, readerVars
  <1>2. Types' /\ PromisesOK'
    BY <1>1 DEF IInv, Types, PromisesOK, WriterStages
  <1>3. WriterOK' /\ ExclusionOK' /\ ClearOK' /\ FlushOK'
    BY <1>1 DEF WriterOK, ExclusionOK, ClearOK, FlushOK, Operation, FlushStages
  <1>4. EmptinessOK'
    BY <1>1 DEF IInv, EmptinessOK
  <1>5. Data' = Data
    BY <1>1 DEF Data, Operation, FlushStages, WriterStages
  <1>6. CacheIsCoherent' /\ OvertakenOK'
    BY <1>1, <1>5 DEF IInv, CacheIsCoherent, OvertakenOK, Operation, FlushStages
  <1>. QED
    BY <1>2, <1>3, <1>4, <1>5, <1>6 DEF IInv

LEMMA DeleteEffect ==
  ASSUME IInv, CallersTakeCare, NEW k \in Keys, Delete(k)
  PROVE  IInv' /\ Data' = [Data EXCEPT ![k] = None]
  <1>1. /\ writer = "idle" /\ delKeys' = delKeys \cup {k} /\ isNamespaceEmpty' = "unknown"
        /\ UNCHANGED <<tmp, persistent, cache, overtaken, wasClearCalled, writer, pending, savedBefore, reader>>
    BY DEF Delete, MayStart, dbVars, cacheVars, writerVars
  <1>2. \A j \in Keys : pending[j] = None
    BY <1>1, IdleHasNothingPending
  <1>3. Types' /\ PromisesOK'
    BY <1>1 DEF IInv, Types, PromisesOK
  <1>4. WriterOK' /\ ExclusionOK' /\ ClearOK' /\ FlushOK'
    BY <1>1, <1>2 DEF WriterOK, ExclusionOK, ClearOK, FlushOK, Operation, FlushStages
  <1>5. EmptinessOK'
    BY <1>1, NoReadIsOpen DEF EmptinessOK, Delete
  <1>6. \A j \in Keys : Data'[j] = IF j = k THEN None ELSE Data[j]
    BY <1>1 DEF Data
  <1>7. Data' = [Data EXCEPT ![k] = None]
    BY <1>6 DEF Data
  <1>8. CacheIsCoherent' /\ OvertakenOK'
    BY <1>1, <1>6 DEF IInv, CacheIsCoherent, OvertakenOK
  <1>. QED
    BY <1>3, <1>4, <1>5, <1>7, <1>8 DEF IInv

LEMMA ClearEffect ==
  ASSUME IInv, CallersTakeCare, Clear
  PROVE  IInv' /\ Data' = Nothing
  <1>1. /\ writer = "idle" /\ writer' = "clear"
        /\ cache' = [k \in Keys |-> NotCached] /\ overtaken' = [k \in Keys |-> {}]
        /\ UNCHANGED <<tmp, persistent, delKeys, wasClearCalled, isNamespaceEmpty,
                       pending, savedBefore, reader>>
    BY DEF Clear, MayStart, dbVars
  <1>2. Operation(writer') = "clear"
    BY <1>1 DEF Operation, FlushStages
  <1>3. Types'
    BY <1>1 DEF IInv, Types, WriterStages
  <1>4. PromisesOK' /\ WriterOK' /\ ClearOK'
    BY <1>1, IdleHasNothingPending, RemoteMapAssumption DEF PromisesOK, WriterOK, ClearOK
  <1>5. ExclusionOK' /\ EmptinessOK'
    <2>1. \A r \in Readers : reader'[r].at = "done"
      BY <1>1, NoReadIsOpen DEF Clear
    <2>. QED
      BY <1>1, <2>1 DEF IInv, ExclusionOK, EmptinessOK
  <1>6. FlushOK' /\ CacheIsCoherent' /\ OvertakenOK'
    BY <1>1, <1>2 DEF FlushOK, CacheIsCoherent, OvertakenOK
  <1>7. Data' = Nothing
    BY <1>2 DEF Data, Nothing
  <1>. QED
    BY <1>3, <1>4, <1>5, <1>6, <1>7 DEF IInv

LEMMA ClearTmpEffect ==
  ASSUME IInv, ClearTmp
  PROVE  IInv' /\ Data' = Data
  <1>1. /\ writer = "clear" /\ writer' = "clear tmp" /\ tmp' = Nothing
        /\ UNCHANGED <<persistent, cache, overtaken, delKeys, wasClearCalled, isNamespaceEmpty,
                       pending, savedBefore, reader>>
    BY DEF ClearTmp, memoryVars, cacheVars, readerVars
  <1>2. Operation(writer) = "clear" /\ Operation(writer') = "clear"
    BY <1>1 DEF Operation, FlushStages
  <1>3. Types'
    BY <1>1, NothingIsContents DEF IInv, Types, WriterStages
  <1>4. PromisesOK' /\ ClearOK'
    <2>1. \A k \in Keys : cache[k] = NotCached /\ overtaken[k] = {}
      BY <1>2 DEF IInv, ClearOK
    <2>. QED
      BY <1>1, <2>1, RemoteMapAssumption DEF PromisesOK, ClearOK
  <1>5. WriterOK'
    BY <1>1, IdleHasNothingPending DEF WriterOK
  <1>6. ExclusionOK' /\ EmptinessOK'
    BY <1>1, <1>2 DEF IInv, ExclusionOK, EmptinessOK
  <1>7. FlushOK' /\ CacheIsCoherent' /\ OvertakenOK'
    BY <1>1, <1>2 DEF IInv, ClearOK, FlushOK, CacheIsCoherent, OvertakenOK
  <1>8. Data' = Data
    BY <1>2 DEF Data
  <1>. QED
    BY <1>3, <1>4, <1>5, <1>6, <1>7, <1>8 DEF IInv

LEMMA ClearEndsEffect ==
  ASSUME IInv, ClearEnds
  PROVE  IInv' /\ Data' = Data
  <1>1. /\ writer = "clear tmp" /\ writer' = "idle"
        /\ wasClearCalled' = TRUE /\ isNamespaceEmpty' = "yes"
        /\ UNCHANGED <<tmp, persistent, cache, overtaken, delKeys, pending, savedBefore, reader>>
    BY DEF ClearEnds, dbVars, cacheVars, readerVars
  <1>2. /\ Operation(writer) = "clear" /\ Operation(writer') = "idle"
        /\ writer' \in WriterStages \ {"flush tmp cleared", "flush deleted"}
    BY <1>1 DEF Operation, FlushStages, WriterStages
  <1>3. /\ \A k \in Keys : cache[k] = NotCached /\ overtaken[k] = {} /\ pending[k] = None
        /\ tmp = Nothing
        /\ \A r \in Readers : reader[r].at = "done"
    BY <1>1, <1>2, IdleHasNothingPending DEF IInv, ClearOK, ExclusionOK
  <1>4. Types'
    BY <1>1 DEF IInv, Types, WriterStages
  <1>5. PromisesOK' /\ WriterOK' /\ ExclusionOK' /\ EmptinessOK'
    BY <1>1, <1>3, RemoteMapAssumption DEF PromisesOK, WriterOK, ExclusionOK, EmptinessOK
  <1>6. ClearOK' /\ FlushOK' /\ CacheIsCoherent' /\ OvertakenOK'
    BY <1>1, <1>2, <1>3, RemoteMapAssumption
    DEF ClearOK, FlushOK, CacheIsCoherent, OvertakenOK, Maybe
  <1>7. Data' = Data
    BY <1>1, <1>2, <1>3, NothingIsContents DEF Data
  <1>. QED
    BY <1>4, <1>5, <1>6, <1>7 DEF IInv

\* A step within a flush.
LEMMA FlushStep ==
  ASSUME IInv, writer' \in FlushStages \cup {"idle"}, writer \notin {"set", "setAll"},
         \A r \in Readers : reader[r].at = "done",
         UNCHANGED <<cache, overtaken, delKeys, pending, reader>>,
         Types', FlushOK', Data' = Data, writer # "clear" /\ writer # "clear tmp",
         isNamespaceEmpty' \in {"unknown", isNamespaceEmpty},
         isNamespaceEmpty' = "yes" => tmp' = Nothing
  PROVE  IInv'
  <1>1. \A k \in Keys : pending[k] = None /\ cache[k] \notin Readers
    BY IdleHasNothingPending DEF IInv, PromisesOK
  <1>2. PromisesOK' /\ WriterOK' /\ ExclusionOK' /\ EmptinessOK'
    BY <1>1 DEF PromisesOK, WriterOK, ExclusionOK, EmptinessOK, FlushStages
  <1>3. ClearOK' /\ CacheIsCoherent' /\ OvertakenOK'
    BY DEF IInv, ClearOK, CacheIsCoherent, OvertakenOK, Operation, FlushStages
  <1>. QED
    BY <1>2, <1>3 DEF IInv

\* What the map contains before and after a step of a flush.
FlushData(t, p, cleared) ==
    [k \in Keys |-> IF k \in delKeys THEN None
                    ELSE IF t[k] # None THEN t[k]
                    ELSE IF cleared THEN None ELSE p[k]]

LEMMA DataInFlush ==
  ASSUME IInv, writer \in FlushStages \cup {"idle"}, writer' \in FlushStages \cup {"idle"},
         UNCHANGED <<delKeys, pending>>
  PROVE  /\ Data = FlushData(tmp, persistent,
                     wasClearCalled /\ writer \in {"idle", "flush", "flush written"})
         /\ Data' = FlushData(tmp', persistent',
                      wasClearCalled' /\ writer' \in {"idle", "flush", "flush written"})
  <1>1. /\ Operation(writer) # "clear"
        /\ writer \in WriterStages \ {"flush tmp cleared", "flush deleted"}
             <=> writer \in {"idle", "flush", "flush written"}
    BY DEF Operation, FlushStages, WriterStages
  <1>2. /\ Operation(writer') # "clear"
        /\ writer' \in WriterStages \ {"flush tmp cleared", "flush deleted"}
             <=> writer' \in {"idle", "flush", "flush written"}
    BY DEF Operation, FlushStages, WriterStages
  <1>3. \A k \in Keys : pending[k] = None
    BY IdleHasNothingPending DEF FlushStages
  <1>. QED
    BY <1>1, <1>2, <1>3 DEF Data, FlushData

LEMMA FlushReaders ==
  ASSUME IInv, writer \in FlushStages
  PROVE  \A r \in Readers : reader[r].at = "done"
  BY DEF IInv, ExclusionOK, Operation

LEMMA FlushEffect ==
  ASSUME IInv, CallersTakeCare, Flush
  PROVE  IInv' /\ Data' = Data
  <1>1. /\ writer = "idle" /\ writer' = "flush" /\ savedBefore' = persistent
        /\ persistent' = IF wasClearCalled THEN Nothing ELSE persistent
        /\ UNCHANGED <<tmp, cache, overtaken, delKeys, wasClearCalled, isNamespaceEmpty, pending, reader>>
    BY DEF Flush, MayStart, memoryVars, cacheVars, readerVars
  <1>2. Types'
    BY <1>1, NothingIsContents DEF IInv, Types, WriterStages, FlushStages
  <1>3. FlushOK'
    BY <1>1 DEF FlushOK
  <1>4. Data' = Data
    BY <1>1, DataInFlush, NothingIsContents DEF FlushStages, FlushData
  <1>5. \A r \in Readers : reader[r].at = "done"
    BY NoReadIsOpen DEF Flush
  <1>6. isNamespaceEmpty' = "yes" => tmp' = Nothing
    BY <1>1 DEF IInv, EmptinessOK
  <1>. QED
    BY <1>1, <1>2, <1>3, <1>4, <1>5, <1>6, FlushStep DEF FlushStages

LEMMA FlushWritesEffect ==
  ASSUME IInv, FlushWrites
  PROVE  IInv' /\ Data' = Data
  <1>1. /\ writer = "flush" /\ writer' = "flush written"
        /\ persistent' = Over(TmpIterated, persistent)
        /\ isNamespaceEmpty' = EmptinessAfterBatch(KeysOf(TmpIterated))
        /\ UNCHANGED <<tmp, cache, overtaken, delKeys, wasClearCalled, pending, savedBefore, reader>>
    BY DEF FlushWrites, cacheVars, readerVars
  <1>2. TmpIterated = tmp
    BY <1>1 DEF IInv, EmptinessOK, TmpIterated
  <1>3. /\ persistent' \in Contents
        /\ \A k \in Keys : persistent'[k] = IF tmp[k] = None THEN persistent[k] ELSE tmp[k]
    BY <1>1, <1>2, OverIsContents DEF IInv, Types, Over
  <1>4. isNamespaceEmpty' \in {"unknown", isNamespaceEmpty}
    BY <1>1 DEF EmptinessAfterBatch
  <1>5. Types'
    BY <1>1, <1>3, <1>4 DEF IInv, Types, WriterStages, FlushStages
  <1>6. FlushOK'
    BY <1>1, <1>3, NothingIsContents DEF IInv, FlushOK
  <1>7. Data' = Data
    BY <1>1, <1>3, DataInFlush DEF FlushStages, FlushData
  <1>8. isNamespaceEmpty' = "yes" => tmp' = Nothing
    BY <1>1, <1>4 DEF IInv, EmptinessOK
  <1>. QED
    BY <1>1, <1>4, <1>5, <1>6, <1>7, <1>8, FlushStep, FlushReaders DEF FlushStages

LEMMA FlushClearsTmpEffect ==
  ASSUME IInv, FlushClearsTmp
  PROVE  IInv' /\ Data' = Data
  <1>1. /\ writer = "flush written" /\ writer' = "flush tmp cleared" /\ tmp' = Nothing
        /\ UNCHANGED <<persistent, cache, overtaken, delKeys, wasClearCalled, isNamespaceEmpty,
                       pending, savedBefore, reader>>
    BY DEF FlushClearsTmp, memoryVars, cacheVars, readerVars
  <1>2. Types'
    BY <1>1, NothingIsContents DEF IInv, Types, WriterStages, FlushStages
  <1>3. FlushOK'
    BY <1>1 DEF FlushOK
  <1>4. Data' = Data
    <2>1. \A k \in Keys : /\ tmp[k] # None => persistent[k] = tmp[k]
                          /\ tmp[k] = None /\ wasClearCalled => persistent[k] = None
      BY <1>1 DEF IInv, FlushOK
    <2>2. writer \in FlushStages /\ writer' \in FlushStages
      BY <1>1 DEF FlushStages
    <2>3. /\ Data = FlushData(tmp, persistent,
                      wasClearCalled /\ writer \in {"idle", "flush", "flush written"})
          /\ Data' = FlushData(tmp', persistent',
                       wasClearCalled' /\ writer' \in {"idle", "flush", "flush written"})
      BY <1>1, <2>2, DataInFlush
    <2>4. \A k \in Keys : FlushData(tmp, persistent, wasClearCalled)[k] = FlushData(Nothing, persistent, FALSE)[k]
      BY <2>1, NothingIsContents DEF FlushData
    <2>5. FlushData(tmp, persistent, wasClearCalled) = FlushData(Nothing, persistent, FALSE)
      BY <2>4 DEF FlushData
    <2>6. Data = FlushData(tmp, persistent, wasClearCalled)
      BY <1>1, <2>3 DEF FlushData
    <2>7. Data' = FlushData(Nothing, persistent, FALSE)
      BY <1>1, <2>3 DEF FlushData
    <2>. QED
      BY <2>5, <2>6, <2>7
  <1>. QED
    BY <1>1, <1>2, <1>3, <1>4, FlushStep, FlushReaders DEF FlushStages

LEMMA FlushDeletesEffect ==
  ASSUME IInv, FlushDeletes
  PROVE  IInv' /\ Data' = Data
  <1>1. /\ writer = "flush tmp cleared" /\ writer' = "flush deleted"
        /\ persistent' = [k \in Keys |-> IF k \in delKeys THEN None ELSE persistent[k]]
        /\ isNamespaceEmpty' \in {"unknown", isNamespaceEmpty}
        /\ UNCHANGED <<tmp, cache, overtaken, delKeys, wasClearCalled, pending, savedBefore, reader>>
    BY DEF FlushDeletes, cacheVars, readerVars, EmptinessAfterBatch
  <1>2. Types'
    BY <1>1 DEF IInv, Types, WriterStages, FlushStages, Contents, Maybe
  <1>3. FlushOK'
    BY <1>1 DEF IInv, Types, FlushOK
  <1>4. Data' = Data
    BY <1>1, DataInFlush DEF FlushStages, FlushData
  <1>5. tmp' = Nothing
    BY <1>1 DEF IInv, FlushOK
  <1>. QED
    BY <1>1, <1>2, <1>3, <1>4, <1>5, FlushStep, FlushReaders DEF FlushStages

\* When a flush ends, what is saved is what the map contains.
LEMMA FlushEndsEffect ==
  ASSUME IInv, FlushEnds
  PROVE  IInv' /\ Data' = Data /\ persistent' = Data
  <1>1. /\ writer = "flush deleted" /\ writer' = "idle" /\ wasClearCalled' = FALSE
        /\ UNCHANGED <<tmp, persistent, cache, overtaken, delKeys, isNamespaceEmpty,
                       pending, savedBefore, reader>>
    BY DEF FlushEnds, dbVars, cacheVars, readerVars
  <1>2. Types'
    BY <1>1 DEF IInv, Types, WriterStages
  <1>3. FlushOK'
    BY <1>1 DEF FlushOK
  <1>4. Data' = Data
    BY <1>1, DataInFlush DEF FlushStages, FlushData
  <1>5. tmp' = Nothing
    BY <1>1 DEF IInv, FlushOK
  <1>6. persistent' = Data
    <2>1. Data' = FlushData(Nothing, persistent, FALSE)
      BY <1>1, <1>5, DataInFlush DEF FlushStages
    <2>2. \A k \in delKeys : persistent[k] = None
      BY <1>1 DEF IInv, FlushOK
    <2>3. \A k \in Keys : persistent[k] = Data[k]
      BY <1>4, <2>1, <2>2, NothingIsContents DEF FlushData
    <2>. QED
      BY <1>1, <2>3, EqualContents, DataIsContents DEF IInv, Types
  <1>. QED
    BY <1>1, <1>2, <1>3, <1>4, <1>5, <1>6, FlushStep, FlushReaders DEF FlushStages

LEMMA ReopenEffect ==
  ASSUME IInv, Reopen
  PROVE  IInv' /\ Data' = persistent'
  <1>1. /\ tmp' = Nothing /\ cache' = [k \in Keys |-> NotCached]
        /\ overtaken' = [k \in Keys |-> {}]
        /\ delKeys' = {} /\ wasClearCalled' = FALSE /\ isNamespaceEmpty' = "unknown"
        /\ writer' = "idle" /\ pending' = Nothing /\ savedBefore' = persistent
        /\ reader' = [r \in Readers |-> Done(TRUE)]
        /\ persistent' = persistent
    BY DEF Reopen
  <1>2. Done(TRUE) \in Reads /\ Done(TRUE).at = "done"
    BY DoneIsARead
  <1>3. Types'
    BY <1>1, <1>2, NothingIsContents DEF IInv, Types, WriterStages
  <1>4. PromisesOK' /\ WriterOK' /\ ClearOK' /\ FlushOK'
    BY <1>1, NothingIsContents, RemoteMapAssumption
    DEF PromisesOK, WriterOK, ClearOK, FlushOK, Operation, FlushStages
  <1>5. ExclusionOK' /\ EmptinessOK'
    BY <1>1, <1>2 DEF ExclusionOK, EmptinessOK
  <1>6. CacheIsCoherent' /\ OvertakenOK'
    BY <1>1, RemoteMapAssumption DEF CacheIsCoherent, OvertakenOK, Maybe
  <1>7. Data' = persistent'
    <2>1. Data' = [k \in Keys |-> persistent[k]]
      BY <1>1, NothingIsContents DEF Data, Operation, FlushStages
    <2>. QED
      BY <1>1, <2>1 DEF IInv, Types, Contents
  <1>. QED
    BY <1>3, <1>4, <1>5, <1>6, <1>7 DEF IInv

LEMMA EvictEffect ==
  ASSUME IInv, NEW k \in Keys, Evict(k)
  PROVE  IInv' /\ Data' = Data
  <1>1. /\ cache' = [cache EXCEPT ![k] = NotCached] /\ overtaken' = [overtaken EXCEPT ![k] = {}]
        /\ UNCHANGED <<tmp, persistent, delKeys, wasClearCalled, isNamespaceEmpty,
                       writer, pending, savedBefore, reader>>
    BY DEF Evict, dbVars, writerVars, readerVars
  <1>2. \A j \in Keys : /\ cache'[j] = IF j = k THEN NotCached ELSE cache[j]
                        /\ overtaken'[j] = IF j = k THEN {} ELSE overtaken[j]
    BY <1>1 DEF IInv, Types
  <1>3. Types'
    BY <1>1 DEF IInv, Types
  <1>4. Data' = Data /\ Stored' = Stored
    BY <1>1, DataStays, StoredIs DEF dbVars
  <1>5. PromisesOK' /\ WriterOK'
    BY <1>1, <1>2, <1>4, RemoteMapAssumption DEF IInv, PromisesOK, WriterOK
  <1>6. ExclusionOK' /\ EmptinessOK' /\ ClearOK' /\ FlushOK'
    BY <1>1, <1>2 DEF IInv, ExclusionOK, EmptinessOK, ClearOK, FlushOK
  <1>7. CacheIsCoherent' /\ OvertakenOK'
    BY <1>1, <1>2, <1>4, RemoteMapAssumption DEF IInv, CacheIsCoherent, OvertakenOK, Maybe
  <1>. QED
    BY <1>3, <1>4, <1>5, <1>6, <1>7 DEF IInv

LEMMA NextIInv ==
  ASSUME CallersTakeCare, IInv, [Next]_vars
  PROVE  IInv'
  <1>1. CASE UNCHANGED vars
    <2>1. UNCHANGED <<tmp, persistent, cache, overtaken, delKeys, wasClearCalled, isNamespaceEmpty,
                      writer, pending, savedBefore, reader>>
      BY <1>1 DEF vars, dbVars, memoryVars, cacheVars, writerVars, readerVars
    <2>2. Data' = Data /\ Stored' = Stored
      BY <2>1, DataStays, StoredIs DEF dbVars
    <2>3. Types' /\ PromisesOK' /\ WriterOK'
      BY <2>1, <2>2 DEF IInv, Types, PromisesOK, WriterOK
    <2>4. ExclusionOK' /\ EmptinessOK' /\ ClearOK' /\ FlushOK'
      BY <2>1 DEF IInv, ExclusionOK, EmptinessOK, ClearOK, FlushOK
    <2>5. CacheIsCoherent' /\ OvertakenOK'
      BY <2>1, <2>2 DEF IInv, CacheIsCoherent, OvertakenOK
    <2>. QED
      BY <2>3, <2>4, <2>5 DEF IInv
  <1>2. CASE Write
    <2>1. ASSUME NEW k \in Keys, NEW v \in Values, Set(k, v) PROVE IInv'
      BY <2>1, SetEffect
    <2>2. ASSUME NEW k \in Keys, NEW v \in Values, SetAllEntry(k, v) PROVE IInv'
      BY <2>2, SetAllEntryEffect
    <2>3. ASSUME NEW k \in Keys, Delete(k) PROVE IInv'
      BY <2>3, DeleteEffect
    <2>. QED
      BY <1>2, <2>1, <2>2, <2>3, EntriesWrittenEffect, SetAllEndsEffect,
         ClearEffect, ClearTmpEffect, ClearEndsEffect,
         FlushEffect, FlushWritesEffect, FlushClearsTmpEffect, FlushDeletesEffect, FlushEndsEffect
      DEF Write
  <1>3. CASE Reopen
    BY <1>3, ReopenEffect
  <1>4. ASSUME NEW k \in Keys, Evict(k) PROVE IInv'
    BY <1>4, EvictEffect
  <1>5. ASSUME NEW r \in Readers, Read(r) PROVE IInv'
    BY <1>5, ReadIInv
  <1>. QED
    BY <1>1, <1>2, <1>3, <1>4, <1>5 DEF Next

LEMMA Inductive == CallersTakeCare => (Spec => []IInv)
  <1>. SUFFICES ASSUME CallersTakeCare PROVE Spec => []IInv
    OBVIOUS
  <1>. QED
    BY InitIInv, NextIInv, PTL DEF Spec

\* Values are what they should be, and every promise in the cache is that of a
\* read that is under way, whatever the readers and the writer do meanwhile.
THEOREM TypesAreKept == CallersTakeCare => (Spec => []TypeOK)
  <1>1. IInv => TypeOK
    BY DEF IInv, Types, PromisesOK, TypeOK, Reads
  <1>. QED
    BY <1>1, Inductive, PTL

\* What is in the cache is what the map contains (getImpl, setAllImpl, clear and
\* flush of remote_map.ts, and the evictions of location_cache.ts), for any keys,
\* values and number of readers.  The one exception is what a get finds that looks
\* an evicted entry up before it is written: it stays in the cache.
THEOREM CacheIsAlwaysCoherent == CallersTakeCare => (Spec => []CacheIsCoherent)
  <1>1. IInv => CacheIsCoherent
    BY DEF IInv
  <1>. QED
    BY <1>1, Inductive, PTL

----------------------------------------------------------------------------
(* The refinement. *)

saved == IF Operation(writer) = "flush" THEN savedBefore ELSE persistent
saving == Operation(writer) = "flush"

\* A step that the owner of the map does not see.
Unseen == Data' = Data /\ saved' = saved /\ saving' = saving

LEMMA ReadsAreUnseen ==
  ASSUME NEW r \in Readers, Read(r)
  PROVE  Unseen
  <1>1. UNCHANGED <<dbVars, delKeys, wasClearCalled, writerVars>>
    <2>1. UNCHANGED <<dbVars, delKeys, wasClearCalled, writerVars>>
            \/ ReadTmp(r) \/ ReadPersistent(r)
      BY DEF Read, GetDeleted, ReadCached, JoinRead, ReadUncached, AnswerAtOnce, Start,
             IsEmptyKnown, IsEmptyStarts, IsEmptyEnds, EntriesStart, EntriesEnd, memoryVars, cacheVars
    <2>. QED
      BY <2>1 DEF ReadTmp, ReadPersistent, Settle, memoryVars, cacheVars
  <1>2. Data' = Data
    BY <1>1, DataStays DEF writerVars
  <1>. QED
    BY <1>1, <1>2 DEF Unseen, saved, saving, dbVars, writerVars, Operation

LEMMA InitImplements == Init => Saved!Init
  <1>. SUFFICES ASSUME Init PROVE Saved!Init
    OBVIOUS
  <1>1. Data = Nothing
    <2>1. \A k \in Keys : Data[k] = None
      BY NothingIsContents DEF Init, Data, Operation, FlushStages, WriterStages
    <2>. QED
      BY <2>1, InitIInv, DataIsContents, NothingIsContents, EqualContents DEF IInv
  <1>. QED
    BY <1>1 DEF Init, Saved!Init, Saved!Nothing, Nothing, Operation, FlushStages

\* Each step is one of the abstract map's or is not seen.
LEMMA NextImplements ==
  ASSUME CallersTakeCare, IInv, [Next]_vars
  PROVE  [Saved!Next]_(Saved!vars)
  <1>. DEFINE Goal == Saved!Next \/ Unseen
  <1>. SUFFICES Goal
    BY DEF Unseen, Saved!vars, saved, saving
  <1>1. ASSUME NEW k \in Keys, NEW v \in Values, Set(k, v) PROVE Goal
    <2>1. Data' = [Data EXCEPT ![k] = v]
      BY <1>1, SetEffect
    <2>2. writer = "idle" /\ writer' = "set" /\ UNCHANGED persistent
      BY <1>1 DEF Set, MayStart, TakeEntry, dbVars
    <2>. QED
      BY <2>1, <2>2 DEF Saved!Next, Saved!Change, Operation, FlushStages
  <1>2. ASSUME NEW k \in Keys, NEW v \in Values, SetAllEntry(k, v) PROVE Goal
    <2>1. Data' = [Data EXCEPT ![k] = v]
      BY <1>2, SetAllEntryEffect
    <2>2. writer \in {"idle", "setAll"} /\ writer' = "setAll" /\ UNCHANGED persistent
      BY <1>2 DEF SetAllEntry, MayStart, TakeEntry, dbVars
    <2>. QED
      BY <2>1, <2>2 DEF Saved!Next, Saved!Change, Operation, FlushStages
  <1>3. CASE EntriesWritten \/ SetAllEnds
    BY <1>3, EntriesWrittenEffect, SetAllEndsEffect
    DEF EntriesWritten, SetAllEnds, dbVars, Unseen, saved, saving, Operation, FlushStages
  <1>4. ASSUME NEW k \in Keys, Delete(k) PROVE Goal
    <2>1. Data' = [Data EXCEPT ![k] = None]
      BY <1>4, DeleteEffect
    <2>2. writer = "idle" /\ writer' = "idle" /\ UNCHANGED persistent
      BY <1>4 DEF Delete, MayStart, dbVars, writerVars
    <2>. QED
      BY <2>1, <2>2 DEF Saved!Next, Saved!Change, Operation, FlushStages
  <1>5. CASE Clear
    <2>1. Data' = Saved!Nothing
      BY <1>5, ClearEffect DEF Saved!Nothing, Nothing
    <2>2. writer = "idle" /\ writer' = "clear" /\ UNCHANGED persistent
      BY <1>5 DEF Clear, MayStart, dbVars
    <2>. QED
      BY <2>1, <2>2 DEF Saved!Next, Saved!Change, Operation, FlushStages
  <1>6. CASE ClearTmp \/ ClearEnds
    BY <1>6, ClearTmpEffect, ClearEndsEffect
    DEF ClearTmp, ClearEnds, dbVars, Unseen, saved, saving, Operation, FlushStages
  <1>7. CASE Flush
    <2>1. Data' = Data
      BY <1>7, FlushEffect
    <2>2. writer = "idle" /\ writer' = "flush" /\ savedBefore' = persistent
      BY <1>7 DEF Flush, MayStart
    <2>. QED
      BY <2>1, <2>2 DEF Saved!Next, Saved!StartFlush, Operation, FlushStages
  <1>8. CASE FlushWrites \/ FlushClearsTmp \/ FlushDeletes
    <2>1. Data' = Data
      BY <1>8, FlushWritesEffect, FlushClearsTmpEffect, FlushDeletesEffect
    <2>2. writer \in FlushStages /\ writer' \in FlushStages /\ UNCHANGED savedBefore
      BY <1>8 DEF FlushWrites, FlushClearsTmp, FlushDeletes, FlushStages
    <2>. QED
      BY <2>1, <2>2 DEF Unseen, saved, saving, Operation
  <1>9. CASE FlushEnds
    <2>1. Data' = Data /\ persistent' = Data
      BY <1>9, FlushEndsEffect
    <2>2. writer = "flush deleted" /\ writer' = "idle"
      BY <1>9 DEF FlushEnds
    <2>. QED
      BY <2>1, <2>2 DEF Saved!Next, Saved!EndFlush, Operation, FlushStages
  <1>10. CASE Reopen
    <2>1. Data' = persistent'
      BY <1>10, ReopenEffect
    <2>2. writer' = "idle" /\ UNCHANGED persistent /\ persistent' \in Saved!Contents
      BY <1>10 DEF Reopen, IInv, Types, Saved!Contents, Contents, Maybe
    <2>. QED
      BY <2>1, <2>2 DEF Saved!Next, Saved!Reopen, Operation, FlushStages
  <1>11. ASSUME NEW k \in Keys, Evict(k) PROVE Goal
    BY <1>11, EvictEffect DEF Evict, dbVars, writerVars, Unseen, saved, saving, Operation
  <1>12. ASSUME NEW r \in Readers, Read(r) PROVE Goal
    BY <1>12, ReadsAreUnseen
  <1>13. CASE UNCHANGED vars
    BY <1>13, DataStays DEF vars, dbVars, memoryVars, writerVars, Unseen, saved, saving, Operation
  <1>. HIDE DEF Goal
  <1>. QED
    BY <1>1, <1>2, <1>3, <1>4, <1>5, <1>6, <1>7, <1>8, <1>9, <1>10, <1>11, <1>12, <1>13
    DEF Next, Write

\* A remote map is the map that its owner relies on: a flush saves exactly its
\* contents, however they are spread over databases, cache and deletions, and
\* nothing else changes what another process finds (remote_map.ts:769-816).
THEOREM FlushAlwaysSavesTheContents == CallersTakeCare => (Spec => SavesItsContents)
  <1>. SUFFICES ASSUME CallersTakeCare PROVE Spec => SavesItsContents
    OBVIOUS
  <1>1. Init => Saved!Init
    BY InitImplements
  <1>2. IInv /\ [Next]_vars => [Saved!Next]_(Saved!vars)
    BY NextImplements
  <1>3. Spec => []IInv
    BY Inductive
  <1>. QED
    BY <1>1, <1>2, <1>3, PTL DEF Spec, SavesItsContents, Saved!Spec

----------------------------------------------------------------------------
(* Reads are current.  What a reader will find stays allowed, from one step  *)
(* to the next, for as long as it is on its way.                             *)

\* What is known of the emptiness is true, up to deletions and pending entries.
KnowledgeOK ==
    /\ isNamespaceEmpty = "yes" /\ Operation(writer) # "clear" =>
          persistent = Nothing \/ (wasClearCalled /\ writer \in {"idle", "set", "setAll"})
    /\ isNamespaceEmpty = "no" /\ delKeys = {} /\ Operation(writer) # "clear" =>
          KeysOf(Data) # {}

AllowedOK ==
    /\ DOMAIN allowed = Readers
    /\ \A r \in Readers : Reading(r) =>
          Observations(reader[r].op, reader[r].key, Data) \subseteq allowed[r]

\* Where the read is that the reader awaits, its own or another one's.
Step(r) == IF reader[r].at \in Readers THEN reader[reader[r].at].at ELSE reader[r].at

LookupOK(r) ==
    /\ Step(r) \in {"tmp", "persistent"}
    /\ reader[r].at \in Readers =>
          /\ reader[reader[r].at].key = reader[r].key
          /\ reader[reader[r].at].at \notin Readers
    /\ AnswerTo(reader[r].op, Stored[reader[r].key]) \subseteq allowed[r]
    /\ Step(r) = "persistent" =>
          /\ ~wasClearCalled
          /\ AnswerTo(reader[r].op, persistent[reader[r].key]) \subseteq allowed[r]

IsEmptyOK(r) ==
    /\ KeysOf(reader[r].found) = {} <=> KeysOf(Data) = {}
    /\ KeysOf(reader[r].found) = {} => wasClearCalled \/ persistent = Nothing

\* A key that was deleted when the listing began stays deleted; and what a get
\* finds too early meanwhile, or found, may be listed.
EntriesOK(r) ==
    /\ \A k \in Keys : <<k, reader[r].found[k]>> \in allowed[r]
                       \/ (k \in delKeys /\ reader[r].found[k] # None)
    /\ \A k \in Keys \ delKeys : <<k, Stored[k]>> \in allowed[r]
    /\ \A k \in Keys : \A v \in overtaken[k] : <<k, v>> \in allowed[r]

ReaderOK(r) ==
    \/ reader[r].op \in {"get", "has"} /\ LookupOK(r)
    \/ reader[r].at = "iterating" /\ reader[r].op = "isEmpty" /\ IsEmptyOK(r)
    \/ reader[r].at = "iterating" /\ reader[r].op = "entries" /\ EntriesOK(r)

ReadersOK == \A r \in Readers : Reading(r) => ReaderOK(r)

RInv == IInv /\ KnowledgeOK /\ AllowedOK /\ ReadersOK /\ ReadsAreCurrent

LEMMA ObservationsOfLookups ==
  ASSUME NEW op \in {"get", "has"}, NEW k, NEW data
  PROVE  Observations(op, k, data) = AnswerTo(op, data[k])
  BY DEF Observations, AnswerTo

LEMMA RInvInit == Init => RInv
  <1>. SUFFICES ASSUME Init PROVE RInv
    OBVIOUS
  <1>1. IInv
    BY InitIInv
  <1>2. \A r \in Readers : reader[r] = Done(TRUE) /\ Done(TRUE).at = "done" /\ Done(TRUE).current = TRUE
    BY DoneIsARead DEF Init, Done
  <1>3. KnowledgeOK /\ AllowedOK /\ ReadersOK /\ ReadsAreCurrent
    BY <1>2 DEF Init, KnowledgeOK, AllowedOK, ReadersOK, ReadsAreCurrent, Reading
  <1>. QED
    BY <1>1, <1>3 DEF RInv

\* A step that no reader witnesses.
LEMMA UnwitnessedStep ==
  ASSUME RInv, IInv', KnowledgeOK', UNCHANGED reader, DOMAIN allowed' = Readers,
         \A r \in Readers : reader[r].at = "done"
  PROVE  RInv'
  BY DEF RInv, AllowedOK, ReadersOK, ReadsAreCurrent, Reading

LEMMA FlushKnowledge ==
  ASSUME RInv, writer \in FlushStages \cup {"idle"}, Data' = Data, UNCHANGED delKeys,
         isNamespaceEmpty' \in {"unknown", isNamespaceEmpty},
         isNamespaceEmpty' = "yes" => persistent' = Nothing
  PROVE  KnowledgeOK'
  BY DEF RInv, KnowledgeOK, Operation, FlushStages, KeysOf

LEMMA FlushRInv ==
  ASSUME RInv, CallersTakeCare, Flush \/ FlushWrites \/ FlushClearsTmp \/ FlushDeletes \/ FlushEnds
  PROVE  RInv'
  <1>1. IInv /\ IInv' /\ Data' = Data
    BY FlushEffect, FlushWritesEffect, FlushClearsTmpEffect, FlushDeletesEffect, FlushEndsEffect DEF RInv
  <1>2. UNCHANGED <<delKeys, reader, allowed>>
    BY DEF Flush, FlushWrites, FlushClearsTmp, FlushDeletes, FlushEnds, memoryVars, cacheVars, readerVars
  <1>3. writer \in FlushStages \cup {"idle"} /\ \A r \in Readers : reader[r].at = "done"
    <2>1. CASE Flush
      BY <1>1, <2>1, NoReadIsOpen DEF Flush, MayStart
    <2>2. CASE FlushWrites \/ FlushClearsTmp \/ FlushDeletes \/ FlushEnds
      BY <1>1, <2>2, FlushReaders DEF FlushWrites, FlushClearsTmp, FlushDeletes, FlushEnds, FlushStages
    <2>. QED
      BY <2>1, <2>2
  <1>4. isNamespaceEmpty' \in {"unknown", isNamespaceEmpty}
    BY DEF Flush, FlushWrites, FlushClearsTmp, FlushDeletes, FlushEnds, memoryVars, cacheVars, EmptinessAfterBatch
  <1>5. ASSUME isNamespaceEmpty' = "yes" PROVE persistent' = Nothing
    <2>1. isNamespaceEmpty = "yes" /\ ((wasClearCalled /\ writer = "idle") \/ persistent = Nothing)
      BY <1>3, <1>4, <1>5 DEF RInv, KnowledgeOK, Operation, FlushStages
    <2>2. CASE Flush
      BY <2>1, <2>2 DEF Flush
    <2>3. CASE FlushWrites
      <3>1. persistent' = Over(Nothing, Nothing)
        BY <2>1, <2>3 DEF FlushWrites, TmpIterated
      <3>. QED
        BY <3>1 DEF Over, Nothing
    <2>4. CASE FlushDeletes
      BY <2>1, <2>4, NothingIsContents DEF FlushDeletes, Nothing
    <2>5. CASE FlushClearsTmp \/ FlushEnds
      BY <2>1, <2>5 DEF FlushClearsTmp, FlushEnds, dbVars
    <2>. QED
      BY <2>2, <2>3, <2>4, <2>5
  <1>6. KnowledgeOK'
    BY <1>1, <1>2, <1>3, <1>4, <1>5, FlushKnowledge
  <1>. QED
    BY <1>1, <1>2, <1>3, <1>6, UnwitnessedStep DEF RInv, AllowedOK

LEMMA ClearRInv ==
  ASSUME RInv, CallersTakeCare, Clear \/ ClearTmp \/ ClearEnds
  PROVE  RInv'
  <1>1. IInv /\ IInv'
    BY ClearEffect, ClearTmpEffect, ClearEndsEffect DEF RInv
  <1>2. UNCHANGED reader /\ DOMAIN allowed' = Readers
    BY DEF Clear, ClearTmp, ClearEnds, readerVars, DataMayBeObserved, RInv, AllowedOK
  <1>3. \A r \in Readers : reader[r].at = "done"
    <2>1. CASE Clear
      BY <1>1, <2>1, NoReadIsOpen DEF Clear
    <2>2. CASE ClearTmp \/ ClearEnds
      BY <1>1, <2>2 DEF IInv, ExclusionOK, ClearTmp, ClearEnds, Operation, FlushStages
    <2>. QED
      BY <2>1, <2>2
  <1>4. KnowledgeOK'
    BY DEF Clear, ClearTmp, ClearEnds, KnowledgeOK, Operation, FlushStages
  <1>. QED
    BY <1>1, <1>2, <1>3, <1>4, UnwitnessedStep

LEMMA ReopenRInv ==
  ASSUME RInv, Reopen
  PROVE  RInv'
  <1>1. IInv'
    BY ReopenEffect DEF RInv
  <1>2. \A r \in Readers : reader'[r].at = "done" /\ reader'[r].current = TRUE
    BY DoneIsARead DEF Reopen, Done
  <1>3. DOMAIN allowed' = Readers /\ isNamespaceEmpty' = "unknown"
    BY DEF Reopen
  <1>. QED
    BY <1>1, <1>2, <1>3 DEF RInv, KnowledgeOK, AllowedOK, ReadersOK, ReadsAreCurrent, Reading

\* Readers while the writer works: nothing but what is allowed, and the
\* deletions, may change for them.
LEMMA WitnessedStep ==
  ASSUME RInv, IInv', KnowledgeOK', UNCHANGED <<reader, persistent, wasClearCalled>>,
         writer \in {"idle", "set", "setAll"},
         DOMAIN allowed' = Readers,
         \A r \in Readers : Reading(r) =>
            /\ allowed[r] \subseteq allowed'[r]
            /\ Observations(reader[r].op, reader[r].key, Data') \subseteq allowed'[r],
         \A k \in Keys : Stored'[k] = Stored[k] \/ Stored'[k] = Data'[k],
         \A k \in Keys : overtaken'[k] \subseteq overtaken[k],
         \A r \in Readers : ~(reader[r].at = "iterating" /\ reader[r].op = "isEmpty"),
         delKeys \subseteq delKeys'
           \/ \A r \in Readers : ~(Reading(r) /\ reader[r].op = "entries")
  PROVE  RInv'
  <1>1. AllowedOK'
    BY DEF RInv, AllowedOK, Reading
  <1>2. ASSUME NEW r \in Readers, Reading(r) PROVE ReaderOK(r)'
    <2>1. CASE reader[r].op \in {"get", "has"} /\ LookupOK(r)
      <3>. DEFINE k == reader[r].key
                  op == reader[r].op
      <3>1. k \in Keys
        BY DEF RInv, IInv, Types, Reads
      <3>2. Observations(op, k, Data') = AnswerTo(op, Data'[k])
        BY <2>1, ObservationsOfLookups
      <3>3. AnswerTo(op, Stored'[k]) \subseteq allowed'[r]
        <4>1. CASE Stored'[k] = Stored[k]
          BY <1>2, <2>1, <4>1 DEF LookupOK
        <4>2. CASE Stored'[k] = Data'[k]
          BY <1>2, <3>2, <4>2
        <4>. QED
          BY <3>1, <4>1, <4>2
      <3>4. Step(r)' = Step(r)
        BY DEF Step
      <3>5. AnswerTo(op, persistent[k]) \subseteq allowed[r] => AnswerTo(op, persistent[k]) \subseteq allowed'[r]
        BY <1>2
      <3>6. LookupOK(r)'
        BY <2>1, <3>3, <3>4, <3>5 DEF LookupOK
      <3>. QED
        BY <2>1, <3>6 DEF ReaderOK
    <2>2. CASE reader[r].at = "iterating" /\ reader[r].op = "entries" /\ EntriesOK(r)
      <3>1. delKeys \subseteq delKeys'
        BY <1>2, <2>2
      <3>2. \A k \in Keys : <<k, Data'[k]>> \in allowed'[r]
        BY <1>2, <2>2 DEF Observations
      <3>3. allowed[r] \subseteq allowed'[r]
        BY <1>2
      <3>4. \A k \in Keys \ delKeys' : <<k, Stored'[k]>> \in allowed'[r]
        BY <2>2, <3>1, <3>2, <3>3 DEF EntriesOK
      <3>5. EntriesOK(r)'
        BY <2>2, <3>1, <3>3, <3>4 DEF EntriesOK
      <3>. QED
        BY <2>2, <3>5 DEF ReaderOK
    <2>. QED
      BY <1>2, <2>1, <2>2 DEF RInv, ReadersOK, ReaderOK
  <1>3. ReadersOK' /\ ReadsAreCurrent'
    BY <1>2 DEF RInv, ReadersOK, ReadsAreCurrent, Reading
  <1>. QED
    BY <1>1, <1>3 DEF RInv

\* An entry that set or setAll takes.
LEMMA EntryTakenRInv ==
  ASSUME RInv, IInv', CallersTakeCare, NEW k \in Keys, NEW v \in Values, TakeEntry(k, v),
         Data' = [Data EXCEPT ![k] = v],
         writer \in {"idle", "set", "setAll"}, writer' \in {"set", "setAll"},
         writer = "idle" => MayStart(writer'),
         isNamespaceEmpty' = IF writer' = "set" THEN "no" ELSE isNamespaceEmpty
  PROVE  RInv'
  <1>1. /\ delKeys' = delKeys \ {k} /\ overtaken' = [overtaken EXCEPT ![k] = {}]
        /\ UNCHANGED <<tmp, persistent, wasClearCalled, reader>>
        /\ MaySetAgain(k) /\ DataMayBeObserved
    BY DEF TakeEntry, dbVars
  <1>2. KnowledgeOK'
    <2>1. KeysOf(Data') # {}
      <3>1. Data \in Contents /\ v # None
        BY DataIsContents, RemoteMapAssumption DEF RInv, IInv
      <3>. QED
        BY <3>1 DEF Contents, KeysOf
    <2>2. ASSUME isNamespaceEmpty' = "yes"
          PROVE  persistent = Nothing \/ (wasClearCalled /\ writer' \in {"idle", "set", "setAll"})
      BY <2>2 DEF RInv, KnowledgeOK, Operation, FlushStages
    <2>. QED
      BY <1>1, <2>1, <2>2 DEF KnowledgeOK
  <1>3. DOMAIN allowed' = Readers
    BY <1>1 DEF DataMayBeObserved
  <1>4. ASSUME NEW r \in Readers, Reading(r)
        PROVE  /\ allowed[r] \subseteq allowed'[r]
               /\ Observations(reader[r].op, reader[r].key, Data') \subseteq allowed'[r]
    BY <1>1, <1>4 DEF DataMayBeObserved
  <1>5. \A j \in Keys : Stored'[j] = Stored[j] /\ overtaken'[j] \subseteq overtaken[j]
    BY <1>1, StoredIs DEF RInv, IInv, Types
  <1>6. \A r \in Readers : ~(reader[r].at = "iterating" /\ reader[r].op = "isEmpty")
    BY NoReadIsOpen DEF RInv, IInv, EmptinessOK
  <1>7. delKeys \subseteq delKeys' \/ \A r \in Readers : ~(Reading(r) /\ reader[r].op = "entries")
    BY <1>1 DEF MaySetAgain, CallersTakeCare
  <1>. QED
    BY <1>1, <1>2, <1>3, <1>4, <1>5, <1>6, <1>7, WitnessedStep

LEMMA SetRInv ==
  ASSUME RInv, CallersTakeCare, NEW k \in Keys, NEW v \in Values, Set(k, v)
  PROVE  RInv'
  BY SetEffect, EntryTakenRInv DEF RInv, Set, MayStart

LEMMA SetAllEntryRInv ==
  ASSUME RInv, CallersTakeCare, NEW k \in Keys, NEW v \in Values, SetAllEntry(k, v)
  PROVE  RInv'
  BY SetAllEntryEffect, EntryTakenRInv DEF RInv, SetAllEntry, MayStart

LEMMA EntriesWrittenRInv ==
  ASSUME RInv, EntriesWritten
  PROVE  RInv'
  <1>1. IInv' /\ Data' = Data
    BY EntriesWrittenEffect DEF RInv
  <1>2. /\ pending # Nothing /\ tmp' = Over(pending, tmp)
        /\ writer' = IF writer = "set" THEN "idle" ELSE writer
        /\ UNCHANGED <<persistent, overtaken, delKeys, wasClearCalled, isNamespaceEmpty, reader, allowed>>
    BY DEF EntriesWritten, readerVars, memoryVars, cacheVars
  <1>3. writer \in {"set", "setAll"}
    <2>1. \E k \in Keys : pending[k] # None
      BY <1>2, EqualContents, NothingIsContents DEF RInv, IInv, Types
    <2>. QED
      BY <2>1 DEF RInv, IInv, WriterOK
  <1>4. KnowledgeOK'
    BY <1>1, <1>2, <1>3 DEF RInv, KnowledgeOK, Operation, FlushStages, KeysOf
  <1>5. \A k \in Keys : Stored'[k] = Stored[k] \/ Stored'[k] = Data'[k]
    <2>. SUFFICES ASSUME NEW k \in Keys PROVE Stored'[k] = Stored[k] \/ Stored'[k] = Data'[k]
      OBVIOUS
    <2>1. CASE pending[k] = None
      BY <1>2, <2>1, StoredIs DEF Over
    <2>2. CASE pending[k] # None
      <3>1. k \notin delKeys /\ Data[k] = pending[k]
        BY <1>3, <2>2, DataWhileReading DEF RInv, IInv, WriterOK
      <3>2. Stored'[k] = pending[k]
        BY <1>2, <2>2, StoredIs DEF Over
      <3>. QED
        BY <1>1, <3>1, <3>2
    <2>. QED
      BY <2>1, <2>2
  <1>6. \A r \in Readers : ~(reader[r].at = "iterating" /\ reader[r].op = "isEmpty")
    BY <1>3 DEF RInv, IInv, EmptinessOK
  <1>. QED
    BY <1>1, <1>2, <1>3, <1>4, <1>5, <1>6, WitnessedStep DEF RInv, AllowedOK

LEMMA SetAllEndsRInv ==
  ASSUME RInv, SetAllEnds
  PROVE  RInv'
  <1>1. IInv' /\ Data' = Data
    BY SetAllEndsEffect DEF RInv
  <1>2. /\ writer = "setAll" /\ isNamespaceEmpty' = "unknown"
        /\ UNCHANGED <<tmp, persistent, overtaken, delKeys, wasClearCalled, reader, allowed>>
    BY DEF SetAllEnds, dbVars, cacheVars, readerVars
  <1>3. KnowledgeOK'
    BY <1>2 DEF KnowledgeOK
  <1>4. Stored' = Stored
    BY <1>2, StoredIs
  <1>5. \A r \in Readers : ~(reader[r].at = "iterating" /\ reader[r].op = "isEmpty")
    BY <1>2 DEF RInv, IInv, EmptinessOK
  <1>. QED
    BY <1>1, <1>2, <1>3, <1>4, <1>5, WitnessedStep DEF RInv, AllowedOK

LEMMA DeleteRInv ==
  ASSUME RInv, CallersTakeCare, NEW k \in Keys, Delete(k)
  PROVE  RInv'
  <1>1. IInv'
    BY DeleteEffect DEF RInv
  <1>2. /\ writer = "idle" /\ delKeys' = delKeys \cup {k} /\ isNamespaceEmpty' = "unknown"
        /\ UNCHANGED <<tmp, persistent, overtaken, wasClearCalled, reader>>
        /\ DataMayBeObserved
    BY DEF Delete, MayStart, dbVars, cacheVars, writerVars
  <1>3. KnowledgeOK'
    BY <1>2 DEF KnowledgeOK
  <1>4. DOMAIN allowed' = Readers
    BY <1>2 DEF DataMayBeObserved
  <1>5. ASSUME NEW r \in Readers, Reading(r)
        PROVE  /\ allowed[r] \subseteq allowed'[r]
               /\ Observations(reader[r].op, reader[r].key, Data') \subseteq allowed'[r]
    BY <1>2, <1>5 DEF DataMayBeObserved
  <1>6. \A j \in Keys : Stored'[j] = Stored[j]
    BY <1>2, StoredIs
  <1>7. \A r \in Readers : ~(reader[r].at = "iterating" /\ reader[r].op = "isEmpty")
    BY NoReadIsOpen DEF RInv, Delete
  <1>. QED
    BY <1>1, <1>2, <1>3, <1>4, <1>5, <1>6, <1>7, WitnessedStep

LEMMA EvictRInv ==
  ASSUME RInv, NEW k \in Keys, Evict(k)
  PROVE  RInv'
  <1>1. IInv' /\ Data' = Data
    BY EvictEffect DEF RInv
  <1>2. UNCHANGED <<tmp, persistent, delKeys, wasClearCalled, isNamespaceEmpty, writer, reader, allowed>>
    BY DEF Evict, dbVars, writerVars, readerVars
  <1>3. Stored' = Stored /\ \A j \in Keys : overtaken'[j] \subseteq overtaken[j]
    BY <1>2, StoredIs DEF Evict, RInv, IInv, Types
  <1>4. KnowledgeOK' /\ AllowedOK'
    BY <1>1, <1>2 DEF RInv, KnowledgeOK, AllowedOK, Reading, KeysOf
  <1>5. ReadersOK' /\ ReadsAreCurrent'
    BY <1>1, <1>2, <1>3 DEF RInv, ReadersOK, ReaderOK, LookupOK, IsEmptyOK, EntriesOK, Step, Reading,
                            ReadsAreCurrent, KeysOf
  <1>. QED
    BY <1>1, <1>4, <1>5 DEF RInv

----------------------------------------------------------------------------
(* Reads, once more. *)

OvertakenChange ==
    \A k \in Keys : overtaken'[k] = overtaken[k] \/ (k \notin delKeys /\ overtaken'[k] = Outdated(k))

\* A read that goes on while another one makes a step.
LEMMA ReadGoesOn ==
  ASSUME RInv, NEW q \in Readers, Reading(q), OvertakenChange,
         UNCHANGED <<dbVars, delKeys, wasClearCalled, writerVars>>,
         reader'[q] = reader[q], allowed'[q] = allowed[q],
         reader[q].at \in Readers =>
            /\ reader'[reader[q].at].key = reader[reader[q].at].key
            /\ reader'[reader[q].at].at \in {"tmp", "persistent"},
         Step(q)' = Step(q) \/ (Step(q)' = "persistent" /\ GoesOn(reader[q].key))
  PROVE  ReaderOK(q)'
  <1>1. Data' = Data /\ Stored' = Stored
    BY DataStays, StoredIs DEF dbVars, writerVars
  <1>2. CASE reader[q].op \in {"get", "has"} /\ LookupOK(q)
    <2>. DEFINE k == reader[q].key
    <2>1. k \in Keys
      BY DEF RInv, IInv, Types, Reads
    <2>2. GoesOn(k) => Stored[k] = persistent[k] /\ ~wasClearCalled
      BY <2>1, StoredIs DEF GoesOn
    <2>3. LookupOK(q)'
      BY <1>1, <1>2, <2>2, RemoteMapAssumption DEF LookupOK, dbVars
    <2>. QED
      BY <1>2, <2>3 DEF ReaderOK
  <1>3. CASE reader[q].at = "iterating" /\ reader[q].op = "isEmpty" /\ IsEmptyOK(q)
    BY <1>1, <1>3 DEF ReaderOK, IsEmptyOK, dbVars, KeysOf
  <1>4. CASE reader[q].at = "iterating" /\ reader[q].op = "entries" /\ EntriesOK(q)
    <2>1. \A k \in Keys : \A v \in overtaken'[k] : <<k, v>> \in allowed[q]
      BY <1>4 DEF OvertakenChange, Outdated, EntriesOK
    <2>2. EntriesOK(q)'
      BY <1>1, <1>4, <2>1 DEF EntriesOK
    <2>. QED
      BY <1>4, <2>2 DEF ReaderOK
  <1>. QED
    BY <1>2, <1>3, <1>4 DEF RInv, ReadersOK, ReaderOK

LEMMA KnowledgeAfterRead ==
  ASSUME RInv, writer \in {"idle", "set", "setAll"},
         UNCHANGED <<dbVars, delKeys, wasClearCalled, writerVars>>,
         isNamespaceEmpty' = "yes" =>
            isNamespaceEmpty = "yes" \/ wasClearCalled \/ persistent = Nothing,
         isNamespaceEmpty' = "no" /\ delKeys = {} => isNamespaceEmpty = "no" \/ KeysOf(Data) # {}
  PROVE  KnowledgeOK'
  <1>1. Data' = Data
    BY DataStays DEF writerVars
  <1>2. Operation(writer) # "clear"
    BY DEF Operation, FlushStages
  <1>. QED
    BY <1>1, <1>2 DEF RInv, KnowledgeOK, dbVars, writerVars, KeysOf

\* Nobody waits for a reader that does not look a key up.
LEMMA NobodyJoined ==
  ASSUME RInv, NEW r \in Readers, reader[r].at \notin {"tmp", "persistent"}
  PROVE  \A q \in Readers : Reading(q) => reader[q].at # r
  BY RemoteMapAssumption DEF RInv, ReadersOK, ReaderOK, LookupOK, Step

LEMMA AnsweredAtOnceRInv ==
  ASSUME RInv, CallersTakeCare, NEW r \in Readers, NEW op \in ReadOps, NEW k \in Keys, NEW answer,
         MayRead(r, op, k), AnswerAtOnce(r, op, k, answer),
         answer \subseteq ObservableNow(op, k),
         isNamespaceEmpty' \in {"no", isNamespaceEmpty},
         isNamespaceEmpty' = "no" /\ delKeys = {} => isNamespaceEmpty = "no" \/ KeysOf(Data) # {}
  PROVE  RInv'
  <1>1. IInv /\ IInv'
    BY AnsweredAtOnce DEF RInv
  <1>2. writer \in {"idle", "set", "setAll"}
    BY <1>1, ReadersMayRead
  <1>3. UNCHANGED <<dbVars, delKeys, wasClearCalled, writerVars, allowed>> /\ OvertakenChange
    BY DEF AnswerAtOnce, cacheVars, OvertakenChange
  <1>4. KnowledgeOK'
    BY <1>2, <1>3, KnowledgeAfterRead
  <1>5. (answer \subseteq ObservableNow(op, k)) = TRUE
    OBVIOUS
  <1>6. reader' = [reader EXCEPT ![r] = Done(TRUE)]
    BY <1>5 DEF AnswerAtOnce
  <1>7. Done(TRUE).at = "done" /\ Done(TRUE).current = TRUE
    BY DoneIsARead DEF Done
  <1>8. \A q \in Readers : reader'[q] = IF q = r THEN Done(TRUE) ELSE reader[q]
    BY <1>1, <1>6 DEF IInv, Types
  <1>9. Data' = Data
    BY <1>3, DataStays DEF writerVars
  <1>10. AllowedOK' /\ ReadsAreCurrent'
    BY <1>3, <1>7, <1>8, <1>9 DEF RInv, AllowedOK, ReadsAreCurrent, Reading
  <1>11. ReadersOK'
    <2>. SUFFICES ASSUME NEW q \in Readers, Reading(q)' PROVE ReaderOK(q)'
      BY DEF ReadersOK
    <2>1. q # r /\ Reading(q)
      BY <1>7, <1>8 DEF Reading
    <2>2. reader[q].at # r
      <3>1. reader[r].at = "done"
        BY DEF MayRead, Reading
      <3>. QED
        BY <2>1, <3>1, NobodyJoined
    <2>3. Step(q)' = Step(q)
      BY <1>8, <2>1, <2>2 DEF Step
    <2>4. reader[q].at \in Readers => reader[reader[q].at].at \in {"tmp", "persistent"}
      BY <2>1, RemoteMapAssumption DEF RInv, ReadersOK, ReaderOK, LookupOK, Step
    <2>. QED
      BY <1>3, <1>8, <2>1, <2>2, <2>3, <2>4, ReadGoesOn
  <1>. QED
    BY <1>1, <1>4, <1>10, <1>11 DEF RInv

LEMMA StartedRInv ==
  ASSUME RInv, IInv', CallersTakeCare, NEW r \in Readers, NEW op \in ReadOps, NEW k \in Keys,
         NEW at, NEW found,
         MayRead(r, op, k), Start(r, op, k, at, found),
         UNCHANGED isNamespaceEmpty, OvertakenChange,
         ReaderOK(r)'
  PROVE  RInv'
  <1>. DEFINE read == [op |-> op, key |-> k, at |-> at, found |-> found, current |-> TRUE]
  <1>1. read.at = at /\ read.key = k /\ read.op = op /\ read.found = found /\ read.current = TRUE
    OBVIOUS
  <1>2. /\ reader' = [reader EXCEPT ![r] = read]
        /\ allowed' = [allowed EXCEPT ![r] = ObservableNow(op, k)]
        /\ UNCHANGED <<dbVars, delKeys, wasClearCalled, writerVars>>
    BY DEF Start
  <1>. HIDE DEF read
  <1>3. writer \in {"idle", "set", "setAll"}
    BY ReadersMayRead DEF RInv
  <1>4. KnowledgeOK'
    BY <1>2, <1>3, KnowledgeAfterRead
  <1>5. \A q \in Readers : /\ reader'[q] = IF q = r THEN read ELSE reader[q]
                           /\ allowed'[q] = IF q = r THEN ObservableNow(op, k) ELSE allowed[q]
    BY <1>2 DEF RInv, IInv, Types, AllowedOK
  <1>6. Data' = Data /\ Observations(op, k, Data) \subseteq ObservableNow(op, k)
    BY <1>2, DataStays DEF writerVars, ObservableNow
  <1>7. AllowedOK' /\ ReadsAreCurrent'
    BY <1>1, <1>2, <1>5, <1>6 DEF RInv, AllowedOK, ReadsAreCurrent, Reading
  <1>8. ReadersOK'
    <2>. SUFFICES ASSUME NEW q \in Readers, Reading(q)', q # r PROVE ReaderOK(q)'
      BY DEF ReadersOK
    <2>1. Reading(q)
      BY <1>5 DEF Reading
    <2>2. reader[q].at # r
      <3>1. reader[r].at = "done"
        BY DEF MayRead, Reading
      <3>. QED
        BY <2>1, <3>1, NobodyJoined
    <2>3. Step(q)' = Step(q)
      BY <1>5, <2>2 DEF Step
    <2>4. reader[q].at \in Readers => reader[reader[q].at].at \in {"tmp", "persistent"}
      BY <2>1, RemoteMapAssumption DEF RInv, ReadersOK, ReaderOK, LookupOK, Step
    <2>. QED
      BY <1>2, <1>5, <2>1, <2>2, <2>3, <2>4, ReadGoesOn
  <1>. QED
    BY <1>4, <1>7, <1>8 DEF RInv

LEMMA SettlesRInv ==
  ASSUME RInv, IInv', NEW r \in Readers, NEW v, Settle(r, v),
         writer \in {"idle", "set", "setAll"},
         reader[r].at \in {"tmp", "persistent"},
         \A q \in Awaiting(r) : AnswerTo(reader[q].op, v) \subseteq allowed[q],
         v # None /\ delKeys = {} => KeysOf(Data) # {}
  PROVE  RInv'
  <1>1. UNCHANGED <<dbVars, delKeys, wasClearCalled, writerVars>> /\ OvertakenChange
    BY DEF Settle, OvertakenChange
  <1>2. KnowledgeOK'
    BY <1>1, KnowledgeAfterRead DEF Settle, EmptinessAfterFinding
  <1>3. \A q \in Readers : reader'[q] = IF q \in Awaiting(r) THEN Done(TRUE) ELSE reader[q]
    <2>1. \A q \in Awaiting(r) : (AnswerTo(reader[q].op, v) \subseteq allowed[q]) = TRUE
      OBVIOUS
    <2>. QED
      BY <2>1 DEF Settle, Finish
  <1>4. /\ DOMAIN allowed' = Readers
        /\ \A q \in Readers \ Awaiting(r) : allowed'[q] = allowed[q]
    BY DEF Settle, Finish
  <1>5. Done(TRUE).at = "done" /\ Done(TRUE).current = TRUE
    BY DoneIsARead DEF Done
  <1>6. Data' = Data
    BY <1>1, DataStays DEF writerVars
  <1>7. ASSUME NEW q \in Readers, Reading(q)'
        PROVE  q \notin Awaiting(r) /\ Reading(q) /\ reader'[q] = reader[q]
    BY <1>3, <1>5, <1>7 DEF Reading
  <1>8. AllowedOK'
    BY <1>4, <1>6, <1>7 DEF RInv, AllowedOK
  <1>9. ReadsAreCurrent'
    BY <1>3, <1>5 DEF RInv, ReadsAreCurrent
  <1>10. ReadersOK'
    <2>. SUFFICES ASSUME NEW q \in Readers, Reading(q)' PROVE ReaderOK(q)'
      BY DEF ReadersOK
    <2>1. q \notin Awaiting(r) /\ Reading(q) /\ reader'[q] = reader[q] /\ allowed'[q] = allowed[q]
      BY <1>4, <1>7
    <2>2. reader[q].at \in Readers => /\ reader[reader[q].at].at \in {"tmp", "persistent"}
                                      /\ reader[q].at \notin Awaiting(r)
      BY <2>1, RemoteMapAssumption DEF RInv, ReadersOK, ReaderOK, LookupOK, Step, Awaiting
    <2>3. reader[q].at \in Readers => reader'[reader[q].at] = reader[reader[q].at]
      BY <1>3, <2>2
    <2>4. Step(q)' = Step(q)
      BY <2>1, <2>3 DEF Step
    <2>. QED
      BY <1>1, <2>1, <2>2, <2>3, <2>4, ReadGoesOn
  <1>. QED
    BY <1>2, <1>8, <1>9, <1>10 DEF RInv

\* Those who await a reader read its key, where it reads it.
LEMMA AwaitingReadTheSame ==
  ASSUME RInv, NEW r \in Readers, reader[r].at \in {"tmp", "persistent"}, NEW q \in Awaiting(r)
  PROVE  /\ q \in Readers /\ LookupOK(q) /\ reader[q].key = reader[r].key
         /\ Step(q) = reader[r].at /\ reader[r].key \in Keys
  <1>1. q \in Readers /\ Reading(q) /\ reader[q].at # "iterating"
    BY RemoteMapAssumption DEF Awaiting, Reading
  <1>2. LookupOK(q)
    BY <1>1 DEF RInv, ReadersOK, ReaderOK
  <1>. QED
    BY <1>1, <1>2, RemoteMapAssumption DEF Awaiting, LookupOK, Step, RInv, IInv, Types, Reads

LEMMA ReadTmpRInv ==
  ASSUME RInv, CallersTakeCare, NEW r \in Readers, ReadTmp(r)
  PROVE  RInv'
  <1>. DEFINE k == reader[r].key
  <1>1. IInv' /\ reader[r].at = "tmp"
    BY ReadTmpIInv DEF RInv, ReadTmp
  <1>2. writer \in {"idle", "set", "setAll"}
    BY <1>1, ReadersMayRead DEF Reading, RInv
  <1>3. k \in Keys
    BY DEF RInv, IInv, Types, Reads
  <1>. HIDE DEF k
  <1>4. CASE ~GoesOn(k)
    <2>1. Settle(r, tmp[k])
      BY <1>4 DEF ReadTmp, k
    <2>2. tmp[k] = Stored[k]
      BY <1>3, <1>4, StoredIs DEF GoesOn, RInv, IInv, Types
    <2>3. \A q \in Awaiting(r) : AnswerTo(reader[q].op, tmp[k]) \subseteq allowed[q]
      BY <1>1, <2>2, AwaitingReadTheSame DEF LookupOK, k
    <2>4. tmp[k] # None /\ delKeys = {} => KeysOf(Data) # {}
      BY <1>2, <1>3, <2>2, DataWhileReading DEF RInv, KeysOf
    <2>. QED
      BY <1>1, <1>2, <2>1, <2>3, <2>4, SettlesRInv
  <1>5. CASE GoesOn(k)
    <2>1. /\ reader' = [reader EXCEPT ![r].at = "persistent"]
          /\ UNCHANGED <<dbVars, memoryVars, writerVars, allowed>>
      BY <1>5 DEF ReadTmp, k
    <2>2. UNCHANGED <<overtaken, delKeys, wasClearCalled, isNamespaceEmpty>> /\ OvertakenChange
      BY <2>1 DEF memoryVars, cacheVars, OvertakenChange
    <2>3. /\ \A q \in Readers \ {r} : reader'[q] = reader[q]
          /\ reader'[r].at = "persistent" /\ reader'[r].op = reader[r].op
          /\ reader'[r].key = reader[r].key /\ reader'[r].current = reader[r].current
      BY <2>1 DEF RInv, IInv, Types, Reads
    <2>4. KnowledgeOK'
      BY <1>2, <2>1, <2>2, KnowledgeAfterRead
    <2>5. Data' = Data /\ Stored' = Stored
      BY <2>1, <2>2, DataStays, StoredIs DEF dbVars, writerVars
    <2>6. \A q \in Readers : /\ reader'[q].op = reader[q].op /\ reader'[q].key = reader[q].key
                             /\ reader'[q].current = reader[q].current
                             /\ Reading(q)' => Reading(q)
      BY <1>1, <2>3 DEF Reading
    <2>7. AllowedOK' /\ ReadsAreCurrent'
      BY <2>1, <2>5, <2>6 DEF RInv, AllowedOK, ReadsAreCurrent
    <2>8. ASSUME NEW q \in Readers, Reading(q)', q # r PROVE ReaderOK(q)'
      <3>1. Reading(q) /\ reader'[q] = reader[q]
        BY <2>3, <2>6, <2>8
      <3>2. reader[q].at \in Readers => reader[reader[q].at].at \in {"tmp", "persistent"}
        BY <3>1, RemoteMapAssumption DEF RInv, ReadersOK, ReaderOK, LookupOK, Step
      <3>3. reader[q].at \in Readers => reader'[reader[q].at].at \in {"tmp", "persistent"}
        BY <2>3, <3>2
      <3>4. Step(q)' = Step(q) \/ (Step(q)' = "persistent" /\ GoesOn(reader[q].key))
        <4>1. CASE reader[q].at = r
          <5>1. reader[q].key = k
            BY <1>1, <4>1, AwaitingReadTheSame DEF Awaiting, k
          <5>. QED
            BY <1>5, <2>3, <3>1, <4>1, <5>1 DEF Step
        <4>2. CASE reader[q].at # r
          BY <2>3, <3>1, <4>2 DEF Step
        <4>. QED
          BY <4>1, <4>2
      <3>. QED
        BY <2>1, <2>2, <2>6, <3>1, <3>3, <3>4, ReadGoesOn
    <2>9. ReaderOK(r)'
      <3>1. LookupOK(r) /\ reader[r].op \in {"get", "has"}
        BY <1>1 DEF RInv, ReadersOK, ReaderOK, Reading
      <3>2. Step(r)' = "persistent" /\ reader'[r].at \notin Readers
        BY <2>3, RemoteMapAssumption DEF Step
      <3>3. Stored[k] = persistent[k] /\ ~wasClearCalled
        BY <1>3, <1>5, StoredIs DEF GoesOn
      <3>4. LookupOK(r)'
        BY <2>1, <2>2, <2>3, <2>5, <3>1, <3>2, <3>3 DEF LookupOK, dbVars, k
      <3>. QED
        BY <2>3, <3>1, <3>4 DEF ReaderOK
    <2>10. ReadersOK'
      BY <2>8, <2>9 DEF ReadersOK
    <2>. QED
      BY <1>1, <2>4, <2>7, <2>10 DEF RInv
  <1>. QED
    BY <1>4, <1>5

LEMMA ReadPersistentRInv ==
  ASSUME RInv, CallersTakeCare, NEW r \in Readers, ReadPersistent(r)
  PROVE  RInv'
  <1>. DEFINE k == reader[r].key
  <1>1. IInv' /\ reader[r].at = "persistent" /\ Settle(r, persistent[k])
    BY ReadPersistentIInv DEF RInv, ReadPersistent
  <1>2. writer \in {"idle", "set", "setAll"}
    BY <1>1, ReadersMayRead DEF Reading, RInv
  <1>3. k \in Keys
    BY DEF RInv, IInv, Types, Reads
  <1>. HIDE DEF k
  <1>4. \A q \in Awaiting(r) : AnswerTo(reader[q].op, persistent[k]) \subseteq allowed[q]
    BY <1>1, AwaitingReadTheSame DEF LookupOK, k
  <1>5. ASSUME persistent[k] # None, delKeys = {} PROVE KeysOf(Data) # {}
    <2>1. ~wasClearCalled
      BY <1>1, AwaitingReadTheSame DEF LookupOK, Awaiting
    <2>2. Data[k] # None
      BY <1>2, <1>3, <1>5, <2>1, DataWhileReading, StoredIs DEF RInv
    <2>. QED
      BY <1>3, <2>2 DEF KeysOf
  <1>. QED
    BY <1>1, <1>2, <1>4, <1>5, SettlesRInv

\* If the map is taken for empty, the databases have nothing.
LEMMA NothingStored ==
  ASSUME RInv, isNamespaceEmpty = "yes", writer \in {"idle", "set"}
  PROVE  Stored = Nothing
  <1>1. tmp = Nothing /\ (wasClearCalled \/ persistent = Nothing)
    BY DEF RInv, IInv, EmptinessOK, KnowledgeOK, Operation, FlushStages
  <1>. QED
    BY <1>1, StoredIs, NothingIsContents DEF Nothing

\* What a read that starts now may observe.
LEMMA ObservableToLookups ==
  ASSUME NEW op \in {"get", "has"}, NEW k \in Keys, NEW v \in {Data[k]} \cup Outdated(k)
  PROVE  AnswerTo(op, v) \subseteq ObservableNow(op, k)
  <1>1. CASE v = Data[k]
    BY <1>1, ObservationsOfLookups DEF ObservableNow
  <1>2. CASE v \in Outdated(k) /\ op = "get"
    BY <1>2 DEF ObservableNow, AnswerTo
  <1>3. CASE v \in Outdated(k) /\ op = "has"
    BY <1>3 DEF ObservableNow, AnswerTo
  <1>. QED
    BY <1>1, <1>2, <1>3

LEMMA ObservableToListings ==
  ASSUME NEW k \in Keys, NEW v \in {Data[k]} \cup Outdated(k) \cup UnlistedYet
  PROVE  <<k, v>> \in ObservableNow("entries", AnyKey)
  <1>1. CASE v = Data[k]
    BY <1>1 DEF ObservableNow, Observations
  <1>2. CASE v \in Outdated(k) \cup UnlistedYet
    BY <1>2 DEF ObservableNow
  <1>. QED
    BY <1>1, <1>2

LEMMA StoredIsObservable ==
  ASSUME RInv, writer \in {"idle", "set", "setAll"}, NEW k \in Keys \ delKeys
  PROVE  Stored[k] \in {Data[k]} \cup Outdated(k)
  BY DataWhileReading DEF RInv, Outdated

LEMMA LookupStartsRInv ==
  ASSUME RInv, CallersTakeCare, NEW r \in Readers, NEW op \in {"get", "has"}, NEW k \in Keys,
         JoinRead(r, op, k) \/ ReadUncached(r, op, k)
  PROVE  RInv'
  <1>1. Read(r) /\ op \in ReadOps
    BY DEF Read, ReadOps
  <1>2. IInv'
    BY <1>1, ReadIInv DEF RInv
  <1>3. MayRead(r, op, k) /\ k \notin delKeys
    BY DEF JoinRead, ReadUncached, Lookup, MayRead, CallersTakeCare
  <1>4. writer \in {"idle", "set", "setAll"}
    BY <1>1, <1>3, ReadersMayRead DEF RInv
  <1>5. AnswerTo(op, Stored[k]) \subseteq ObservableNow(op, k)
    BY <1>3, <1>4, StoredIsObservable, ObservableToLookups
  <1>6. OvertakenChange
    BY <1>3 DEF JoinRead, ReadUncached, cacheVars, OvertakenChange, RInv, IInv, Types
  <1>7. PICK at : /\ Start(r, op, k, at, Nothing) /\ UNCHANGED isNamespaceEmpty
                  /\ \/ at \in Readers /\ cache[k] = at
                     \/ at = "tmp"
    BY DEF JoinRead, ReadUncached
  <1>8. /\ reader'[r].op = op /\ reader'[r].key = k /\ reader'[r].at = at
        /\ allowed'[r] = ObservableNow(op, k)
        /\ UNCHANGED <<dbVars, delKeys, wasClearCalled, writerVars>>
        /\ \A q \in Readers \ {r} : reader'[q] = reader[q]
    BY <1>7 DEF Start, RInv, IInv, Types, AllowedOK
  <1>9. AnswerTo(op, Stored[k]) \subseteq allowed'[r]
    BY <1>5, <1>8
  <1>10. Stored' = Stored
    BY <1>8, StoredIs DEF dbVars
  <1>11. LookupOK(r)'
    <2>1. CASE at = "tmp"
      BY <1>8, <1>9, <1>10, <2>1, RemoteMapAssumption DEF LookupOK, Step
    <2>2. CASE at \in Readers /\ cache[k] = at
      <3>1. /\ reader[at].at \in {"tmp", "persistent"} /\ reader[at].key = k
            /\ reader[at].at = "persistent" =>
                  ~wasClearCalled /\ (tmp[k] = None \/ persistent[k] \in overtaken[k])
        BY <2>2 DEF RInv, IInv, PromisesOK
      <3>2. at # r
        BY <1>3, <3>1 DEF MayRead, Reading
      <3>3. reader'[at] = reader[at] /\ Step(r)' = reader[at].at
        BY <1>8, <2>2, <3>2 DEF Step
      <3>4. ASSUME reader[at].at = "persistent"
            PROVE  AnswerTo(op, persistent[k]) \subseteq allowed'[r]
        <4>1. CASE tmp[k] = None
          BY <1>9, <3>1, <3>4, <4>1, StoredIs
        <4>2. CASE persistent[k] \in overtaken[k]
          BY <1>8, <4>2, ObservableToLookups DEF Outdated
        <4>. QED
          BY <3>1, <3>4, <4>1, <4>2
      <3>. QED
        BY <1>8, <1>9, <1>10, <2>2, <3>1, <3>3, <3>4, RemoteMapAssumption DEF LookupOK, dbVars
    <2>. QED
      BY <1>7, <2>1, <2>2
  <1>12. ReaderOK(r)'
    BY <1>8, <1>11 DEF ReaderOK
  <1>. QED
    BY <1>1, <1>2, <1>3, <1>6, <1>7, <1>12, StartedRInv

LEMMA IsEmptyStartsRInv ==
  ASSUME RInv, CallersTakeCare, NEW r \in Readers, IsEmptyStarts(r)
  PROVE  RInv'
  <1>. DEFINE found == [k \in Keys |-> IF k \in FirstKeys THEN Over(tmp, persistent)[k] ELSE None]
  <1>1. IInv' /\ AnyKey \in Keys /\ "isEmpty" \in ReadOps
    BY IterationStartsIInv, RemoteMapAssumption DEF RInv, AnyKey, Done, ReadOps
  <1>2. /\ MayRead(r, "isEmpty", AnyKey) /\ Start(r, "isEmpty", AnyKey, "iterating", found)
        /\ UNCHANGED isNamespaceEmpty /\ OvertakenChange
    BY DEF IsEmptyStarts, cacheVars, OvertakenChange
  <1>3. writer = "idle" /\ delKeys = {}
    BY <1>2 DEF MayRead, CallersTakeCare
  <1>4. Data = Stored
    <2>1. \A k \in Keys : pending[k] = None
      BY <1>3, IdleHasNothingPending DEF RInv
    <2>. QED
      BY <1>3, <2>1, DataWhileReading, StoredIs DEF RInv
  <1>5. tmp \in Contents /\ persistent \in Contents
    BY DEF RInv, IInv, Types
  <1>6. ASSUME KeysOf(found) = {}
        PROVE  tmp = Nothing /\ (wasClearCalled \/ persistent = Nothing)
    <2>1. \A k \in FirstKeys : k \in Keys => Over(tmp, persistent)[k] = None
      BY <1>6 DEF KeysOf
    <2>2. \A m \in {tmp, persistent} : \A k \in First(m) : k \in Keys /\ m[k] # None
      BY DEF First, KeysOf
    <2>3. FirstKeys = {}
      BY <2>1, <2>2 DEF FirstKeys, Over
    <2>. QED
      BY <1>5, <2>3, FirstExists DEF FirstKeys
  <1>7. ASSUME NEW k \in Keys, found[k] # None PROVE Data[k] # None
    <2>1. k \in FirstKeys
      BY <1>7
    <2>2. CASE k \in First(tmp)
      BY <1>4, <2>2, StoredIs DEF First, KeysOf
    <2>3. CASE k \in First(persistent) /\ ~wasClearCalled
      BY <1>4, <2>3, StoredIs DEF First, KeysOf
    <2>. QED
      BY <2>1, <2>2, <2>3 DEF FirstKeys
  <1>8. KeysOf(found) = {} <=> KeysOf(Data) = {}
    <2>1. KeysOf(found) = {} => KeysOf(Data) = {}
      BY <1>4, <1>6, StoredIs, NothingIsContents DEF KeysOf
    <2>2. KeysOf(Data) = {} => KeysOf(found) = {}
      BY <1>7 DEF KeysOf
    <2>. QED
      BY <2>1, <2>2
  <1>. HIDE DEF found
  <1>9. /\ reader'[r].op = "isEmpty" /\ reader'[r].at = "iterating" /\ reader'[r].found = found
        /\ UNCHANGED <<dbVars, delKeys, wasClearCalled, writerVars>>
    BY <1>2 DEF Start, RInv, IInv, Types
  <1>10. Data' = Data
    BY <1>9, DataStays DEF writerVars
  <1>11. ReaderOK(r)'
    BY <1>6, <1>8, <1>9, <1>10 DEF ReaderOK, IsEmptyOK, KeysOf, dbVars
  <1>. QED
    BY <1>1, <1>2, <1>11, StartedRInv

LEMMA EntriesStartRInv ==
  ASSUME RInv, CallersTakeCare, NEW r \in Readers, EntriesStart(r)
  PROVE  RInv'
  <1>1. IInv' /\ AnyKey \in Keys /\ "entries" \in ReadOps
    BY IterationStartsIInv, RemoteMapAssumption DEF RInv, AnyKey, Done, ReadOps
  <1>2. /\ MayRead(r, "entries", AnyKey) /\ Start(r, "entries", AnyKey, "iterating", Iterated)
        /\ UNCHANGED <<overtaken, isNamespaceEmpty>> /\ OvertakenChange
    BY DEF EntriesStart, cacheVars, OvertakenChange
  <1>3. writer \in {"idle", "set", "setAll"}
    BY <1>1, <1>2, ReadersMayRead DEF RInv
  <1>4. /\ reader'[r].op = "entries" /\ reader'[r].at = "iterating" /\ reader'[r].found = Iterated
        /\ allowed'[r] = ObservableNow("entries", AnyKey)
        /\ UNCHANGED <<dbVars, delKeys, wasClearCalled>>
    BY <1>2 DEF Start, RInv, IInv, Types, AllowedOK
  <1>5. \A k \in Keys \ delKeys : <<k, Stored[k]>> \in ObservableNow("entries", AnyKey)
    BY <1>3, StoredIsObservable, ObservableToListings
  <1>6. ASSUME NEW k \in Keys
        PROVE  <<k, Iterated[k]>> \in ObservableNow("entries", AnyKey)
               \/ (k \in delKeys /\ Iterated[k] # None)
    <2>1. CASE writer = "setAll" /\ isNamespaceEmpty = "yes"
      <3>1. Iterated[k] = None /\ None \in UnlistedYet
        BY <2>1, NothingIsContents DEF Iterated, UnlistedYet
      <3>. QED
        BY <3>1, ObservableToListings
    <2>2. CASE ~(writer = "setAll" /\ isNamespaceEmpty = "yes")
      <3>1. Iterated = Stored
        BY <1>3, <2>2, NothingStored DEF Iterated, Stored
      <3>2. CASE k \in delKeys /\ Stored[k] = None
        <4>1. Data[k] = None
          BY <1>3, <3>2, DataWhileReading DEF RInv
        <4>. QED
          BY <3>1, <3>2, <4>1, ObservableToListings
      <3>. QED
        BY <1>5, <3>1, <3>2
    <2>. QED
      BY <2>1, <2>2
  <1>7. \A k \in Keys : \A v \in overtaken[k] : <<k, v>> \in ObservableNow("entries", AnyKey)
    BY ObservableToListings DEF Outdated
  <1>8. Stored' = Stored
    BY <1>4, StoredIs DEF dbVars
  <1>9. ReaderOK(r)'
    BY <1>2, <1>4, <1>5, <1>6, <1>7, <1>8 DEF ReaderOK, EntriesOK
  <1>. QED
    BY <1>1, <1>2, <1>9, StartedRInv

LEMMA IterationEndsRInv ==
  ASSUME RInv, IInv', KnowledgeOK', NEW r \in Readers,
         reader[r].at = "iterating",
         reader' = [q \in Readers |-> IF q = r THEN Done(TRUE) ELSE reader[q]],
         allowed' = [q \in Readers |-> IF q = r THEN {} ELSE allowed[q]],
         UNCHANGED <<dbVars, overtaken, delKeys, wasClearCalled, writerVars>>
  PROVE  RInv'
  <1>1. Done(TRUE).at = "done" /\ Done(TRUE).current = TRUE
    BY DoneIsARead DEF Done
  <1>2. Data' = Data
    BY DataStays DEF writerVars
  <1>3. AllowedOK' /\ ReadsAreCurrent'
    BY <1>1, <1>2 DEF RInv, AllowedOK, ReadsAreCurrent, Reading
  <1>4. ReadersOK'
    <2>. SUFFICES ASSUME NEW q \in Readers, Reading(q)' PROVE ReaderOK(q)'
      BY DEF ReadersOK
    <2>1. q # r /\ Reading(q)
      BY <1>1 DEF Reading
    <2>2. reader[q].at # r
      BY <2>1, NobodyJoined
    <2>3. Step(q)' = Step(q)
      BY <2>1, <2>2 DEF Step
    <2>4. reader[q].at \in Readers => reader[reader[q].at].at \in {"tmp", "persistent"}
      BY <2>1, RemoteMapAssumption DEF RInv, ReadersOK, ReaderOK, LookupOK, Step
    <2>. QED
      BY <2>1, <2>2, <2>3, <2>4, ReadGoesOn DEF OvertakenChange
  <1>. QED
    BY <1>3, <1>4 DEF RInv

LEMMA IsEmptyEndsRInv ==
  ASSUME RInv, CallersTakeCare, NEW r \in Readers, IsEmptyEnds(r)
  PROVE  RInv'
  <1>. DEFINE isEmpty == KeysOf(reader[r].found) \ delKeys = {}
  <1>1. IInv'
    BY IterationEndsIInv DEF RInv
  <1>2. /\ reader[r].at = "iterating" /\ reader[r].op = "isEmpty"
        /\ isNamespaceEmpty' = IF isEmpty THEN "yes" ELSE "no"
        /\ Finish({r}, LAMBDA q : {isEmpty})
        /\ UNCHANGED <<dbVars, overtaken, delKeys, wasClearCalled, writerVars>>
    BY DEF IsEmptyEnds, cacheVars
  <1>3. Reading(r) /\ IsEmptyOK(r)
    BY <1>2 DEF RInv, ReadersOK, ReaderOK, Reading
  <1>4. writer = "idle" /\ delKeys = {}
    BY <1>2 DEF RInv, IInv, EmptinessOK
  <1>5. isEmpty <=> KeysOf(Data) = {}
    BY <1>3, <1>4 DEF IsEmptyOK
  <1>6. isEmpty => wasClearCalled \/ persistent = Nothing
    BY <1>3, <1>4 DEF IsEmptyOK
  <1>7. Observations(reader[r].op, reader[r].key, Data) = {isEmpty}
    <2>1. Observations("isEmpty", reader[r].key, Data) = {KeysOf(Data) = {}}
      BY DEF Observations
    <2>. QED
      BY <1>2, <1>5, <2>1
  <1>8. ({isEmpty} \subseteq allowed[r]) = TRUE
    BY <1>3, <1>7 DEF RInv, AllowedOK
  <1>9. /\ reader' = [q \in Readers |-> IF q = r THEN Done(TRUE) ELSE reader[q]]
        /\ allowed' = [q \in Readers |-> IF q = r THEN {} ELSE allowed[q]]
    BY <1>2, <1>8 DEF Finish
  <1>. HIDE DEF isEmpty
  <1>10. KnowledgeOK'
    BY <1>2, <1>4, <1>5, <1>6, KnowledgeAfterRead
  <1>. QED
    BY <1>1, <1>2, <1>9, <1>10, IterationEndsRInv

LEMMA EntriesEndRInv ==
  ASSUME RInv, CallersTakeCare, NEW r \in Readers, EntriesEnd(r)
  PROVE  RInv'
  <1>. DEFINE yielded == KeysOf(reader[r].found) \ delKeys
              value(k) == IF cache[k] \in Values THEN cache[k] ELSE reader[r].found[k]
              entry(k) == IF k \in yielded THEN value(k) ELSE None
              answer == {<<k, entry(k)>> : k \in Keys}
  <1>1. IInv'
    BY IterationEndsIInv DEF RInv
  <1>2. /\ reader[r].at = "iterating" /\ reader[r].op = "entries"
        /\ Finish({r}, LAMBDA q : answer)
        /\ UNCHANGED <<dbVars, memoryVars, writerVars>>
    BY DEF EntriesEnd
  <1>3. UNCHANGED <<overtaken, delKeys, wasClearCalled, isNamespaceEmpty>>
    BY <1>2 DEF memoryVars, cacheVars
  <1>4. Reading(r) /\ EntriesOK(r)
    BY <1>2 DEF RInv, ReadersOK, ReaderOK, Reading
  <1>5. writer \in {"idle", "set", "setAll"}
    BY <1>4, ReadersMayRead DEF RInv
  <1>6. \A k \in Keys : <<k, Data[k]>> \in allowed[r]
    <2>1. Observations("entries", reader[r].key, Data) = {<<k, Data[k]>> : k \in Keys}
      BY DEF Observations
    <2>. QED
      BY <1>2, <1>4, <2>1 DEF RInv, AllowedOK
  <1>7. ASSUME NEW k \in Keys PROVE <<k, entry(k)>> \in allowed[r]
    <2>1. CASE k \in delKeys
      <3>1. entry(k) = None /\ Data[k] = None
        BY <1>5, <2>1, DataWhileReading DEF RInv
      <3>. QED
        BY <1>6, <3>1
    <2>2. CASE k \notin delKeys /\ entry(k) = reader[r].found[k]
      BY <1>4, <2>2 DEF EntriesOK
    <2>3. CASE k \notin delKeys /\ entry(k) # reader[r].found[k]
      <3>1. k \in yielded /\ cache[k] \in Values /\ entry(k) = cache[k]
        BY <2>3 DEF KeysOf
      <3>2. cache[k] = Data[k] \/ cache[k] \in overtaken[k]
        BY <1>5, <2>3, <3>1 DEF RInv, IInv, CacheIsCoherent, Maybe, Operation, FlushStages
      <3>. QED
        BY <1>4, <1>6, <3>1, <3>2 DEF EntriesOK
    <2>. QED
      BY <2>1, <2>2, <2>3
  <1>8. (answer \subseteq allowed[r]) = TRUE
    BY <1>7
  <1>. HIDE DEF answer
  <1>9. /\ reader' = [q \in Readers |-> IF q = r THEN Done(TRUE) ELSE reader[q]]
        /\ allowed' = [q \in Readers |-> IF q = r THEN {} ELSE allowed[q]]
    BY <1>2, <1>8 DEF Finish
  <1>10. KnowledgeOK'
    BY <1>2, <1>3, <1>5, KnowledgeAfterRead
  <1>. QED
    BY <1>1, <1>2, <1>3, <1>4, <1>9, <1>10, IterationEndsRInv

LEMMA AnswersRInv ==
  ASSUME RInv, CallersTakeCare, NEW r \in Readers
  PROVE  /\ \A k \in Keys : GetDeleted(r, k) => RInv'
         /\ \A k \in Keys, op \in {"get", "has"} : ReadCached(r, op, k) => RInv'
         /\ IsEmptyKnown(r) => RInv'
  <1>1. ASSUME NEW k \in Keys, GetDeleted(r, k) PROVE RInv'
    <2>1. MayRead(r, "get", k) /\ k \in delKeys /\ AnswerAtOnce(r, "get", k, {None}) /\ UNCHANGED isNamespaceEmpty
      BY <1>1 DEF GetDeleted
    <2>2. writer \in {"idle", "set", "setAll"} /\ "get" \in ReadOps
      BY <2>1, ReadersMayRead DEF RInv, ReadOps
    <2>3. {None} \subseteq ObservableNow("get", k)
      BY <2>1, <2>2, DataWhileReading DEF RInv, Observations, ObservableNow
    <2>. QED
      BY <2>1, <2>2, <2>3, AnsweredAtOnceRInv
  <1>2. ASSUME NEW k \in Keys, NEW op \in {"get", "has"}, ReadCached(r, op, k) PROVE RInv'
    <2>1. /\ MayRead(r, op, k) /\ k \notin delKeys /\ cache[k] \in Maybe
          /\ AnswerAtOnce(r, op, k, AnswerTo(op, cache[k]))
          /\ isNamespaceEmpty' = EmptinessAfterFinding(cache[k])
      BY <1>2 DEF ReadCached, Lookup, MayRead, CallersTakeCare
    <2>2. writer \in {"idle", "set", "setAll"} /\ op \in ReadOps
      BY <2>1, ReadersMayRead DEF RInv, ReadOps
    <2>3. cache[k] = Data[k] \/ cache[k] \in overtaken[k]
      BY <2>1, <2>2 DEF RInv, IInv, CacheIsCoherent, Operation, FlushStages
    <2>4. AnswerTo(op, cache[k]) \subseteq ObservableNow(op, k)
      BY <2>3, ObservableToLookups DEF Outdated
    <2>5. cache[k] # None => KeysOf(Data) # {}
      BY <2>1, <2>3 DEF RInv, IInv, OvertakenOK, KeysOf
    <2>6. isNamespaceEmpty' = isNamespaceEmpty \/ (isNamespaceEmpty' = "no" /\ KeysOf(Data) # {})
      BY <2>1, <2>5 DEF EmptinessAfterFinding
    <2>. QED
      BY <2>1, <2>2, <2>4, <2>6, AnsweredAtOnceRInv
  <1>3. ASSUME IsEmptyKnown(r) PROVE RInv'
    <2>1. /\ MayRead(r, "isEmpty", AnyKey) /\ isNamespaceEmpty # "unknown"
          /\ AnswerAtOnce(r, "isEmpty", AnyKey, {isNamespaceEmpty = "yes"})
          /\ UNCHANGED isNamespaceEmpty
      BY <1>3 DEF IsEmptyKnown
    <2>2. writer = "idle" /\ delKeys = {} /\ AnyKey \in Keys /\ "isEmpty" \in ReadOps
      BY <2>1, RemoteMapAssumption DEF MayRead, CallersTakeCare, AnyKey, Done, ReadOps
    <2>3. isNamespaceEmpty = "yes" => KeysOf(Data) = {}
      <3>1. \A k \in Keys : pending[k] = None
        BY <2>2, IdleHasNothingPending DEF RInv
      <3>. QED
        BY <2>2, <3>1, NothingStored, NothingIsContents, DataWhileReading DEF RInv, KeysOf
    <2>4. isNamespaceEmpty = "no" => KeysOf(Data) # {}
      BY <2>2 DEF RInv, KnowledgeOK, Operation, FlushStages
    <2>5. isNamespaceEmpty \in {"yes", "no"}
      BY <2>1 DEF RInv, IInv, Types
    <2>6. (isNamespaceEmpty = "yes") = (KeysOf(Data) = {})
      BY <2>3, <2>4, <2>5
    <2>7. {isNamespaceEmpty = "yes"} \subseteq ObservableNow("isEmpty", AnyKey)
      BY <2>6 DEF Observations, ObservableNow
    <2>. QED
      BY <2>1, <2>2, <2>7, AnsweredAtOnceRInv
  <1>. QED
    BY <1>1, <1>2, <1>3

LEMMA NextRInv ==
  ASSUME CallersTakeCare, RInv, [Next]_vars
  PROVE  RInv'
  <1>1. CASE UNCHANGED vars
    <2>1. UNCHANGED <<tmp, persistent, cache, overtaken, delKeys, wasClearCalled, isNamespaceEmpty,
                      writer, pending, savedBefore, reader, allowed>>
      BY <1>1 DEF vars, dbVars, memoryVars, cacheVars, writerVars, readerVars
    <2>2. Data' = Data /\ Stored' = Stored /\ IInv'
      BY <1>1, <2>1, DataStays, StoredIs, NextIInv DEF dbVars, RInv
    <2>3. KnowledgeOK' /\ AllowedOK' /\ ReadsAreCurrent'
      BY <2>1, <2>2 DEF RInv, KnowledgeOK, AllowedOK, ReadsAreCurrent, Reading, KeysOf
    <2>4. ReadersOK'
      BY <2>1, <2>2 DEF RInv, ReadersOK, ReaderOK, LookupOK, IsEmptyOK, EntriesOK, Step, Reading, KeysOf
    <2>. QED
      BY <2>2, <2>3, <2>4 DEF RInv
  <1>2. CASE Write
    <2>1. ASSUME NEW k \in Keys, NEW v \in Values, Set(k, v) PROVE RInv'
      BY <2>1, SetRInv
    <2>2. ASSUME NEW k \in Keys, NEW v \in Values, SetAllEntry(k, v) PROVE RInv'
      BY <2>2, SetAllEntryRInv
    <2>3. ASSUME NEW k \in Keys, Delete(k) PROVE RInv'
      BY <2>3, DeleteRInv
    <2>. QED
      BY <1>2, <2>1, <2>2, <2>3, EntriesWrittenRInv, SetAllEndsRInv, ClearRInv, FlushRInv DEF Write
  <1>3. CASE Reopen
    BY <1>3, ReopenRInv
  <1>4. ASSUME NEW k \in Keys, Evict(k) PROVE RInv'
    BY <1>4, EvictRInv
  <1>5. ASSUME NEW r \in Readers, Read(r) PROVE RInv'
    BY <1>5, AnswersRInv, LookupStartsRInv, ReadTmpRInv, ReadPersistentRInv,
       IsEmptyStartsRInv, IsEmptyEndsRInv, EntriesStartRInv, EntriesEndRInv DEF Read
  <1>. QED
    BY <1>1, <1>2, <1>3, <1>4, <1>5 DEF Next

\* Every read answers with something that was true at some moment while it ran
\* (getImpl, getFromDb, has, isEmpty, entriesImpl of remote_map.ts), of a key that
\* is being written or was overtaken with the value of the databases or the cache,
\* if callers take care.
THEOREM ReadsAreAlwaysCurrent == CallersTakeCare => (Spec => []ReadsAreCurrent)
  <1>. SUFFICES ASSUME CallersTakeCare PROVE Spec => []ReadsAreCurrent
    OBVIOUS
  <1>1. RInv => ReadsAreCurrent
    BY DEF RInv
  <1>. QED
    BY <1>1, RInvInit, NextRInv, PTL DEF Spec

\* What TLC refutes for careless callers: a map that is taken for empty, so that
\* a flush would lose its entries, is empty if callers take care (isEmpty of
\* remote_map.ts): they read nothing during a clear or a flush, ask isEmpty only
\* when no deletion waits for a flush, and change nothing until it is answered.
THEOREM KnownEmptyIsEmptyForTheCareful == CallersTakeCare => (Spec => []KnownEmptyIsEmpty)
  <1>. SUFFICES ASSUME CallersTakeCare PROVE Spec => []KnownEmptyIsEmpty
    OBVIOUS
  <1>1. ASSUME RInv, isNamespaceEmpty = "yes", writer = "idle" PROVE KeysOf(Data) = {}
    <2>1. \A k \in Keys : pending[k] = None
      BY <1>1, IdleHasNothingPending DEF RInv
    <2>. QED
      BY <1>1, <2>1, NothingStored, NothingIsContents, DataWhileReading DEF RInv, KeysOf
  <1>2. RInv => KnownEmptyIsEmpty
    BY <1>1 DEF KnownEmptyIsEmpty
  <1>. QED
    BY <1>2, RInvInit, NextRInv, PTL DEF Spec

=============================================================================
