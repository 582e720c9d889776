----------------------------- MODULE RemoteMap -----------------------------
(***************************************************************************)
(* A persistent remote map of                                              *)
(* packages/local-workspace/src/remote_map/remote_map.ts: a key-value map  *)
(* kept in two RocksDB databases.  Changes go to a temporary database that *)
(* belongs to this object and are moved to the persistent one by flush;    *)
(* deletions are only remembered (delKeys) until then.  In front of both   *)
(* is an LRU cache of promises, and isNamespaceEmpty remembers what is     *)
(* known about the emptiness of the map.                                   *)
(*                                                                         *)
(* Every await is a point where other calls proceed.  One writer calls the *)
(* operations that change the map, one after the other; any number of      *)
(* readers read meanwhile, except during the operations in Exclusive.      *)
(* Nothing in the code enforces either: these are the callers' duties.  A  *)
(* database writes a batch atomically.  The cache may drop any entry at    *)
(* any time, since all the maps of a location share one of limited size.   *)
(***************************************************************************)
EXTENDS Naturals, FiniteSets

CONSTANTS
    Keys,       \* numbers: the order of the keys in the databases
    Values, None, NotCached,
    Readers,    \* reader ids; an id also stands for its pending promise
    Exclusive,  \* operations during which callers do not read
    Careful     \* callers ask has and isEmpty only when no deletion waits for
                \* a flush, change nothing while isEmpty is answered, and set
                \* no deleted key again while entries are listed

ASSUME RemoteMapAssumption ==
    /\ Keys \subseteq Nat /\ Keys # {}
    /\ None \notin Values /\ NotCached \notin Values /\ None # NotCached
    /\ Readers \cap (Values \cup {None, NotCached}) = {}
    /\ Readers \cap {"tmp", "persistent", "iterating", "done"} = {}
    /\ Exclusive \subseteq {"set", "setAll", "delete", "clear", "flush"}
    /\ "clear" \in Exclusive
    /\ Careful \in BOOLEAN

VARIABLES
    tmp, persistent,    \* the databases: key -> value or None
    cache,              \* key -> what locationCache has for it
    delKeys, wasClearCalled, isNamespaceEmpty,
    writer,             \* where the writer's call awaits
    pending,            \* the entry of its set, or of setAll's next batch
    overtaken,          \* key -> the value that the databases had when a get
                        \* looked there while its entry was being written, if
                        \* the cache still has what that get found
    savedBefore,        \* what persistent held when its flush began
    reader,             \* reader -> its read
    allowed             \* reader -> the observations it may make

dbVars == <<tmp, persistent>>
cacheVars == <<cache, overtaken>>
memoryVars == <<cacheVars, delKeys, wasClearCalled, isNamespaceEmpty>>
writerVars == <<writer, pending, savedBefore>>
readerVars == <<reader, allowed>>
vars == <<dbVars, memoryVars, writerVars, readerVars>>

Maybe == Values \cup {None}
Contents == [Keys -> Maybe]
Nothing == [k \in Keys |-> None]
KeysOf(m) == {k \in Keys : m[k] # None}
Over(upper, lower) == [k \in Keys |-> IF upper[k] = None THEN lower[k] ELSE upper[k]]

FlushStages == {"flush", "flush written", "flush tmp cleared", "flush deleted"}
WriterStages == {"idle", "set", "setAll", "clear", "clear tmp"} \cup FlushStages
Operation(stage) ==
    IF stage \in FlushStages THEN "flush"
    ELSE IF stage \in {"clear", "clear tmp"} THEN "clear" ELSE stage

ReadOps == {"get", "has", "isEmpty", "entries"}

\* A read that is over; "current" tells whether its answer was right.
Done(current) == [op |-> "get", key |-> CHOOSE k \in Keys : TRUE, at |-> "done",
                  found |-> Nothing, current |-> current]

Init ==
    /\ tmp = Nothing /\ persistent = Nothing
    /\ cache = [k \in Keys |-> NotCached] /\ overtaken = [k \in Keys |-> {}]
    /\ delKeys = {} /\ wasClearCalled = FALSE /\ isNamespaceEmpty = "unknown"
    /\ writer = "idle" /\ pending = Nothing /\ savedBefore = Nothing
    /\ reader = [r \in Readers |-> Done(TRUE)]
    /\ allowed = [r \in Readers |-> {}]

----------------------------------------------------------------------------
(* What the map contains.  savedBefore, overtaken, allowed and the field     *)
(* "current" of a read are kept only to state what is promised.              *)

Data ==
    [k \in Keys |->
       IF Operation(writer) = "clear" \/ k \in delKeys THEN None
       ELSE IF pending[k] # None THEN pending[k]
       ELSE IF tmp[k] # None THEN tmp[k]
       ELSE IF wasClearCalled /\ writer \in WriterStages \ {"flush tmp cleared", "flush deleted"}
         THEN None
       ELSE persistent[k]]

\* What the databases have, whatever was deleted or is about to be written.
Stored == Over(tmp, IF wasClearCalled THEN Nothing ELSE persistent)

Observations(op, key, data) ==
    CASE op = "get" -> {data[key]}
      [] op = "has" -> {data[key] # None}
      [] op = "isEmpty" -> {KeysOf(data) = {}}
      [] op = "entries" -> {<<k, data[k]>> : k \in Keys}

Reading(r) == reader[r].at # "done"

\* Reads in progress may observe the new data from here on.
DataMayBeObserved ==
    allowed' = [r \in Readers |->
                  IF Reading(r) THEN allowed[r] \cup Observations(reader[r].op, reader[r].key, Data')
                  ELSE allowed[r]]

----------------------------------------------------------------------------
(* The writer. *)

MayStart(op) ==
    /\ writer = "idle"
    /\ op \in Exclusive => \A r \in Readers : ~Reading(r)
    /\ Careful => \A r \in Readers : ~(Reading(r) /\ reader[r].op = "isEmpty")

\* A listing would yield the value that such a key had before it was deleted,
\* if the cache no longer has the new one.
MaySetAgain(k) ==
    Careful /\ k \in delKeys => \A r \in Readers : ~(Reading(r) /\ reader[r].op = "entries")

\* Mistaken variant of TakeEntry: the cache keeps what it had.
TakeEntryUncached(k, v) ==
    /\ MaySetAgain(k)
    /\ delKeys' = delKeys \ {k}
    /\ pending' = [pending EXCEPT ![k] = v]
    /\ UNCHANGED <<dbVars, cacheVars, wasClearCalled, savedBefore, reader>>
    /\ DataMayBeObserved

\* An entry is cached, and no longer deleted.
TakeEntry(k, v) ==
    /\ MaySetAgain(k)
    /\ delKeys' = delKeys \ {k}
    /\ cache' = [cache EXCEPT ![k] = v]
    /\ overtaken' = [overtaken EXCEPT ![k] = {}]
    /\ pending' = [pending EXCEPT ![k] = v]
    /\ UNCHANGED <<dbVars, wasClearCalled, savedBefore, reader>>
    /\ DataMayBeObserved

Set(k, v) ==
    /\ MayStart("set")
    /\ writer' = "set"
    /\ isNamespaceEmpty' = "no"
    /\ TakeEntry(k, v)

\* setAll takes its first entry, or the next one, from what it iterates over.
SetAllEntry(k, v) ==
    /\ MayStart("setAll") \/ writer = "setAll"
    /\ writer' = "setAll"
    /\ TakeEntry(k, v)
    /\ UNCHANGED isNamespaceEmpty

\* The put of set, or a batch of setAll, is written to the temporary database.
EntriesWritten ==
    /\ pending # Nothing
    /\ tmp' = Over(pending, tmp)
    /\ pending' = Nothing
    /\ writer' = IF writer = "set" THEN "idle" ELSE writer
    /\ UNCHANGED <<persistent, memoryVars, savedBefore, readerVars>>

SetAllEnds ==
    /\ writer = "setAll" /\ pending = Nothing
    /\ writer' = "idle"
    /\ isNamespaceEmpty' = "unknown"
    /\ UNCHANGED <<dbVars, cacheVars, delKeys, wasClearCalled, pending, savedBefore, readerVars>>

\* delete: nothing is removed from a database, nor, as its key in the cache is
\* another one, from the cache.  (deleteAll calls it for each key.)
Delete(k) ==
    /\ MayStart("delete")
    /\ delKeys' = delKeys \cup {k}
    /\ isNamespaceEmpty' = "unknown"
    /\ UNCHANGED <<dbVars, cacheVars, wasClearCalled, writerVars, reader>>
    /\ DataMayBeObserved

Clear ==
    /\ MayStart("clear")
    /\ writer' = "clear"
    /\ cache' = [k \in Keys |-> NotCached] /\ overtaken' = [k \in Keys |-> {}]
    /\ UNCHANGED <<dbVars, delKeys, wasClearCalled, isNamespaceEmpty, pending, savedBefore, reader>>
    /\ DataMayBeObserved

ClearTmp ==
    /\ writer = "clear"
    /\ writer' = "clear tmp"
    /\ tmp' = Nothing
    /\ UNCHANGED <<persistent, memoryVars, pending, savedBefore, readerVars>>

ClearEnds ==
    /\ writer = "clear tmp"
    /\ writer' = "idle"
    /\ wasClearCalled' = TRUE
    /\ isNamespaceEmpty' = "yes"
    /\ UNCHANGED <<dbVars, cacheVars, delKeys, pending, savedBefore, readerVars>>

\* flush, up to and with the removal of what was there before a clear.
Flush ==
    /\ MayStart("flush")
    /\ writer' = "flush"
    /\ savedBefore' = persistent
    /\ persistent' = IF wasClearCalled THEN Nothing ELSE persistent
    /\ UNCHANGED <<tmp, memoryVars, pending, readerVars>>

\* What batchUpdate makes of isNamespaceEmpty; it was given "keys".
EmptinessAfterBatch(keys) == IF keys = {} THEN isNamespaceEmpty ELSE "unknown"

\* The iterator over the temporary database yields nothing if the map is known
\* to be empty.
TmpIterated == IF isNamespaceEmpty = "yes" THEN Nothing ELSE tmp

FlushWrites ==
    /\ writer = "flush"
    /\ writer' = "flush written"
    /\ persistent' = Over(TmpIterated, persistent)
    /\ isNamespaceEmpty' = EmptinessAfterBatch(KeysOf(TmpIterated))
    /\ UNCHANGED <<tmp, cacheVars, delKeys, wasClearCalled, pending, savedBefore, readerVars>>

FlushClearsTmp ==
    /\ writer = "flush written"
    /\ writer' = "flush tmp cleared"
    /\ tmp' = Nothing
    /\ UNCHANGED <<persistent, memoryVars, pending, savedBefore, readerVars>>

\* Mistaken variant of FlushDeletes: deletions reach the temporary database only.
FlushDeletesInTmp ==
    /\ writer = "flush tmp cleared"
    /\ writer' = "flush deleted"
    /\ isNamespaceEmpty' = EmptinessAfterBatch(delKeys)
    /\ UNCHANGED <<dbVars, cacheVars, delKeys, wasClearCalled, pending, savedBefore, readerVars>>

\* delKeys stays as it is: its keys remain deleted until they are set again.
FlushDeletes ==
    /\ writer = "flush tmp cleared"
    /\ writer' = "flush deleted"
    /\ persistent' = [k \in Keys |-> IF k \in delKeys THEN None ELSE persistent[k]]
    /\ isNamespaceEmpty' = EmptinessAfterBatch(delKeys)
    /\ UNCHANGED <<tmp, cacheVars, delKeys, wasClearCalled, pending, savedBefore, readerVars>>

FlushEnds ==
    /\ writer = "flush deleted"
    /\ writer' = "idle"
    /\ wasClearCalled' = FALSE
    /\ UNCHANGED <<dbVars, cacheVars, delKeys, isNamespaceEmpty, pending, savedBefore, readerVars>>

\* The process ends or crashes, and another one opens the map; its temporary
\* database is a new one.
Reopen ==
    /\ tmp' = Nothing
    /\ cache' = [k \in Keys |-> NotCached] /\ overtaken' = [k \in Keys |-> {}]
    /\ delKeys' = {} /\ wasClearCalled' = FALSE /\ isNamespaceEmpty' = "unknown"
    /\ writer' = "idle" /\ pending' = Nothing /\ savedBefore' = persistent
    /\ reader' = [r \in Readers |-> Done(TRUE)]
    /\ allowed' = [r \in Readers |-> {}]
    /\ UNCHANGED persistent

\* The LRU cache drops an entry, be it that of a write in progress.
Evict(k) ==
    /\ cache[k] # NotCached
    /\ cache' = [cache EXCEPT ![k] = NotCached]
    /\ overtaken' = [overtaken EXCEPT ![k] = {}]
    /\ UNCHANGED <<dbVars, delKeys, wasClearCalled, isNamespaceEmpty, writerVars, readerVars>>

----------------------------------------------------------------------------
(* The readers. *)

MayRead(r, op, k) ==
    /\ ~Reading(r)
    /\ Operation(writer) \notin Exclusive
    /\ Careful /\ op = "has" => k \notin delKeys
    /\ Careful /\ op = "isEmpty" => delKeys = {} /\ writer = "idle"

\* The values of a key that its entry is about to replace, or has replaced
\* everywhere but in the cache.
Outdated(k) == overtaken[k] \cup IF pending[k] = None THEN {} ELSE {Stored[k]}

\* A listing yields nothing of a map that was known to be empty before a setAll,
\* until the setAll ends.
UnlistedYet == IF writer = "setAll" /\ isNamespaceEmpty = "yes" THEN {None} ELSE {}

\* What a read that starts now may observe, before anything else changes.
ObservableNow(op, key) ==
    Observations(op, key, Data) \cup
    CASE op = "get" -> Outdated(key)
      [] op = "has" -> {v # None : v \in Outdated(key)}
      [] op = "isEmpty" -> {}
      [] op = "entries" -> UNION {{<<k, v>> : v \in Outdated(k) \cup UnlistedYet} : k \in Keys}

\* A read starts and awaits at stage "at"; "found" is what it saw so far.
Start(r, op, k, at, found) ==
    /\ reader' = [reader EXCEPT ![r] = [op |-> op, key |-> k, at |-> at,
                                        found |-> found, current |-> TRUE]]
    /\ allowed' = [allowed EXCEPT ![r] = ObservableNow(op, k)]
    /\ UNCHANGED <<dbVars, delKeys, wasClearCalled, writerVars>>

\* A read is answered without a database.
AnswerAtOnce(r, op, k, answer) ==
    /\ reader' = [reader EXCEPT ![r] = Done(answer \subseteq ObservableNow(op, k))]
    /\ UNCHANGED <<dbVars, cacheVars, delKeys, wasClearCalled, writerVars, allowed>>

\* The readers rs are answered.
Finish(rs, Answer(_)) ==
    /\ reader' = [q \in Readers |-> IF q \in rs THEN Done(Answer(q) \subseteq allowed[q])
                                    ELSE reader[q]]
    /\ allowed' = [q \in Readers |-> IF q \in rs THEN {} ELSE allowed[q]]

AnswerTo(op, v) == IF op = "has" THEN {v # None} ELSE {v}
EmptinessAfterFinding(v) == IF v # None THEN "no" ELSE isNamespaceEmpty

\* get of a deleted key.
GetDeleted(r, k) ==
    /\ MayRead(r, "get", k)
    /\ k \in delKeys
    /\ AnswerAtOnce(r, "get", k, {None})
    /\ UNCHANGED isNamespaceEmpty

Lookup(r, op, k) == MayRead(r, op, k) /\ (op = "has" \/ k \notin delKeys)

\* get or has of a key whose promise in the cache is settled ...
ReadCached(r, op, k) ==
    /\ Lookup(r, op, k)
    /\ cache[k] \in Maybe
    /\ AnswerAtOnce(r, op, k, AnswerTo(op, cache[k]))
    /\ isNamespaceEmpty' = EmptinessAfterFinding(cache[k])

\* ... or is the promise of another reader, that it will await ...
JoinRead(r, op, k) ==
    /\ Lookup(r, op, k)
    /\ cache[k] \in Readers
    /\ Start(r, op, k, cache[k], Nothing)
    /\ UNCHANGED <<cacheVars, isNamespaceEmpty>>

\* ... or of a key that is not cached; get then caches its own promise.
ReadUncached(r, op, k) ==
    /\ Lookup(r, op, k)
    /\ cache[k] = NotCached
    /\ Start(r, op, k, "tmp", Nothing)
    /\ cache' = [cache EXCEPT ![k] = IF op = "get" THEN r ELSE @]
    /\ overtaken' = [overtaken EXCEPT ![k] = IF op = "get" THEN Outdated(k) ELSE @]
    /\ UNCHANGED isNamespaceEmpty

Awaiting(r) == {q \in Readers : q = r \/ reader[q].at = r}

\* Mistaken variant of Settle: the cached promise stays unsettled.
SettleOnlyReaders(r, v) ==
    /\ Finish(Awaiting(r), LAMBDA q : AnswerTo(reader[q].op, v))
    /\ isNamespaceEmpty' = EmptinessAfterFinding(v)
    /\ UNCHANGED <<dbVars, cacheVars, delKeys, wasClearCalled, writerVars>>

\* The databases' value of its key is v: its promise settles, and with it the
\* reads that joined it.
Settle(r, v) ==
    /\ Finish(Awaiting(r), LAMBDA q : AnswerTo(reader[q].op, v))
    /\ cache' = [k \in Keys |-> IF cache[k] = r THEN v ELSE cache[k]]
    /\ isNamespaceEmpty' = EmptinessAfterFinding(v)
    /\ UNCHANGED <<dbVars, overtaken, delKeys, wasClearCalled, writerVars>>

\* Mistaken variant of GoesOn: the persistent database is read after a clear too.
GoesOnAlways(k) == tmp[k] = None
GoesOn(k) == tmp[k] = None /\ ~wasClearCalled

ReadTmp(r) ==
    /\ reader[r].at = "tmp"
    /\ LET k == reader[r].key IN
         IF GoesOn(k)
         THEN /\ reader' = [reader EXCEPT ![r].at = "persistent"]
              /\ UNCHANGED <<dbVars, memoryVars, writerVars, allowed>>
         ELSE Settle(r, tmp[k])

ReadPersistent(r) ==
    /\ reader[r].at = "persistent"
    /\ Settle(r, persistent[reader[r].key])

\* The databases' iterators see what is there when they are created.
Iterated == IF isNamespaceEmpty = "yes" THEN Nothing
            ELSE Over(tmp, IF wasClearCalled THEN Nothing ELSE persistent)

First(m) == {k \in KeysOf(m) : \A j \in KeysOf(m) : k <= j}

\* The keys that keysImpl({ first: 1 }) gets from the databases.
FirstKeys == First(tmp) \cup (IF wasClearCalled THEN {} ELSE First(persistent))

AnyKey == Done(TRUE).key

IsEmptyKnown(r) ==
    /\ MayRead(r, "isEmpty", AnyKey)
    /\ isNamespaceEmpty # "unknown"
    /\ AnswerAtOnce(r, "isEmpty", AnyKey, {isNamespaceEmpty = "yes"})
    /\ UNCHANGED isNamespaceEmpty

IsEmptyStarts(r) ==
    /\ MayRead(r, "isEmpty", AnyKey)
    /\ isNamespaceEmpty = "unknown"
    /\ Start(r, "isEmpty", AnyKey, "iterating",
             [k \in Keys |-> IF k \in FirstKeys THEN Over(tmp, persistent)[k] ELSE None])
    /\ UNCHANGED <<cacheVars, isNamespaceEmpty>>

IsEmptyEnds(r) ==
    /\ reader[r].at = "iterating" /\ reader[r].op = "isEmpty"
    /\ LET isEmpty == KeysOf(reader[r].found) \ delKeys = {} IN
         /\ isNamespaceEmpty' = IF isEmpty THEN "yes" ELSE "no"
         /\ Finish({r}, LAMBDA q : {isEmpty})
    /\ UNCHANGED <<dbVars, cacheVars, delKeys, wasClearCalled, writerVars>>

EntriesStart(r) ==
    /\ MayRead(r, "entries", AnyKey)
    /\ Start(r, "entries", AnyKey, "iterating", Iterated)
    /\ UNCHANGED <<cacheVars, isNamespaceEmpty>>

\* Deleted entries are left out, and cached values preferred.
EntriesEnd(r) ==
    /\ reader[r].at = "iterating" /\ reader[r].op = "entries"
    /\ LET yielded == KeysOf(reader[r].found) \ delKeys
           value(k) == IF cache[k] \in Values THEN cache[k] ELSE reader[r].found[k] IN
         /\ \A k \in yielded : cache[k] \notin Readers
         /\ Finish({r}, LAMBDA q : {<<k, IF k \in yielded THEN value(k) ELSE None>> : k \in Keys})
    /\ UNCHANGED <<dbVars, memoryVars, writerVars>>

----------------------------------------------------------------------------

Write ==
    \/ \E k \in Keys, v \in Values : Set(k, v) \/ SetAllEntry(k, v)
    \/ EntriesWritten \/ SetAllEnds
    \/ \E k \in Keys : Delete(k)
    \/ Clear \/ ClearTmp \/ ClearEnds
    \/ Flush \/ FlushWrites \/ FlushClearsTmp \/ FlushDeletes \/ FlushEnds

Read(r) ==
    \/ \E k \in Keys : GetDeleted(r, k)
    \/ \E k \in Keys, op \in {"get", "has"} :
         ReadCached(r, op, k) \/ JoinRead(r, op, k) \/ ReadUncached(r, op, k)
    \/ ReadTmp(r) \/ ReadPersistent(r)
    \/ IsEmptyKnown(r) \/ IsEmptyStarts(r) \/ IsEmptyEnds(r)
    \/ EntriesStart(r) \/ EntriesEnd(r)

Next == Write \/ Reopen \/ (\E k \in Keys : Evict(k)) \/ (\E r \in Readers : Read(r))

Spec == Init /\ [][Next]_vars

----------------------------------------------------------------------------
(* What the map promises. *)

\* Types; and a promise in the cache is that of a reader that is still reading
\* that key, so every pending promise settles with its read.
TypeOK ==
    /\ tmp \in Contents /\ persistent \in Contents
    /\ cache \in [Keys -> Maybe \cup {NotCached} \cup Readers]
    /\ overtaken \in [Keys -> SUBSET Maybe]
    /\ delKeys \subseteq Keys /\ wasClearCalled \in BOOLEAN
    /\ isNamespaceEmpty \in {"unknown", "yes", "no"}
    /\ writer \in WriterStages
    /\ pending \in Contents /\ savedBefore \in Contents
    /\ \A r \in Readers : reader[r].op \in ReadOps /\ reader[r].found \in Contents
    /\ \A k \in Keys : cache[k] \in Readers =>
          reader[cache[k]].at \in {"tmp", "persistent"} /\ reader[cache[k]].key = k

\* What the cache has for a key is what the map contains, whatever was set,
\* cleared, flushed or evicted while the value was being read: but for a get that
\* found the cached entry evicted before it was written.  What such a get found
\* stays in the cache, and is never anything but the value of the databases then.
CacheIsCoherent ==
    \A k \in Keys \ delKeys :
        cache[k] \in Maybe /\ Operation(writer) # "clear" =>
            cache[k] = Data[k] \/ cache[k] \in overtaken[k]

\* A map that is taken for empty is empty: iterators, and the one that flush
\* saves the map with, yield nothing then.
KnownEmptyIsEmpty ==
    isNamespaceEmpty = "yes" /\ writer = "idle" => KeysOf(Data) = {}

\* A read answers with something that was true at some moment while it ran: of
\* a key that is being written, the value of the databases or the new one, and of
\* a key that was overtaken, what the cache has.
ReadsAreCurrent ==
    \A r \in Readers : reader[r].current

\* However it is spread over the databases, the map changes by calls only, a
\* flush saves exactly its contents, and nothing but a flush changes what is
\* saved.
Saved == INSTANCE SavedMap WITH
    data <- Data,
    saved <- IF Operation(writer) = "flush" THEN savedBefore ELSE persistent,
    saving <- Operation(writer) = "flush"
SavesItsContents == Saved!Spec

============================================================================
