# Verification of Salto

TLA+ models, TLC configurations and TLAPS proofs for [Salto](../src/README.md), a
tool that keeps the configuration of business services (Salesforce, Jira, ...) as
text. Salto *fetches* elements from services through adapters, keeps them in a
workspace (NaCl files, a state, caches in RocksDB), and *deploys* changes by
computing a plan and executing it against the services. It is TypeScript on one
event loop per process: there is no preemption, and everything between two
`await`s is atomic. What goes wrong goes wrong at the awaits, when a process ends
between two writes, and between processes that share a DynamoDB table. The models
are about exactly that; text, layout and the deep values of elements are left out.

Contents: [inventory](#inventory), [modules](#modules), [runs](#what-the-runs-check-and-show),
[findings](#what-was-found), [proofs](#what-is-proved), [limits](#assumptions-and-limits),
[plan](#plan).

## Inventory

The repository is a monorepo, `src/packages/*`. `PROJECT.json` lists the parts with
their files and status. About eighteen of the packages are service adapters, some
are front ends; the logic of the program itself is in the parts below.

| Part | State | Operations | Interacts with | What is hard, and what has to hold |
|---|---|---|---|---|
| `dag`: `nodemap.ts` | a map from nodes to the nodes they depend on, its inverse, the error map of a walk | `addNode`, `deleteNode`, `walkAsync`, `walkSync`, cycle search, edge removal | called by the deployment, resource fetch, template expansion, grouping | handlers finish in any order; failures, fatal errors, cycles. Evaluation order, each node once, exact skips, the walk ends |
| `dag`: `group.ts` | graphs of groups | `buildAcyclicGroupedGraph`, cycle breaking | called by the plan | the loop makes progress, no cycle is left, dependencies between elements are kept |
| `core`: plan | diff graph | compare, filter invalid changes, group | dag; validators of adapters | removing a change removes what depends on it and nothing else |
| `core`: `deploy_actions.ts`, `api.ts` | results, errors, statuses; the plan's elements | `deployActions`, `postDeployAction` | walks the plan (dag), calls adapters, updates the state | concurrent items, partly applied groups, failures between applying and recording |
| `core`: `fetch.ts` | none | three-way comparison of workspace, state and service | adapters, workspace | which change is a conflict, which is applied |
| `workspace`: state, `in_mem.ts` | elements, accounts, hash, in remote maps | get/set/remove, `updateStateFromChanges` | remote maps; written by deploy and fetch | read, await, write |
| `workspace`: merged elements cache | merged elements, errors, hashes in several remote maps | `mergeComponents`, `flush`, `clear` | remote maps; every elements source | several maps have to belong together, over crashes too |
| `workspace`: NaCl file sources | parsed files, pending changes | `setNaclFiles`, `updateNaclFiles`, routing | merged elements cache, directory stores | mostly data |
| `local-workspace`: `remote_map.ts` | two RocksDB databases, LRU cache of promises, deleted keys, flags | get, set, setAll, delete, clear, flush, has, isEmpty, iterators | shared by the state, the caches and the file sources | interleavings at every await, lazily known emptiness, crash in a flush |
| `local-workspace`: `state.ts` | state files, dirty flag, hash | `flush`, `clear`, load | in-memory state, content providers | files, hash and cached copy are written one after the other |
| `persistent-pool`: `dynamodb_repo.ts` | one item per instance with version, lease holder, expiry | `register`, `unregister`, `lease`, `waitForLease`, `updateTimeout`, `suspend`, `return` | many processes share one table | optimistic locking, leases that run out, stale reads |
| `persistent-pool`: `renewed_lease.ts` | a timer, the lease | construct, renew, return | the pool | a renewal races the expiry and the return |
| `e2e-credentials-store`: `creds.ts` | the run's account | lease, validate, suspend, renew | the pool, renewed leases | two test runs never share an account |
| `adapter-components`: rate limiter | queues, counters, timers | add, pause, resume, clear | clients of all adapters | limits under retries and `clear()`; calls that never settle |
| `adapter-components`: deployment, resource fetch | results and errors per type | `deployChanges`, `fetch` | dag walks | failures of dependencies, errors that end everything |
| `adapter-components`: client, polling, pagination | counters | request, retry, poll, page | services | retries, timeouts, pages seen twice |
| `lowerdash`, `logging`, `file`, `adapter-api`, `adapter-utils` | none or little | helpers | everywhere | - |
| `parser`, merger, expressions | none | pure functions over texts and values | workspace | data |
| service adapters | clients | fetch, deploy | external services | control is that of adapter-components |
| `cli`, `lang-server`, `vscode` | - | input and output | core | - |

The hazards these parts are exposed to, each at its line and with the properties
that would catch it going wrong, are listed under `hazards` in `PROJECT.json`;
those without a property yet say which module of the plan is to cover them.

## Modules

Definitions keep the names of the source where there is one. In every module the
operators called "mistaken variant" take no part in the specification: they are
plausible bugs, against which each property was tried. `map` in `PROJECT.json`
gives the source lines of every definition.

### Walks over dependency maps (`packages/dag`)

* `Dependencies` - graphs as functions, and `Reachable`, which is `getComponent`: the
  least closed set, without recursion, so that proofs can use it.
* `NodeMap` - the mutable map itself. `dependsOn` and `reverseNeighbors` are the two
  `DefaultMap`s, total functions here since an absent key reads as the empty set,
  `keys` is the set of keys that are there. `DeleteNode`, `FreeNodes` and the
  recursion of `WalkErrors.set` (`SetError`, `SetFatalError`) are operators on the
  current and next state that the walks use. Which of several parents a skipped
  node is blamed on depends on insertion orders, so it is chosen from
  `Attributions`.
* `DagWalk` - `walkAsync`. One action per turn of the event loop: the call, a
  handler's promise that resolves (delete the node, start all nodes this frees,
  in the same turn), one that rejects, the early rejection after a `FatalError`,
  and `throwIfNotEmpty`. After a fatal error the other handlers go on, as in the
  code, and may even start nodes: nothing cancels them.
* `EvaluationOrder` - what callers rely on, without the map and the errors.
  `DagWalk` implements it with `status <- handler, outcome <- walk`.
* `DagWalkSync` - `walkSync`: the recursion is an explicit `stack` of the nodes each
  active `next` has yet to look at, a step is one turn of such a loop, and, as in
  the code, whether a node is free is asked when its turn comes and inserts an
  absent key again.
* `DagWalkProofs` - lemmas about `Reachable` and about finite graphs, theorems about `DagWalk`.

### Plans (`packages/dag`, `packages/core`)

* `GroupDag` - `buildAcyclicGroupedGraph`. The function calls itself with other group
  keys, or with a smaller graph, until the groups have no cycle: each call is a step.
  Which cycle `getCycle` finds, and which of the groups on it is split where, depends
  on insertion orders, so `BuildGroups` takes any (`Cycles`, `SplitGroup`,
  `RemoveCycle`). A group is its key and a number, for those that were split off.
* `Plan` - `getPlan` from the diff graph on, over `GroupDag`: one rejection by the
  change validators (`Validate`: `filterInvalidChanges`), the grouping
  (`removeRedundantFieldNodes`, then `GroupDag`), the removal of the cycles that the
  grouping could not break, as if these changes had been rejected (`FilterCycles`),
  and the second grouping. A node is the change of a type, a field or something else;
  of the values only `valueFields` is kept, the fields that the value of a type shows.
* `PlanProofs` - theorems about it, after lemmas about paths (those of `DagWalkProofs` that it
  needs), about the order of evaluation of a set of nodes and about cycles of groups.

### Deployment (`packages/core`, `packages/workspace`)

* `DeployActions` - `deployActions`, `postDeployAction` and
  `updateStateFromChanges`. It INSTANCEs `DagWalk`: the walk's handler is the
  function that deploys one item of the plan, cut where it awaits (`phase`):
  waiting for the adapter, recording, between the read and the write of an element
  that is changed in parts, recorded. Elements are represented by the sets of
  changes they show: `planElements` for the plan that dependents read, `state`
  for the workspace state. An adapter is external: it applies any subset of a
  group, with or without errors and warnings, or never answers. `ItemFails`
  covers a missing adapter, a group with errors, and `postDeployAction` that throws
  at any time before, during or after the recording (`HandlerThrows`).
* `DeployActionsProofs` - theorems about it; it INSTANCEs `DagWalkProofs`.

### Remote maps (`packages/local-workspace`)

* `RemoteMap` - a persistent map: `tmp` and `persistent` databases, `cache` (of
  values and of promises of reads in progress), `delKeys`, `wasClearCalled`,
  `isNamespaceEmpty`. Each operation is cut at its awaits: `setAll` takes entry after
  entry (`SetAllEntry`) and writes a batch whenever it likes (`EntriesWritten`), a
  flush is five steps, and a process may end before any of them (`Reopen`). The LRU
  cache drops any entry at any time, also one that is still being written (`Evict`).
  `writer` and `reader` hold where a call awaits. Three variables do not exist in the
  code. `allowed`, and `current` of a read, compute the answers a read may give, and
  whether it gave one. `overtaken` remembers what the databases had for a key when a get
  looked there while its evicted entry was being written, as long as the cache has
  what that get found.
* `SavedMap` - what the owner of a map relies on: contents change entry by entry or are cleared,
  a flush saves exactly the contents, reopening finds what was saved. `RemoteMap`
  implements it with `data <- Data`, the contents as they are spread over the
  pending entries, the two databases, the deleted keys and a past clear.
* `RemoteMapProofs` - theorems about it, the refinement included.

### The state of a workspace on disk (`packages/workspace`, `packages/local-workspace`)

* `ElementMaps` - contents of a source of elements, the changes between two of them.
  A hash is the contents it is of.
* `LocalState` - the state files, one per account, and their cached copy in remote maps
  with the hash of the files (`stateDb`). `flush` is cut at each write: the file of
  each account in any order, then the elements and the hash of the copy.
* `MergeManager` - `createMergeManager`: the merged elements, their errors, the hashes
  and the flush marker, in memory (`mm`) and on disk (`mmDb`). `Merged` is what
  `updateCache` and `applyChanges` make of the cache from the changes of two sources,
  incrementally or as a recovery; `flush` is four writes.
* `Workspace` - a process loads a workspace, changes its state and its NaCl files,
  and flushes, and stops at any step; files are edited while none runs. The two
  sources are the NaCl files and the hidden parts of the state: the latter come as the
  changes that `completeStateOnlyChanges` makes up. An element has a visible and a
  hidden fragment; those of `Hidden` are in the state only. `pending` does not exist in
  the code: it says which changes of the state were not yet given to `updateNaclFiles`.
* `WorkspaceProofs` - theorems about it.

### Leases (`packages/persistent-pool`, `packages/e2e-credentials-store`)

* `PersistentPool` - the DynamoDB repository. Callers run every operation as the
  code does: query or get, validate, conditional update, and again from the start
  on a conflict, up to the limit. `promised` records what clients were told; no
  code has it. `StaleReads` lets a get see an older version, since the code asks
  for no consistent read. `"free"`, `"suspendAny"` and `"updateTimeoutAny"` are `return`,
  `suspend` and `updateTimeout` with `validateClientId: false` (`Unvalidated`).
* `PersistentPoolProofs` - theorems about it.
* `RenewedLease` - test runs: `creds.ts` leases an account, validates it, suspends
  it or keeps it by a `RenewedLease` whose timer calls `updateTimeout`. INSTANCEs
  `PersistentPool` with two callers per client, the run itself and its timer. A run waits for
  an account, validates and suspends it for as long as it takes; only a return, and
  a renewal from when its timer is due, are answered within `MaxDelay` (`InTime`). Since the
  time of a lease counts from before the wait (`dynamodb_repo.ts:167`), `late` remembers
  that a run took up its account more than `MaxDelay` after that, and has not renewed it since.
* `RenewedLeaseProofs` - theorems about it; it INSTANCEs `PersistentPoolProofs`.

### Rate limiting (`packages/adapter-components`)

* `RateLimiter` - calls go through a queue of a library (PQueue or Bottleneck), which is
  external: it starts its jobs in order, at most `maxConcurrentCalls` at a time, unless
  it is paused. `call` is where a call is in `recursiveAdd`, from the queue over the
  delay and the task to a wait for the next attempt; a failure, the counters, the pause
  and an immediate retry are one step. There is no clock: `wakeIn`, `delay` (what
  `nextDelay` will return) and `resumeTimer` are the times that are left, and `Tick`
  makes them shorter. `sinceInvoked` does not exist in the code: it says when a task was
  last invoked.
* `RateLimiterProofs` - theorems about it.

### For TLC

`MCDagWalk`, `MCDagWalkSync`, `MCDeployActions`, `MCPlan`, `MCRemoteMap`, `MCWorkspace`,
`MCPersistentPool`, `MCRenewedLease` and `MCRateLimiter` give the constants values; the
`.cfg` files are named after them (`MCPlanFields.cfg`, `MCRemoteMapEmpty.cfg` and
`MCRenewedLeaseReturn.cfg` are other instances of the same modules).

## What the runs check and show

| Run | Instance | Shows |
|---|---|---|
| `dag_walk` | 512 maps over 4 nodes: all acyclic ones up to renaming, and cycles of one to four nodes; handlers succeed, fail, fail fatally or hang | the map stays the remainder of the original and its inverse; a node is handled once, as soon as its dependencies succeeded, and never otherwise; skips are exact and blamed on a failure; at the end every node is accounted for once; the walk ends, early after a fatal error; it implements `EvaluationOrder` |
| `dag_walk_sync` | every map over 3 nodes, handlers never throw | **violated**: a node is handled twice |
| `deploy` | 3 items, one without an adapter; two change parts of one element, one of them a second element as a whole; 16 plans, four of them with a cycle | what was applied is recorded or reported; an item is deployed on top of what its dependencies deployed; outcomes agree with errors and are reported once; the deployment ends |
| `remote_map` | 1 key, 2 values, 1 writer, 2 readers, `setAll` entry by entry, crashes and evictions at any time (156,461 states) | the cache is coherent but for values overtaken by a write, every read gives an answer that was true while it ran, or one of these values; a flush saves exactly the contents |
| `remote_map_empty` | 2 keys, 1 value, one reader, strictly sequential calls, and `isEmpty` while deletions wait for a flush | **violated** |
| `plan` | an added type, a field of it, two other added elements; every relation between them in which the field depends on the type, and the type and one element not on the field; five groupings, one with a disjoint group; at most one change is rejected | what is planned has all its dependencies; what is dropped is reported; groups are removed for a cycle only if they hold one of changes that no grouping can contain; a plan is made unless a disjoint group has a cycle |
| `plan_fields` | the same | **violated**: a dropped field is deployed in the value of its type |
| `workspace` | two visible elements and a hidden one, two accounts, one value and its absence, 3 processes one after the other, 4 changes, a stop at any step | the next load gets what the state files hold; the merge that is shown is that of the two sources as they are; the one on disk is that of its hash, or marked; a flush that ends saved everything |
| `pool` | 2 clients, 1 instance, 4 ticks of the clock, 3 versions, 1 retry, stale reads, administrators who are not validated | leases exclude each other and stand until they run out; a write hits the item its call validated |
| `renewed_lease` | 2 test runs that compete for one account and wait for any time, 8 ticks, 5 versions | a lease that was taken up promptly or renewed once never runs out, and its account is not shared; a returned lease stays returned |
| `renewed_lease_return` | 1 test run | **violated**: a renewal follows the return |
| `rate_limiter` | 3 calls, 2 at a time, a delay of 1, one retry each after 0 or 2, one call of `pause`, any number of `resume` and `clear` | the counters add up, tasks are invoked at least the delay apart, every call ends |

Bounds. Four nodes are the least with a diamond, a chain behind it and a cycle that
waits for a failure; all interactions in the walk are between a node, its
dependencies and its dependents. Two items that meet on one element and a third one
that waits are what the handlers of a deployment can do to each other. Two keys are
what `isEmpty` and `first` need to go wrong; a value is compared only with its
absence, and with the promise of another read. Two readers are one that joins
the other's promise. A lease of two ticks in the `pool` runs out, is taken over and
may run out again within four; three versions let a slow call meet an item that was
written twice meanwhile; the theorems hold for all bounds. In `renewed_lease` the
timeout (5), the margin (3) and the delay (1) are the least that satisfy the module's
assumption with a renewal that is not immediate, and eight ticks cover a wait that makes a run
late and the renewal that makes it safe, two renewals in
a row, or a crash, the expiry, and a lease by the other run. In `rate_limiter` a
third call waits while two are delayed or run, and a retry delay (2) is longer than the
delay between tasks (1), so that a wait, a pause and the delays of others overlap;
`MaxPauses` bounds the calls of `pause`. `MaxTime` and `MaxVersion` bound the clock
and the versions; `MaxCalls` in `DagWalkSync` stops the run once the property is
violated. Four changes let groups of two nodes be on a cycle of groups that can be
broken in one way only, and a node hang on a cycle that cannot; a second rejected change
adds only unions of what one does. Three processes are one that leaves something behind, one
that makes something of it, and one that relies on what that one left; four changes put one in each
source for two of them. Two accounts are what a torn set of state files needs. No
run checks deadlock: every one of these systems may stop (a walk that ended, a handler
that never answers, a plan that is made, the bound of the clock or of the processes).

Fairness. In `DagWalk` and `DeployActions` the event loop runs every promise reaction
that is due (`WF` of the walk's own steps). Nothing is assumed of handlers and
adapters, so the properties that need them say so: `WalkEnds` and `DeployEnds` are
conditional on handlers, or adapters, that answer. Accesses of the state by a
deployment complete, and its handlers go on (`WF` of `HandlerProceeds`); that one fails where it
need not is possible, but nothing relies on it. `DagWalkSync` and the
planning are sequential functions, `WF` of their steps. In `RateLimiter` the queue starts what it may start, time
goes on and timers elapse (`WF` of `Start`, `AddAgain`, `Invoke`, `ResumeTimerElapses`,
`Tick`), and `CallsEnd` is conditional on tasks that settle and on a user who neither
pauses the queue nor starts it paused. The remote map, the workspace, the pool and the test runs have safety
properties only, and no fairness: a crash is a process that takes no step any more.

## What was found

Each finding is a run that TLC finds violated, or a remark with its line.

1. `walkSync` may call the handler of a node twice (`dag_walk_sync`). With
   `n2 -> n1`, `n3 -> {n1, n2}`, the loop over what `n1` affects reaches `n3` after the
   recursive call for `n2` handled and deleted it; the lookup of the deleted key
   inserts it again as a free node (`nodemap.ts:413`, `162`).
2. `isEmpty()` of a remote map looks at one key and drops deleted keys afterwards;
   the wrong answer is remembered, and makes the next flush save nothing and discard
   the entries (`remote_map_empty`).
3. `RenewedLease.return()` during a renewal leaves a timer behind (`renewed_lease_return`).
   The pool refuses the later renewals, so the account does stay returned
   (`ReturnedIsReturned` holds).
4. A field that was dropped from the plan, because it depends on a change that a
   validator rejected, is deployed nevertheless in the value of its added type
   (`plan_fields`): `createValidAfterOfInvalidTypesMap` (`filter.ts:73`, called at `262` with
   the validators' errors) takes the rejected fields out of the value, not those dropped
   for them; the field itself is told that it "cannot be deployed" (`108`). The second filtering,
   after cycles were removed, starts from the original elements again, so that even a
   field that a validator rejected comes back into the value then.

Seen while modelling and not among the runs: `has()` of a remote map answers true for a
key that was deleted and not flushed, as it does not look at `delKeys` and `delete`
leaves the key in the cache (`remote_map.ts:818`, `686`); the run `remote_map` has
callers that do not ask (`Careful`). `entries` yields a value that the map no longer had
when the listing began, if it began while a deletion of the key waited for a flush, and
the key is then set again and evicted from the cache: the iterator has the old value,
and `delKeys` is looked at when it gets there (`569`). A pause of the rate limiter replaces the timer of the
pause before, whichever is longer: with `pauseDuringRetryDelay`, the shorter retry delay of
one task makes the queue retry another one too early (`rate_limiter.ts:366`). Readers of a remote map during a flush that follows a clear miss entries
(`remote_map.ts:799`) and readers during a clear cache old values (`812`); the run
`remote_map` has callers that avoid both (`Exclusive`). When the cache drops an entry that is still being
written, a get finds the old value in the databases and caches it, where it stays until it is evicted, set or
cleared (`remote_map.ts:770`, `667`): without the exemption for `overtaken`, TLC finds
`CacheIsCoherent` violated. A listing of a map that was known to be empty yields nothing until
a `setAll` is over, since only its end resets what is known (`558`). `waitForLease` computes the
expiry from the time the wait began (`dynamodb_repo.ts:167`), for up to ten minutes in
`creds.ts:37`, with a lease of five: a run may get an account whose lease runs out before its first
renewal, or has run out. Without the exemption of such runs (`late`), TLC finds two runs
with one account. `return` removes an
attribute whose name is misspelled, so a suspended instance stays listed as suspended
(`388`). An id that is registered again starts at version 0 again (`306`). A
successful write whose response is lost conflicts with its own repetition (`209`).
Promises of calls that the rate limiter clears are never settled (`rate_limiter.ts:388`),
and a pause without a time ends when the timer of an earlier one does (`365`). A crash
between the flush of the cached elements and that of their hash leaves newer elements
under an older hash (`in_mem.ts:167`): if the state files become again what that hash
names, as after a checkout of the older version, the next process takes the newer
elements for them. The file of an account whose last element was removed is not
deleted (`file_content_provider.ts:57`), so that the removed elements come back with the
next load that reads the files. `breakToDisjointGroups` throws for a cycle inside a
disjoint group, outside of the `try` that removes cycles, and planning fails (`group.ts:248`).

## What is proved

TLAPS checks every step; the assumptions are the named ones of the modules:
graphs relate nodes, handlers throw errors or fatal errors, changes are finitely many, the
timeout is positive, and the times of a test run leave room for two delays.

`DagWalkProofs`, for every set of nodes, finite or not, and all maps over them:
`TypeCorrectness`, `NodesAreHandledExactlyWhenReady`, `MapStaysConsistent`, `SkipsAreExact`,
`BlameAlwaysLeadsToAFailure`, for finite sets `EndAlwaysAccountsForAllNodes`, and
`WalkImplementsEvaluationOrder` (initial states map to initial states, each step to a
step or a stutter). They follow from one inductive invariant, `IInv`. That a handler is not called twice is not inductive
alone: a second call would come from a node that is affected twice, which the map
rules out because it is the original without what succeeded (`MapMirrorsHandlers`),
and a freed node is one whose last unfinished dependency just succeeded
(`FreedByFinishedHandler`). Exact skips need that error entries spread to all
dependents and always stem from a failure (`ErrorsSpread`, `ErrorsAreExplained`); the
bridge from the recursion over the shrinking inverse map to reachability in the
original graph is the lemmas about `Reachable`, which is defined without recursion as
a least closed set. Blame leads to a failure because the recursion gives every set of
nodes it visits a member that is blamed on a node outside of the set, so that a path of
blame which enters the visited nodes cannot stay without reaching the one that failed.
At the end of a walk a node that is left depends on one that is left; in a finite map
this runs into a cycle (`EndlessPathsMeetACycle`, by the least number of nodes ahead),
and conversely no node of a cycle is ever started (`CyclesAreNotStarted`).

`DeployActionsProofs`, for any items, changes, elements and plans: `TypesAreKept`,
`DeployedAlwaysOnTopOfDependencies`, `AppliedIsAlwaysRecordedOrReported`,
`OutcomesAlwaysAgreeWithErrors`, `OutcomesAreAlwaysReportedOnce`. As each step of a
deployment is one of its walk or leaves it alone, the inductive invariant of
`DagWalkProofs` is one of deployments, and `WalkFacts` is what is used of it. Two items
that the plan orders are never deployed at the same time (`ConcurrentItemsAreUnordered`: what a started item
reaches has succeeded), so that what an item read of an element is still there when it
writes (`WritingOK`), and no recorded change is lost (`RecordedOK`). At the end nothing
runs: what is not recorded is of elements that an item that failed did not get to. An
outcome is reported once because an item that is over is not started or freed again, and
because what is skipped, and what is left on cycles at the end, never ran.

`PersistentPoolProofs`, for any instances, callers, clients, retries and bounds, with
or without stale reads: `PoolTypes`, `OptimisticLocking`, `LeasesStand`,
`LeasesExclude`. The invariant says that versions in use are never from the future
(`ReadsAreVersioned`), so that a call whose version is still current writes over the
item that it validated (`WritesAreValidated`); that is what keeps the leases of others
(`HeldLeasesStand`), and two leases of one instance would need one item to name two
clients. A stale read is harmless because its version is not current any more.

`RenewedLeaseProofs`, for any number of test runs and accounts and any times that satisfy
`RenewalAssumption`: `RenewedLeasesAreHeld`, `AccountsAreNeverShared`,
`ReturnedAccountsStayReturned` (all that `renewed_lease` checks) and `PoolOfTestRunsIsSafe`.
Each step of a test run makes a step of the pool or leaves it alone, so that the invariant
of `PersistentPoolProofs` is one of test runs; to it the proof adds what the times
relate. A lease in use runs out no earlier than the margin, less the delay of one
answer, after its timer is due (`LeaseStands`), and the clock is at most a delay past
that moment (`ClockIsInTime`): with `2 * MaxDelay < RenewMargin` the lease outlasts the
renewal; and a timer that a renewal arms during a return is due only after the return has
ended by `MaxDelay < Timeout - RenewMargin`. All this is said of runs that are not `late`; a late one becomes one of them
with its first renewal that succeeds, which needs no time left, only that the run is still the
one in the table. `RenewedLeaseIsHeld` is not inductive
alone: a renewal must also find the version that it read (only the run's own renewals write an account in
use, so it is never `Outdated`). A return can lose a race: the renewal that was under way
may outdate its first attempt, but the timer it arms is due only after the return has
ended (`ReturnPrevails`), so that one retry is enough. That is why the assumption asks
for one; `creds.ts` leaves the default of ten, with a lease of five minutes and a
margin of one.

`RateLimiterProofs`, for any calls, finite or not, any options, delays and retries:
`LimiterTypes`, `CountersTellTheTruth`, `DelaysAreKept`. The counters add up because what
is running is the cardinality of a set of calls that one step changes by one member at
most, because the queue holds every queued call exactly once (`QueueInOrder`), and
because every counted retry follows a failure that is not the failure of another attempt
that still waits (`Retrying`). Spacing needs that the delay that is given next is behind
all those that were given, and behind the last invocation (`DelaysAreSpaced`).

`PlanProofs`, for every finite set of changes, every graph of dependencies and every
grouping: `PlannedChangesAlwaysHaveTheirDependencies`, `DroppedChangesAreAlwaysReported`,
`PlanTypes`, `RemovedNodesAlwaysHoldACycle`, `SecondIterationAlwaysRemovesNoCycles`,
`PlansFailOnlyForDisjointGroups`. There are three invariants.

* `IInv`. What is left of the graph is closed under dependencies (`PlannedIsClosed`):
  filtering drops what is reachable from a rejected change backwards, so that an edge
  from a change that stays to one that goes would make the first go, too. A dropped
  change is reported because a path from the rejected changes is a path from one of them
  (`ReachableFromOne`), whose error names it. That grouping loses no change needs that a
  graph of which nothing was removed is the one that grouping started from
  (`SourceHoldsThePlan`).
* `GroupsInv`. A part that is split off a group takes along all that it needs there, so
  the groups of one key always have an order: some `rank` of the changes does not rise
  along a dependency within a key and falls from a group to another one
  (`RanksGroups`; after a split, `2 * rank` for the part and `2 * rank + 1` for the
  rest). It starts as the level of a disjoint group, which needs that `LevelsOf`, a
  recursive function, is what its definition says (`LevelsOfDef`: a least length for
  which no such function exists cannot be). When no group of a cycle can be split, each
  entry into a group of it leads on to an entry into the next (`CyclesLeadOn`). In a
  finite graph that runs into a cycle of changes, and if all of them had one key, the
  rank would fall around it (`UnbreakableCyclesHoldACycle`). The types count groups: there are fewer
  than numbers, so that one is free for a part (`ANumberIsUnused`).
* `SecondInv`. When `getCycle` finds nothing, no two changes with different keys depend
  on each other (`NoCyclesLeft`: otherwise their groups would have no order, and a
  shortest closed walk through them is a cycle that visits no group twice). The second
  iteration has a part of that graph: its fields are merged as before, since a type is
  kept with its fields (`MergingIsKept`). As nodes are removed only for a cycle, it
  removes none. This is the comment "shouldn't happen, as all cycles were removed in the
  first iteration" (`plan.ts:218`), for adapters that group a change as they did in the first
  iteration, and the safety part of `PlanIsMade`.

Two things came up while proving. A disjoint group that is cyclic and holds every change would
get a number that is out of range, in a state from which planning fails; `GroupTypeOK` now
speaks of the numbers of groups that are in use. And `Plan` now assumes that the changes are
finitely many, as an order of evaluation has no meaning otherwise.

`WorkspaceProofs`, for any elements, accounts, contents and bounds: `TypeOKAlways`,
`NextLoadIsAlwaysOfTheFiles`, `MergedIsAlwaysCurrent`, `SavedMergeIsAlwaysOfItsHash`,
`FlushAlwaysSavesTheWorkspace`. The invariant has a part for each store. `StateOK` ties the
steps of the flush of the state to what is on disk at each: the cached elements are
written only when they are those of the files, and the hash only after them. `MergeOK`
says that the merged elements are right but for the pending ones, and that an element
that is in no NaCl file is not shown even if it is pending: an update of the NaCl files
leaves pending changes out, and the next report skips those that have become irrelevant.
`SavedMergeOK` follows the flush of the cache from the marker to its removal. The lemmas
before the actions say what `mergeComponents` computes: `MergedIsFull` for either way to
merge, `ErrorsOfMerged` for the errors, which are those of the result only because they
were those of the cache before.

`RemoteMapProofs`, for any keys (natural numbers: their order matters to listing), values and
readers, when `CallersTakeCare` (nobody reads during a clear or a flush, and
`Careful`: `has` and `isEmpty` are asked only when no deletion waits for a flush, nothing
is changed while `isEmpty` is answered, and no deleted key is set again during a listing): `TypesAreKept`, `CacheIsAlwaysCoherent`, `ReadsAreAlwaysCurrent`,
`FlushAlwaysSavesTheContents`, `KnownEmptyIsEmptyForTheCareful`. The run has one key so that all
interleavings with two readers fit; the proof covers more keys. A promise of a read in
the cache keeps its coherence because a reader that has gone on to the persistent
database found nothing in the other one, and a write in between replaces the promise
(`PromisesOK`), or, if its entry was evicted, is remembered in `overtaken`, of which the proof says
that it is empty or exactly what the databases had (`OvertakenOK`). Emptiness is learnt while nothing changes, since `isEmpty` is asked when
no deletion waits (`EmptinessOK`). `ClearOK` and `FlushOK` tell what each step of these has done,
which makes the last one the save of exactly the contents. Reads are current because
whatever a reader is yet to find is a value that was right while it ran (`AllowedOK`,
`ReadersOK`), also for a reader that awaits the promise of another one's read
(`LookupOK`); and what is known of the emptiness stays true up to deletions
(`KnowledgeOK`).

Only model-checked: liveness (`WalkEnds`, `FatalErrorEndsTheWalk`, `DeployEnds`, `CallsEnd`,
`PlanIsMade`: out of the prover's reach). Every invariant of a passing run is a theorem.

## Assumptions and limits

* Walks: a handler belongs to one walk; the map is not changed from outside (walks
  clone it). `Attributions` allows every blame that some insertion order could
  produce and a few that none does.
* Deployment: the order of items that change parts of one element is a condition of
  `AppliedIsRecordedOrReported`. Without it, two concurrent items lose an update of
  the state (`in_mem.ts:109`): read, await, write. Preparation and the final
  comparison of the deployed elements with the workspace are left out.
* Remote map: one writer that awaits its calls, and nobody reads during a clear or a
  flush (`Exclusive`); callers ask `has` (of a deleted key) and `isEmpty` only when no deletion waits
  for a flush, change nothing while `isEmpty` is answered, and set no deleted key again while entries are listed (`Careful`).
  None of these restrictions is enforced by the code, and without them properties fail (see above). A value that a get
  read while its evicted entry was being written counts as right as long as the cache has it (`overtaken`). What an interrupted flush leaves in the
  persistent database is not constrained. Connections, iteration options and the
  read-only map are left out.
* Plan: the diff graph is any graph over the changes in which the fields of an added or
  removed type depend on it (`addFieldToObjectDependency`), with one change per element.
  Group keys do not change between the two groupings, although adapters are asked again.
  The instance has additions only; modifications and removals differ in what is
  merged with the type and in `valueFields`. Warnings of validators do not matter.
* Workspace: one environment; hashes are faithful. `KeepsItsAccount`: a process does not
  remove the last element of an account (see the remark above; `calculateHash` would
  differ from the files). `ContentsAreNew`: while the cached copy is torn, the state
  files do not become again what its hash names; lifting it, TLC finds
  `NextLoadIsOfTheFiles` violated. Callers await each call, and report the changes they
  made in the state (`updateNaclFiles`) before they flush, as fetch and deploy do: a process that
  is up does not compare hashes (`workspace.ts:757`), so that an unreported change is
  never merged. A remote map is flushed as a whole (see `RemoteMap` for less). The NaCl
  files source is what its `load` and `flush` are to the workspace; its own cache may be
  found unusable after a flush that did not end. A merge that throws ends the use
  of the workspace by the process. Path and reference indexes, static files, `clear`,
  `updateConfig` and renaming are left out.
* Pool: single-item operations of DynamoDB are atomic, clocks agree, ids are
  registered once (the default id is a uuid; an id that is given and registered again starts at version 0, which a slow call
  could take for the version it read), responses are not lost. A stale read shows the version before
  the current one, or fails validation; as versions only grow, a write after a read
  of a still older one conflicts in the same way.
* Test runs: answers come within `MaxDelay`, with `2 * MaxDelay < RenewMargin` and
  `MaxDelay < Timeout - RenewMargin`; for the real values (a lease of five minutes, a
  margin of one) that is half a minute. That is asked of renewals and returns, not of the wait for an
  account, its validation or its suspension: `RenewedLeaseIsHeld` and `AccountsAreNotShared` say nothing
  of a run that took longer than `MaxDelay` for these, until its first renewal. One
  `RenewedLease` per client.
* Rate limiter: limits per interval are the queue library's and left out; they would
  start jobs later. Timers elapse on time. A retry is added in the same step as the
  failure before it, without the turns of promise reactions in between.
* Not modelled: see `components` in `PROJECT.json`. Parsing, merging and expressions
  are pure functions over deep data; adapters are external; front ends only do input
  and output.

## Plan

The order is by weight of the behaviour: what executes changes first, what keeps
data next, what prepares changes last.

| Step | Modules | Composition and abstract specification | Runs | Theorems | State |
|---|---|---|---|---|---|
| 1 | `NodeMap`, `DagWalk`, `DagWalkSync` | implements `EvaluationOrder` | `dag_walk`, `dag_walk_sync` | invariants, refinement | done |
| 2 | `DeployActions` | INSTANCE of `DagWalk` | `deploy` | all invariants, that outcomes are reported once | done |
| 3 | `RemoteMap` | implements `SavedMap` | `remote_map` and one more | all properties of both runs, refinement of `SavedMap` | done |
| 4 | `PersistentPool`, `RenewedLease` | the second INSTANCEs the first | `pool`, `renewed_lease`, one more | safety of the pool and of the test runs | done |
| 5 | `Dependencies`, `GroupDag`, `Plan` | the second extends the first | `plan`, `plan_fields` | all invariants of `plan`, that the second iteration removes nothing | done |
| 6 | `RateLimiter` | on its own | `rate_limiter` | types, counters, spacing | done |
| 7, 8 | `LocalState`, `MergeManager`, `Workspace` | the third composes the others | `workspace` | all five properties of the run | done |
| 9 | `DeployChanges`, `ResourceFetch` | on `DagWalk` | 3 groups or types | which failures spread | planned |
| 10 | `ThreeWayMerge`, `Client` | fetch decisions as functions; retries and polling | all combinations over 3 values | no user change overwritten | planned |
