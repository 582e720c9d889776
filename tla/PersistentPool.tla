--------------------------- MODULE PersistentPool ---------------------------
(***************************************************************************)
(* The pool of leased instances of                                         *)
(* packages/persistent-pool/src/lib/dynamodb/dynamodb_repo.ts: processes   *)
(* on many machines lease test accounts from one DynamoDB table.           *)
(*                                                                         *)
(* An item is never locked.  A call reads it, validates what it read, and  *)
(* writes it on the condition that its version is still the one that was   *)
(* read; otherwise it starts over (withOptimisticLock).  A lease that is   *)
(* neither returned nor extended runs out by the clock.                    *)
(*                                                                         *)
(* Any caller makes any call at any time.  Callers with one clientId are   *)
(* concurrent calls of one client.  A caller that never goes on models a   *)
(* process that crashed.  DynamoDB's single-item reads and writes are      *)
(* atomic, all clocks agree, and a response is never lost.                 *)
(***************************************************************************)
EXTENDS Naturals

CONSTANTS
    Instances,                  \* ids of instances; register's default is a uuid
    Callers, clientId,          \* clientId[p] is the client that p calls for
    NoClient,
    Timeout,                    \* returnTimeout and newTimeout
    OptimisticLockMaxRetries,
    StaleReads,                 \* whether GetCommand may read an older item, as
                                \* it does not ask for a consistent read
    MaxTime, MaxVersion         \* bounds on the clock and on versions

ClientIds == {clientId[p] : p \in Callers}

ASSUME PoolAssumption ==
    /\ NoClient \notin ClientIds /\ Instances # {}
    /\ Timeout \in Nat \ {0} /\ OptimisticLockMaxRetries \in Nat
    /\ StaleReads \in BOOLEAN
    /\ MaxTime \in Nat /\ MaxVersion \in Nat

VARIABLES
    items,      \* instance -> its item in the table
    now,        \* Date.now(), on every machine
    call,       \* caller -> its call in progress
    promised    \* client -> instance -> until when the client was last told
                \* that it has the lease

vars == <<items, now, call, promised>>

NOT_LEASED == 0

Item == [registered : {"never", "yes", "removed"}, version : Nat, leaseExpiresBy : Nat,
         leasingClientId : ClientIds \cup {NoClient}, suspensionReason : BOOLEAN]

\* An administrator's calls, with validateClientId: false: of return (as the
\* command line's free), of suspend and of updateTimeout.
Unvalidated == {"free", "suspendAny", "updateTimeoutAny"}
Returns == {"return", "free"}
Suspensions == {"suspend", "suspendAny"}
UpdateOps == {"updateTimeout", "suspend", "return"} \cup Unvalidated
Ops == {"lease"} \cup UpdateOps

Call == [op : Ops, id : Instances, at : {"idle", "query", "get", "update"},
         time : Nat, version : Nat, retryNumber : Nat]

NoCall == [op |-> "lease", id |-> CHOOSE i \in Instances : TRUE, at |-> "idle",
           time |-> 0, version |-> 0, retryNumber |-> 0]

Init ==
    /\ items = [i \in Instances |->
                  [registered |-> "never", version |-> 0, leaseExpiresBy |-> NOT_LEASED,
                   leasingClientId |-> NoClient, suspensionReason |-> FALSE]]
    /\ now = 1
    /\ call = [p \in Callers |-> NoCall]
    /\ promised = [c \in ClientIds |-> [i \in Instances |-> 0]]

Registered(i) == items[i].registered = "yes"
Idle(p) == call[p].at = "idle"

----------------------------------------------------------------------------
(* Calls that take one request. *)

Register(i) ==
    /\ items[i].registered = "never"
    /\ items' = [items EXCEPT ![i].registered = "yes"]
    /\ UNCHANGED <<now, call, promised>>

\* Whatever anybody was told of the lease is void.
Revoked(i) == [c \in ClientIds |-> [promised[c] EXCEPT ![i] = 0]]

Unregister(i) ==
    /\ Registered(i)
    /\ items' = [items EXCEPT ![i].registered = "removed"]
    /\ promised' = Revoked(i)
    /\ UNCHANGED <<now, call>>

----------------------------------------------------------------------------
(* lease, waitForLease, updateTimeout, suspend and return: a caller's steps. *)

Ends(p) == call' = [call EXCEPT ![p] = NoCall]

\* A call begins; return has no use for the clock.
Begin(p, op, i) ==
    /\ Idle(p)
    /\ call' = [call EXCEPT ![p] =
                  [op |-> op, id |-> i, at |-> IF op = "lease" THEN "query" ELSE "get",
                   time |-> IF op \in Returns THEN 0 ELSE now, version |-> 0, retryNumber |-> 0]]
    /\ UNCHANGED <<items, now, promised>>

\* makeQuery: an instance whose lease ran out before the attempt began.
Available(i, time) == Registered(i) /\ items[i].leaseExpiresBy <= time

QueryFinds(p, i) ==
    /\ call[p].at = "query"
    /\ Available(i, call[p].time)
    /\ call' = [call EXCEPT ![p].at = "update", ![p].id = i, ![p].version = items[i].version]
    /\ UNCHANGED <<items, now, promised>>

\* lease returns null; waitForLease queries again, and throws in the end.
QueryFindsNone(p) ==
    /\ call[p].at = "query"
    /\ \A i \in Instances : ~Available(i, call[p].time)
    /\ Ends(p)
    /\ UNCHANGED <<items, now, promised>>

\* Mistaken variant of Valid: the client is not validated.
ValidLeased(op, item, c) == op \notin Suspensions => item.leaseExpiresBy # NOT_LEASED

\* validateLeased and validateClientId of updateLease.
Valid(op, item, c) ==
    /\ op \notin Suspensions => item.leaseExpiresBy # NOT_LEASED
    /\ op \notin Unvalidated => item.leasingClientId = c

\* The item is there and valid for the call.
GetSucceeds(p) ==
    LET i == call[p].id IN
    /\ call[p].at = "get"
    /\ Registered(i) /\ Valid(call[p].op, items[i], clientId[p])
    /\ call' = [call EXCEPT ![p].at = "update", ![p].version = items[i].version]
    /\ UNCHANGED <<items, now, promised>>

\* InstanceNotFoundError or InstanceNotLeasedError.
GetFails(p) ==
    LET i == call[p].id IN
    /\ call[p].at = "get"
    /\ ~(Registered(i) /\ Valid(call[p].op, items[i], clientId[p]))
    /\ Ends(p)
    /\ UNCHANGED <<items, now, promised>>

\* An older item, whether or not it was valid.
GetReadsOlder(p) ==
    /\ StaleReads
    /\ call[p].at = "get"
    /\ items[call[p].id].version > 0
    /\ \/ Ends(p)
       \/ call' = [call EXCEPT ![p].at = "update", ![p].version = items[call[p].id].version - 1]
    /\ UNCHANGED <<items, now, promised>>

\* Mistaken variant of Expiry: return removes the attribute.
ExpiryRemoved(op, time) == IF op \in Returns THEN NoClient ELSE time + Timeout

Expiry(op, time) == IF op \in Returns THEN NOT_LEASED ELSE time + Timeout

\* Mistaken variant of Written: extending does not count as a version.
WrittenUncounted(item, op, time, c) ==
    [item EXCEPT
       !.version = IF op = "updateTimeout" THEN @ ELSE @ + 1,
       !.leaseExpiresBy = Expiry(op, time),
       !.leasingClientId = IF op = "lease" THEN c
                           ELSE IF op \in Returns THEN NoClient ELSE @,
       !.suspensionReason = @ \/ op \in Suspensions]

\* The item as UpdateCommand leaves it.  return removes "supensionReason".
Written(item, op, time, c) ==
    [item EXCEPT
       !.version = @ + 1,
       !.leaseExpiresBy = Expiry(op, time),
       !.leasingClientId = IF op = "lease" THEN c
                           ELSE IF op \in Returns THEN NoClient ELSE @,
       !.suspensionReason = @ \/ op \in Suspensions]

\* What the clients were told when a call of client c on i returned.
Told(op, i, time, c) ==
    IF op \in Unvalidated THEN Revoked(i)
    ELSE [promised EXCEPT ![c][i] =
            IF op \in {"lease", "updateTimeout"} THEN Expiry(op, time) ELSE 0]

\* Mistaken variant of ConditionHolds: the item only has to exist.
ConditionOnExistence(p) == Registered(call[p].id)

\* ConditionExpression: '#version = :currentVersion'
ConditionHolds(p) ==
    /\ Registered(call[p].id)
    /\ items[call[p].id].version = call[p].version

UpdateSucceeds(p) ==
    LET i == call[p].id
        op == call[p].op
        c == clientId[p]
    IN
    /\ call[p].at = "update"
    /\ ConditionHolds(p)
    /\ items[i].version < MaxVersion
    /\ items' = [items EXCEPT ![i] = Written(@, op, call[p].time, c)]
    /\ promised' = Told(op, i, call[p].time, c)
    /\ Ends(p)
    /\ UNCHANGED now

\* ConditionalCheckFailedException: withOptimisticLock calls f again, and only
\* lease reads the clock again.
UpdateConflicts(p) ==
    /\ call[p].at = "update"
    /\ ~ConditionHolds(p)
    /\ IF call[p].retryNumber = OptimisticLockMaxRetries
         THEN Ends(p)
         ELSE call' = [call EXCEPT
                         ![p].retryNumber = @ + 1, ![p].version = 0,
                         ![p].at = IF call[p].op = "lease" THEN "query" ELSE "get",
                         ![p].time = IF call[p].op = "lease" THEN now ELSE @]
    /\ UNCHANGED <<items, now, promised>>

Advances(p) ==
    \/ \E i \in Instances : QueryFinds(p, i)
    \/ QueryFindsNone(p)
    \/ GetSucceeds(p)
    \/ GetFails(p)
    \/ GetReadsOlder(p)
    \/ UpdateSucceeds(p)
    \/ UpdateConflicts(p)

Tick ==
    /\ now < MaxTime
    /\ now' = now + 1
    /\ UNCHANGED <<items, call, promised>>

Next ==
    \/ Tick
    \/ \E i \in Instances : Register(i) \/ Unregister(i)
    \/ \E p \in Callers, op \in Ops, i \in Instances : Begin(p, op, i)
    \/ \E p \in Callers : Advances(p)

Spec == Init /\ [][Next]_vars

----------------------------------------------------------------------------

\* Types of the pool's state.
TypeOK ==
    /\ items \in [Instances -> Item]
    /\ now \in Nat
    /\ call \in [Callers -> Call]
    /\ promised \in [ClientIds -> [Instances -> Nat]]

Holds(c, i) == promised[c][i] > now

\* No two clients have been told that they hold the lease of one instance at the
\* same time, unless an administrator changed the lease of the first (an
\* unvalidated call, or unregister).
MutualExclusion ==
    \A i \in Instances : \A c, d \in ClientIds : Holds(c, i) /\ Holds(d, i) => c = d

\* A lease that a client was told of stays in the table, under its name and with
\* the expiry it was told: nobody else's call shortens, takes or suspends it.
HeldLeasesStand ==
    \A c \in ClientIds, i \in Instances :
        Holds(c, i) =>
            /\ Registered(i)
            /\ items[i].leasingClientId = c
            /\ items[i].leaseExpiresBy = promised[c][i]

\* A call that is about to write an item, and whose write would go through,
\* would write over what it validated: between its read and its write the item
\* did not become somebody else's, nor was it leased.
WritesAreValidated ==
    \A p \in Callers :
        call[p].at = "update" /\ ConditionHolds(p) =>
            LET item == items[call[p].id] IN
            /\ call[p].op = "lease" => item.leaseExpiresBy <= call[p].time
            /\ call[p].op \notin {"lease"} \cup Unvalidated => item.leasingClientId = clientId[p]

============================================================================
