------------------------- MODULE RenewedLeaseProofs -------------------------
(***************************************************************************)
(* Safety of test runs that renew their leases, for any number of runs and *)
(* accounts and every timeout, margin and delay the assumption allows.     *)
(*                                                                         *)
(* The pool's own invariant (PersistentPoolProofs) says that a write goes  *)
(* over what its call validated.  Added to it is what the times of a run   *)
(* relate: a lease that is renewed runs out no earlier than the margin,    *)
(* less the delay of one answer, after its timer is due (LeaseStands), and *)
(* the clock is never more than a delay past that (ClockIsInTime).  A run  *)
(* that took up its account late gets that far by its first renewal, which *)
(* goes through only if nobody else leased the account before it.  While   *)
(* return is under way, a renewal can win against it once at most          *)
(* (ReturnPrevails), and its retry goes over what the renewal wrote.       *)
(***************************************************************************)
EXTENDS RenewedLease, TLAPS

PoolProved == INSTANCE PersistentPoolProofs WITH
                  Callers <- Clients \X {"user", "renewal"},
                  clientId <- [p \in Clients \X {"user", "renewal"} |-> p[1]],
                  StaleReads <- FALSE

USE DEF Pool!Unvalidated, PoolProved!Unvalidated, Pool!Returns, PoolProved!Returns,
        Pool!Suspensions, PoolProved!Suspensions

Types ==
    /\ phase \in [Clients -> Phases]
    /\ leased \in [Clients -> Instances \cup {NoInstance}]
    /\ renew \in [Clients -> {"none", "armed", "running"}]
    /\ due \in [Clients -> Nat]
    /\ asked \in [Clients -> Nat]
    /\ late \in [Clients -> BOOLEAN]

\* An item that is under somebody's name has an expiry.
LeasedItemsExpire ==
    \A i \in Instances : items[i].leasingClientId # NoClient => items[i].leaseExpiresBy > 0

\* The call of the user is the one its phase awaits.
UserIsInOrder(c) ==
    LET x == call[User(c)] IN
    /\ x.op \notin Pool!Unvalidated
    /\ phase[c] \in {"started", "validating", "renewing", "returned"} => x.at = "idle"
    /\ phase[c] = "leasing" => x.at # "idle" /\ x.op = "lease"
    /\ phase[c] = "suspending" => x.at # "idle" /\ x.op = "suspend"
    /\ phase[c] = "returning" => x.at # "idle" /\ x.op = "return" /\ x.id = leased[c]

\* The timer's call extends the lease, and began when it was due.
RenewalIsInOrder(c) ==
    LET x == call[Renewal(c)] IN
    /\ x.op \notin Pool!Unvalidated
    /\ renew[c] # "none" => phase[c] \in {"renewing", "returning", "returned"}
    /\ renew[c] = "running" =>
         x.at # "idle" /\ x.op = "updateTimeout" /\ x.id = leased[c] /\ due[c] <= x.time
    /\ renew[c] # "running" /\ phase[c] # "over" => x.at = "idle"

\* What was leased was registered, and never is again.
LeaseIsKnown(c) ==
    phase[c] \in {"validating", "renewing", "returning", "returned"} =>
        leased[c] \in Instances /\ items[leased[c]].registered # "never"

ClockIsInTime(c) ==
    /\ asked[c] <= now
    /\ phase[c] = "returning" => now <= asked[c] + MaxDelay
    /\ phase[c] = "renewing" /\ renew[c] # "none" => now <= due[c] + MaxDelay

Named(c) == Registered(c) /\ items[leased[c]].leasingClientId = c

\* A call of p is about to write a version that is no longer the item's.
Outdated(p) == call[p].at = "update" /\ call[p].version # items[call[p].id].version

\* An account that is in use is under the run's name for longer than the answer
\* to a renewal takes, and only its own renewals write it.
LeaseStands(c) ==
    /\ phase[c] = "validating" /\ Prompt(c) /\ Registered(c) =>
         Named(c) /\ asked[c] + Timeout <= items[leased[c]].leaseExpiresBy
    /\ phase[c] = "renewing" /\ ~late[c] /\ Registered(c) =>
         /\ Named(c)
         /\ due[c] + RenewMargin <= items[leased[c]].leaseExpiresBy + MaxDelay
         /\ renew[c] # "none"
         /\ ~Outdated(Renewal(c))

\* As long as the account is under the run's name, return can go through: the
\* renewal that was under way may outdate its first attempt, and no other begins.
ReturnPrevails(c) ==
    phase[c] = "returning" /\ Named(c) =>
        /\ Outdated(User(c)) => call[User(c)].retryNumber = 0 /\ renew[c] # "running"
        /\ renew[c] = "running" => call[User(c)].retryNumber = 0
        /\ renew[c] = "armed" => asked[c] + MaxDelay < due[c]

ReturnStands(c) == phase[c] = "returned" => ~Named(c)

ClientInOrder(c) ==
    /\ UserIsInOrder(c) /\ RenewalIsInOrder(c)
    /\ LeaseIsKnown(c) /\ ClockIsInTime(c)
    /\ LeaseStands(c) /\ ReturnPrevails(c) /\ ReturnStands(c)

IInv ==
    /\ PoolProved!IInv
    /\ Types
    /\ LeasedItemsExpire
    /\ \A c \in Clients : ClientInOrder(c)

----------------------------------------------------------------------------
(* The pool under the test runs. *)

\* The two callers of a client call for it.
LEMMA CallersOfAClient ==
    ASSUME NEW c \in Clients
    PROVE  /\ User(c) \in Clients \X {"user", "renewal"}
           /\ Renewal(c) \in Clients \X {"user", "renewal"}
           /\ User(c)[1] = c /\ Renewal(c)[1] = c
           /\ User(c) # Renewal(c)
           /\ \A d \in Clients : d # c => {User(d), Renewal(d)} \cap {User(c), Renewal(c)} = {}
BY DEF User, Renewal

LEMMA PoolClients == Pool!ClientIds = Clients
<1>1. \A c \in Clients : User(c) \in Clients \X {"user", "renewal"} /\ User(c)[1] = c
    BY CallersOfAClient
<1>2. ASSUME NEW p \in Clients \X {"user", "renewal"} PROVE p[1] \in Clients
    OBVIOUS
<1> QED
    BY <1>1, <1>2 DEF Pool!ClientIds

\* The proofs about the pool hold of the pool under the test runs.
LEMMA PoolStarts == Pool!Init => PoolProved!IInv
<1>1. Pool!Init => PoolProved!Init
    BY DEF Pool!Init, PoolProved!Init, Pool!ClientIds, PoolProved!ClientIds,
           Pool!NoCall, PoolProved!NoCall, Pool!NOT_LEASED, PoolProved!NOT_LEASED
<1>2. Pool!ClientIds = PoolProved!ClientIds
    BY DEF Pool!ClientIds, PoolProved!ClientIds
<1> QED
    BY <1>1, <1>2, PoolClients, PoolProved!InitEstablishes, RenewalAssumption

LEMMA AdvancesIsProved ==
    ASSUME NEW p \in Clients \X {"user", "renewal"}, Pool!Advances(p)
    PROVE  PoolProved!Advances(p)
<1> USE DEF Pool!Ends, PoolProved!Ends, Pool!NoCall, PoolProved!NoCall,
            Pool!Registered, PoolProved!Registered
<1>1. ASSUME NEW i \in Instances, Pool!QueryFinds(p, i) PROVE PoolProved!QueryFinds(p, i)
    BY <1>1 DEF Pool!QueryFinds, PoolProved!QueryFinds, Pool!Available, PoolProved!Available
<1>2. ASSUME Pool!QueryFindsNone(p) PROVE PoolProved!QueryFindsNone(p)
    BY <1>2 DEF Pool!QueryFindsNone, PoolProved!QueryFindsNone,
                Pool!Available, PoolProved!Available
<1>3. ASSUME Pool!GetSucceeds(p) PROVE PoolProved!GetSucceeds(p)
    BY <1>3 DEF Pool!GetSucceeds, PoolProved!GetSucceeds, Pool!Valid, PoolProved!Valid,
                Pool!NOT_LEASED, PoolProved!NOT_LEASED
<1>4. ASSUME Pool!GetFails(p) PROVE PoolProved!GetFails(p)
    BY <1>4 DEF Pool!GetFails, PoolProved!GetFails, Pool!Valid, PoolProved!Valid,
                Pool!NOT_LEASED, PoolProved!NOT_LEASED
<1>5. ASSUME Pool!UpdateSucceeds(p) PROVE PoolProved!UpdateSucceeds(p)
    BY <1>5 DEF Pool!UpdateSucceeds, PoolProved!UpdateSucceeds,
                Pool!ConditionHolds, PoolProved!ConditionHolds,
                Pool!Written, PoolProved!Written, Pool!Told, PoolProved!Told,
                Pool!Expiry, PoolProved!Expiry, Pool!Revoked, PoolProved!Revoked,
                Pool!ClientIds, PoolProved!ClientIds, Pool!NOT_LEASED, PoolProved!NOT_LEASED
<1>6. ASSUME Pool!UpdateConflicts(p) PROVE PoolProved!UpdateConflicts(p)
    BY <1>6 DEF Pool!UpdateConflicts, PoolProved!UpdateConflicts,
                Pool!ConditionHolds, PoolProved!ConditionHolds
<1>7. ~Pool!GetReadsOlder(p)
    BY DEF Pool!GetReadsOlder
<1> QED
    BY <1>1, <1>2, <1>3, <1>4, <1>5, <1>6, <1>7 DEF Pool!Advances, PoolProved!Advances

LEMMA PoolGoesOn ==
    ASSUME PoolProved!IInv, [Pool!Next]_poolVars
    PROVE  PoolProved!IInv'
<1>1. ASSUME Pool!Tick PROVE PoolProved!Tick
    BY <1>1 DEF Pool!Tick, PoolProved!Tick
<1>2. ASSUME NEW i \in Instances, Pool!Register(i) PROVE PoolProved!Register(i)
    BY <1>2 DEF Pool!Register, PoolProved!Register
<1>3. ASSUME NEW i \in Instances, Pool!Unregister(i) PROVE PoolProved!Unregister(i)
    BY <1>3 DEF Pool!Unregister, PoolProved!Unregister, Pool!Registered, PoolProved!Registered,
                Pool!Revoked, PoolProved!Revoked, Pool!ClientIds, PoolProved!ClientIds
<1>4. ASSUME NEW p \in Clients \X {"user", "renewal"}, NEW op \in Pool!Ops,
             NEW i \in Instances, Pool!Begin(p, op, i)
      PROVE  op \in PoolProved!Ops /\ PoolProved!Begin(p, op, i)
    BY <1>4 DEF Pool!Begin, PoolProved!Begin, Pool!Idle, PoolProved!Idle,
                Pool!Ops, PoolProved!Ops, Pool!UpdateOps, PoolProved!UpdateOps
<1>5. [Pool!Next]_poolVars => [PoolProved!Next]_poolVars
    BY <1>1, <1>2, <1>3, <1>4, AdvancesIsProved DEF Pool!Next, PoolProved!Next
<1>6. Pool!ClientIds = PoolProved!ClientIds
    BY DEF Pool!ClientIds, PoolProved!ClientIds
<1> QED
    BY <1>5, <1>6, PoolClients, PoolProved!NextPreserves, RenewalAssumption
       DEF poolVars, PoolProved!vars

\* What the proofs about the pool say of its state, in the terms of RenewedLease.
LEMMA PoolFacts ==
    ASSUME PoolProved!IInv
    PROVE  /\ Pool!TypeOK
           /\ \A p \in Clients \X {"user", "renewal"} :
                /\ call[p].at = "query" => call[p].op = "lease"
                /\ call[p].at = "get" => call[p].op # "lease"
                /\ call[p].time <= now
                /\ call[p].at = "update" =>
                     /\ call[p].version <= items[call[p].id].version
                     /\ items[call[p].id].registered # "never"
                /\ call[p].at = "update" /\ Pool!ConditionHolds(p) =>
                     /\ call[p].op = "lease" => items[call[p].id].leaseExpiresBy <= call[p].time
                     /\ call[p].op \notin {"lease"} \cup Pool!Unvalidated =>
                          items[call[p].id].leasingClientId = p[1]
<1>1. Pool!TypeOK
    BY DEF PoolProved!IInv, PoolProved!TypeOK, Pool!TypeOK, PoolProved!Item, Pool!Item,
           PoolProved!Call, Pool!Call, PoolProved!Ops, Pool!Ops, PoolProved!UpdateOps,
           Pool!UpdateOps, PoolProved!ClientIds, Pool!ClientIds
<1>2. ASSUME NEW p \in Clients \X {"user", "renewal"}
      PROVE  /\ call[p].at = "query" => call[p].op = "lease"
             /\ call[p].at = "get" => call[p].op # "lease"
             /\ call[p].time <= now
             /\ call[p].at = "update" =>
                  /\ call[p].version <= items[call[p].id].version
                  /\ items[call[p].id].registered # "never"
    BY DEF PoolProved!IInv, PoolProved!CallsFollowTheirCode, PoolProved!ReadsAreVersioned
<1>3. ASSUME NEW p \in Clients \X {"user", "renewal"},
             call[p].at = "update", Pool!ConditionHolds(p)
      PROVE  /\ call[p].op = "lease" => items[call[p].id].leaseExpiresBy <= call[p].time
             /\ call[p].op \notin {"lease"} \cup Pool!Unvalidated => items[call[p].id].leasingClientId = p[1]
    BY <1>3 DEF PoolProved!IInv, PoolProved!WritesAreValidated, PoolProved!ConditionHolds,
                Pool!ConditionHolds, PoolProved!Registered, Pool!Registered
<1> QED
    BY <1>1, <1>2, <1>3

LEMMA ItemTypes ==
    ASSUME PoolProved!IInv
    PROVE  /\ items \in [Instances -> [registered : {"never", "yes", "removed"}, version : Nat,
                                       leaseExpiresBy : Nat,
                                       leasingClientId : Clients \cup {NoClient},
                                       suspensionReason : BOOLEAN]]
           /\ now \in Nat
           /\ call \in [Clients \X {"user", "renewal"} -> Pool!Call]
BY PoolFacts, PoolClients DEF Pool!TypeOK, Pool!Item

\* No call of a test run is an administrator's.
LEMMA AllValidated ==
    ASSUME IInv, NEW p \in Clients \X {"user", "renewal"}
    PROVE  call[p].op \notin Pool!Unvalidated
<1>1. PICK c \in Clients : p = User(c) \/ p = Renewal(c)
    BY DEF User, Renewal
<1> QED
    BY <1>1 DEF IInv, ClientInOrder, UserIsInOrder, RenewalIsInOrder

\* A write goes over an account that is nobody's any more, or the client's own.
WritesFor(c, p) ==
    LET i == call[p].id IN
    /\ i \in Instances
    /\ items[i].registered = "yes" /\ items'[i].registered = "yes"
    /\ \A j \in Instances \ {i} : items'[j] = items[j]
    /\ items'[i].version = items[i].version + 1
    /\ call[p].op = "lease" => items[i].leaseExpiresBy <= now
    /\ call[p].op # "lease" => items[i].leasingClientId = c
    /\ items'[i].leasingClientId = IF call[p].op = "return" THEN NoClient ELSE c
    /\ call[p].op # "return" => items'[i].leaseExpiresBy = call[p].time + Timeout
    /\ now' = now
    /\ call'[p].at = "idle" /\ call'[p].op = "lease"
    /\ \A q \in (Clients \X {"user", "renewal"}) \ {p} : call'[q] = call[q]

LEMMA Writes ==
    ASSUME IInv, NEW c \in Clients, NEW p \in {User(c), Renewal(c)}, Pool!UpdateSucceeds(p)
    PROVE  WritesFor(c, p)
<1> DEFINE i == call[p].id
           op == call[p].op
           time == call[p].time
           w == Pool!Written(items[i], op, time, c)
<1>1. p \in Clients \X {"user", "renewal"} /\ p[1] = c
    BY CallersOfAClient
<1>2. PoolProved!IInv
    BY DEF IInv
<1>3. /\ call[p] \in Pool!Call /\ i \in Instances /\ op \in Pool!Ops /\ time \in Nat
      /\ now \in Nat /\ time <= now /\ op \notin Pool!Unvalidated
    BY <1>1, <1>2, ItemTypes, PoolFacts, AllValidated DEF Pool!Call
<1>4. call[p].at = "update" /\ Pool!ConditionHolds(p) /\ items[i].registered = "yes"
    BY DEF Pool!UpdateSucceeds, Pool!ConditionHolds, Pool!Registered
<1>5. /\ op = "lease" => items[i].leaseExpiresBy <= time
      /\ op # "lease" => items[i].leasingClientId = c
    BY <1>1, <1>2, <1>3, <1>4, PoolFacts
<1>6. items' = [items EXCEPT ![i] = w] /\ now' = now /\ Pool!Ends(p)
    BY <1>1 DEF Pool!UpdateSucceeds
<1>7. /\ items[i].leaseExpiresBy \in Nat /\ items[i].version \in Nat
      /\ DOMAIN items[i] = {"registered", "version", "leaseExpiresBy", "leasingClientId",
                            "suspensionReason"}
    BY <1>2, <1>3, ItemTypes
<1>8. /\ w.registered = items[i].registered /\ w.version = items[i].version + 1
      /\ w.leaseExpiresBy = Pool!Expiry(op, time)
      /\ w.leasingClientId = IF op = "lease" THEN c
                             ELSE IF op \in Pool!Returns THEN NoClient
                             ELSE items[i].leasingClientId
    <2> HIDE DEF i, op, time
    <2>1. \A e, v, l, s :
            LET x == [items[i] EXCEPT !.version = v, !.leaseExpiresBy = e,
                                      !.leasingClientId = l, !.suspensionReason = s]
            IN  /\ x.registered = items[i].registered /\ x.version = v
                /\ x.leaseExpiresBy = e /\ x.leasingClientId = l
        BY <1>7
    <2> QED
        BY <2>1 DEF Pool!Written
<1>9. items'[i] = w /\ \A j \in Instances \ {i} : items'[j] = items[j]
    <2> HIDE DEF w, i
    <2> QED
        BY <1>2, <1>3, <1>6, ItemTypes
<1>10. /\ call'[p] = Pool!NoCall
       /\ \A q \in (Clients \X {"user", "renewal"}) \ {p} : call'[q] = call[q]
    BY <1>1, <1>2, <1>6, ItemTypes DEF Pool!Ends
<1>11. Pool!NoCall.at = "idle" /\ Pool!NoCall.op = "lease"
    BY DEF Pool!NoCall
<1>12. op = "lease" => items[i].leaseExpiresBy <= now
    BY <1>3, <1>5, <1>7
<1>13. op # "return" => w.leaseExpiresBy = time + Timeout
    BY <1>3, <1>8 DEF Pool!Expiry
<1> HIDE DEF w
<1> QED
    BY <1>3, <1>4, <1>5, <1>6, <1>8, <1>9, <1>10, <1>11, <1>12, <1>13 DEF WritesFor

\* What a request does that writes nothing.
ReadsFor(p) ==
    /\ UNCHANGED <<items, now>>
    /\ \A q \in (Clients \X {"user", "renewal"}) \ {p} : call'[q] = call[q]
    /\ call[p].at # "idle"
    /\ call'[p].op \notin Pool!Unvalidated
    /\ call'[p].at # "idle" =>
         /\ call'[p].op = call[p].op
         /\ call[p].op # "lease" => call'[p].id = call[p].id
         /\ call'[p].time \in Nat /\ call[p].time <= call'[p].time
         /\ \/ call'[p].retryNumber = call[p].retryNumber /\ ~Outdated(p)'
            \/ call[p].at = "update" /\ ~Pool!ConditionHolds(p) /\ call'[p].at # "update"
    /\ call'[p].at = "idle" =>
         \/ call[p].at = "query"
         \/ /\ call[p].at = "get"
            /\ ~(Pool!Registered(call[p].id)
                 /\ Pool!Valid(call[p].op, items[call[p].id], p[1]))
         \/ /\ call[p].at = "update" /\ ~Pool!ConditionHolds(p)
            /\ call[p].retryNumber = OptimisticLockMaxRetries

LEMMA Reads ==
    ASSUME IInv, NEW c \in Clients, NEW p \in {User(c), Renewal(c)},
           Pool!Advances(p), ~Pool!UpdateSucceeds(p)
    PROVE  ReadsFor(p)
<1>1. p \in Clients \X {"user", "renewal"}
    BY CallersOfAClient
<1>2. /\ call \in [Clients \X {"user", "renewal"} -> Pool!Call]
      /\ call[p] \in Pool!Call /\ now \in Nat /\ call[p].time <= now
      /\ call[p].op \notin Pool!Unvalidated
      /\ call[p].at = "query" => call[p].op = "lease"
      /\ call[p].at = "get" => call[p].op # "lease"
    BY <1>1, ItemTypes, PoolFacts, AllValidated DEF IInv
<1>3. Pool!NoCall.at = "idle" /\ Pool!NoCall.op = "lease"
    BY DEF Pool!NoCall
<1>4. ASSUME NEW i \in Instances, Pool!QueryFinds(p, i) PROVE ReadsFor(p)
    <2>1. /\ call' = [call EXCEPT ![p] = [call[p] EXCEPT !.at = "update", !.id = i,
                                                          !.version = items[i].version]]
          /\ UNCHANGED <<items, now>> /\ call[p].at = "query"
        BY <1>1, <1>2, <1>4 DEF Pool!QueryFinds
    <2>2. /\ call'[p].at = "update" /\ call'[p].id = i /\ call'[p].version = items[i].version
          /\ call'[p].op = call[p].op /\ call'[p].time = call[p].time
          /\ call'[p].retryNumber = call[p].retryNumber
        BY <1>1, <1>2, <2>1 DEF Pool!Call
    <2> QED
        BY <1>1, <1>2, <2>1, <2>2 DEF ReadsFor, Outdated, Pool!Call
<1>5. CASE Pool!QueryFindsNone(p)
    BY <1>1, <1>2, <1>3, <1>5 DEF Pool!QueryFindsNone, Pool!Ends, ReadsFor
<1>6. CASE Pool!GetSucceeds(p)
    <2>1. /\ call' = [call EXCEPT ![p] = [call[p] EXCEPT !.at = "update",
                                            !.version = items[call[p].id].version]]
          /\ UNCHANGED <<items, now>> /\ call[p].at = "get"
        BY <1>1, <1>2, <1>6 DEF Pool!GetSucceeds
    <2>2. /\ call'[p].at = "update" /\ call'[p].id = call[p].id
          /\ call'[p].version = items[call[p].id].version
          /\ call'[p].op = call[p].op /\ call'[p].time = call[p].time
          /\ call'[p].retryNumber = call[p].retryNumber
        BY <1>1, <1>2, <2>1 DEF Pool!Call
    <2> QED
        BY <1>1, <1>2, <2>1, <2>2 DEF ReadsFor, Outdated, Pool!Call
<1>7. CASE Pool!GetFails(p)
    <2>1. /\ call' = [call EXCEPT ![p] = Pool!NoCall]
          /\ UNCHANGED <<items, now>> /\ call[p].at = "get"
          /\ ~(Pool!Registered(call[p].id) /\ Pool!Valid(call[p].op, items[call[p].id], p[1]))
        BY <1>1, <1>7 DEF Pool!GetFails, Pool!Ends
    <2> QED
        BY <1>1, <1>2, <1>3, <2>1 DEF ReadsFor
<1>8. CASE Pool!UpdateConflicts(p)
    <2>1. UNCHANGED <<items, now>> /\ call[p].at = "update" /\ ~Pool!ConditionHolds(p)
        BY <1>8 DEF Pool!UpdateConflicts
    <2>2. CASE call[p].retryNumber = OptimisticLockMaxRetries
        BY <1>1, <1>2, <1>3, <1>8, <2>1, <2>2 DEF Pool!UpdateConflicts, Pool!Ends, ReadsFor
    <2>3. CASE call[p].retryNumber # OptimisticLockMaxRetries
        <3> DEFINE at == IF call[p].op = "lease" THEN "query" ELSE "get"
                   time == IF call[p].op = "lease" THEN now ELSE call[p].time
        <3>1. call' = [call EXCEPT ![p] =
                         [call[p] EXCEPT !.retryNumber = call[p].retryNumber + 1,
                                         !.version = 0, !.at = at, !.time = time]]
            BY <1>1, <1>2, <1>8, <2>3 DEF Pool!UpdateConflicts
        <3>2. at \in {"query", "get"} /\ time \in Nat /\ call[p].time <= time
            BY <1>2 DEF Pool!Call
        <3> HIDE DEF at, time
        <3>3. /\ call'[p].at = at /\ call'[p].time = time /\ call'[p].op = call[p].op
              /\ call'[p].id = call[p].id
              /\ \A q \in (Clients \X {"user", "renewal"}) \ {p} : call'[q] = call[q]
            BY <1>1, <1>2, <3>1 DEF Pool!Call
        <3> QED
            BY <1>2, <2>1, <3>2, <3>3 DEF ReadsFor
    <2> QED
        BY <2>2, <2>3
<1> QED
    BY <1>4, <1>5, <1>6, <1>7, <1>8 DEF Pool!Advances, Pool!GetReadsOlder

----------------------------------------------------------------------------
(* The other test runs. *)

\* All that c's run itself changes is as it was for d.
LeavesAlone(d) ==
    /\ phase'[d] = phase[d] /\ leased'[d] = leased[d] /\ renew'[d] = renew[d]
    /\ due'[d] = due[d] /\ asked'[d] = asked[d] /\ late'[d] = late[d]
    /\ call'[User(d)] = call[User(d)] /\ call'[Renewal(d)] = call[Renewal(d)]
    /\ now' = now

\* An item is not d's after a step that changes it, and was not d's to use before;
\* or an administrator registers or unregisters it.
ItemsStandFor(d) ==
    \A i \in Instances :
        \/ items'[i] = items[i]
        \/ /\ items'[i].registered = items[i].registered
           /\ items'[i].leasingClientId # d
           /\ items[i].leasingClientId = d => items[i].leaseExpiresBy <= now
        \/ items[i].registered = "never" /\ items'[i].registered = "yes"
        \/ items'[i].registered = "removed"

\* A lease in use has not run out.
LEMMA LeaseInUse ==
    ASSUME IInv, NEW d \in Clients, HasAccount(d), Registered(d)
    PROVE  Named(d) /\ items[leased[d]].leaseExpiresBy > now
<1>1. /\ now \in Nat /\ asked[d] \in Nat /\ due[d] \in Nat /\ MaxDelay \in Nat
      /\ Timeout \in Nat /\ RenewMargin \in Nat /\ leased[d] \in Instances
      /\ items[leased[d]].leaseExpiresBy \in Nat
    BY ItemTypes, RenewalAssumption DEF IInv, Types, ClientInOrder, LeaseIsKnown, HasAccount
<1>2. CASE phase[d] = "validating" /\ Prompt(d)
    <2>1. now <= asked[d] + MaxDelay /\ asked[d] + Timeout <= items[leased[d]].leaseExpiresBy
        BY <1>2 DEF IInv, ClientInOrder, LeaseStands, Prompt
    <2>2. MaxDelay < Timeout
        BY <1>1, RenewalAssumption
    <2> QED
        BY <1>1, <1>2, <2>1, <2>2 DEF IInv, ClientInOrder, LeaseStands
<1>3. CASE phase[d] = "renewing" /\ ~late[d]
    <2>1. /\ now <= due[d] + MaxDelay
          /\ due[d] + RenewMargin <= items[leased[d]].leaseExpiresBy + MaxDelay
        BY <1>3 DEF IInv, ClientInOrder, ClockIsInTime, LeaseStands
    <2>2. 2 * MaxDelay < RenewMargin
        BY RenewalAssumption
    <2>3. items[leased[d]].leaseExpiresBy > now
        BY <1>1, <2>1, <2>2
    <2> QED
        BY <1>3, <2>3 DEF IInv, ClientInOrder, LeaseStands
<1> QED
    BY <1>2, <1>3 DEF HasAccount

LEMMA OthersStayInOrder ==
    ASSUME IInv, NEW d \in Clients, LeavesAlone(d), ItemsStandFor(d)
    PROVE  ClientInOrder(d)'
<1>1. ClientInOrder(d) /\ Types /\ now \in Nat
    BY ItemTypes DEF IInv
<1>2. UserIsInOrder(d)' /\ RenewalIsInOrder(d)' /\ ClockIsInTime(d)'
    BY <1>1 DEF LeavesAlone, ClientInOrder, UserIsInOrder, RenewalIsInOrder, ClockIsInTime
<1>3. LeaseIsKnown(d)'
    BY <1>1 DEF LeavesAlone, ItemsStandFor, ClientInOrder, LeaseIsKnown
<1>4. LeaseStands(d)'
    <2> SUFFICES ASSUME HasAccount(d), Registered(d)'
                 PROVE  LeaseStands(d)'
        BY DEF LeaseStands, LeavesAlone, HasAccount, Prompt
    <2>1. leased[d] \in Instances /\ items[leased[d]].registered # "never"
        BY <1>1 DEF ClientInOrder, LeaseIsKnown, HasAccount
    <2>2. items'[leased[d]].registered = "yes"
        BY DEF Registered, LeavesAlone
    <2>3. items'[leased[d]] = items[leased[d]]
        <3>1. \/ items'[leased[d]] = items[leased[d]]
              \/ /\ items'[leased[d]].registered = items[leased[d]].registered
                 /\ items[leased[d]].leasingClientId = d => items[leased[d]].leaseExpiresBy <= now
            BY <2>1, <2>2 DEF ItemsStandFor
        <3>2. CASE items[leased[d]].registered = "yes"
            <4>1. Named(d) /\ items[leased[d]].leaseExpiresBy > now
                BY <3>2, LeaseInUse DEF Registered
            <4>2. items[leased[d]].leaseExpiresBy \in Nat
                BY <2>1, ItemTypes DEF IInv
            <4> QED
                BY <1>1, <3>1, <4>1, <4>2 DEF Named
        <3> QED
            BY <2>2, <3>1, <3>2
    <2>4. call[Renewal(d)].at = "update" /\ renew[d] = "running" => call[Renewal(d)].id = leased[d]
        BY <1>1 DEF ClientInOrder, RenewalIsInOrder
    <2>5. renew[d] # "running" /\ phase[d] # "over" => call[Renewal(d)].at # "update"
        BY <1>1 DEF ClientInOrder, RenewalIsInOrder
    <2>6. Registered(d) /\ (Named(d)' <=> Named(d))
        BY <2>2, <2>3 DEF LeavesAlone, Registered, Named
    <2>7. Outdated(Renewal(d))' => Outdated(Renewal(d)) \/ phase[d] = "over"
        BY <1>1, <2>3, <2>4, <2>5 DEF LeavesAlone, Outdated, Types
    <2> QED
        BY <1>1, <2>2, <2>3, <2>6, <2>7
           DEF LeavesAlone, ClientInOrder, LeaseStands, HasAccount, Prompt
<1>5. Named(d)' /\ phase[d] \in {"returning", "returned"}
        => Named(d) /\ items'[leased[d]] = items[leased[d]]
    <2>1. phase[d] \in {"returning", "returned"} =>
            leased[d] \in Instances /\ items[leased[d]].registered # "never"
        BY <1>1 DEF ClientInOrder, LeaseIsKnown
    <2> QED
        BY <2>1 DEF LeavesAlone, ItemsStandFor, Named, Registered
<1>6. ReturnPrevails(d)'
    <2> SUFFICES ASSUME phase[d] = "returning", Named(d)'
                 PROVE  ReturnPrevails(d)'
        BY DEF ReturnPrevails, LeavesAlone
    <2>1. call[User(d)].id = leased[d]
        BY <1>1 DEF ClientInOrder, UserIsInOrder
    <2>2. Outdated(User(d))' => Outdated(User(d))
        BY <1>5, <2>1 DEF LeavesAlone, Outdated
    <2> QED
        BY <1>1, <1>5, <2>2 DEF LeavesAlone, ClientInOrder, ReturnPrevails
<1>7. ReturnStands(d)'
    BY <1>1, <1>5 DEF LeavesAlone, ClientInOrder, ReturnStands
<1> QED
    BY <1>2, <1>3, <1>4, <1>6, <1>7 DEF ClientInOrder

\* A write of one run leaves the accounts of the others alone.
LEMMA WritesStandForOthers ==
    ASSUME IInv, NEW c \in Clients, NEW p \in {User(c), Renewal(c)}, WritesFor(c, p),
           NEW d \in Clients, d # c
    PROVE  ItemsStandFor(d)
<1>1. \A i \in Instances : items[i].leaseExpiresBy \in Nat
    BY ItemTypes DEF IInv
<1>2. NoClient # d
    BY RenewalAssumption
<1> QED
    BY <1>1, <1>2 DEF WritesFor, ItemsStandFor

----------------------------------------------------------------------------
(* A step of a test run. *)

\* The variables of the other runs stay.
OwnChange(c) ==
    /\ Types'
    /\ now' = now
    /\ \A d \in Clients \ {c} :
         /\ phase'[d] = phase[d] /\ leased'[d] = leased[d] /\ renew'[d] = renew[d]
         /\ due'[d] = due[d] /\ asked'[d] = asked[d] /\ late'[d] = late[d]

\* Types of the times, for arithmetic.
LEMMA Times ==
    ASSUME IInv, NEW c \in Clients
    PROVE  /\ now \in Nat /\ due[c] \in Nat /\ asked[c] \in Nat
           /\ MaxDelay \in Nat /\ Timeout \in Nat /\ RenewMargin \in Nat
           /\ RenewMargin <= Timeout /\ RenewTimeout \in Nat
           /\ 2 * MaxDelay < RenewMargin /\ MaxDelay < RenewTimeout
           /\ call[User(c)] \in Pool!Call /\ call[Renewal(c)] \in Pool!Call
           /\ call[User(c)].time \in Nat /\ call[Renewal(c)].time \in Nat
           /\ call[User(c)].time <= now /\ call[Renewal(c)].time <= now
<1>1. now \in Nat /\ due[c] \in Nat /\ asked[c] \in Nat
    BY ItemTypes DEF IInv, Types
<1>2. /\ MaxDelay \in Nat /\ Timeout \in Nat /\ RenewMargin \in Nat
      /\ RenewMargin <= Timeout /\ RenewTimeout \in Nat
      /\ 2 * MaxDelay < RenewMargin /\ MaxDelay < RenewTimeout
    BY RenewalAssumption DEF RenewTimeout
<1>3. call[User(c)] \in Pool!Call /\ call[Renewal(c)] \in Pool!Call
    BY ItemTypes, CallersOfAClient DEF IInv
<1>4. call[User(c)].time <= now /\ call[Renewal(c)].time <= now
    BY PoolFacts, CallersOfAClient DEF IInv
<1> QED
    BY <1>1, <1>2, <1>3, <1>4 DEF Pool!Call

\* What holds of every run when one of them takes a step.
LEMMA OwnStep ==
    ASSUME IInv, PoolProved!IInv',
           NEW c \in Clients, NEW p \in {User(c), Renewal(c)},
           \A q \in (Clients \X {"user", "renewal"}) \ {p} : call'[q] = call[q],
           UNCHANGED items \/ WritesFor(c, p),
           OwnChange(c), ClientInOrder(c)'
    PROVE  IInv'
<1>1. ASSUME NEW d \in Clients, d # c PROVE ClientInOrder(d)'
    <2>1. User(d) # p /\ Renewal(d) # p
        BY <1>1, CallersOfAClient
    <2>2. call'[User(d)] = call[User(d)] /\ call'[Renewal(d)] = call[Renewal(d)]
        BY <2>1, CallersOfAClient
    <2>3. LeavesAlone(d)
        BY <1>1, <2>2 DEF LeavesAlone, OwnChange
    <2>4. ItemsStandFor(d)
        BY <1>1, WritesStandForOthers DEF ItemsStandFor
    <2> QED
        BY <2>3, <2>4, OthersStayInOrder
<1>2. LeasedItemsExpire'
    <2>1. CASE WritesFor(c, p)
        <3>1. call[p].time \in Nat /\ Timeout \in Nat /\ Timeout > 0
            BY Times
        <3> QED
            BY <2>1, <3>1 DEF WritesFor, IInv, LeasedItemsExpire
    <2> QED
        BY <2>1 DEF IInv, LeasedItemsExpire
<1> QED
    BY <1>1, <1>2 DEF OwnChange, IInv

\* A call of the user that begins is at its first request.
LEMMA Begins ==
    ASSUME IInv, NEW c \in Clients, NEW op \in {"lease", "suspend", "return"},
           NEW i \in Instances, Pool!Begin(User(c), op, i)
    PROVE  /\ UNCHANGED <<items, now>>
           /\ \A q \in (Clients \X {"user", "renewal"}) \ {User(c)} : call'[q] = call[q]
           /\ call'[Renewal(c)] = call[Renewal(c)]
           /\ call'[User(c)].op = op /\ call'[User(c)].id = i
           /\ call'[User(c)].at = IF op = "lease" THEN "query" ELSE "get"
           /\ call'[User(c)].retryNumber = 0
<1>1. call \in [Clients \X {"user", "renewal"} -> Pool!Call]
    BY ItemTypes DEF IInv
<1> QED
    BY <1>1, CallersOfAClient DEF Pool!Begin

LEMMA TryLeaseStep ==
    ASSUME IInv, PoolProved!IInv', NEW c \in Clients, TryLease(c)
    PROVE  IInv'
<1> DEFINE i == CHOOSE j \in Instances : TRUE
<1>1. i \in Instances
    BY RenewalAssumption
<1>2. Types /\ ClientInOrder(c) /\ phase[c] = "started" /\ Pool!Begin(User(c), "lease", i)
    BY DEF IInv, TryLease
<1> HIDE DEF i
<1>3. /\ phase' = [phase EXCEPT ![c] = "leasing"] /\ UNCHANGED <<leased, renew, due, asked, late>>
    BY DEF TryLease, Becomes
<1>4. OwnChange(c) /\ phase'[c] = "leasing"
    BY <1>1, <1>2, <1>3, Begins DEF OwnChange, Types, Phases
<1>5. ClientInOrder(c)'
    BY <1>1, <1>2, <1>3, <1>4, Begins, Times
       DEF ClientInOrder, UserIsInOrder, RenewalIsInOrder, LeaseIsKnown, ClockIsInTime,
           LeaseStands, ReturnPrevails, ReturnStands
<1> QED
    BY <1>1, <1>2, <1>4, <1>5, Begins, OwnStep

LEMMA LeaseGrantedStep ==
    ASSUME IInv, PoolProved!IInv', NEW c \in Clients, LeaseGranted(c)
    PROVE  IInv'
<1> DEFINE i == call[User(c)].id
<1>1. /\ Types /\ ClientInOrder(c) /\ phase[c] = "leasing"
      /\ call[User(c)].op = "lease"
    BY DEF IInv, LeaseGranted, ClientInOrder, UserIsInOrder
<1>2. WritesFor(c, User(c)) /\ i \in Instances
    BY Writes DEF LeaseGranted, WritesFor
<1>3. /\ phase' = [phase EXCEPT ![c] = "validating"]
      /\ leased' = [leased EXCEPT ![c] = i]
      /\ asked' = [asked EXCEPT ![c] = call[User(c)].time] /\ UNCHANGED <<renew, due, late>>
    BY DEF LeaseGranted, Becomes
<1> HIDE DEF i
<1>4. /\ OwnChange(c) /\ phase'[c] = "validating" /\ leased'[c] = i
      /\ asked'[c] = call[User(c)].time
    BY <1>1, <1>2, <1>3, Times DEF OwnChange, Types, Phases, WritesFor
<1>5. /\ items'[i].registered = "yes" /\ items'[i].leasingClientId = c
      /\ items'[i].leaseExpiresBy = call[User(c)].time + Timeout
      /\ call'[User(c)].at = "idle" /\ call'[User(c)].op \notin Pool!Unvalidated
    BY <1>1, <1>2 DEF WritesFor, i
<1>6. call'[Renewal(c)] = call[Renewal(c)] /\ now' = now
    BY <1>2, CallersOfAClient DEF WritesFor
<1>7. ClientInOrder(c)'
    BY <1>1, <1>2, <1>3, <1>4, <1>5, <1>6, Times
       DEF ClientInOrder, UserIsInOrder, RenewalIsInOrder, LeaseIsKnown, ClockIsInTime,
           LeaseStands, ReturnPrevails, ReturnStands, Named, Registered
<1> QED
    BY <1>2, <1>4, <1>7, OwnStep DEF WritesFor

LEMMA ValidationSuspendsStep ==
    ASSUME IInv, PoolProved!IInv', NEW c \in Clients, ValidationSuspends(c)
    PROVE  IInv'
<1>1. Types /\ ClientInOrder(c) /\ phase[c] = "validating" /\ Pool!Begin(User(c), "suspend", leased[c])
    BY DEF IInv, ValidationSuspends
<1>2. leased[c] \in Instances
    BY <1>1 DEF ClientInOrder, LeaseIsKnown
<1>3. /\ phase' = [phase EXCEPT ![c] = "suspending"]
      /\ UNCHANGED <<leased, renew, due, asked, late>>
    BY DEF ValidationSuspends, Becomes
<1>4. OwnChange(c) /\ phase'[c] = "suspending"
    BY <1>1, <1>2, <1>3, Begins DEF OwnChange, Types, Phases
<1>5. ClientInOrder(c)'
    BY <1>1, <1>2, <1>3, <1>4, Begins, Times
       DEF ClientInOrder, UserIsInOrder, RenewalIsInOrder, LeaseIsKnown, ClockIsInTime,
           LeaseStands, ReturnPrevails, ReturnStands
<1> QED
    BY <1>1, <1>2, <1>4, <1>5, Begins, OwnStep

\* A call that fails wrote nothing.
LEMMA FailsReads ==
    ASSUME IInv, NEW c \in Clients, NEW p \in {User(c), Renewal(c)}, Fails(p)
    PROVE  ReadsFor(p) /\ call'[p].at = "idle"
BY Reads DEF Fails

LEMMA SuspendEndsStep ==
    ASSUME IInv, PoolProved!IInv', NEW c \in Clients, SuspendEnds(c)
    PROVE  IInv'
<1>1. Types /\ ClientInOrder(c) /\ phase[c] = "suspending"
    BY DEF IInv, SuspendEnds
<1>2. leased' = [leased EXCEPT ![c] = NoInstance] /\ UNCHANGED <<renew, due, asked, late>>
    BY DEF SuspendEnds
<1>3. \/ WritesFor(c, User(c)) /\ phase' = [phase EXCEPT ![c] = "started"]
      \/ ReadsFor(User(c)) /\ phase' = [phase EXCEPT ![c] = "over"]
    BY Writes, FailsReads DEF SuspendEnds, Becomes
<1>4. /\ UNCHANGED items \/ WritesFor(c, User(c))
      /\ \A q \in (Clients \X {"user", "renewal"}) \ {User(c)} : call'[q] = call[q]
      /\ call'[Renewal(c)] = call[Renewal(c)] /\ now' = now
    BY <1>3, CallersOfAClient DEF WritesFor, ReadsFor
<1>5. /\ call'[User(c)].op \notin Pool!Unvalidated
      /\ phase'[c] = "over" \/ (phase'[c] = "started" /\ call'[User(c)].at = "idle")
    BY <1>1, <1>3 DEF WritesFor, ReadsFor, Types
<1>6. OwnChange(c)
    BY <1>1, <1>2, <1>3, <1>4 DEF OwnChange, Types, Phases
<1>7. ClientInOrder(c)'
    BY <1>1, <1>2, <1>4, <1>5, Times
       DEF ClientInOrder, UserIsInOrder, RenewalIsInOrder, LeaseIsKnown, ClockIsInTime,
           LeaseStands, ReturnPrevails, ReturnStands
<1> QED
    BY <1>4, <1>6, <1>7, OwnStep

LEMMA GivesUpStep ==
    ASSUME IInv, PoolProved!IInv', NEW c \in Clients, GivesUp(c)
    PROVE  IInv'
<1>1. Types /\ ClientInOrder(c)
    BY DEF IInv
<1>2. /\ phase' = [phase EXCEPT ![c] = "over"] /\ renew' = [renew EXCEPT ![c] = "none"]
      /\ UNCHANGED <<leased, due, asked, late>>
    BY DEF GivesUp, Becomes
<1>3. /\ UNCHANGED <<items, now>>
      /\ \A q \in (Clients \X {"user", "renewal"}) \ {User(c)} : call'[q] = call[q]
      /\ call'[User(c)].op \notin Pool!Unvalidated
    <2>1. CASE Fails(User(c))
        BY <2>1, FailsReads DEF ReadsFor
    <2>2. CASE UNCHANGED poolVars
        BY <2>2, <1>1 DEF poolVars, ClientInOrder, UserIsInOrder
    <2> QED
        BY <2>1, <2>2 DEF GivesUp
<1>4. OwnChange(c) /\ phase'[c] = "over" /\ renew'[c] = "none"
    BY <1>1, <1>2, <1>3 DEF OwnChange, Types, Phases
<1>5. call'[Renewal(c)] = call[Renewal(c)]
    BY <1>3, CallersOfAClient
<1>6. ClientInOrder(c)'
    BY <1>1, <1>2, <1>3, <1>4, <1>5, Times
       DEF ClientInOrder, UserIsInOrder, RenewalIsInOrder, LeaseIsKnown, ClockIsInTime,
           LeaseStands, ReturnPrevails, ReturnStands
<1> QED
    BY <1>3, <1>4, <1>6, OwnStep

----------------------------------------------------------------------------
(* The renewals of a test run, and its return. *)

LEMMA ConstructStep ==
    ASSUME IInv, PoolProved!IInv', NEW c \in Clients, Construct(c)
    PROVE  IInv'
<1>1. Types /\ ClientInOrder(c) /\ phase[c] = "validating"
    BY DEF IInv, Construct
<1>2. /\ phase' = [phase EXCEPT ![c] = "renewing"] /\ renew' = [renew EXCEPT ![c] = "armed"]
      /\ due' = [due EXCEPT ![c] = now + RenewTimeout]
      /\ late' = [late EXCEPT ![c] = ~Prompt(c)]
      /\ UNCHANGED <<items, now, call, leased, asked>>
    BY DEF Construct, Becomes, Arm
<1>3. now + RenewTimeout \in Nat
    BY Times
<1>4. /\ OwnChange(c) /\ phase'[c] = "renewing" /\ renew'[c] = "armed"
      /\ due'[c] = now + RenewTimeout
    BY <1>1, <1>2, <1>3 DEF OwnChange, Types, Phases, Prompt
<1>5. call[User(c)].at = "idle" /\ call[Renewal(c)].at = "idle"
    BY <1>1 DEF Types, ClientInOrder, UserIsInOrder, RenewalIsInOrder
<1>6. Prompt(c) /\ Registered(c) =>
          Named(c) /\ asked[c] + Timeout <= items[leased[c]].leaseExpiresBy
    BY <1>1 DEF ClientInOrder, LeaseStands
<1>7. leased[c] \in Instances /\ items[leased[c]].leaseExpiresBy \in Nat
    BY <1>1, ItemTypes DEF IInv, ClientInOrder, LeaseIsKnown
<1>8. Prompt(c) /\ Registered(c) =>
          due'[c] + RenewMargin <= items[leased[c]].leaseExpiresBy + MaxDelay
    <2>1. Prompt(c) => now <= asked[c] + MaxDelay
        BY DEF Prompt
    <2>2. due'[c] + RenewMargin = now + Timeout
        BY <1>4, Times DEF RenewTimeout
    <2>3. /\ now \in Nat /\ asked[c] \in Nat /\ MaxDelay \in Nat /\ Timeout \in Nat
          /\ RenewMargin \in Nat
        BY Times
    <2> QED
        BY <1>6, <1>7, <2>1, <2>2, <2>3
<1>9. ~late'[c] => Prompt(c)
    BY <1>1, <1>2, Zenon DEF Types
<1>10. LeaseStands(c)'
    BY <1>2, <1>4, <1>5, <1>6, <1>8, <1>9 DEF LeaseStands, Named, Registered, Outdated
<1>11. ClientInOrder(c)'
    BY <1>1, <1>2, <1>4, <1>5, <1>10, Times
       DEF ClientInOrder, UserIsInOrder, RenewalIsInOrder, LeaseIsKnown, ClockIsInTime,
           ReturnPrevails, ReturnStands
<1> QED
    BY <1>2, <1>4, <1>11, OwnStep

LEMMA RenewStep ==
    ASSUME IInv, PoolProved!IInv', NEW c \in Clients, Renew(c)
    PROVE  IInv'
<1>1. /\ Types /\ ClientInOrder(c) /\ renew[c] = "armed" /\ now >= due[c]
      /\ phase[c] \in {"renewing", "returning", "returned"}
    BY DEF IInv, Renew, ClientInOrder, RenewalIsInOrder
<1>2. /\ renew' = [renew EXCEPT ![c] = "running"]
      /\ UNCHANGED <<items, now, phase, leased, due, asked, late>>
      /\ Pool!Begin(Renewal(c), "updateTimeout", leased[c])
    BY DEF Renew, Pool!Begin
<1>3. /\ \A q \in (Clients \X {"user", "renewal"}) \ {Renewal(c)} : call'[q] = call[q]
      /\ call'[User(c)] = call[User(c)]
      /\ call'[Renewal(c)].op = "updateTimeout" /\ call'[Renewal(c)].id = leased[c]
      /\ call'[Renewal(c)].at = "get" /\ call'[Renewal(c)].time = now
    BY <1>2, ItemTypes, CallersOfAClient DEF IInv, Pool!Begin
<1>4. OwnChange(c) /\ renew'[c] = "running"
    BY <1>1, <1>2 DEF OwnChange, Types
<1>5. ~(phase[c] = "returning" /\ Named(c))
    BY <1>1, Times DEF ClientInOrder, ReturnPrevails, ClockIsInTime
<1>6. ClientInOrder(c)'
    BY <1>1, <1>2, <1>3, <1>4, <1>5, Times
       DEF ClientInOrder, UserIsInOrder, RenewalIsInOrder, LeaseIsKnown, ClockIsInTime,
           LeaseStands, ReturnPrevails, ReturnStands, Named, Registered, Outdated
<1> QED
    BY <1>2, <1>3, <1>4, <1>6, OwnStep

LEMMA RenewSucceedsStep ==
    ASSUME IInv, PoolProved!IInv', NEW c \in Clients, RenewSucceeds(c)
    PROVE  IInv'
<1> DEFINE i == leased[c]
<1>1. /\ Types /\ ClientInOrder(c) /\ renew[c] = "running"
      /\ phase[c] \in {"renewing", "returning", "returned"}
      /\ call[Renewal(c)].op = "updateTimeout" /\ call[Renewal(c)].id = i
      /\ due[c] <= call[Renewal(c)].time
    BY DEF IInv, RenewSucceeds, ClientInOrder, RenewalIsInOrder
<1>2. WritesFor(c, Renewal(c))
    BY Writes DEF RenewSucceeds
<1>3. /\ renew' = [renew EXCEPT ![c] = "armed"]
      /\ due' = [due EXCEPT ![c] = now + RenewTimeout]
      /\ late' = [late EXCEPT ![c] = FALSE]
      /\ UNCHANGED <<phase, leased, asked>>
    BY DEF RenewSucceeds, Arm
<1>4. /\ Registered(c) /\ Named(c) /\ items'[i].registered = "yes"
      /\ items'[i].leasingClientId = c
      /\ items'[i].leaseExpiresBy = call[Renewal(c)].time + Timeout
    BY <1>1, <1>2 DEF WritesFor, Registered, Named
<1> HIDE DEF i
<1>5. now + RenewTimeout \in Nat
    BY Times
<1>6. OwnChange(c) /\ renew'[c] = "armed" /\ due'[c] = now + RenewTimeout
    BY <1>1, <1>2, <1>3, <1>5 DEF OwnChange, Types, WritesFor
<1>7. /\ call'[User(c)] = call[User(c)] /\ now' = now
      /\ call'[Renewal(c)].at = "idle" /\ call'[Renewal(c)].op \notin Pool!Unvalidated
    BY <1>1, <1>2, CallersOfAClient DEF WritesFor
<1>8. phase[c] # "returned"
    BY <1>1, <1>4 DEF ClientInOrder, ReturnStands
<1>9. phase[c] = "renewing" =>
          due'[c] + RenewMargin <= items'[i].leaseExpiresBy + MaxDelay
    <2>1. due'[c] + RenewMargin = now + Timeout
        BY <1>6, Times DEF RenewTimeout
    <2>2. phase[c] = "renewing" => now <= due[c] + MaxDelay
        BY <1>1 DEF ClientInOrder, ClockIsInTime
    <2> QED
        BY <1>1, <1>4, <2>1, <2>2, Times
<1>10. phase[c] = "returning" =>
           asked[c] + MaxDelay < due'[c] /\ call[User(c)].retryNumber = 0
    BY <1>1, <1>4, <1>6, Times DEF ClientInOrder, ReturnPrevails, ClockIsInTime
<1>11. UserIsInOrder(c)' /\ RenewalIsInOrder(c)' /\ ClockIsInTime(c)'
    BY <1>1, <1>3, <1>6, <1>7, Times
       DEF ClientInOrder, UserIsInOrder, RenewalIsInOrder, ClockIsInTime
<1>12. LeaseIsKnown(c)'
    BY <1>1, <1>3, <1>4 DEF ClientInOrder, LeaseIsKnown, i
<1>13. LeaseStands(c)' /\ ReturnPrevails(c)' /\ ReturnStands(c)'
    BY <1>1, <1>3, <1>4, <1>6, <1>7, <1>8, <1>9, <1>10
       DEF LeaseStands, ReturnPrevails, ReturnStands, Named, Registered, Outdated, i
<1> QED
    BY <1>2, <1>6, <1>11, <1>12, <1>13, OwnStep DEF WritesFor, ClientInOrder

\* A renewal fails only if the account was unregistered, or is the run's no more.
LEMMA RenewFailsStep ==
    ASSUME IInv, PoolProved!IInv', NEW c \in Clients, RenewFails(c)
    PROVE  IInv'
<1>1. /\ Types /\ ClientInOrder(c) /\ renew[c] = "running"
      /\ phase[c] \in {"renewing", "returning", "returned"}
      /\ call[Renewal(c)].op = "updateTimeout" /\ call[Renewal(c)].id = leased[c]
    BY DEF IInv, RenewFails, ClientInOrder, RenewalIsInOrder
<1>2. ReadsFor(Renewal(c)) /\ call'[Renewal(c)].at = "idle"
    BY FailsReads DEF RenewFails
<1>3. /\ renew' = [renew EXCEPT ![c] = "none"] /\ UNCHANGED <<phase, leased, due, asked, late>>
    BY DEF RenewFails
<1>4. OwnChange(c) /\ renew'[c] = "none"
    BY <1>1, <1>2, <1>3 DEF OwnChange, Types, ReadsFor
<1>5. /\ UNCHANGED <<items, now>> /\ call'[User(c)] = call[User(c)]
      /\ call'[Renewal(c)].op \notin Pool!Unvalidated
    BY <1>2, CallersOfAClient DEF ReadsFor
<1>6. phase[c] = "renewing" /\ ~late[c] => ~Registered(c)
    <2> SUFFICES ASSUME phase[c] = "renewing", ~late[c], Registered(c) PROVE FALSE
        OBVIOUS
    <2>1. Named(c) /\ items[leased[c]].leaseExpiresBy > now /\ ~Outdated(Renewal(c))
        BY <1>1, LeaseInUse DEF ClientInOrder, LeaseStands, HasAccount
    <2>2. leased[c] \in Instances /\ items[leased[c]].leaseExpiresBy > 0
        BY <1>1, <2>1, ItemTypes DEF IInv, ClientInOrder, LeaseIsKnown
    <2>3. Pool!Valid("updateTimeout", items[leased[c]], c)
        BY <2>1, <2>2 DEF Pool!Valid, Pool!NOT_LEASED, Named
    <2>4. Pool!Registered(leased[c])
        BY DEF Registered, Pool!Registered
    <2>5. call[Renewal(c)].at = "update" => Pool!ConditionHolds(Renewal(c))
        BY <1>1, <2>1, <2>4 DEF Pool!ConditionHolds, Outdated
    <2>6. call[Renewal(c)].at # "query"
        BY <1>1, PoolFacts, CallersOfAClient DEF IInv
    <2> QED
        BY <1>1, <1>2, <2>3, <2>4, <2>5, <2>6, CallersOfAClient DEF ReadsFor
<1>7. ClientInOrder(c)'
    BY <1>1, <1>2, <1>3, <1>4, <1>5, <1>6, Times
       DEF ClientInOrder, UserIsInOrder, RenewalIsInOrder, LeaseIsKnown, ClockIsInTime,
           LeaseStands, ReturnPrevails, ReturnStands, Named, Registered, Outdated
<1> QED
    BY <1>2, <1>4, <1>5, <1>7, OwnStep DEF ReadsFor

LEMMA ReturnStep ==
    ASSUME IInv, PoolProved!IInv', NEW c \in Clients, Return(c)
    PROVE  IInv'
<1>1. /\ Types /\ ClientInOrder(c) /\ phase[c] = "renewing"
      /\ Pool!Begin(User(c), "return", leased[c])
    BY DEF IInv, Return, AskReturn
<1>2. leased[c] \in Instances
    BY <1>1 DEF ClientInOrder, LeaseIsKnown
<1>3. /\ phase' = [phase EXCEPT ![c] = "returning"]
      /\ renew' = [renew EXCEPT ![c] = IF renew[c] = "armed" THEN "none" ELSE renew[c]]
      /\ asked' = [asked EXCEPT ![c] = now]
      /\ UNCHANGED <<leased, due, late>>
    BY DEF Return, AskReturn, Becomes
<1>4. /\ OwnChange(c) /\ phase'[c] = "returning" /\ asked'[c] = now
      /\ renew'[c] = IF renew[c] = "armed" THEN "none" ELSE renew[c]
    BY <1>1, <1>2, <1>3, Begins, Times DEF OwnChange, Types, Phases
<1>5. renew[c] \in {"none", "armed", "running"}
    BY <1>1 DEF Types
<1>6. ClientInOrder(c)'
    BY <1>1, <1>2, <1>3, <1>4, <1>5, Begins, Times
       DEF ClientInOrder, UserIsInOrder, RenewalIsInOrder, LeaseIsKnown, ClockIsInTime,
           LeaseStands, ReturnPrevails, ReturnStands, Outdated
<1> QED
    BY <1>1, <1>2, <1>4, <1>6, Begins, OwnStep

\* return fails only if the account is not, or no longer, under the run's name.
LEMMA ReturnEndsStep ==
    ASSUME IInv, PoolProved!IInv', NEW c \in Clients, ReturnEnds(c)
    PROVE  IInv'
<1>1. /\ Types /\ ClientInOrder(c) /\ phase[c] = "returning"
      /\ call[User(c)].op = "return" /\ call[User(c)].id = leased[c]
    BY DEF IInv, ReturnEnds, ClientInOrder, UserIsInOrder
<1>2. phase' = [phase EXCEPT ![c] = "returned"] /\ UNCHANGED <<leased, renew, due, asked, late>>
    BY DEF ReturnEnds, Becomes
<1>3. WritesFor(c, User(c)) \/ (ReadsFor(User(c)) /\ call'[User(c)].at = "idle")
    BY Writes, FailsReads DEF ReturnEnds
<1>4. OwnChange(c) /\ phase'[c] = "returned"
    BY <1>1, <1>2, <1>3 DEF OwnChange, Types, Phases, WritesFor, ReadsFor
<1>5. /\ UNCHANGED items \/ WritesFor(c, User(c))
      /\ \A q \in (Clients \X {"user", "renewal"}) \ {User(c)} : call'[q] = call[q]
      /\ call'[Renewal(c)] = call[Renewal(c)]
      /\ call'[User(c)].at = "idle" /\ call'[User(c)].op \notin Pool!Unvalidated /\ now' = now
    BY <1>3, CallersOfAClient DEF WritesFor, ReadsFor
<1>6. ~Named(c)'
    <2>1. CASE WritesFor(c, User(c))
        BY <1>1, <1>2, <2>1, RenewalAssumption DEF WritesFor, Named
    <2>2. CASE ReadsFor(User(c)) /\ call'[User(c)].at = "idle"
        <3> SUFFICES ASSUME Named(c) PROVE FALSE
            BY <1>2, <2>2 DEF ReadsFor, Named, Registered
        <3>1. leased[c] \in Instances /\ items[leased[c]].leaseExpiresBy > 0
            BY <1>1, RenewalAssumption
               DEF IInv, ClientInOrder, LeaseIsKnown, LeasedItemsExpire, Named
        <3>2. Pool!Valid("return", items[leased[c]], c) /\ Pool!Registered(leased[c])
            BY <3>1 DEF Pool!Valid, Pool!NOT_LEASED, Pool!Registered, Named, Registered
        <3>3. call[User(c)].at # "query"
            BY <1>1, PoolFacts, CallersOfAClient DEF IInv
        <3>4. /\ call[User(c)].at = "update" /\ ~Pool!ConditionHolds(User(c))
              /\ call[User(c)].retryNumber = OptimisticLockMaxRetries
            BY <1>1, <2>2, <3>2, <3>3, CallersOfAClient DEF ReadsFor
        <3>5. Outdated(User(c))
            BY <1>1, <3>2, <3>4 DEF Outdated, Pool!ConditionHolds
        <3> QED
            BY <1>1, <3>4, <3>5, RenewalAssumption DEF ClientInOrder, ReturnPrevails
    <2> QED
        BY <1>3, <2>1, <2>2
<1>7. LeaseIsKnown(c)'
    BY <1>1, <1>2, <1>5 DEF ClientInOrder, LeaseIsKnown, WritesFor
<1>8. ClientInOrder(c)'
    BY <1>1, <1>2, <1>4, <1>5, <1>6, <1>7, Times
       DEF ClientInOrder, UserIsInOrder, RenewalIsInOrder, ClockIsInTime,
           LeaseStands, ReturnPrevails, ReturnStands
<1> QED
    BY <1>3, <1>4, <1>5, <1>8, OwnStep

\* Requests in between change no run; those of a process that ended may write.
LEMMA InFlightStep ==
    ASSUME IInv, PoolProved!IInv', NEW c \in Clients, InFlight(c)
    PROVE  IInv'
<1>1. Types /\ ClientInOrder(c) /\ UNCHANGED <<phase, leased, renew, due, asked, late>>
    BY DEF IInv, InFlight
<1>2. ASSUME NEW p \in {User(c), Renewal(c)}, Continues(p) PROVE ReadsFor(p) /\ call'[p].at # "idle"
    <2>1. Pool!UpdateSucceeds(p) => call'[p].at = "idle"
        BY Writes DEF WritesFor
    <2> QED
        BY <1>2, <2>1, Reads DEF Continues
<1>3. CASE Continues(User(c))
    <2>1. ReadsFor(User(c)) /\ call'[User(c)].at # "idle"
        BY <1>2, <1>3
    <2>2. /\ call'[Renewal(c)] = call[Renewal(c)] /\ UNCHANGED <<items, now>>
          /\ phase[c] \in {"leasing", "suspending", "returning", "over"}
        BY <1>1, <2>1, CallersOfAClient DEF ReadsFor, ClientInOrder, UserIsInOrder, Types, Phases
    <2>3. OwnChange(c)
        BY <1>1, <2>2 DEF OwnChange, Types
    <2>4. UserIsInOrder(c)'
        BY <1>1, <2>1, <2>2, Times DEF ReadsFor, ClientInOrder, UserIsInOrder
    <2>5. ReturnPrevails(c)'
        <3> SUFFICES ASSUME phase[c] = "returning", Named(c)
                     PROVE  ReturnPrevails(c)'
            BY <1>1, <2>2 DEF ReturnPrevails, Named, Registered
        <3>1. call[User(c)].id = leased[c] /\ Pool!Registered(leased[c])
            BY <1>1 DEF ClientInOrder, UserIsInOrder, Named, Registered, Pool!Registered
        <3>2. CASE call'[User(c)].retryNumber = call[User(c)].retryNumber /\ ~Outdated(User(c))'
            BY <1>1, <2>2, <3>2 DEF ClientInOrder, ReturnPrevails
        <3>3. CASE /\ call[User(c)].at = "update" /\ ~Pool!ConditionHolds(User(c))
                   /\ call'[User(c)].at # "update"
            <4>1. Outdated(User(c)) /\ ~Outdated(User(c))'
                BY <3>1, <3>3 DEF Outdated, Pool!ConditionHolds
            <4> QED
                BY <1>1, <2>2, <4>1 DEF ClientInOrder, ReturnPrevails
        <3> QED
            BY <2>1, <3>2, <3>3 DEF ReadsFor
    <2>6. ClientInOrder(c)'
        BY <1>1, <2>2, <2>4, <2>5
           DEF ClientInOrder, RenewalIsInOrder, LeaseIsKnown, ClockIsInTime,
               LeaseStands, ReturnStands, Named, Registered, Outdated
    <2> QED
        BY <2>1, <2>3, <2>6, OwnStep DEF ReadsFor
<1>4. CASE Continues(Renewal(c))
    <2>1. ReadsFor(Renewal(c)) /\ call'[Renewal(c)].at # "idle"
        BY <1>2, <1>4
    <2>2. /\ call'[User(c)] = call[User(c)] /\ UNCHANGED <<items, now>>
          /\ renew[c] = "running" \/ phase[c] = "over"
        BY <1>1, <2>1, CallersOfAClient DEF ReadsFor, ClientInOrder, RenewalIsInOrder
    <2>3. OwnChange(c)
        BY <1>1, <2>2 DEF OwnChange, Types
    <2>4. RenewalIsInOrder(c)'
        BY <1>1, <2>1, <2>2, Times DEF ReadsFor, ClientInOrder, RenewalIsInOrder
    <2>5. LeaseStands(c)'
        <3> SUFFICES ASSUME phase[c] = "renewing", ~late[c], Registered(c)
                     PROVE  LeaseStands(c)'
            BY <1>1, <2>2 DEF ClientInOrder, RenewalIsInOrder, LeaseStands, Named, Registered
        <3>1. call[Renewal(c)].id = leased[c] /\ Pool!Registered(leased[c])
            BY <1>1, <2>2 DEF ClientInOrder, RenewalIsInOrder, Registered, Pool!Registered
        <3>2. ~Outdated(Renewal(c))'
            BY <1>1, <2>1, <3>1
               DEF ReadsFor, ClientInOrder, LeaseStands, Outdated, Pool!ConditionHolds
        <3> QED
            BY <1>1, <2>2, <3>2 DEF ClientInOrder, LeaseStands, Named, Registered
    <2>6. ClientInOrder(c)'
        BY <1>1, <2>2, <2>4, <2>5
           DEF ClientInOrder, UserIsInOrder, LeaseIsKnown, ClockIsInTime,
               ReturnPrevails, ReturnStands, Named, Registered, Outdated
    <2> QED
        BY <2>1, <2>3, <2>6, OwnStep DEF ReadsFor
<1>5. ASSUME NEW p \in {User(c), Renewal(c)}, phase[c] = "over", Pool!Advances(p)
      PROVE  IInv'
    <2>1. WritesFor(c, p) \/ ReadsFor(p)
        BY <1>5, Writes, Reads
    <2>2. /\ UNCHANGED items \/ WritesFor(c, p)
          /\ \A q \in (Clients \X {"user", "renewal"}) \ {p} : call'[q] = call[q]
          /\ call'[p].op \notin Pool!Unvalidated /\ now' = now
        BY <2>1 DEF WritesFor, ReadsFor
    <2>3. OwnChange(c)
        BY <1>1, <2>2 DEF OwnChange, Types
    <2>4. call'[User(c)].op \notin Pool!Unvalidated /\ call'[Renewal(c)].op \notin Pool!Unvalidated
        BY <1>1, <2>2, CallersOfAClient DEF ClientInOrder, UserIsInOrder, RenewalIsInOrder
    <2>5. ClientInOrder(c)'
        BY <1>1, <1>5, <2>2, <2>4
           DEF ClientInOrder, UserIsInOrder, RenewalIsInOrder, LeaseIsKnown, ClockIsInTime,
               LeaseStands, ReturnPrevails, ReturnStands
    <2> QED
        BY <2>2, <2>3, <2>5, OwnStep
<1> QED
    BY <1>3, <1>4, <1>5 DEF InFlight

----------------------------------------------------------------------------
(* The invariant. *)

LEMMA TickStep == ASSUME IInv, PoolProved!IInv', Tick PROVE IInv'
<1>1. /\ Types /\ LeasedItemsExpire /\ now \in Nat /\ now' = now + 1
      /\ UNCHANGED <<items, call, phase, leased, renew, due, asked, late>>
    BY ItemTypes DEF IInv, Tick, Pool!Tick
<1>2. Types' /\ LeasedItemsExpire'
    BY <1>1 DEF Types, LeasedItemsExpire
<1>3. ASSUME NEW c \in Clients PROVE ClientInOrder(c)'
    <2>1. ClientInOrder(c) /\ InTime(c)
        BY DEF IInv, Tick
    <2>2. ClockIsInTime(c)'
        BY <1>1, <2>1, Times DEF InTime, ClientInOrder, ClockIsInTime
    <2>3. Prompt(c)' => Prompt(c)
        BY <1>1, Times DEF Prompt
    <2> QED
        BY <1>1, <2>1, <2>2, <2>3
           DEF ClientInOrder, UserIsInOrder, RenewalIsInOrder, LeaseIsKnown,
               LeaseStands, ReturnPrevails, ReturnStands, Named, Registered, Outdated
<1> QED
    BY <1>2, <1>3 DEF IInv

LEMMA AdministrationStep ==
    ASSUME IInv, PoolProved!IInv', Administration
    PROVE  IInv'
<1>1. /\ Types /\ LeasedItemsExpire /\ UNCHANGED <<now, call, phase, leased, renew, due, asked, late>>
    BY DEF IInv, Administration, Pool!Register, Pool!Unregister
<1>2. \A j \in Instances :
        /\ items'[j].leasingClientId = items[j].leasingClientId
        /\ items'[j].leaseExpiresBy = items[j].leaseExpiresBy
        /\ \/ items'[j] = items[j]
           \/ items[j].registered = "never" /\ items'[j].registered = "yes"
           \/ items'[j].registered = "removed"
    BY ItemTypes DEF IInv, Administration, Pool!Register, Pool!Unregister
<1>3. Types' /\ LeasedItemsExpire'
    BY <1>1, <1>2 DEF Types, LeasedItemsExpire
<1>4. ASSUME NEW c \in Clients PROVE ClientInOrder(c)'
    BY <1>1, <1>2, OthersStayInOrder DEF LeavesAlone, ItemsStandFor
<1> QED
    BY <1>3, <1>4 DEF IInv

LEMMA InitEstablishes == Init => IInv
<1> SUFFICES ASSUME Init PROVE IInv
    OBVIOUS
<1>1. PoolProved!IInv
    BY PoolStarts DEF Init
<1>2. Types
    BY DEF Init, Types, Phases
<1>3. LeasedItemsExpire
    BY DEF Init, Pool!Init, LeasedItemsExpire
<1>4. ASSUME NEW c \in Clients PROVE ClientInOrder(c)
    <2>1. call[User(c)] = Pool!NoCall /\ call[Renewal(c)] = Pool!NoCall
        BY CallersOfAClient DEF Init, Pool!Init
    <2>2. Pool!NoCall.at = "idle" /\ Pool!NoCall.op = "lease"
        BY DEF Pool!NoCall
    <2>3. phase[c] = "started" /\ renew[c] = "none" /\ asked[c] = 0 /\ now = 1
        BY DEF Init, Pool!Init
    <2> QED
        BY <2>1, <2>2, <2>3
           DEF ClientInOrder, UserIsInOrder, RenewalIsInOrder, LeaseIsKnown, ClockIsInTime,
               LeaseStands, ReturnPrevails, ReturnStands
<1> QED
    BY <1>1, <1>2, <1>3, <1>4 DEF IInv

\* Every step of a test run is a step of the pool, or none.
LEMMA StepsOfThePool ==
    ASSUME IInv, [Next]_vars
    PROVE  [Pool!Next]_poolVars
<1>1. CASE Tick
    BY <1>1 DEF Tick, Pool!Next
<1>2. CASE Administration
    BY <1>2 DEF Administration, Pool!Next
<1>3. ASSUME NEW c \in Clients, NEW op \in {"lease", "suspend", "return"},
             NEW i \in Instances, Pool!Begin(User(c), op, i)
      PROVE  Pool!Next
    BY <1>3, CallersOfAClient DEF Pool!Next, Pool!Ops, Pool!UpdateOps
<1>4. ASSUME NEW c \in Clients, Renew(c) PROVE Pool!Next
    <2>1. leased[c] \in Instances
        BY <1>4 DEF IInv, ClientInOrder, RenewalIsInOrder, LeaseIsKnown, Renew
    <2> QED
        BY <1>4, <2>1, CallersOfAClient DEF Renew, Pool!Next, Pool!Ops, Pool!UpdateOps
<1>5. ASSUME NEW c \in Clients, TryLease(c) \/ ValidationSuspends(c) \/ Return(c)
      PROVE  Pool!Next
    <2>1. TryLease(c) => Pool!Begin(User(c), "lease", CHOOSE i \in Instances : TRUE)
        BY DEF TryLease
    <2>2. (CHOOSE i \in Instances : TRUE) \in Instances
        BY RenewalAssumption
    <2>3. ValidationSuspends(c) =>
            Pool!Begin(User(c), "suspend", leased[c]) /\ leased[c] \in Instances
        BY DEF IInv, ClientInOrder, LeaseIsKnown, ValidationSuspends
    <2>4. Return(c) => Pool!Begin(User(c), "return", leased[c]) /\ leased[c] \in Instances
        BY DEF IInv, ClientInOrder, LeaseIsKnown, Return, AskReturn
    <2> QED
        BY <1>3, <1>5, <2>1, <2>2, <2>3, <2>4
<1>6. ASSUME NEW c \in Clients, Pool!Advances(User(c)) \/ Pool!Advances(Renewal(c))
      PROVE  Pool!Next
    BY <1>6, CallersOfAClient DEF Pool!Next
<1>7. ASSUME NEW c \in Clients,
             \/ LeaseGranted(c) \/ SuspendEnds(c) \/ RenewSucceeds(c) \/ RenewFails(c)
             \/ ReturnEnds(c) \/ InFlight(c)
      PROVE  Pool!Next
    <2>1. Pool!Advances(User(c)) \/ Pool!Advances(Renewal(c))
        BY <1>7 DEF LeaseGranted, SuspendEnds, RenewSucceeds, RenewFails, ReturnEnds,
                    InFlight, Continues, Fails, Pool!Advances
    <2> QED
        BY <1>6, <2>1
<1>8. ASSUME NEW c \in Clients, GivesUp(c) PROVE Pool!Next \/ UNCHANGED poolVars
    BY <1>6, <1>8 DEF GivesUp, Fails
<1>9. ASSUME NEW c \in Clients, Construct(c) PROVE UNCHANGED poolVars
    BY <1>9 DEF Construct, poolVars
<1>10. CASE UNCHANGED vars
    BY <1>10 DEF vars, poolVars
<1> QED
    BY <1>1, <1>2, <1>4, <1>5, <1>7, <1>8, <1>9, <1>10 DEF Next

LEMMA NextPreserves == IInv /\ [Next]_vars => IInv'
<1> SUFFICES ASSUME IInv, [Next]_vars PROVE IInv'
    OBVIOUS
<1>1. PoolProved!IInv'
    BY StepsOfThePool, PoolGoesOn DEF IInv
<1>2. CASE Tick
    BY <1>1, <1>2, TickStep
<1>3. CASE Administration
    BY <1>1, <1>3, AdministrationStep
<1>4. ASSUME NEW c \in Clients,
             \/ TryLease(c) \/ LeaseGranted(c) \/ ValidationSuspends(c) \/ SuspendEnds(c)
             \/ GivesUp(c)
      PROVE  IInv'
    BY <1>1, <1>4, TryLeaseStep, LeaseGrantedStep, ValidationSuspendsStep, SuspendEndsStep,
       GivesUpStep
<1>5. ASSUME NEW c \in Clients,
             \/ Construct(c) \/ Renew(c) \/ RenewSucceeds(c) \/ RenewFails(c)
             \/ Return(c) \/ ReturnEnds(c)
      PROVE  IInv'
    BY <1>1, <1>5, ConstructStep, RenewStep, RenewSucceedsStep, RenewFailsStep, ReturnStep,
       ReturnEndsStep
<1>6. ASSUME NEW c \in Clients, InFlight(c) PROVE IInv'
    BY <1>1, <1>6, InFlightStep
<1>7. CASE UNCHANGED vars
    <2>1. UNCHANGED <<items, now, call, phase, leased, renew, due, asked, late>>
        BY <1>7 DEF vars
    <2>2. Types' /\ LeasedItemsExpire'
        BY <2>1 DEF IInv, Types, LeasedItemsExpire
    <2>3. ASSUME NEW c \in Clients PROVE ClientInOrder(c)'
        BY <2>1, OthersStayInOrder DEF LeavesAlone, ItemsStandFor
    <2> QED
        BY <1>1, <2>2, <2>3 DEF IInv
<1> QED
    BY <1>2, <1>3, <1>4, <1>5, <1>6, <1>7 DEF Next

LEMMA Invariance == Spec => []IInv
BY InitEstablishes, NextPreserves, PTL DEF Spec

----------------------------------------------------------------------------

\* A lease never runs out under a test run that renews it (renewed_lease.ts), once
\* the run has renewed it or if it took it up promptly, for every margin that leaves
\* room for the delays of two answers.
THEOREM RenewedLeasesAreHeld == Spec => []RenewedLeaseIsHeld
<1>1. IInv => RenewedLeaseIsHeld
    BY LeaseInUse DEF RenewedLeaseIsHeld, Named, HasAccount
<1> QED
    BY <1>1, Invariance, PTL

\* Two test runs never use one account at the same time (creds.ts), as each of them
\* has it under its own name: except for a run that took up its account late and has
\* not renewed its lease since.
THEOREM AccountsAreNeverShared == Spec => []AccountsAreNotShared
<1>1. IInv => AccountsAreNotShared
    <2> SUFFICES ASSUME IInv, NEW c \in Clients, NEW d \in Clients,
                        HasAccount(c), HasAccount(d),
                        leased[c] = leased[d], Registered(c)
                 PROVE  c = d
        BY DEF AccountsAreNotShared
    <2> QED
        BY LeaseInUse DEF Named, Registered
<1> QED
    BY <1>1, Invariance, PTL

\* Once return resolved the account is not under the run's name, although a renewal
\* may have raced it (RenewedLease.return and renew).
THEOREM ReturnedAccountsStayReturned == Spec => []ReturnedIsReturned
<1>1. IInv => ReturnedIsReturned
    BY DEF IInv, ClientInOrder, ReturnStands, Named, ReturnedIsReturned
<1> QED
    BY <1>1, Invariance, PTL

\* The pool under the test runs keeps its promises: a lease that a run was told of
\* stands, and no two runs hold one account.
THEOREM PoolOfTestRunsIsSafe == Spec => [](Pool!HeldLeasesStand /\ Pool!MutualExclusion)
<1>1. IInv => Pool!HeldLeasesStand
    BY DEF IInv, PoolProved!IInv, PoolProved!HeldLeasesStand, Pool!HeldLeasesStand,
           PoolProved!Holds, Pool!Holds, PoolProved!Registered, Pool!Registered,
           PoolProved!ClientIds, Pool!ClientIds
<1>2. Pool!HeldLeasesStand => Pool!MutualExclusion
    BY DEF Pool!HeldLeasesStand, Pool!MutualExclusion
<1> QED
    BY <1>1, <1>2, Invariance, PTL

=============================================================================
