------------------------ MODULE PersistentPoolProofs ------------------------
(***************************************************************************)
(* Safety of the pool for any number of instances, clients, callers and    *)
(* retries, and whether or not reads are stale.                            *)
(*                                                                         *)
(* The argument is the optimistic lock's: an item's version grows with     *)
(* every write, so that a call whose version is still current writes over  *)
(* the very item it read (ReadsAreVersioned), which is the one it          *)
(* validated (WritesAreValidated).  What it validated excludes that        *)
(* another client holds the lease (HeldLeasesStand).  An id is registered  *)
(* once, so that versions never start again.                               *)
(***************************************************************************)
EXTENDS PersistentPool, TLAPS

USE DEF Unvalidated, Returns, Suspensions

\* A call that is about to write knows a version the item has or had, of an
\* item that was registered.
ReadsAreVersioned ==
    \A p \in Callers :
        call[p].at = "update" =>
            /\ call[p].version <= items[call[p].id].version
            /\ items[call[p].id].registered # "never"

NewItemsAreUnwritten ==
    \A i \in Instances : items[i].registered = "never" => items[i].version = 0

\* lease queries, the other calls get; no call is from the future.
CallsFollowTheirCode ==
    \A p \in Callers :
        /\ call[p].at = "query" => call[p].op = "lease"
        /\ call[p].at = "get" => call[p].op # "lease"
        /\ call[p].time <= now

IInv ==
    /\ TypeOK
    /\ NewItemsAreUnwritten
    /\ CallsFollowTheirCode
    /\ ReadsAreVersioned
    /\ WritesAreValidated
    /\ HeldLeasesStand

\* What stands between the callers and a step that changes no item and no
\* promise: the call that changes has to be in order.
CallInOrder(p, x) ==
    /\ x \in Call
    /\ x.at = "query" => x.op = "lease"
    /\ x.at = "get" => x.op # "lease"
    /\ x.time <= now
    /\ x.at = "update" =>
         /\ x.version <= items[x.id].version
         /\ items[x.id].registered # "never"
         /\ x.version = items[x.id].version /\ Registered(x.id) =>
              /\ x.op = "lease" => items[x.id].leaseExpiresBy <= x.time
              /\ x.op \notin {"lease"} \cup Unvalidated => items[x.id].leasingClientId = clientId[p]

\* A caller without a call is idle.
LEMMA NoCallType == NoCall \in Call /\ NoCall.at = "idle" /\ NoCall.time = 0
BY PoolAssumption DEF NoCall, Call, Ops, UpdateOps

\* Every caller calls for a client.
LEMMA ClientOfCaller == ASSUME NEW p \in Callers PROVE clientId[p] \in ClientIds
BY DEF ClientIds

\* An empty table satisfies the invariant.
LEMMA InitEstablishes == Init => IInv
<1> SUFFICES ASSUME Init PROVE IInv
    OBVIOUS
<1>1. TypeOK
    BY NoCallType, PoolAssumption DEF Init, TypeOK, Item, NOT_LEASED
<1>2. NewItemsAreUnwritten
    BY DEF Init, NewItemsAreUnwritten
<1>3. \A p \in Callers : call[p].at = "idle" /\ call[p].time = 0
    BY NoCallType DEF Init
<1>4. CallsFollowTheirCode /\ ReadsAreVersioned /\ WritesAreValidated
    BY <1>3 DEF CallsFollowTheirCode, ReadsAreVersioned, WritesAreValidated, Init
<1>5. HeldLeasesStand
    BY DEF HeldLeasesStand, Holds, Init
<1> QED
    BY <1>1, <1>2, <1>4, <1>5 DEF IInv

\* Steps that only change the call of one caller.
LEMMA CallStep ==
    ASSUME IInv, NEW p \in Callers, NEW x, CallInOrder(p, x),
           call' = [call EXCEPT ![p] = x], UNCHANGED <<items, now, promised>>
    PROVE  IInv'
<1>1. TypeOK'
    BY DEF IInv, TypeOK, CallInOrder
<1>2. call'[p] = x /\ \A q \in Callers \ {p} : call'[q] = call[q]
    BY DEF IInv, TypeOK
<1>3. NewItemsAreUnwritten' /\ HeldLeasesStand'
    BY DEF IInv, NewItemsAreUnwritten, HeldLeasesStand, Holds, Registered
<1>4. CallsFollowTheirCode' /\ ReadsAreVersioned'
    BY <1>2 DEF IInv, CallsFollowTheirCode, ReadsAreVersioned, CallInOrder
<1>5. WritesAreValidated'
    BY <1>2 DEF IInv, WritesAreValidated, ConditionHolds, Registered, CallInOrder
<1> QED
    BY <1>1, <1>3, <1>4, <1>5 DEF IInv

\* A call that ends, with or without an error.
LEMMA EndStep ==
    ASSUME IInv, NEW p \in Callers, Ends(p), UNCHANGED <<items, now, promised>>
    PROVE  IInv'
<1>1. CallInOrder(p, NoCall)
    BY NoCallType DEF CallInOrder, IInv, TypeOK
<1> QED
    BY <1>1, CallStep DEF Ends

\* A call that begins knows no version and is not from the future.
LEMMA BeginStep ==
    ASSUME IInv, NEW p \in Callers, NEW op \in Ops, NEW i \in Instances, Begin(p, op, i)
    PROVE  IInv'
<1> DEFINE x == [op |-> op, id |-> i, at |-> IF op = "lease" THEN "query" ELSE "get",
                 time |-> IF op \in Returns THEN 0 ELSE now,
                 version |-> 0, retryNumber |-> 0]
<1>1. CallInOrder(p, x)
    BY DEF CallInOrder, Call, IInv, TypeOK
<1>2. call' = [call EXCEPT ![p] = x] /\ UNCHANGED <<items, now, promised>>
    BY DEF Begin
<1> HIDE DEF x
<1> QED
    BY <1>1, <1>2, CallStep

\* lease: what the query finds is what the update will check for.
LEMMA QueryStep ==
    ASSUME IInv, NEW p \in Callers, NEW i \in Instances, QueryFinds(p, i)
    PROVE  IInv'
<1> DEFINE x == [call[p] EXCEPT !.at = "update", !.id = i, !.version = items[i].version]
<1>1. call[p] \in Call /\ items[i] \in Item
    BY DEF IInv, TypeOK
<1>2. call[p].op = "lease" /\ call[p].time <= now
    BY DEF IInv, CallsFollowTheirCode, QueryFinds
<1>3. /\ x \in Call /\ x.at = "update" /\ x.id = i /\ x.version = items[i].version
      /\ x.op = call[p].op /\ x.time = call[p].time
    BY <1>1 DEF Call, Item
<1>4. call' = [call EXCEPT ![p] = x] /\ UNCHANGED <<items, now, promised>>
    BY DEF QueryFinds, IInv, TypeOK
<1> HIDE DEF x
<1>5. CallInOrder(p, x)
    BY <1>1, <1>2, <1>3 DEF QueryFinds, Available, Registered, CallInOrder, Item
<1> QED
    BY <1>4, <1>5, CallStep

\* updateLease: what is read and validated is what the update will check for.
LEMMA GetStep ==
    ASSUME IInv, NEW p \in Callers, GetSucceeds(p)
    PROVE  IInv'
<1> DEFINE x == [call[p] EXCEPT !.at = "update", !.version = items[call[p].id].version]
<1>1. call[p] \in Call /\ items[call[p].id] \in Item
    BY DEF IInv, TypeOK, Call
<1>2. call[p].op # "lease" /\ call[p].time <= now
    BY DEF IInv, CallsFollowTheirCode, GetSucceeds
<1>3. /\ x \in Call /\ x.at = "update" /\ x.id = call[p].id
      /\ x.version = items[x.id].version /\ x.op = call[p].op /\ x.time = call[p].time
    BY <1>1 DEF Call, Item
<1>4. call' = [call EXCEPT ![p] = x] /\ UNCHANGED <<items, now, promised>>
    BY DEF GetSucceeds, IInv, TypeOK
<1> HIDE DEF x
<1>5. CallInOrder(p, x)
    BY <1>1, <1>2, <1>3 DEF GetSucceeds, Valid, Registered, CallInOrder, Item
<1> QED
    BY <1>4, <1>5, CallStep

\* A stale read knows a version that is no longer current.
LEMMA GetOlderStep ==
    ASSUME IInv, NEW p \in Callers, GetReadsOlder(p)
    PROVE  IInv'
<1>1. CASE Ends(p)
    BY <1>1, EndStep DEF GetReadsOlder
<1>2. CASE call' = [call EXCEPT ![p].at = "update",
                                ![p].version = items[call[p].id].version - 1]
    <2> DEFINE older == items[call[p].id].version - 1
               x == [call[p] EXCEPT !.at = "update", !.version = older]
    <2>1. call[p] \in Call /\ items[call[p].id] \in Item /\ call[p].time <= now
        BY DEF IInv, TypeOK, Call, CallsFollowTheirCode
    <2>2. items[call[p].id].version > 0 /\ items[call[p].id].registered # "never"
        BY <2>1 DEF IInv, NewItemsAreUnwritten, GetReadsOlder, Call
    <2>3. older \in Nat /\ older < items[call[p].id].version
        BY <2>1, <2>2 DEF Item
    <2>4. call' = [call EXCEPT ![p] = x] /\ UNCHANGED <<items, now, promised>>
        BY <1>2 DEF GetReadsOlder, IInv, TypeOK
    <2> HIDE DEF older
    <2>5. /\ x \in Call /\ x.at = "update" /\ x.id = call[p].id
          /\ x.version = older /\ x.op = call[p].op /\ x.time = call[p].time
        BY <2>1, <2>3 DEF Call
    <2> HIDE DEF x
    <2>6. CallInOrder(p, x)
        BY <2>1, <2>2, <2>3, <2>5 DEF CallInOrder, Item
    <2> QED
        BY <2>4, <2>6, CallStep
<1> QED
    BY <1>1, <1>2 DEF GetReadsOlder

\* withOptimisticLock: a call that starts over knows no version.
LEMMA ConflictStep ==
    ASSUME IInv, NEW p \in Callers, UpdateConflicts(p)
    PROVE  IInv'
<1>1. CASE call[p].retryNumber = OptimisticLockMaxRetries
    BY <1>1, EndStep DEF UpdateConflicts
<1>2. CASE call[p].retryNumber # OptimisticLockMaxRetries
    <2> DEFINE retry == call[p].retryNumber + 1
               at == IF call[p].op = "lease" THEN "query" ELSE "get"
               time == IF call[p].op = "lease" THEN now ELSE call[p].time
               x == [call[p] EXCEPT !.retryNumber = retry, !.version = 0,
                                    !.at = at, !.time = time]
    <2>1. call[p] \in Call /\ call[p].time <= now /\ now \in Nat
        BY DEF IInv, TypeOK, CallsFollowTheirCode
    <2>2. /\ retry \in Nat
          /\ at \in {"query", "get"} /\ (at = "query" <=> call[p].op = "lease")
          /\ time \in Nat /\ time <= now
        BY <2>1 DEF Call
    <2>3. call' = [call EXCEPT ![p] = x] /\ UNCHANGED <<items, now, promised>>
        BY <1>2 DEF UpdateConflicts, IInv, TypeOK
    <2> HIDE DEF retry, at, time
    <2>4. x \in Call /\ x.op = call[p].op /\ x.at = at /\ x.time = time
        BY <2>1, <2>2 DEF Call
    <2> HIDE DEF x
    <2>5. CallInOrder(p, x)
        BY <2>2, <2>4 DEF CallInOrder
    <2> QED
        BY <2>3, <2>5, CallStep
<1> QED
    BY <1>1, <1>2

\* register: the item is new, so no call knows it.
LEMMA RegisterStep ==
    ASSUME IInv, NEW i \in Instances, Register(i)
    PROVE  IInv'
<1>1. TypeOK'
    BY DEF IInv, TypeOK, Register, Item
<1>2. /\ items'[i] = [items[i] EXCEPT !.registered = "yes"]
      /\ \A j \in Instances \ {i} : items'[j] = items[j]
      /\ items[i] \in Item
    BY DEF IInv, TypeOK, Register
<1>3. \A p \in Callers : call[p].at = "update" => call[p].id # i /\ call[p].id \in Instances
    BY DEF IInv, TypeOK, Call, ReadsAreVersioned, Register
<1>4. NewItemsAreUnwritten' /\ CallsFollowTheirCode'
    BY <1>2 DEF IInv, NewItemsAreUnwritten, CallsFollowTheirCode, Register, Item
<1>5. ReadsAreVersioned'
    BY <1>2, <1>3 DEF IInv, ReadsAreVersioned, Register
<1>6. WritesAreValidated'
    BY <1>2, <1>3 DEF IInv, WritesAreValidated, ConditionHolds, Registered, Register
<1>7. HeldLeasesStand'
    BY <1>2 DEF IInv, HeldLeasesStand, Holds, Registered, Register, Item
<1> QED
    BY <1>1, <1>4, <1>5, <1>6, <1>7 DEF IInv

\* Unvalidated calls and unregister void promises and make none.
LEMMA RevokedType ==
    ASSUME TypeOK, NEW i \in Instances
    PROVE  /\ Revoked(i) \in [ClientIds -> [Instances -> Nat]]
           /\ \A c \in ClientIds : Revoked(i)[c][i] = 0
           /\ \A c \in ClientIds, j \in Instances \ {i} : Revoked(i)[c][j] = promised[c][j]
BY DEF TypeOK, Revoked

\* unregister: the item is gone, with the promises that were made of it.
LEMMA UnregisterStep ==
    ASSUME IInv, NEW i \in Instances, Unregister(i)
    PROVE  IInv'
<1>1. TypeOK'
    <2>1. [items[i] EXCEPT !.registered = "removed"] \in Item
        BY DEF IInv, TypeOK, Item
    <2>2. items' \in [Instances -> Item]
        BY <2>1 DEF IInv, TypeOK, Unregister
    <2>3. promised' \in [ClientIds -> [Instances -> Nat]]
        BY RevokedType DEF IInv, Unregister
    <2> QED
        BY <2>2, <2>3 DEF IInv, TypeOK, Unregister
<1>2. /\ items'[i] = [items[i] EXCEPT !.registered = "removed"]
      /\ \A j \in Instances \ {i} : items'[j] = items[j]
      /\ items[i] \in Item
    BY DEF IInv, TypeOK, Unregister
<1>3. \A p \in Callers : call[p].id \in Instances
    BY DEF IInv, TypeOK, Call
<1>4. NewItemsAreUnwritten' /\ CallsFollowTheirCode'
    BY <1>2 DEF IInv, NewItemsAreUnwritten, CallsFollowTheirCode, Unregister, Item
<1>5. ReadsAreVersioned'
    BY <1>2, <1>3 DEF IInv, ReadsAreVersioned, Unregister, Item
<1>6. WritesAreValidated'
    BY <1>2, <1>3 DEF IInv, WritesAreValidated, ConditionHolds, Registered, Unregister, Item
<1>7. HeldLeasesStand'
    BY <1>2, RevokedType DEF IInv, TypeOK, HeldLeasesStand, Holds, Registered, Unregister, Item
<1> QED
    BY <1>1, <1>4, <1>5, <1>6, <1>7 DEF IInv

\* The clock: leases run out, none gets longer.
LEMMA TickStep == ASSUME IInv, Tick PROVE IInv'
<1>1. now \in Nat /\ now' = now + 1 /\ UNCHANGED <<items, call, promised>>
    BY DEF IInv, TypeOK, Tick
<1>2. TypeOK' /\ NewItemsAreUnwritten' /\ ReadsAreVersioned'
    BY <1>1 DEF IInv, TypeOK, NewItemsAreUnwritten, ReadsAreVersioned
<1>3. WritesAreValidated'
    BY <1>1 DEF IInv, WritesAreValidated, ConditionHolds, Registered
<1>4. CallsFollowTheirCode'
    BY <1>1 DEF IInv, TypeOK, Call, CallsFollowTheirCode
<1>5. HeldLeasesStand'
    BY <1>1 DEF IInv, TypeOK, HeldLeasesStand, Holds, Registered
<1> QED
    BY <1>2, <1>3, <1>4, <1>5 DEF IInv

\* What a write leaves of an item.
LEMMA WrittenItem ==
    ASSUME NEW item \in Item, NEW op, NEW time, NEW c \in ClientIds, Expiry(op, time) \in Nat
    PROVE  LET written == Written(item, op, time, c) IN
           /\ written \in Item
           /\ written.version = item.version + 1
           /\ written.registered = item.registered
           /\ written.leaseExpiresBy = Expiry(op, time)
           /\ written.leasingClientId =
                IF op = "lease" THEN c
                ELSE IF op \in Returns THEN NoClient ELSE item.leasingClientId
<1> DEFINE client == IF op = "lease" THEN c
                     ELSE IF op \in Returns THEN NoClient ELSE item.leasingClientId
           version == item.version + 1
           expiry == Expiry(op, time)
           suspended == item.suspensionReason \/ op \in Suspensions
           written == [item EXCEPT !.version = version, !.leaseExpiresBy = expiry,
                                   !.leasingClientId = client, !.suspensionReason = suspended]
<1>1. Written(item, op, time, c) = written
    BY DEF Written
<1>2. /\ client \in ClientIds \cup {NoClient} /\ version \in Nat /\ expiry \in Nat
      /\ suspended \in BOOLEAN
    BY DEF Item
<1> HIDE DEF client, version, expiry, suspended
<1>3. /\ written \in Item /\ written.version = version /\ written.registered = item.registered
      /\ written.leaseExpiresBy = expiry /\ written.leasingClientId = client
    BY <1>2 DEF Item
<1> HIDE DEF written
<1> QED
    BY <1>1, <1>3 DEF client, version, expiry

\* The step that matters: a write that goes through.
LEMMA WriteStep ==
    ASSUME IInv, NEW p \in Callers, UpdateSucceeds(p)
    PROVE  IInv'
<1> DEFINE i == call[p].id
           op == call[p].op
           time == call[p].time
           c == clientId[p]
<1>1. /\ i \in Instances /\ op \in Ops /\ time \in Nat /\ c \in ClientIds
      /\ items[i] \in Item /\ now \in Nat /\ time <= now
    BY ClientOfCaller DEF IInv, TypeOK, Call, CallsFollowTheirCode
<1>2. Expiry(op, time) \in Nat
    BY <1>1, PoolAssumption DEF Expiry, NOT_LEASED
<1>3. /\ items' = [items EXCEPT ![i] = Written(items[i], op, time, c)]
      /\ items'[i] = Written(items[i], op, time, c)
      /\ \A j \in Instances \ {i} : items'[j] = items[j]
      /\ now' = now
    <2>1. items' = [items EXCEPT ![i] = Written(items[i], op, time, c)] /\ now' = now
        BY DEF UpdateSucceeds
    <2> HIDE DEF i, op, time, c
    <2> QED
        BY <2>1, <1>1 DEF IInv, TypeOK
<1>4. /\ Written(items[i], op, time, c) \in Item
      /\ Written(items[i], op, time, c).version = items[i].version + 1
      /\ Written(items[i], op, time, c).registered = items[i].registered
      /\ Written(items[i], op, time, c).leaseExpiresBy = Expiry(op, time)
      /\ Written(items[i], op, time, c).leasingClientId =
           IF op = "lease" THEN c
           ELSE IF op \in Returns THEN NoClient ELSE items[i].leasingClientId
    <2> HIDE DEF i, op, time, c
    <2> QED
        BY <1>1, <1>2, WrittenItem
<1>5. /\ call' = [call EXCEPT ![p] = NoCall]
      /\ call'[p] = NoCall
      /\ \A q \in Callers \ {p} : call'[q] = call[q]
    BY DEF UpdateSucceeds, Ends, IInv, TypeOK
<1>6. promised' = Told(op, i, time, c)
    BY DEF UpdateSucceeds
<1>7. Registered(i)
    BY DEF UpdateSucceeds, ConditionHolds
<1>8. /\ op = "lease" => items[i].leaseExpiresBy <= time
      /\ op \notin {"lease"} \cup Unvalidated => items[i].leasingClientId = c
    BY DEF UpdateSucceeds, IInv, WritesAreValidated
<1> HIDE DEF i, op, time, c
<1>9. promised' \in [ClientIds -> [Instances -> Nat]]
    BY <1>1, <1>2, <1>6, RevokedType DEF Told, IInv, TypeOK
<1>10. TypeOK'
    BY <1>1, <1>3, <1>4, <1>5, <1>9, NoCallType DEF IInv, TypeOK
<1>11. NewItemsAreUnwritten'
    BY <1>1, <1>3, <1>4, <1>7 DEF IInv, NewItemsAreUnwritten, Registered
<1>12. CallsFollowTheirCode'
    BY <1>1, <1>3, <1>5, NoCallType DEF IInv, CallsFollowTheirCode
<1>13. \A q \in Callers : call[q].id \in Instances /\ call[q].version \in Nat
    BY DEF IInv, TypeOK, Call
<1>14. ReadsAreVersioned'
    BY <1>1, <1>3, <1>4, <1>5, <1>13, NoCallType DEF IInv, ReadsAreVersioned, Item
<1>15. WritesAreValidated'
    <2> SUFFICES ASSUME NEW q \in Callers, (call[q].at = "update" /\ ConditionHolds(q))'
                 PROVE  (/\ call[q].op = "lease" =>
                              items[call[q].id].leaseExpiresBy <= call[q].time
                         /\ call[q].op \notin {"lease"} \cup Unvalidated =>
                              items[call[q].id].leasingClientId = clientId[q])'
        BY DEF WritesAreValidated
    <2>1. q # p /\ call'[q] = call[q]
        BY <1>5, NoCallType
    <2>2. call[q].id # i
        BY <2>1, <1>1, <1>3, <1>4, <1>13 DEF IInv, ReadsAreVersioned, ConditionHolds, Item
    <2>3. items'[call[q].id] = items[call[q].id]
        BY <2>2, <1>3, <1>13
    <2> QED
        BY <2>1, <2>3 DEF IInv, WritesAreValidated, ConditionHolds, Registered
<1>16. HeldLeasesStand'
    <2> SUFFICES ASSUME NEW d \in ClientIds, NEW j \in Instances, promised'[d][j] > now
                 PROVE  /\ items'[j].registered = "yes"
                        /\ items'[j].leasingClientId = d
                        /\ items'[j].leaseExpiresBy = promised'[d][j]
        BY <1>3 DEF HeldLeasesStand, Holds, Registered
    <2>1. CASE j # i
        <3>1. promised'[d][j] = promised[d][j]
            BY <2>1, <1>1, <1>6, RevokedType DEF Told, IInv, TypeOK
        <3> QED
            BY <2>1, <3>1, <1>3 DEF IInv, HeldLeasesStand, Holds, Registered
    <2>2. CASE j = i /\ op \in Unvalidated
        BY <2>2, <1>1, <1>6, RevokedType DEF Told, IInv
    <2>3. CASE j = i /\ op \notin Unvalidated /\ d = c
        <3>1. promised'[d][j] = IF op \in {"lease", "updateTimeout"} THEN Expiry(op, time) ELSE 0
            BY <2>3, <1>1, <1>6 DEF Told, IInv, TypeOK
        <3>2. op \in {"lease", "updateTimeout"}
            BY <3>1, <1>1
        <3> QED
            BY <2>3, <3>1, <3>2, <1>3, <1>4, <1>7, <1>8 DEF Registered
    <2>4. CASE j = i /\ op \notin Unvalidated /\ d # c
        <3>1. promised'[d][j] = promised[d][j]
            BY <2>4, <1>1, <1>6 DEF Told, IInv, TypeOK
        <3>2. items[i].leasingClientId = d /\ items[i].leaseExpiresBy > now
            BY <3>1, <2>4 DEF IInv, HeldLeasesStand, Holds
        <3>3. op = "lease"
            BY <3>2, <2>4, <1>8
        <3>4. items[i].leaseExpiresBy <= time
            BY <3>3, <1>8
        <3> QED
            BY <3>2, <3>4, <1>1 DEF Item
    <2> QED
        BY <2>1, <2>2, <2>3, <2>4
<1> QED
    BY <1>10, <1>11, <1>12, <1>14, <1>15, <1>16 DEF IInv

\* Nothing changes.
LEMMA StutterStep == ASSUME IInv, UNCHANGED vars PROVE IInv'
BY DEF vars, IInv, TypeOK, NewItemsAreUnwritten, CallsFollowTheirCode, ReadsAreVersioned,
       WritesAreValidated, ConditionHolds, HeldLeasesStand, Holds, Registered

\* The invariant is inductive: one case for each action.
LEMMA NextPreserves == IInv /\ [Next]_vars => IInv'
<1> SUFFICES ASSUME IInv, [Next]_vars PROVE IInv'
    OBVIOUS
<1>1. CASE Tick
    BY <1>1, TickStep
<1>2. ASSUME NEW i \in Instances, Register(i) \/ Unregister(i) PROVE IInv'
    BY <1>2, RegisterStep, UnregisterStep
<1>3. ASSUME NEW p \in Callers, NEW op \in Ops, NEW i \in Instances, Begin(p, op, i) PROVE IInv'
    BY <1>3, BeginStep
<1>4. ASSUME NEW p \in Callers, Advances(p) PROVE IInv'
    <2>1. ASSUME NEW i \in Instances, QueryFinds(p, i) PROVE IInv'
        BY <2>1, QueryStep
    <2>2. CASE QueryFindsNone(p) \/ GetFails(p)
        BY <2>2, EndStep DEF QueryFindsNone, GetFails
    <2>3. CASE GetSucceeds(p)
        BY <2>3, GetStep
    <2>4. CASE GetReadsOlder(p)
        BY <2>4, GetOlderStep
    <2>5. CASE UpdateSucceeds(p)
        BY <2>5, WriteStep
    <2>6. CASE UpdateConflicts(p)
        BY <2>6, ConflictStep
    <2> QED
        BY <1>4, <2>1, <2>2, <2>3, <2>4, <2>5, <2>6 DEF Advances
<1>5. CASE UNCHANGED vars
    BY <1>5, StutterStep
<1> QED
    BY <1>1, <1>2, <1>3, <1>4, <1>5 DEF Next

\* The invariant, of every behaviour of the pool.
LEMMA Invariance == Spec => []IInv
BY InitEstablishes, NextPreserves, PTL DEF Spec

----------------------------------------------------------------------------

\* Types of the pool's state (register, lease and updateLease of
\* dynamodb_repo.ts).
THEOREM PoolTypes == Spec => []TypeOK
BY Invariance, PTL DEF IInv

\* The optimistic lock: a write that goes through writes over what its call
\* validated, whatever other calls did in between.
THEOREM OptimisticLocking == Spec => []WritesAreValidated
BY Invariance, PTL DEF IInv

\* A lease a client was told of stands in the table until the time it was told.
THEOREM LeasesStand == Spec => []HeldLeasesStand
BY Invariance, PTL DEF IInv

\* No two clients hold one instance at the same time.
THEOREM LeasesExclude == Spec => []MutualExclusion
<1>1. HeldLeasesStand => MutualExclusion
    BY DEF HeldLeasesStand, MutualExclusion
<1> QED
    BY <1>1, LeasesStand, PTL

============================================================================
