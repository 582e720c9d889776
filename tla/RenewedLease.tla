---------------------------- MODULE RenewedLease ----------------------------
(***************************************************************************)
(* Test runs that use leased accounts:                                     *)
(* packages/e2e-credentials-store/src/jest-environment/creds.ts leases an  *)
(* instance of a PersistentPool, validates it, and keeps the lease with    *)
(* packages/persistent-pool/src/lib/renewed_lease.ts, which extends it by  *)
(* a timer until it is returned.                                           *)
(*                                                                         *)
(* A client has two callers of the pool: "user", that leases, suspends and *)
(* returns, and "renewal", the call that the timer makes.  A run waits for *)
(* an account, and validates it, for as long as it takes.  Only a return,  *)
(* and a renewal from when its timer is due, are answered within MaxDelay. *)
(***************************************************************************)
EXTENDS Naturals

CONSTANTS
    Clients, Instances, NoClient, NoInstance,
    Timeout, RenewMargin,   \* LEASE_TIMEOUT and LEASE_UPDATE_MARGIN
    MaxDelay,
    OptimisticLockMaxRetries, MaxTime, MaxVersion

\* In creds.ts, five minutes, one minute, and the default of ten retries.  A lease
\* is short of its margin by two delays at most (that of the answer its time was
\* counted before, and that of the next one), and return loses at most one race
\* with a renewal.
ASSUME RenewalAssumption ==
    /\ NoClient \notin Clients /\ NoInstance \notin Instances /\ Instances # {}
    /\ Timeout \in Nat /\ RenewMargin \in 1 .. Timeout /\ MaxDelay \in Nat
    /\ 2 * MaxDelay < RenewMargin /\ MaxDelay < Timeout - RenewMargin
    /\ OptimisticLockMaxRetries \in Nat \ {0}
    /\ MaxTime \in Nat /\ MaxVersion \in Nat

VARIABLES
    items, now, call, promised,   \* the pool's
    phase,      \* client -> how far its test run is
    leased,     \* client -> the id of its lease
    renew,      \* client -> whether its timer is armed, or renew is running
    due,        \* client -> when its timer is due
    asked,      \* client -> the clock that its lease counts from, and then the
                \* one when it called return
    late        \* client -> whether it took up its account more than MaxDelay
                \* after that clock, and has not renewed the lease since

poolVars == <<items, now, call, promised>>
vars == <<items, now, call, promised, phase, leased, renew, due, asked, late>>

Pool == INSTANCE PersistentPool WITH
            Callers <- Clients \X {"user", "renewal"},
            clientId <- [p \in Clients \X {"user", "renewal"} |-> p[1]],
            StaleReads <- FALSE

User(c) == <<c, "user">>
Renewal(c) == <<c, "renewal">>

Phases == {"started", "leasing", "validating", "suspending", "renewing",
           "returning", "returned", "over"}

Init ==
    /\ Pool!Init
    /\ phase = [c \in Clients |-> "started"]
    /\ leased = [c \in Clients |-> NoInstance]
    /\ renew = [c \in Clients |-> "none"]
    /\ due = [c \in Clients |-> 0]
    /\ asked = [c \in Clients |-> 0]
    /\ late = [c \in Clients |-> FALSE]

Becomes(c, p) == phase' = [phase EXCEPT ![c] = p]

\* A call of the pool goes on, ends with an error or null, or ends well.
Continues(p) == Pool!Advances(p) /\ call'[p].at # "idle"
Fails(p) == Pool!Advances(p) /\ ~Pool!UpdateSucceeds(p) /\ call'[p].at = "idle"

----------------------------------------------------------------------------
(* creds.ts *)

TryLease(c) ==
    /\ phase[c] = "started"
    /\ Pool!Begin(User(c), "lease", CHOOSE i \in Instances : TRUE)
    /\ Becomes(c, "leasing")
    /\ UNCHANGED <<leased, renew, due, asked, late>>

LeaseGranted(c) ==
    /\ phase[c] = "leasing"
    /\ Pool!UpdateSucceeds(User(c))
    /\ Becomes(c, "validating")
    /\ leased' = [leased EXCEPT ![c] = call[User(c)].id]
    /\ asked' = [asked EXCEPT ![c] = call[User(c)].time]
    /\ UNCHANGED <<renew, due, late>>

\* spec.validate throws a SuspendCredentialsError: suspend, then try again.
ValidationSuspends(c) ==
    /\ phase[c] = "validating"
    /\ Pool!Begin(User(c), "suspend", leased[c])
    /\ Becomes(c, "suspending")
    /\ UNCHANGED <<leased, renew, due, asked, late>>

SuspendEnds(c) ==
    /\ phase[c] = "suspending"
    /\ \/ Pool!UpdateSucceeds(User(c)) /\ Becomes(c, "started")
       \/ Fails(User(c)) /\ Becomes(c, "over")
    /\ leased' = [leased EXCEPT ![c] = NoInstance]
    /\ UNCHANGED <<renew, due, asked, late>>

\* The lease is refused, another call throws, or the process ends: the lease,
\* if there is one, is left to run out.
GivesUp(c) ==
    /\ \/ phase[c] = "leasing" /\ Fails(User(c))
       \/ phase[c] \notin {"started", "leasing", "returned", "over"} /\ UNCHANGED poolVars
    /\ Becomes(c, "over")
    /\ renew' = [renew EXCEPT ![c] = "none"]
    /\ UNCHANGED <<leased, due, asked, late>>

----------------------------------------------------------------------------
(* renewed_lease.ts *)

\* Mistaken variant of RenewTimeout: no margin.
RenewTimeoutWithoutMargin == Timeout

RenewTimeout == Timeout - RenewMargin

Arm(c) ==
    /\ renew' = [renew EXCEPT ![c] = "armed"]
    /\ due' = [due EXCEPT ![c] = now + RenewTimeout]

Prompt(c) == now <= asked[c] + MaxDelay

\* The constructor.
Construct(c) ==
    /\ phase[c] = "validating"
    /\ Becomes(c, "renewing")
    /\ Arm(c)
    /\ late' = [late EXCEPT ![c] = ~Prompt(c)]
    /\ UNCHANGED <<items, now, call, promised, leased, asked>>

\* The timer elapses: renew calls updateTimeout.
Renew(c) ==
    /\ renew[c] = "armed"
    /\ now >= due[c]
    /\ Pool!Begin(Renewal(c), "updateTimeout", leased[c])
    /\ renew' = [renew EXCEPT ![c] = "running"]
    /\ UNCHANGED <<phase, leased, due, asked, late>>

\* updateTimeout resolves: the timer is armed again.
RenewSucceeds(c) ==
    /\ renew[c] = "running"
    /\ Pool!UpdateSucceeds(Renewal(c))
    /\ Arm(c)
    /\ late' = [late EXCEPT ![c] = FALSE]
    /\ UNCHANGED <<phase, leased, asked>>

\* It rejects: that is logged, or an unhandled rejection, and there is no
\* timer any more.
RenewFails(c) ==
    /\ renew[c] = "running"
    /\ Fails(Renewal(c))
    /\ renew' = [renew EXCEPT ![c] = "none"]
    /\ UNCHANGED <<phase, leased, due, asked, late>>

AskReturn(c) ==
    /\ Pool!Begin(User(c), "return", leased[c])
    /\ asked' = [asked EXCEPT ![c] = now]

\* Mistaken variant of Return: the pool's answer is not awaited.
ReturnUnawaited(c) ==
    /\ phase[c] = "renewing"
    /\ renew' = [renew EXCEPT ![c] = IF @ = "armed" THEN "none" ELSE @]
    /\ AskReturn(c)
    /\ Becomes(c, "returned")
    /\ UNCHANGED <<leased, due, late>>

\* return clears the timer, which does not stop a renewal that is running.
Return(c) ==
    /\ phase[c] = "renewing"
    /\ renew' = [renew EXCEPT ![c] = IF @ = "armed" THEN "none" ELSE @]
    /\ AskReturn(c)
    /\ Becomes(c, "returning")
    /\ UNCHANGED <<leased, due, late>>

ReturnEnds(c) ==
    /\ phase[c] = "returning"
    /\ Pool!UpdateSucceeds(User(c)) \/ Fails(User(c))
    /\ Becomes(c, "returned")
    /\ UNCHANGED <<leased, renew, due, asked, late>>

----------------------------------------------------------------------------

\* A request in between, and the requests of a process that ended.
InFlight(c) ==
    /\ \/ Continues(User(c)) \/ Continues(Renewal(c))
       \/ phase[c] = "over" /\ (Pool!Advances(User(c)) \/ Pool!Advances(Renewal(c)))
    /\ UNCHANGED <<phase, leased, renew, due, asked, late>>

\* No answer that is due within MaxDelay is late.
InTime(c) ==
    /\ phase[c] = "returning" => now < asked[c] + MaxDelay
    /\ phase[c] = "renewing" /\ renew[c] # "none" => now < due[c] + MaxDelay

Tick ==
    /\ Pool!Tick
    /\ \A c \in Clients : InTime(c)
    /\ UNCHANGED <<phase, leased, renew, due, asked, late>>

Administration ==
    /\ \E i \in Instances : Pool!Register(i) \/ Pool!Unregister(i)
    /\ UNCHANGED <<phase, leased, renew, due, asked, late>>

Next ==
    \/ Tick
    \/ Administration
    \/ \E c \in Clients :
         \/ TryLease(c) \/ LeaseGranted(c) \/ ValidationSuspends(c) \/ SuspendEnds(c)
         \/ GivesUp(c)
         \/ Construct(c) \/ Renew(c) \/ RenewSucceeds(c) \/ RenewFails(c)
         \/ Return(c) \/ ReturnEnds(c)
         \/ InFlight(c)

Spec == Init /\ [][Next]_vars

----------------------------------------------------------------------------

Registered(c) == items[leased[c]].registered = "yes"

\* A lease never runs out under a test run that renews it: the table has it
\* under the run's name and with time left, however the answers to renewals are
\* delayed (within MaxDelay) and whatever other test runs do meanwhile.  That is
\* so from the beginning if the run took up its account promptly, and else from
\* its first renewal on: the time of a lease is counted from before the wait.
RenewedLeaseIsHeld ==
    \A c \in Clients :
        phase[c] = "renewing" /\ ~late[c] /\ Registered(c) =>
            /\ items[leased[c]].leasingClientId = c
            /\ items[leased[c]].leaseExpiresBy > now

\* The run has its account: it goes on to validate one that was leased just before,
\* or it renews the lease in time.
HasAccount(c) ==
    \/ phase[c] = "validating" /\ Prompt(c)
    \/ phase[c] = "renewing" /\ ~late[c]

\* Two test runs never use one account at the same time, unless one of them waited
\* for the account, or validated it, for too long and has not renewed it since.
AccountsAreNotShared ==
    \A c, d \in Clients :
        HasAccount(c) /\ HasAccount(d) /\ leased[c] = leased[d] /\ Registered(c) => c = d

\* Once return resolved, the account is not leased by this test run, although a
\* renewal may have been under way, and may still be.
ReturnedIsReturned ==
    \A c \in Clients :
        phase[c] = "returned" /\ Registered(c) => items[leased[c]].leasingClientId # c

\* Once return resolved no renewal begins: renewed_lease.test.ts says "once
\* another renew time had passed" that it "does not call pool.updateTimeout".
NoRenewalAfterReturn ==
    [][\A c \in Clients :
          phase[c] = "returned" /\ renew[c] # "running" => renew'[c] # "running"]_vars

============================================================================
