---------------------------- MODULE RateLimiter ----------------------------
(***************************************************************************)
(* The rate limiter of                                                     *)
(* packages/adapter-components/src/client/rate_limiter.ts: calls to a      *)
(* service go through a queue that limits how many run, each is delayed    *)
(* after the one before, a failing one is added again, and a failure may   *)
(* pause the whole queue for a while.                                      *)
(*                                                                         *)
(* The queue is a library's (PQueue or Bottleneck), and external: it       *)
(* starts its jobs in their order, at most maxConcurrentCalls at a time,   *)
(* when it is not paused.  A limit per interval would only start them      *)
(* later.  Timers are modelled by the time that is left, so that there is  *)
(* no clock; they elapse on time (the event loop is not blocked).          *)
(***************************************************************************)
EXTENDS Naturals, Sequences, FiniteSets

CONSTANTS
    Calls,          \* tasks given to add
    MaxConcurrent,  \* the values of the option maxConcurrentCalls
    DelayMS,        \* the option delayMS
    RetryDelays,    \* what calculateRetryDelayMS may return
    MaxRetries,     \* retryPredicate returns false from then on
    PauseTimes,     \* arguments of pause
    UserOps,        \* which of pause, resume and clear are called
    MaxPauses,      \* bound on the calls of pause
    NoTimer

ASSUME RateLimiterAssumption ==
    /\ MaxConcurrent \subseteq Nat \ {0}
    /\ DelayMS \in Nat /\ RetryDelays \subseteq Nat /\ PauseTimes \subseteq Nat \ {0}
    /\ MaxRetries \in Nat /\ MaxPauses \in Nat /\ NoTimer \notin Nat
    /\ UserOps \subseteq {"pause", "resume", "clear"}

VARIABLES
    options,
    call,           \* call -> state of the promise that add returned for it
    numRetries,     \* call -> the parameter of recursiveAdd
    queue, paused,  \* the library's queue
    counters,
    wakeIn,         \* call -> time left of its own timer
    resumeTimer,    \* time left of the timer of pause
    delay,          \* what nextDelay will return
    sinceInvoked,   \* time since a task was invoked, or the limiter created,
                    \* up to DelayMS
    pauses          \* number of calls of pause

jobVars == <<call, numRetries, queue, counters>>
timeVars == <<wakeIn, delay, sinceInvoked>>
vars == <<options, jobVars, paused, resumeTimer, timeVars, pauses>>

Options == [useBottleneck : BOOLEAN, pauseDuringRetryDelay : BOOLEAN,
            startPaused : BOOLEAN, maxConcurrentCalls : MaxConcurrent]

\* "queued" in the library's queue; "delayed" by getDelayedTask; "running" the
\* task itself; "waiting" for its retry; "cleared" and never settled.
CallStates == {"none", "queued", "delayed", "running", "waiting",
               "succeeded", "failed", "cleared"}

Counters == [total : Nat, running : Nat, pending : Nat, done : Nat,
             succeeded : Nat, failed : Nat, retries : Nat]

\* The constructor throws for the other combinations of options.
Init ==
    /\ options \in {o \in Options : o.useBottleneck => ~o.startPaused /\ ~o.pauseDuringRetryDelay}
    /\ call = [c \in Calls |-> "none"]
    /\ numRetries = [c \in Calls |-> 0]
    /\ queue = << >>
    /\ paused = options.startPaused
    /\ counters = [total |-> 0, running |-> 0, pending |-> 0, done |-> 0,
                   succeeded |-> 0, failed |-> 0, retries |-> 0]
    /\ wakeIn = [c \in Calls |-> 0]
    /\ resumeTimer = NoTimer
    /\ delay = DelayMS
    /\ sinceInvoked = 0
    /\ pauses = 0

Active == {c \in Calls : call[c] \in {"delayed", "running"}}

Becomes(c, s) == call' = [call EXCEPT ![c] = s]

----------------------------------------------------------------------------
(* recursiveAdd *)

WithPending(counts) == [counts EXCEPT !.total = @ + 1, !.pending = @ + 1]

\* The task of c is given to the queue.
Enqueue(c, counts) ==
    /\ Becomes(c, "queued")
    /\ queue' = Append(queue, c)
    /\ counters' = WithPending(counts)

Add(c) ==
    /\ call[c] = "none"
    /\ Enqueue(c, counters)
    /\ UNCHANGED <<options, numRetries, paused, resumeTimer, timeVars, pauses>>

\* The time before a retry is over.
AddAgain(c) ==
    /\ call[c] = "waiting" /\ wakeIn[c] = 0
    /\ Enqueue(c, counters)
    /\ UNCHANGED <<options, numRetries, paused, resumeTimer, timeVars, pauses>>

\* Mistaken variant of DelayAfter: measured from now.
DelayAfterNow(d) == DelayMS

\* nextDelay returned d: prevInvocationTime is that much later.
DelayAfter(d) == d + DelayMS

\* The queue starts its first job: wrapWithBookKeeping, up to the await in
\* getDelayedTask if there is a delay, or up to the task.
Start(c) ==
    /\ ~paused
    /\ queue # << >> /\ c = Head(queue)
    /\ Cardinality(Active) < options.maxConcurrentCalls
    /\ queue' = Tail(queue)
    /\ counters' = [counters EXCEPT !.pending = @ - 1, !.running = @ + 1,
                                    !.retries = IF numRetries[c] > 0 THEN @ + 1 ELSE @]
    /\ IF DelayMS > 0
         THEN /\ Becomes(c, "delayed")
              /\ wakeIn' = [wakeIn EXCEPT ![c] = delay]
              /\ delay' = DelayAfter(delay)
              /\ UNCHANGED sinceInvoked
         ELSE Becomes(c, "running") /\ UNCHANGED timeVars
    /\ UNCHANGED <<options, numRetries, paused, resumeTimer, pauses>>

\* The delay is over: the task is invoked.
Invoke(c) ==
    /\ call[c] = "delayed" /\ wakeIn[c] = 0
    /\ Becomes(c, "running")
    /\ sinceInvoked' = 0
    /\ UNCHANGED <<options, numRetries, queue, counters, paused, resumeTimer,
                   wakeIn, delay, pauses>>

Succeed(c) ==
    /\ call[c] = "running"
    /\ Becomes(c, "succeeded")
    /\ counters' = [counters EXCEPT !.running = @ - 1, !.done = @ + 1, !.succeeded = @ + 1]
    /\ UNCHANGED <<options, numRetries, queue, paused, resumeTimer, timeVars, pauses>>

WithFailure(counts) == [counts EXCEPT !.running = @ - 1, !.done = @ + 1, !.failed = @ + 1]

\* Mistaken variant of PauseFor: the timer is cleared only.
PauseForEver(time) == paused' = TRUE /\ resumeTimer' = NoTimer

\* pause(time): the timer of a pause before is cleared, if "time" is given.
PauseFor(time) == paused' = TRUE /\ resumeTimer' = time

\* The task rejects; calculateRetryDelayMS is d and retryPredicate is "retry".
\* wrapWithPauseOnFail pauses the queue, also when nothing is tried again.
Fail(c, d, retry) ==
    /\ call[c] = "running"
    /\ retry => numRetries[c] < MaxRetries
    /\ IF options.pauseDuringRetryDelay /\ d > 0
         THEN PauseFor(d) ELSE UNCHANGED <<paused, resumeTimer>>
    /\ IF ~retry
         THEN Becomes(c, "failed") /\ counters' = WithFailure(counters)
              /\ UNCHANGED <<numRetries, queue, wakeIn>>
         ELSE /\ numRetries' = [numRetries EXCEPT ![c] = @ + 1]
              /\ wakeIn' = [wakeIn EXCEPT ![c] = d]
              /\ IF options.pauseDuringRetryDelay \/ d = 0
                   THEN Enqueue(c, WithFailure(counters))
                   ELSE Becomes(c, "waiting") /\ counters' = WithFailure(counters)
                        /\ UNCHANGED queue
    /\ UNCHANGED <<options, delay, sinceInvoked, pauses>>

----------------------------------------------------------------------------
(* pause, resume and clear, which throw if the queue is Bottleneck's *)

MayCall(op) == op \in UserOps /\ ~options.useBottleneck

Pause ==
    /\ MayCall("pause") /\ pauses < MaxPauses
    /\ pauses' = pauses + 1
    /\ \/ \E time \in PauseTimes : PauseFor(time)
       \/ paused' = TRUE /\ UNCHANGED resumeTimer
    /\ UNCHANGED <<options, jobVars, timeVars>>

\* resume leaves the timer of pause as it is.
Resume ==
    /\ MayCall("resume")
    /\ paused' = FALSE
    /\ UNCHANGED <<options, jobVars, resumeTimer, timeVars, pauses>>

ResumeTimerElapses ==
    /\ resumeTimer = 0
    /\ paused' = FALSE
    /\ resumeTimer' = NoTimer
    /\ UNCHANGED <<options, jobVars, timeVars, pauses>>

\* Mistaken variant of WithoutPending: the total is not adjusted.
WithoutPendingOnly(counts) == [counts EXCEPT !.pending = 0]
WithoutPending(counts) == [counts EXCEPT !.total = @ - counts.pending, !.pending = 0]

\* Mistaken variant of Cleared: the calls are left as they are.
ClearedNone == call

\* The queue drops its jobs; nobody settles their promises.
Cleared == [c \in Calls |-> IF call[c] = "queued" THEN "cleared" ELSE call[c]]

Clear ==
    /\ MayCall("clear")
    /\ queue' = << >>
    /\ call' = Cleared
    /\ counters' = WithoutPending(counters)
    /\ UNCHANGED <<options, numRetries, paused, resumeTimer, timeVars, pauses>>

----------------------------------------------------------------------------

Less(n) == IF n = 0 THEN 0 ELSE n - 1
LessEach(f) == [c \in Calls |-> Less(f[c])]

\* Time goes on, unless a timer is due.
Tick ==
    /\ \A c \in Calls : call[c] \in {"delayed", "waiting"} => wakeIn[c] > 0
    /\ resumeTimer # 0
    /\ wakeIn' = LessEach(wakeIn)
    /\ delay' = Less(delay)
    /\ sinceInvoked' = IF sinceInvoked < DelayMS THEN sinceInvoked + 1 ELSE DelayMS
    /\ resumeTimer' = IF resumeTimer = NoTimer THEN NoTimer ELSE resumeTimer - 1
    /\ UNCHANGED <<options, jobVars, paused, pauses>>

Next ==
    \/ \E c \in Calls :
         \/ Add(c) \/ AddAgain(c) \/ Start(c) \/ Invoke(c) \/ Succeed(c)
         \/ \E d \in RetryDelays, retry \in BOOLEAN : Fail(c, d, retry)
    \/ Pause \/ Resume \/ ResumeTimerElapses \/ Clear
    \/ Tick

\* The queue starts what it may start, time goes on, and timers elapse.
Spec ==
    /\ Init /\ [][Next]_vars
    /\ \A c \in Calls : WF_vars(AddAgain(c)) /\ WF_vars(Start(c)) /\ WF_vars(Invoke(c))
    /\ WF_vars(ResumeTimerElapses) /\ WF_vars(Tick)

----------------------------------------------------------------------------

\* Types of the limiter's state; the queue holds the queued calls.
TypeOK ==
    /\ options \in Options
    /\ call \in [Calls -> CallStates]
    /\ numRetries \in [Calls -> 0 .. MaxRetries]
    /\ queue \in Seq(Calls)
    /\ \A c \in Calls : call[c] = "queued" <=> \E i \in 1 .. Len(queue) : queue[i] = c
    /\ paused \in BOOLEAN
    /\ counters \in Counters
    /\ wakeIn \in [Calls -> Nat]
    /\ resumeTimer \in Nat \cup {NoTimer}
    /\ delay \in Nat /\ sinceInvoked \in 0 .. DelayMS /\ pauses \in 0 .. MaxPauses

\* The counters tell what the limiter does, whatever is retried, paused or
\* cleared: no attempt is lost or counted twice.
CountersAddUp ==
    /\ counters.pending = Len(queue)
    /\ counters.running = Cardinality(Active)
    /\ counters.done = counters.succeeded + counters.failed
    /\ counters.total = counters.pending + counters.running + counters.done
    /\ counters.retries <= counters.failed

\* nextDelay "ensures that tasks are spaced out by at least the delay specified
\* in the options", however many of them are delayed at once, and whatever was
\* retried or paused meanwhile.
InvocationsAreSpaced ==
    \A c \in Calls :
        call[c] = "delayed" =>
            /\ wakeIn[c] + sinceInvoked >= DelayMS
            /\ \A d \in Calls \ {c} :
                  call[d] = "delayed" =>
                      \/ wakeIn[c] + DelayMS <= wakeIn[d]
                      \/ wakeIn[d] + DelayMS <= wakeIn[c]

\* A call that was added settles, or is cleared, if the tasks do and the user
\* does not pause the queue: pauses after failures always end.
CallsEnd ==
    /\ ~options.startPaused
    /\ [](pauses = 0)
    /\ \A c \in Calls : []<>(call[c] # "running")
    => \A c \in Calls : call[c] # "none" ~> call[c] \in {"succeeded", "failed", "cleared"}

============================================================================
