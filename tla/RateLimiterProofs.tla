------------------------- MODULE RateLimiterProofs -------------------------
(***************************************************************************)
(* Safety of the rate limiter for any calls, options, delays and bounds.   *)
(***************************************************************************)
EXTENDS RateLimiter, FiniteSetTheorems, TLAPS

\* Types, but for what is said of the queue's contents.
Types ==
    /\ options \in Options
    /\ call \in [Calls -> CallStates]
    /\ numRetries \in [Calls -> 0 .. MaxRetries]
    /\ queue \in Seq(Calls)
    /\ paused \in BOOLEAN
    /\ counters \in Counters
    /\ wakeIn \in [Calls -> Nat]
    /\ resumeTimer \in Nat \cup {NoTimer}
    /\ delay \in Nat /\ sinceInvoked \in 0 .. DelayMS /\ pauses \in 0 .. MaxPauses

\* A call is queued once, and only calls that are queued are.
QueueInOrder ==
    /\ \A c \in Calls : call[c] = "queued" <=> \E i \in 1 .. Len(queue) : queue[i] = c
    /\ \A i, j \in 1 .. Len(queue) : queue[i] = queue[j] => i = j

\* Calls that are to be tried again, and were not started yet.
Retrying == {c \in Calls : call[c] \in {"queued", "waiting"} /\ numRetries[c] > 0}

\* Every attempt that waits or was counted as a retry follows a failed one.
CountersMatch ==
    /\ IsFiniteSet(Active) /\ IsFiniteSet(Retrying)
    /\ counters.pending = Len(queue)
    /\ counters.running = Cardinality(Active)
    /\ counters.done = counters.succeeded + counters.failed
    /\ counters.total = counters.pending + counters.running + counters.done
    /\ counters.retries + Cardinality(Retrying) <= counters.failed

\* A call that was not added was not retried either.
NewCallsAreNew == \A c \in Calls : call[c] = "none" => numRetries[c] = 0

\* The delay that is given next is behind all those that were given.
DelaysAreSpaced ==
    /\ InvocationsAreSpaced
    /\ delay + sinceInvoked >= DelayMS
    /\ \A c \in Calls : call[c] = "delayed" => wakeIn[c] + DelayMS <= delay

IInv == Types /\ NewCallsAreNew /\ QueueInOrder /\ CountersMatch /\ DelaysAreSpaced

----------------------------------------------------------------------------

\* Steps that neither start nor delay a call, nor take time, keep the delays.
LEMMA NothingDelayed ==
    ASSUME DelaysAreSpaced, UNCHANGED <<delay, sinceInvoked>>,
           \A c \in Calls : call'[c] = "delayed" => call[c] = "delayed" /\ wakeIn'[c] = wakeIn[c]
    PROVE  DelaysAreSpaced'
BY DEF DelaysAreSpaced, InvocationsAreSpaced

\* Start gives the next delay, which is behind the others.
LEMMA StartKeepsSpacing ==
    ASSUME IInv, NEW c \in Calls, Start(c)
    PROVE  DelaysAreSpaced'
<1> USE RateLimiterAssumption DEF IInv, Types
<1>1. CASE DelayMS > 0
    <2>1. /\ call' = [call EXCEPT ![c] = "delayed"]
          /\ wakeIn' = [wakeIn EXCEPT ![c] = delay]
          /\ delay' = delay + DelayMS
          /\ sinceInvoked' = sinceInvoked
        BY <1>1 DEF Start, Becomes, DelayAfter
    <2>2. ASSUME NEW d \in Calls, d # c, call'[d] = "delayed"
          PROVE  call[d] = "delayed" /\ wakeIn'[d] = wakeIn[d]
        BY <2>1, <2>2
    <2>3. wakeIn'[c] = delay
        BY <2>1
    <2>4. InvocationsAreSpaced'
        BY <2>1, <2>2, <2>3 DEF InvocationsAreSpaced, DelaysAreSpaced
    <2> QED
        BY <2>1, <2>2, <2>3, <2>4 DEF DelaysAreSpaced
<1>2. CASE ~(DelayMS > 0)
    <2>1. call' = [call EXCEPT ![c] = "running"] /\ UNCHANGED timeVars
        BY <1>2 DEF Start, Becomes
    <2> QED
        BY <2>1, NothingDelayed DEF timeVars
<1> QED
    BY <1>1, <1>2

\* The one that is invoked is the first of those that are delayed.
LEMMA InvokeKeepsSpacing ==
    ASSUME IInv, NEW c \in Calls, Invoke(c)
    PROVE  DelaysAreSpaced'
<1> USE RateLimiterAssumption DEF IInv, Types
<1>1. /\ call[c] = "delayed" /\ wakeIn[c] = 0
      /\ call' = [call EXCEPT ![c] = "running"]
      /\ sinceInvoked' = 0
      /\ UNCHANGED <<wakeIn, delay>>
    BY DEF Invoke, Becomes
<1>2. ASSUME NEW d \in Calls, call'[d] = "delayed"
      PROVE  d # c /\ call[d] = "delayed"
    BY <1>1, <1>2
<1>3. ASSUME NEW d \in Calls, call'[d] = "delayed"
      PROVE  wakeIn[d] >= DelayMS
    BY <1>1, <1>2, <1>3 DEF DelaysAreSpaced, InvocationsAreSpaced
<1>4. delay >= DelayMS
    BY <1>1 DEF DelaysAreSpaced
<1>5. InvocationsAreSpaced'
    BY <1>1, <1>2, <1>3 DEF DelaysAreSpaced, InvocationsAreSpaced
<1> QED
    BY <1>1, <1>2, <1>4, <1>5 DEF DelaysAreSpaced

\* All delays get shorter together, and none is over before time goes on.
LEMMA TickKeepsSpacing ==
    ASSUME IInv, Tick
    PROVE  DelaysAreSpaced'
<1> USE RateLimiterAssumption DEF IInv, Types, Less, LessEach
<1>1. /\ UNCHANGED call
      /\ \A c \in Calls : call[c] = "delayed" => wakeIn[c] > 0 /\ wakeIn'[c] = wakeIn[c] - 1
      /\ delay' = IF delay = 0 THEN 0 ELSE delay - 1
      /\ sinceInvoked' = IF sinceInvoked < DelayMS THEN sinceInvoked + 1 ELSE DelayMS
    BY DEF Tick, jobVars
<1>2. InvocationsAreSpaced'
    <2> SUFFICES ASSUME NEW c \in Calls, call[c] = "delayed"
                 PROVE  /\ wakeIn'[c] + sinceInvoked' >= DelayMS
                        /\ \A d \in Calls \ {c} :
                              call[d] = "delayed" =>
                                  \/ wakeIn'[c] + DelayMS <= wakeIn'[d]
                                  \/ wakeIn'[d] + DelayMS <= wakeIn'[c]
        BY <1>1 DEF InvocationsAreSpaced
    <2>1. /\ wakeIn[c] \in Nat /\ wakeIn[c] > 0 /\ wakeIn'[c] = wakeIn[c] - 1
          /\ wakeIn[c] + sinceInvoked >= DelayMS
        BY <1>1 DEF DelaysAreSpaced, InvocationsAreSpaced
    <2>2. wakeIn'[c] + sinceInvoked' >= DelayMS
        BY <1>1, <2>1
    <2>3. ASSUME NEW d \in Calls \ {c}, call[d] = "delayed"
          PROVE  \/ wakeIn'[c] + DelayMS <= wakeIn'[d]
                 \/ wakeIn'[d] + DelayMS <= wakeIn'[c]
        <3>1. wakeIn[d] \in Nat /\ wakeIn'[d] = wakeIn[d] - 1
            BY <1>1, <2>3
        <3>2. wakeIn[c] + DelayMS <= wakeIn[d] \/ wakeIn[d] + DelayMS <= wakeIn[c]
            BY <2>3 DEF DelaysAreSpaced, InvocationsAreSpaced
        <3> QED
            BY <2>1, <3>1, <3>2
    <2> QED
        BY <2>2, <2>3
<1>3. (delay + sinceInvoked >= DelayMS)'
    BY <1>1 DEF DelaysAreSpaced
<1>4. \A c \in Calls : call'[c] = "delayed" => wakeIn'[c] + DelayMS <= delay'
    BY <1>1 DEF DelaysAreSpaced
<1> QED
    BY <1>2, <1>3, <1>4 DEF DelaysAreSpaced

\* Spacing, one step per action.
LEMMA NextKeepsSpacing == IInv /\ [Next]_vars => DelaysAreSpaced'
<1> SUFFICES ASSUME IInv, [Next]_vars PROVE DelaysAreSpaced'
    OBVIOUS
<1> USE DEF IInv, Types
<1>1. ASSUME NEW c \in Calls, Add(c) \/ AddAgain(c) PROVE DelaysAreSpaced'
    BY <1>1, NothingDelayed DEF Add, AddAgain, Enqueue, Becomes, timeVars
<1>2. ASSUME NEW c \in Calls, Start(c) PROVE DelaysAreSpaced'
    BY <1>2, StartKeepsSpacing
<1>3. ASSUME NEW c \in Calls, Invoke(c) PROVE DelaysAreSpaced'
    BY <1>3, InvokeKeepsSpacing
<1>4. ASSUME NEW c \in Calls, Succeed(c) PROVE DelaysAreSpaced'
    BY <1>4, NothingDelayed DEF Succeed, Becomes, timeVars
<1>5. ASSUME NEW c \in Calls, NEW d \in RetryDelays, NEW retry \in BOOLEAN, Fail(c, d, retry)
      PROVE  DelaysAreSpaced'
    <2>1. \E s \in {"failed", "queued", "waiting"} : call' = [call EXCEPT ![c] = s]
        BY <1>5 DEF Fail, Enqueue, Becomes
    <2>2. call[c] = "running" /\ UNCHANGED <<delay, sinceInvoked>>
        BY <1>5 DEF Fail
    <2>3. wakeIn' = wakeIn \/ wakeIn' = [wakeIn EXCEPT ![c] = d]
        BY <1>5 DEF Fail
    <2>4. \A b \in Calls : call'[b] = "delayed" => call[b] = "delayed" /\ wakeIn'[b] = wakeIn[b]
        BY <2>1, <2>2, <2>3
    <2> QED
        BY <2>2, <2>4, NothingDelayed
<1>6. CASE Pause \/ Resume \/ ResumeTimerElapses
    BY <1>6, NothingDelayed DEF Pause, Resume, ResumeTimerElapses, jobVars, timeVars
<1>7. CASE Clear
    <2>1. \A c \in Calls : call'[c] = "delayed" => call[c] = "delayed"
        BY <1>7 DEF Clear, Cleared
    <2> QED
        BY <1>7, <2>1, NothingDelayed DEF Clear, timeVars
<1>8. CASE Tick
    BY <1>8, TickKeepsSpacing
<1>9. CASE UNCHANGED vars
    BY <1>9, NothingDelayed DEF vars, jobVars, timeVars
<1> QED
    BY <1>1, <1>2, <1>3, <1>4, <1>5, <1>6, <1>7, <1>8, <1>9 DEF Next

----------------------------------------------------------------------------
(* The queue. *)

\* A job that is added is the last.
LEMMA EnqueueKeepsQueue ==
    ASSUME Types, QueueInOrder, NEW c \in Calls, call[c] # "queued",
           queue' = Append(queue, c), call' = [call EXCEPT ![c] = "queued"]
    PROVE  queue' \in Seq(Calls) /\ QueueInOrder'
<1> USE DEF Types
<1>1. /\ queue' \in Seq(Calls) /\ Len(queue') = Len(queue) + 1
      /\ \A i \in 1 .. Len(queue) : queue'[i] = queue[i]
      /\ queue'[Len(queue) + 1] = c
      /\ Len(queue) \in Nat
    OBVIOUS
<1>2. \A i \in 1 .. Len(queue) : queue[i] # c /\ queue[i] \in Calls
    BY DEF QueueInOrder
<1>3. ASSUME NEW d \in Calls
      PROVE  call'[d] = "queued" <=> \E i \in 1 .. Len(queue') : queue'[i] = d
    <2>1. CASE d = c
        BY <1>1, <2>1
    <2>2. CASE d # c
        <3>1. call'[d] = "queued" <=> \E i \in 1 .. Len(queue) : queue[i] = d
            BY <2>2 DEF QueueInOrder
        <3> QED
            BY <1>1, <2>2, <3>1
    <2> QED
        BY <2>1, <2>2
<1>4. ASSUME NEW i \in 1 .. Len(queue'), NEW j \in 1 .. Len(queue'), queue'[i] = queue'[j]
      PROVE  i = j
    <2>1. CASE i \in 1 .. Len(queue) /\ j \in 1 .. Len(queue)
        <3>1. queue[i] = queue[j]
            BY <1>1, <1>4, <2>1
        <3> QED
            BY <2>1, <3>1 DEF QueueInOrder
    <2>2. ASSUME NEW k \in 1 .. Len(queue') PROVE k \in 1 .. Len(queue) \/ queue'[k] = c
        BY <1>1
    <2>3. ASSUME NEW k \in 1 .. Len(queue'), queue'[k] = c PROVE k = Len(queue) + 1
        <3>1. k \notin 1 .. Len(queue)
            BY <1>1, <1>2, <2>3
        <3> QED
            BY <1>1, <3>1
    <2>4. CASE queue'[i] = c
        BY <1>4, <2>3, <2>4
    <2> QED
        BY <1>4, <2>1, <2>2, <2>4
<1> QED
    BY <1>1, <1>3, <1>4 DEF QueueInOrder

\* The first job leaves the queue, and its call is not queued any more.
LEMMA StartKeepsQueue ==
    ASSUME Types, QueueInOrder, NEW c \in Calls, queue # << >>, c = Head(queue),
           queue' = Tail(queue), NEW s, s # "queued", call' = [call EXCEPT ![c] = s]
    PROVE  queue' \in Seq(Calls) /\ QueueInOrder'
<1> USE DEF Types
<1>1. /\ queue' \in Seq(Calls) /\ Len(queue) \in Nat /\ Len(queue) > 0
      /\ Len(queue') = Len(queue) - 1
      /\ \A i \in 1 .. Len(queue') : queue'[i] = queue[i + 1]
      /\ queue[1] = c
    OBVIOUS
<1>2. ASSUME NEW d \in Calls
      PROVE  call'[d] = "queued" <=> \E i \in 1 .. Len(queue') : queue'[i] = d
    <2>1. CASE d = c
        <3>1. \A i \in 1 .. Len(queue') : queue[i + 1] # c
            BY <1>1 DEF QueueInOrder
        <3> QED
            BY <1>1, <2>1, <3>1
    <2>2. CASE d # c
        <3>1. call'[d] = "queued" <=> \E i \in 1 .. Len(queue) : queue[i] = d
            BY <2>2 DEF QueueInOrder
        <3>2. ASSUME NEW i \in 1 .. Len(queue), queue[i] = d
              PROVE  \E k \in 1 .. Len(queue') : queue'[k] = d
            <4>1. i # 1 /\ i - 1 \in 1 .. Len(queue') /\ (i - 1) + 1 = i
                BY <1>1, <2>2, <3>2
            <4> QED
                BY <1>1, <3>2, <4>1
        <3>3. ASSUME NEW k \in 1 .. Len(queue'), queue'[k] = d
              PROVE  \E i \in 1 .. Len(queue) : queue[i] = d
            <4>1. k + 1 \in 1 .. Len(queue)
                BY <1>1
            <4> QED
                BY <1>1, <3>3, <4>1
        <3> QED
            BY <3>1, <3>2, <3>3
    <2> QED
        BY <2>1, <2>2
<1>3. ASSUME NEW i \in 1 .. Len(queue'), NEW j \in 1 .. Len(queue'), queue'[i] = queue'[j]
      PROVE  i = j
    <2>1. i + 1 \in 1 .. Len(queue) /\ j + 1 \in 1 .. Len(queue)
        BY <1>1
    <2> QED
        BY <1>1, <1>3, <2>1 DEF QueueInOrder
<1> QED
    BY <1>1, <1>2, <1>3 DEF QueueInOrder

\* A call that is not in the queue does something else.
LEMMA ElsewhereKeepsQueue ==
    ASSUME Types, QueueInOrder, NEW c \in Calls, call[c] # "queued", UNCHANGED queue,
           NEW s, s # "queued", call' = [call EXCEPT ![c] = s]
    PROVE  queue' \in Seq(Calls) /\ QueueInOrder'
BY DEF Types, QueueInOrder

\* Types and the queue's order, one step per action.
LEMMA NextKeepsQueue == IInv /\ [Next]_vars => queue' \in Seq(Calls) /\ QueueInOrder'
<1> SUFFICES ASSUME IInv, [Next]_vars PROVE queue' \in Seq(Calls) /\ QueueInOrder'
    OBVIOUS
<1> USE DEF IInv, Becomes
<1>1. ASSUME NEW c \in Calls, Add(c) \/ AddAgain(c)
      PROVE  queue' \in Seq(Calls) /\ QueueInOrder'
    BY <1>1, EnqueueKeepsQueue DEF Add, AddAgain, Enqueue
<1>2. ASSUME NEW c \in Calls, Start(c) PROVE queue' \in Seq(Calls) /\ QueueInOrder'
    <2>1. \E s \in {"delayed", "running"} : call' = [call EXCEPT ![c] = s]
        BY <1>2 DEF Start
    <2> QED
        BY <1>2, <2>1, StartKeepsQueue DEF Start
<1>3. ASSUME NEW c \in Calls, Invoke(c) \/ Succeed(c)
      PROVE  queue' \in Seq(Calls) /\ QueueInOrder'
    <2>1. \E s \in {"running", "succeeded"} : call' = [call EXCEPT ![c] = s]
        BY <1>3 DEF Invoke, Succeed
    <2> QED
        BY <1>3, <2>1, ElsewhereKeepsQueue DEF Invoke, Succeed
<1>4. ASSUME NEW c \in Calls, NEW d \in RetryDelays, NEW retry \in BOOLEAN, Fail(c, d, retry)
      PROVE  queue' \in Seq(Calls) /\ QueueInOrder'
    <2>1. \/ call' = [call EXCEPT ![c] = "queued"] /\ queue' = Append(queue, c)
          \/ call' = [call EXCEPT ![c] = "failed"] /\ UNCHANGED queue
          \/ call' = [call EXCEPT ![c] = "waiting"] /\ UNCHANGED queue
        BY <1>4 DEF Fail, Enqueue
    <2>2. call[c] # "queued"
        BY <1>4 DEF Fail
    <2> QED
        BY <2>1, <2>2, EnqueueKeepsQueue, ElsewhereKeepsQueue
<1>5. CASE Pause \/ Resume \/ ResumeTimerElapses \/ Tick \/ UNCHANGED vars
    <2>1. UNCHANGED <<call, queue>>
        BY <1>5 DEF Pause, Resume, ResumeTimerElapses, Tick, vars, jobVars
    <2> QED
        BY <2>1 DEF QueueInOrder, Types
<1>6. CASE Clear
    <2>1. queue' = << >> /\ \A c \in Calls : call'[c] # "queued"
        BY <1>6 DEF Clear, Cleared
    <2> QED
        BY <2>1 DEF QueueInOrder
<1> QED
    BY <1>1, <1>2, <1>3, <1>4, <1>5, <1>6 DEF Next

----------------------------------------------------------------------------
(* The counters. *)

Count(b) == IF b THEN 1 ELSE 0

\* How many calls are active when the state of one changes.
LEMMA ActiveChanges ==
    ASSUME Types, IsFiniteSet(Active), NEW c \in Calls, NEW s,
           call' = [call EXCEPT ![c] = s]
    PROVE  /\ IsFiniteSet(Active')
           /\ Cardinality(Active) \in Nat /\ Cardinality(Active') \in Nat
           /\ Cardinality(Active') =
                Cardinality(Active) - Count(c \in Active) + Count(s \in {"delayed", "running"})
<1> USE DEF Types
<1>1. Cardinality(Active) \in Nat
    BY FS_CardinalityType
<1>2. /\ IsFiniteSet(Active \ {c}) /\ Cardinality(Active \ {c}) \in Nat
      /\ Cardinality(Active \ {c}) = Cardinality(Active) - Count(c \in Active)
    <2>1. /\ IsFiniteSet(Active \ {c})
          /\ Cardinality(Active \ {c}) =
               IF c \in Active THEN Cardinality(Active) - 1 ELSE Cardinality(Active)
        BY FS_RemoveElement
    <2>2. Cardinality(Active \ {c}) \in Nat
        BY <2>1, FS_CardinalityType
    <2> QED
        BY <1>1, <2>1, <2>2 DEF Count
<1>3. CASE s \in {"delayed", "running"}
    <2>1. Active' = (Active \ {c}) \cup {c}
        BY <1>3 DEF Active
    <2>2. IsFiniteSet(Active') /\ Cardinality(Active') = Cardinality(Active \ {c}) + 1
        BY <1>2, <2>1, FS_AddElement
    <2> QED
        BY <1>1, <1>2, <1>3, <2>2 DEF Count
<1>4. CASE s \notin {"delayed", "running"}
    <2>1. Active' = Active \ {c}
        BY <1>4 DEF Active
    <2> QED
        BY <1>1, <1>2, <1>4, <2>1 DEF Count
<1> QED
    BY <1>3, <1>4

\* How many calls are to be tried again when the state of one changes.
LEMMA RetryingChanges ==
    ASSUME Types, IsFiniteSet(Retrying), NEW c \in Calls, NEW s, NEW n,
           call' = [call EXCEPT ![c] = s], numRetries' = [numRetries EXCEPT ![c] = n]
    PROVE  /\ IsFiniteSet(Retrying')
           /\ Cardinality(Retrying) \in Nat /\ Cardinality(Retrying') \in Nat
           /\ Cardinality(Retrying') =
                Cardinality(Retrying) - Count(c \in Retrying)
                  + Count(s \in {"queued", "waiting"} /\ n > 0)
<1> USE DEF Types
<1>1. Cardinality(Retrying) \in Nat
    BY FS_CardinalityType
<1>2. /\ IsFiniteSet(Retrying \ {c}) /\ Cardinality(Retrying \ {c}) \in Nat
      /\ Cardinality(Retrying \ {c}) = Cardinality(Retrying) - Count(c \in Retrying)
    <2>1. /\ IsFiniteSet(Retrying \ {c})
          /\ Cardinality(Retrying \ {c}) =
               IF c \in Retrying THEN Cardinality(Retrying) - 1 ELSE Cardinality(Retrying)
        BY FS_RemoveElement
    <2>2. Cardinality(Retrying \ {c}) \in Nat
        BY <2>1, FS_CardinalityType
    <2> QED
        BY <1>1, <2>1, <2>2 DEF Count
<1>3. CASE s \in {"queued", "waiting"} /\ n > 0
    <2>1. Retrying' = (Retrying \ {c}) \cup {c}
        BY <1>3 DEF Retrying
    <2>2. IsFiniteSet(Retrying') /\ Cardinality(Retrying') = Cardinality(Retrying \ {c}) + 1
        BY <1>2, <2>1, FS_AddElement
    <2> QED
        BY <1>1, <1>2, <1>3, <2>2 DEF Count
<1>4. CASE ~(s \in {"queued", "waiting"} /\ n > 0)
    <2>1. Retrying' = Retrying \ {c}
        BY <1>4 DEF Retrying
    <2> QED
        BY <1>1, <1>2, <1>4, <2>1 DEF Count
<1> QED
    BY <1>3, <1>4

IsActive(s) == s \in {"delayed", "running"}
IsRetrying(s, n) == s \in {"queued", "waiting"} /\ n > 0

\* What the state of one call means for both.
LEMMA CountsChange ==
    ASSUME IInv, NEW c \in Calls, NEW s, NEW n,
           call' = [call EXCEPT ![c] = s], numRetries' = [numRetries EXCEPT ![c] = n]
    PROVE  /\ IsFiniteSet(Active') /\ IsFiniteSet(Retrying')
           /\ Cardinality(Active) \in Nat /\ Cardinality(Active') \in Nat
           /\ Cardinality(Retrying) \in Nat /\ Cardinality(Retrying') \in Nat
           /\ Cardinality(Active') =
                Cardinality(Active) - Count(IsActive(call[c])) + Count(IsActive(s))
           /\ Cardinality(Retrying') =
                Cardinality(Retrying) - Count(IsRetrying(call[c], numRetries[c]))
                  + Count(IsRetrying(s, n))
<1>1. Types /\ IsFiniteSet(Active) /\ IsFiniteSet(Retrying)
    BY DEF IInv, CountersMatch
<1>2. (c \in Active) = IsActive(call[c])
    BY DEF Active, IsActive
<1>3. (c \in Retrying) = IsRetrying(call[c], numRetries[c])
    BY DEF Retrying, IsRetrying
<1>4. /\ IsFiniteSet(Active')
      /\ Cardinality(Active) \in Nat /\ Cardinality(Active') \in Nat
      /\ Cardinality(Active') =
           Cardinality(Active) - Count(c \in Active) + Count(s \in {"delayed", "running"})
    BY <1>1, ActiveChanges
<1>5. /\ IsFiniteSet(Retrying')
      /\ Cardinality(Retrying) \in Nat /\ Cardinality(Retrying') \in Nat
      /\ Cardinality(Retrying') =
           Cardinality(Retrying) - Count(c \in Retrying)
             + Count(s \in {"queued", "waiting"} /\ n > 0)
    BY <1>1, RetryingChanges
<1> QED
    BY <1>2, <1>3, <1>4, <1>5 DEF IsActive, IsRetrying

\* What the invariant says of the counters, in facts of their own: the sets that
\* are counted, and what counts them.
LEMMA SetsKnown ==
    IInv => /\ counters \in Counters /\ queue \in Seq(Calls)
            /\ IsFiniteSet(Active) /\ IsFiniteSet(Retrying)
BY DEF IInv, Types, CountersMatch

\* All of them are numbers.
LEMMA NumbersKnown ==
    IInv => /\ counters.total \in Nat /\ counters.succeeded \in Nat /\ counters.done \in Nat
            /\ counters.failed \in Nat /\ counters.retries \in Nat
            /\ Len(queue) \in Nat /\ Cardinality(Active) \in Nat /\ Cardinality(Retrying) \in Nat
BY SetsKnown, FS_CardinalityType DEF Counters

\* What is pending and running.
LEMMA JobsKnown == IInv => counters.pending = Len(queue) /\ counters.running = Cardinality(Active)
BY DEF IInv, CountersMatch

\* What is done.
LEMMA DoneKnown == IInv => counters.done = counters.succeeded + counters.failed
BY DEF IInv, CountersMatch

\* What was added.
LEMMA TotalKnown == IInv => counters.total = Len(queue) + Cardinality(Active) + counters.done
BY DEF IInv, CountersMatch

\* What was and is to be tried again.
LEMMA RetriesKnown == IInv => counters.retries + Cardinality(Retrying) <= counters.failed
BY DEF IInv, CountersMatch

\* Counters that are what the state says match it.
LEMMA CountersKept ==
    ASSUME NEW s \in Nat, NEW f \in Nat, NEW q \in Nat, NEW e, e = s + f,
           counters' = [total |-> Len(queue') + Cardinality(Active') + e,
                        running |-> Cardinality(Active'), pending |-> Len(queue'),
                        done |-> e, succeeded |-> s, failed |-> f, retries |-> q],
           Len(queue') \in Nat,
           IsFiniteSet(Active'), Cardinality(Active') \in Nat,
           IsFiniteSet(Retrying'), q + Cardinality(Retrying') <= f
    PROVE  counters' \in Counters /\ CountersMatch'
BY DEF Counters, CountersMatch

\* recursiveAdd counts an attempt as it gives it to the queue.
LEMMA AddKeepsCounters ==
    ASSUME IInv, NEW c \in Calls, Add(c) \/ AddAgain(c)
    PROVE  counters' \in Counters /\ CountersMatch'
<1>1. /\ call[c] = "waiting" \/ (call[c] = "none" /\ numRetries[c] = 0)
      /\ call' = [call EXCEPT ![c] = "queued"]
      /\ numRetries' = [numRetries EXCEPT ![c] = numRetries[c]]
      /\ queue' = Append(queue, c) /\ counters' = WithPending(counters)
    BY DEF Add, AddAgain, Enqueue, Becomes, IInv, Types, NewCallsAreNew
<1>2. Len(queue') = Len(queue) + 1
    BY <1>1, SetsKnown, NumbersKnown
<1>3. /\ IsFiniteSet(Active') /\ Cardinality(Active') = Cardinality(Active)
      /\ IsFiniteSet(Retrying') /\ Cardinality(Retrying') = Cardinality(Retrying)
    <2>1. /\ IsFiniteSet(Active') /\ IsFiniteSet(Retrying')
          /\ Cardinality(Active') =
               Cardinality(Active) - Count(IsActive(call[c])) + Count(IsActive("queued"))
          /\ Cardinality(Retrying') =
               Cardinality(Retrying) - Count(IsRetrying(call[c], numRetries[c]))
                 + Count(IsRetrying("queued", numRetries[c]))
        BY <1>1, CountsChange
    <2>2. /\ Count(IsActive(call[c])) = 0 /\ Count(IsActive("queued")) = 0
          /\ Count(IsRetrying(call[c], numRetries[c])) = Count(IsRetrying("queued", numRetries[c]))
          /\ Count(IsRetrying("queued", numRetries[c])) \in {0, 1}
        BY <1>1 DEF Count, IsActive, IsRetrying
    <2> QED
        BY <2>1, <2>2, NumbersKnown
<1>4. counters' = [total |-> counters.total + 1, running |-> counters.running,
                   pending |-> counters.pending + 1, done |-> counters.done,
                   succeeded |-> counters.succeeded, failed |-> counters.failed,
                   retries |-> counters.retries]
    BY <1>1, SetsKnown DEF WithPending, Counters
<1>5. counters.total + 1 = Len(queue') + Cardinality(Active') + counters.done
    BY <1>2, <1>3, NumbersKnown, TotalKnown
<1> QED
    <2>1. counters' = [total |-> Len(queue') + Cardinality(Active') + counters.done,
                running |-> Cardinality(Active'), pending |-> Len(queue'),
                done |-> counters.done, succeeded |-> counters.succeeded,
                failed |-> counters.failed, retries |-> counters.retries]
        BY <1>2, <1>3, <1>4, <1>5, JobsKnown
    <2>2. counters.retries + Cardinality(Retrying') <= counters.failed
        BY <1>3, RetriesKnown
    <2>3. Len(queue') \in Nat /\ Cardinality(Active') \in Nat
        BY <1>2, <1>3, NumbersKnown
    <2> QED
        BY <1>3, <2>1, <2>2, <2>3, CountersKept, NumbersKnown, DoneKnown

\* wrapWithBookKeeping, before the task.
LEMMA StartKeepsCounters ==
    ASSUME IInv, NEW c \in Calls, Start(c)
    PROVE  counters' \in Counters /\ CountersMatch'
<1>1. PICK s \in {"delayed", "running"} : call' = [call EXCEPT ![c] = s]
    BY DEF Start, Becomes
<1>2. /\ numRetries' = [numRetries EXCEPT ![c] = numRetries[c]] /\ numRetries[c] \in Nat
      /\ queue # << >> /\ c = Head(queue) /\ queue' = Tail(queue)
      /\ counters' = [counters EXCEPT !.pending = @ - 1, !.running = @ + 1,
                                       !.retries = IF numRetries[c] > 0 THEN @ + 1 ELSE @]
    BY RateLimiterAssumption DEF Start, IInv, Types
<1>3. /\ Len(queue') \in Nat /\ Len(queue') = Len(queue) - 1
      /\ 1 \in 1 .. Len(queue) /\ queue[1] = c
    BY <1>2, SetsKnown, NumbersKnown
<1>4. call[c] = "queued"
    BY <1>3 DEF IInv, QueueInOrder
<1>5. /\ IsFiniteSet(Active') /\ Cardinality(Active') = Cardinality(Active) + 1
      /\ IsFiniteSet(Retrying') /\ Cardinality(Retrying') \in Nat
      /\ Cardinality(Retrying') = Cardinality(Retrying) - IF numRetries[c] > 0 THEN 1 ELSE 0
    <2>1. /\ IsFiniteSet(Active') /\ IsFiniteSet(Retrying') /\ Cardinality(Retrying') \in Nat
          /\ Cardinality(Active') = Cardinality(Active) - Count(IsActive(call[c])) + Count(IsActive(s))
          /\ Cardinality(Retrying') =
               Cardinality(Retrying) - Count(IsRetrying(call[c], numRetries[c]))
                 + Count(IsRetrying(s, numRetries[c]))
        BY <1>1, <1>2, CountsChange
    <2>2. /\ Count(IsActive(call[c])) = 0 /\ Count(IsActive(s)) = 1
          /\ Count(IsRetrying(call[c], numRetries[c])) = IF numRetries[c] > 0 THEN 1 ELSE 0
          /\ Count(IsRetrying(s, numRetries[c])) = 0
        BY <1>1, <1>4 DEF Count, IsActive, IsRetrying
    <2> QED
        BY <2>1, <2>2, NumbersKnown
<1> DEFINE q == IF numRetries[c] > 0 THEN counters.retries + 1 ELSE counters.retries
<1>6. counters' = [total |-> counters.total, running |-> counters.running + 1,
                   pending |-> counters.pending - 1, done |-> counters.done,
                   succeeded |-> counters.succeeded, failed |-> counters.failed,
                   retries |-> q]
    BY <1>2, SetsKnown DEF Counters
<1>7. q \in Nat /\ q + Cardinality(Retrying') <= counters.failed
    <2>1. counters.retries \in Nat /\ counters.retries + Cardinality(Retrying) <= counters.failed
        BY NumbersKnown, RetriesKnown
    <2>2. CASE numRetries[c] > 0
        <3>1. q = counters.retries + 1 /\ Cardinality(Retrying') = Cardinality(Retrying) - 1
            BY <1>5, <2>2
        <3> QED
            BY <2>1, <3>1, NumbersKnown
    <2>3. CASE ~(numRetries[c] > 0)
        <3>1. q = counters.retries /\ Cardinality(Retrying') = Cardinality(Retrying) - 0
            BY <1>5, <2>3
        <3> QED
            BY <2>1, <3>1, NumbersKnown
    <2> QED
        BY <2>2, <2>3
<1>8. counters.total = Len(queue') + Cardinality(Active') + counters.done
    <2>1. /\ Len(queue) \in Nat /\ Cardinality(Active) \in Nat /\ counters.done \in Nat
          /\ Len(queue') = Len(queue) - 1 /\ Cardinality(Active') = Cardinality(Active) + 1
        BY <1>3, <1>5, NumbersKnown
    <2> QED
        BY <2>1, TotalKnown
<1>9. /\ counters.running + 1 = Cardinality(Active')
      /\ counters.pending - 1 = Len(queue') /\ Cardinality(Active') \in Nat
    <2>1. /\ Cardinality(Active) \in Nat /\ counters.running = Cardinality(Active)
          /\ counters.pending = Len(queue)
        BY NumbersKnown, JobsKnown
    <2> QED
        BY <1>3, <1>5, <2>1
<1> HIDE DEF q
<1> QED
    BY <1>3, <1>5, <1>6, <1>7, <1>8, <1>9, CountersKept, NumbersKnown, DoneKnown

\* wrapWithBookKeeping, when the task resolves.
LEMMA SucceedKeepsCounters ==
    ASSUME IInv, NEW c \in Calls, Succeed(c)
    PROVE  counters' \in Counters /\ CountersMatch'
<1>1. /\ call[c] = "running" /\ call' = [call EXCEPT ![c] = "succeeded"]
      /\ numRetries' = [numRetries EXCEPT ![c] = numRetries[c]]
      /\ queue' = queue
      /\ counters' = [counters EXCEPT !.running = @ - 1, !.done = @ + 1, !.succeeded = @ + 1]
    BY DEF Succeed, Becomes, IInv, Types
<1>2. /\ IsFiniteSet(Active') /\ Cardinality(Active') \in Nat
      /\ Cardinality(Active') = Cardinality(Active) - 1
      /\ IsFiniteSet(Retrying') /\ Cardinality(Retrying') = Cardinality(Retrying)
    <2>1. /\ IsFiniteSet(Active') /\ IsFiniteSet(Retrying') /\ Cardinality(Active') \in Nat
          /\ Cardinality(Active') =
               Cardinality(Active) - Count(IsActive(call[c])) + Count(IsActive("succeeded"))
          /\ Cardinality(Retrying') =
               Cardinality(Retrying) - Count(IsRetrying(call[c], numRetries[c]))
                 + Count(IsRetrying("succeeded", numRetries[c]))
        BY <1>1, CountsChange
    <2>2. /\ Count(IsActive(call[c])) = 1 /\ Count(IsActive("succeeded")) = 0
          /\ Count(IsRetrying(call[c], numRetries[c])) = 0
          /\ Count(IsRetrying("succeeded", numRetries[c])) = 0
        BY <1>1 DEF Count, IsActive, IsRetrying
    <2> QED
        BY <2>1, <2>2, NumbersKnown
<1>3. counters' = [total |-> counters.total, running |-> counters.running - 1,
                   pending |-> counters.pending, done |-> counters.done + 1,
                   succeeded |-> counters.succeeded + 1, failed |-> counters.failed,
                   retries |-> counters.retries]
    BY <1>1, SetsKnown DEF Counters
<1>4. /\ counters.done + 1 = (counters.succeeded + 1) + counters.failed
      /\ counters.succeeded + 1 \in Nat
    <2>1. /\ counters.succeeded \in Nat /\ counters.failed \in Nat
          /\ counters.done = counters.succeeded + counters.failed
        BY NumbersKnown, DoneKnown
    <2> QED
        BY <2>1
<1>5. counters.total = Len(queue') + Cardinality(Active') + (counters.done + 1)
    BY <1>1, <1>2, NumbersKnown, TotalKnown
<1>6. counters.running - 1 = Cardinality(Active') /\ counters.pending = Len(queue')
    BY <1>1, <1>2, NumbersKnown, JobsKnown
<1> QED
    <2>1. counters' = [total |-> Len(queue') + Cardinality(Active') + (counters.done + 1),
                running |-> Cardinality(Active'), pending |-> Len(queue'),
                done |-> (counters.done + 1), succeeded |-> counters.succeeded + 1,
                failed |-> counters.failed, retries |-> counters.retries]
        BY <1>3, <1>5, <1>6
    <2>2. counters.retries + Cardinality(Retrying') <= counters.failed
        BY <1>2, RetriesKnown
    <2>3. Len(queue') \in Nat
        BY <1>1, NumbersKnown
    <2> QED
        BY <1>2, <1>4, <2>1, <2>2, <2>3, CountersKept, NumbersKnown

\* The call of a task that failed is over, waits, or is added again.
LEMMA FailChanges ==
    ASSUME IInv, NEW c \in Calls, NEW d \in RetryDelays, NEW retry \in BOOLEAN, Fail(c, d, retry)
    PROVE  \E s \in {"failed", "queued", "waiting"}, n \in Nat :
              /\ call' = [call EXCEPT ![c] = s]
              /\ numRetries' = [numRetries EXCEPT ![c] = n]
              /\ IF s = "queued"
                   THEN counters' = WithPending(WithFailure(counters)) /\ queue' = Append(queue, c)
                   ELSE counters' = WithFailure(counters) /\ queue' = queue
<1>0. numRetries[c] \in Nat /\ numRetries[c] + 1 \in Nat
    BY RateLimiterAssumption DEF IInv, Types
<1>1. CASE ~retry
    <2>1. /\ call' = [call EXCEPT ![c] = "failed"]
          /\ numRetries' = [numRetries EXCEPT ![c] = numRetries[c]]
          /\ counters' = WithFailure(counters) /\ queue' = queue
        BY <1>1 DEF Fail, Becomes, IInv, Types
    <2> QED
        BY <1>0, <2>1
<1>2. CASE retry /\ (options.pauseDuringRetryDelay \/ d = 0)
    <2>1. /\ call' = [call EXCEPT ![c] = "queued"]
          /\ numRetries' = [numRetries EXCEPT ![c] = numRetries[c] + 1]
          /\ counters' = WithPending(WithFailure(counters)) /\ queue' = Append(queue, c)
        BY <1>2 DEF Fail, Enqueue, Becomes
    <2> QED
        BY <1>0, <2>1
<1>3. CASE retry /\ ~(options.pauseDuringRetryDelay \/ d = 0)
    <2>1. /\ call' = [call EXCEPT ![c] = "waiting"]
          /\ numRetries' = [numRetries EXCEPT ![c] = numRetries[c] + 1]
          /\ counters' = WithFailure(counters) /\ queue' = queue
        BY <1>3 DEF Fail, Becomes
    <2> QED
        BY <1>0, <2>1
<1> QED
    BY <1>1, <1>2, <1>3

\* wrapWithBookKeeping, when the task rejects, and recursiveAdd if it is tried
\* again at once.
LEMMA FailKeepsCounters ==
    ASSUME IInv, NEW c \in Calls, NEW d \in RetryDelays, NEW retry \in BOOLEAN, Fail(c, d, retry)
    PROVE  counters' \in Counters /\ CountersMatch'
<1>1. PICK s \in {"failed", "queued", "waiting"}, n \in Nat :
          /\ call' = [call EXCEPT ![c] = s]
          /\ numRetries' = [numRetries EXCEPT ![c] = n]
          /\ IF s = "queued"
               THEN counters' = WithPending(WithFailure(counters)) /\ queue' = Append(queue, c)
               ELSE counters' = WithFailure(counters) /\ queue' = queue
    BY FailChanges
<1>2. call[c] = "running"
    BY DEF Fail
<1>3. /\ IsFiniteSet(Active') /\ Cardinality(Active') \in Nat
      /\ Cardinality(Active') = Cardinality(Active) - 1
      /\ IsFiniteSet(Retrying') /\ Cardinality(Retrying') \in Nat
      /\ Cardinality(Retrying') <= Cardinality(Retrying) + 1
    <2>1. /\ IsFiniteSet(Active') /\ Cardinality(Active') \in Nat
          /\ IsFiniteSet(Retrying') /\ Cardinality(Retrying') \in Nat
          /\ Cardinality(Active') = Cardinality(Active) - Count(IsActive(call[c])) + Count(IsActive(s))
          /\ Cardinality(Retrying') =
               Cardinality(Retrying) - Count(IsRetrying(call[c], numRetries[c]))
                 + Count(IsRetrying(s, n))
        BY <1>1, CountsChange
    <2>2. /\ Count(IsActive(call[c])) = 1 /\ Count(IsActive(s)) = 0
          /\ Count(IsRetrying(call[c], numRetries[c])) = 0
          /\ Count(IsRetrying(s, n)) \in {0, 1}
        BY <1>1, <1>2 DEF Count, IsActive, IsRetrying
    <2> QED
        BY <2>1, <2>2, NumbersKnown
<1>4. /\ counters.failed + 1 \in Nat
      /\ counters.retries + Cardinality(Retrying') <= counters.failed + 1
    <2>1. /\ counters.failed \in Nat /\ counters.retries \in Nat
          /\ Cardinality(Retrying) \in Nat /\ Cardinality(Retrying') \in Nat
          /\ Cardinality(Retrying') <= Cardinality(Retrying) + 1
          /\ counters.retries + Cardinality(Retrying) <= counters.failed
        BY <1>3, NumbersKnown, RetriesKnown
    <2> QED
        BY <2>1
<1>5. counters.done + 1 = counters.succeeded + (counters.failed + 1)
    BY NumbersKnown, DoneKnown
<1>6. counters.running - 1 = Cardinality(Active')
    BY <1>3, JobsKnown
<1>7. CASE s = "queued"
    <2>1. Len(queue') = Len(queue) + 1
        BY <1>1, <1>7, SetsKnown, NumbersKnown
    <2>2. counters' = [total |-> counters.total + 1, running |-> counters.running - 1,
                       pending |-> counters.pending + 1, done |-> counters.done + 1,
                       succeeded |-> counters.succeeded, failed |-> counters.failed + 1,
                       retries |-> counters.retries]
        BY <1>1, <1>7, SetsKnown DEF WithPending, WithFailure, Counters
    <2>3. counters.total + 1 = Len(queue') + Cardinality(Active') + (counters.done + 1)
        <3>1. /\ Len(queue) \in Nat /\ Cardinality(Active) \in Nat /\ Cardinality(Active') \in Nat
              /\ counters.done \in Nat /\ Cardinality(Active') = Cardinality(Active) - 1
            BY <1>3, NumbersKnown
        <3> QED
            BY <2>1, <3>1, TotalKnown
    <2> QED
        <3>1. counters' = [total |-> Len(queue') + Cardinality(Active') + (counters.done + 1),
                    running |-> Cardinality(Active'), pending |-> Len(queue'),
                    done |-> (counters.done + 1), succeeded |-> counters.succeeded,
                    failed |-> counters.failed + 1, retries |-> counters.retries]
            BY <1>6, <2>1, <2>2, <2>3, JobsKnown
        <3>2. Len(queue') \in Nat
            BY <2>1, NumbersKnown
        <3> QED
            BY <1>3, <1>4, <1>5, <3>1, <3>2, CountersKept, NumbersKnown
<1>8. CASE s # "queued"
    <2>1. Len(queue') = Len(queue)
        BY <1>1, <1>8, SetsKnown, NumbersKnown
    <2>2. counters' = [total |-> counters.total, running |-> counters.running - 1,
                       pending |-> counters.pending, done |-> counters.done + 1,
                       succeeded |-> counters.succeeded, failed |-> counters.failed + 1,
                       retries |-> counters.retries]
        BY <1>1, <1>8, SetsKnown DEF WithFailure, Counters
    <2>3. counters.total = Len(queue') + Cardinality(Active') + (counters.done + 1)
        BY <1>3, <2>1, NumbersKnown, TotalKnown
    <2> QED
        <3>1. counters' = [total |-> Len(queue') + Cardinality(Active') + (counters.done + 1),
                    running |-> Cardinality(Active'), pending |-> Len(queue'),
                    done |-> (counters.done + 1), succeeded |-> counters.succeeded,
                    failed |-> counters.failed + 1, retries |-> counters.retries]
            BY <1>6, <2>1, <2>2, <2>3, JobsKnown
        <3>2. Len(queue') \in Nat
            BY <2>1, NumbersKnown
        <3> QED
            BY <1>3, <1>4, <1>5, <3>1, <3>2, CountersKept, NumbersKnown
<1> QED
    BY <1>7, <1>8

\* clear: calls that were to be tried again are cleared, too.
LEMMA ClearKeepsCounters ==
    ASSUME IInv, Clear
    PROVE  counters' \in Counters /\ CountersMatch'
<1>1. /\ queue' = << >> /\ counters' = WithoutPending(counters)
      /\ \A c \in Calls : call'[c] = IF call[c] = "queued" THEN "cleared" ELSE call[c]
      /\ UNCHANGED numRetries
    BY DEF Clear, Cleared
<1>2. Active' = Active /\ Retrying' \in SUBSET Retrying
    BY <1>1 DEF Active, Retrying
<1>3. IsFiniteSet(Retrying') /\ Cardinality(Retrying') <= Cardinality(Retrying)
    BY <1>2, FS_Subset, SetsKnown
<1>4. Cardinality(Retrying') \in Nat
    BY <1>3, FS_CardinalityType
<1>5. Len(queue') = 0
    BY <1>1
<1>6. counters' = [total |-> counters.total - counters.pending, running |-> counters.running,
                   pending |-> 0, done |-> counters.done,
                   succeeded |-> counters.succeeded, failed |-> counters.failed,
                   retries |-> counters.retries]
    BY <1>1, SetsKnown DEF WithoutPending, Counters
<1>7. counters.retries + Cardinality(Retrying') <= counters.failed
    BY <1>3, <1>4, NumbersKnown, RetriesKnown
<1>8. counters.total - counters.pending = Len(queue') + Cardinality(Active') + counters.done
    <2>1. /\ counters.total = Len(queue) + Cardinality(Active) + counters.done
          /\ counters.pending = Len(queue)
          /\ Len(queue) \in Nat /\ Cardinality(Active) \in Nat /\ counters.done \in Nat
        BY NumbersKnown, JobsKnown, TotalKnown
    <2>2. counters.total - counters.pending = Cardinality(Active) + counters.done
        BY <2>1
    <2>3. Cardinality(Active) + counters.done = 0 + Cardinality(Active) + counters.done
        BY <2>1
    <2> QED
        BY <1>2, <1>5, <2>2, <2>3
<1>9. counters' = [total |-> Len(queue') + Cardinality(Active') + counters.done,
                   running |-> Cardinality(Active'), pending |-> Len(queue'),
                   done |-> counters.done, succeeded |-> counters.succeeded,
                   failed |-> counters.failed, retries |-> counters.retries]
    BY <1>2, <1>5, <1>6, <1>8, JobsKnown
<1>10. Len(queue') \in Nat /\ Cardinality(Active') \in Nat /\ IsFiniteSet(Active')
    BY <1>2, <1>5, SetsKnown, NumbersKnown
<1> QED
    BY <1>3, <1>7, <1>9, <1>10, CountersKept, NumbersKnown, DoneKnown

\* The counters, one step per action.
LEMMA NextKeepsCounters == IInv /\ [Next]_vars => counters' \in Counters /\ CountersMatch'
<1> SUFFICES ASSUME IInv, [Next]_vars PROVE counters' \in Counters /\ CountersMatch'
    OBVIOUS
<1>1. ASSUME NEW c \in Calls, Invoke(c) PROVE counters' \in Counters /\ CountersMatch'
    <2>1. /\ call[c] = "delayed" /\ call' = [call EXCEPT ![c] = "running"]
          /\ UNCHANGED <<numRetries, queue, counters>>
        BY <1>1 DEF Invoke, Becomes
    <2>2. Active' = Active /\ Retrying' = Retrying
        BY <2>1 DEF IInv, Types, Active, Retrying
    <2> QED
        BY <2>1, <2>2 DEF IInv, Types, CountersMatch
<1>2. CASE Pause \/ Resume \/ ResumeTimerElapses \/ Tick \/ UNCHANGED vars
    <2>1. UNCHANGED jobVars
        BY <1>2 DEF Pause, Resume, ResumeTimerElapses, Tick, vars
    <2> QED
        BY <2>1 DEF jobVars, IInv, Types, CountersMatch, Active, Retrying
<1> QED
    BY <1>1, <1>2, AddKeepsCounters, StartKeepsCounters, SucceedKeepsCounters,
       FailKeepsCounters, ClearKeepsCounters DEF Next

----------------------------------------------------------------------------
(* The invariant. *)

\* The state of one call changes.
LEMMA CallKeepsTypes ==
    ASSUME Types, NewCallsAreNew, NEW c \in Calls,
           NEW s \in CallStates \ {"none"}, call' = [call EXCEPT ![c] = s],
           \A b \in Calls \ {c} : numRetries'[b] = numRetries[b]
    PROVE  call' \in [Calls -> CallStates] /\ NewCallsAreNew'
BY DEF Types, NewCallsAreNew

\* What is left of the types, one step per action.
LEMMA NextKeepsTypes == IInv /\ [Next]_vars => Types' /\ NewCallsAreNew'
<1> SUFFICES ASSUME IInv, [Next]_vars PROVE Types' /\ NewCallsAreNew'
    OBVIOUS
<1>1. /\ queue' \in Seq(Calls) /\ counters' \in Counters
      /\ Types /\ NewCallsAreNew
    BY NextKeepsQueue, NextKeepsCounters DEF IInv
<1> USE <1>1, RateLimiterAssumption
<1>2. ASSUME NEW c \in Calls, Add(c) \/ AddAgain(c) PROVE Types' /\ NewCallsAreNew'
    <2>1. /\ call' = [call EXCEPT ![c] = "queued"]
          /\ UNCHANGED <<options, numRetries, paused, resumeTimer, timeVars, pauses>>
        BY <1>2 DEF Add, AddAgain, Enqueue, Becomes
    <2>2. call' \in [Calls -> CallStates] /\ NewCallsAreNew'
        BY <2>1, CallKeepsTypes DEF CallStates
    <2> QED
        BY <2>1, <2>2 DEF Types, timeVars
<1>3. ASSUME NEW c \in Calls, Start(c) PROVE Types' /\ NewCallsAreNew'
    <2>1. PICK s \in {"delayed", "running"} : call' = [call EXCEPT ![c] = s]
        BY <1>3 DEF Start, Becomes
    <2>2. UNCHANGED <<options, numRetries, paused, resumeTimer, pauses>>
        BY <1>3 DEF Start
    <2>3. call' \in [Calls -> CallStates] /\ NewCallsAreNew'
        BY <2>1, <2>2, CallKeepsTypes DEF CallStates
    <2>4. CASE DelayMS > 0
        <3>1. /\ wakeIn' = [wakeIn EXCEPT ![c] = delay] /\ delay' = delay + DelayMS
              /\ UNCHANGED sinceInvoked
            BY <1>3, <2>4 DEF Start, DelayAfter
        <3> QED
            BY <2>2, <2>3, <3>1 DEF Types
    <2>5. CASE ~(DelayMS > 0)
        BY <1>3, <2>2, <2>3, <2>5 DEF Start, timeVars, Types
    <2> QED
        BY <2>4, <2>5
<1>4. ASSUME NEW c \in Calls, Invoke(c) \/ Succeed(c) PROVE Types' /\ NewCallsAreNew'
    <2>1. PICK s \in {"running", "succeeded"} : call' = [call EXCEPT ![c] = s]
        BY <1>4 DEF Invoke, Succeed, Becomes
    <2>2. UNCHANGED <<options, numRetries, paused, resumeTimer, wakeIn, delay, pauses>>
        BY <1>4 DEF Invoke, Succeed, timeVars
    <2>3. sinceInvoked' \in {0, sinceInvoked}
        BY <1>4 DEF Invoke, Succeed, timeVars
    <2>4. call' \in [Calls -> CallStates] /\ NewCallsAreNew'
        BY <2>1, <2>2, CallKeepsTypes DEF CallStates
    <2> QED
        BY <2>2, <2>3, <2>4 DEF Types
<1>5. ASSUME NEW c \in Calls, NEW d \in RetryDelays, NEW retry \in BOOLEAN, Fail(c, d, retry)
      PROVE  Types' /\ NewCallsAreNew'
    <2>1. d \in Nat
        OBVIOUS
    <2>2. paused' \in BOOLEAN /\ resumeTimer' \in Nat \cup {NoTimer}
        BY <1>5, <2>1 DEF Fail, PauseFor, Types
    <2>3. PICK s \in {"failed", "queued", "waiting"} : call' = [call EXCEPT ![c] = s]
        BY <1>5 DEF Fail, Enqueue, Becomes
    <2>4. /\ numRetries' \in [Calls -> 0 .. MaxRetries]
          /\ \A b \in Calls \ {c} : numRetries'[b] = numRetries[b]
        <3>1. CASE retry
            <4>1. numRetries' = [numRetries EXCEPT ![c] = @ + 1] /\ numRetries[c] < MaxRetries
                BY <1>5, <3>1 DEF Fail
            <4> QED
                BY <4>1 DEF Types
        <3>2. CASE ~retry
            BY <1>5, <3>2 DEF Fail, Types
        <3> QED
            BY <3>1, <3>2
    <2>5. wakeIn' \in [Calls -> Nat]
        BY <1>5, <2>1 DEF Fail, Types
    <2>6. UNCHANGED <<options, delay, sinceInvoked, pauses>>
        BY <1>5 DEF Fail
    <2>7. call' \in [Calls -> CallStates] /\ NewCallsAreNew'
        BY <2>3, <2>4, CallKeepsTypes DEF CallStates
    <2> QED
        BY <2>2, <2>4, <2>5, <2>6, <2>7 DEF Types
<1>6. CASE Pause
    <2>1. paused' = TRUE /\ resumeTimer' \in PauseTimes \cup {resumeTimer}
        BY <1>6 DEF Pause, PauseFor
    <2>2. pauses' \in 0 .. MaxPauses
        BY <1>6 DEF Pause, Types
    <2>3. UNCHANGED <<options, jobVars, timeVars>>
        BY <1>6 DEF Pause
    <2> QED
        BY <2>1, <2>2, <2>3 DEF Types, NewCallsAreNew, jobVars, timeVars
<1>7. CASE Resume \/ ResumeTimerElapses \/ UNCHANGED vars
    BY <1>7 DEF Resume, ResumeTimerElapses, vars, jobVars, timeVars, Types, NewCallsAreNew
<1>8. CASE Clear
    BY <1>8 DEF Clear, Cleared, timeVars, Types, NewCallsAreNew, CallStates
<1>9. CASE Tick
    <2>1. wakeIn' \in [Calls -> Nat] /\ delay' \in Nat
        BY <1>9 DEF Tick, Less, LessEach, Types
    <2>2. sinceInvoked' \in 0 .. DelayMS
        BY <1>9 DEF Tick, Types
    <2>3. resumeTimer' \in Nat \cup {NoTimer}
        BY <1>9 DEF Tick, Types
    <2>4. UNCHANGED <<options, jobVars, paused, pauses>>
        BY <1>9 DEF Tick
    <2> QED
        BY <2>1, <2>2, <2>3, <2>4 DEF Types, NewCallsAreNew, jobVars
<1> QED
    BY <1>2, <1>3, <1>4, <1>5, <1>6, <1>7, <1>8, <1>9 DEF Next

\* A limiter that was just created.
LEMMA InitEstablishesIInv == Init => IInv
<1> SUFFICES ASSUME Init PROVE IInv
    OBVIOUS
<1>1. Types /\ NewCallsAreNew
    BY RateLimiterAssumption
    DEF Init, Types, Options, CallStates, Counters, NewCallsAreNew
<1>2. QueueInOrder
    BY DEF Init, QueueInOrder
<1>3. CountersMatch
    <2>1. Active = {} /\ Retrying = {}
        BY DEF Init, Active, Retrying
    <2> QED
        BY <2>1, FS_EmptySet DEF Init, CountersMatch
<1>4. DelaysAreSpaced
    BY RateLimiterAssumption DEF Init, DelaysAreSpaced, InvocationsAreSpaced
<1> QED
    BY <1>1, <1>2, <1>3, <1>4 DEF IInv

\* The invariant, of every behaviour of the limiter.
LEMMA Invariance == Spec => []IInv
<1>1. IInv /\ [Next]_vars => IInv'
    BY NextKeepsTypes, NextKeepsQueue, NextKeepsCounters, NextKeepsSpacing DEF IInv
<1> QED
    BY <1>1, InitEstablishesIInv, PTL DEF Spec

\* The types of the limiter's state are kept, and the queue holds exactly the
\* calls whose promises wait for it: none is lost.
THEOREM LimiterTypes == Spec => []TypeOK
<1>1. IInv => TypeOK
    BY DEF IInv, Types, QueueInOrder, TypeOK
<1> QED
    BY <1>1, Invariance, PTL

\* However calls are retried, paused and cleared, the counters tell how many
\* wait, run and are done.
THEOREM CountersTellTheTruth == Spec => []CountersAddUp
<1>1. ASSUME IInv PROVE CountersAddUp
    <2>1. Cardinality(Retrying) \in Nat
        BY <1>1, FS_CardinalityType DEF IInv, CountersMatch
    <2>2. /\ counters.total \in Nat /\ counters.running \in Nat /\ counters.pending \in Nat
          /\ counters.done \in Nat /\ counters.succeeded \in Nat
          /\ counters.failed \in Nat /\ counters.retries \in Nat
        BY <1>1 DEF IInv, Types, Counters
    <2> QED
        BY <1>1, <2>1, <2>2 DEF IInv, CountersMatch, CountersAddUp
<1> QED
    BY <1>1, Invariance, PTL

\* Tasks are invoked at least the configured delay apart, for any number of
\* calls and any delay.
THEOREM DelaysAreKept == Spec => []InvocationsAreSpaced
<1>1. IInv => InvocationsAreSpaced
    BY DEF IInv, DelaysAreSpaced
<1> QED
    BY <1>1, Invariance, PTL

============================================================================
