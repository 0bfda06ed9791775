---------------------------- MODULE MemoryQueue ----------------------------
(***************************************************************************)
(* The in-memory email queue, createMemoryQueue of                         *)
(* src/src/queue/memory-queue.ts: a map of jobs, a list of pending ids, an *)
(* isProcessing flag that keeps processing sequential, one setTimeout per  *)
(* scheduled job and per retry, and the asynchronous processJob.           *)
(*                                                                         *)
(* JavaScript runs one callback at a time, so an action is what one        *)
(* callback does between two awaits: a call of the queue's interface, a    *)
(* timer, or the continuation of processJob once the provider has          *)
(* answered.  The two awaits of processJob (the rate limiter's acquire and *)
(* provider.send) touch no state of the queue and count as one.            *)
(***************************************************************************)
EXTENDS Integers, Sequences, FiniteSets

CONSTANTS
    N,          \* how many jobs are ever added (a bound of the model)
    MaxRetries, \* config.maxRetries
    MaxStarts   \* how often start() is called (a bound of the model)

ASSUME ConstantsAssumption ==
    N \in Nat /\ MaxRetries \in Nat /\ MaxStarts \in Nat

Jobs == 1..N    \* randomUUID() numbers, here in the order of the add() calls

Statuses == {"pending", "processing", "completed", "failed", "retrying"}

VARIABLES
    created,      \* the ids handed out so far are 1..created
    jobs,         \* the keys of the jobs map, iterated in the order of insertion
    status,       \* job.status; outlives the map's entry, processJob holds the job
    attempts,     \* job.attempts
    scheduledFor, \* job.scheduledFor: absent, in the future, or past
    pending,      \* the pending ids; may hold duplicates and ids of deleted jobs
    isRunning, isPaused, isProcessing,
    active,       \* the jobs whose processJob is suspended at an await
    schedTimers,  \* outstanding setTimeouts of scheduleForLater, per job
    retryTimers,  \* outstanding setTimeouts of the retry branch, per job
    stopWait,     \* a stop() is in its waiting loop
    destroyWait,  \* a destroy() is in its waiting loop
    limiterUp,    \* the local rate limiter has not been destroyed
    delivered,    \* history: how many sends of the job the provider accepted
    starts        \* history: how many start() calls there were

control == <<isRunning, isPaused>>
waits   == <<stopWait, destroyWait, limiterUp>>
book    == <<created, jobs, scheduledFor>>
work    == <<status, attempts, pending, isProcessing, active, schedTimers>>
vars    == <<control, waits, book, work, retryTimers, delivered, starts>>

Elements(q) == {q[i] : i \in DOMAIN q}

(***************************************************************************)
(* processNext and the synchronous part of processJob.  The caller has     *)
(* fixed isRunning', isPaused', jobs' and scheduledFor'; the parameters    *)
(* are what it made of isProcessing, active, pending, status and           *)
(* schedTimers before the call.                                            *)
(***************************************************************************)
DueAnyway(j) == TRUE    \* flawed: the date is not looked at again

Due(j) == scheduledFor'[j] # "future"

CanProcessBusyOrNot(busy) == isRunning' /\ ~isPaused'    \* flawed

CanProcess(busy) == isRunning' /\ ~isPaused' /\ ~busy

\* No attempt begins.
Leave(busy, act, q, st, tm) ==
    /\ isProcessing' = busy
    /\ active' = act
    /\ pending' = q
    /\ status' = st
    /\ schedTimers' = tm
    /\ UNCHANGED attempts

\* processJob(j) up to its first await.
Attempt(j, act, q, st, tm) ==
    /\ isProcessing' = TRUE
    /\ active' = act \cup {j}
    /\ pending' = q
    /\ status' = [st EXCEPT ![j] = "processing"]
    /\ schedTimers' = tm
    /\ attempts' = [attempts EXCEPT ![j] = @ + 1]

SkippedNever(j, st) == FALSE    \* flawed

\* processJob returns early on such a job and calls processNext again.
Skipped(j, st) == j \in jobs' /\ Due(j) /\ st[j] = "completed"

\* What becomes of the first id that is not skipped; q is the list behind it.
Dispatch(j, act, q, st, tm) ==
    \/ j \notin jobs' /\ Leave(FALSE, act, q, st, tm)
    \/ /\ j \in jobs' /\ ~Due(j)
       /\ Leave(FALSE, act, q, st, [tm EXCEPT ![j] = @ + 1])
    \/ /\ j \in jobs' /\ Due(j) /\ ~Skipped(j, st)
       /\ Attempt(j, act, q, st, tm)

ProcessNext(busy, act, q, st, tm) ==
    \/ ~CanProcess(busy) /\ Leave(busy, act, q, st, tm)
    \/ /\ CanProcess(busy)
       /\ \E n \in 0..Len(q) :
            /\ \A i \in 1..n : Skipped(q[i], st)
            /\ \/ n = Len(q) /\ Leave(FALSE, act, <<>>, st, tm)
               \/ /\ n < Len(q)
                  /\ Dispatch(q[n + 1], act, SubSeq(q, n + 2, Len(q)), st, tm)

EnqueueInFront(j) == <<j>> \o pending    \* flawed

Enqueue(j) == Append(pending, j)    \* pending.push

-----------------------------------------------------------------------------
(***************************************************************************)
(* The interface.                                                          *)
(***************************************************************************)
StaleId == created    \* flawed

NewId == created + 1

\* add(message, {scheduledFor}); addBatch is a loop of awaited add() calls.
Add(when) ==
    /\ created < N
    /\ created' = NewId
    /\ jobs' = jobs \cup {NewId}
    /\ scheduledFor' = [scheduledFor EXCEPT ![NewId] = when]
    /\ UNCHANGED <<control, waits, retryTimers, delivered, starts>>
    /\ ProcessNext(isProcessing, active, Enqueue(NewId), status, schedTimers)

Interrupted == {j \in jobs : status[j] \in {"retrying", "processing"}}

\* r lists S in the order of insertion.
InInsertionOrder(r, S) ==
    /\ Elements(r) = S
    /\ \A i, k \in DOMAIN r : i < k => r[i] < r[k]

Start ==
    /\ starts < MaxStarts
    /\ starts' = starts + 1
    /\ isRunning' = TRUE
    /\ isPaused' = FALSE
    /\ UNCHANGED <<waits, book, retryTimers, delivered>>
    /\ LET missing == Interrupted \ Elements(pending)
           reset   == [j \in Jobs |-> IF j \in Interrupted THEN "pending" ELSE status[j]]
       IN  \E r \in [1..Cardinality(missing) -> missing] :
             /\ InInsertionOrder(r, missing)
             /\ ProcessNext(isProcessing, active, pending \o r, reset, schedTimers)

\* stop() returns at once unless an attempt is in progress.
Stop ==
    /\ isRunning' = FALSE
    /\ stopWait' = (stopWait \/ isProcessing)
    /\ UNCHANGED <<isPaused, destroyWait, limiterUp, book, work, retryTimers, delivered, starts>>

\* A poll of stop()'s loop that finds the flag down.
StopResolves ==
    /\ stopWait /\ ~isProcessing
    /\ stopWait' = FALSE
    /\ UNCHANGED <<control, destroyWait, limiterUp, book, work, retryTimers, delivered, starts>>

Pause ==
    /\ isPaused' = TRUE
    /\ UNCHANGED <<isRunning, waits, book, work, retryTimers, delivered, starts>>

Resume ==
    /\ isPaused' = FALSE
    /\ UNCHANGED <<isRunning, waits, book, retryTimers, delivered, starts>>
    /\ ProcessNext(isProcessing, active, pending, status, schedTimers)

KeptAll == jobs    \* flawed: only the list is emptied

Kept == {j \in jobs : status[j] # "pending"}

\* clear() empties the list, and deletes only the jobs whose status is 'pending'.
Clear ==
    /\ pending' = <<>>
    /\ jobs' = Kept
    /\ UNCHANGED <<control, waits, created, scheduledFor, status, attempts, isProcessing,
                   active, schedTimers, retryTimers, delivered, starts>>

\* Flawed: destroy() does not wait.
WipeAtOnce ==
    /\ jobs' = {}
    /\ pending' = <<>>
    /\ limiterUp' = FALSE

\* The end of destroy(), once its loop has found the flag down.
Wipe ==
    /\ ~isProcessing
    /\ jobs' = {}
    /\ pending' = <<>>
    /\ limiterUp' = FALSE

\* Calls of destroy() that wait at the same time are taken together.
Destroy ==
    /\ isRunning' = FALSE
    /\ \/ /\ isProcessing
          /\ destroyWait' = TRUE
          /\ UNCHANGED <<jobs, pending, limiterUp>>
       \/ Wipe /\ UNCHANGED destroyWait
    /\ UNCHANGED <<isPaused, stopWait, created, scheduledFor, status, attempts, isProcessing,
                   active, schedTimers, retryTimers, delivered, starts>>

DestroyResolves ==
    /\ destroyWait
    /\ destroyWait' = FALSE
    /\ Wipe
    /\ UNCHANGED <<control, stopWait, created, scheduledFor, status, attempts, isProcessing,
                   active, schedTimers, retryTimers, delivered, starts>>

-----------------------------------------------------------------------------
(***************************************************************************)
(* The clock, the timers and the provider's answers.                       *)
(***************************************************************************)
TimePasses(j) ==
    /\ scheduledFor[j] = "future"
    /\ scheduledFor' = [scheduledFor EXCEPT ![j] = "past"]
    /\ UNCHANGED <<control, waits, created, jobs, work, retryTimers, delivered, starts>>

\* Not guarded by the time: setTimeout rings at once on a delay above 2^31 - 1 ms,
\* and processNext looks at the date again.
SchedTimerFires(j) ==
    /\ schedTimers[j] > 0
    /\ UNCHANGED <<control, waits, book, retryTimers, delivered, starts>>
    /\ ProcessNext(isProcessing, active, Enqueue(j), status,
                   [schedTimers EXCEPT ![j] = @ - 1])

RetryTimerFires(j) ==
    /\ retryTimers[j] > 0
    /\ retryTimers' = [retryTimers EXCEPT ![j] = @ - 1]
    /\ UNCHANGED <<control, waits, book, delivered, starts>>
    /\ \/ /\ isRunning /\ ~isPaused
          /\ ProcessNext(isProcessing, active, Enqueue(j), status, schedTimers)
       \/ ~(isRunning /\ ~isPaused) /\ UNCHANGED work

\* Flawed: without processNext(), without the reset of isProcessing.
FinallyWithoutNext(j, st) == Leave(FALSE, active \ {j}, pending, st, schedTimers)
FinallyWithoutReset(j, st) == Leave(TRUE, active \ {j}, pending, st, schedTimers)

\* The finally block of processJob(j).
Finally(j, st) == ProcessNext(FALSE, active \ {j}, pending, st, schedTimers)

SendSucceeds(j) ==
    /\ j \in active
    /\ limiterUp
    /\ delivered' = [delivered EXCEPT ![j] = @ + 1]
    /\ UNCHANGED <<control, waits, book, retryTimers, starts>>
    /\ Finally(j, [status EXCEPT ![j] = "completed"])

MayRetryOnceMore(j) == attempts[j] <= MaxRetries    \* flawed

MayRetry(j) == attempts[j] < MaxRetries

\* The limiter rejected, provider.send threw, or it answered with success: false.
SendFails(j) ==
    /\ j \in active
    /\ UNCHANGED <<control, waits, book, delivered, starts>>
    /\ \/ /\ MayRetry(j)
          /\ retryTimers' = [retryTimers EXCEPT ![j] = @ + 1]
          /\ Finally(j, [status EXCEPT ![j] = "retrying"])
       \/ /\ ~MayRetry(j)
          /\ UNCHANGED retryTimers
          /\ Finally(j, [status EXCEPT ![j] = "failed"])

-----------------------------------------------------------------------------
Init ==
    /\ created = 0
    /\ jobs = {}
    /\ status = [j \in Jobs |-> "pending"]
    /\ attempts = [j \in Jobs |-> 0]
    /\ scheduledFor = [j \in Jobs |-> "none"]
    /\ pending = <<>>
    /\ isRunning = FALSE /\ isPaused = FALSE /\ isProcessing = FALSE
    /\ active = {}
    /\ schedTimers = [j \in Jobs |-> 0]
    /\ retryTimers = [j \in Jobs |-> 0]
    /\ stopWait = FALSE /\ destroyWait = FALSE /\ limiterUp = TRUE
    /\ delivered = [j \in Jobs |-> 0]
    /\ starts = 0

\* What the runtime does whether or not anyone calls the queue.
Progress ==
    \/ StopResolves
    \/ DestroyResolves
    \/ \E j \in Jobs : \/ TimePasses(j)
                       \/ SchedTimerFires(j)
                       \/ RetryTimerFires(j)
                       \/ SendSucceeds(j)
                       \/ SendFails(j)

\* The calls of a caller that only adds jobs, starts and stops the queue.
AddStartStop ==
    \/ \E when \in {"none", "future"} : Add(when)
    \/ Start
    \/ Stop

Next ==
    \/ Progress
    \/ AddStartStop
    \/ Pause
    \/ Resume
    \/ Clear
    \/ Destroy

Spec == Init /\ [][Next]_vars

-----------------------------------------------------------------------------
(***************************************************************************)
(* What the queue guarantees.                                              *)
(***************************************************************************)
\* The types of the variables.
TypeOK ==
    /\ created \in 0..N
    /\ jobs \in SUBSET Jobs
    /\ status \in [Jobs -> Statuses]
    /\ attempts \in [Jobs -> Nat]
    /\ scheduledFor \in [Jobs -> {"none", "future", "past"}]
    /\ pending \in Seq(Jobs)
    /\ isRunning \in BOOLEAN /\ isPaused \in BOOLEAN /\ isProcessing \in BOOLEAN
    /\ active \in SUBSET Jobs
    /\ schedTimers \in [Jobs -> Nat]
    /\ retryTimers \in [Jobs -> Nat]
    /\ stopWait \in BOOLEAN /\ destroyWait \in BOOLEAN /\ limiterUp \in BOOLEAN
    /\ delivered \in [Jobs -> Nat]
    /\ starts \in Nat

\* "Sequential, one at a time": isProcessing is up exactly while one processJob
\* is suspended, whatever calls and timers run between its awaits.  stop() and
\* destroy() rely on the flag to wait for the attempt in progress.
OneAtATime ==
    /\ isProcessing <=> active # {}
    /\ \A j, k \in active : j = k

\* A message the provider accepted is never sent again, although start() puts
\* the job in flight back into the list and a retry timer may be outstanding
\* for it; and 'completed' is never claimed of a message it did not accept.
DeliveredOnce ==
    \A j \in Jobs : delivered[j] = IF status[j] = "completed" THEN 1 ELSE 0

\* No attempt is in progress for a job whose scheduled time is still to come,
\* even when its timer rings early.
NeverEarly == \A j \in active : scheduledFor[j] # "future"

\* A job of the map that is waiting can be reached: it is in the list or has a
\* timer that will put it there.  A job said to be in progress is in progress.
NoStrandedJob ==
    \A j \in jobs :
        /\ status[j] = "pending" =>
             j \in Elements(pending) \/ schedTimers[j] > 0 \/ j \in active
        /\ status[j] = "processing" => j \in active

\* Each start() after the first may buy a job one attempt over maxRetries (it
\* re-queues a job that is in flight or backing off), and nothing else does.
RetryBudget ==
    \A j \in Jobs :
        attempts[j] <= (IF MaxRetries = 0 THEN 1 ELSE MaxRetries)
                        + (IF starts = 0 THEN 0 ELSE starts - 1)

\* First attempts of unscheduled jobs begin in the order of the add() calls:
\* retries, timers and restarts never let a later job overtake an earlier one.
Fresh(j) == j \in jobs /\ scheduledFor[j] = "none" /\ attempts[j] = 0
FirstAttemptsInOrder ==
    [][\A j \in Jobs : attempts'[j] > 0 /\ Fresh(j) =>
                       \A k \in 1..(j - 1) : Fresh(k) => attempts'[k] > 0]_vars

\* destroy() never takes the rate limiter away from an attempt in progress.
DestroyCutsNothingOff == [][limiterUp /\ ~limiterUp' => active = {}]_vars

-----------------------------------------------------------------------------
(***************************************************************************)
(* The queue as its callers see it.                                        *)
(***************************************************************************)
Life(j) ==
    CASE j > created -> "new"
      [] j \in active -> "sending"
      [] j <= created /\ j \notin jobs /\ j \notin active -> "gone"
      [] j \in jobs /\ j \notin active /\ status[j] = "completed" -> "sent"
      [] j \in jobs /\ j \notin active /\ status[j] = "failed" -> "failed"
      [] OTHER -> "waiting"

Promise == INSTANCE EmailQueue WITH
    life <- [j \in Jobs |-> Life(j)],
    due <- [j \in Jobs |-> scheduledFor[j] # "future"],
    taking <- isRunning /\ ~isPaused,
    Final <- {"sent"},
    MayCrash <- FALSE

\* The list, the flag and the timers together do what types/queue.ts lets an
\* EmailQueue do: one message on its way at a time, begun only while the queue takes
\* up work and when it is due, and a job that was sent is never taken up again.
KeepsPromise == Promise!Spec

-----------------------------------------------------------------------------
(***************************************************************************)
(* What comments and tests of the repository say, which the code does not  *)
(* keep (the runs that refute them are named in the README).               *)
(***************************************************************************)
\* types/queue.ts on the retrying count, "Jobs waiting for retry": in a queue
\* that runs, such a job has its timer or is in the list.
RetryingMeansWaitingForRetry ==
    isRunning /\ ~isPaused =>
        \A j \in jobs : status[j] = "retrying" =>
                            retryTimers[j] > 0 \/ j \in Elements(pending)

\* "should process pending jobs when started": a running queue with nothing in
\* progress has no job in its list that could be sent now.
IdleOnlyWhenNothingIsReady ==
    isRunning /\ ~isPaused /\ ~isProcessing =>
        \A j \in Elements(pending) \cap jobs : scheduledFor[j] = "future"
=============================================================================
