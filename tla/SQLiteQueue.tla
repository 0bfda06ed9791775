---------------------------- MODULE SQLiteQueue ----------------------------
(***************************************************************************)
(* The persistent email queue, createSQLiteQueue of                        *)
(* src/src/queue/sqlite-queue.ts: one process that keeps its jobs in a     *)
(* table, the retry timers it holds in memory, its shutdown, and the       *)
(* crashes and restarts the table survives.                                *)
(*                                                                         *)
(* A job is a row.  Statements of node:sqlite are synchronous, so a        *)
(* callback and all its statements are one action.  An attempt has three   *)
(* moments: it begins, the provider accepts or refuses the message, and    *)
(* processJob hears of it; the process may die between any two.            *)
(***************************************************************************)
EXTENDS Integers, FiniteSets

CONSTANTS
    N,          \* how many rows are ever inserted (a bound of the model)
    MaxRetries, \* config.maxRetries, stored in each row
    MaxStarts,  \* how often start() is called (a bound of the model)
    MaxBoots    \* how often the process is restarted (a bound of the model)

ASSUME ConstantsAssumption ==
    N \in Nat /\ MaxRetries \in Nat /\ MaxStarts \in Nat /\ MaxBoots \in Nat

Jobs == 1..N    \* rows, in the order of their insertion

Statuses == {"absent", "pending", "processing", "completed", "failed", "retrying"}

VARIABLES
    \* the database file
    created,      \* the rows inserted so far are 1..created
    status,       \* the status column, "absent" without a row
    attempts,     \* the attempts column
    scheduledFor, \* the scheduled_for column: NULL, in the future, or past
    createdAt,    \* the created_at column; several rows may have the same
    \* the process
    up,           \* it is alive and has opened the queue
    dbOpen,       \* gracefulShutdown has not closed the database
    isRunning, isPaused, isProcessing,
    flight,       \* per job, what became of the attempt processJob waits for
    retryTimers,  \* outstanding setTimeouts of handleJobRetry, per job
    stopWait, shutWait, destroyWait,    \* calls in their waiting loops
    \* history
    delivered,    \* how many sends of the job the provider accepted
    starts, boots   \* how many start() calls, how many restarts

table   == <<created, status, attempts, scheduledFor, createdAt>>
control == <<isRunning, isPaused>>
waits   == <<stopWait, shutWait, destroyWait>>
process == <<up, dbOpen, control, isProcessing, flight, retryTimers, waits>>
history == <<delivered, starts, boots>>
vars    == <<table, process, history>>

Flights == {"none", "sending", "accepted", "refused"}
NoFlight == [j \in Jobs |-> "none"]

-----------------------------------------------------------------------------
(***************************************************************************)
(* The table.                                                              *)
(***************************************************************************)
\* updateJobStatus: an UPDATE of a row that is gone changes nothing.
Update(st, j, word) == IF st[j] = "absent" THEN st ELSE [st EXCEPT ![j] = word]

\* Flawed: the jobs backing off, the jobs in progress are forgotten.
RestoreProcessing(st) ==
    [j \in Jobs |-> IF st[j] = "processing" THEN "pending" ELSE st[j]]
RestoreRetrying(st) ==
    [j \in Jobs |-> IF st[j] = "retrying" THEN "pending" ELSE st[j]]

\* restoreInterruptedJobs
Restore(st) ==
    [j \in Jobs |-> IF st[j] \in {"processing", "retrying"} THEN "pending" ELSE st[j]]

CleanupAll(st, cutoff) ==    \* flawed: without the condition on the status
    [j \in Jobs |-> IF createdAt[j] < cutoff THEN "absent" ELSE st[j]]

\* cleanupOldJobs, for a retention period that ends at cutoff
Cleanup(st, cutoff) ==
    [j \in Jobs |-> IF st[j] \in {"completed", "failed"} /\ createdAt[j] < cutoff
                      THEN "absent" ELSE st[j]]

Cutoffs == 1..(N + 1)    \* times are counted from that of the first row

ReadyOrNot(st) == {j \in Jobs : st[j] = "pending"}    \* flawed: the date is ignored

\* getNextPendingJob: the rows it may return, the caller having fixed the columns.
Ready(st) == {j \in Jobs : st[j] = "pending" /\ scheduledFor'[j] # "future"}
Oldest(S) == {j \in S : \A k \in S : createdAt'[j] <= createdAt'[k]}

(***************************************************************************)
(* processNext and the synchronous part of processJob, for a caller that   *)
(* has fixed isRunning', isPaused' and the columns, and left isProcessing, *)
(* status and flight as the parameters say.                                *)
(***************************************************************************)
CanProcessBusyOrNot(busy) == isRunning' /\ ~isPaused'    \* flawed

CanProcess(busy) == isRunning' /\ ~isPaused' /\ ~busy

Leave(busy, st, fl) ==
    /\ isProcessing' = busy
    /\ status' = st
    /\ flight' = fl
    /\ attempts' = attempts

Attempt(j, st, fl) ==
    /\ isProcessing' = TRUE
    /\ status' = [st EXCEPT ![j] = "processing"]
    /\ flight' = [fl EXCEPT ![j] = "sending"]
    /\ attempts' = [attempts EXCEPT ![j] = @ + 1]

ProcessNext(busy, st, fl) ==
    \/ ~CanProcess(busy) /\ Leave(busy, st, fl)
    \/ CanProcess(busy) /\ Ready(st) = {} /\ Leave(busy, st, fl)
    \/ CanProcess(busy) /\ \E j \in Oldest(Ready(st)) : Attempt(j, st, fl)

-----------------------------------------------------------------------------
(***************************************************************************)
(* The interface.  With the database closed, the calls that need it throw. *)
(***************************************************************************)
Open == up /\ dbOpen

\* add() inserts one row, addBatch() k unscheduled ones in a transaction.
Insert(k, when) ==
    /\ Open
    /\ created + k <= N
    /\ created' = created + k
    /\ LET new == (created + 1)..created'
           times == IF created = 0 THEN {1} ELSE {createdAt[created], createdAt[created] + 1}
       IN  /\ scheduledFor' = [j \in Jobs |-> IF j \in new THEN when ELSE scheduledFor[j]]
           /\ \E now \in times :
                createdAt' = [j \in Jobs |-> IF j \in new THEN now ELSE createdAt[j]]
           /\ UNCHANGED <<up, dbOpen, control, retryTimers, waits, history>>
           /\ ProcessNext(isProcessing,
                          [j \in Jobs |-> IF j \in new THEN "pending" ELSE status[j]], flight)

Add(when) == Insert(1, when)
AddBatch(k) == Insert(k, "none")

\* With the database closed, start() and resume() set the flags and then throw.
Start ==
    /\ up /\ starts < MaxStarts
    /\ starts' = starts + 1
    /\ isRunning' = TRUE
    /\ isPaused' = FALSE
    /\ UNCHANGED <<created, scheduledFor, createdAt, up, dbOpen, retryTimers, waits,
                   delivered, boots>>
    /\ \/ dbOpen /\ ProcessNext(isProcessing, Restore(status), flight)
       \/ ~dbOpen /\ UNCHANGED <<status, attempts, isProcessing, flight>>

Stop ==
    /\ up
    /\ isRunning' = FALSE
    /\ stopWait' = (stopWait \/ isProcessing)
    /\ UNCHANGED <<table, up, dbOpen, isPaused, isProcessing, flight, retryTimers,
                   shutWait, destroyWait, history>>

StopResolves ==
    /\ stopWait /\ ~isProcessing
    /\ stopWait' = FALSE
    /\ UNCHANGED <<table, up, dbOpen, control, isProcessing, flight, retryTimers,
                   shutWait, destroyWait, history>>

Pause ==
    /\ up
    /\ isPaused' = TRUE
    /\ UNCHANGED <<table, up, dbOpen, isRunning, isProcessing, flight, retryTimers, waits,
                   history>>

Resume ==
    /\ up
    /\ isPaused' = FALSE
    /\ UNCHANGED <<created, scheduledFor, createdAt, up, dbOpen, isRunning, retryTimers,
                   waits, history>>
    /\ \/ dbOpen /\ ProcessNext(isProcessing, status, flight)
       \/ ~dbOpen /\ UNCHANGED <<status, attempts, isProcessing, flight>>

Clear ==
    /\ Open
    /\ status' = [j \in Jobs |-> IF status[j] = "pending" THEN "absent" ELSE status[j]]
    /\ UNCHANGED <<created, attempts, scheduledFor, createdAt, process, history>>

\* The hourly cleanup.
CleanupTick ==
    /\ Open
    /\ \E cutoff \in Cutoffs : status' = Cleanup(status, cutoff)
    /\ UNCHANGED <<created, attempts, scheduledFor, createdAt, process, history>>

-----------------------------------------------------------------------------
(***************************************************************************)
(* Attempts, retries and time.                                             *)
(***************************************************************************)
TimePasses(j) ==
    /\ scheduledFor[j] = "future"
    /\ scheduledFor' = [scheduledFor EXCEPT ![j] = "past"]
    /\ UNCHANGED <<created, status, attempts, createdAt, process, history>>

\* The limiter lets the message through and the provider answers.
ProviderAccepts(j) ==
    /\ flight[j] = "sending"
    /\ flight' = [flight EXCEPT ![j] = "accepted"]
    /\ delivered' = [delivered EXCEPT ![j] = @ + 1]
    /\ UNCHANGED <<table, up, dbOpen, control, isProcessing, retryTimers, waits, starts, boots>>

ProviderRefuses(j) ==
    /\ flight[j] = "sending"
    /\ flight' = [flight EXCEPT ![j] = "refused"]
    /\ UNCHANGED <<table, up, dbOpen, control, isProcessing, retryTimers, waits, history>>

FinallyWithoutNext(j, word) ==    \* flawed
    Leave(FALSE, Update(status, j, word), [flight EXCEPT ![j] = "none"])

\* processJob records the outcome; the finally block.
Finally(j, word) ==
    ProcessNext(FALSE, Update(status, j, word), [flight EXCEPT ![j] = "none"])

AnsweredWell(j) == flight[j] \in {"accepted", "refused"}    \* flawed
AnsweredBadly(j) == flight[j] \in {"accepted", "refused"}    \* flawed

Accepted(j) == flight[j] = "accepted"
Refused(j) == flight[j] = "refused"

Succeed(j) ==
    /\ Open /\ Accepted(j)
    /\ UNCHANGED <<created, scheduledFor, createdAt, up, dbOpen, control, retryTimers, waits,
                   history>>
    /\ Finally(j, "completed")

MayRetryOnceMore(j) == attempts[j] <= MaxRetries    \* flawed

MayRetry(j) == attempts[j] < MaxRetries

Fail(j) ==
    /\ Open /\ Refused(j)
    /\ UNCHANGED <<created, scheduledFor, createdAt, up, dbOpen, control, waits, history>>
    /\ \/ /\ MayRetry(j)
          /\ retryTimers' = [retryTimers EXCEPT ![j] = @ + 1]
          /\ Finally(j, "retrying")
       \/ /\ ~MayRetry(j)
          /\ UNCHANGED retryTimers
          /\ Finally(j, "failed")

ArmedOrNot(j) == TRUE    \* flawed

Armed(j) == retryTimers[j] > 0

\* The callback looks at the flags, not at the row it sets back to 'pending'.
RetryTimerFires(j) ==
    /\ Armed(j)
    /\ retryTimers' = [retryTimers EXCEPT ![j] = @ - 1]
    /\ UNCHANGED <<created, scheduledFor, createdAt, up, dbOpen, control, waits, history>>
    /\ \/ isRunning /\ ~isPaused /\ dbOpen
          /\ ProcessNext(isProcessing, Update(status, j, "pending"), flight)
       \/ ~(isRunning /\ ~isPaused) /\ UNCHANGED <<status, attempts, isProcessing, flight>>

-----------------------------------------------------------------------------
(***************************************************************************)
(* Shutdown, death and restart.                                            *)
(***************************************************************************)
\* gracefulShutdown, called by the signal handler once per queue.
Shutdown ==
    /\ Open /\ ~shutWait /\ ~destroyWait
    /\ isRunning' = FALSE
    /\ shutWait' = isProcessing
    /\ dbOpen' = isProcessing
    /\ UNCHANGED <<table, up, isPaused, isProcessing, flight, retryTimers, stopWait,
                   destroyWait, history>>

\* Its loop ends because nothing is in progress or because 30 s have passed; the
\* database is closed either way.
ShutdownEnds ==
    /\ shutWait /\ dbOpen
    /\ shutWait' = FALSE
    /\ dbOpen' = FALSE
    /\ UNCHANGED <<table, up, control, isProcessing, flight, retryTimers, stopWait, destroyWait,
                   history>>

\* The end of destroy(): the file is deleted, unless close() throws because the
\* database was closed before.
DeleteFile ==
    /\ dbOpen' = FALSE
    /\ status' = IF dbOpen THEN [j \in Jobs |-> "absent"] ELSE status

\* destroy() goes through gracefulShutdown; calls that wait together are taken together.
Destroy ==
    /\ up
    /\ isRunning' = FALSE
    /\ \/ isProcessing /\ destroyWait' = TRUE /\ UNCHANGED <<dbOpen, status>>
       \/ ~isProcessing /\ DeleteFile /\ UNCHANGED destroyWait
    /\ UNCHANGED <<created, attempts, scheduledFor, createdAt, up, isPaused, isProcessing,
                   flight, retryTimers, stopWait, shutWait, history>>

DestroyEnds ==
    /\ destroyWait
    /\ destroyWait' = FALSE
    /\ DeleteFile
    /\ UNCHANGED <<created, attempts, scheduledFor, createdAt, up, control, isProcessing, flight,
                   retryTimers, stopWait, shutWait, history>>

\* What is in memory is gone.
ProcessEnds ==
    /\ up' = FALSE /\ dbOpen' = FALSE
    /\ isRunning' = FALSE /\ isPaused' = FALSE /\ isProcessing' = FALSE
    /\ flight' = NoFlight
    /\ retryTimers' = [j \in Jobs |-> 0]
    /\ stopWait' = FALSE /\ shutWait' = FALSE /\ destroyWait' = FALSE
    /\ UNCHANGED <<table, starts, boots>>

\* The process exits, its database closed and nothing outstanding.
Exit ==
    /\ up /\ ~dbOpen /\ flight = NoFlight
    /\ ProcessEnds
    /\ UNCHANGED delivered

\* Nobody catches what a statement on the closed database throws: when processJob
\* hears of its attempt, when a retry timer rings in a queue started again, or when
\* the signal handler's shutdown closes it after destroy() did.
DiesUncaught ==
    /\ up /\ ~dbOpen
    /\ \/ shutWait
       \/ \E j \in Jobs : flight[j] \in {"accepted", "refused"}
       \/ isRunning /\ ~isPaused /\ \E j \in Jobs : retryTimers[j] > 0
    /\ ProcessEnds
    /\ UNCHANGED delivered

\* Killed at any moment; a message on its way may still arrive.
Crash ==
    /\ up
    /\ \E arrives \in SUBSET {j \in Jobs : flight[j] = "sending"} :
         delivered' = [j \in Jobs |-> delivered[j] + (IF j \in arrives THEN 1 ELSE 0)]
    /\ ProcessEnds

\* createSQLiteQueue in a new process.
Boot ==
    /\ ~up /\ boots < MaxBoots
    /\ boots' = boots + 1
    /\ up' = TRUE /\ dbOpen' = TRUE
    /\ \E cutoff \in Cutoffs : status' = Cleanup(Restore(status), cutoff)
    /\ UNCHANGED <<created, attempts, scheduledFor, createdAt, control, isProcessing, flight,
                   retryTimers, waits, delivered, starts>>

-----------------------------------------------------------------------------
Init ==
    /\ created = 0
    /\ status = [j \in Jobs |-> "absent"]
    /\ attempts = [j \in Jobs |-> 0]
    /\ scheduledFor = [j \in Jobs |-> "none"]
    /\ createdAt = [j \in Jobs |-> 0]
    /\ up = TRUE /\ dbOpen = TRUE
    /\ isRunning = FALSE /\ isPaused = FALSE /\ isProcessing = FALSE
    /\ flight = NoFlight
    /\ retryTimers = [j \in Jobs |-> 0]
    /\ stopWait = FALSE /\ shutWait = FALSE /\ destroyWait = FALSE
    /\ delivered = [j \in Jobs |-> 0]
    /\ starts = 0 /\ boots = 0

Progress ==
    \/ StopResolves
    \/ \E j \in Jobs : \/ TimePasses(j)
                       \/ ProviderAccepts(j)
                       \/ ProviderRefuses(j)
                       \/ Succeed(j)
                       \/ Fail(j)
                       \/ RetryTimerFires(j)

AddStartStop ==
    \/ \E when \in {"none", "future"} : Add(when)
    \/ \E k \in {0} \cup 2..N : AddBatch(k)
    \/ Start
    \/ Stop

Next ==
    \/ Progress
    \/ AddStartStop
    \/ Pause \/ Resume \/ Clear \/ CleanupTick
    \/ Shutdown \/ ShutdownEnds
    \/ Destroy \/ DestroyEnds
    \/ Exit \/ DiesUncaught \/ Crash \/ Boot

Spec == Init /\ [][Next]_vars

(***************************************************************************)
(* Fairness: the event loop runs what is due (see QueueFactory), and the   *)
(* provider is assumed to answer.  Nobody must restart the process.        *)
(***************************************************************************)
Fairness ==
    /\ WF_vars(StopResolves)
    /\ \A j \in Jobs : /\ WF_vars(TimePasses(j))
                       /\ WF_vars(ProviderAccepts(j) \/ ProviderRefuses(j))
                       /\ WF_vars(Succeed(j))
                       /\ WF_vars(Fail(j))
                       /\ WF_vars(RetryTimerFires(j))

\* A caller that neither pauses, clears nor shuts down; the process may crash.
PlainSpec == Init /\ [][Progress \/ AddStartStop \/ Crash \/ Boot]_vars /\ Fairness

-----------------------------------------------------------------------------
(***************************************************************************)
(* What the queue guarantees.                                              *)
(***************************************************************************)
\* The types of the variables.
TypeOK ==
    /\ created \in 0..N
    /\ status \in [Jobs -> Statuses]
    /\ attempts \in [Jobs -> Nat]
    /\ scheduledFor \in [Jobs -> {"none", "future", "past"}]
    /\ createdAt \in [Jobs -> 0..(N + 1)]
    /\ up \in BOOLEAN /\ dbOpen \in BOOLEAN
    /\ isRunning \in BOOLEAN /\ isPaused \in BOOLEAN /\ isProcessing \in BOOLEAN
    /\ flight \in [Jobs -> Flights]
    /\ retryTimers \in [Jobs -> Nat]
    /\ stopWait \in BOOLEAN /\ shutWait \in BOOLEAN /\ destroyWait \in BOOLEAN
    /\ delivered \in [Jobs -> Nat]
    /\ starts \in Nat /\ boots \in Nat

InFlight == {j \in Jobs : flight[j] # "none"}

\* "Sequential, one at a time": isProcessing is up exactly while one attempt is in
\* progress; no restoring, clearing, timer or restart makes a second one.
OneAtATime ==
    /\ isProcessing <=> InFlight # {}
    /\ \A j, k \in InFlight : j = k

\* 'processing' is said only of the attempt in progress: after a crash at any moment,
\* the rows a dead process left behind are pending again once the queue is open.
NoOrphanedRow ==
    Open => \A j \in Jobs : status[j] = "processing" => j \in InFlight

\* A row says 'completed' only of a message the provider accepted.
CompletedWasDelivered == \A j \in Jobs : status[j] = "completed" => delivered[j] > 0

\* Crashes and closed databases lose no row: one disappears only by clear(), while
\* pending, by the cleanup, when settled, or with the file.
NoRowLost ==
    [][\A j \in Jobs : status[j] # "absent" /\ status'[j] = "absent" =>
         \/ dbOpen /\ ~dbOpen' /\ up' /\ \A k \in Jobs : status'[k] = "absent"
         \/ Clear /\ status[j] = "pending"
         \/ status[j] \in {"completed", "failed"}]_vars

\* No attempt is in progress before the job's scheduled time.
NeverEarly == \A j \in InFlight : scheduledFor[j] # "future"

\* A message the provider accepted is sent again at most once per restart and per
\* start() after the first: only those make 'pending' of a row in flight or backing
\* off, and only they leave a stale timer behind.
ResendBudget ==
    \A j \in Jobs : delivered[j] <= 1 + boots + (IF starts = 0 THEN 0 ELSE starts - 1)

RetryBudget ==
    \A j \in Jobs :
        attempts[j] <= (IF MaxRetries = 0 THEN 1 ELSE MaxRetries)
                        + boots + (IF starts = 0 THEN 0 ELSE starts - 1)

-----------------------------------------------------------------------------
(***************************************************************************)
(* The queue as its callers see it, over all the processes that open the   *)
(* file.                                                                   *)
(***************************************************************************)
Life(j) ==
    CASE j > created -> "new"
      [] flight[j] \in {"sending", "refused"} -> "sending"
      [] flight[j] = "accepted" -> "accepted"
      [] j <= created /\ flight[j] = "none" /\ status[j] = "absent" -> "gone"
      [] flight[j] = "none" /\ status[j] = "completed" -> "sent"
      [] flight[j] = "none" /\ status[j] = "failed" -> "failed"
      [] OTHER -> "waiting"

Promise == INSTANCE EmailQueue WITH
    life <- [j \in Jobs |-> Life(j)],
    due <- [j \in Jobs |-> scheduledFor[j] # "future"],
    taking <- isRunning /\ ~isPaused,
    Final <- {},
    MayCrash <- TRUE

\* With crashes, and with settled jobs that stale timers reopen, the table and the
\* processes that use it do what an EmailQueue may do: a job that is gone never comes
\* back, one that was not accepted never becomes 'completed', and there is one
\* message on its way at a time.
KeepsPromise == Promise!Spec

-----------------------------------------------------------------------------
(***************************************************************************)
(* What comments and documents of the repository say, which the code does  *)
(* not keep.                                                               *)
(***************************************************************************)
\* "Handle successful job completion", "Handle permanent job failure": a settled job
\* is not taken up again.
SettledIsFinal ==
    [][\A j \in Jobs : status[j] \in {"completed", "failed"} =>
                         status'[j] \in {status[j], "absent"}]_vars

\* README, "Schedule for future": the job is sent once its time has come.
ScheduledJobsAreSent ==
    <>[]isRunning =>
      \A j \in Jobs : status[j] = "pending" /\ scheduledFor[j] = "past"
                        ~> status[j] # "pending"
=============================================================================
