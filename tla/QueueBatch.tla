----------------------------- MODULE QueueBatch -----------------------------
(***************************************************************************)
(* sendBatch in queue mode: sendBatchWithQueue of                          *)
(* src/src/batch/queue-strategy.ts, the ephemeral queue it works through   *)
(* (src/src/queue/ephemeral-batch-queue.ts) and the batch monitor that     *)
(* tells it when the batch is complete (src/src/queue/batch-monitor.ts).   *)
(*                                                                         *)
(* The queue is SQLiteQueue, in the hands of one caller: one addBatch(),   *)
(* one start(), one destroy().  The monitor is called from inside          *)
(* processJob, where a callback of the user that throws counts as the      *)
(* failure of the attempt.  The database of a batch is never opened again, *)
(* so a batch ends with its process.                                       *)
(***************************************************************************)
EXTENDS SQLiteQueue

VARIABLES
    stage,      \* how far sendBatchWithQueue has come
    timed,      \* waitForCompletion set a timer
    result,     \* what the caller gets
    total, tracked, completed, failed,  \* the monitor's batch, and whether it has one
    promise,    \* completionPromise: "open", "resolved" or "rejected"
    summary,    \* what it was resolved with
    threw       \* history: a callback of the user threw

monitor   == <<total, tracked, completed, failed>>
deferred  == <<promise, summary>>
call      == <<stage, timed, result>>
batchVars == <<vars, monitor, deferred, call, threw>>

Stages == {"new", "added", "waiting", "destroying", "returned", "rejected"}
Over == stage \in {"returned", "rejected"}

-----------------------------------------------------------------------------
(***************************************************************************)
(* The monitor.                                                            *)
(***************************************************************************)
CompleteOneEarly == completed' + failed' >= total - 1    \* flawed
CompleteOneLate == completed' + failed' > total    \* flawed

AllRecorded == completed' + failed' >= total

CountedAnyway(ok, bad) == completed' = completed + 1 /\ failed' = failed + bad    \* flawed

Counted(ok, bad) == completed' = completed + ok /\ failed' = failed + bad

\* completeBatch and handleComplete, once the user's onComplete has returned.
Complete ==
    /\ tracked' = FALSE
    /\ IF promise = "open"
         THEN /\ promise' = "resolved"
              /\ summary' = [sent |-> completed', failed |-> failed']
         ELSE UNCHANGED deferred

\* recordSuccess, recordFailure: ok and bad are what they add to the counts.
Record(ok, bad) ==
    /\ UNCHANGED <<total, call, threw>>
    /\ \/ ~tracked /\ UNCHANGED <<monitor, deferred>>
       \/ /\ tracked
          /\ Counted(ok, bad)
          /\ \/ AllRecorded /\ Complete
             \/ ~AllRecorded /\ UNCHANGED <<tracked, deferred>>

\* The same, but onProgress or onComplete throws: what was counted stays counted.
RecordThrows(ok, bad) ==
    /\ tracked
    /\ Counted(ok, bad)
    /\ threw' = TRUE
    /\ UNCHANGED <<total, tracked, deferred, call>>

Unmonitored == UNCHANGED <<monitor, deferred, call, threw>>

-----------------------------------------------------------------------------
(***************************************************************************)
(* The queue, with its calls of the monitor.                               *)
(***************************************************************************)
JobSucceeds(j) == Succeed(j) /\ Record(1, 0)

\* The throw lands in processJob's catch, as if the provider had refused.
SuccessTakenForFailure(j) ==
    /\ Open /\ Accepted(j)
    /\ UNCHANGED <<created, scheduledFor, createdAt, up, dbOpen, control, waits, history>>
    /\ \/ /\ MayRetry(j)
          /\ retryTimers' = [retryTimers EXCEPT ![j] = @ + 1]
          /\ Finally(j, "retrying")
          /\ RecordThrows(1, 0)
       \/ /\ ~MayRetry(j)
          /\ UNCHANGED retryTimers
          /\ Finally(j, "failed")
          /\ tracked /\ threw' = TRUE
          /\ Counted(1, 1)
          /\ UNCHANGED <<total, call>>
          /\ \/ AllRecorded /\ Complete
             \/ ~AllRecorded /\ UNCHANGED <<tracked, deferred>>

JobFails(j) ==
    /\ Fail(j)
    /\ \/ MayRetry(j) /\ Unmonitored
       \/ ~MayRetry(j) /\ Record(0, 1)

\* Nobody catches what recordFailure's callback throws, be it the first to throw or,
\* after an accepted message, the second.  The table it leaves is never read again.
FailureThrows(j) ==
    /\ Open /\ ~MayRetry(j)
    /\ \/ Refused(j) /\ RecordThrows(0, 1)
       \/ Accepted(j) /\ RecordThrows(1, 1)
    /\ ProcessEnds
    /\ UNCHANGED delivered

-----------------------------------------------------------------------------
(***************************************************************************)
(* sendBatchWithQueue.                                                     *)
(***************************************************************************)
\* Flawed: the call does not wait for destroy(), or never calls it.
DestroyAndGo == Destroy /\ stage' = "returned"
GoAtOnce == UNCHANGED vars /\ stage' = "returned"

\* destroy() in the finally block; what it throws replaces what was to be returned.
DestroyQueue ==
    /\ Destroy
    /\ stage' = IF destroyWait' THEN "destroying" ELSE IF dbOpen THEN "returned" ELSE "rejected"

\* addBatch(): the monitor's startBatch, then the transaction.
SendBatch(k) ==
    /\ stage = "new"
    /\ total' = k /\ tracked' = TRUE
    /\ timed' \in BOOLEAN
    /\ UNCHANGED <<completed, failed, deferred>>
    /\ \/ AddBatch(k) /\ stage' = "added" /\ UNCHANGED <<result, threw>>
       \/ DestroyQueue /\ result' = "error" /\ threw' = TRUE    \* onProgress throws

\* start() and waitForCompletion().
Begin ==
    /\ stage = "added"
    /\ Start
    /\ stage' = "waiting"
    /\ UNCHANGED <<timed, result, monitor, deferred, threw>>

TimeoutFires ==
    /\ up /\ stage = "waiting" /\ timed /\ promise = "open"
    /\ promise' = "rejected"
    /\ UNCHANGED <<vars, summary, monitor, call, threw>>

\* The await of waitForCompletion() is over.
LeaveWait ==
    /\ stage = "waiting" /\ promise # "open"
    /\ result' = IF promise = "resolved" THEN "summary" ELSE "error"
    /\ DestroyQueue
    /\ UNCHANGED <<timed, monitor, deferred, threw>>

DestroyReturns ==
    /\ stage = "destroying"
    /\ DestroyEnds
    /\ stage' = IF dbOpen THEN "returned" ELSE "rejected"
    /\ UNCHANGED <<timed, result, monitor, deferred, threw>>

\* SIGTERM or SIGINT; addBatch() and start() follow each other without a chance for one.
Signal == stage \notin {"new", "added"} /\ Shutdown /\ Unmonitored

-----------------------------------------------------------------------------
BatchInit ==
    /\ Init
    /\ stage = "new" /\ timed = FALSE /\ result = "none"
    /\ total = 0 /\ tracked = FALSE /\ completed = 0 /\ failed = 0
    /\ promise = "open" /\ summary = [sent |-> 0, failed |-> 0]
    /\ threw = FALSE

Work(j) ==
    \/ ProviderAccepts(j) /\ Unmonitored
    \/ ProviderRefuses(j) /\ Unmonitored
    \/ JobSucceeds(j)
    \/ SuccessTakenForFailure(j)
    \/ JobFails(j)
    \/ FailureThrows(j)
    \/ RetryTimerFires(j) /\ Unmonitored

BatchNext ==
    \/ \E k \in 0..N : SendBatch(k)
    \/ Begin
    \/ TimeoutFires
    \/ LeaveWait
    \/ DestroyReturns
    \/ \E j \in Jobs : Work(j)
    \/ CleanupTick /\ Unmonitored
    \/ Signal
    \/ ShutdownEnds /\ Unmonitored
    \/ Exit /\ Unmonitored
    \/ DiesUncaught /\ Unmonitored

(***************************************************************************)
(* Fairness: the event loop's, and a provider that answers.  Signals, and  *)
(* callbacks that throw, may or may not come.                              *)
(***************************************************************************)
BatchFairness ==
    /\ WF_batchVars(Begin) /\ WF_batchVars(TimeoutFires)
    /\ WF_batchVars(LeaveWait) /\ WF_batchVars(DestroyReturns)
    /\ \A j \in Jobs :
         /\ WF_batchVars((ProviderAccepts(j) \/ ProviderRefuses(j)) /\ Unmonitored)
         /\ WF_batchVars(JobSucceeds(j) \/ SuccessTakenForFailure(j) \/ FailureThrows(j))
         /\ WF_batchVars(JobFails(j) \/ FailureThrows(j))
         /\ WF_batchVars(RetryTimerFires(j) /\ Unmonitored)

BatchSpec == BatchInit /\ [][BatchNext]_batchVars /\ BatchFairness

-----------------------------------------------------------------------------
(***************************************************************************)
(* What a batch promises.                                                  *)
(***************************************************************************)
\* The types of the variables.
BatchTypeOK ==
    /\ TypeOK
    /\ stage \in Stages /\ timed \in BOOLEAN /\ result \in {"none", "summary", "error"}
    /\ total \in 0..N /\ tracked \in BOOLEAN
    /\ completed \in Nat /\ failed \in Nat
    /\ promise \in {"open", "resolved", "rejected"}
    /\ summary \in [sent : Nat, failed : Nat]
    /\ threw \in BOOLEAN

Unsettled == {j \in Jobs : status[j] \in {"pending", "processing", "retrying"}}

\* "Remaining jobs to process": the monitor's counts, in memory, agree with the table
\* as long as no callback threw, whatever is retried, cleaned up or shut down.
RemainingIsTrue ==
    tracked /\ Open /\ ~threw => total - completed - failed = Cardinality(Unsettled)

\* "Total emails successfully sent": a batch that completes reports each message
\* once, as sent if and only if the provider accepted it, and that exactly once.
SummaryCountsMessages ==
    promise = "resolved" =>
        /\ summary.sent = Cardinality({j \in Jobs : delivered[j] > 0})
        /\ summary.sent + summary.failed = total
        /\ \A j \in Jobs : delivered[j] <= 1

\* That holds unless a callback threw.
SummaryIsTrue == ~threw => SummaryCountsMessages

\* "Max retry attempts": even if callbacks throw, so that messages which the provider
\* accepted are sent again, none is attempted more than maxRetries times (once, if that
\* is 0), whatever timers are outstanding, and an attempt delivers it at most once.
SendsAreBounded ==
    \A j \in Jobs :
        /\ attempts[j] <= (IF MaxRetries = 0 THEN 1 ELSE MaxRetries)
        /\ delivered[j] <= attempts[j]

\* After sendBatch has returned, whether complete, timed out or failed, no attempt of
\* the batch begins: outstanding retry timers find the queue stopped, and at most
\* the message in flight is still delivered.
QuietAfterReturn ==
    [][Over => /\ attempts' = attempts
               /\ \A j \in Jobs : delivered'[j] # delivered[j] => flight[j] = "sending"]_batchVars

\* A sendBatch that returns leaves no file behind.
FileIsDeleted == stage = "returned" => \A j \in Jobs : status[j] = "absent"

\* sendBatch returns: the batch completes, or its timer rings, and the destruction of
\* the queue ends.  Not so for an empty batch without a timer, or once a signal has
\* closed the database under the batch, or with the process gone.
SendBatchReturns ==
    stage = "waiting" /\ (timed \/ total > 0) ~> Over \/ ~up \/ (~timed /\ ~isRunning)
=============================================================================
