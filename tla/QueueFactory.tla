---------------------------- MODULE QueueFactory ----------------------------
(***************************************************************************)
(* createQueue of src/src/queue/index.ts: the backend a caller asks for,   *)
(* and the one EmailQueue that it then has in its hands.  The variables    *)
(* of the same name are those of the backend in use.                       *)
(***************************************************************************)
EXTENDS Integers, Sequences, FiniteSets

CONSTANTS
    N, Rows,    \* how many jobs a queue in memory, a persistent queue ever gets
    MaxRetries, MaxStarts, MaxBoots

VARIABLES
    backend,    \* options.backendConfig?.backend
    created, status, attempts, scheduledFor, isRunning, isPaused, isProcessing,
    retryTimers, stopWait, destroyWait, delivered, starts,
    jobs, pending, active, schedTimers, limiterUp,      \* in memory only
    createdAt, up, dbOpen, flight, shutWait, boots      \* in SQLite only

memoryOnly == <<jobs, pending, active, schedTimers, limiterUp>>
sqliteOnly == <<createdAt, up, dbOpen, flight, shutWait, boots>>
shared     == <<created, status, attempts, scheduledFor, isRunning, isPaused, isProcessing,
                retryTimers, stopWait, destroyWait, delivered, starts>>
vars       == <<backend, shared, memoryOnly, sqliteOnly>>

M == INSTANCE MemoryQueue
S == INSTANCE SQLiteQueue WITH N <- Rows

\* What the other backend would keep is idle and stays so.
CreateQueue ==
    /\ jobs = {} /\ pending = <<>> /\ active = {}
    /\ schedTimers = [j \in 1..N |-> 0] /\ limiterUp = TRUE
    /\ createdAt = [j \in 1..Rows |-> 0] /\ up = TRUE /\ dbOpen = TRUE
    /\ flight = S!NoFlight /\ shutWait = FALSE /\ boots = 0
    /\ \/ backend = "memory" /\ M!Init
       \/ backend = "sqlite" /\ S!Init

OnMemory(A) == backend = "memory" /\ A /\ UNCHANGED <<backend, sqliteOnly>>
OnSQLite(A) == backend = "sqlite" /\ A /\ UNCHANGED <<backend, memoryOnly>>

\* A caller that adds jobs, starts and stops; the process of a persistent queue may
\* crash.
Next ==
    \/ OnMemory(M!Progress \/ M!AddStartStop)
    \/ OnSQLite(S!Progress \/ S!AddStartStop \/ S!Crash \/ S!Boot)

(***************************************************************************)
(* Fairness.  A timer that is due rings, time passes, stop()'s loop polls  *)
(* again: the event loop sees to that.  That the provider answers is an    *)
(* assumption about it: neither backend puts a timeout on send().  Nothing *)
(* obliges anyone to call the interface or to restart a dead process.      *)
(***************************************************************************)
Fairness ==
    /\ WF_vars(OnMemory(M!StopResolves) \/ OnSQLite(S!StopResolves))
    /\ \A j \in 1..N :
         /\ WF_vars(OnMemory(M!TimePasses(j)))
         /\ WF_vars(OnMemory(M!SchedTimerFires(j)))
         /\ WF_vars(OnMemory(M!RetryTimerFires(j)))
         /\ WF_vars(OnMemory(M!SendSucceeds(j) \/ M!SendFails(j)))
    /\ \A j \in 1..Rows :
         /\ WF_vars(OnSQLite(S!TimePasses(j)))
         /\ WF_vars(OnSQLite(S!RetryTimerFires(j)))
         /\ WF_vars(OnSQLite(S!ProviderAccepts(j) \/ S!ProviderRefuses(j)))
         /\ WF_vars(OnSQLite(S!Succeed(j) \/ S!Fail(j)))

Spec == CreateQueue /\ [][Next]_vars /\ Fairness

-----------------------------------------------------------------------------
Settled(j) == j \in DOMAIN status /\ status[j] \in {"completed", "failed"}

\* Every job added to an in-memory queue that keeps running is delivered or given
\* up, even if the queue was stopped and started while the job was in flight,
\* backing off or waiting for its time.
MemoryJobsSettle ==
    <>[]isRunning =>
      \A j \in 1..N : backend = "memory" /\ j \in jobs ~> Settled(j)

\* Every unscheduled row of a persistent queue that keeps running is settled,
\* whatever stops, starts, crashes and restarts went before.
RowsSettle ==
    <>[]isRunning =>
      \A j \in 1..Rows : backend = "sqlite" /\ status[j] # "absent" /\ scheduledFor[j] = "none"
                           ~> Settled(j)

\* stop() returns, whichever backend it stops: the attempt it waits for ends and,
\* with the queue not started again meanwhile, nothing takes its place.
StopReturns == stopWait ~> ~stopWait
=============================================================================
