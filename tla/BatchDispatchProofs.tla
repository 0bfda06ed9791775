------------------------ MODULE BatchDispatchProofs ------------------------
(***************************************************************************)
(* Theorems about QueueBatch, for batches of every size, every maxRetries, *)
(* with and without a timeout, and with signals and callbacks that throw   *)
(* at any moment; and that sendBatch, whichever way it goes, behaves as a  *)
(* QueueBatch and as a NativeBatch.                                        *)
(***************************************************************************)
EXTENDS BatchDispatch, SQLiteQueueProofs, FiniteSetTheorems

(***************************************************************************)
(* The inductive invariant.  Below it lies that of the queue, whose budget *)
(* of sends and attempts is known to hold until a callback throws.         *)
(***************************************************************************)
\* With one start() and no clear(), the status column is true of what is outstanding.
Faithful(st, fl, tm) ==
    \A j \in Jobs : /\ fl[j] # "none" => st[j] = "processing"
                    /\ tm[j] > 0 => st[j] = "retrying"

UnsettledOf(st) == {j \in Jobs : st[j] \in {"pending", "processing", "retrying"}}

\* The jobs whose success processJob has heard of.
HeardOf(fl, dl) == {j \in Jobs : dl[j] > 0 /\ fl[j] # "accepted"}

\* The monitor's counts against the table and against what the provider accepted.
Tally ==
    /\ total - completed - failed = Cardinality(UnsettledOf(status))
    /\ completed = Cardinality(HeardOf(flight, delivered))

Settled ==
    /\ \A j \in Jobs : flight[j] = "none"
    /\ Open => UnsettledOf(status) = {}

\* How far sendBatchWithQueue has come, and what it has done by then.
Phases ==
    /\ boots = 0 /\ starts \in {0, 1}
    /\ stage \in {"new", "added"} => starts = 0
    /\ stage = "new" => /\ created = 0 /\ completed = 0 /\ failed = 0
                        /\ ~tracked /\ promise = "open" /\ ~threw
    /\ destroyWait => stage = "destroying"
    /\ Over => ~dbOpen
    /\ FileIsDeleted

BaseInv == IInv /\ BatchTypeOK /\ Phases

\* What the monitor relies on, and what it reports.
TrueCounts ==
    /\ Open => Faithful(status, flight, retryTimers)
    /\ Open /\ tracked => Tally
    /\ promise = "resolved" => SummaryCountsMessages /\ Settled

QInv == BaseInv /\ (~threw => BInv /\ TrueCounts)

-----------------------------------------------------------------------------
(***************************************************************************)
(* The steps of the queue.                                                 *)
(***************************************************************************)
\* An uncaught throw is the death of the process, as far as the queue is concerned.
LEMMA FailureThrowsIsCrash ==
    ASSUME IInv, NEW j \in Jobs, FailureThrows(j)
    PROVE  Crash
  <1>1. /\ up /\ ProcessEnds /\ delivered' = delivered
    BY DEF FailureThrows, Open
  <1>2. delivered \in [Jobs -> Nat]
    BY Unfolded DEF TypedRest
  <1>3. delivered' = [i \in Jobs |-> delivered[i] + (IF i \in {} THEN 1 ELSE 0)]
    BY <1>1, <1>2
  <1>4. {} \in SUBSET {i \in Jobs : flight[i] = "sending"}
    OBVIOUS
  <1>5. \E arrives \in SUBSET {i \in Jobs : flight[i] = "sending"} :
          delivered' = [i \in Jobs |-> delivered[i] + (IF i \in arrives THEN 1 ELSE 0)]
    BY <1>3, <1>4
  <1> QED  BY <1>1, <1>5 DEF Crash

\* destroy() is called once, for the queue and for the call.
LEMMA DestroyQueueIsDestroy == DestroyQueue => Destroy
  BY DEF DestroyQueue

\* Every step of the batch but one is a step of the queue.
LEMMA BatchStepIsQueueStep ==
    ASSUME IInv, [BatchNext]_batchVars,
           ~\E j \in Jobs : SuccessTakenForFailure(j)
    PROVE  [Next]_vars
  <1>1. ASSUME NEW k \in 0..N, SendBatch(k)  PROVE Next
    <2>1. CASE AddBatch(k)
      <3>1. k = 1 \/ k \in {0} \cup 2..N
        BY ConstantsAssumption
      <3>2. k = 1 => Add("none")
        BY <2>1 DEF AddBatch, Add
      <3> QED  BY <2>1, <3>1, <3>2 DEF Next, AddStartStop
    <2>2. CASE DestroyQueue
      BY <2>2, DestroyQueueIsDestroy DEF Next
    <2> QED  BY <1>1, <2>1, <2>2 DEF SendBatch
  <1>2. Begin => Next
    BY DEF Begin, Next, AddStartStop
  <1>3. TimeoutFires => UNCHANGED vars
    BY DEF TimeoutFires
  <1>4. LeaveWait \/ DestroyReturns => Next
    BY DestroyQueueIsDestroy DEF LeaveWait, DestroyReturns, Next
  <1>5. ASSUME NEW j \in Jobs, Work(j)  PROVE Next
    <2>1. CASE FailureThrows(j)
      BY <2>1, FailureThrowsIsCrash DEF Next
    <2>2. CASE ~FailureThrows(j)
      BY <1>5, <2>2 DEF Work, JobSucceeds, JobFails, Next, Progress
    <2> QED  BY <2>1, <2>2
  <1>6. Signal \/ CleanupTick \/ ShutdownEnds \/ Exit \/ DiesUncaught => Next
    BY DEF Signal, Next
  <1>7. UNCHANGED batchVars => UNCHANGED vars
    BY DEF batchVars
  <1> QED  BY <1>1, <1>2, <1>3, <1>4, <1>5, <1>6, <1>7 DEF BatchNext

\* The queue's own invariant survives a success that is taken for a failure.
LEMMA TakenForFailureKeepsIInv ==
    ASSUME IInv, NEW j \in Jobs, SuccessTakenForFailure(j)
    PROVE  IInv'
  <1>1. /\ Open /\ flight[j] = "accepted"
        /\ UNCHANGED <<created, scheduledFor, createdAt, up, dbOpen, control, waits, history>>
    BY DEF SuccessTakenForFailure, Accepted
  <1>2. retryTimers \in [Jobs -> Nat]
    BY Unfolded DEF TypedRest
  <1>3. CASE Finally(j, "retrying") /\ retryTimers' = [retryTimers EXCEPT ![j] = @ + 1]
    <2>1. retryTimers' \in [Jobs -> Nat]
      BY <1>2, <1>3
    <2> QED  BY <1>1, <1>3, <2>1, FinallyKeepsIInv
  <1>4. CASE Finally(j, "failed") /\ retryTimers' = retryTimers
    BY <1>1, <1>2, <1>4, FinallyKeepsIInv
  <1> QED  BY <1>3, <1>4 DEF SuccessTakenForFailure

\* So it does every step.
LEMMA BatchNextKeepsIInv ==
    ASSUME IInv, [BatchNext]_batchVars
    PROVE  IInv'
  <1>1. CASE \E j \in Jobs : SuccessTakenForFailure(j)
    BY <1>1, TakenForFailureKeepsIInv
  <1>2. CASE ~\E j \in Jobs : SuccessTakenForFailure(j)
    BY <1>2, BatchStepIsQueueStep, NextKeepsIInv
  <1> QED  BY <1>1, <1>2

\* A callback that has thrown stays thrown.
LEMMA ThrewForGood ==
    ASSUME [BatchNext]_batchVars, ~threw'
    PROVE  /\ ~threw
           /\ ~\E j \in Jobs : SuccessTakenForFailure(j)
           /\ ~\E j \in Jobs : FailureThrows(j)
  <1>1. \A j \in Jobs : ~SuccessTakenForFailure(j) /\ ~FailureThrows(j)
    BY DEF SuccessTakenForFailure, FailureThrows, RecordThrows
  <1>2. \A j \in Jobs : Work(j) => threw' = threw
    BY <1>1 DEF Work, Unmonitored, JobSucceeds, JobFails, Record
  <1>3. UNCHANGED batchVars => threw' = threw
    BY DEF batchVars
  <1> QED
    BY <1>1, <1>2, <1>3
       DEF BatchNext, SendBatch, Begin, TimeoutFires, LeaveWait, DestroyReturns, Signal,
           Unmonitored

-----------------------------------------------------------------------------
(***************************************************************************)
(* The call.                                                               *)
(***************************************************************************)
\* The steps that sendBatch does not take itself.
Inner ==
    \/ TimeoutFires
    \/ \E j \in Jobs : Work(j)
    \/ CleanupTick /\ Unmonitored
    \/ Signal
    \/ ShutdownEnds /\ Unmonitored
    \/ Exit /\ Unmonitored
    \/ DiesUncaught /\ Unmonitored
    \/ UNCHANGED batchVars

\* They do not open what is closed, nor take the call further.
LEMMA InnerSteps ==
    ASSUME Inner
    PROVE  /\ UNCHANGED <<created, starts, boots, total, stage, timed, result>>
           /\ destroyWait' => destroyWait
           /\ dbOpen' => dbOpen
  <1> DEFINE Goal ==
           /\ UNCHANGED <<created, starts, boots, total, stage, timed, result>>
           /\ destroyWait' => destroyWait
           /\ dbOpen' => dbOpen
  <1>1. CASE TimeoutFires \/ UNCHANGED batchVars
    BY <1>1 DEF TimeoutFires, batchVars, vars, table, process, waits, history, monitor, call
  <1>2. ASSUME NEW j \in Jobs, Work(j)  PROVE Goal
    <2>1. CASE (ProviderAccepts(j) \/ ProviderRefuses(j) \/ RetryTimerFires(j)) /\ Unmonitored
      BY <2>1
         DEF ProviderAccepts, ProviderRefuses, RetryTimerFires, Unmonitored, table, waits,
             history, monitor, call
    <2>2. CASE JobSucceeds(j) \/ JobFails(j)
      BY <2>2
         DEF JobSucceeds, JobFails, Succeed, Fail, Record, Unmonitored, waits, history, monitor,
             call
    <2>3. CASE SuccessTakenForFailure(j)
      BY <2>3 DEF SuccessTakenForFailure, RecordThrows, waits, history, call
    <2>4. CASE FailureThrows(j)
      BY <2>4 DEF FailureThrows, ProcessEnds, RecordThrows, table, call
    <2> QED  BY <1>2, <2>1, <2>2, <2>3, <2>4 DEF Work
  <1>3. CASE (CleanupTick \/ ShutdownEnds) /\ Unmonitored
    BY <1>3 DEF CleanupTick, ShutdownEnds, Unmonitored, table, process, waits, history, monitor, call
  <1>4. CASE Signal
    BY <1>4 DEF Signal, Shutdown, Open, Unmonitored, table, history, monitor, call
  <1>5. CASE (Exit \/ DiesUncaught) /\ Unmonitored
    BY <1>5 DEF Exit, DiesUncaught, ProcessEnds, Unmonitored, table, monitor, call
  <1> QED  BY <1>1, <1>2, <1>3, <1>4, <1>5 DEF Inner

LEMMA StepKinds ==
    ASSUME [BatchNext]_batchVars
    PROVE  \/ \E k \in 0..N : SendBatch(k)
           \/ Begin
           \/ LeaveWait
           \/ DestroyReturns
           \/ Inner
  BY DEF BatchNext, Inner

\* destroy() either waits, or the database is closed and the file, unless close() threw,
\* is gone.
LEMMA DestroyQueueEnds ==
    ASSUME DestroyQueue, TypeOK
    PROVE  /\ stage' \in {"destroying", "returned", "rejected"}
           /\ destroyWait' => stage' = "destroying"
           /\ Over' => ~dbOpen'
           /\ FileIsDeleted'
           /\ UNCHANGED <<created, starts, boots, delivered, flight>>
           /\ dbOpen' => destroyWait' /\ dbOpen /\ status' = status
  <1>1. /\ Destroy
        /\ stage' = IF destroyWait' THEN "destroying" ELSE IF dbOpen THEN "returned" ELSE "rejected"
    BY DEF DestroyQueue
  <1>2. CASE destroyWait' = TRUE
    <2>1. stage' = "destroying"
      BY <1>1, <1>2
    <2>2. ~Over' /\ FileIsDeleted'
      BY <2>1 DEF Over, FileIsDeleted
    <2>3. dbOpen' => dbOpen /\ status' = status
      BY <1>1 DEF Destroy, DeleteFile
    <2> QED  BY <1>1, <1>2, <2>1, <2>2, <2>3 DEF Destroy, history
  <1>3. CASE destroyWait' # TRUE
    <2>1. DeleteFile /\ destroyWait' = destroyWait
      BY <1>1, <1>3 DEF Destroy
    <2>2. destroyWait' = FALSE
      BY <1>3, <2>1 DEF TypeOK
    <2>3. dbOpen' = FALSE /\ (dbOpen => \A j \in Jobs : status'[j] = "absent")
      BY <2>1 DEF DeleteFile
    <2> QED  BY <1>1, <2>2, <2>3 DEF Over, FileIsDeleted, Destroy, history
  <1> QED  BY <1>2, <1>3

\* Once sendBatch is over, the database is closed, and everything that is still to
\* come leaves the table alone.
LEMMA StillAfterReturn ==
    ASSUME BaseInv, Over, [BatchNext]_batchVars
    PROVE  /\ UNCHANGED <<table, stage>> /\ ~dbOpen'
           /\ \A j \in Jobs : delivered'[j] # delivered[j] => flight[j] = "sending"
  <1> DEFINE Goal ==
           /\ UNCHANGED <<table, stage>> /\ ~dbOpen'
           /\ \A j \in Jobs : delivered'[j] # delivered[j] => flight[j] = "sending"
  <1>1. ~dbOpen /\ ~Open /\ stage \notin {"new", "added", "waiting", "destroying"}
    BY DEF BaseInv, Phases, Open, Over
  <1>2. Inner
    BY <1>1, StepKinds DEF SendBatch, Begin, LeaveWait, DestroyReturns
  <1>3. stage' = stage /\ ~dbOpen'
    BY <1>1, <1>2, InnerSteps
  <1>4. ASSUME NEW j \in Jobs, Work(j)  PROVE Goal
    <2>1. CASE ProviderAccepts(j)
      <3>1. /\ flight[j] = "sending" /\ delivered' = [delivered EXCEPT ![j] = @ + 1]
            /\ UNCHANGED table
        BY <2>1 DEF ProviderAccepts
      <3>2. \A k \in Jobs : k # j => delivered'[k] = delivered[k]
        BY <3>1 DEF BaseInv, IInv, TypeOK
      <3> QED  BY <1>3, <3>1, <3>2
    <2>2. CASE ProviderRefuses(j) \/ RetryTimerFires(j)
      BY <1>1, <1>3, <2>2 DEF ProviderRefuses, RetryTimerFires, table, history
    <2> QED
      BY <1>1, <1>4, <2>1, <2>2
         DEF Work, JobSucceeds, Succeed, JobFails, Fail, SuccessTakenForFailure, FailureThrows
  <1>5. CASE TimeoutFires \/ Exit \/ DiesUncaught \/ UNCHANGED batchVars
    BY <1>3, <1>5
       DEF TimeoutFires, Exit, DiesUncaught, ProcessEnds, batchVars, vars, history
  <1> QED  BY <1>1, <1>2, <1>4, <1>5 DEF Inner, CleanupTick, Signal, Shutdown, ShutdownEnds

-----------------------------------------------------------------------------
(***************************************************************************)
(* The types and the phases.                                               *)
(***************************************************************************)
TypedCall ==
    /\ stage \in Stages /\ timed \in BOOLEAN /\ result \in {"none", "summary", "error"}
    /\ total \in 0..N /\ tracked \in BOOLEAN
    /\ completed \in Nat /\ failed \in Nat
    /\ promise \in {"open", "resolved", "rejected"}
    /\ summary \in [sent : Nat, failed : Nat]
    /\ threw \in BOOLEAN

\* What recordSuccess and recordFailure do, with or without a throw.
LEMMA RecordingIsTyped ==
    ASSUME TypedCall, NEW ok \in {0, 1}, NEW bad \in {0, 1}, Counted(ok, bad),
           UNCHANGED <<total, call>>, threw' \in BOOLEAN,
           Complete \/ UNCHANGED <<tracked, deferred>>
    PROVE  TypedCall'
  <1>1. completed' \in Nat /\ failed' \in Nat
    BY DEF TypedCall, Counted
  <1>2. UNCHANGED <<stage, timed, result, total>>
    BY DEF call
  <1>3. /\ tracked' \in BOOLEAN /\ promise' \in {"open", "resolved", "rejected"}
        /\ summary' \in [sent : Nat, failed : Nat]
    <2>1. CASE Complete
      <3>1. [sent |-> completed', failed |-> failed'] \in [sent : Nat, failed : Nat]
        BY <1>1
      <3>2. /\ tracked' = FALSE
            /\ \/ promise' = "resolved" /\ summary' = [sent |-> completed', failed |-> failed']
               \/ promise' = promise /\ summary' = summary
        BY <2>1 DEF Complete, deferred
      <3> QED  BY <3>1, <3>2 DEF TypedCall
    <2>2. CASE UNCHANGED <<tracked, deferred>>
      BY <2>2 DEF TypedCall, deferred
    <2> QED  BY <2>1, <2>2
  <1> QED  BY <1>1, <1>2, <1>3 DEF TypedCall

LEMMA WorkIsTyped ==
    ASSUME TypedCall, NEW j \in Jobs, Work(j)
    PROVE  TypedCall'
  <1>1. CASE Unmonitored
    BY <1>1 DEF Unmonitored, monitor, deferred, call, TypedCall
  <1>2. ASSUME NEW ok \in {0, 1}, NEW bad \in {0, 1}, Record(ok, bad)
        PROVE  TypedCall'
    <2>1. UNCHANGED <<total, call, threw>> /\ threw' \in BOOLEAN
      BY <1>2 DEF Record, TypedCall
    <2>2. CASE UNCHANGED <<monitor, deferred>>
      BY <2>1, <2>2 DEF monitor, deferred, call, TypedCall
    <2>3. CASE Counted(ok, bad) /\ (Complete \/ UNCHANGED <<tracked, deferred>>)
      BY <2>1, <2>3, RecordingIsTyped
    <2> QED  BY <1>2, <2>2, <2>3 DEF Record
  <1>3. ASSUME NEW ok \in {0, 1}, NEW bad \in {0, 1}, RecordThrows(ok, bad)
        PROVE  TypedCall'
    <2>1. /\ Counted(ok, bad) /\ UNCHANGED <<total, call>> /\ threw' \in BOOLEAN
          /\ UNCHANGED <<tracked, deferred>>
      BY <1>3 DEF RecordThrows
    <2> QED  BY <2>1, RecordingIsTyped
  <1>4. CASE JobSucceeds(j) \/ JobFails(j)
    BY <1>1, <1>2, <1>4 DEF JobSucceeds, JobFails
  <1>5. CASE FailureThrows(j)
    BY <1>3, <1>5 DEF FailureThrows
  <1>6. CASE SuccessTakenForFailure(j)
    <2>1. CASE /\ Counted(1, 1) /\ UNCHANGED <<total, call>> /\ threw' = TRUE
               /\ (Complete \/ UNCHANGED <<tracked, deferred>>)
      BY <2>1, RecordingIsTyped
    <2> QED  BY <1>3, <1>6, <2>1 DEF SuccessTakenForFailure
  <1> QED  BY <1>1, <1>4, <1>5, <1>6 DEF Work

LEMMA NextKeepsTypedCall ==
    ASSUME TypeOK, TypedCall, [BatchNext]_batchVars
    PROVE  TypedCall'
  <1>1. TypedCall /\ TypeOK
    OBVIOUS
  <1>2. ASSUME NEW k \in 0..N, SendBatch(k)  PROVE TypedCall'
    <2>1. /\ total' = k /\ tracked' = TRUE /\ timed' \in BOOLEAN
          /\ UNCHANGED <<completed, failed, promise, summary>>
      BY <1>2 DEF SendBatch, deferred
    <2>2. CASE stage' = "added" /\ UNCHANGED <<result, threw>>
      BY <1>1, <2>1, <2>2 DEF TypedCall, Stages
    <2>3. CASE DestroyQueue /\ result' = "error" /\ threw' = TRUE
      BY <1>1, <2>1, <2>3, DestroyQueueEnds DEF TypedCall, Stages
    <2> QED  BY <1>2, <2>2, <2>3 DEF SendBatch
  <1>3. CASE Begin
    BY <1>1, <1>3 DEF Begin, monitor, deferred, TypedCall, Stages
  <1>4. CASE LeaveWait
    <2>1. stage' \in Stages /\ result' \in {"none", "summary", "error"}
      BY <1>1, <1>4, DestroyQueueEnds DEF LeaveWait, Stages
    <2> QED  BY <1>1, <1>4, <2>1 DEF LeaveWait, monitor, deferred, TypedCall
  <1>5. CASE DestroyReturns
    BY <1>1, <1>5 DEF DestroyReturns, monitor, deferred, TypedCall, Stages
  <1>6. CASE TimeoutFires
    BY <1>1, <1>6 DEF TimeoutFires, monitor, call, TypedCall
  <1>7. ASSUME NEW j \in Jobs, Work(j)  PROVE TypedCall'
    BY <1>1, <1>7, WorkIsTyped
  <1>8. CASE Unmonitored \/ UNCHANGED batchVars
    BY <1>1, <1>8 DEF Unmonitored, batchVars, monitor, deferred, call, TypedCall
  <1> QED  BY <1>2, <1>3, <1>4, <1>5, <1>6, <1>7, <1>8 DEF BatchNext, Signal

LEMMA NextKeepsTypes ==
    ASSUME IInv, BatchTypeOK, [BatchNext]_batchVars
    PROVE  BatchTypeOK'
  <1>1. TypeOK'
    BY BatchNextKeepsIInv DEF IInv
  <1>2. TypedCall'
    BY NextKeepsTypedCall DEF BatchTypeOK, TypedCall
  <1> QED  BY <1>1, <1>2 DEF BatchTypeOK, TypedCall

\* While the batch is new, there is nothing to work on.
LEMMA NewIsQuiet ==
    ASSUME BaseInv, stage = "new", Inner
    PROVE  UNCHANGED <<completed, failed, tracked, promise, threw>>
  <1>1. \A j \in Jobs : flight[j] = "none"
    <2>1. Inserted(status, flight, 0)
      BY Unfolded DEF BaseInv, Phases, Sound
    <2> QED  BY <2>1 DEF Inserted, Jobs
  <1>2. ASSUME NEW j \in Jobs, Work(j)  PROVE Unmonitored
    BY <1>1, <1>2
       DEF Work, JobSucceeds, Succeed, JobFails, Fail, SuccessTakenForFailure, FailureThrows,
           Accepted, Refused
  <1>3. Unmonitored \/ UNCHANGED batchVars
    BY <1>2 DEF Inner, TimeoutFires, Signal
  <1> QED  BY <1>3 DEF Unmonitored, batchVars, monitor, deferred

LEMMA NextKeepsPhases ==
    ASSUME BaseInv, [BatchNext]_batchVars
    PROVE  Phases'
  <1>1. TypeOK /\ Phases
    BY DEF BaseInv, BatchTypeOK
  <1>2. ASSUME NEW k \in 0..N, SendBatch(k)  PROVE Phases'
    <2>1. CASE AddBatch(k) /\ stage' = "added"
      <3>1. UNCHANGED <<starts, boots, waits, dbOpen>>
        BY <2>1 DEF AddBatch, Insert, history
      <3> QED
        BY <1>1, <1>2, <2>1, <3>1 DEF SendBatch, Phases, Over, FileIsDeleted, waits
    <2>2. CASE DestroyQueue
      BY <1>1, <2>2, DestroyQueueEnds DEF Phases
    <2> QED  BY <1>2, <2>1, <2>2 DEF SendBatch
  <1>3. CASE Begin
    <2>1. stage = "added" /\ starts = 0 /\ ~destroyWait
      BY <1>1, <1>3 DEF Begin, Phases
    <2>2. starts' = 1 /\ boots' = boots /\ destroyWait' = destroyWait /\ stage' = "waiting"
      BY <1>3, <2>1 DEF Begin, Start, waits
    <2> QED  BY <1>1, <2>1, <2>2 DEF Phases, Over, FileIsDeleted
  <1>4. CASE LeaveWait
    <2>1. DestroyQueue
      BY <1>4 DEF LeaveWait
    <2> QED  BY <1>1, <2>1, DestroyQueueEnds DEF Phases
  <1>5. CASE DestroyReturns
    <2>1. /\ destroyWait' = FALSE /\ dbOpen' = FALSE
          /\ dbOpen => \A j \in Jobs : status'[j] = "absent"
          /\ stage' = IF dbOpen THEN "returned" ELSE "rejected"
          /\ UNCHANGED <<starts, boots>>
      BY <1>5 DEF DestroyReturns, DestroyEnds, DeleteFile, history
    <2> QED  BY <1>1, <2>1 DEF Phases, FileIsDeleted
  <1>6. CASE Inner
    <2>1. /\ UNCHANGED <<created, starts, boots, stage>>
          /\ destroyWait' => destroyWait
      BY <1>6, InnerSteps
    <2>2. stage = "new" => UNCHANGED <<completed, failed, tracked, promise, threw>>
      BY <1>6, NewIsQuiet
    <2>3. (Over' => ~dbOpen') /\ FileIsDeleted'
      <3>1. CASE Over
        <4>1. ~dbOpen' /\ UNCHANGED <<status, stage>>
          BY <3>1, StillAfterReturn DEF table
        <4> QED  BY <1>1, <4>1 DEF Phases, FileIsDeleted
      <3>2. CASE ~Over
        BY <2>1, <3>2 DEF Over, FileIsDeleted
      <3> QED  BY <3>1, <3>2
    <2> QED  BY <1>1, <2>1, <2>2, <2>3 DEF Phases
  <1> QED  BY <1>2, <1>3, <1>4, <1>5, <1>6, StepKinds

LEMMA NextKeepsBaseInv ==
    ASSUME BaseInv, [BatchNext]_batchVars
    PROVE  BaseInv'
  BY BatchNextKeepsIInv, NextKeepsTypes, NextKeepsPhases DEF BaseInv


-----------------------------------------------------------------------------
(***************************************************************************)
(* The counts, as long as no callback has thrown.                          *)
(***************************************************************************)
LEMMA SetsOfJobs ==
    ASSUME NEW S \in SUBSET Jobs
    PROVE  IsFiniteSet(S) /\ Cardinality(S) \in Nat
  <1>1. IsFiniteSet(Jobs)
    BY FS_Interval, ConstantsAssumption DEF Jobs
  <1> QED  BY <1>1, FS_Subset, FS_CardinalityType

\* With one start() and no restart, every message has one chance at a time, and none
\* once it is delivered.
LEMMA OneChance ==
    ASSUME BInv, Phases, NEW j \in Jobs
    PROVE  /\ delivered[j] \in Nat /\ delivered[j] <= 1 /\ retryTimers[j] \in Nat
           /\ flight[j] \in {"sending", "refused"} => delivered[j] = 0
           /\ flight[j] = "accepted" => delivered[j] > 0
           /\ retryTimers[j] > 0 => retryTimers[j] = 1
  <1>1. Extra = 0
    BY DEF Phases, Extra, Restorings
  <1>2. /\ delivered[j] \in Nat /\ retryTimers[j] \in Nat
        /\ flight[j] = "accepted" => delivered[j] > 0
    BY Unfolded DEF BInv, TypedRest, Sound, Vouched
  <1>3. /\ Chances(status, retryTimers, j) + Underway(flight, j) <= 1
        /\ delivered[j] + Chances(status, retryTimers, j) + Unsent(flight, j) <= 1
    BY <1>1, OneJob DEF WithinBudget
  <1>4. Chances(status, retryTimers, j) \in Nat /\ Chances(status, retryTimers, j) >= retryTimers[j]
    BY <1>2 DEF Chances
  <1>5. /\ Underway(flight, j) \in Nat /\ Unsent(flight, j) \in Nat
        /\ flight[j] \in {"sending", "refused"} => Unsent(flight, j) = 1
    BY DEF Underway, Unsent
  <1> QED  BY <1>2, <1>3, <1>4, <1>5

\* Beginning an attempt settles nothing and is heard of by nobody.
LEMMA ProcessNextKeepsCounts ==
    ASSUME NEW busy, NEW st, NEW fl, NEW tm,
           Typed(busy, st, fl), Sequential(busy, fl), Faithful(st, fl, tm),
           ProcessNext(busy, st, fl)
    PROVE  /\ Faithful(status', flight', tm)
           /\ UnsettledOf(status') = UnsettledOf(st)
           /\ \A k \in Jobs : flight'[k] = "accepted" <=> fl[k] = "accepted"
           /\ UnsettledOf(st) = {} => flight' = fl
  <1>1. CASE Leave(busy, st, fl)
    BY <1>1 DEF Leave
  <1>2. ASSUME CanProcess(busy), NEW j \in Oldest(Ready(st)), Attempt(j, st, fl)
        PROVE  /\ Faithful(status', flight', tm)
               /\ UnsettledOf(status') = UnsettledOf(st)
               /\ \A k \in Jobs : flight'[k] = "accepted" <=> fl[k] = "accepted"
               /\ UnsettledOf(st) = {} => flight' = fl
    <2>1. j \in Jobs /\ st[j] = "pending" /\ busy = FALSE
      BY <1>2 DEF Oldest, Ready, CanProcess, Typed
    <2>2. /\ status'[j] = "processing" /\ flight'[j] = "sending"
          /\ \A k \in Jobs : k # j => status'[k] = st[k] /\ flight'[k] = fl[k]
      BY <1>2, <2>1 DEF Attempt, Typed
    <2>3. fl[j] = "none" /\ ~(tm[j] > 0)
      BY <2>1 DEF Sequential, Faithful
    <2> QED  BY <2>1, <2>2, <2>3 DEF Faithful, UnsettledOf
  <1> QED  BY <1>1, <1>2 DEF ProcessNext

\* What a step needs that neither settles a job, nor hears of one, nor opens anything.
LEMMA SameCounts ==
    ASSUME TrueCounts, UNCHANGED <<monitor, deferred>>, delivered' = delivered,
           Open' => /\ Open
                    /\ Faithful(status', flight', retryTimers')
                    /\ UnsettledOf(status') = UnsettledOf(status)
                    /\ HeardOf(flight', delivered) = HeardOf(flight, delivered),
           Settled => \A j \in Jobs : flight'[j] = "none"
    PROVE  TrueCounts'
  <1>1. UNCHANGED <<total, tracked, completed, failed, promise, summary>>
    BY DEF monitor, deferred
  <1>2. Open' /\ tracked' => Tally'
    BY <1>1 DEF TrueCounts, Tally
  <1>3. ASSUME promise' = "resolved"
        PROVE  SummaryCountsMessages' /\ Settled'
    <2>1. SummaryCountsMessages /\ Settled
      BY <1>1, <1>3 DEF TrueCounts
    <2>2. SummaryCountsMessages'
      BY <1>1, <2>1 DEF SummaryCountsMessages
    <2> QED  BY <2>1, <2>2 DEF Settled
  <1> QED  BY <1>2, <1>3 DEF TrueCounts

\* addBatch() counts the rows it inserts.
LEMMA InsertKeepsCounts ==
    ASSUME BaseInv, BInv, TrueCounts, NEW k \in 0..N, stage = "new",
           AddBatch(k), total' = k, UNCHANGED <<completed, failed, deferred>>
    PROVE  TrueCounts'
  <1>1. created = 0 /\ completed = 0 /\ failed = 0 /\ promise = "open" /\ starts = 0
    BY DEF BaseInv, Phases
  <1>2. ~isRunning /\ Idle(status, flight)
    BY <1>1 DEF BInv
  <1>3. k \in Nat /\ N \in Nat /\ k <= N
    BY ConstantsAssumption
  <1>4. /\ created' = k /\ (created + 1)..created' = 1..k
        /\ isRunning' = isRunning /\ retryTimers' = retryTimers /\ delivered' = delivered
        /\ ProcessNext(isProcessing,
                       [j \in Jobs |-> IF j \in (created + 1)..created' THEN "pending" ELSE status[j]],
                       flight)
    BY <1>1, <1>3 DEF AddBatch, Insert, control, history
  <1>5. /\ status' = [j \in Jobs |-> IF j \in 1..k THEN "pending" ELSE status[j]]
        /\ flight' = flight
    BY <1>2, <1>4 DEF ProcessNext, CanProcess, Leave
  <1>6. \A j \in Jobs : /\ retryTimers[j] = 0 /\ delivered[j] = 0
                        /\ status[j] = "absent" /\ flight[j] = "none"
    <2>1. \A j \in Jobs : j > created
      BY <1>1 DEF Jobs
    <2>2. \A j \in Jobs : ~(j <= created)
      BY <1>1 DEF Jobs
    <2>3. Inserted(status, flight, created)
      BY Unfolded DEF BInv, Sound
    <2> QED  BY <2>1, <2>2, <2>3 DEF BInv, Untouched, Inserted
  <1>7. Faithful(status', flight', retryTimers')
    BY <1>4, <1>5, <1>6 DEF Faithful
  <1>8. UnsettledOf(status') = 1..k
    <2>1. 1..k \subseteq Jobs
      BY <1>3 DEF Jobs
    <2> QED  BY <1>5, <1>6, <2>1 DEF UnsettledOf
  <1>9. HeardOf(flight', delivered') = {}
    BY <1>4, <1>6 DEF HeardOf
  <1>10. Cardinality(1..k) = k /\ Cardinality({}) = 0
    BY <1>3, FS_Interval, FS_EmptySet
  <1>11. Tally'
    BY <1>1, <1>3, <1>8, <1>9, <1>10 DEF Tally
  <1> QED  BY <1>1, <1>7, <1>11 DEF TrueCounts, deferred

\* start() finds nothing to restore.
LEMMA BeginKeepsCounts ==
    ASSUME BaseInv, BInv, TrueCounts, Begin
    PROVE  TrueCounts'
  <1>1. starts = 0 /\ Idle(status, flight)
    BY DEF BaseInv, Phases, Begin, BInv
  <1>2. /\ UNCHANGED <<up, dbOpen, retryTimers, delivered, monitor, deferred>>
        /\ \/ dbOpen /\ ProcessNext(isProcessing, Restore(status), flight)
           \/ ~dbOpen /\ UNCHANGED flight
    BY DEF Begin, Start
  <1>3. CASE dbOpen
    <2>1. Open /\ Typed(isProcessing, status, flight) /\ Sequential(isProcessing, flight)
      BY <1>3, Unfolded DEF BInv, Open, Alive, Sound
    <2>2. Restore(status) = status
      BY <1>1, <2>1 DEF Restore, Idle, Typed
    <2>3. Faithful(status, flight, retryTimers)
      BY <2>1 DEF TrueCounts
    <2>4. /\ Faithful(status', flight', retryTimers)
          /\ UnsettledOf(status') = UnsettledOf(status)
          /\ \A j \in Jobs : flight'[j] = "accepted" <=> flight[j] = "accepted"
          /\ UnsettledOf(status) = {} => flight' = flight
      BY <1>2, <1>3, <2>1, <2>2, <2>3, ProcessNextKeepsCounts
    <2>5. HeardOf(flight', delivered) = HeardOf(flight, delivered)
      BY <2>4 DEF HeardOf
    <2> QED  BY <1>2, <2>1, <2>4, <2>5, SameCounts DEF Settled
  <1>4. CASE ~dbOpen
    BY <1>2, <1>4, SameCounts DEF Settled, Open
  <1> QED  BY <1>3, <1>4

\* An answer counts once processJob hears of it, not before.
LEMMA ProviderKeepsCounts ==
    ASSUME BaseInv, BInv, TrueCounts, NEW j \in Jobs,
           ProviderAccepts(j) \/ ProviderRefuses(j), UNCHANGED <<monitor, deferred>>
    PROVE  TrueCounts'
  <1>1. /\ flight[j] = "sending" /\ delivered[j] = 0
        /\ flight \in [Jobs -> Flights] /\ delivered \in [Jobs -> Nat]
    BY OneChance, Unfolded
       DEF BaseInv, BInv, Typed, TypedRest, ProviderAccepts, ProviderRefuses
  <1>2. /\ UNCHANGED <<status, retryTimers, up, dbOpen>>
        /\ \A k \in Jobs : k # j => flight'[k] = flight[k] /\ delivered'[k] = delivered[k]
        /\ \/ flight'[j] = "accepted"
           \/ flight'[j] = "refused" /\ delivered'[j] = delivered[j]
    BY <1>1 DEF ProviderAccepts, ProviderRefuses, table, history
  <1>3. Open' => Faithful(status', flight', retryTimers')
    BY <1>1, <1>2 DEF TrueCounts, Faithful, Open
  <1>4. HeardOf(flight', delivered') = HeardOf(flight, delivered)
    BY <1>1, <1>2 DEF HeardOf
  <1>5. Open' /\ tracked' => Tally'
    BY <1>2, <1>4 DEF TrueCounts, Tally, monitor, Open
  <1>6. promise' # "resolved"
    BY <1>1 DEF TrueCounts, Settled, deferred
  <1> QED  BY <1>3, <1>5, <1>6 DEF TrueCounts

\* A retry timer turns a job that is retrying into one that is pending, or does nothing.
LEMMA RetryTimerKeepsCounts ==
    ASSUME BaseInv, BInv, TrueCounts, NEW j \in Jobs, RetryTimerFires(j),
           UNCHANGED <<monitor, deferred>>
    PROVE  TrueCounts'
  <1> DEFINE st == Update(status, j, "pending")
  <1>1. /\ retryTimers[j] > 0 /\ retryTimers' = [retryTimers EXCEPT ![j] = @ - 1]
        /\ UNCHANGED <<up, dbOpen, delivered>>
        /\ \/ dbOpen /\ ProcessNext(isProcessing, st, flight)
           \/ UNCHANGED <<status, flight>>
    BY DEF RetryTimerFires, Armed, history
  <1>2. /\ Typed(isProcessing, status, flight) /\ Sequential(isProcessing, flight)
        /\ retryTimers \in [Jobs -> Nat]
        /\ dbOpen => Open
    BY Unfolded DEF BInv, Open, Alive, Sound, TypedRest
  <1>3. retryTimers[j] = 1
    BY <1>1, OneChance DEF BaseInv
  <1>4. retryTimers'[j] = 0 /\ \A k \in Jobs : k # j => retryTimers'[k] = retryTimers[k]
    BY <1>1, <1>2, <1>3
  <1>5. CASE dbOpen /\ ProcessNext(isProcessing, st, flight)
    <2>1. Open /\ Faithful(status, flight, retryTimers)
      BY <1>2, <1>5 DEF TrueCounts
    <2>2. status[j] = "retrying" /\ flight[j] = "none"
      BY <1>1, <2>1 DEF Faithful
    <2>3. st = [status EXCEPT ![j] = "pending"]
      BY <2>2 DEF Update
    <2>4. /\ st[j] = "pending" /\ \A k \in Jobs : k # j => st[k] = status[k]
          /\ st \in [Jobs -> Statuses]
      BY <1>2, <2>3 DEF Typed, Statuses
    <2> HIDE DEF st
    <2>5. Faithful(st, flight, retryTimers')
      BY <1>4, <2>1, <2>2, <2>4 DEF Faithful
    <2>6. UnsettledOf(st) = UnsettledOf(status) /\ j \in UnsettledOf(status)
      BY <2>2, <2>4 DEF UnsettledOf
    <2>7. Typed(isProcessing, st, flight)
      BY <1>2, <2>4 DEF Typed
    <2>8. /\ Faithful(status', flight', retryTimers')
          /\ UnsettledOf(status') = UnsettledOf(status)
          /\ \A k \in Jobs : flight'[k] = "accepted" <=> flight[k] = "accepted"
      BY <1>2, <1>5, <2>5, <2>6, <2>7, ProcessNextKeepsCounts
    <2>9. HeardOf(flight', delivered) = HeardOf(flight, delivered)
      BY <2>8 DEF HeardOf
    <2>10. ~Settled
      BY <2>1, <2>6 DEF Settled
    <2> QED  BY <1>1, <2>1, <2>8, <2>9, <2>10, SameCounts
  <1>6. CASE UNCHANGED <<status, flight>>
    <2>1. Open' => Open /\ Faithful(status', flight', retryTimers')
      <3>1. \A k \in Jobs : retryTimers'[k] > 0 => retryTimers[k] > 0
        BY <1>1, <1>4
      <3> QED  BY <1>1, <1>6, <3>1 DEF TrueCounts, Open, Faithful
    <2> QED  BY <1>1, <1>6, <2>1, SameCounts DEF Settled
  <1> QED  BY <1>1, <1>5, <1>6

\* A step that leaves the attempts alone, and of the rows removes only settled ones.
LEMMA StillKeepsCounts ==
    ASSUME TrueCounts, UNCHANGED <<flight, delivered, monitor, deferred>>,
           Open' => /\ Open /\ retryTimers' = retryTimers
                    /\ \A j \in Jobs : \/ status'[j] = status[j]
                                       \/ status[j] \in {"completed", "failed"} /\ status'[j] = "absent"
    PROVE  TrueCounts'
  <1>1. ASSUME Open'
        PROVE  /\ Open /\ Faithful(status', flight', retryTimers')
               /\ UnsettledOf(status') = UnsettledOf(status)
    BY <1>1 DEF TrueCounts, Faithful, UnsettledOf
  <1> QED  BY <1>1, SameCounts DEF Settled

\* A step after which the database is closed, and nothing is in flight that was not.
LEMMA ClosingKeepsCounts ==
    ASSUME TrueCounts, ~Open', UNCHANGED <<delivered, monitor, deferred>>,
           flight' = flight \/ flight' = NoFlight
    PROVE  TrueCounts'
  <1>1. Settled => \A j \in Jobs : flight'[j] = "none"
    BY DEF Settled, NoFlight
  <1> QED  BY <1>1, SameCounts

\* Cleanup, shutdown, destruction and death.
LEMMA QuietStepsKeepCounts ==
    ASSUME TypeOK, TrueCounts, UNCHANGED <<monitor, deferred>>,
           \/ CleanupTick \/ Shutdown \/ ShutdownEnds \/ DestroyQueue \/ DestroyEnds
           \/ Exit \/ DiesUncaught
    PROVE  TrueCounts'
  <1>1. CASE CleanupTick
    <2>1. PICK cutoff \in Cutoffs : status' = Cleanup(status, cutoff)
      BY <1>1 DEF CleanupTick
    <2>2. \A j \in Jobs : \/ status'[j] = status[j]
                          \/ status[j] \in {"completed", "failed"} /\ status'[j] = "absent"
      BY <2>1 DEF Cleanup
    <2>3. UNCHANGED <<flight, delivered, retryTimers, up, dbOpen>>
      BY <1>1 DEF CleanupTick, process, history
    <2> QED  BY <2>2, <2>3, StillKeepsCounts DEF Open
  <1>2. CASE Shutdown
    <2>1. Open /\ UNCHANGED <<status, flight, delivered, retryTimers>>
      BY <1>2 DEF Shutdown, table, history
    <2> QED  BY <2>1, StillKeepsCounts
  <1>3. CASE DestroyQueue
    <2>1. /\ UNCHANGED <<delivered, flight, retryTimers, up>>
          /\ dbOpen' => dbOpen /\ status' = status
      BY <1>3, DestroyQueueEnds DEF DestroyQueue, Destroy
    <2> QED  BY <2>1, StillKeepsCounts DEF Open
  <1>4. CASE ShutdownEnds \/ DestroyEnds
    <2>1. ~dbOpen' /\ UNCHANGED <<delivered, flight>>
      BY <1>4 DEF ShutdownEnds, DestroyEnds, DeleteFile, history
    <2> QED  BY <2>1, ClosingKeepsCounts DEF Open
  <1>5. CASE Exit \/ DiesUncaught
    <2>1. ~dbOpen' /\ delivered' = delivered /\ flight' = NoFlight
      BY <1>5 DEF Exit, DiesUncaught, ProcessEnds
    <2> QED  BY <2>1, ClosingKeepsCounts DEF Open
  <1> QED  BY <1>1, <1>2, <1>3, <1>4, <1>5

\* The end of an attempt settles its job, unless it is to be retried, and is when
\* processJob hears of an acceptance.
LEMMA FinallyCounts ==
    ASSUME Phases, BInv, TrueCounts, Open, NEW j \in Jobs, flight[j] \in {"accepted", "refused"},
           NEW word \in {"completed", "failed", "retrying"}, Finally(j, word),
           delivered' = delivered,
           \/ retryTimers' = retryTimers
           \/ word = "retrying" /\ retryTimers' = [retryTimers EXCEPT ![j] = @ + 1]
    PROVE  /\ Faithful(status', flight', retryTimers')
           /\ j \in UnsettledOf(status)
           /\ UnsettledOf(status') = IF word = "retrying" THEN UnsettledOf(status)
                                                          ELSE UnsettledOf(status) \ {j}
           /\ j \notin HeardOf(flight, delivered)
           /\ HeardOf(flight', delivered') = IF flight[j] = "accepted"
                                               THEN HeardOf(flight, delivered) \cup {j}
                                               ELSE HeardOf(flight, delivered)
  <1> DEFINE st == Update(status, j, word)
             fl == [flight EXCEPT ![j] = "none"]
  <1>1. /\ Typed(isProcessing, status, flight) /\ Sequential(isProcessing, flight)
        /\ retryTimers \in [Jobs -> Nat]
    BY Unfolded DEF BInv, Sound, TypedRest
  <1>2. Faithful(status, flight, retryTimers)
    BY DEF TrueCounts
  <1>3. status[j] = "processing" /\ ~(retryTimers[j] > 0) /\ j \in UnsettledOf(status)
    BY <1>2 DEF Faithful, UnsettledOf
  <1>4. st = [status EXCEPT ![j] = word]
    BY <1>3 DEF Update
  <1>5. /\ st[j] = word /\ fl[j] = "none"
        /\ \A k \in Jobs : k # j => st[k] = status[k] /\ fl[k] = flight[k]
    BY <1>1, <1>4 DEF Typed
  <1>6. Typed(FALSE, st, fl)
    <2>1. st \in [Jobs -> Statuses] /\ fl \in [Jobs -> Flights]
      BY <1>1, <1>4 DEF Typed, Statuses, Flights
    <2> QED  BY <2>1 DEF Typed
  <1>7. ProcessNext(FALSE, st, fl)
    BY DEF Finally
  <1>8. /\ \A k \in Jobs : k # j => retryTimers'[k] = retryTimers[k]
        /\ word # "retrying" => ~(retryTimers'[j] > 0)
    BY <1>1, <1>3
  <1> HIDE DEF st, fl
  <1>9. Sequential(FALSE, fl)
    BY <1>1, <1>5 DEF Sequential
  <1>10. Faithful(st, fl, retryTimers')
    BY <1>2, <1>5, <1>8 DEF Faithful
  <1>11. /\ Faithful(status', flight', retryTimers')
         /\ UnsettledOf(status') = UnsettledOf(st)
         /\ \A k \in Jobs : flight'[k] = "accepted" <=> fl[k] = "accepted"
    BY <1>6, <1>7, <1>9, <1>10, ProcessNextKeepsCounts
  <1>12. UnsettledOf(st) = IF word = "retrying" THEN UnsettledOf(status)
                                                ELSE UnsettledOf(status) \ {j}
    BY <1>3, <1>5 DEF UnsettledOf
  <1>13. /\ delivered[j] \in Nat
         /\ flight[j] = "refused" => delivered[j] = 0
         /\ flight[j] = "accepted" => delivered[j] > 0
    BY OneChance
  <1>14. HeardOf(flight', delivered') = IF flight[j] = "accepted"
                                          THEN HeardOf(flight, delivered) \cup {j}
                                          ELSE HeardOf(flight, delivered)
    BY <1>5, <1>11, <1>13 DEF HeardOf
  <1>15. j \notin HeardOf(flight, delivered)
    BY <1>13 DEF HeardOf
  <1> QED  BY <1>3, <1>11, <1>12, <1>14, <1>15

AtMostOnce == \A j \in Jobs : delivered[j] <= 1

LEMMA EachAtMostOnce == BInv /\ Phases => AtMostOnce
  BY OneChance DEF AtMostOnce

\* The same after a step.
LEMMA EachAtMostOnceThen == BInv' /\ Phases' => AtMostOnce'
  BY EachAtMostOnce, PTL

\* The summary of a batch whose jobs are all settled.
LEMMA CompleteIsTrue ==
    ASSUME BInv', Phases', BatchTypeOK', Open', Faithful(status', flight', retryTimers'), Tally',
           AllRecorded, total' = total, total \in Nat,
           promise' = "resolved", summary' = [sent |-> completed', failed |-> failed']
    PROVE  SummaryCountsMessages' /\ Settled'
  <1>1. /\ UnsettledOf(status') \in SUBSET Jobs
        /\ completed' \in Nat /\ failed' \in Nat
    BY DEF UnsettledOf, BatchTypeOK
  <1>2. /\ Cardinality(UnsettledOf(status')) \in Nat
        /\ total' - completed' - failed' = Cardinality(UnsettledOf(status'))
        /\ completed' = Cardinality(HeardOf(flight', delivered'))
    BY <1>1, SetsOfJobs DEF Tally
  <1>3. /\ Cardinality(UnsettledOf(status')) = 0
        /\ completed' + failed' = total'
    BY <1>1, <1>2 DEF AllRecorded
  <1>4. UnsettledOf(status') = {}
    BY <1>1, <1>3, SetsOfJobs, FS_EmptySet
  <1>5. \A j \in Jobs : flight'[j] = "none"
    BY <1>4 DEF Faithful, UnsettledOf
  <1>6. HeardOf(flight', delivered') = {j \in Jobs : delivered'[j] > 0}
    BY <1>5 DEF HeardOf
  <1>7. \A j \in Jobs : delivered'[j] <= 1
    BY EachAtMostOnceThen DEF AtMostOnce
  <1> QED  BY <1>2, <1>3, <1>4, <1>5, <1>6, <1>7 DEF SummaryCountsMessages, Settled

\* recordSuccess and recordFailure, where nothing throws.
LEMMA RecordKeepsCounts ==
    ASSUME BaseInv, BaseInv', BInv', TrueCounts, Open', promise # "resolved",
           Faithful(status', flight', retryTimers'),
           NEW ok \in {0, 1}, NEW bad \in {0, 1}, Record(ok, bad),
           tracked /\ Counted(ok, bad) => Tally'
    PROVE  TrueCounts'
  <1>1. CASE ~tracked /\ UNCHANGED <<monitor, deferred>>
    BY <1>1 DEF TrueCounts, monitor, deferred
  <1>2. CASE tracked /\ Counted(ok, bad) /\ ~AllRecorded /\ UNCHANGED <<tracked, deferred>>
    BY <1>2 DEF TrueCounts, deferred
  <1>3. CASE tracked /\ Counted(ok, bad) /\ AllRecorded /\ Complete
    <2>1. Tally' /\ total' = total /\ total \in Nat
      BY <1>3, ConstantsAssumption DEF Record, BaseInv, BatchTypeOK
    <2>2. promise' = "resolved" => summary' = [sent |-> completed', failed |-> failed']
      BY <1>3 DEF Complete, deferred
    <2>3. promise' = "resolved" => SummaryCountsMessages' /\ Settled'
      BY <1>3, <2>1, <2>2, CompleteIsTrue DEF BaseInv
    <2> QED  BY <2>1, <2>3 DEF TrueCounts
  <1> QED  BY <1>1, <1>2, <1>3 DEF Record

LEMMA AnswersKeepCounts ==
    ASSUME BaseInv, BaseInv', BInv, BInv', TrueCounts, NEW j \in Jobs,
           JobSucceeds(j) \/ JobFails(j)
    PROVE  TrueCounts'
  <1>1. /\ Open /\ Open' /\ delivered' = delivered /\ Phases
        /\ flight[j] \in {"accepted", "refused"}
    BY DEF JobSucceeds, JobFails, Succeed, Fail, Accepted, Refused, Open, history, BaseInv
  <1>2. promise # "resolved"
    BY <1>1 DEF TrueCounts, Settled
  <1>3. /\ UnsettledOf(status) \in SUBSET Jobs /\ HeardOf(flight, delivered) \in SUBSET Jobs
        /\ total \in Nat /\ completed \in Nat /\ failed \in Nat
    BY ConstantsAssumption DEF UnsettledOf, HeardOf, BaseInv, BatchTypeOK
  <1>4. /\ IsFiniteSet(UnsettledOf(status)) /\ Cardinality(UnsettledOf(status)) \in Nat
        /\ IsFiniteSet(HeardOf(flight, delivered)) /\ Cardinality(HeardOf(flight, delivered)) \in Nat
    BY <1>3, SetsOfJobs
  <1>5. tracked => Tally
    BY <1>1 DEF TrueCounts
  <1>6. CASE JobSucceeds(j)
    <2>1. /\ Finally(j, "completed") /\ retryTimers' = retryTimers /\ flight[j] = "accepted"
          /\ Record(1, 0)
      BY <1>6 DEF JobSucceeds, Succeed, Accepted
    <2>2. /\ Faithful(status', flight', retryTimers')
          /\ j \in UnsettledOf(status) /\ UnsettledOf(status') = UnsettledOf(status) \ {j}
          /\ j \notin HeardOf(flight, delivered)
          /\ HeardOf(flight', delivered') = HeardOf(flight, delivered) \cup {j}
      BY <1>1, <2>1, FinallyCounts
    <2>3. /\ Cardinality(UnsettledOf(status')) = Cardinality(UnsettledOf(status)) - 1
          /\ Cardinality(HeardOf(flight', delivered')) = Cardinality(HeardOf(flight, delivered)) + 1
      BY <1>4, <2>2, FS_RemoveElement, FS_AddElement
    <2>4. total' = total
      BY <2>1 DEF Record
    <2>5. tracked /\ Counted(1, 0) => Tally'
      BY <1>3, <1>4, <1>5, <2>3, <2>4 DEF Tally, Counted
    <2> QED  BY <1>1, <1>2, <2>1, <2>2, <2>5, RecordKeepsCounts
  <1>7. CASE JobFails(j)
    <2>1. CASE MayRetry(j)
      <3>1. /\ Finally(j, "retrying") /\ flight[j] = "refused" /\ Unmonitored
            /\ retryTimers' = [retryTimers EXCEPT ![j] = @ + 1]
        BY <1>7, <2>1 DEF JobFails, Fail, Refused
      <3>2. /\ Faithful(status', flight', retryTimers')
            /\ UnsettledOf(status') = UnsettledOf(status)
            /\ HeardOf(flight', delivered') = HeardOf(flight, delivered)
        BY <1>1, <3>1, FinallyCounts
      <3>3. ~Settled
        BY <1>1 DEF Settled
      <3> QED  BY <1>1, <3>1, <3>2, <3>3, SameCounts DEF Unmonitored
    <2>2. CASE ~MayRetry(j)
      <3>1. /\ Finally(j, "failed") /\ flight[j] = "refused" /\ Record(0, 1)
            /\ retryTimers' = retryTimers
        BY <1>7, <2>2 DEF JobFails, Fail, Refused
      <3>2. /\ Faithful(status', flight', retryTimers')
            /\ j \in UnsettledOf(status) /\ UnsettledOf(status') = UnsettledOf(status) \ {j}
            /\ HeardOf(flight', delivered') = HeardOf(flight, delivered)
        BY <1>1, <3>1, FinallyCounts
      <3>3. Cardinality(UnsettledOf(status')) = Cardinality(UnsettledOf(status)) - 1
        BY <1>4, <3>2, FS_RemoveElement
      <3>4. total' = total
        BY <3>1 DEF Record
      <3>5. tracked /\ Counted(0, 1) => Tally'
        BY <1>3, <1>4, <1>5, <3>2, <3>3, <3>4 DEF Tally, Counted
      <3> QED  BY <1>1, <1>2, <3>1, <3>2, <3>5, RecordKeepsCounts
    <2> QED  BY <2>1, <2>2
  <1> QED  BY <1>6, <1>7

-----------------------------------------------------------------------------
(***************************************************************************)
(* How often a message of a batch is sent when callbacks throw.  One       *)
(* chance at a time remains, and so does the limit of attempts: a success  *)
(* that is taken for a failure is retried only as a failure would be.      *)
(***************************************************************************)
Rationed(j, st, fl, at, tm, dl) ==
    /\ Chances(st, tm, j) + Underway(fl, j) <= 1
    /\ at[j] + Chances(st, tm, j) <= Limit
    /\ dl[j] + Unsent(fl, j) <= at[j]

AllRationed(st, fl, at, tm, dl) == \A j \in Jobs : Rationed(j, st, fl, at, tm, dl)

Untried == \A j \in Jobs : attempts[j] = 0 /\ retryTimers[j] = 0 /\ delivered[j] = 0

AInv ==
    /\ AllRationed(status, flight, attempts, retryTimers, delivered)
    /\ starts = 0 => ~isRunning /\ Idle(status, flight) /\ Untried

\* Fewer chances, and nothing more under way, keep a job within its ration.
LEMMA LessIsRationed ==
    ASSUME IInv, NEW j \in Jobs, NEW st, NEW fl, NEW tm, tm[j] \in Nat,
           Rationed(j, status, flight, attempts, retryTimers, delivered),
           Chances(st, tm, j) <= Chances(status, retryTimers, j),
           fl[j] = flight[j] \/ fl[j] = "none"
    PROVE  Rationed(j, st, fl, attempts, tm, delivered)
  <1>1. /\ Limit \in Nat
        /\ attempts[j] \in Nat /\ retryTimers[j] \in Nat /\ delivered[j] \in Nat
    BY Amounts
  <1>2. /\ Chances(st, tm, j) \in Nat /\ Chances(status, retryTimers, j) \in Nat
    BY <1>1 DEF Chances
  <1>3. /\ Underway(fl, j) \in Nat /\ Underway(flight, j) \in Nat
        /\ Unsent(fl, j) \in Nat /\ Unsent(flight, j) \in Nat
        /\ Underway(fl, j) <= Underway(flight, j) /\ Unsent(fl, j) <= Unsent(flight, j)
    BY DEF Underway, Unsent
  <1> QED  BY <1>1, <1>2, <1>3 DEF Rationed

\* An attempt that begins uses its job's only chance.
LEMMA ProcessNextKeepsRations ==
    ASSUME IInv, NEW busy, NEW st, NEW fl, NEW tm, NEW dl,
           Typed(busy, st, fl), Sequential(busy, fl),
           \A j \in Jobs : tm[j] \in Nat /\ dl[j] \in Nat,
           AllRationed(st, fl, attempts, tm, dl), ProcessNext(busy, st, fl)
    PROVE  AllRationed(status', flight', attempts', tm, dl)
  <1>1. CASE Leave(busy, st, fl)
    BY <1>1 DEF Leave
  <1>2. ASSUME CanProcess(busy), NEW j \in Oldest(Ready(st)), Attempt(j, st, fl)
        PROVE  AllRationed(status', flight', attempts', tm, dl)
    <2>1. j \in Jobs /\ st[j] = "pending" /\ fl[j] = "none"
      BY <1>2 DEF Oldest, Ready, CanProcess, Typed, Sequential
    <2>2. attempts \in [Jobs -> Nat] /\ Limit \in Nat
      BY Unfolded, Amounts
    <2>3. /\ status'[j] = "processing" /\ flight'[j] = "sending"
          /\ attempts'[j] = attempts[j] + 1
          /\ \A k \in Jobs : k # j => /\ status'[k] = st[k] /\ flight'[k] = fl[k]
                                      /\ attempts'[k] = attempts[k]
      BY <1>2, <2>1, <2>2 DEF Attempt, Typed
    <2>4. ASSUME NEW k \in Jobs, k # j  PROVE Rationed(k, status', flight', attempts', tm, dl)
      BY <2>3, <2>4 DEF AllRationed, Rationed, Chances, Underway, Unsent
    <2>5. Rationed(j, status', flight', attempts', tm, dl)
      <3>1. Rationed(j, st, fl, attempts, tm, dl) /\ tm[j] \in Nat /\ dl[j] \in Nat
        BY <2>1 DEF AllRationed
      <3>2. /\ Chances(st, tm, j) = tm[j] + 1 /\ Chances(status', tm, j) = tm[j]
            /\ Underway(fl, j) = 0 /\ Underway(flight', j) = 1
            /\ Unsent(fl, j) = 0 /\ Unsent(flight', j) = 1
        BY <2>1, <2>3, <3>1 DEF Chances, Underway, Unsent
      <3> QED  BY <2>1, <2>2, <2>3, <3>1, <3>2 DEF Rationed
    <2> QED  BY <2>4, <2>5 DEF AllRationed
  <1> QED  BY <1>1, <1>2 DEF ProcessNext

\* An attempt that is over gives its chance back only if it may be retried.
LEMMA FinallyKeepsRations ==
    ASSUME IInv, AInv, NEW j \in Jobs, flight[j] \in {"accepted", "refused"},
           NEW word \in {"completed", "failed", "retrying"}, Finally(j, word),
           UNCHANGED <<delivered, starts>>,
           \/ retryTimers' = retryTimers
           \/ MayRetry(j) /\ retryTimers' = [retryTimers EXCEPT ![j] = @ + 1]
    PROVE  AInv'
  <1> DEFINE st == Update(status, j, word)
             fl == [flight EXCEPT ![j] = "none"]
  <1>1. /\ Typed(isProcessing, status, flight) /\ Sequential(isProcessing, flight)
        /\ retryTimers \in [Jobs -> Nat] /\ delivered \in [Jobs -> Nat]
    BY Unfolded DEF Sound, TypedRest
  <1>2. retryTimers' \in [Jobs -> Nat]
    BY <1>1
  <1>3. /\ fl[j] = "none" /\ st[j] # "pending"
        /\ \A k \in Jobs : k # j => st[k] = status[k] /\ fl[k] = flight[k]
    BY <1>1 DEF Update, Typed
  <1>4. Typed(FALSE, st, fl)
    BY <1>1 DEF Typed, Update, Statuses, Flights
  <1>5. ProcessNext(FALSE, st, fl)
    BY DEF Finally
  <1> HIDE DEF st, fl
  <1>6. Sequential(FALSE, fl)
    BY <1>1, <1>3 DEF Sequential
  <1>7. ASSUME NEW k \in Jobs, k # j
        PROVE  Rationed(k, st, fl, attempts, retryTimers', delivered)
    <2>1. retryTimers'[k] = retryTimers[k]
      BY <1>1, <1>7
    <2> QED
      BY <1>3, <1>7, <2>1 DEF AInv, AllRationed, Rationed, Chances, Underway, Unsent
  <1>8. Rationed(j, st, fl, attempts, retryTimers', delivered)
    <2>1. /\ Rationed(j, status, flight, attempts, retryTimers, delivered)
          /\ attempts[j] \in Nat /\ retryTimers[j] \in Nat /\ delivered[j] \in Nat
          /\ Limit \in Nat /\ Limit >= 1
      BY Amounts DEF AInv, AllRationed
    <2>2. /\ Chances(status, retryTimers, j) \in Nat
          /\ Chances(status, retryTimers, j) >= retryTimers[j]
          /\ Chances(st, retryTimers', j) = retryTimers'[j]
      BY <1>2, <1>3, <2>1 DEF Chances
    <2>3. /\ Underway(flight, j) = 1 /\ Underway(fl, j) = 0
          /\ Unsent(flight, j) \in Nat /\ Unsent(fl, j) = 0
      BY <1>3 DEF Underway, Unsent
    <2>4. retryTimers[j] = 0
      BY <2>1, <2>2, <2>3 DEF Rationed
    <2>5. \/ retryTimers'[j] = 0
          \/ retryTimers'[j] = 1 /\ attempts[j] + 1 <= Limit
      BY <1>1, <2>1, <2>4, ConstantsAssumption DEF MayRetry, Limit
    <2>6. Underway(fl, j) + Chances(st, retryTimers', j) <= 1
      BY <2>2, <2>3, <2>5
    <2>7. attempts[j] + Chances(st, retryTimers', j) <= Limit
      BY <2>1, <2>2, <2>5 DEF Rationed
    <2>8. delivered[j] + Unsent(fl, j) <= attempts[j]
      BY <2>1, <2>3 DEF Rationed
    <2> QED  BY <1>2, <2>2, <2>3, <2>6, <2>7, <2>8 DEF Rationed
  <1>9. AllRationed(status', flight', attempts', retryTimers', delivered)
    BY <1>1, <1>2, <1>4, <1>5, <1>6, <1>7, <1>8, ProcessNextKeepsRations DEF AllRationed
  <1>10. starts' # 0
    BY DEF AInv, Idle
  <1> QED  BY <1>9, <1>10 DEF AInv

\* A step that begins nothing keeps the rations: of the rows it removes some, of the
\* timers and of what is under way it leaves all or none.
LEMMA LeavingKeepsRations ==
    ASSUME IInv, AInv, UNCHANGED <<attempts, delivered, starts>>, isRunning' => isRunning,
           flight' = flight \/ flight' = NoFlight,
           retryTimers' = retryTimers \/ retryTimers' = [j \in Jobs |-> 0],
           \A j \in Jobs : status'[j] = status[j] \/ status'[j] = "absent"
    PROVE  AInv'
  <1>1. \A j \in Jobs : /\ retryTimers[j] \in Nat
                        /\ retryTimers'[j] = retryTimers[j] \/ retryTimers'[j] = 0
                        /\ flight'[j] = flight[j] \/ flight'[j] = "none"
    BY Amounts DEF NoFlight
  <1>2. ASSUME NEW j \in Jobs
        PROVE  Rationed(j, status', flight', attempts, retryTimers', delivered)
    <2>1. retryTimers'[j] \in Nat /\ Rationed(j, status, flight, attempts, retryTimers, delivered)
      BY <1>1 DEF AInv, AllRationed
    <2>2. Chances(status', retryTimers', j) <= Chances(status, retryTimers, j)
      BY <1>1 DEF Chances
    <2> QED  BY <1>1, <2>1, <2>2, LessIsRationed
  <1>3. starts' = 0 => ~isRunning' /\ Idle(status', flight') /\ Untried'
    BY <1>1 DEF AInv, Idle, Untried
  <1> QED  BY <1>2, <1>3 DEF AInv, AllRationed

\* addBatch() gives every message its first chance.
LEMMA AddBatchKeepsRations ==
    ASSUME BaseInv, AInv, stage = "new", NEW k \in 0..N, AddBatch(k)
    PROVE  AInv'
  <1>1. IInv /\ starts = 0 /\ ~isRunning /\ Idle(status, flight) /\ Untried
    BY DEF BaseInv, Phases, AInv
  <1>2. /\ UNCHANGED <<isRunning, retryTimers, delivered, starts>>
        /\ ProcessNext(isProcessing,
                       [j \in Jobs |-> IF j \in (created + 1)..created' THEN "pending" ELSE status[j]],
                       flight)
    BY DEF AddBatch, Insert, control, history
  <1>3. /\ status' = [j \in Jobs |-> IF j \in (created + 1)..created' THEN "pending" ELSE status[j]]
        /\ UNCHANGED <<flight, attempts>>
    BY <1>1, <1>2 DEF ProcessNext, CanProcess, Leave
  <1>4. Idle(status', flight') /\ Untried'
    BY <1>1, <1>2, <1>3 DEF Idle, Untried
  <1>5. ASSUME NEW j \in Jobs
        PROVE  Rationed(j, status', flight', attempts', retryTimers', delivered')
    <2>1. /\ attempts'[j] = 0 /\ retryTimers'[j] = 0 /\ delivered'[j] = 0
          /\ Underway(flight', j) = 0 /\ Unsent(flight', j) = 0
      BY <1>4 DEF Idle, Untried, Underway, Unsent
    <2>2. Chances(status', retryTimers', j) \in {0, 1}
      BY <2>1 DEF Chances
    <2> QED  BY <1>1, <2>1, <2>2, Amounts DEF Rationed
  <1> QED  BY <1>1, <1>2, <1>4, <1>5 DEF AInv, AllRationed

\* start() restores nothing.
LEMMA BeginKeepsRations ==
    ASSUME BaseInv, AInv, Begin
    PROVE  AInv'
  <1>1. IInv /\ starts = 0 /\ Idle(status, flight)
    BY DEF BaseInv, Phases, Begin, AInv
  <1>2. /\ starts' = starts + 1 /\ UNCHANGED <<retryTimers, delivered>>
        /\ \/ ProcessNext(isProcessing, Restore(status), flight)
           \/ UNCHANGED <<status, attempts, flight>>
    BY DEF Begin, Start
  <1>3. Typed(isProcessing, status, flight) /\ Sequential(isProcessing, flight)
    BY <1>1, Unfolded DEF Sound
  <1>4. Restore(status) = status
    BY <1>1, <1>3 DEF Restore, Idle, Typed
  <1>5. AllRationed(status', flight', attempts', retryTimers, delivered)
    <2>1. CASE ProcessNext(isProcessing, Restore(status), flight)
      BY <1>1, <1>3, <1>4, <2>1, Amounts, ProcessNextKeepsRations DEF AInv
    <2>2. CASE UNCHANGED <<status, attempts, flight>>
      BY <2>2 DEF AInv
    <2> QED  BY <1>2, <2>1, <2>2
  <1> QED  BY <1>1, <1>2, <1>5 DEF AInv

\* An attempt delivers its message at most once.
LEMMA ProviderKeepsRations ==
    ASSUME IInv, AInv, NEW j \in Jobs, ProviderAccepts(j) \/ ProviderRefuses(j)
    PROVE  AInv'
  <1>1. flight \in [Jobs -> Flights] /\ delivered \in [Jobs -> Nat]
    BY Unfolded DEF Typed, TypedRest
  <1>2. /\ flight[j] = "sending"
        /\ UNCHANGED <<status, attempts, retryTimers, isRunning, starts>>
        /\ \A k \in Jobs : k # j => flight'[k] = flight[k] /\ delivered'[k] = delivered[k]
        /\ \/ flight'[j] = "accepted" /\ delivered'[j] = delivered[j] + 1
           \/ flight'[j] = "refused" /\ delivered'[j] = delivered[j]
    BY <1>1 DEF ProviderAccepts, ProviderRefuses, table, control, history
  <1>3. ASSUME NEW k \in Jobs, k # j
        PROVE  Rationed(k, status, flight', attempts, retryTimers, delivered')
    BY <1>2, <1>3 DEF AInv, AllRationed, Rationed, Underway, Unsent
  <1>4. Rationed(j, status, flight', attempts, retryTimers, delivered')
    <2>1. /\ Rationed(j, status, flight, attempts, retryTimers, delivered)
          /\ delivered[j] \in Nat /\ attempts[j] \in Nat
      BY Amounts DEF AInv, AllRationed
    <2>2. /\ Underway(flight', j) = Underway(flight, j)
          /\ Unsent(flight, j) = 1
          /\ delivered'[j] + Unsent(flight', j) = delivered[j] + 1
      BY <1>2, <2>1 DEF Underway, Unsent
    <2> QED  BY <2>1, <2>2 DEF Rationed
  <1>5. starts # 0
    BY <1>2 DEF AInv, Idle
  <1> QED  BY <1>2, <1>3, <1>4, <1>5 DEF AInv, AllRationed

\* A retry timer hands its chance to the row, or wastes it.
LEMMA RetryTimerKeepsRations ==
    ASSUME IInv, AInv, NEW j \in Jobs, RetryTimerFires(j)
    PROVE  AInv'
  <1> DEFINE st == Update(status, j, "pending")
  <1>1. /\ retryTimers[j] > 0 /\ retryTimers' = [retryTimers EXCEPT ![j] = @ - 1]
        /\ UNCHANGED <<delivered, starts>>
        /\ \/ ProcessNext(isProcessing, st, flight)
           \/ UNCHANGED <<status, attempts, flight>>
    BY DEF RetryTimerFires, Armed, history
  <1>2. /\ Typed(isProcessing, status, flight) /\ Sequential(isProcessing, flight)
        /\ retryTimers \in [Jobs -> Nat]
    BY Unfolded DEF Sound, TypedRest
  <1>3. /\ retryTimers' \in [Jobs -> Nat]
        /\ retryTimers'[j] = retryTimers[j] - 1
        /\ \A k \in Jobs : k # j => retryTimers'[k] = retryTimers[k]
    BY <1>1, <1>2
  <1>4. /\ \A k \in Jobs : k # j => st[k] = status[k]
        /\ Typed(isProcessing, st, flight)
    BY <1>2 DEF Update, Typed, Statuses
  <1> HIDE DEF st
  <1>5. ASSUME NEW s, s = st \/ s = status
        PROVE  AllRationed(s, flight, attempts, retryTimers', delivered)
    <2> SUFFICES ASSUME NEW k \in Jobs
                 PROVE  Rationed(k, s, flight, attempts, retryTimers', delivered)
      BY DEF AllRationed
    <2>1. retryTimers'[k] \in Nat /\ retryTimers[k] \in Nat
      BY <1>2, <1>3
    <2>2. Chances(s, retryTimers', k) <= Chances(status, retryTimers, k)
      <3>1. CASE k = j
        BY <1>3, <2>1, <3>1 DEF Chances
      <3>2. CASE k # j
        BY <1>3, <1>4, <1>5, <2>1, <3>2 DEF Chances
      <3> QED  BY <3>1, <3>2
    <2> QED  BY <2>1, <2>2, LessIsRationed DEF AInv, AllRationed
  <1>6. AllRationed(status', flight', attempts', retryTimers', delivered)
    <2>1. CASE ProcessNext(isProcessing, st, flight)
      BY <1>2, <1>3, <1>4, <1>5, <2>1, Amounts, ProcessNextKeepsRations
    <2>2. CASE UNCHANGED <<status, attempts, flight>>
      BY <1>5, <2>2
    <2> QED  BY <1>1, <2>1, <2>2
  <1>7. starts # 0
    BY <1>1 DEF AInv, Untried
  <1> QED  BY <1>1, <1>6, <1>7 DEF AInv

\* What processJob makes of an answer, callbacks that throw included.
LEMMA AnswersKeepRations ==
    ASSUME IInv, AInv, NEW j \in Jobs, Succeed(j) \/ Fail(j) \/ SuccessTakenForFailure(j)
    PROVE  AInv'
  <1>1. flight[j] \in {"accepted", "refused"} /\ UNCHANGED <<delivered, starts>>
    BY DEF Succeed, Fail, SuccessTakenForFailure, Accepted, Refused, history
  <1>2. \/ Finally(j, "completed") /\ retryTimers' = retryTimers
        \/ Finally(j, "failed") /\ retryTimers' = retryTimers
        \/ /\ Finally(j, "retrying") /\ MayRetry(j)
           /\ retryTimers' = [retryTimers EXCEPT ![j] = @ + 1]
    BY DEF Succeed, Fail, SuccessTakenForFailure
  <1> QED  BY <1>1, <1>2, FinallyKeepsRations

\* Cleanup, shutdown, destruction and death.
LEMMA QuietStepsKeepRations ==
    ASSUME IInv, AInv,
           \/ CleanupTick \/ Shutdown \/ ShutdownEnds \/ Destroy \/ DestroyEnds
           \/ Exit \/ DiesUncaught \/ \E j \in Jobs : FailureThrows(j)
    PROVE  AInv'
  <1>1. CASE CleanupTick
    <2>1. \A j \in Jobs : status'[j] = status[j] \/ status'[j] = "absent"
      BY <1>1 DEF CleanupTick, Cleanup
    <2> QED  BY <1>1, <2>1, LeavingKeepsRations DEF CleanupTick, process, control, history
  <1>2. CASE Shutdown \/ ShutdownEnds
    BY <1>2, LeavingKeepsRations DEF Shutdown, ShutdownEnds, table, control, history
  <1>3. CASE Destroy \/ DestroyEnds
    <2>1. \A j \in Jobs : status'[j] = status[j] \/ status'[j] = "absent"
      BY <1>3 DEF Destroy, DestroyEnds, DeleteFile
    <2> QED  BY <1>3, <2>1, LeavingKeepsRations DEF Destroy, DestroyEnds, control, history
  <1>4. CASE ProcessEnds /\ delivered' = delivered
    BY <1>4, LeavingKeepsRations DEF ProcessEnds, table
  <1> QED  BY <1>1, <1>2, <1>3, <1>4 DEF Exit, DiesUncaught, FailureThrows

LEMMA NextKeepsRations ==
    ASSUME BaseInv, AInv, [BatchNext]_batchVars
    PROVE  AInv'
  <1>1. IInv
    BY DEF BaseInv
  <1>2. ASSUME NEW k \in 0..N, SendBatch(k)  PROVE AInv'
    BY <1>1, <1>2, AddBatchKeepsRations, QuietStepsKeepRations, DestroyQueueIsDestroy
       DEF SendBatch
  <1>3. CASE Begin
    BY <1>3, BeginKeepsRations
  <1>4. CASE TimeoutFires \/ UNCHANGED batchVars
    <2>1. UNCHANGED vars
      BY <1>4 DEF TimeoutFires, batchVars
    <2> QED
      BY <1>1, <2>1, LeavingKeepsRations DEF vars, table, process, control, history
  <1>5. CASE LeaveWait \/ DestroyReturns
    BY <1>1, <1>5, QuietStepsKeepRations, DestroyQueueIsDestroy DEF LeaveWait, DestroyReturns
  <1>6. ASSUME NEW j \in Jobs, Work(j)  PROVE AInv'
    BY <1>1, <1>6, ProviderKeepsRations, RetryTimerKeepsRations, AnswersKeepRations,
       QuietStepsKeepRations DEF Work, JobSucceeds, JobFails
  <1>7. CASE CleanupTick \/ Signal \/ ShutdownEnds \/ Exit \/ DiesUncaught
    BY <1>1, <1>7, QuietStepsKeepRations DEF Signal
  <1> QED  BY <1>2, <1>3, <1>4, <1>5, <1>6, <1>7 DEF BatchNext

-----------------------------------------------------------------------------
(***************************************************************************)
(* The theorems.                                                           *)
(***************************************************************************)
LEMMA NextKeepsCounts ==
    ASSUME QInv, BaseInv', BInv', ~threw', [BatchNext]_batchVars
    PROVE  TrueCounts'
  <1>1. /\ BaseInv /\ BInv /\ TrueCounts /\ TypeOK
        /\ ~threw
        /\ \A j \in Jobs : ~SuccessTakenForFailure(j) /\ ~FailureThrows(j)
    BY ThrewForGood DEF QInv, BaseInv, IInv
  <1>2. ASSUME NEW k \in 0..N, SendBatch(k)  PROVE TrueCounts'
    <2>1. /\ stage = "new" /\ AddBatch(k) /\ total' = k
          /\ UNCHANGED <<completed, failed, deferred>>
      BY <1>2 DEF SendBatch
    <2> QED  BY <1>1, <2>1, InsertKeepsCounts
  <1>3. CASE Begin
    BY <1>1, <1>3, BeginKeepsCounts
  <1>4. CASE TimeoutFires
    <2>1. /\ promise' = "rejected" /\ Open' = Open
          /\ UNCHANGED <<monitor, status, flight, retryTimers, delivered>>
      BY <1>4 DEF TimeoutFires, Open, vars, table, process, history
    <2> QED  BY <1>1, <2>1 DEF TrueCounts, Tally, monitor
  <1>5. CASE LeaveWait \/ DestroyReturns
    <2>1. /\ DestroyQueue \/ DestroyEnds
          /\ UNCHANGED <<monitor, deferred>>
      BY <1>5 DEF LeaveWait, DestroyReturns
    <2> QED  BY <1>1, <2>1, QuietStepsKeepCounts
  <1>6. ASSUME NEW j \in Jobs, Work(j)  PROVE TrueCounts'
    BY <1>1, <1>6, ProviderKeepsCounts, RetryTimerKeepsCounts, AnswersKeepCounts
       DEF Work, Unmonitored
  <1>7. CASE (CleanupTick \/ Shutdown \/ ShutdownEnds \/ Exit \/ DiesUncaught) /\ Unmonitored
    BY <1>1, <1>7, QuietStepsKeepCounts DEF Unmonitored
  <1>8. CASE UNCHANGED batchVars
    BY <1>1, <1>8, StillKeepsCounts
       DEF batchVars, vars, table, process, history, Open
  <1> QED  BY <1>2, <1>3, <1>4, <1>5, <1>6, <1>7, <1>8 DEF BatchNext, Signal

LEMMA NextKeepsQInv ==
    ASSUME QInv, [BatchNext]_batchVars
    PROVE  QInv'
  <1>1. BaseInv'
    BY NextKeepsBaseInv DEF QInv
  <1>2. ASSUME ~threw'  PROVE BInv' /\ TrueCounts'
    <2>1. [Next]_vars /\ BInv
      BY <1>2, ThrewForGood, BatchStepIsQueueStep DEF QInv, BaseInv
    <2>2. BInv'
      BY <2>1, NextKeepsBudget
    <2> QED  BY <1>1, <1>2, <2>2, NextKeepsCounts
  <1> QED  BY <1>1, <1>2 DEF QInv

LEMMA InitEstablishesQInv ==
    ASSUME BatchInit
    PROVE  QInv
  <1>1. BInv /\ IInv
    BY InitEstablishesBudget DEF BatchInit, BInv
  <1>2. BatchTypeOK
    <2>1. 0 \in 0..N /\ [sent |-> 0, failed |-> 0] \in [sent : Nat, failed : Nat]
      BY ConstantsAssumption
    <2> QED  BY <1>1, <2>1 DEF BatchInit, BatchTypeOK, Stages, IInv
  <1>3. Phases
    BY DEF BatchInit, Init, Phases, Over, FileIsDeleted
  <1>4. Faithful(status, flight, retryTimers)
    BY DEF BatchInit, Init, NoFlight, Faithful
  <1>5. TrueCounts
    BY <1>4 DEF BatchInit, TrueCounts
  <1> QED  BY <1>1, <1>2, <1>3, <1>5 DEF QInv, BaseInv

\* The inductive invariant holds in every reachable state of a batch.
THEOREM BatchInvariance == BatchSpec => []QInv
  <1>1. BatchInit => QInv
    BY InitEstablishesQInv
  <1>2. QInv /\ [BatchNext]_batchVars => QInv'
    BY NextKeepsQInv
  <1> QED  BY <1>1, <1>2, PTL DEF BatchSpec

\* The call, the monitor and the queue keep their types.
THEOREM BatchTypeCorrect == BatchSpec => []BatchTypeOK
  <1>1. QInv => BatchTypeOK
    BY DEF QInv, BaseInv
  <1> QED  BY <1>1, BatchInvariance, PTL

\* Unless a callback throws, the monitor's counts agree with the table, for batches of
\* every size, whatever is retried, cleaned up or shut down.
THEOREM RemainingCountIsTrue == BatchSpec => []RemainingIsTrue
  <1>1. QInv => RemainingIsTrue
    BY DEF QInv, TrueCounts, Tally, RemainingIsTrue, Unsettled, UnsettledOf
  <1> QED  BY <1>1, BatchInvariance, PTL

\* Unless a callback throws, a batch that completes reports as sent the messages the
\* provider accepted, each of them once, and as failed all the others.
THEOREM SummariesAreTrue == BatchSpec => []SummaryIsTrue
  <1>1. QInv => SummaryIsTrue
    BY DEF QInv, TrueCounts, SummaryIsTrue, SummaryCountsMessages
  <1> QED  BY <1>1, BatchInvariance, PTL

\* Not even a callback that throws puts two messages of a batch on their way at once,
\* has a message begun early, or has one recorded as completed that was not delivered.
THEOREM QueueStaysSound == BatchSpec => [](OneAtATime /\ NeverEarly /\ CompletedWasDelivered)
  <1>1. QInv => OneAtATime /\ NeverEarly /\ CompletedWasDelivered
    BY DEF QInv, BaseInv, IInv, Sound, Sequential, OnTime, Vouched, OneAtATime, NeverEarly,
           CompletedWasDelivered, InFlight
  <1> QED  BY <1>1, BatchInvariance, PTL

\* As long as no callback throws, the queue of a batch is an SQLiteQueue, monitor and
\* driver notwithstanding: it implements EmailQueue too.
THEOREM QueueOfABatch == BatchSpec /\ []~threw => Spec /\ KeepsPromise
  <1>1. BatchInit => Init
    BY DEF BatchInit
  <1>2. QInv /\ [BatchNext]_batchVars /\ ~threw' => [Next]_vars
    BY ThrewForGood, BatchStepIsQueueStep DEF QInv, BaseInv
  <1>3. BatchSpec /\ []~threw => Spec
    BY <1>1, <1>2, BatchInvariance, PTL DEF BatchSpec, Spec
  <1> QED  BY <1>3, Refinement, PTL

\* Even if callbacks throw: a success that processJob takes for a failure is sent again,
\* but never more often than a failure would be.
THEOREM RetriesAreBounded == BatchSpec => []SendsAreBounded
  <1>1. BatchInit => AInv
    <2> SUFFICES ASSUME BatchInit  PROVE AInv
      OBVIOUS
    <2>1. BInv /\ IInv
      BY InitEstablishesBudget DEF BatchInit, BInv
    <2>2. starts = 0 /\ Untried /\ ~isRunning /\ Idle(status, flight)
      BY DEF BatchInit, Init, Untried, Idle, NoFlight
    <2>3. \A j \in Jobs : status[j] = "absent"
      BY DEF BatchInit, Init
    <2>4. ASSUME NEW j \in Jobs
          PROVE  Rationed(j, status, flight, attempts, retryTimers, delivered)
      BY <2>1, <2>2, <2>3, Amounts
         DEF Rationed, Chances, Underway, Unsent, Untried, Idle
    <2> QED  BY <2>2, <2>4 DEF AInv, AllRationed
  <1>2. QInv /\ AInv /\ [BatchNext]_batchVars => AInv'
    BY NextKeepsRations DEF QInv
  <1>3. QInv /\ AInv => SendsAreBounded
    <2> SUFFICES ASSUME IInv, AInv, NEW j \in Jobs
                 PROVE  delivered[j] <= attempts[j] /\ attempts[j] <= Limit
      BY DEF QInv, BaseInv, SendsAreBounded, Limit
    <2>1. /\ Rationed(j, status, flight, attempts, retryTimers, delivered)
          /\ attempts[j] \in Nat /\ delivered[j] \in Nat /\ retryTimers[j] \in Nat
          /\ Limit \in Nat
      BY Amounts DEF AInv, AllRationed
    <2>2. Chances(status, retryTimers, j) \in Nat /\ Unsent(flight, j) \in Nat
      BY <2>1 DEF Chances, Unsent
    <2> QED  BY <2>1, <2>2 DEF Rationed
  <1> QED  BY <1>1, <1>2, <1>3, BatchInvariance, PTL DEF BatchSpec

\* A sendBatch that returns has deleted the file of its queue.
THEOREM FilesAreDeleted == BatchSpec => []FileIsDeleted
  <1>1. QInv => FileIsDeleted
    BY DEF QInv, BaseInv, Phases
  <1> QED  BY <1>1, BatchInvariance, PTL

\* After sendBatch has returned, no attempt begins, and only what was in flight arrives.
THEOREM QuietAfter == BatchSpec => QuietAfterReturn
  <1>1. QInv /\ [BatchNext]_batchVars =>
          [Over => /\ attempts' = attempts
                   /\ \A j \in Jobs : delivered'[j] # delivered[j] => flight[j] = "sending"]_batchVars
    BY StillAfterReturn DEF QInv, table
  <1> QED  BY <1>1, BatchInvariance, PTL DEF BatchSpec, QuietAfterReturn

-----------------------------------------------------------------------------
(***************************************************************************)
(* Both ways of sendBatch.  What holds of either holds of the dispatcher.  *)
(***************************************************************************)
\* Seen by a queue and its driver, the dispatcher runs one batch, or none at all.
THEOREM DispatchIsQueueBatch == DispatchSpec => BatchSpec
  <1>1. DispatchInit => BatchInit
    BY DEF DispatchInit
  <1>2. [DispatchNext]_dispatchVars => [BatchNext]_batchVars
    BY DEF DispatchNext, dispatchVars
  <1> QED  BY <1>1, <1>2, PTL DEF DispatchSpec, BatchSpec

\* So it does as seen by the provider's batch call.
THEOREM DispatchIsNativeBatch == DispatchSpec => NativeSpec
  <1>1. DispatchInit => NativeInit
    BY DEF DispatchInit
  <1>2. [DispatchNext]_dispatchVars => [NativeNext]_nativeVars
    BY DEF DispatchNext, dispatchVars
  <1> QED  BY <1>1, <1>2, PTL DEF DispatchSpec, NativeSpec
=============================================================================
