------------------------- MODULE SQLiteQueueProofs -------------------------
(***************************************************************************)
(* Theorems about SQLiteQueue, for every number of rows, every maxRetries, *)
(* and every number of start() calls and restarts: that the table is sound,*)
(* that sends and attempts stay within each job's budget, and that the     *)
(* queue implements EmailQueue.                                            *)
(***************************************************************************)
EXTENDS SQLiteQueue, TLAPS

(***************************************************************************)
(* The inductive invariant, as relations between the values processNext    *)
(* works on: the flag, the status column and the attempt in flight.        *)
(***************************************************************************)
Typed(busy, st, fl) ==
    /\ busy \in BOOLEAN
    /\ st \in [Jobs -> Statuses]
    /\ fl \in [Jobs -> Flights]

Sequential(busy, fl) ==
    /\ busy <=> \E j \in Jobs : fl[j] # "none"
    /\ \A j, k \in Jobs : fl[j] # "none" /\ fl[k] # "none" => j = k

\* A provider has accepted what is recorded, or about to be recorded, as completed.
Vouched(st, fl, dl) ==
    \A j \in Jobs : st[j] = "completed" \/ fl[j] = "accepted" => dl[j] > 0

OnTime(fl, sf) == \A j \in Jobs : fl[j] # "none" => sf[j] # "future"

Inserted(st, fl, last) ==
    \A j \in Jobs : st[j] # "absent" \/ fl[j] # "none" => j <= last

Sound(busy, st, fl, sf, dl, last) ==
    /\ Sequential(busy, fl)
    /\ Vouched(st, fl, dl)
    /\ OnTime(fl, sf)
    /\ Inserted(st, fl, last)

\* Broken by the death of the process, mended by the restoring of its successor.
Attended(st, fl) == \A j \in Jobs : st[j] = "processing" => fl[j] # "none"

Alive == (dbOpen => up) /\ (destroyWait => up)

Dated == \A j \in Jobs : createdAt[j] <= j + 1

IInv ==
    /\ TypeOK
    /\ Sound(isProcessing, status, flight, scheduledFor, delivered, created)
    /\ up => Attended(status, flight)
    /\ Alive
    /\ Dated

-----------------------------------------------------------------------------
(***************************************************************************)
(* processNext.                                                            *)
(***************************************************************************)
\* Whoever calls processNext with values that are in order leaves them so.
LEMMA ProcessNextIsSound ==
    ASSUME attempts \in [Jobs -> Nat], NEW busy, NEW st, NEW fl,
           Typed(busy, st, fl), Attended(st, fl),
           Sound(busy, st, fl, scheduledFor', delivered', created'),
           ProcessNext(busy, st, fl)
    PROVE  /\ Typed(isProcessing', status', flight')
           /\ Sound(isProcessing', status', flight', scheduledFor', delivered', created')
           /\ Attended(status', flight')
           /\ attempts' \in [Jobs -> Nat]
  <1>1. CASE Leave(busy, st, fl)
    BY <1>1 DEF Leave
  <1>2. ASSUME CanProcess(busy), NEW j \in Oldest(Ready(st)), Attempt(j, st, fl)
        PROVE  /\ Typed(isProcessing', status', flight')
               /\ Sound(isProcessing', status', flight', scheduledFor', delivered', created')
               /\ Attended(status', flight')
               /\ attempts' \in [Jobs -> Nat]
    <2>1. /\ j \in Jobs /\ st[j] = "pending" /\ scheduledFor'[j] # "future"
          /\ busy = FALSE
      BY <1>2 DEF Oldest, Ready, CanProcess, Typed
    <2>2. \A k \in Jobs : fl[k] = "none"
      BY <2>1 DEF Sound, Sequential
    <2>3. /\ isProcessing' = TRUE
          /\ status' = [st EXCEPT ![j] = "processing"]
          /\ flight' = [fl EXCEPT ![j] = "sending"]
          /\ attempts' = [attempts EXCEPT ![j] = @ + 1]
      BY <1>2 DEF Attempt
    <2>4. /\ status'[j] = "processing" /\ flight'[j] = "sending"
          /\ \A k \in Jobs : k # j => status'[k] = st[k] /\ flight'[k] = fl[k]
      BY <2>1, <2>3 DEF Typed
    <2>5. Typed(isProcessing', status', flight')
      BY <2>1, <2>3 DEF Typed, Statuses, Flights
    <2>6. attempts' \in [Jobs -> Nat]
      BY <2>1, <2>3
    <2>7. Sequential(isProcessing', flight')
      BY <2>1, <2>2, <2>3, <2>4 DEF Sequential
    <2>8. Vouched(status', flight', delivered')
      BY <2>2, <2>4 DEF Vouched, Sound
    <2>9. OnTime(flight', scheduledFor')
      BY <2>1, <2>2, <2>4 DEF OnTime
    <2>10. Inserted(status', flight', created')
      BY <2>1, <2>2, <2>4 DEF Inserted, Sound
    <2>11. Attended(status', flight')
      BY <2>2, <2>4 DEF Attended
    <2> QED  BY <2>5, <2>6, <2>7, <2>8, <2>9, <2>10, <2>11 DEF Sound
  <1> QED  BY <1>1, <1>2 DEF ProcessNext

-----------------------------------------------------------------------------
(***************************************************************************)
(* The steps.                                                              *)
(***************************************************************************)
\* The types of what processNext does not assign.
TypedRest ==
    /\ created \in 0..N
    /\ scheduledFor \in [Jobs -> {"none", "future", "past"}]
    /\ createdAt \in [Jobs -> 0..(N + 1)]
    /\ up \in BOOLEAN /\ dbOpen \in BOOLEAN
    /\ isRunning \in BOOLEAN /\ isPaused \in BOOLEAN
    /\ retryTimers \in [Jobs -> Nat]
    /\ stopWait \in BOOLEAN /\ shutWait \in BOOLEAN /\ destroyWait \in BOOLEAN
    /\ delivered \in [Jobs -> Nat]
    /\ starts \in Nat /\ boots \in Nat

\* What the invariant says of the values a caller starts from.
LEMMA Unfolded ==
    ASSUME IInv
    PROVE  /\ TypedRest
           /\ Typed(isProcessing, status, flight)
           /\ attempts \in [Jobs -> Nat]
           /\ Sound(isProcessing, status, flight, scheduledFor, delivered, created)
           /\ up => Attended(status, flight)
           /\ Alive /\ Dated
           /\ N \in Nat
  BY ConstantsAssumption DEF IInv, TypeOK, TypedRest, Typed

\* A step that ends in a call of processNext with values that are in order.
LEMMA CallKeepsIInv ==
    ASSUME IInv, NEW busy, NEW st, NEW fl,
           Typed(busy, st, fl), Attended(st, fl),
           Sound(busy, st, fl, scheduledFor', delivered', created'),
           TypedRest', Alive', Dated',
           ProcessNext(busy, st, fl)
    PROVE  IInv'
  <1>1. /\ Typed(isProcessing', status', flight')
        /\ Sound(isProcessing', status', flight', scheduledFor', delivered', created')
        /\ Attended(status', flight')
        /\ attempts' \in [Jobs -> Nat]
    BY ProcessNextIsSound, Unfolded
  <1>2. TypeOK'
    BY <1>1 DEF TypeOK, TypedRest, Typed
  <1> QED  BY <1>1, <1>2 DEF IInv

\* A step that assigns neither the columns nor the attempt in flight.
LEMMA QuietKeepsIInv ==
    ASSUME IInv, UNCHANGED <<table, isProcessing, flight, delivered>>,
           TypedRest', Alive', up' => up
    PROVE  IInv'
  <1>1. TypeOK'
    BY Unfolded DEF TypeOK, TypedRest, Typed, table
  <1>2. /\ status' = status /\ flight' = flight /\ isProcessing' = isProcessing
        /\ scheduledFor' = scheduledFor /\ delivered' = delivered /\ created' = created
        /\ createdAt' = createdAt
    BY DEF table
  <1>3. Sound(isProcessing, status, flight, scheduledFor, delivered, created)'
    BY <1>2, Unfolded DEF Sound, Sequential, Vouched, OnTime, Inserted
  <1>4. Dated' /\ (up' => Attended(status', flight'))
    BY <1>2, Unfolded DEF Dated
  <1> QED  BY <1>1, <1>3, <1>4 DEF IInv

\* A step that changes the status column where no attempt is in flight depends on it.
LEMMA RewriteKeepsIInv ==
    ASSUME IInv, status' \in [Jobs -> Statuses],
           UNCHANGED <<created, attempts, scheduledFor, createdAt, isProcessing, flight, delivered>>,
           TypedRest', Alive',
           up' => Attended(status', flight),
           \A j \in Jobs : /\ status'[j] = "completed" => status[j] = "completed"
                           /\ status'[j] # "absent" => status[j] # "absent"
    PROVE  IInv'
  <1>1. TypeOK'
    BY Unfolded DEF TypeOK, TypedRest, Typed
  <1>2. Sound(isProcessing, status, flight, scheduledFor, delivered, created)'
    BY Unfolded DEF Sound, Sequential, Vouched, OnTime, Inserted
  <1>3. Dated'
    BY Unfolded DEF Dated
  <1> QED  BY <1>1, <1>2, <1>3 DEF IInv

\* add() and addBatch(): the new rows have no attempt in flight.
LEMMA InsertKeepsIInv ==
    ASSUME IInv, NEW k \in Nat, NEW when \in {"none", "future"}, Insert(k, when)
    PROVE  IInv'
  <1> DEFINE new == (created + 1)..created'
             st  == [j \in Jobs |-> IF j \in new THEN "pending" ELSE status[j]]
  <1>1. /\ up /\ dbOpen
        /\ created' = created + k /\ created' \in 0..N /\ created \in 0..N
        /\ scheduledFor' = [j \in Jobs |-> IF j \in new THEN when ELSE scheduledFor[j]]
        /\ UNCHANGED <<up, dbOpen, control, retryTimers, waits, history>>
        /\ ProcessNext(isProcessing, st, flight)
    BY Unfolded DEF Insert, Open, TypedRest
  <1>2. PICK now : /\ now \in {IF created = 0 THEN 1 ELSE createdAt[created],
                               (IF created = 0 THEN 1 ELSE createdAt[created]) + 1}
                   /\ createdAt' = [j \in Jobs |-> IF j \in new THEN now ELSE createdAt[j]]
    BY DEF Insert
  <1>3. now \in Nat /\ now <= created + 2
    <2>1. N \in Nat /\ \A j \in Jobs : createdAt[j] \in Nat /\ createdAt[j] <= j + 1
      BY Unfolded DEF TypedRest, Dated
    <2>2. CASE created = 0
      BY <1>2, <2>2
    <2>3. CASE created # 0
      <3>1. created \in Jobs
        BY <1>1, <2>1, <2>3 DEF Jobs
      <3>2. createdAt[created] \in Nat /\ createdAt[created] <= created + 1
        BY <2>1, <3>1
      <3> QED  BY <1>1, <1>2, <2>3, <3>2
    <2> QED  BY <2>2, <2>3
  <1>4. \A j \in new : j \in Nat /\ created < j
    BY <1>1
  <1>5. createdAt' \in [Jobs -> 0..(N + 1)] /\ Dated'
    <2>1. \A j \in Jobs : j \in new => now <= j + 1 /\ now \in 0..(N + 1)
      BY <1>1, <1>3, <1>4, Unfolded DEF Jobs
    <2>2. \A j \in Jobs : createdAt[j] \in 0..(N + 1) /\ createdAt[j] <= j + 1
      BY Unfolded DEF TypedRest, Dated
    <2> QED  BY <1>2, <2>1, <2>2 DEF Dated
  <1>6. scheduledFor' \in [Jobs -> {"none", "future", "past"}]
    BY <1>1, Unfolded DEF TypedRest
  <1>7. \A j \in Jobs : j \in new => flight[j] = "none"
    BY <1>1, <1>4, Unfolded DEF Sound, Inserted
  <1>8. Typed(isProcessing, st, flight)
    BY Unfolded DEF Typed, Statuses
  <1>9. Attended(st, flight)
    BY <1>1, Unfolded DEF Attended
  <1>10. Sound(isProcessing, st, flight, scheduledFor', delivered', created')
    <2>1. delivered' = delivered
      BY <1>1 DEF history
    <2>2. Vouched(st, flight, delivered')
      BY <2>1, Unfolded DEF Sound, Vouched
    <2>3. OnTime(flight, scheduledFor')
      BY <1>1, <1>7, Unfolded DEF Sound, OnTime
    <2>4. Inserted(st, flight, created')
      <3> SUFFICES ASSUME NEW j \in Jobs, st[j] # "absent" \/ flight[j] # "none"
                   PROVE  j <= created'
        BY DEF Inserted
      <3>1. CASE j \in new
        BY <1>1, <3>1
      <3>2. CASE j \notin new
        <4>1. j <= created
          BY <3>2, Unfolded DEF Sound, Inserted
        <4> QED  BY <1>1, <4>1 DEF Jobs
      <3> QED  BY <3>1, <3>2
    <2> QED  BY <2>2, <2>3, <2>4, Unfolded DEF Sound
  <1>11. TypedRest' /\ Alive'
    BY <1>1, <1>5, <1>6, Unfolded DEF TypedRest, Alive, control, waits, history
  <1> HIDE DEF st
  <1> QED  BY <1>1, <1>5, <1>8, <1>9, <1>10, <1>11, CallKeepsIInv

\* start() restores the table and goes on, or throws on a closed database.
LEMMA StartKeepsIInv ==
    ASSUME IInv, Start
    PROVE  IInv'
  <1>1. /\ up /\ starts' = starts + 1 /\ isRunning' = TRUE /\ isPaused' = FALSE
        /\ UNCHANGED <<created, scheduledFor, createdAt, up, dbOpen, retryTimers, waits,
                       delivered, boots>>
    BY DEF Start
  <1>2. TypedRest' /\ Alive' /\ Dated'
    <2>1. starts' \in Nat
      BY <1>1, Unfolded DEF TypedRest
    <2>2. Dated'
      BY <1>1, Unfolded DEF Dated
    <2> QED  BY <1>1, <2>1, <2>2, Unfolded DEF TypedRest, Alive, waits
  <1>3. CASE ProcessNext(isProcessing, Restore(status), flight)
    <2>1. Typed(isProcessing, Restore(status), flight)
      BY Unfolded DEF Typed, Restore, Statuses
    <2>2. Attended(Restore(status), flight)
      BY DEF Attended, Restore
    <2>3. Sound(isProcessing, Restore(status), flight, scheduledFor', delivered', created')
      BY <1>1, Unfolded DEF Sound, Vouched, Inserted, Restore
    <2> QED  BY <1>2, <1>3, <2>1, <2>2, <2>3, CallKeepsIInv
  <1>4. CASE UNCHANGED <<status, attempts, isProcessing, flight>>
    BY <1>1, <1>2, <1>4, QuietKeepsIInv DEF table
  <1> QED  BY <1>3, <1>4 DEF Start

LEMMA ResumeKeepsIInv ==
    ASSUME IInv, Resume
    PROVE  IInv'
  <1>1. /\ up /\ isPaused' = FALSE
        /\ UNCHANGED <<created, scheduledFor, createdAt, up, dbOpen, isRunning, retryTimers,
                       waits, history>>
    BY DEF Resume
  <1>2. TypedRest' /\ Alive' /\ Dated'
    BY <1>1, Unfolded DEF TypedRest, Alive, Dated, waits, history
  <1>3. CASE ProcessNext(isProcessing, status, flight)
    <2>1. Sound(isProcessing, status, flight, scheduledFor', delivered', created')
      BY <1>1, Unfolded DEF history
    <2> QED  BY <1>1, <1>2, <1>3, <2>1, Unfolded, CallKeepsIInv
  <1>4. CASE UNCHANGED <<status, attempts, isProcessing, flight>>
    BY <1>1, <1>2, <1>4, QuietKeepsIInv DEF table, history
  <1> QED  BY <1>3, <1>4 DEF Resume

\* processJob records an outcome and lets go of the queue.
LEMMA FinallyKeepsIInv ==
    ASSUME IInv, Open, NEW j \in Jobs, flight[j] # "none",
           NEW word \in {"completed", "retrying", "failed"},
           word = "completed" => flight[j] = "accepted",
           Finally(j, word),
           retryTimers' \in [Jobs -> Nat],
           UNCHANGED <<created, scheduledFor, createdAt, up, dbOpen, control, waits, history>>
    PROVE  IInv'
  <1> DEFINE st == Update(status, j, word)
             fl == [flight EXCEPT ![j] = "none"]
  <1>1. ProcessNext(FALSE, st, fl)
    BY DEF Finally
  <1>2. /\ st \in [Jobs -> Statuses]
        /\ \A k \in Jobs : /\ k # j => st[k] = status[k]
                           /\ st[k] \in {status[k], word}
                           /\ status[k] = "absent" => st[k] = "absent"
        /\ status[j] # "absent" => st[j] = word
    BY Unfolded DEF Update, Typed, Statuses
  <1>3. fl \in [Jobs -> Flights] /\ \A k \in Jobs : fl[k] = "none"
    BY Unfolded DEF Typed, Flights, Sound, Sequential
  <1> HIDE DEF st, fl
  <1>4. Typed(FALSE, st, fl)
    BY <1>2, <1>3 DEF Typed
  <1>5. Attended(st, fl)
    <2> SUFFICES ASSUME NEW k \in Jobs, st[k] = "processing"
                 PROVE  FALSE
      BY DEF Attended
    <2>1. k # j
      BY <1>2
    <2>2. status[k] = "processing"
      BY <1>2, <2>1
    <2>3. flight[k] # "none"
      BY <2>2, Unfolded DEF Open, Attended
    <2> QED  BY <2>1, <2>3, Unfolded DEF Sound, Sequential
  <1>6. Sound(FALSE, st, fl, scheduledFor', delivered', created')
    <2>1. UNCHANGED <<scheduledFor, delivered, created>>
      BY DEF history
    <2>2. Sequential(FALSE, fl) /\ OnTime(fl, scheduledFor')
      BY <1>3 DEF Sequential, OnTime
    <2>3. Vouched(st, fl, delivered')
      BY <1>2, <1>3, <2>1, Unfolded DEF Sound, Vouched
    <2>4. Inserted(st, fl, created')
      BY <1>2, <1>3, <2>1, Unfolded DEF Sound, Inserted
    <2> QED  BY <2>2, <2>3, <2>4 DEF Sound
  <1>7. TypedRest' /\ Alive' /\ Dated'
    BY Unfolded DEF TypedRest, Alive, Dated, control, waits, history
  <1> QED  BY <1>1, <1>4, <1>5, <1>6, <1>7, CallKeepsIInv

LEMMA AnswersKeepIInv ==
    ASSUME IInv, NEW j \in Jobs, Succeed(j) \/ Fail(j)
    PROVE  IInv'
  <1>1. retryTimers \in [Jobs -> Nat]
    BY Unfolded DEF TypedRest
  <1>2. CASE Succeed(j)
    <2>1. /\ Open /\ flight[j] = "accepted" /\ Finally(j, "completed")
          /\ retryTimers' = retryTimers
          /\ UNCHANGED <<created, scheduledFor, createdAt, up, dbOpen, control, waits, history>>
      BY <1>2 DEF Succeed, Accepted
    <2> QED  BY <1>1, <2>1, FinallyKeepsIInv
  <1>3. CASE Fail(j)
    <2>1. /\ Open /\ flight[j] = "refused" /\ retryTimers' \in [Jobs -> Nat]
          /\ UNCHANGED <<created, scheduledFor, createdAt, up, dbOpen, control, waits, history>>
      BY <1>1, <1>3 DEF Fail, Refused
    <2>2. CASE Finally(j, "retrying")
      BY <2>1, <2>2, FinallyKeepsIInv
    <2>3. CASE Finally(j, "failed")
      BY <2>1, <2>3, FinallyKeepsIInv
    <2> QED  BY <1>3, <2>2, <2>3 DEF Fail
  <1> QED  BY <1>2, <1>3

\* A retry timer may set any row back to pending, also the one in flight.
LEMMA RetryTimerKeepsIInv ==
    ASSUME IInv, NEW j \in Jobs, RetryTimerFires(j)
    PROVE  IInv'
  <1>1. /\ retryTimers[j] > 0
        /\ retryTimers' = [retryTimers EXCEPT ![j] = @ - 1]
        /\ UNCHANGED <<created, scheduledFor, createdAt, up, dbOpen, control, waits, history>>
    BY DEF RetryTimerFires, Armed
  <1>2. retryTimers' \in [Jobs -> Nat]
    BY <1>1, Unfolded DEF TypedRest
  <1>3. TypedRest' /\ Alive' /\ Dated'
    BY <1>1, <1>2, Unfolded DEF TypedRest, Alive, Dated, control, waits, history
  <1>4. CASE dbOpen /\ ProcessNext(isProcessing, Update(status, j, "pending"), flight)
    <2> DEFINE st == Update(status, j, "pending")
    <2>1. /\ st \in [Jobs -> Statuses]
          /\ \A k \in Jobs : /\ st[k] \in {status[k], "pending"}
                             /\ status[k] = "absent" => st[k] = "absent"
      BY Unfolded DEF Update, Typed, Statuses
    <2> HIDE DEF st
    <2>2. Typed(isProcessing, st, flight)
      BY <2>1, Unfolded DEF Typed
    <2>3. Attended(st, flight)
      BY <1>4, <2>1, Unfolded DEF Attended, Alive
    <2>4. Sound(isProcessing, st, flight, scheduledFor', delivered', created')
      <3>1. UNCHANGED <<scheduledFor, delivered, created>>
        BY <1>1 DEF history
      <3>2. Vouched(st, flight, delivered') /\ Inserted(st, flight, created')
        BY <2>1, <3>1, Unfolded DEF Sound, Vouched, Inserted
      <3> QED  BY <3>1, <3>2, Unfolded DEF Sound
    <2>5. ProcessNext(isProcessing, st, flight)
      BY <1>4 DEF st
    <2> QED  BY <1>3, <2>2, <2>3, <2>4, <2>5, CallKeepsIInv
  <1>5. CASE UNCHANGED <<status, attempts, isProcessing, flight>>
    BY <1>1, <1>3, <1>5, QuietKeepsIInv DEF table, history
  <1> QED  BY <1>4, <1>5 DEF RetryTimerFires

\* The provider accepts, or refuses, what it was sent.
LEMMA ProviderKeepsIInv ==
    ASSUME IInv, NEW j \in Jobs, ProviderAccepts(j) \/ ProviderRefuses(j)
    PROVE  IInv'
  <1>1. /\ flight[j] = "sending"
        /\ UNCHANGED <<table, up, dbOpen, control, isProcessing, retryTimers, waits, starts, boots>>
    BY DEF ProviderAccepts, ProviderRefuses, history
  <1>2. /\ flight' \in [Jobs -> Flights] /\ delivered' \in [Jobs -> Nat]
        /\ flight'[j] # "none"
        /\ flight'[j] = "accepted" => delivered'[j] > 0
        /\ \A k \in Jobs : k # j => flight'[k] = flight[k]
        /\ \A k \in Jobs : delivered'[k] >= delivered[k]
    <2>1. flight \in [Jobs -> Flights] /\ delivered \in [Jobs -> Nat]
      BY Unfolded DEF Typed, TypedRest
    <2>2. CASE ProviderAccepts(j)
      <3>1. /\ flight' = [flight EXCEPT ![j] = "accepted"]
            /\ delivered' = [delivered EXCEPT ![j] = @ + 1]
        BY <2>2 DEF ProviderAccepts
      <3>2. flight' \in [Jobs -> Flights]
        BY <2>1, <3>1 DEF Flights
      <3> QED  BY <2>1, <3>1, <3>2
    <2>3. CASE ProviderRefuses(j)
      <3>1. flight' = [flight EXCEPT ![j] = "refused"] /\ delivered' = delivered
        BY <2>3 DEF ProviderRefuses, history
      <3>2. flight' \in [Jobs -> Flights]
        BY <2>1, <3>1 DEF Flights
      <3> QED  BY <2>1, <3>1, <3>2
    <2> QED  BY <2>2, <2>3
  <1>3. TypeOK'
    BY <1>1, <1>2, Unfolded DEF TypeOK, TypedRest, Typed, table, control, waits
  <1>4. \A k \in Jobs : flight[k] # "none" <=> flight'[k] # "none"
    BY <1>1, <1>2
  <1>5. Sequential(isProcessing', flight') /\ OnTime(flight', scheduledFor')
    BY <1>1, <1>4, Unfolded DEF Sound, Sequential, OnTime, table
  <1>6. Vouched(status', flight', delivered')
    <2>1. \A k \in Jobs : delivered[k] \in Nat /\ delivered'[k] \in Nat
      BY <1>2, Unfolded DEF TypedRest
    <2> QED  BY <1>1, <1>2, <2>1, Unfolded DEF Sound, Vouched, table
  <1>7. Inserted(status', flight', created') /\ (up' => Attended(status', flight'))
    BY <1>1, <1>4, Unfolded DEF Sound, Inserted, Attended, table
  <1>8. Alive' /\ Dated'
    BY <1>1, Unfolded DEF Alive, Dated, table, waits
  <1> QED  BY <1>3, <1>5, <1>6, <1>7, <1>8 DEF IInv, Sound

\* The steps that touch neither the table nor an attempt.
LEMMA QuietStepsKeepIInv ==
    ASSUME IInv,
           \/ Stop \/ StopResolves \/ Pause \/ Shutdown \/ ShutdownEnds \/ UNCHANGED vars
    PROVE  IInv'
  <1>1. UNCHANGED <<table, isProcessing, flight, delivered>> /\ up' = up
    BY DEF Stop, StopResolves, Pause, Shutdown, ShutdownEnds, vars, process, history
  <1>2. isProcessing \in BOOLEAN /\ stopWait \in BOOLEAN /\ shutWait \in BOOLEAN
    BY DEF IInv, TypeOK
  <1>3. /\ isRunning' \in BOOLEAN /\ isPaused' \in BOOLEAN /\ dbOpen' \in BOOLEAN
        /\ stopWait' \in BOOLEAN /\ shutWait' \in BOOLEAN
        /\ UNCHANGED <<retryTimers, destroyWait, starts, boots>>
    BY <1>2, Unfolded
       DEF TypedRest, Stop, StopResolves, Pause, Shutdown, ShutdownEnds, vars, process, control,
           waits, history
  <1>4. dbOpen' => dbOpen
    BY <1>2 DEF Stop, StopResolves, Pause, Shutdown, ShutdownEnds, Open, vars, process
  <1>5. TypedRest' /\ Alive'
    BY <1>1, <1>3, <1>4, Unfolded DEF TypedRest, Alive, table
  <1> QED  BY <1>1, <1>5, QuietKeepsIInv

LEMMA TimePassesKeepsIInv ==
    ASSUME IInv, NEW j \in Jobs, TimePasses(j)
    PROVE  IInv'
  <1>1. /\ scheduledFor' = [scheduledFor EXCEPT ![j] = "past"]
        /\ UNCHANGED <<created, status, attempts, createdAt, process, history>>
    BY DEF TimePasses
  <1>2. scheduledFor' \in [Jobs -> {"none", "future", "past"}]
    BY <1>1, Unfolded DEF TypedRest
  <1>3. TypeOK'
    BY <1>1, <1>2, Unfolded DEF TypeOK, TypedRest, Typed, process, control, waits, history
  <1>4. OnTime(flight, scheduledFor')
    BY <1>1, Unfolded DEF Sound, OnTime, TypedRest
  <1>5. Sound(isProcessing, status, flight, scheduledFor, delivered, created)'
    BY <1>1, <1>4, Unfolded DEF Sound, Sequential, Vouched, OnTime, Inserted, process, history
  <1>6. Alive' /\ Dated' /\ (up' => Attended(status', flight'))
    BY <1>1, Unfolded DEF Alive, Dated, process, waits
  <1> QED  BY <1>3, <1>5, <1>6 DEF IInv

\* clear(), the cleanup and the deletion of the file take rows away.
LEMMA RemovalKeepsIInv ==
    ASSUME IInv, Clear \/ CleanupTick \/ Destroy \/ DestroyEnds
    PROVE  IInv'
  <1>1. /\ UNCHANGED <<created, attempts, scheduledFor, createdAt, isProcessing, flight, delivered>>
        /\ up' = up
    BY DEF Clear, CleanupTick, Destroy, DestroyEnds, process, history
  <1>2. /\ status' \in [Jobs -> Statuses]
        /\ \A j \in Jobs : status'[j] \in {status[j], "absent"}
    <2>1. status \in [Jobs -> Statuses] /\ "absent" \in Statuses
      BY Unfolded DEF Typed, Statuses
    <2>2. CASE Clear
      BY <2>1, <2>2 DEF Clear
    <2>3. CASE CleanupTick
      BY <2>1, <2>3 DEF CleanupTick, Cleanup
    <2>4. CASE Destroy \/ DestroyEnds
      <3>1. status' = status \/ status' = [j \in Jobs |-> "absent"]
        BY <2>4 DEF Destroy, DestroyEnds, DeleteFile
      <3> QED  BY <2>1, <3>1
    <2> QED  BY <2>2, <2>3, <2>4
  <1>3. TypedRest'
    BY <1>1, Unfolded
       DEF TypedRest, Clear, CleanupTick, Destroy, DestroyEnds, DeleteFile, process, control,
           waits, history
  <1>4. Alive'
    BY <1>1, Unfolded
       DEF Alive, Clear, CleanupTick, Destroy, DestroyEnds, DeleteFile, process, waits
  <1>5. up' => Attended(status', flight)
    BY <1>1, <1>2, Unfolded DEF Attended
  <1> QED  BY <1>1, <1>2, <1>3, <1>4, <1>5, RewriteKeepsIInv

\* A new process restores what the old one left.
LEMMA BootKeepsIInv ==
    ASSUME IInv, Boot
    PROVE  IInv'
  <1>1. PICK cutoff \in Cutoffs : status' = Cleanup(Restore(status), cutoff)
    BY DEF Boot
  <1>2. /\ up' = TRUE /\ dbOpen' = TRUE /\ boots' = boots + 1
        /\ UNCHANGED <<created, attempts, scheduledFor, createdAt, control, isProcessing, flight,
                       retryTimers, waits, delivered, starts>>
    BY DEF Boot
  <1>3. status \in [Jobs -> Statuses] /\ "absent" \in Statuses /\ "pending" \in Statuses
    BY Unfolded DEF Typed, Statuses
  <1>4. /\ status' \in [Jobs -> Statuses]
        /\ \A j \in Jobs : /\ status'[j] # "processing"
                           /\ status'[j] = "completed" => status[j] = "completed"
                           /\ status'[j] # "absent" => status[j] # "absent"
    BY <1>1, <1>3 DEF Cleanup, Restore
  <1>5. Attended(status', flight)
    BY <1>4 DEF Attended
  <1>6. TypedRest' /\ Alive'
    BY <1>2, Unfolded DEF TypedRest, Alive, control, waits
  <1> QED  BY <1>2, <1>4, <1>5, <1>6, RewriteKeepsIInv

\* What a dying process leaves is the table, whatever it has become of its message.
LEMMA DeathKeepsIInv ==
    ASSUME IInv, Exit \/ DiesUncaught \/ Crash
    PROVE  IInv'
  <1>1. ProcessEnds
    BY DEF Exit, DiesUncaught, Crash
  <1>2. /\ delivered' \in [Jobs -> Nat]
        /\ \A j \in Jobs : delivered'[j] >= delivered[j]
    <2>1. delivered \in [Jobs -> Nat]
      BY Unfolded DEF TypedRest
    <2>2. CASE Exit \/ DiesUncaught
      BY <2>1, <2>2 DEF Exit, DiesUncaught
    <2>3. CASE Crash
      <3>1. PICK arrives \in SUBSET {j \in Jobs : flight[j] = "sending"} :
              delivered' = [j \in Jobs |-> delivered[j] + (IF j \in arrives THEN 1 ELSE 0)]
        BY <2>3 DEF Crash
      <3>2. \A j \in Jobs : delivered[j] + (IF j \in arrives THEN 1 ELSE 0) \in Nat
        BY <2>1
      <3> QED  BY <2>1, <3>1, <3>2
    <2> QED  BY <2>2, <2>3
  <1>3. /\ \A j \in Jobs : flight'[j] = "none"
        /\ flight' \in [Jobs -> Flights] /\ isProcessing' = FALSE
        /\ up' = FALSE /\ dbOpen' = FALSE /\ destroyWait' = FALSE
        /\ UNCHANGED <<created, status, attempts, scheduledFor, createdAt>>
    BY <1>1 DEF ProcessEnds, NoFlight, Flights, table
  <1>4. TypeOK'
    <2>1. retryTimers' \in [Jobs -> Nat]
      BY <1>1 DEF ProcessEnds
    <2>2. /\ isRunning' = FALSE /\ isPaused' = FALSE /\ stopWait' = FALSE /\ shutWait' = FALSE
          /\ UNCHANGED <<starts, boots>>
      BY <1>1 DEF ProcessEnds
    <2> QED  BY <1>2, <1>3, <2>1, <2>2, Unfolded DEF TypeOK, TypedRest, Typed
  <1>5. Sequential(isProcessing', flight') /\ OnTime(flight', scheduledFor')
    BY <1>3 DEF Sequential, OnTime
  <1>6. Vouched(status', flight', delivered')
    <2>1. \A j \in Jobs : delivered[j] \in Nat /\ delivered'[j] \in Nat
      BY <1>2, Unfolded DEF TypedRest
    <2> QED  BY <1>2, <1>3, <2>1, Unfolded DEF Sound, Vouched
  <1>7. Inserted(status', flight', created')
    BY <1>3, Unfolded DEF Sound, Inserted
  <1>8. Alive' /\ Dated'
    BY <1>3, Unfolded DEF Alive, Dated
  <1> QED  BY <1>3, <1>4, <1>5, <1>6, <1>7, <1>8 DEF IInv, Sound

-----------------------------------------------------------------------------
(***************************************************************************)
(* The theorems.                                                           *)
(***************************************************************************)
\* The invariant holds of an empty table and a queue just created on it.
LEMMA InitEstablishesIInv == Init => IInv
  <1> SUFFICES ASSUME Init PROVE IInv
    OBVIOUS
  <1>1. N \in Nat /\ created \in 0..N
    BY ConstantsAssumption DEF Init
  <1>2. status \in [Jobs -> Statuses] /\ flight \in [Jobs -> Flights]
    BY DEF Init, Statuses, Flights, NoFlight
  <1>3. createdAt \in [Jobs -> 0..(N + 1)]
    <2>1. 0 \in 0..(N + 1)
      BY <1>1
    <2> QED  BY <2>1 DEF Init
  <1>4. /\ attempts \in [Jobs -> Nat] /\ delivered \in [Jobs -> Nat]
        /\ retryTimers \in [Jobs -> Nat]
        /\ scheduledFor \in [Jobs -> {"none", "future", "past"}]
    BY DEF Init
  <1>5. TypeOK
    BY <1>1, <1>2, <1>3, <1>4 DEF Init, TypeOK
  <1>6. \A j \in Jobs : /\ flight[j] = "none" /\ status[j] = "absent" /\ createdAt[j] = 0
                        /\ j \in Nat
    BY DEF Init, NoFlight, Jobs
  <1>7. Sound(isProcessing, status, flight, scheduledFor, delivered, created)
    BY <1>6 DEF Init, Sound, Sequential, Vouched, OnTime, Inserted
  <1>8. Attended(status, flight) /\ Dated /\ Alive
    BY <1>6 DEF Init, Attended, Dated, Alive
  <1> QED  BY <1>5, <1>7, <1>8 DEF IInv

\* No call, timer, answer, shutdown, crash or restart breaks it.
LEMMA NextKeepsIInv == IInv /\ [Next]_vars => IInv'
  <1> SUFFICES ASSUME IInv, [Next]_vars PROVE IInv'
    OBVIOUS
  <1>1. CASE Progress
    BY <1>1, QuietStepsKeepIInv, TimePassesKeepsIInv, ProviderKeepsIInv, AnswersKeepIInv,
       RetryTimerKeepsIInv
       DEF Progress
  <1>2. CASE AddStartStop
    <2>1. ASSUME NEW k \in {0} \cup 2..N, AddBatch(k)  PROVE IInv'
      BY <2>1, InsertKeepsIInv DEF AddBatch
    <2>2. ASSUME NEW when \in {"none", "future"}, Add(when)  PROVE IInv'
      BY <2>2, InsertKeepsIInv DEF Add
    <2> QED  BY <1>2, <2>1, <2>2, StartKeepsIInv, QuietStepsKeepIInv DEF AddStartStop
  <1>3. CASE Pause \/ Shutdown \/ ShutdownEnds \/ UNCHANGED vars
    BY <1>3, QuietStepsKeepIInv
  <1>4. CASE Resume \/ Boot
    BY <1>4, ResumeKeepsIInv, BootKeepsIInv
  <1>5. CASE Clear \/ CleanupTick \/ Destroy \/ DestroyEnds
    BY <1>5, RemovalKeepsIInv
  <1>6. CASE Exit \/ DiesUncaught \/ Crash
    BY <1>6, DeathKeepsIInv
  <1> QED  BY <1>1, <1>2, <1>3, <1>4, <1>5, <1>6 DEF Next

\* The inductive invariant holds in every reachable state.
THEOREM Invariance == Spec => []IInv
  BY InitEstablishesIInv, NextKeepsIInv, PTL DEF Spec

\* The columns of the table and the variables of the process keep their types.
THEOREM TypeCorrect == Spec => []TypeOK
  <1>1. IInv => TypeOK
    BY DEF IInv
  <1> QED  BY <1>1, Invariance, PTL

\* isProcessing is up exactly while one attempt is in flight, across restoring, stale
\* timers, shutdowns and restarts.
THEOREM Sequentiality == Spec => []OneAtATime
  <1>1. IInv => OneAtATime
    BY DEF IInv, Sound, Sequential, OneAtATime, InFlight
  <1> QED  BY <1>1, Invariance, PTL

\* A process that has the queue open attends to every row that says 'processing'.
THEOREM NoRowOrphaned == Spec => []NoOrphanedRow
  <1>1. IInv => NoOrphanedRow
    BY DEF IInv, Attended, NoOrphanedRow, Open, InFlight
  <1> QED  BY <1>1, Invariance, PTL

\* The table never claims the delivery of a message no provider accepted.
THEOREM CompletionIsTrue == Spec => []CompletedWasDelivered
  <1>1. IInv => CompletedWasDelivered
    BY DEF IInv, Sound, Vouched, CompletedWasDelivered
  <1> QED  BY <1>1, Invariance, PTL

\* No attempt is in flight before the row's scheduled time.
THEOREM Punctuality == Spec => []NeverEarly
  <1>1. IInv => NeverEarly
    BY DEF IInv, Sound, OnTime, NeverEarly, InFlight
  <1> QED  BY <1>1, Invariance, PTL

\* processNext takes no row away.
LEMMA ProcessNextKeepsRows ==
    ASSUME NEW busy, NEW st \in [Jobs -> Statuses], NEW fl, ProcessNext(busy, st, fl),
           NEW j \in Jobs, st[j] # "absent"
    PROVE  status'[j] # "absent"
  BY DEF ProcessNext, Leave, Attempt, Oldest, Ready

\* Rows disappear only where the interface, the retention period or the deletion of the
\* whole file says so; never by a crash, a shutdown or an answer that comes too late.
THEOREM RowsAreKept == Spec => NoRowLost
  <1> DEFINE Explained(j) ==
        \/ dbOpen /\ ~dbOpen' /\ up' /\ \A k \in Jobs : status'[k] = "absent"
        \/ Clear /\ status[j] = "pending"
        \/ status[j] \in {"completed", "failed"}
  <1>1. ASSUME IInv, [Next]_vars, NEW j \in Jobs, status[j] # "absent", status'[j] = "absent"
        PROVE  Explained(j)
    <2>1. status \in [Jobs -> Statuses]
      BY <1>1, Unfolded DEF Typed
    <2>2. CASE UNCHANGED status
      BY <1>1, <2>2
    <2>3. ASSUME NEW k \in Nat, NEW when, Insert(k, when)  PROVE FALSE
      <3> DEFINE st == [i \in Jobs |-> IF i \in (created + 1)..created' THEN "pending"
                                                                      ELSE status[i]]
      <3>1. ProcessNext(isProcessing, st, flight)
        BY <2>3 DEF Insert
      <3>2. st \in [Jobs -> Statuses] /\ st[j] # "absent"
        BY <1>1, <2>1 DEF Statuses
      <3> HIDE DEF st
      <3> QED  BY <1>1, <3>1, <3>2, ProcessNextKeepsRows
    <2>4. CASE ProcessNext(isProcessing, status, flight)
      BY <1>1, <2>1, <2>4, ProcessNextKeepsRows
    <2>5. CASE ProcessNext(isProcessing, Restore(status), flight)
      <3>1. Restore(status) \in [Jobs -> Statuses] /\ Restore(status)[j] # "absent"
        BY <1>1, <2>1 DEF Restore, Statuses
      <3> QED  BY <1>1, <2>5, <3>1, ProcessNextKeepsRows
    <2>6. ASSUME NEW k \in Jobs, NEW busy, NEW fl,
                 NEW word \in {"pending", "completed", "retrying", "failed"},
                 ProcessNext(busy, Update(status, k, word), fl)
          PROVE  FALSE
      <3>1. /\ Update(status, k, word) \in [Jobs -> Statuses]
            /\ Update(status, k, word)[j] # "absent"
        BY <1>1, <2>1 DEF Update, Statuses
      <3> QED  BY <1>1, <2>6, <3>1, ProcessNextKeepsRows
    <2>7. CASE Progress
      BY <2>2, <2>6, <2>7
         DEF Progress, StopResolves, TimePasses, ProviderAccepts, ProviderRefuses, Succeed, Fail,
             RetryTimerFires, Finally, table
    <2>8. CASE AddStartStop
      BY <2>2, <2>3, <2>5, <2>8 DEF AddStartStop, Add, AddBatch, Start, Stop, table
    <2>9. CASE Pause \/ Resume \/ Shutdown \/ ShutdownEnds \/ Exit \/ DiesUncaught \/ Crash
               \/ UNCHANGED vars
      BY <2>2, <2>4, <2>9
         DEF Pause, Resume, Shutdown, ShutdownEnds, Exit, DiesUncaught, Crash, ProcessEnds, vars,
             table
    <2>10. CASE Clear
      BY <1>1, <2>10 DEF Clear
    <2>11. CASE CleanupTick
      BY <1>1, <2>11 DEF CleanupTick, Cleanup
    <2>12. CASE Boot
      BY <1>1, <2>12 DEF Boot, Cleanup, Restore
    <2>13. CASE Destroy \/ DestroyEnds
      <3>1. CASE DeleteFile /\ dbOpen
        <4>1. dbOpen /\ ~dbOpen' /\ \A k \in Jobs : status'[k] = "absent"
          BY <3>1 DEF DeleteFile
        <4>2. up' = up /\ up
          BY <1>1, <2>13, <3>1, Unfolded DEF Destroy, DestroyEnds, Alive
        <4> QED  BY <4>1, <4>2
      <3>2. CASE ~dbOpen \/ ~DeleteFile
        BY <2>2, <2>13, <3>2 DEF DeleteFile, Destroy, DestroyEnds
      <3> QED  BY <3>1, <3>2
    <2> QED
      BY <1>1, <2>7, <2>8, <2>9, <2>10, <2>11, <2>12, <2>13 DEF Next
  <1>2. IInv /\ [Next]_vars =>
          [\A j \in Jobs : status[j] # "absent" /\ status'[j] = "absent" => Explained(j)]_vars
    BY <1>1
  <1> QED  BY <1>2, Invariance, PTL DEF Spec, NoRowLost

-----------------------------------------------------------------------------
(***************************************************************************)
(* How often SQLiteQueue may send a message or attempt a job, for every    *)
(* number of rows, every maxRetries, and every number of start() calls and *)
(* restarts.                                                               *)
(*                                                                         *)
(* The argument counts chances.  A job's chances are its retry timers and, *)
(* while its row is pending, the row: an attempt uses up one, a failure    *)
(* may give one back, and only restoring the table makes one from nothing. *)
(***************************************************************************)
\* How often the table was restored while there may have been something to restore.
Restorings(s, b) == b + (IF s = 0 THEN 0 ELSE s - 1)
Extra == Restorings(starts, boots)

Limit == IF MaxRetries = 0 THEN 1 ELSE MaxRetries

Chances(st, tm, j) == tm[j] + (IF st[j] = "pending" THEN 1 ELSE 0)

Underway(fl, j) == IF fl[j] = "none" THEN 0 ELSE 1

Unsent(fl, j) == IF fl[j] \in {"sending", "refused"} THEN 1 ELSE 0

WithinBudget(j, st, fl, at, tm, dl, extra) ==
    /\ Chances(st, tm, j) + Underway(fl, j) <= 1 + extra
    /\ at[j] >= Limit => at[j] + Chances(st, tm, j) <= Limit + extra
    /\ dl[j] + Chances(st, tm, j) + Unsent(fl, j) <= 1 + extra

AllWithin(st, fl, at, tm, dl, extra) ==
    \A j \in Jobs : WithinBudget(j, st, fl, at, tm, dl, extra)

\* Nothing has happened to a job before its row is inserted.
Untouched(at, tm, dl, last) ==
    \A j \in Jobs : j > last => at[j] = 0 /\ tm[j] = 0 /\ dl[j] = 0

\* Before the first start() there is nothing to restore.
Idle(st, fl) == \A j \in Jobs : st[j] \in {"absent", "pending"} /\ fl[j] = "none"

BInv ==
    /\ IInv
    /\ AllWithin(status, flight, attempts, retryTimers, delivered, Extra)
    /\ Untouched(attempts, retryTimers, delivered, created)
    /\ starts = 0 => ~isRunning /\ Idle(status, flight)

-----------------------------------------------------------------------------
LEMMA ExtraIsNat ==
    ASSUME IInv'
    PROVE  Extra' \in Nat
  <1>1. \A s, b \in Nat : Restorings(s, b) \in Nat
    BY DEF Restorings
  <1> QED  BY <1>1 DEF Extra, IInv, TypeOK

\* The amounts are natural numbers.
LEMMA Amounts ==
    ASSUME IInv
    PROVE  /\ Extra \in Nat /\ Limit \in Nat /\ Limit >= 1
           /\ starts \in Nat /\ boots \in Nat
           /\ \A j \in Jobs : /\ attempts[j] \in Nat /\ retryTimers[j] \in Nat
                              /\ delivered[j] \in Nat
  <1>1. starts \in Nat /\ boots \in Nat
    BY Unfolded DEF TypedRest
  <1>2. Extra \in Nat
    BY <1>1 DEF Extra, Restorings
  <1>3. Limit \in Nat /\ Limit >= 1
    BY ConstantsAssumption DEF Limit
  <1> QED  BY <1>1, <1>2, <1>3, Unfolded DEF TypedRest

\* Beginning an attempt uses up one chance of its job.
LEMMA ProcessNextKeepsBudget ==
    ASSUME IInv, IInv', NEW busy, NEW st, NEW fl,
           Typed(busy, st, fl), Sequential(busy, fl), Inserted(st, fl, created'),
           AllWithin(st, fl, attempts, retryTimers', delivered', Extra'),
           Untouched(attempts, retryTimers', delivered', created'),
           starts' = 0 => ~isRunning' /\ Idle(st, fl),
           ProcessNext(busy, st, fl)
    PROVE  BInv'
  <1>1. CASE Leave(busy, st, fl)
    <2>1. status' = st /\ flight' = fl /\ attempts' = attempts
      BY <1>1 DEF Leave
    <2> QED  BY <2>1 DEF BInv
  <1>2. ASSUME CanProcess(busy), NEW j \in Oldest(Ready(st)), Attempt(j, st, fl)
        PROVE  BInv'
    <2>1. /\ j \in Jobs /\ st[j] = "pending" /\ busy = FALSE /\ starts' # 0
      BY <1>2 DEF Oldest, Ready, CanProcess, Typed
    <2>2. fl[j] = "none" /\ j <= created'
      BY <2>1 DEF Sequential, Inserted
    <2>3. /\ status'[j] = "processing" /\ flight'[j] = "sending"
          /\ attempts'[j] = attempts[j] + 1
          /\ \A k \in Jobs : k # j => /\ status'[k] = st[k] /\ flight'[k] = fl[k]
                                      /\ attempts'[k] = attempts[k]
      BY <1>2, <2>1, Unfolded DEF Attempt, Typed
    <2>4. /\ Extra' \in Nat /\ Limit \in Nat
          /\ \A k \in Jobs : attempts[k] \in Nat /\ retryTimers'[k] \in Nat /\ delivered'[k] \in Nat
      <3>1. /\ Extra' \in Nat
            /\ \A k \in Jobs : retryTimers'[k] \in Nat /\ delivered'[k] \in Nat
        BY ExtraIsNat DEF IInv, TypeOK
      <3> QED  BY <3>1, Amounts
    <2>5. WithinBudget(j, status', flight', attempts', retryTimers', delivered', Extra')
      <3>1. WithinBudget(j, st, fl, attempts, retryTimers', delivered', Extra')
        BY <2>1 DEF AllWithin
      <3>2. /\ Chances(st, retryTimers', j) = retryTimers'[j] + 1
            /\ Underway(fl, j) = 0 /\ Unsent(fl, j) = 0
            /\ Chances(status', retryTimers', j) = retryTimers'[j]
            /\ Underway(flight', j) = 1 /\ Unsent(flight', j) = 1
        BY <2>1, <2>2, <2>3, <2>4 DEF Chances, Underway, Unsent
      <3> HIDE DEF Chances, Underway, Unsent
      <3> QED  BY <2>1, <2>3, <2>4, <3>1, <3>2 DEF WithinBudget
    <2>6. ASSUME NEW k \in Jobs, k # j
          PROVE  WithinBudget(k, status', flight', attempts', retryTimers', delivered', Extra')
      BY <2>3, <2>6 DEF AllWithin, WithinBudget, Chances, Underway, Unsent
    <2>7. Untouched(attempts', retryTimers', delivered', created')
      <3> SUFFICES ASSUME NEW k \in Jobs, k > created'
                   PROVE  attempts'[k] = 0 /\ retryTimers'[k] = 0 /\ delivered'[k] = 0
        BY DEF Untouched
      <3>1. k # j
        <4>1. j \in Int /\ k \in Int /\ created' \in Int
          BY <2>1 DEF Jobs, IInv, TypeOK
        <4> QED  BY <2>2, <4>1
      <3> QED  BY <2>3, <3>1 DEF Untouched
    <2> QED  BY <2>1, <2>5, <2>6, <2>7 DEF BInv, AllWithin
  <1> QED  BY <1>1, <1>2 DEF ProcessNext

-----------------------------------------------------------------------------
(***************************************************************************)
(* The steps.                                                              *)
(***************************************************************************)
\* What the invariant says of one job.
LEMMA OneJob ==
    ASSUME BInv, NEW j \in Jobs
    PROVE  /\ WithinBudget(j, status, flight, attempts, retryTimers, delivered, Extra)
           /\ j > created => attempts[j] = 0 /\ retryTimers[j] = 0 /\ delivered[j] = 0
  BY DEF BInv, AllWithin, Untouched

\* A new row is one chance of an unattempted, undelivered job.
LEMMA InsertKeepsBudget ==
    ASSUME BInv, IInv', NEW k \in Nat, NEW when, Insert(k, when)
    PROVE  BInv'
  <1> DEFINE new == (created + 1)..created'
             st  == [j \in Jobs |-> IF j \in new THEN "pending" ELSE status[j]]
  <1>1. /\ created' = created + k /\ created \in Nat
        /\ UNCHANGED <<isRunning, retryTimers, delivered, starts, boots>>
        /\ ProcessNext(isProcessing, st, flight)
    BY DEF Insert, BInv, IInv, TypeOK, control, history
  <1>2. Extra' = Extra /\ retryTimers' = retryTimers /\ delivered' = delivered
    BY <1>1 DEF Extra
  <1>3. IInv /\ Extra \in Nat /\ Limit \in Nat /\ Limit >= 1
    BY Amounts DEF BInv
  <1>4. Typed(isProcessing, st, flight) /\ Sequential(isProcessing, flight)
    BY <1>3, Unfolded DEF Typed, Statuses, Sound
  <1>5. \A j \in Jobs : j \in new => flight[j] = "none" /\ j > created
    BY <1>1, <1>3, Unfolded DEF Sound, Inserted
  <1>6. Inserted(st, flight, created')
    <2> SUFFICES ASSUME NEW j \in Jobs, st[j] # "absent" \/ flight[j] # "none"
                 PROVE  j <= created'
      BY DEF Inserted
    <2>1. CASE j \in new
      BY <1>1, <2>1
    <2>2. CASE j \notin new
      <3>1. j <= created
        BY <1>3, <2>2, Unfolded DEF Sound, Inserted
      <3> QED  BY <1>1, <3>1 DEF Jobs
    <2> QED  BY <2>1, <2>2
  <1>7. AllWithin(st, flight, attempts, retryTimers', delivered', Extra')
    <2> SUFFICES ASSUME NEW j \in Jobs
                 PROVE  WithinBudget(j, st, flight, attempts, retryTimers, delivered, Extra)
      BY <1>2 DEF AllWithin
    <2>1. CASE j \in new
      <3>1. /\ attempts[j] = 0 /\ retryTimers[j] = 0 /\ delivered[j] = 0
            /\ flight[j] = "none" /\ st[j] = "pending"
        BY <1>5, <2>1, OneJob
      <3> QED  BY <1>3, <3>1 DEF WithinBudget, Chances, Underway, Unsent
    <2>2. CASE j \notin new
      <3>1. st[j] = status[j]
        BY <2>2
      <3> QED  BY <3>1, OneJob DEF WithinBudget, Chances
    <2> QED  BY <2>1, <2>2
  <1>8. Untouched(attempts, retryTimers', delivered', created')
    <2>1. \A j \in Jobs : j > created' => j > created
      BY <1>1 DEF Jobs
    <2> QED  BY <1>2, <2>1, OneJob DEF Untouched
  <1>9. starts' = 0 => ~isRunning' /\ Idle(st, flight)
    BY <1>1 DEF BInv, Idle
  <1> HIDE DEF st
  <1> QED  BY <1>1, <1>3, <1>4, <1>6, <1>7, <1>8, <1>9, ProcessNextKeepsBudget

\* start() buys a job one chance, unless it is the first.
LEMMA StartKeepsBudget ==
    ASSUME BInv, IInv', Start
    PROVE  BInv'
  <1>1. /\ starts' = starts + 1
        /\ UNCHANGED <<created, retryTimers, delivered, boots>>
    BY DEF Start
  <1>2. /\ IInv /\ Extra \in Nat /\ Limit \in Nat /\ starts \in Nat /\ boots \in Nat
        /\ \A j \in Jobs : attempts[j] \in Nat /\ retryTimers[j] \in Nat /\ delivered[j] \in Nat
    BY Amounts DEF BInv
  <1>3. Extra' = IF starts = 0 THEN Extra ELSE Extra + 1
    <2>1. \A s, b \in Nat : Restorings(s + 1, b) = IF s = 0 THEN Restorings(s, b)
                                                            ELSE Restorings(s, b) + 1
      BY DEF Restorings
    <2> QED  BY <1>1, <1>2, <2>1 DEF Extra
  <1>4. starts' # 0 /\ Extra' \in Nat /\ Extra' >= Extra
    BY <1>1, <1>2, <1>3
  <1>5. CASE ProcessNext(isProcessing, Restore(status), flight)
    <2>1. Typed(isProcessing, Restore(status), flight) /\ Sequential(isProcessing, flight)
      BY <1>2, Unfolded DEF Typed, Restore, Statuses, Sound
    <2>2. Inserted(Restore(status), flight, created')
      BY <1>1, <1>2, Unfolded DEF Sound, Inserted, Restore
    <2>3. AllWithin(Restore(status), flight, attempts, retryTimers', delivered', Extra')
      <3> SUFFICES ASSUME NEW j \in Jobs
                   PROVE  WithinBudget(j, Restore(status), flight, attempts, retryTimers,
                                       delivered, Extra')
        BY <1>1 DEF AllWithin
      <3>1. CASE starts = 0
        <4>1. Restore(status)[j] = status[j]
          BY <3>1 DEF Restore, BInv, Idle
        <4> QED  BY <1>3, <3>1, <4>1, OneJob DEF WithinBudget, Chances
      <3>2. CASE starts # 0
        <4>1. Chances(Restore(status), retryTimers, j) <= Chances(status, retryTimers, j) + 1
          BY <1>2 DEF Chances, Restore
        <4>2. /\ Chances(Restore(status), retryTimers, j) \in Nat
              /\ Chances(status, retryTimers, j) \in Nat
              /\ Underway(flight, j) \in Nat /\ Unsent(flight, j) \in Nat
          BY <1>2 DEF Chances, Underway, Unsent
        <4>3. Extra' = Extra + 1
          BY <1>3, <3>2
        <4> QED  BY <1>2, <4>1, <4>2, <4>3, OneJob DEF WithinBudget
      <3> QED  BY <3>1, <3>2
    <2>4. Untouched(attempts, retryTimers', delivered', created')
      BY <1>1 DEF BInv
    <2> QED  BY <1>2, <1>4, <1>5, <2>1, <2>2, <2>3, <2>4, ProcessNextKeepsBudget
  <1>6. CASE UNCHANGED <<status, attempts, isProcessing, flight>>
    <2>1. \A j \in Jobs :
            WithinBudget(j, status, flight, attempts, retryTimers, delivered, Extra')
      <3> SUFFICES ASSUME NEW j \in Jobs
                   PROVE  WithinBudget(j, status, flight, attempts, retryTimers, delivered, Extra')
        OBVIOUS
      <3>1. /\ Chances(status, retryTimers, j) \in Nat
            /\ Underway(flight, j) \in Nat /\ Unsent(flight, j) \in Nat
        BY <1>2 DEF Chances, Underway, Unsent
      <3> QED  BY <1>2, <1>4, <3>1, OneJob DEF WithinBudget
    <2> QED  BY <1>1, <1>4, <1>6, <2>1 DEF BInv, AllWithin
  <1> QED  BY <1>5, <1>6 DEF Start

\* resume() creates no chance.
LEMMA ResumeKeepsBudget ==
    ASSUME BInv, IInv', Resume
    PROVE  BInv'
  <1>1. UNCHANGED <<created, scheduledFor, isRunning, retryTimers, delivered, starts, boots>>
    BY DEF Resume, history
  <1>2. Extra' = Extra /\ IInv
    BY <1>1 DEF Extra, BInv
  <1>3. CASE ProcessNext(isProcessing, status, flight)
    <2>1. /\ Typed(isProcessing, status, flight) /\ Sequential(isProcessing, flight)
          /\ Inserted(status, flight, created')
      BY <1>1, <1>2, Unfolded DEF Sound
    <2>2. /\ AllWithin(status, flight, attempts, retryTimers', delivered', Extra')
          /\ Untouched(attempts, retryTimers', delivered', created')
          /\ starts' = 0 => ~isRunning' /\ Idle(status, flight)
      BY <1>1, <1>2 DEF BInv
    <2> QED  BY <1>2, <1>3, <2>1, <2>2, ProcessNextKeepsBudget
  <1>4. CASE UNCHANGED <<status, attempts, isProcessing, flight>>
    BY <1>1, <1>2, <1>4 DEF BInv
  <1> QED  BY <1>3, <1>4 DEF Resume

\* An attempt is over: at most one timer takes its place, and none once its message is
\* accepted or the attempts are used up.
LEMMA FinallyKeepsBudget ==
    ASSUME BInv, IInv', NEW j \in Jobs, flight[j] # "none",
           NEW word \in {"completed", "retrying", "failed"}, Finally(j, word),
           UNCHANGED <<created, delivered, starts, boots, isRunning>>,
           \/ retryTimers' = retryTimers
           \/ /\ flight[j] = "refused" /\ attempts[j] < Limit
              /\ retryTimers' = [retryTimers EXCEPT ![j] = @ + 1]
    PROVE  BInv'
  <1> DEFINE st == Update(status, j, word)
             fl == [flight EXCEPT ![j] = "none"]
  <1>1. ProcessNext(FALSE, st, fl)
    BY DEF Finally
  <1>2. IInv /\ Extra' = Extra /\ Extra \in Nat /\ Limit \in Nat /\ Limit >= 1
    BY Amounts DEF BInv, Extra
  <1>3. /\ st \in [Jobs -> Statuses]
        /\ st[j] # "pending"
        /\ \A k \in Jobs : /\ k # j => st[k] = status[k]
                           /\ status[k] = "absent" => st[k] = "absent"
    BY <1>2, Unfolded DEF Update, Typed, Statuses
  <1>4. /\ fl \in [Jobs -> Flights] /\ \A k \in Jobs : fl[k] = "none"
        /\ \A k \in Jobs : k # j => fl[k] = flight[k]
    BY <1>2, Unfolded DEF Typed, Flights, Sound, Sequential
  <1> HIDE DEF st, fl
  <1>5. Typed(FALSE, st, fl) /\ Sequential(FALSE, fl)
    BY <1>3, <1>4 DEF Typed, Sequential
  <1>6. Inserted(st, fl, created')
    BY <1>2, <1>3, <1>4, Unfolded DEF Sound, Inserted
  <1>7. \A k \in Jobs : /\ attempts[k] \in Nat /\ retryTimers[k] \in Nat /\ delivered[k] \in Nat
                        /\ retryTimers'[k] \in Nat
                        /\ k # j => retryTimers'[k] = retryTimers[k]
    BY <1>2, Amounts, Unfolded DEF TypedRest
  <1>8. WithinBudget(j, st, fl, attempts, retryTimers', delivered, Extra)
    <2>1. WithinBudget(j, status, flight, attempts, retryTimers, delivered, Extra)
      BY OneJob
    <2>2. /\ Underway(flight, j) = 1 /\ Underway(fl, j) = 0 /\ Unsent(fl, j) = 0
          /\ Chances(st, retryTimers', j) = retryTimers'[j]
          /\ Chances(status, retryTimers, j) \in Nat
          /\ Chances(status, retryTimers, j) >= retryTimers[j]
          /\ Unsent(flight, j) \in Nat
          /\ flight[j] = "refused" => Unsent(flight, j) = 1
      BY <1>3, <1>4, <1>7 DEF Underway, Unsent, Chances
    <2>3. CASE retryTimers' = retryTimers
      BY <1>2, <1>7, <2>1, <2>2, <2>3 DEF WithinBudget
    <2>4. CASE /\ flight[j] = "refused" /\ attempts[j] < Limit
               /\ retryTimers' = [retryTimers EXCEPT ![j] = @ + 1]
      <3>1. retryTimers'[j] = retryTimers[j] + 1
        BY <1>2, <2>4, Unfolded DEF TypedRest
      <3> QED  BY <1>2, <1>7, <2>1, <2>2, <2>4, <3>1 DEF WithinBudget
    <2> QED  BY <2>3, <2>4
  <1>9. AllWithin(st, fl, attempts, retryTimers', delivered', Extra')
    <2> SUFFICES ASSUME NEW k \in Jobs, k # j
                 PROVE  WithinBudget(k, st, fl, attempts, retryTimers', delivered, Extra)
      BY <1>2, <1>8 DEF AllWithin
    <2> QED  BY <1>3, <1>4, <1>7, OneJob DEF WithinBudget, Chances, Underway, Unsent
  <1>10. Untouched(attempts, retryTimers', delivered', created')
    <2>1. j <= created
      BY <1>2, Unfolded DEF Sound, Inserted
    <2>2. \A k \in Jobs : k > created => k # j
      BY <1>2, <2>1, Unfolded DEF TypedRest, Jobs
    <2> QED  BY <1>7, <2>2, OneJob DEF Untouched
  <1>11. starts' = 0 => ~isRunning' /\ Idle(st, fl)
    BY DEF BInv, Idle
  <1> QED  BY <1>1, <1>2, <1>5, <1>6, <1>9, <1>10, <1>11, ProcessNextKeepsBudget

\* handleJobSuccess and handleJobFailure.
LEMMA AnswersKeepBudget ==
    ASSUME BInv, IInv', NEW j \in Jobs, Succeed(j) \/ Fail(j)
    PROVE  BInv'
  <1>1. UNCHANGED <<created, delivered, starts, boots, isRunning>> /\ flight[j] # "none"
    BY DEF Succeed, Fail, Accepted, Refused, history, control
  <1>2. CASE Succeed(j)
    BY <1>1, <1>2, FinallyKeepsBudget DEF Succeed
  <1>3. CASE Fail(j) /\ MayRetry(j)
    <2>1. attempts[j] < Limit
      BY <1>3, ConstantsAssumption, Amounts DEF MayRetry, Limit, BInv
    <2> QED  BY <1>1, <1>3, <2>1, FinallyKeepsBudget DEF Fail, Refused
  <1>4. CASE Fail(j) /\ ~MayRetry(j)
    BY <1>1, <1>4, FinallyKeepsBudget DEF Fail
  <1> QED  BY <1>2, <1>3, <1>4

\* A timer that rings becomes at most one pending row.
LEMMA RetryTimerKeepsBudget ==
    ASSUME BInv, IInv', NEW j \in Jobs, RetryTimerFires(j)
    PROVE  BInv'
  <1>1. /\ retryTimers[j] > 0
        /\ retryTimers' = [retryTimers EXCEPT ![j] = @ - 1]
        /\ UNCHANGED <<created, isRunning, delivered, starts, boots>>
    BY DEF RetryTimerFires, Armed, control, history
  <1>2. /\ IInv /\ Extra' = Extra /\ Extra \in Nat /\ Limit \in Nat
        /\ \A k \in Jobs : attempts[k] \in Nat /\ retryTimers[k] \in Nat /\ delivered[k] \in Nat
    BY <1>1, Amounts DEF BInv, Extra
  <1>3. /\ retryTimers'[j] = retryTimers[j] - 1
        /\ \A k \in Jobs : k # j => retryTimers'[k] = retryTimers[k]
    BY <1>1, <1>2, Unfolded DEF TypedRest
  <1>4. \A k \in Jobs : k > created => retryTimers'[k] = 0 /\ delivered[k] = 0
    BY <1>1, <1>3, <1>2, OneJob
  <1>5. CASE isRunning /\ ProcessNext(isProcessing, Update(status, j, "pending"), flight)
    <2> DEFINE st == Update(status, j, "pending")
    <2>1. /\ st \in [Jobs -> Statuses]
          /\ \A k \in Jobs : /\ k # j => st[k] = status[k]
                             /\ status[k] = "absent" => st[k] = "absent"
      BY <1>2, Unfolded DEF Update, Typed, Statuses
    <2>2. ProcessNext(isProcessing, st, flight)
      BY <1>5
    <2> HIDE DEF st
    <2>3. Typed(isProcessing, st, flight) /\ Sequential(isProcessing, flight)
      BY <1>2, <2>1, Unfolded DEF Typed, Sound
    <2>4. Inserted(st, flight, created')
      BY <1>1, <1>2, <2>1, Unfolded DEF Sound, Inserted
    <2>5. AllWithin(st, flight, attempts, retryTimers', delivered', Extra')
      <3> SUFFICES ASSUME NEW k \in Jobs
                   PROVE  WithinBudget(k, st, flight, attempts, retryTimers', delivered, Extra)
        BY <1>1, <1>2 DEF AllWithin
      <3>1. CASE k = j
        <4>1. Chances(st, retryTimers', j) <= Chances(status, retryTimers, j)
          BY <1>1, <1>2, <1>3 DEF Chances
        <4>2. /\ Chances(st, retryTimers', j) \in Nat /\ Chances(status, retryTimers, j) \in Nat
              /\ Underway(flight, j) \in Nat /\ Unsent(flight, j) \in Nat
          BY <1>1, <1>2, <1>3 DEF Chances, Underway, Unsent
        <4> QED  BY <1>2, <3>1, <4>1, <4>2, OneJob DEF WithinBudget
      <3>2. CASE k # j
        BY <1>3, <2>1, <3>2, OneJob DEF WithinBudget, Chances
      <3> QED  BY <3>1, <3>2
    <2>6. Untouched(attempts, retryTimers', delivered', created')
      BY <1>1, <1>4, OneJob DEF Untouched
    <2>7. starts' = 0 => ~isRunning' /\ Idle(st, flight)
      BY <1>1, <1>5 DEF BInv
    <2> QED  BY <1>2, <2>2, <2>3, <2>4, <2>5, <2>6, <2>7, ProcessNextKeepsBudget
  <1>6. CASE UNCHANGED <<status, attempts, isProcessing, flight>>
    <2>1. \A k \in Jobs : Chances(status', retryTimers', k) <= Chances(status, retryTimers, k)
      BY <1>2, <1>3, <1>6 DEF Chances
    <2>2. \A k \in Jobs : /\ Chances(status', retryTimers', k) \in Nat
                          /\ Chances(status, retryTimers, k) \in Nat
                          /\ Underway(flight, k) \in Nat /\ Unsent(flight, k) \in Nat
      BY <1>1, <1>2, <1>3, <1>6 DEF Chances, Underway, Unsent
    <2>3. \A k \in Jobs :
            WithinBudget(k, status', flight', attempts', retryTimers', delivered', Extra')
      <3> SUFFICES ASSUME NEW k \in Jobs
                   PROVE  WithinBudget(k, status', flight, attempts, retryTimers', delivered, Extra)
        BY <1>1, <1>2, <1>6
      <3> QED  BY <1>2, <2>1, <2>2, OneJob DEF WithinBudget
    <2>4. Untouched(attempts', retryTimers', delivered', created')
      BY <1>1, <1>4, <1>6, OneJob DEF Untouched
    <2> QED  BY <1>1, <1>6, <2>3, <2>4 DEF BInv, AllWithin
  <1> QED  BY <1>5, <1>6 DEF RetryTimerFires

\* The calls that neither begin nor end an attempt, and the hearing of an answer.
LEMMA QuietStepsKeepBudget ==
    ASSUME BInv, IInv',
           \/ Stop \/ StopResolves \/ Pause \/ Shutdown \/ ShutdownEnds \/ UNCHANGED vars
           \/ \E j \in Jobs : TimePasses(j)
    PROVE  BInv'
  <1>1. /\ UNCHANGED <<created, status, attempts, flight, retryTimers, delivered, starts, boots>>
        /\ isRunning' = isRunning \/ isRunning' = FALSE
    BY DEF Stop, StopResolves, Pause, Shutdown, ShutdownEnds, TimePasses, table, process, control,
           history, vars
  <1>2. Extra' = Extra
    BY <1>1 DEF Extra
  <1> QED  BY <1>1, <1>2 DEF BInv

\* clear(), the cleanup and the deletion of the file take chances away.
LEMMA RemovalKeepsBudget ==
    ASSUME BInv, IInv', Clear \/ CleanupTick \/ Destroy \/ DestroyEnds
    PROVE  BInv'
  <1>1. /\ UNCHANGED <<created, attempts, flight, retryTimers, delivered, starts, boots>>
        /\ isRunning' = isRunning \/ isRunning' = FALSE
    BY DEF Clear, CleanupTick, Destroy, DestroyEnds, process, control, history
  <1>2. \A j \in Jobs : status'[j] \in {status[j], "absent"}
    <2>1. CASE Clear
      BY <2>1 DEF Clear
    <2>2. CASE CleanupTick
      BY <2>2 DEF CleanupTick, Cleanup
    <2>3. CASE Destroy \/ DestroyEnds
      BY <2>3 DEF Destroy, DestroyEnds, DeleteFile
    <2> QED  BY <2>1, <2>2, <2>3
  <1>3. Extra' = Extra /\ Extra \in Nat /\ Limit \in Nat
    BY <1>1, Amounts DEF BInv, Extra
  <1>4. \A j \in Jobs : attempts[j] \in Nat /\ retryTimers[j] \in Nat /\ delivered[j] \in Nat
    BY Amounts DEF BInv
  <1>5. \A j \in Jobs : Chances(status', retryTimers, j) <= Chances(status, retryTimers, j)
    BY <1>2, <1>4 DEF Chances
  <1>6. AllWithin(status', flight, attempts, retryTimers, delivered, Extra)
    <2> SUFFICES ASSUME NEW j \in Jobs
                 PROVE  WithinBudget(j, status', flight, attempts, retryTimers, delivered, Extra)
      BY DEF AllWithin
    <2>1. /\ Chances(status', retryTimers, j) \in Nat /\ Chances(status, retryTimers, j) \in Nat
          /\ Underway(flight, j) \in Nat /\ Unsent(flight, j) \in Nat
      BY <1>4 DEF Chances, Underway, Unsent
    <2> QED  BY <1>3, <1>4, <1>5, <2>1, OneJob DEF WithinBudget
  <1>7. starts' = 0 => ~isRunning' /\ Idle(status', flight')
    BY <1>1, <1>2 DEF BInv, Idle
  <1> QED  BY <1>1, <1>3, <1>6, <1>7 DEF BInv

\* What was unsent is sent, or stays so.
LEMMA ProviderKeepsBudget ==
    ASSUME BInv, IInv', NEW j \in Jobs, ProviderAccepts(j) \/ ProviderRefuses(j)
    PROVE  BInv'
  <1>1. /\ flight[j] = "sending"
        /\ UNCHANGED <<created, status, attempts, retryTimers, isRunning, starts, boots>>
    BY DEF ProviderAccepts, ProviderRefuses, table, control, history
  <1>2. /\ IInv /\ Extra' = Extra /\ Extra \in Nat /\ Limit \in Nat
        /\ \A k \in Jobs : attempts[k] \in Nat /\ retryTimers[k] \in Nat /\ delivered[k] \in Nat
    BY <1>1, Amounts DEF BInv, Extra
  <1>3. /\ \/ flight'[j] = "accepted" /\ delivered'[j] = delivered[j] + 1
           \/ flight'[j] = "refused" /\ delivered'[j] = delivered[j]
        /\ \A k \in Jobs : k # j => flight'[k] = flight[k] /\ delivered'[k] = delivered[k]
    BY <1>2, Unfolded DEF ProviderAccepts, ProviderRefuses, Typed, TypedRest, history
  <1>4. WithinBudget(j, status', flight', attempts', retryTimers', delivered', Extra')
    <2>1. /\ Underway(flight, j) = 1 /\ Underway(flight', j) = 1
          /\ Chances(status, retryTimers, j) \in Nat
          /\ delivered'[j] + Unsent(flight', j) <= delivered[j] + Unsent(flight, j)
          /\ Unsent(flight, j) \in Nat /\ Unsent(flight', j) \in Nat /\ delivered'[j] \in Nat
      BY <1>1, <1>2, <1>3 DEF Underway, Unsent, Chances
    <2> QED  BY <1>1, <1>2, <2>1, OneJob DEF WithinBudget
  <1>5. ASSUME NEW k \in Jobs, k # j
        PROVE  WithinBudget(k, status', flight', attempts', retryTimers', delivered', Extra')
    BY <1>1, <1>2, <1>3, <1>5, OneJob DEF WithinBudget, Underway, Unsent
  <1>6. Untouched(attempts', retryTimers', delivered', created')
    <2>1. j <= created
      BY <1>1, <1>2, Unfolded DEF Sound, Inserted
    <2>2. \A k \in Jobs : k > created => k # j
      BY <1>2, <2>1, Unfolded DEF TypedRest, Jobs
    <2> QED  BY <1>1, <1>3, <2>2, OneJob DEF Untouched
  <1>7. starts' # 0
    BY <1>1 DEF BInv, Idle
  <1> QED  BY <1>4, <1>5, <1>6, <1>7 DEF BInv, AllWithin

\* A dying process takes its timers along; at most its one message still arrives.
LEMMA DeathKeepsBudget ==
    ASSUME BInv, IInv', Exit \/ DiesUncaught \/ Crash
    PROVE  BInv'
  <1>1. ProcessEnds
    BY DEF Exit, DiesUncaught, Crash
  <1>2. /\ UNCHANGED <<created, status, attempts, starts, boots>>
        /\ isRunning' = FALSE
        /\ \A j \in Jobs : flight'[j] = "none" /\ retryTimers'[j] = 0
    BY <1>1 DEF ProcessEnds, NoFlight, table
  <1>3. /\ IInv /\ Extra' = Extra /\ Extra \in Nat /\ Limit \in Nat
        /\ \A k \in Jobs : attempts[k] \in Nat /\ retryTimers[k] \in Nat /\ delivered[k] \in Nat
    BY <1>2, Amounts DEF BInv, Extra
  <1>4. \A j \in Jobs : /\ delivered'[j] \in Nat
                        /\ \/ delivered'[j] = delivered[j]
                           \/ flight[j] = "sending" /\ delivered'[j] = delivered[j] + 1
    <2>1. CASE Exit \/ DiesUncaught
      BY <1>3, <2>1 DEF Exit, DiesUncaught
    <2>2. CASE Crash
      <3>1. PICK arrives \in SUBSET {j \in Jobs : flight[j] = "sending"} :
              delivered' = [j \in Jobs |-> delivered[j] + (IF j \in arrives THEN 1 ELSE 0)]
        BY <2>2 DEF Crash
      <3> QED  BY <1>3, <3>1
    <2> QED  BY <2>1, <2>2
  <1>5. AllWithin(status', flight', attempts', retryTimers', delivered', Extra')
    <2> SUFFICES ASSUME NEW j \in Jobs
                 PROVE  WithinBudget(j, status, flight', attempts, retryTimers', delivered', Extra)
      BY <1>2, <1>3 DEF AllWithin
    <2>1. /\ Chances(status, retryTimers', j) <= Chances(status, retryTimers, j)
          /\ Chances(status, retryTimers', j) \in Nat /\ Chances(status, retryTimers, j) \in Nat
      BY <1>2, <1>3 DEF Chances
    <2>2. /\ Underway(flight', j) = 0 /\ Underway(flight, j) \in Nat
          /\ Unsent(flight', j) = 0 /\ Unsent(flight, j) \in Nat
          /\ delivered'[j] <= delivered[j] + Unsent(flight, j)
      BY <1>2, <1>3, <1>4 DEF Underway, Unsent
    <2> QED  BY <1>3, <1>4, <2>1, <2>2, OneJob DEF WithinBudget
  <1>6. Untouched(attempts', retryTimers', delivered', created')
    <2>1. \A j \in Jobs : j > created => flight[j] = "none"
      BY <1>3, Unfolded DEF Sound, Inserted, TypedRest, Jobs
    <2> QED  BY <1>2, <1>4, <2>1, OneJob DEF Untouched
  <1>7. starts' = 0 => ~isRunning' /\ Idle(status', flight')
    BY <1>2 DEF BInv, Idle
  <1> QED  BY <1>5, <1>6, <1>7 DEF BInv

\* A restart buys a job one chance.
LEMMA BootKeepsBudget ==
    ASSUME BInv, IInv', Boot
    PROVE  BInv'
  <1>1. /\ boots' = boots + 1
        /\ UNCHANGED <<created, attempts, isRunning, flight, retryTimers, delivered, starts>>
    BY DEF Boot, control
  <1>2. /\ IInv /\ Extra \in Nat /\ Limit \in Nat /\ starts \in Nat /\ boots \in Nat
        /\ \A k \in Jobs : attempts[k] \in Nat /\ retryTimers[k] \in Nat /\ delivered[k] \in Nat
    BY Amounts DEF BInv
  <1>3. Extra' = Extra + 1
    <2>1. \A s, b \in Nat : Restorings(s, b + 1) = Restorings(s, b) + 1
      BY DEF Restorings
    <2> QED  BY <1>1, <1>2, <2>1 DEF Extra
  <1>4. PICK cutoff \in Cutoffs : status' = Cleanup(Restore(status), cutoff)
    BY DEF Boot
  <1>5. \A j \in Jobs : status[j] \in {"absent", "pending"} => status'[j] = status[j]
    BY <1>4 DEF Cleanup, Restore
  <1>6. AllWithin(status', flight', attempts', retryTimers', delivered', Extra')
    <2> SUFFICES ASSUME NEW j \in Jobs
                 PROVE  WithinBudget(j, status', flight, attempts, retryTimers, delivered, Extra + 1)
      BY <1>1, <1>3 DEF AllWithin
    <2>1. /\ Chances(status', retryTimers, j) <= Chances(status, retryTimers, j) + 1
          /\ Chances(status', retryTimers, j) \in Nat /\ Chances(status, retryTimers, j) \in Nat
          /\ Underway(flight, j) \in Nat /\ Unsent(flight, j) \in Nat
      BY <1>2 DEF Chances, Underway, Unsent
    <2> QED  BY <1>2, <2>1, OneJob DEF WithinBudget
  <1>7. starts' = 0 => ~isRunning' /\ Idle(status', flight')
    BY <1>1, <1>5 DEF BInv, Idle
  <1> QED  BY <1>1, <1>6, <1>7 DEF BInv, Untouched

-----------------------------------------------------------------------------
(***************************************************************************)
(* The theorems.                                                           *)
(***************************************************************************)
LEMMA InitEstablishesBudget == Init => BInv
  <1> SUFFICES ASSUME Init PROVE BInv
    OBVIOUS
  <1>1. IInv
    BY InitEstablishesIInv
  <1>2. /\ \A j \in Jobs : /\ status[j] = "absent" /\ flight[j] = "none" /\ attempts[j] = 0
                           /\ retryTimers[j] = 0 /\ delivered[j] = 0
        /\ ~isRunning
    BY DEF Init, NoFlight
  <1>3. Extra = 0 /\ Limit \in Nat /\ Limit >= 1
    BY <1>1, Amounts DEF Init, Extra, Restorings
  <1>4. AllWithin(status, flight, attempts, retryTimers, delivered, Extra)
    BY <1>2, <1>3 DEF AllWithin, WithinBudget, Chances, Underway, Unsent
  <1> QED  BY <1>1, <1>2, <1>4 DEF BInv, Untouched, Idle

LEMMA NextKeepsBudget == BInv /\ [Next]_vars => BInv'
  <1> SUFFICES ASSUME BInv, [Next]_vars PROVE BInv'
    OBVIOUS
  <1>1. IInv'
    BY NextKeepsIInv DEF BInv
  <1>2. CASE Progress
    BY <1>1, <1>2, QuietStepsKeepBudget, ProviderKeepsBudget, AnswersKeepBudget,
       RetryTimerKeepsBudget
       DEF Progress
  <1>3. CASE AddStartStop
    <2>1. ASSUME NEW k \in {0} \cup 2..N, AddBatch(k)  PROVE BInv'
      <3>1. k \in Nat
        BY ConstantsAssumption
      <3> QED  BY <1>1, <2>1, <3>1, InsertKeepsBudget DEF AddBatch
    <2>2. ASSUME NEW when \in {"none", "future"}, Add(when)  PROVE BInv'
      BY <1>1, <2>2, InsertKeepsBudget DEF Add
    <2> QED  BY <1>1, <1>3, <2>1, <2>2, StartKeepsBudget, QuietStepsKeepBudget DEF AddStartStop
  <1>4. CASE Pause \/ Shutdown \/ ShutdownEnds \/ UNCHANGED vars
    BY <1>1, <1>4, QuietStepsKeepBudget
  <1>5. CASE Resume \/ Boot
    BY <1>1, <1>5, ResumeKeepsBudget, BootKeepsBudget
  <1>6. CASE Clear \/ CleanupTick \/ Destroy \/ DestroyEnds
    BY <1>1, <1>6, RemovalKeepsBudget
  <1>7. CASE Exit \/ DiesUncaught \/ Crash
    BY <1>1, <1>7, DeathKeepsBudget
  <1> QED  BY <1>2, <1>3, <1>4, <1>5, <1>6, <1>7 DEF Next

\* The chances of every job stay within its budget.
THEOREM BudgetInvariance == Spec => []BInv
  BY InitEstablishesBudget, NextKeepsBudget, PTL DEF Spec

\* A message a provider accepted is sent again at most once per restart of the process
\* and per start() after the first, whatever the timers, answers and crashes do.
THEOREM Resends == Spec => []ResendBudget
  <1>1. BInv => ResendBudget
    <2> SUFFICES ASSUME BInv, NEW j \in Jobs  PROVE delivered[j] <= 1 + Extra
      BY Amounts DEF ResendBudget, Extra, Restorings, BInv
    <2>1. /\ Extra \in Nat
          /\ delivered[j] \in Nat /\ retryTimers[j] \in Nat
      BY Amounts DEF BInv
    <2>2. Chances(status, retryTimers, j) \in Nat /\ Unsent(flight, j) \in Nat
      BY <2>1 DEF Chances, Unsent
    <2> QED  BY <2>1, <2>2, OneJob DEF WithinBudget
  <1> QED  BY <1>1, BudgetInvariance, PTL

\* A job is attempted at most maxRetries times (once, if that is 0), and once more per
\* restart and per start() after the first.
THEOREM Retries == Spec => []RetryBudget
  <1>1. BInv => RetryBudget
    <2> SUFFICES ASSUME BInv, NEW j \in Jobs  PROVE attempts[j] <= Limit + Extra
      BY Amounts, ConstantsAssumption DEF RetryBudget, Extra, Restorings, Limit, BInv
    <2>1. /\ Extra \in Nat /\ Limit \in Nat
          /\ attempts[j] \in Nat /\ retryTimers[j] \in Nat
      BY Amounts DEF BInv
    <2>2. Chances(status, retryTimers, j) \in Nat
      BY <2>1 DEF Chances
    <2> QED  BY <2>1, <2>2, OneJob DEF WithinBudget
  <1> QED  BY <1>1, BudgetInvariance, PTL

-----------------------------------------------------------------------------
(***************************************************************************)
(* The SQLite queue implements EmailQueue, across crashes and restarts,    *)
(* for every number of rows, every maxRetries, and every number of start() *)
(* calls and restarts.  As in MemoryQueueProofs, a lemma relates           *)
(* processNext to Go, and each action shows which lives it passes on.      *)
(***************************************************************************)
\* Life(j), of the values processNext works on.
Stage(j, cr, st, fl) ==
    IF j > cr THEN "new"
    ELSE IF fl[j] \in {"sending", "refused"} THEN "sending"
    ELSE IF fl[j] = "accepted" THEN "accepted"
    ELSE IF st[j] = "absent" THEN "gone"
    ELSE IF st[j] = "completed" THEN "sent"
    ELSE IF st[j] = "failed" THEN "failed"
    ELSE "waiting"

LivesOf(cr, st, fl) == [j \in Jobs |-> Stage(j, cr, st, fl)]

\* A row in flight is not settled, so that the death of the process leaves it waiting,
\* or leaves no row.
FlightUnsettled(st, fl) ==
    \A j \in Jobs : fl[j] # "none" => st[j] \in {"processing", "pending", "absent"}

RInv == IInv /\ FlightUnsettled(status, flight)

\* What EmailQueue sees of the queue.
Seen == [j \in Jobs |-> Life(j)]
SeenDue == [j \in Jobs |-> scheduledFor[j] # "future"]
SeenTaking == isRunning /\ ~isPaused

\* Promise!Go(l), of the state it leads to.
Goes(l, seen, taking, due) ==
    \/ seen = l
    \/ /\ taking /\ Promise!Underway(l) = {}
       /\ \E j \in Promise!Eligible(l) : due[j] /\ seen = [l EXCEPT ![j] = "sending"]

-----------------------------------------------------------------------------
\* The case distinctions of Life are those of Stage.
LEMMA LifeIsStage ==
    ASSUME IInv
    PROVE  Seen = LivesOf(created, status, flight)
  <1>1. /\ created \in Int /\ Jobs \subseteq Int
        /\ \A j \in Jobs : flight[j] \in Flights
        /\ \A j \in Jobs : flight[j] # "none" => j <= created
    <2>1. created \in Int /\ Jobs \subseteq Int
      BY Unfolded DEF Jobs, TypedRest
    <2>2. flight \in [Jobs -> Flights] /\ Inserted(status, flight, created)
      BY Unfolded DEF Typed, Sound
    <2> QED  BY <2>1, <2>2 DEF Inserted
  <1>2. ASSUME NEW j \in Jobs  PROVE Life(j) = Stage(j, created, status, flight)
    <2>1. CASE j > created
      <3>1. ~(j <= created) /\ flight[j] = "none" /\ status[j] = "absent"
        BY <1>1, <2>1, Unfolded DEF Sound, Inserted
      <3> QED  BY <2>1, <3>1 DEF Life, Stage
    <2>2. CASE ~(j > created)
      <3>1. j <= created
        BY <1>1, <2>2
      <3> QED  BY <1>1, <2>2, <3>1 DEF Life, Stage, Flights
    <2> QED  BY <2>1, <2>2
  <1> QED  BY <1>2 DEF LivesOf, Seen

\* The same in the state a step leads to.
LEMMA LifeThenIsStage == IInv' => Seen' = LivesOf(created', status', flight')
  <1>1. IInv => Seen = LivesOf(created, status, flight)
    BY LifeIsStage
  <1>2. (IInv => Seen = LivesOf(created, status, flight))'
    BY <1>1, PTL
  <1> QED  BY <1>2

\* The jobs under way are the rows in flight.
LEMMA UnderwayIsInFlight ==
    ASSUME NEW cr, NEW st, NEW fl \in [Jobs -> Flights],
           \A j \in Jobs : fl[j] # "none" => ~(j > cr)
    PROVE  Promise!Underway(LivesOf(cr, st, fl)) = {j \in Jobs : fl[j] # "none"}
  <1>1. \A j \in Jobs : LivesOf(cr, st, fl)[j] = Stage(j, cr, st, fl)
    BY DEF LivesOf
  <1>2. \A j \in Jobs : fl[j] \in Flights
    OBVIOUS
  <1>3. \A j \in Jobs : Stage(j, cr, st, fl) \in {"sending", "accepted"} <=> fl[j] # "none"
    BY <1>2 DEF Stage, Flights
  <1> QED  BY <1>1, <1>3 DEF Promise!Underway

\* What the invariant says of the lives it shows.
LEMMA SeenFacts ==
    ASSUME IInv
    PROVE  /\ Seen = LivesOf(created, status, flight)
           /\ Promise!Underway(Seen) = {j \in Jobs : flight[j] # "none"}
           /\ SeenTaking \in BOOLEAN
           /\ Typed(isProcessing, status, flight) /\ Sequential(isProcessing, flight)
           /\ Inserted(status, flight, created)
           /\ created \in Int /\ Jobs \subseteq Int
  <1>1. Seen = LivesOf(created, status, flight)
    BY LifeIsStage
  <1>2. created \in Int /\ Jobs \subseteq Int
    BY Unfolded DEF Jobs, TypedRest
  <1>3. \A j \in Jobs : flight[j] # "none" => ~(j > created)
    BY <1>2, Unfolded DEF Sound, Inserted
  <1>4. Promise!Underway(Seen) = {j \in Jobs : flight[j] # "none"}
    BY <1>1, <1>3, UnderwayIsInFlight, Unfolded DEF Typed
  <1>5. SeenTaking \in BOOLEAN
    BY Unfolded DEF TypedRest, SeenTaking
  <1> QED  BY <1>1, <1>2, <1>4, <1>5, Unfolded DEF Sound

\* processNext does what Go says: it changes no life, or takes up one job that waits.
LEMMA ProcessNextGoes ==
    ASSUME NEW busy, NEW st, NEW fl,
           Typed(busy, st, fl), Sequential(busy, fl), Inserted(st, fl, created'),
           ProcessNext(busy, st, fl),
           IInv'
    PROVE  Goes(LivesOf(created', st, fl), Seen', SeenTaking', SeenDue')
  <1> DEFINE l == LivesOf(created', st, fl)
             m == LivesOf(created', status', flight')
  <1>0. Seen' = m
    BY LifeThenIsStage
  <1>1. CASE Leave(busy, st, fl)
    BY <1>0, <1>1 DEF Leave, Goes
  <1>2. ASSUME CanProcess(busy), NEW j \in Oldest(Ready(st)), Attempt(j, st, fl)
        PROVE  Goes(l, Seen', SeenTaking', SeenDue')
    <2>1. /\ j \in Jobs /\ st[j] = "pending" /\ scheduledFor'[j] # "future"
          /\ busy = FALSE
      BY <1>2 DEF Oldest, Ready, CanProcess, Typed
    <2>2. \A k \in Jobs : fl[k] = "none"
      BY <2>1 DEF Sequential
    <2>3. j <= created' /\ created' \in Int /\ j \in Int
      BY <2>1, Unfolded DEF Inserted, IInv, TypeOK, Jobs
    <2>4. status' = [st EXCEPT ![j] = "processing"] /\ flight' = [fl EXCEPT ![j] = "sending"]
      BY <1>2 DEF Attempt
    <2>5. m = [l EXCEPT ![j] = "sending"]
      <3>1. Stage(j, created', status', flight') = "sending"
        BY <2>1, <2>3, <2>4 DEF Stage, Typed
      <3>2. \A k \in Jobs : k # j => Stage(k, created', status', flight')
                                     = Stage(k, created', st, fl)
        BY <2>4 DEF Stage, Typed
      <3> QED  BY <2>1, <3>1, <3>2 DEF LivesOf
    <2>6. l[j] = "waiting"
      BY <2>1, <2>2, <2>3 DEF LivesOf, Stage
    <2>7. Promise!Underway(l) = {}
      <3>1. fl \in [Jobs -> Flights]
        BY DEF Typed
      <3> QED  BY <2>2, <3>1, UnderwayIsInFlight
    <2>8. j \in Promise!Eligible(l)
      BY <2>1, <2>6 DEF Promise!Eligible
    <2>9. SeenTaking' /\ SeenDue'[j]
      BY <1>2, <2>1 DEF CanProcess, SeenTaking, SeenDue
    <2> HIDE DEF l, m
    <2> QED  BY <1>0, <2>5, <2>7, <2>8, <2>9 DEF Goes
  <1> QED  BY <1>1, <1>2 DEF ProcessNext

-----------------------------------------------------------------------------
(***************************************************************************)
(* The steps.                                                              *)
(***************************************************************************)
\* The new rows' lives begin; the date is their own.
LEMMA InsertIsAdd ==
    ASSUME IInv, IInv', NEW k \in Nat, NEW when \in {"none", "future"}, Insert(k, when)
    PROVE  Promise!Next
  <1> DEFINE new == (created + 1)..created'
             st  == [j \in Jobs |-> IF j \in new THEN "pending" ELSE status[j]]
  <1>1. /\ created' = created + k
        /\ scheduledFor' = [j \in Jobs |-> IF j \in new THEN when ELSE scheduledFor[j]]
        /\ UNCHANGED <<isRunning, isPaused, delivered>>
        /\ ProcessNext(isProcessing, st, flight)
    BY DEF Insert, control, history
  <1>2. created \in Nat /\ created' <= N /\ N \in Nat
    BY <1>1, Unfolded DEF TypedRest, Insert
  <1>3. new \subseteq Jobs /\ \A j \in Jobs : j \in new <=> created < j /\ j <= created'
    BY <1>1, <1>2 DEF Jobs
  <1>4. \A j \in Jobs : j \in new => j > created /\ ~(j > created') /\ flight[j] = "none"
    <2>1. \A j \in Jobs : j \in Int /\ (flight[j] # "none" => j <= created)
      BY SeenFacts DEF Inserted
    <2> QED  BY <1>1, <1>2, <1>3, <2>1
  <1>5. \A j \in Jobs : j \notin new => (j > created <=> j > created')
    BY <1>1, <1>2, <1>3 DEF Jobs
  <1>6. Typed(isProcessing, st, flight)
    BY SeenFacts DEF Typed, Statuses
  <1>7. Inserted(st, flight, created')
    <2>1. \A j \in Jobs : j \notin new => st[j] = status[j]
      OBVIOUS
    <2>2. \A j \in Jobs : j <= created => j <= created'
      BY <1>1, <1>2 DEF Jobs
    <2>3. \A j \in Jobs : j \in new => j <= created'
      BY <1>3
    <2> QED  BY <2>1, <2>2, <2>3, SeenFacts DEF Inserted
  <1>8. \A j \in Jobs : st[j] = IF j \in new THEN "pending" ELSE status[j]
    OBVIOUS
  <1>9. SeenDue' \in [Jobs -> BOOLEAN] /\ \A j \in Jobs \ new : SeenDue'[j] = SeenDue[j]
    <2>1. \A j \in Jobs \ new : scheduledFor'[j] = scheduledFor[j]
      BY <1>1
    <2> QED  BY <2>1 DEF SeenDue
  <1> HIDE DEF st, new
  <1>10. Goes(LivesOf(created', st, flight), Seen', SeenTaking', SeenDue')
    <2>1. Sequential(isProcessing, flight) /\ ProcessNext(isProcessing, st, flight)
      BY <1>1, SeenFacts
    <2> QED  BY <1>6, <1>7, <2>1, ProcessNextGoes
  <1>11. LivesOf(created', st, flight)
           = [j \in Jobs |-> IF j \in new THEN "waiting" ELSE Seen[j]]
    <2>1. \A j \in Jobs : j \in new => Stage(j, created', st, flight) = "waiting"
      BY <1>4, <1>8 DEF Stage
    <2>2. \A j \in Jobs : j \notin new => Stage(j, created', st, flight)
                                          = Stage(j, created, status, flight)
      BY <1>5, <1>8 DEF Stage
    <2> QED  BY <2>1, <2>2, SeenFacts DEF LivesOf
  <1>12. new \in SUBSET {j \in Jobs : Seen[j] = "new"}
    <2>1. \A j \in new : j \in Jobs /\ Seen[j] = "new"
      BY <1>3, <1>4, SeenFacts DEF LivesOf, Stage
    <2> QED  BY <2>1
  <1>13. UNCHANGED <<SeenTaking, delivered>>
    BY <1>1 DEF SeenTaking
  <1>14. Goes([j \in Jobs |-> IF j \in new THEN "waiting" ELSE Seen[j]],
              Seen', SeenTaking', SeenDue')
    BY <1>10, <1>11
  <1>15. \E added \in SUBSET {j \in Jobs : Seen[j] = "new"} :
           /\ \A j \in Jobs \ added : SeenDue'[j] = SeenDue[j]
           /\ UNCHANGED <<SeenTaking, delivered>>
           /\ SeenDue' \in [Jobs -> BOOLEAN]
           /\ Goes([j \in Jobs |-> IF j \in added THEN "waiting" ELSE Seen[j]],
                   Seen', SeenTaking', SeenDue')
    BY <1>9, <1>12, <1>13, <1>14
  <1> QED
    BY <1>15 DEF Promise!Next, Promise!Add, Promise!Go, Goes, Seen, SeenDue, SeenTaking

\* A call of processNext with the lives as they were is a Switch.
LEMMA CallIsSwitch ==
    ASSUME IInv, IInv', NEW st,
           Typed(isProcessing, st, flight), Inserted(st, flight, created),
           LivesOf(created, st, flight) = Seen,
           UNCHANGED <<created, scheduledFor, delivered>>,
           ProcessNext(isProcessing, st, flight)
    PROVE  Promise!Next
  <1>1. Goes(LivesOf(created', st, flight), Seen', SeenTaking', SeenDue')
    <2>1. Inserted(st, flight, created') /\ Sequential(isProcessing, flight)
      BY SeenFacts
    <2> QED  BY <2>1, ProcessNextGoes
  <1>2. Goes(Seen, Seen', SeenTaking', SeenDue')
    BY <1>1
  <1>3. UNCHANGED <<delivered, SeenDue>> /\ SeenTaking' \in BOOLEAN
    <2>1. SeenTaking' \in BOOLEAN
      BY DEF IInv, TypeOK, SeenTaking
    <2> QED  BY <2>1 DEF SeenDue
  <1>4. Promise!Switch
    BY <1>2, <1>3 DEF Promise!Switch, Promise!Go, Goes, Seen, SeenDue, SeenTaking
  <1> QED  BY <1>4 DEF Promise!Next

\* So is a step that leaves the lives alone.
LEMMA SameLivesAreSwitch ==
    ASSUME IInv, IInv', UNCHANGED <<created, scheduledFor, delivered>>,
           LivesOf(created', status', flight') = Seen
    PROVE  Promise!Next
  <1>1. Seen' = Seen /\ UNCHANGED <<delivered, SeenDue>>
    BY LifeThenIsStage DEF SeenDue
  <1>2. SeenTaking' \in BOOLEAN
    BY DEF IInv, TypeOK, SeenTaking
  <1>3. Promise!Switch
    BY <1>1, <1>2 DEF Promise!Switch, Promise!Go, Seen, SeenDue, SeenTaking
  <1> QED  BY <1>3 DEF Promise!Next

\* Calls and timers that change the flags at most.
LEMMA FlagsAreSwitch ==
    ASSUME IInv, IInv', UNCHANGED <<created, scheduledFor, delivered, status, flight>>
    PROVE  Promise!Next
  <1>1. LivesOf(created', status', flight') = Seen
    BY SeenFacts
  <1> QED  BY <1>1, SameLivesAreSwitch

\* What is restored waited already, unless it is in flight.
LEMMA StartIsSwitch ==
    ASSUME IInv, IInv', Start
    PROVE  Promise!Next
  <1>1. UNCHANGED <<created, scheduledFor, delivered>>
    BY DEF Start
  <1>2. CASE ProcessNext(isProcessing, Restore(status), flight)
    <2>1. Restore(status) \in [Jobs -> Statuses]
      BY SeenFacts DEF Typed, Restore, Statuses
    <2>2. \A j \in Jobs : Restore(status)[j] = IF status[j] \in {"processing", "retrying"}
                                                 THEN "pending" ELSE status[j]
      BY DEF Restore
    <2>3. Typed(isProcessing, Restore(status), flight)
      BY <2>1, SeenFacts DEF Typed
    <2>4. Inserted(Restore(status), flight, created)
      BY <2>2, SeenFacts DEF Inserted
    <2>5. LivesOf(created, Restore(status), flight) = Seen
      <3>1. \A j \in Jobs : Stage(j, created, Restore(status), flight)
                              = Stage(j, created, status, flight)
        BY <2>2 DEF Stage
      <3> QED  BY <3>1, SeenFacts DEF LivesOf
    <2> QED  BY <1>1, <1>2, <2>3, <2>4, <2>5, CallIsSwitch
  <1>3. CASE UNCHANGED <<status, attempts, isProcessing, flight>>
    BY <1>1, <1>3, FlagsAreSwitch
  <1> QED  BY <1>2, <1>3 DEF Start

\* resume() changes a flag and goes on.
LEMMA ResumeIsSwitch ==
    ASSUME IInv, IInv', Resume
    PROVE  Promise!Next
  <1>1. UNCHANGED <<created, scheduledFor, delivered>>
    BY DEF Resume, history
  <1>2. CASE ProcessNext(isProcessing, status, flight)
    BY <1>1, <1>2, SeenFacts, CallIsSwitch
  <1>3. CASE UNCHANGED <<status, attempts, isProcessing, flight>>
    BY <1>1, <1>3, FlagsAreSwitch
  <1> QED  BY <1>2, <1>3 DEF Resume

\* A row whose time comes.
LEMMA TimePassesIsComesDue ==
    ASSUME IInv, IInv', NEW j \in Jobs, TimePasses(j)
    PROVE  Promise!Next
  <1>1. /\ scheduledFor' = [scheduledFor EXCEPT ![j] = "past"]
        /\ UNCHANGED <<created, status, flight, isRunning, isPaused, delivered>>
    BY DEF TimePasses, process, control, history
  <1>2. UNCHANGED <<Seen, SeenTaking, delivered>>
    BY <1>1, SeenFacts, LifeThenIsStage DEF SeenTaking
  <1>3. SeenDue' = [SeenDue EXCEPT ![j] = TRUE]
    BY <1>1, Unfolded DEF SeenDue, TypedRest
  <1>4. \E k \in Jobs : SeenDue' = [SeenDue EXCEPT ![k] = TRUE]
    BY <1>3
  <1> QED  BY <1>2, <1>4 DEF Promise!Next, Promise!ComesDue, Seen, SeenDue, SeenTaking

\* The provider accepts, and the queue has not heard of it.
LEMMA AcceptingIsAccept ==
    ASSUME IInv, IInv', NEW j \in Jobs, ProviderAccepts(j)
    PROVE  Promise!Next
  <1>1. /\ flight[j] = "sending" /\ flight' = [flight EXCEPT ![j] = "accepted"]
        /\ delivered' = [delivered EXCEPT ![j] = @ + 1]
        /\ UNCHANGED <<created, status, scheduledFor, isRunning, isPaused>>
    BY DEF ProviderAccepts, table, control
  <1>2. ~(j > created) /\ flight \in [Jobs -> Flights]
    BY <1>1, SeenFacts DEF Inserted, Typed
  <1>3. Seen[j] = "sending"
    BY <1>1, <1>2, SeenFacts DEF LivesOf, Stage
  <1>4. Seen' = [Seen EXCEPT ![j] = "accepted"]
    <2>1. Stage(j, created, status, flight') = "accepted"
      BY <1>1, <1>2 DEF Stage
    <2>2. \A k \in Jobs : k # j => Stage(k, created, status, flight')
                                   = Stage(k, created, status, flight)
      BY <1>1, <1>2 DEF Stage
    <2>3. Seen' = LivesOf(created, status, flight')
      BY <1>1, LifeThenIsStage
    <2> QED  BY <2>1, <2>2, <2>3, SeenFacts DEF LivesOf
  <1>5. UNCHANGED <<SeenDue, SeenTaking>>
    BY <1>1 DEF SeenDue, SeenTaking
  <1>6. \E k \in Jobs : /\ Seen[k] = "sending"
                        /\ delivered' = [delivered EXCEPT ![k] = @ + 1]
                        /\ UNCHANGED <<SeenDue, SeenTaking>>
                        /\ Seen' = [Seen EXCEPT ![k] = "accepted"]
    BY <1>1, <1>3, <1>4, <1>5
  <1> QED  BY <1>6 DEF Promise!Next, Promise!Accept, Seen, SeenDue, SeenTaking

\* Its refusal is not seen before processJob hears of it.
LEMMA RefusingIsSwitch ==
    ASSUME IInv, IInv', NEW j \in Jobs, ProviderRefuses(j)
    PROVE  Promise!Next
  <1>1. /\ flight[j] = "sending" /\ flight' = [flight EXCEPT ![j] = "refused"]
        /\ UNCHANGED <<created, status, scheduledFor, delivered>>
    BY DEF ProviderRefuses, table, history
  <1>2. flight \in [Jobs -> Flights]
    BY SeenFacts DEF Typed
  <1>3. \A k \in Jobs : Stage(k, created, status, flight') = Stage(k, created, status, flight)
    BY <1>1, <1>2 DEF Stage
  <1>4. LivesOf(created', status', flight') = Seen
    BY <1>1, <1>3, SeenFacts DEF LivesOf
  <1> QED  BY <1>1, <1>4, SameLivesAreSwitch

\* processJob hears of its attempt, and processNext goes on from there.
LEMMA AnswerGoes ==
    ASSUME IInv, IInv', NEW j \in Jobs, flight[j] # "none",
           NEW word \in {"completed", "retrying", "failed"},
           UNCHANGED <<created, scheduledFor>>,
           Finally(j, word)
    PROVE  \E end \in IF word = "completed" THEN {"sent", "gone"}
                                            ELSE {"waiting", "failed", "gone"} :
             Goes([Seen EXCEPT ![j] = end], Seen', SeenTaking', SeenDue')
  <1> DEFINE st  == Update(status, j, word)
             fl  == [flight EXCEPT ![j] = "none"]
             end == Stage(j, created, st, fl)
  <1>1. /\ ~(j > created) /\ status \in [Jobs -> Statuses] /\ flight \in [Jobs -> Flights]
        /\ \A k \in Jobs : flight[k] # "none" => k = j
    BY SeenFacts DEF Typed, Inserted, Sequential
  <1>2. /\ st \in [Jobs -> Statuses]
        /\ st[j] \in {word, "absent"} /\ \A k \in Jobs : k # j => st[k] = status[k]
        /\ \A k \in Jobs : status[k] = "absent" => st[k] = "absent"
    BY <1>1 DEF Update, Statuses
  <1>3. fl \in [Jobs -> Flights] /\ \A k \in Jobs : fl[k] = "none"
    BY <1>1 DEF Flights
  <1>4. ProcessNext(FALSE, st, fl)
    BY DEF Finally
  <1> HIDE DEF st
  <1>5. Typed(FALSE, st, fl) /\ Sequential(FALSE, fl)
    BY <1>2, <1>3 DEF Typed, Sequential
  <1>6. Inserted(st, fl, created')
    BY <1>2, <1>3, SeenFacts DEF Inserted
  <1>7. end \in IF word = "completed" THEN {"sent", "gone"} ELSE {"waiting", "failed", "gone"}
    BY <1>1, <1>2, <1>3 DEF Stage
  <1>8. LivesOf(created, st, fl) = [Seen EXCEPT ![j] = end]
    <2>1. \A k \in Jobs : k # j => Stage(k, created, st, fl) = Stage(k, created, status, flight)
      BY <1>1, <1>2, <1>3 DEF Stage
    <2> HIDE DEF fl
    <2> QED  BY <2>1, SeenFacts DEF LivesOf
  <1> HIDE DEF fl, end
  <1>9. Goes(LivesOf(created', st, fl), Seen', SeenTaking', SeenDue')
    BY <1>4, <1>5, <1>6, ProcessNextGoes
  <1>10. Goes([Seen EXCEPT ![j] = end], Seen', SeenTaking', SeenDue')
    BY <1>8, <1>9
  <1> QED  BY <1>7, <1>10

\* The success of an accepted message is recorded.
LEMMA SuccessIsRecord ==
    ASSUME IInv, IInv', NEW j \in Jobs, Succeed(j)
    PROVE  Promise!Next
  <1>1. /\ flight[j] = "accepted" /\ Finally(j, "completed")
        /\ UNCHANGED <<created, scheduledFor, isRunning, isPaused, delivered>>
    BY DEF Succeed, Accepted, control, history
  <1>2. ~(j > created)
    BY <1>1, SeenFacts DEF Inserted
  <1>3. Seen[j] = "accepted"
    BY <1>1, <1>2, SeenFacts DEF LivesOf, Stage
  <1>4. \E end \in {"sent", "gone"} : Goes([Seen EXCEPT ![j] = end], Seen', SeenTaking', SeenDue')
    BY <1>1, AnswerGoes
  <1>5. UNCHANGED <<SeenDue, SeenTaking, delivered>>
    BY <1>1 DEF SeenDue, SeenTaking
  <1>6. \E k \in Jobs :
          /\ Seen[k] = "accepted"
          /\ UNCHANGED <<SeenDue, SeenTaking, delivered>>
          /\ \E end \in {"sent", "gone"} :
               Goes([Seen EXCEPT ![k] = end], Seen', SeenTaking', SeenDue')
    BY <1>3, <1>4, <1>5
  <1> QED
    BY <1>6 DEF Promise!Next, Promise!Record, Promise!Go, Goes, Seen, SeenDue, SeenTaking

\* A refusal ends the attempt.
LEMMA FailureIsRefuse ==
    ASSUME IInv, IInv', NEW j \in Jobs, Fail(j)
    PROVE  Promise!Next
  <1>1. /\ flight[j] = "refused" /\ \E word \in {"retrying", "failed"} : Finally(j, word)
        /\ UNCHANGED <<created, scheduledFor, isRunning, isPaused, delivered>>
    BY DEF Fail, Refused, control, history
  <1>2. ~(j > created)
    BY <1>1, SeenFacts DEF Inserted
  <1>3. Seen[j] = "sending"
    BY <1>1, <1>2, SeenFacts DEF LivesOf, Stage
  <1>4. \E end \in {"waiting", "failed", "gone"} :
          Goes([Seen EXCEPT ![j] = end], Seen', SeenTaking', SeenDue')
    BY <1>1, AnswerGoes
  <1>5. UNCHANGED <<SeenDue, SeenTaking, delivered>>
    BY <1>1 DEF SeenDue, SeenTaking
  <1>6. \E k \in Jobs :
          /\ Seen[k] = "sending"
          /\ UNCHANGED <<SeenDue, SeenTaking, delivered>>
          /\ \E end \in {"waiting", "failed", "gone"} :
               Goes([Seen EXCEPT ![k] = end], Seen', SeenTaking', SeenDue')
    BY <1>3, <1>4, <1>5
  <1> QED
    BY <1>6 DEF Promise!Next, Promise!Refuse, Promise!Go, Goes, Seen, SeenDue, SeenTaking

\* A retry timer reopens a row that has settled; of any other it changes no life.
LEMMA RetryTimerIsReopen ==
    ASSUME IInv, IInv', NEW j \in Jobs, RetryTimerFires(j)
    PROVE  Promise!Next
  <1>1. UNCHANGED <<created, scheduledFor, isRunning, isPaused, delivered>>
    BY DEF RetryTimerFires, control, history
  <1>2. CASE UNCHANGED <<status, attempts, isProcessing, flight>>
    BY <1>1, <1>2, FlagsAreSwitch
  <1>3. CASE ProcessNext(isProcessing, Update(status, j, "pending"), flight)
    <2> DEFINE st == Update(status, j, "pending")
    <2>1. status \in [Jobs -> Statuses] /\ flight \in [Jobs -> Flights]
      BY SeenFacts DEF Typed
    <2>2. /\ st \in [Jobs -> Statuses]
          /\ \A k \in Jobs : k # j => st[k] = status[k]
          /\ st[j] = IF status[j] = "absent" THEN "absent" ELSE "pending"
      BY <2>1 DEF Update, Statuses
    <2>3. ProcessNext(isProcessing, st, flight)
      BY <1>3
    <2> HIDE DEF st
    <2>4. Typed(isProcessing, st, flight) /\ Sequential(isProcessing, flight)
      BY <2>2, SeenFacts DEF Typed
    <2>5. Inserted(st, flight, created)
      <3>1. \A k \in Jobs : status[k] = "absent" => st[k] = "absent"
        BY <2>2
      <3> QED  BY <3>1, SeenFacts DEF Inserted
    <2>6. CASE Seen[j] \in {"sent", "failed"}
      <3>1. LivesOf(created, st, flight) = [Seen EXCEPT ![j] = "waiting"]
        <4>1. Stage(j, created, st, flight) = "waiting"
          BY <2>2, <2>6, SeenFacts DEF LivesOf, Stage
        <4>2. \A k \in Jobs : k # j => Stage(k, created, st, flight)
                                       = Stage(k, created, status, flight)
          BY <2>2 DEF Stage
        <4> QED  BY <4>1, <4>2, SeenFacts DEF LivesOf
      <3>2. Goes(LivesOf(created', st, flight), Seen', SeenTaking', SeenDue')
        <4>1. Inserted(st, flight, created')
          BY <1>1, <2>5
        <4> QED  BY <2>3, <2>4, <4>1, ProcessNextGoes
      <3>3. Goes([Seen EXCEPT ![j] = "waiting"], Seen', SeenTaking', SeenDue')
        BY <1>1, <3>1, <3>2
      <3>4. UNCHANGED <<SeenDue, SeenTaking, delivered>>
        BY <1>1 DEF SeenDue, SeenTaking
      <3>5. \E k \in Jobs :
              /\ Seen[k] \in {"sent", "failed"} \ {}
              /\ UNCHANGED <<SeenDue, SeenTaking, delivered>>
              /\ Goes([Seen EXCEPT ![k] = "waiting"], Seen', SeenTaking', SeenDue')
        BY <2>6, <3>3, <3>4
      <3> QED
        BY <3>5 DEF Promise!Next, Promise!Reopen, Promise!Go, Goes, Seen, SeenDue, SeenTaking
    <2>7. CASE Seen[j] \notin {"sent", "failed"}
      <3>1. \A k \in Jobs : Stage(k, created, st, flight) = Stage(k, created, status, flight)
        BY <2>2, <2>7, SeenFacts DEF LivesOf, Stage
      <3>2. LivesOf(created, st, flight) = Seen
        BY <3>1, SeenFacts DEF LivesOf
      <3> QED  BY <1>1, <2>3, <2>4, <2>5, <3>2, CallIsSwitch
    <2> QED  BY <2>6, <2>7
  <1> QED  BY <1>2, <1>3 DEF RetryTimerFires

\* clear(), the cleanup, the deletion of the file and what a new process does with it
\* end lives, none of a row in flight.
LEMMA RemovalIsRemove ==
    ASSUME IInv, IInv', Clear \/ CleanupTick \/ Destroy \/ DestroyEnds \/ Boot
    PROVE  Promise!Next
  <1>1. UNCHANGED <<created, scheduledFor, delivered, flight>>
    BY DEF Clear, CleanupTick, Destroy, DestroyEnds, Boot, process, history
  <1>2. SeenTaking' \in {SeenTaking, FALSE}
    <2>1. CASE Destroy
      <3>1. ~isRunning'
        BY <2>1 DEF Destroy
      <3>2. SeenTaking' = FALSE
        BY <3>1 DEF SeenTaking
      <3> QED  BY <3>2
    <2>2. CASE Clear \/ CleanupTick \/ DestroyEnds \/ Boot
      <3>1. SeenTaking' = SeenTaking
        BY <2>2 DEF Clear, CleanupTick, DestroyEnds, Boot, process, control, SeenTaking
      <3> QED  BY <3>1
    <2> QED  BY <2>1, <2>2
  <1>3. \A j \in Jobs : \/ status'[j] = status[j]
                        \/ status'[j] = "absent"
                        \/ status'[j] = "pending" /\ status[j] \in {"processing", "retrying"}
    <2>1. CASE Clear
      BY <2>1 DEF Clear
    <2>2. CASE CleanupTick
      BY <2>2 DEF CleanupTick, Cleanup
    <2>3. CASE Destroy \/ DestroyEnds
      <3>1. status' = status \/ status' = [j \in Jobs |-> "absent"]
        BY <2>3 DEF Destroy, DestroyEnds, DeleteFile
      <3> QED  BY <3>1
    <2>4. CASE Boot
      BY <2>4 DEF Boot, Cleanup, Restore
    <2> QED  BY <2>1, <2>2, <2>3, <2>4
  <1>4. Seen' = LivesOf(created, status', flight) /\ flight \in [Jobs -> Flights]
    BY <1>1, SeenFacts, LifeThenIsStage DEF Typed
  <1>5. \A j \in Jobs :
          \/ Seen'[j] = Seen[j]
          \/ Seen'[j] = "gone" /\ Seen[j] # "new" /\ j \notin Promise!Underway(Seen)
    <2>1. ASSUME NEW j \in Jobs
          PROVE  \/ Stage(j, created, status', flight) = Stage(j, created, status, flight)
                 \/ /\ Stage(j, created, status', flight) = "gone"
                    /\ Stage(j, created, status, flight) # "new" /\ flight[j] = "none"
      BY <1>3, <1>4 DEF Stage, Flights
    <2>2. ASSUME NEW j \in Jobs
          PROVE  /\ Seen'[j] = Stage(j, created, status', flight)
                 /\ Seen[j] = Stage(j, created, status, flight)
      BY <1>4, SeenFacts DEF LivesOf
    <2>3. \A j \in Jobs : flight[j] = "none" => j \notin Promise!Underway(Seen)
      BY SeenFacts
    <2> QED  BY <2>1, <2>2, <2>3
  <1>6. Seen' \in [Jobs -> Promise!Lives]
    BY <1>4 DEF LivesOf, Stage, Promise!Lives
  <1>7. Promise!Remove
    <2>1. UNCHANGED <<delivered, SeenDue>>
      BY <1>1 DEF SeenDue
    <2> QED
      BY <1>2, <1>5, <1>6, <2>1 DEF Promise!Remove, Seen, SeenDue, SeenTaking
  <1> QED  BY <1>7 DEF Promise!Next

\* The end of a process, whatever has become of its message.
LEMMA DeathIsCrash ==
    ASSUME RInv, IInv', Exit \/ DiesUncaught \/ Crash
    PROVE  Promise!Next
  <1>1. /\ UNCHANGED <<created, status, scheduledFor>> /\ ~isRunning'
        /\ flight' = [j \in Jobs |-> "none"]
    BY DEF Exit, DiesUncaught, Crash, ProcessEnds, NoFlight, table
  <1>2. Seen' = LivesOf(created, status, flight')
    BY <1>1, LifeThenIsStage
  <1>3. SeenTaking' = FALSE /\ SeenDue' = SeenDue
    BY <1>1 DEF SeenTaking, SeenDue
  <1>4. Seen' \in [Jobs -> Promise!Lives]
    BY <1>2 DEF LivesOf, Stage, Promise!Lives
  <1>5. \A j \in Jobs : Seen'[j] \in IF j \in Promise!Underway(Seen) THEN {"waiting", "gone"}
                                                                     ELSE {Seen[j]}
    <2>1. ASSUME NEW j \in Jobs, flight[j] # "none"  PROVE Seen'[j] \in {"waiting", "gone"}
      <3>1. status[j] \in {"processing", "pending", "absent"} /\ ~(j > created)
        BY <2>1, SeenFacts DEF RInv, FlightUnsettled, Inserted
      <3> QED  BY <1>1, <1>2, <3>1 DEF LivesOf, Stage
    <2>2. ASSUME NEW j \in Jobs, flight[j] = "none"  PROVE Seen'[j] = Seen[j]
      BY <1>1, <1>2, <2>2, SeenFacts DEF LivesOf, Stage, RInv
    <2>3. \A j \in Jobs : j \in Promise!Underway(Seen) <=> flight[j] # "none"
      BY SeenFacts DEF RInv
    <2> QED  BY <2>1, <2>2, <2>3
  <1>6. \E arrives \in SUBSET {j \in Jobs : Seen[j] = "sending"} :
          delivered' = [j \in Jobs |-> IF j \in arrives THEN delivered[j] + 1 ELSE delivered[j]]
    <2>1. delivered \in [Jobs -> Nat]
      BY Unfolded DEF RInv, TypedRest
    <2>2. CASE Exit \/ DiesUncaught
      <3> DEFINE none == {}
      <3>1. delivered' = [j \in Jobs |-> IF j \in none THEN delivered[j] + 1 ELSE delivered[j]]
        BY <2>1, <2>2 DEF Exit, DiesUncaught
      <3>2. none \in SUBSET {j \in Jobs : Seen[j] = "sending"}
        OBVIOUS
      <3> HIDE DEF none
      <3> QED  BY <3>1, <3>2
    <2>3. CASE Crash
      <3>1. PICK arrives \in SUBSET {j \in Jobs : flight[j] = "sending"} :
              delivered' = [j \in Jobs |-> delivered[j] + (IF j \in arrives THEN 1 ELSE 0)]
        BY <2>3 DEF Crash
      <3>2. \A j \in arrives : Seen[j] = "sending"
        <4>1. \A j \in arrives : ~(j > created)
          BY <3>1, SeenFacts DEF RInv, Inserted
        <4> QED  BY <3>1, <4>1, SeenFacts DEF RInv, LivesOf, Stage
      <3>3. delivered' = [j \in Jobs |-> IF j \in arrives THEN delivered[j] + 1 ELSE delivered[j]]
        BY <2>1, <3>1
      <3>4. arrives \in SUBSET {j \in Jobs : Seen[j] = "sending"}
        BY <3>1, <3>2
      <3> QED  BY <3>3, <3>4
    <2> QED  BY <2>2, <2>3
  <1>7. Promise!Crash
    BY <1>3, <1>4, <1>5, <1>6 DEF Promise!Crash, Seen, SeenDue, SeenTaking
  <1> QED  BY <1>7 DEF Promise!Next

-----------------------------------------------------------------------------
(***************************************************************************)
(* Rows in flight.                                                         *)
(***************************************************************************)
\* processNext marks the row it takes up.
LEMMA ProcessNextKeepsFlight ==
    ASSUME NEW busy, NEW st \in [Jobs -> Statuses], NEW fl \in [Jobs -> Flights],
           FlightUnsettled(st, fl), ProcessNext(busy, st, fl)
    PROVE  FlightUnsettled(status', flight')
  <1>1. CASE Leave(busy, st, fl)
    BY <1>1 DEF Leave
  <1>2. ASSUME NEW j \in Jobs, Attempt(j, st, fl)  PROVE FlightUnsettled(status', flight')
    BY <1>2 DEF Attempt, FlightUnsettled
  <1> QED  BY <1>1, <1>2 DEF ProcessNext, Oldest, Ready

\* Only the attempt's own end settles a row in flight, and that ends the flight.
LEMMA UnsettledStaysSo ==
    ASSUME RInv, [Next]_vars
    PROVE  FlightUnsettled(status', flight')
  <1>1. /\ status \in [Jobs -> Statuses] /\ flight \in [Jobs -> Flights]
        /\ FlightUnsettled(status, flight)
        /\ \A j, k \in Jobs : flight[j] # "none" /\ flight[k] # "none" => j = k
    BY SeenFacts DEF RInv, Typed, Sequential
  <1>2. ASSUME NEW st \in [Jobs -> Statuses],
               \A j \in Jobs : st[j] = status[j] \/ st[j] \in {"pending", "absent"}
        PROVE  FlightUnsettled(st, flight)
    BY <1>1, <1>2 DEF FlightUnsettled
  <1>3. ASSUME NEW st \in [Jobs -> Statuses], NEW busy,
               \A j \in Jobs : st[j] = status[j] \/ st[j] \in {"pending", "absent"},
               ProcessNext(busy, st, flight)
        PROVE  FlightUnsettled(status', flight')
    BY <1>1, <1>2, <1>3, ProcessNextKeepsFlight
  <1>4. CASE UNCHANGED <<status, flight>>
    BY <1>1, <1>4
  <1>5. ASSUME NEW k \in Nat, NEW when, Insert(k, when)  PROVE FlightUnsettled(status', flight')
    <2> DEFINE st == [j \in Jobs |-> IF j \in (created + 1)..created' THEN "pending"
                                                                      ELSE status[j]]
    <2>1. st \in [Jobs -> Statuses] /\ \A j \in Jobs : st[j] = status[j] \/ st[j] = "pending"
      BY <1>1 DEF Statuses
    <2>2. ProcessNext(isProcessing, st, flight)
      BY <1>5 DEF Insert
    <2> HIDE DEF st
    <2> QED  BY <1>3, <2>1, <2>2
  <1>6. CASE Start
    <2>1. /\ Restore(status) \in [Jobs -> Statuses]
          /\ \A j \in Jobs : Restore(status)[j] = status[j] \/ Restore(status)[j] = "pending"
      BY <1>1 DEF Restore, Statuses
    <2> QED  BY <1>3, <1>4, <1>6, <2>1 DEF Start
  <1>7. CASE Resume
    BY <1>1, <1>3, <1>4, <1>7 DEF Resume
  <1>8. ASSUME NEW j \in Jobs, RetryTimerFires(j)  PROVE FlightUnsettled(status', flight')
    <2>1. /\ Update(status, j, "pending") \in [Jobs -> Statuses]
          /\ \A k \in Jobs : Update(status, j, "pending")[k] \in {status[k], "pending"}
      BY <1>1 DEF Update, Statuses
    <2> QED  BY <1>3, <1>4, <1>8, <2>1 DEF RetryTimerFires
  <1>9. ASSUME NEW j \in Jobs, Succeed(j) \/ Fail(j)  PROVE FlightUnsettled(status', flight')
    <2> DEFINE fl == [flight EXCEPT ![j] = "none"]
    <2>1. PICK word \in {"completed", "retrying", "failed"} :
            ProcessNext(FALSE, Update(status, j, word), fl)
      BY <1>9 DEF Succeed, Fail, Finally
    <2>2. Update(status, j, word) \in [Jobs -> Statuses]
      BY <1>1 DEF Update, Statuses
    <2>3. fl \in [Jobs -> Flights] /\ \A k \in Jobs : fl[k] = "none"
      BY <1>1, <1>9 DEF Flights, Succeed, Fail, Accepted, Refused
    <2>4. FlightUnsettled(Update(status, j, word), fl)
      BY <2>3 DEF FlightUnsettled
    <2> HIDE DEF fl
    <2> QED  BY <2>1, <2>2, <2>3, <2>4, ProcessNextKeepsFlight
  <1>10. ASSUME NEW j \in Jobs, ProviderAccepts(j) \/ ProviderRefuses(j)
         PROVE  FlightUnsettled(status', flight')
    BY <1>1, <1>10 DEF ProviderAccepts, ProviderRefuses, table, FlightUnsettled
  <1>11. CASE Clear \/ CleanupTick \/ Destroy \/ DestroyEnds \/ Boot
    <2>1. flight' = flight
      BY <1>11 DEF Clear, CleanupTick, Destroy, DestroyEnds, Boot, process
    <2>2. \A j \in Jobs : status'[j] = status[j] \/ status'[j] \in {"pending", "absent"}
      BY <1>11 DEF Clear, CleanupTick, Destroy, DestroyEnds, DeleteFile, Boot, Cleanup, Restore
    <2> QED  BY <1>1, <2>1, <2>2 DEF FlightUnsettled
  <1>12. CASE Exit \/ DiesUncaught \/ Crash
    BY <1>12 DEF Exit, DiesUncaught, Crash, ProcessEnds, NoFlight, FlightUnsettled
  <1>13. CASE Progress
    BY <1>4, <1>8, <1>9, <1>10, <1>13 DEF Progress, StopResolves, TimePasses, table, process
  <1>14. CASE AddStartStop
    <2>1. CASE \E when \in {"none", "future"} : Add(when)
      BY <1>5, <2>1 DEF Add
    <2>2. CASE \E k \in {0} \cup 2..N : AddBatch(k)
      BY <1>5, <2>2 DEF AddBatch
    <2> QED  BY <1>4, <1>6, <1>14, <2>1, <2>2 DEF AddStartStop, Stop, table
  <1>15. CASE Pause \/ Shutdown \/ ShutdownEnds \/ UNCHANGED vars
    BY <1>4, <1>15 DEF Pause, Shutdown, ShutdownEnds, vars, table, process
  <1> QED  BY <1>7, <1>11, <1>12, <1>13, <1>14, <1>15 DEF Next

-----------------------------------------------------------------------------
\* An empty table in a queue just created is where an EmailQueue begins.
LEMMA InitIsInit == Init => RInv /\ Promise!Init
  <1> SUFFICES ASSUME Init PROVE RInv /\ Promise!Init
    OBVIOUS
  <1>1. IInv
    BY InitEstablishesIInv
  <1>2. FlightUnsettled(status, flight)
    BY DEF Init, NoFlight, FlightUnsettled
  <1>3. Seen = [j \in Jobs |-> "new"] /\ SeenDue = [j \in Jobs |-> TRUE] /\ SeenTaking = FALSE
    <2>1. \A j \in Jobs : j > created
      BY ConstantsAssumption DEF Init, Jobs
    <2>2. Seen = [j \in Jobs |-> "new"]
      BY <1>1, <2>1, SeenFacts DEF LivesOf, Stage
    <2> QED  BY <2>2 DEF Init, SeenDue, SeenTaking
  <1> QED
    BY <1>1, <1>2, <1>3 DEF RInv, Init, Promise!Init, Seen, SeenDue, SeenTaking

\* Every step of the table and the process is one of an EmailQueue.
LEMMA NextIsNext == RInv /\ [Next]_vars => RInv' /\ [Promise!Next]_(Promise!vars)
  <1> SUFFICES ASSUME RInv, [Next]_vars
               PROVE  RInv' /\ Promise!Next
    OBVIOUS
  <1>1. IInv /\ IInv' /\ RInv'
    BY NextKeepsIInv, UnsettledStaysSo DEF RInv
  <1>2. CASE Progress
    <2>1. CASE StopResolves
      BY <1>1, <2>1, FlagsAreSwitch DEF StopResolves, table, history
    <2>2. ASSUME NEW j \in Jobs,
                 \/ TimePasses(j) \/ ProviderAccepts(j) \/ ProviderRefuses(j)
                 \/ Succeed(j) \/ Fail(j) \/ RetryTimerFires(j)
          PROVE  Promise!Next
      BY <1>1, <2>2, TimePassesIsComesDue, AcceptingIsAccept, RefusingIsSwitch, SuccessIsRecord,
         FailureIsRefuse, RetryTimerIsReopen
    <2> QED  BY <1>1, <1>2, <2>1, <2>2 DEF Progress
  <1>3. CASE AddStartStop
    <2>1. ASSUME NEW k \in {0} \cup 2..N, AddBatch(k)  PROVE Promise!Next
      BY <1>1, <2>1, InsertIsAdd DEF AddBatch
    <2>2. ASSUME NEW when \in {"none", "future"}, Add(when)  PROVE Promise!Next
      BY <1>1, <2>2, InsertIsAdd DEF Add
    <2>3. CASE Start
      BY <1>1, <2>3, StartIsSwitch
    <2>4. CASE Stop
      BY <1>1, <2>4, FlagsAreSwitch DEF Stop, table, history
    <2> QED  BY <1>1, <1>3, <2>1, <2>2, <2>3, <2>4 DEF AddStartStop
  <1>4. CASE Pause \/ Shutdown \/ ShutdownEnds \/ UNCHANGED vars
    <2>1. UNCHANGED <<created, scheduledFor, delivered, status, flight>>
      BY <1>4 DEF Pause, Shutdown, ShutdownEnds, vars, table, process, history
    <2> QED  BY <1>1, <2>1, FlagsAreSwitch
  <1>5. CASE Resume
    BY <1>1, <1>5, ResumeIsSwitch
  <1>6. CASE Clear \/ CleanupTick \/ Destroy \/ DestroyEnds \/ Boot
    BY <1>1, <1>6, RemovalIsRemove
  <1>7. CASE Exit \/ DiesUncaught \/ Crash
    BY <1>1, <1>7, DeathIsCrash
  <1> QED  BY <1>2, <1>3, <1>4, <1>5, <1>6, <1>7 DEF Next

\* The SQLite queue does nothing that types/queue.ts does not let a queue do whose
\* process may die and whose settled jobs may be reopened (sqlite-queue.ts 144-821).
THEOREM Refinement == Spec => KeepsPromise
  BY InitIsInit, NextIsNext, PTL DEF Spec, KeepsPromise, Promise!Spec
=============================================================================
