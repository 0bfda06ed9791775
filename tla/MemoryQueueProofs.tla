------------------------- MODULE MemoryQueueProofs -------------------------
(***************************************************************************)
(* Theorems about MemoryQueue, for every number of jobs, every maxRetries  *)
(* and every number of start() calls: that the state is sound, that each   *)
(* job's attempts stay within its budget, that the queue implements        *)
(* EmailQueue, and that it takes its jobs up in order.                     *)
(***************************************************************************)
EXTENDS MemoryQueue, SequenceTheorems, FiniteSetTheorems, TLAPS

(***************************************************************************)
(* The inductive invariant, as a relation between the values processNext   *)
(* works on: its callers establish it for what they pass, and processNext  *)
(* keeps it.                                                               *)
(***************************************************************************)
Typed(busy, act, q, st, tm) ==
    /\ busy \in BOOLEAN
    /\ act \in SUBSET Jobs
    /\ q \in Seq(Jobs)
    /\ st \in [Jobs -> Statuses]
    /\ tm \in [Jobs -> Nat]

Sequential(busy, act) ==
    /\ busy <=> act # {}
    /\ \A j, k \in act : j = k

\* start() may have reset the job in flight to 'pending', nothing else may.
InFlight(act, st) ==
    /\ \A j \in act : st[j] \in {"processing", "pending"}
    /\ \A j \in Jobs : st[j] = "processing" => j \in act

Reachable(act, q, st, tm, js) ==
    \A j \in js : st[j] = "pending" => j \in Elements(q) \/ tm[j] > 0 \/ j \in act

OnTime(act, sf) == \A j \in act : sf[j] # "future"

Accounted(st, dl) == \A j \in Jobs : dl[j] = IF st[j] = "completed" THEN 1 ELSE 0

Sound(busy, act, q, st, tm, js, sf, dl) ==
    /\ Sequential(busy, act)
    /\ InFlight(act, st)
    /\ Reachable(act, q, st, tm, js)
    /\ OnTime(act, sf)
    /\ Accounted(st, dl)

Known(act, js, last) == js \subseteq 1..last /\ act \subseteq 1..last

IInv ==
    /\ TypeOK
    /\ Sound(isProcessing, active, pending, status, schedTimers, jobs, scheduledFor, delivered)
    /\ Known(active, jobs, created)

-----------------------------------------------------------------------------
(***************************************************************************)
(* Lists.                                                                  *)
(***************************************************************************)
\* pending.push adds its argument to the elements and keeps the others.
LEMMA ElementsOfAppend ==
    ASSUME NEW S, NEW q \in Seq(S), NEW j \in S
    PROVE  /\ Append(q, j) \in Seq(S)
           /\ Elements(Append(q, j)) = Elements(q) \cup {j}
  <1>1. Append(q, j) \in Seq(S) /\ Len(Append(q, j)) = Len(q) + 1
    BY AppendProperties
  <1>2. \A i \in 1..Len(q) : Append(q, j)[i] = q[i]
    BY AppendProperties
  <1>3. Append(q, j)[Len(q) + 1] = j
    BY AppendProperties
  <1>4. Len(q) \in Nat /\ DOMAIN q = 1..Len(q) /\ DOMAIN Append(q, j) = 1..Len(q) + 1
    BY <1>1, LenProperties
  <1> QED  BY <1>1, <1>2, <1>3, <1>4 DEF Elements

\* The restored jobs are added behind those in the list.
LEMMA ElementsOfConcat ==
    ASSUME NEW S, NEW q \in Seq(S), NEW r \in Seq(S)
    PROVE  /\ q \o r \in Seq(S)
           /\ Elements(q \o r) = Elements(q) \cup Elements(r)
  <1>1. q \o r \in Seq(S) /\ Len(q \o r) = Len(q) + Len(r)
    BY ConcatProperties
  <1>2. \A i \in 1..Len(q \o r) :
            (q \o r)[i] = IF i <= Len(q) THEN q[i] ELSE r[i - Len(q)]
    BY ConcatProperties
  <1>3. /\ Len(q) \in Nat /\ Len(r) \in Nat
        /\ DOMAIN q = 1..Len(q) /\ DOMAIN r = 1..Len(r)
        /\ DOMAIN (q \o r) = 1..(Len(q) + Len(r))
    BY <1>1, LenProperties
  <1>4. Elements(q \o r) \subseteq Elements(q) \cup Elements(r)
    BY <1>1, <1>2, <1>3 DEF Elements
  <1>5. ASSUME NEW i \in DOMAIN q  PROVE q[i] \in Elements(q \o r)
    BY <1>1, <1>2, <1>3 DEF Elements
  <1>6. ASSUME NEW i \in DOMAIN r  PROVE r[i] \in Elements(q \o r)
    <2>1. Len(q) + i \in 1..Len(q \o r) /\ ~(Len(q) + i <= Len(q))
      BY <1>1, <1>3
    <2>2. (q \o r)[Len(q) + i] = r[Len(q) + i - Len(q)]
      BY <1>2, <2>1
    <2>3. Len(q) + i - Len(q) = i
      BY <1>3
    <2> QED  BY <1>1, <1>3, <2>1, <2>2, <2>3 DEF Elements
  <1> QED  BY <1>1, <1>4, <1>5, <1>6 DEF Elements

\* What is left behind position n + 1 is all that was not among the first n + 1.
LEMMA ElementsBehind ==
    ASSUME NEW S, NEW q \in Seq(S), NEW n \in 0..Len(q), n < Len(q)
    PROVE  /\ SubSeq(q, n + 2, Len(q)) \in Seq(S)
           /\ q[n + 1] \in S
           /\ \A j \in Elements(q) :
                \/ \E i \in 1..n : j = q[i]
                \/ j = q[n + 1]
                \/ j \in Elements(SubSeq(q, n + 2, Len(q)))
  <1> DEFINE r == SubSeq(q, n + 2, Len(q))
  <1>0. Len(q) \in Nat /\ n \in Nat
    BY LenProperties
  <1>1. DOMAIN q = 1..Len(q) /\ \A i \in 1..Len(q) : q[i] \in S
    BY LenProperties, ElementOfSeq
  <1>2. \A i \in (n + 2)..Len(q) : q[i] \in S
    BY <1>0, <1>1
  <1>3. /\ r \in Seq(S)
        /\ Len(r) = IF n + 2 <= Len(q) THEN Len(q) - (n + 2) + 1 ELSE 0
        /\ \A i \in 1..(Len(q) - (n + 2) + 1) : r[i] = q[n + 2 + i - 1]
    <2>1. n + 2 \in Int /\ Len(q) \in Int
      BY <1>0
    <2> QED  BY <1>2, <2>1, SubSeqProperties
  <1>4. DOMAIN r = 1..Len(r)
    BY <1>3, LenProperties
  <1> HIDE DEF r
  <1>5. Len(r) = Len(q) - n - 1
    BY <1>0, <1>3
  <1>6. ASSUME NEW i \in 1..Len(q), n + 1 < i  PROVE q[i] \in Elements(r)
    <2> DEFINE k == i - n - 1
    <2>1. k \in 1..Len(r) /\ k \in 1..(Len(q) - (n + 2) + 1) /\ n + 2 + k - 1 = i
      BY <1>0, <1>5, <1>6
    <2>2. r[k] = q[i]
      BY <1>3, <2>1
    <2> QED  BY <1>4, <2>1, <2>2 DEF Elements
  <1>7. ASSUME NEW i \in 1..Len(q)
        PROVE  (\E k \in 1..n : q[i] = q[k]) \/ q[i] = q[n + 1] \/ q[i] \in Elements(r)
    <2>1. i \in 1..n \/ i = n + 1 \/ n + 1 < i
      BY <1>0
    <2> QED  BY <1>6, <2>1
  <1>8. n + 1 \in 1..Len(q)
    BY <1>0
  <1> QED  BY <1>1, <1>3, <1>7, <1>8 DEF Elements, r

-----------------------------------------------------------------------------
(***************************************************************************)
(* processNext.                                                            *)
(***************************************************************************)
\* Beginning an attempt of j, when none is in progress, keeps what holds.
LEMMA AttemptIsSound ==
    ASSUME TypeOK, NEW act, NEW q, NEW p, NEW st, NEW tm, NEW j \in Jobs,
           Typed(FALSE, act, q, st, tm), p \in Seq(Jobs),
           Sound(FALSE, act, q, st, tm, jobs', scheduledFor', delivered'),
           jobs' \subseteq Jobs, j \in jobs', Due(j), ~Skipped(j, st),
           \A k \in Elements(q) : Skipped(k, st) \/ k = j \/ k \in Elements(p),
           Attempt(j, act, p, st, tm)
    PROVE  /\ Typed(isProcessing', active', pending', status', schedTimers')
           /\ Sound(isProcessing', active', pending', status', schedTimers',
                    jobs', scheduledFor', delivered')
           /\ attempts' \in [Jobs -> Nat]
           /\ active' \subseteq active \cup act \cup jobs'
  <1>1. /\ isProcessing' = TRUE /\ active' = act \cup {j} /\ pending' = p
        /\ status' = [st EXCEPT ![j] = "processing"] /\ schedTimers' = tm
        /\ attempts' = [attempts EXCEPT ![j] = @ + 1]
    BY DEF Attempt
  <1>2. act = {} /\ st[j] # "completed" /\ scheduledFor'[j] # "future"
    BY DEF Sound, Sequential, Due, Skipped
  <1>3. attempts' \in [Jobs -> Nat]
    BY <1>1 DEF TypeOK
  <1>4. Typed(isProcessing', active', pending', status', schedTimers')
    BY <1>1 DEF Typed, Statuses
  <1>5. Sequential(isProcessing', active')
    BY <1>1, <1>2 DEF Sequential
  <1>6. InFlight(active', status')
    BY <1>1, <1>2 DEF InFlight, Sound, Typed
  <1>7. Reachable(active', pending', status', schedTimers', jobs')
    BY <1>1, <1>2 DEF Reachable, Sound, Typed, Skipped
  <1>8. OnTime(active', scheduledFor')
    BY <1>1, <1>2 DEF OnTime
  <1>9. Accounted(status', delivered')
    BY <1>1, <1>2 DEF Accounted, Sound, Typed
  <1> QED  BY <1>1, <1>3, <1>4, <1>5, <1>6, <1>7, <1>8, <1>9 DEF Sound

\* Whoever calls processNext with values that are in order leaves them so.
LEMMA ProcessNextIsSound ==
    ASSUME TypeOK, NEW busy, NEW act, NEW q, NEW st, NEW tm,
           Typed(busy, act, q, st, tm),
           Sound(busy, act, q, st, tm, jobs', scheduledFor', delivered'),
           jobs' \subseteq Jobs,
           ProcessNext(busy, act, q, st, tm)
    PROVE  /\ Typed(isProcessing', active', pending', status', schedTimers')
           /\ Sound(isProcessing', active', pending', status', schedTimers',
                    jobs', scheduledFor', delivered')
           /\ attempts' \in [Jobs -> Nat]
           /\ active' \subseteq active \cup act \cup jobs'
  <1> DEFINE Goal == /\ Typed(isProcessing', active', pending', status', schedTimers')
                     /\ Sound(isProcessing', active', pending', status', schedTimers',
                              jobs', scheduledFor', delivered')
                     /\ attempts' \in [Jobs -> Nat]
                     /\ active' \subseteq active \cup act \cup jobs'
  <1>1. CASE Leave(busy, act, q, st, tm)
    BY <1>1 DEF Leave, TypeOK
  <1>2. ASSUME CanProcess(busy),
               NEW n \in 0..Len(q),
               \A i \in 1..n : Skipped(q[i], st),
               \/ n = Len(q) /\ Leave(FALSE, act, <<>>, st, tm)
               \/ /\ n < Len(q)
                  /\ Dispatch(q[n + 1], act, SubSeq(q, n + 2, Len(q)), st, tm)
        PROVE  Goal
    <2>1. busy = FALSE
      BY <1>2 DEF CanProcess, Typed
    <2>2. Len(q) \in Nat /\ DOMAIN q = 1..Len(q)
      BY LenProperties DEF Typed
    <2>3. CASE n = Len(q) /\ Leave(FALSE, act, <<>>, st, tm)
      <3>1. \A j \in Elements(q) : Skipped(j, st)
        BY <1>2, <2>2, <2>3 DEF Elements
      <3>2. Reachable(act, <<>>, st, tm, jobs')
        BY <3>1 DEF Sound, Reachable, Skipped
      <3>3. Sound(FALSE, act, <<>>, st, tm, jobs', scheduledFor', delivered')
        BY <2>1, <3>2 DEF Sound
      <3>4. /\ isProcessing' = FALSE /\ active' = act /\ pending' = <<>>
            /\ status' = st /\ schedTimers' = tm /\ attempts' = attempts
        BY <2>3 DEF Leave
      <3>5. Typed(FALSE, act, <<>>, st, tm)
        BY EmptySeq DEF Typed
      <3> QED  BY <3>3, <3>4, <3>5 DEF TypeOK
    <2>4. CASE /\ n < Len(q)
               /\ Dispatch(q[n + 1], act, SubSeq(q, n + 2, Len(q)), st, tm)
      <3> DEFINE j == q[n + 1]
                 p == SubSeq(q, n + 2, Len(q))
      <3>1. p \in Seq(Jobs) /\ j \in Jobs
        BY <2>4, ElementsBehind DEF Typed
      <3>2. \A k \in Elements(q) : Skipped(k, st) \/ k = j \/ k \in Elements(p)
        BY <1>2, <2>4, ElementsBehind DEF Typed
      <3> HIDE DEF j, p
      <3>3. CASE j \notin jobs' /\ Leave(FALSE, act, p, st, tm)
        <4>1. Reachable(act, p, st, tm, jobs')
          BY <3>2, <3>3 DEF Sound, Reachable, Skipped
        <4>2. Sound(FALSE, act, p, st, tm, jobs', scheduledFor', delivered')
          BY <2>1, <4>1 DEF Sound
        <4> QED  BY <2>1, <3>1, <3>3, <4>2 DEF Leave, Typed, TypeOK
      <3>4. CASE Leave(FALSE, act, p, st, [tm EXCEPT ![j] = @ + 1])
        <4> DEFINE t == [tm EXCEPT ![j] = @ + 1]
        <4>1. t \in [Jobs -> Nat] /\ t[j] > 0 /\ \A k \in Jobs : tm[k] > 0 => t[k] > 0
          BY <3>1 DEF Typed
        <4> HIDE DEF t
        <4>2. Reachable(act, p, st, t, jobs')
          BY <3>2, <4>1 DEF Sound, Reachable, Skipped
        <4>3. Sound(FALSE, act, p, st, t, jobs', scheduledFor', delivered')
          BY <2>1, <4>2 DEF Sound
        <4>4. Leave(FALSE, act, p, st, t)
          BY <3>4 DEF t
        <4> QED  BY <2>1, <3>1, <4>1, <4>3, <4>4 DEF Leave, Typed, TypeOK
      <3>5. CASE /\ j \in jobs' /\ Due(j) /\ ~Skipped(j, st)
                 /\ Attempt(j, act, p, st, tm)
        BY <2>1, <3>1, <3>2, <3>5, AttemptIsSound
      <3> QED  BY <2>4, <3>3, <3>4, <3>5 DEF Dispatch, j, p
    <2> QED  BY <1>2, <2>3, <2>4
  <1> QED  BY <1>1, <1>2 DEF ProcessNext

-----------------------------------------------------------------------------
(***************************************************************************)
(* The steps.                                                              *)
(***************************************************************************)
\* The types of what processNext does not assign.
TypedRest ==
    /\ created \in 0..N
    /\ jobs \in SUBSET Jobs
    /\ scheduledFor \in [Jobs -> {"none", "future", "past"}]
    /\ isRunning \in BOOLEAN /\ isPaused \in BOOLEAN
    /\ retryTimers \in [Jobs -> Nat]
    /\ stopWait \in BOOLEAN /\ destroyWait \in BOOLEAN /\ limiterUp \in BOOLEAN
    /\ delivered \in [Jobs -> Nat]
    /\ starts \in Nat

\* A step that ends in a call of processNext with values that are in order.
LEMMA CallKeepsIInv ==
    ASSUME IInv, NEW busy, NEW act, NEW q, NEW st, NEW tm,
           Typed(busy, act, q, st, tm),
           Sound(busy, act, q, st, tm, jobs', scheduledFor', delivered'),
           TypedRest',
           act \subseteq active, created <= created', jobs' \subseteq 1..created',
           ProcessNext(busy, act, q, st, tm)
    PROVE  IInv'
  <1>1. /\ Typed(isProcessing', active', pending', status', schedTimers')
        /\ Sound(isProcessing', active', pending', status', schedTimers',
                 jobs', scheduledFor', delivered')
        /\ attempts' \in [Jobs -> Nat]
        /\ active' \subseteq active \cup act \cup jobs'
    BY ProcessNextIsSound DEF IInv, TypedRest
  <1>2. TypeOK'
    BY <1>1 DEF TypeOK, TypedRest, Typed
  <1>3. created \in Int /\ created' \in Int
    BY DEF IInv, TypeOK, TypedRest
  <1>4. Known(active, jobs, created)'
    BY <1>1, <1>3 DEF IInv, Known
  <1> QED  BY <1>1, <1>2, <1>4 DEF IInv

\* What the invariant says of the values a caller starts from.
LEMMA Unfolded ==
    ASSUME IInv
    PROVE  /\ TypedRest
           /\ Typed(isProcessing, active, pending, status, schedTimers)
           /\ Sound(isProcessing, active, pending, status, schedTimers,
                    jobs, scheduledFor, delivered)
           /\ created \in 0..N /\ jobs \subseteq 1..created /\ active \subseteq 1..created
           /\ N \in Nat
  BY ConstantsAssumption DEF IInv, TypeOK, TypedRest, Typed, Known

\* Pushing an id onto the list disturbs nothing.
LEMMA EnqueueIsSound ==
    ASSUME IInv, NEW j \in Jobs
    PROVE  /\ Typed(isProcessing, active, Enqueue(j), status, schedTimers)
           /\ Sound(isProcessing, active, Enqueue(j), status, schedTimers,
                    jobs, scheduledFor, delivered)
           /\ Elements(Enqueue(j)) = Elements(pending) \cup {j}
  <1>1. pending \in Seq(Jobs)
    BY DEF IInv, TypeOK
  <1>2. Enqueue(j) \in Seq(Jobs) /\ Elements(Enqueue(j)) = Elements(pending) \cup {j}
    BY <1>1, ElementsOfAppend DEF Enqueue
  <1>3. Reachable(active, Enqueue(j), status, schedTimers, jobs)
    BY <1>2, Unfolded DEF Sound, Reachable
  <1> QED  BY <1>2, <1>3, Unfolded DEF Sound, Typed

LEMMA AddKeepsIInv ==
    ASSUME IInv, NEW when \in {"none", "future"}, Add(when)
    PROVE  IInv'
  <1> DEFINE id == NewId
             q  == Enqueue(NewId)
  <1>1. id \in Jobs /\ id \in 1..id /\ created <= id /\ id \in 0..N /\ created \in Nat
    BY Unfolded DEF Add, NewId, Jobs
  <1>2. id \notin jobs /\ id \notin active
    BY <1>1, Unfolded DEF NewId
  <1>3. /\ created' = id /\ jobs' = jobs \cup {id}
        /\ scheduledFor' = [scheduledFor EXCEPT ![id] = when]
        /\ UNCHANGED <<control, waits, retryTimers, delivered, starts>>
        /\ ProcessNext(isProcessing, active, q, status, schedTimers)
    BY DEF Add
  <1>4. /\ Typed(isProcessing, active, q, status, schedTimers)
        /\ Sound(isProcessing, active, q, status, schedTimers, jobs, scheduledFor, delivered)
        /\ id \in Elements(q)
    BY <1>1, EnqueueIsSound
  <1>5. jobs' \subseteq 1..id
    BY <1>1, <1>3, Unfolded DEF NewId
  <1> HIDE DEF id, q
  <1>6. TypedRest'
    BY <1>1, <1>3, Unfolded DEF TypedRest, control, waits
  <1>7. Sound(isProcessing, active, q, status, schedTimers, jobs', scheduledFor', delivered')
    <2>1. Reachable(active, q, status, schedTimers, jobs')
      BY <1>3, <1>4 DEF Sound, Reachable
    <2>2. OnTime(active, scheduledFor')
      BY <1>2, <1>3, <1>4, Unfolded DEF Sound, OnTime, TypedRest, Typed
    <2> QED  BY <1>3, <1>4, <2>1, <2>2 DEF Sound
  <1> QED  BY <1>1, <1>3, <1>4, <1>5, <1>6, <1>7, CallKeepsIInv

LEMMA StartKeepsIInv ==
    ASSUME IInv, Start
    PROVE  IInv'
  <1> DEFINE missing == Interrupted \ Elements(pending)
             reset   == [j \in Jobs |-> IF j \in Interrupted THEN "pending" ELSE status[j]]
  <1>1. PICK r \in [1..Cardinality(missing) -> missing] :
               /\ InInsertionOrder(r, missing)
               /\ ProcessNext(isProcessing, active, pending \o r, reset, schedTimers)
    BY DEF Start
  <1>2. /\ starts' = starts + 1 /\ isRunning' = TRUE /\ isPaused' = FALSE
        /\ UNCHANGED <<waits, book, retryTimers, delivered>>
    BY DEF Start
  <1>3. missing \subseteq Jobs /\ IsFiniteSet(missing)
    <2>1. IsFiniteSet(Jobs)
      BY FS_Interval, ConstantsAssumption DEF Jobs
    <2>2. missing \subseteq Jobs
      BY Unfolded DEF TypedRest, Interrupted
    <2> QED  BY <2>1, <2>2, FS_Subset
  <1>4. r \in Seq(Jobs) /\ Elements(r) = missing
    <2>1. Cardinality(missing) \in Nat
      BY <1>3, FS_CardinalityType
    <2>2. Elements(r) = missing
      BY <1>1 DEF InInsertionOrder
    <2> HIDE DEF missing
    <2>3. r \in [1..Cardinality(missing) -> Jobs]
      BY <1>1, <1>3
    <2> QED  BY <2>1, <2>2, <2>3
  <1>5. /\ pending \o r \in Seq(Jobs)
        /\ Elements(pending \o r) = Elements(pending) \cup missing
    BY <1>4, ElementsOfConcat, Unfolded DEF Typed
  <1>6. reset \in [Jobs -> Statuses]
    BY Unfolded DEF Typed, Statuses
  <1>7. Typed(isProcessing, active, pending \o r, reset, schedTimers)
    BY <1>5, <1>6, Unfolded DEF Typed
  <1>8. Sound(isProcessing, active, pending \o r, reset, schedTimers,
              jobs', scheduledFor', delivered')
    <2>1. jobs' = jobs /\ scheduledFor' = scheduledFor /\ delivered' = delivered
      BY <1>2 DEF book
    <2>2. \A j \in Interrupted : j \in Elements(pending \o r)
      BY <1>5
    <2> HIDE DEF missing
    <2>3. Reachable(active, pending \o r, reset, schedTimers, jobs)
      BY <1>5, <2>2, Unfolded DEF Sound, Reachable, TypedRest
    <2>4. InFlight(active, reset)
      BY Unfolded DEF Sound, InFlight, Typed
    <2>5. Accounted(reset, delivered)
      BY Unfolded DEF Sound, Accounted, Interrupted
    <2> QED  BY <2>1, <2>3, <2>4, <2>5, Unfolded DEF Sound
  <1>9. TypedRest'
    <2>1. starts' \in Nat
      BY <1>2, Unfolded DEF TypedRest
    <2> QED  BY <1>2, <2>1, Unfolded DEF TypedRest, waits, book
  <1>10. created' = created /\ jobs' = jobs /\ created <= created
    BY <1>2, Unfolded DEF book
  <1> HIDE DEF reset, missing
  <1> QED  BY <1>1, <1>7, <1>8, <1>9, <1>10, Unfolded, CallKeepsIInv

\* A timer that pushes its job.
LEMMA PushKeepsIInv ==
    ASSUME IInv, NEW j \in Jobs, NEW tm \in [Jobs -> Nat],
           \A k \in Jobs : k = j \/ tm[k] = schedTimers[k],
           UNCHANGED <<control, waits, book, delivered, starts>>,
           retryTimers' \in [Jobs -> Nat],
           ProcessNext(isProcessing, active, Enqueue(j), status, tm)
    PROVE  IInv'
  <1>1. /\ Typed(isProcessing, active, Enqueue(j), status, schedTimers)
        /\ Sound(isProcessing, active, Enqueue(j), status, schedTimers,
                 jobs, scheduledFor, delivered)
        /\ j \in Elements(Enqueue(j))
    BY EnqueueIsSound
  <1>2. /\ created' = created /\ jobs' = jobs /\ scheduledFor' = scheduledFor
        /\ delivered' = delivered
    BY DEF book
  <1>3. Typed(isProcessing, active, Enqueue(j), status, tm)
    BY <1>1 DEF Typed
  <1>4. Sound(isProcessing, active, Enqueue(j), status, tm, jobs', scheduledFor', delivered')
    <2>1. Reachable(active, Enqueue(j), status, tm, jobs)
      BY <1>1, Unfolded DEF Sound, Reachable, TypedRest
    <2> QED  BY <1>1, <1>2, <2>1 DEF Sound
  <1>5. TypedRest'
    BY Unfolded DEF TypedRest, control, waits, book
  <1>6. created <= created' /\ jobs' \subseteq 1..created'
    BY <1>2, Unfolded
  <1> QED  BY <1>3, <1>4, <1>5, <1>6, CallKeepsIInv

LEMMA TimersKeepIInv ==
    ASSUME IInv, NEW j \in Jobs, SchedTimerFires(j) \/ RetryTimerFires(j)
    PROVE  IInv'
  <1>1. /\ schedTimers \in [Jobs -> Nat] /\ retryTimers \in [Jobs -> Nat]
        /\ UNCHANGED <<control, waits, book, delivered, starts>>
    BY Unfolded DEF Typed, TypedRest, SchedTimerFires, RetryTimerFires
  <1>2. CASE SchedTimerFires(j)
    <2> DEFINE tm == [schedTimers EXCEPT ![j] = @ - 1]
    <2>1. /\ schedTimers[j] > 0
          /\ ProcessNext(isProcessing, active, Enqueue(j), status, tm)
          /\ retryTimers' = retryTimers
      BY <1>2 DEF SchedTimerFires
    <2>2. tm \in [Jobs -> Nat] /\ \A k \in Jobs : k = j \/ tm[k] = schedTimers[k]
      BY <1>1, <2>1
    <2> HIDE DEF tm
    <2> QED  BY <1>1, <2>1, <2>2, PushKeepsIInv
  <1>3. CASE RetryTimerFires(j)
    <2>1. retryTimers' \in [Jobs -> Nat]
      BY <1>1, <1>3 DEF RetryTimerFires
    <2>2. CASE ProcessNext(isProcessing, active, Enqueue(j), status, schedTimers)
      BY <1>1, <2>1, <2>2, PushKeepsIInv
    <2>3. CASE UNCHANGED work
      BY <1>1, <2>1, <2>3
         DEF IInv, TypeOK, Sound, Sequential, InFlight, Reachable, OnTime, Accounted, Known,
             control, waits, book, work
    <2> QED  BY <1>3, <2>2, <2>3 DEF RetryTimerFires
  <1> QED  BY <1>2, <1>3

\* The provider's answer: processJob records it and lets go of the queue.
LEMMA AnswerKeepsIInv ==
    ASSUME IInv, NEW j \in active, NEW word \in {"completed", "retrying", "failed"},
           Finally(j, [status EXCEPT ![j] = word]),
           UNCHANGED <<control, waits, book, starts>>,
           delivered' = IF word = "completed" THEN [delivered EXCEPT ![j] = @ + 1]
                                              ELSE delivered,
           retryTimers' \in [Jobs -> Nat]
    PROVE  IInv'
  <1> DEFINE st  == [status EXCEPT ![j] = word]
             act == active \ {j}
  <1>1. ProcessNext(FALSE, act, pending, st, schedTimers)
    BY DEF Finally
  <1>2. j \in Jobs /\ act = {} /\ st \in [Jobs -> Statuses] /\ status[j] # "completed"
    BY Unfolded DEF Typed, Sound, Sequential, InFlight, Statuses
  <1>3. st[j] = word /\ \A k \in Jobs : k # j => st[k] = status[k]
    BY Unfolded DEF Typed
  <1>4. delivered' \in [Jobs -> Nat] /\ Accounted(st, delivered')
    <2>1. delivered \in [Jobs -> Nat] /\ delivered[j] = 0 /\ Accounted(status, delivered)
      BY <1>2, Unfolded DEF TypedRest, Sound, Accounted
    <2>2. CASE word = "completed"
      BY <1>2, <1>3, <2>1, <2>2 DEF Accounted
    <2>3. CASE word # "completed"
      BY <1>2, <1>3, <2>1, <2>3 DEF Accounted
    <2> QED  BY <2>2, <2>3
  <1>5. InFlight(act, st)
    BY <1>2, <1>3, Unfolded DEF Sound, InFlight, Sequential
  <1>6. Reachable(act, pending, st, schedTimers, jobs)
    BY <1>2, <1>3, Unfolded DEF Sound, Reachable, Sequential, TypedRest
  <1>7. Sequential(FALSE, act) /\ OnTime(act, scheduledFor)
    BY <1>2 DEF Sequential, OnTime
  <1>8. Typed(FALSE, act, pending, st, schedTimers)
    BY <1>2, Unfolded DEF Typed
  <1> HIDE DEF st
  <1>9. created' = created /\ jobs' = jobs /\ scheduledFor' = scheduledFor
    BY DEF book
  <1>10. Sound(FALSE, act, pending, st, schedTimers, jobs', scheduledFor', delivered')
    BY <1>4, <1>5, <1>6, <1>7, <1>9 DEF Sound
  <1>11. TypedRest'
    BY <1>4, <1>9, Unfolded DEF TypedRest, control, waits
  <1>12. created <= created' /\ jobs' \subseteq 1..created' /\ act \subseteq active
    BY <1>9, Unfolded
  <1> QED  BY <1>1, <1>8, <1>10, <1>11, <1>12, CallKeepsIInv

LEMMA AnswersKeepIInv ==
    ASSUME IInv, NEW j \in Jobs, SendSucceeds(j) \/ SendFails(j)
    PROVE  IInv'
  <1>1. j \in active /\ retryTimers \in [Jobs -> Nat]
    BY Unfolded DEF TypedRest, SendSucceeds, SendFails
  <1>2. CASE SendSucceeds(j)
    BY <1>1, <1>2, AnswerKeepsIInv DEF SendSucceeds
  <1>3. CASE SendFails(j)
    <2>1. retryTimers' \in [Jobs -> Nat]
      BY <1>1, <1>3 DEF SendFails
    <2>2. \E word \in {"retrying", "failed"} : Finally(j, [status EXCEPT ![j] = word])
      BY <1>3 DEF SendFails
    <2> QED  BY <1>1, <1>3, <2>1, <2>2, AnswerKeepsIInv DEF SendFails
  <1> QED  BY <1>2, <1>3

\* clear() and the end of destroy() take jobs away, never one that is reachable only
\* through the list they empty.
LEMMA RemovalKeepsIInv ==
    ASSUME IInv, Clear \/ Destroy \/ DestroyResolves
    PROVE  IInv'
  <1>1. CASE Clear
    <2>1. Reachable(active, <<>>, status, schedTimers, Kept)
      BY DEF Reachable, Kept
    <2>2. Kept \subseteq jobs /\ <<>> \in Seq(Jobs)
      BY DEF Kept
    <2> QED
      BY <1>1, <2>1, <2>2
         DEF Clear, IInv, TypeOK, Sound, Sequential, InFlight, Reachable, OnTime, Accounted,
             Known, control, waits
  <1>2. ASSUME Wipe, UNCHANGED <<isPaused, stopWait, created, scheduledFor, status, attempts,
                                 isProcessing, active, schedTimers, retryTimers, delivered,
                                 starts>>,
               isRunning' \in BOOLEAN, destroyWait' \in BOOLEAN
        PROVE  IInv'
    <2>1. jobs' = {} /\ pending' = <<>> /\ limiterUp' = FALSE /\ <<>> \in Seq(Jobs)
      BY <1>2 DEF Wipe
    <2> QED
      BY <1>2, <2>1
         DEF IInv, TypeOK, Sound, Sequential, InFlight, Reachable, OnTime, Accounted, Known
  <1>3. CASE Destroy
    <2>1. CASE Wipe
      BY <1>2, <1>3, <2>1 DEF Destroy, IInv, TypeOK
    <2>2. CASE destroyWait' = TRUE /\ UNCHANGED <<jobs, pending, limiterUp>>
      BY <1>3, <2>2
         DEF Destroy, IInv, TypeOK, Sound, Sequential, InFlight, Reachable, OnTime, Accounted,
             Known
    <2> QED  BY <1>3, <2>1, <2>2 DEF Destroy
  <1>4. CASE DestroyResolves
    BY <1>2, <1>4 DEF DestroyResolves, control, IInv, TypeOK
  <1> QED  BY <1>1, <1>3, <1>4

\* The steps that touch neither the list nor an attempt.
LEMMA QuietStepsKeepIInv ==
    ASSUME IInv,
           \/ Stop \/ StopResolves \/ Pause \/ UNCHANGED vars
           \/ \E j \in Jobs : TimePasses(j)
    PROVE  IInv'
  <1> DEFINE Same == UNCHANGED <<book, work, delivered>>
  <1>0. ASSUME Same, TypedRest'  PROVE IInv'
    <2>1. TypeOK'
      BY <1>0 DEF TypeOK, TypedRest, IInv, book, work
    <2> QED
      BY <1>0, <2>1
         DEF IInv, Sound, Sequential, InFlight, Reachable, OnTime, Accounted, Known, book, work
  <1>1. CASE Stop \/ StopResolves \/ Pause \/ UNCHANGED vars
    <2>1. Same
      BY <1>1 DEF Stop, StopResolves, Pause, vars
    <2>2. stopWait' \in BOOLEAN
      <3>1. stopWait \in BOOLEAN /\ isProcessing \in BOOLEAN
        BY DEF IInv, TypeOK
      <3> QED  BY <1>1, <3>1 DEF Stop, StopResolves, Pause, vars, waits
    <2>3. TypedRest'
      BY <1>1, <2>2, Unfolded
         DEF TypedRest, Stop, StopResolves, Pause, vars, control, waits, book
    <2> QED  BY <1>0, <2>1, <2>3
  <1>2. ASSUME NEW j \in Jobs, TimePasses(j)  PROVE IInv'
    <2>1. /\ scheduledFor' = [scheduledFor EXCEPT ![j] = "past"]
          /\ UNCHANGED <<control, waits, created, jobs, work, retryTimers, delivered, starts>>
      BY <1>2 DEF TimePasses
    <2>2. OnTime(active, scheduledFor')
      BY <2>1, Unfolded DEF Sound, OnTime, TypedRest, Typed
    <2> QED
      BY <2>1, <2>2
         DEF IInv, TypeOK, Sound, Sequential, InFlight, Reachable, OnTime, Accounted, Known,
             control, waits, work
  <1> QED  BY <1>1, <1>2

LEMMA ResumeKeepsIInv ==
    ASSUME IInv, Resume
    PROVE  IInv'
  <1>1. /\ isPaused' = FALSE
        /\ UNCHANGED <<isRunning, waits, book, retryTimers, delivered, starts>>
        /\ ProcessNext(isProcessing, active, pending, status, schedTimers)
    BY DEF Resume
  <1>2. TypedRest'
    BY <1>1, Unfolded DEF TypedRest, waits, book
  <1>3. /\ created' = created /\ jobs' = jobs /\ scheduledFor' = scheduledFor
        /\ delivered' = delivered /\ created <= created'
    BY <1>1, Unfolded DEF book
  <1> QED  BY <1>1, <1>2, <1>3, Unfolded, CallKeepsIInv

-----------------------------------------------------------------------------
(***************************************************************************)
(* The theorems.                                                           *)
(***************************************************************************)
\* The invariant holds of the queue createMemoryQueue returns.
LEMMA InitEstablishesIInv == Init => IInv
  <1> SUFFICES ASSUME Init PROVE IInv
    OBVIOUS
  <1>1. TypeOK
    <2>1. <<>> \in Seq(Jobs)
      OBVIOUS
    <2>2. created \in 0..N /\ starts \in Nat
      BY ConstantsAssumption DEF Init
    <2>3. /\ status \in [Jobs -> Statuses]
          /\ scheduledFor \in [Jobs -> {"none", "future", "past"}]
      BY DEF Init, Statuses
    <2>4. /\ attempts \in [Jobs -> Nat] /\ delivered \in [Jobs -> Nat]
          /\ schedTimers \in [Jobs -> Nat] /\ retryTimers \in [Jobs -> Nat]
      BY DEF Init
    <2> QED  BY <2>1, <2>2, <2>3, <2>4 DEF Init, TypeOK
  <1> QED
    BY <1>1
       DEF Init, IInv, Sound, Sequential, InFlight, Reachable, OnTime, Accounted, Known

\* No call of the interface, no timer and no answer of the provider breaks it.
LEMMA NextKeepsIInv == IInv /\ [Next]_vars => IInv'
  <1> SUFFICES ASSUME IInv, [Next]_vars PROVE IInv'
    OBVIOUS
  <1>1. CASE Progress
    <2>1. CASE StopResolves \/ DestroyResolves
      BY <2>1, QuietStepsKeepIInv, RemovalKeepsIInv
    <2>2. ASSUME NEW j \in Jobs,
                 \/ TimePasses(j) \/ SchedTimerFires(j) \/ RetryTimerFires(j)
                 \/ SendSucceeds(j) \/ SendFails(j)
          PROVE  IInv'
      BY <2>2, QuietStepsKeepIInv, TimersKeepIInv, AnswersKeepIInv
    <2> QED  BY <1>1, <2>1, <2>2 DEF Progress
  <1>2. CASE AddStartStop
    BY <1>2, AddKeepsIInv, StartKeepsIInv, QuietStepsKeepIInv DEF AddStartStop
  <1>3. CASE Pause \/ UNCHANGED vars
    BY <1>3, QuietStepsKeepIInv
  <1>4. CASE Resume
    BY <1>4, ResumeKeepsIInv
  <1>5. CASE Clear \/ Destroy
    BY <1>5, RemovalKeepsIInv
  <1> QED  BY <1>1, <1>2, <1>3, <1>4, <1>5 DEF Next

\* The inductive invariant holds in every reachable state.
THEOREM Invariance == Spec => []IInv
  BY InitEstablishesIInv, NextKeepsIInv, PTL DEF Spec

\* The variables keep their types (memory-queue.ts 50-55 and the fields of QueueJob).
THEOREM TypeCorrect == Spec => []TypeOK
  <1>1. IInv => TypeOK
    BY DEF IInv
  <1> QED  BY <1>1, Invariance, PTL

\* isProcessing is up exactly while one processJob is suspended: processing is
\* sequential however the interface is called and the timers ring.
THEOREM Sequentiality == Spec => []OneAtATime
  <1>1. IInv => OneAtATime
    BY DEF IInv, Sound, Sequential, OneAtATime
  <1> QED  BY <1>1, Invariance, PTL

\* No message is sent again once the provider has accepted it, and 'completed' is
\* recorded of exactly the messages it accepted.
THEOREM AtMostOneDelivery == Spec => []DeliveredOnce
  <1>1. IInv => DeliveredOnce
    BY DEF IInv, Sound, Accounted, DeliveredOnce
  <1> QED  BY <1>1, Invariance, PTL

\* No attempt is in progress before the job's scheduled time.
THEOREM Punctuality == Spec => []NeverEarly
  <1>1. IInv => NeverEarly
    BY DEF IInv, Sound, OnTime, NeverEarly
  <1> QED  BY <1>1, Invariance, PTL

\* No waiting job of the map is out of reach of both the list and the timers.
THEOREM NothingStranded == Spec => []NoStrandedJob
  <1>1. IInv => NoStrandedJob
    BY DEF IInv, TypeOK, Sound, Reachable, InFlight, NoStrandedJob
  <1> QED  BY <1>1, Invariance, PTL

\* destroy() waits for the attempt in progress before it takes the limiter away.
THEOREM DestroyWaits == Spec => DestroyCutsNothingOff
  <1>1. IInv /\ [Next]_vars => (limiterUp /\ ~limiterUp' => active = {})
    <2> SUFFICES ASSUME IInv, [Next]_vars, limiterUp, ~limiterUp'  PROVE active = {}
      OBVIOUS
    <2>1. \/ Destroy \/ DestroyResolves
      BY DEF Next, Progress, AddStartStop, Add, Start, Stop, StopResolves, Pause, Resume, Clear,
             TimePasses, SchedTimerFires, RetryTimerFires, SendSucceeds, SendFails, vars, waits
    <2>2. ~isProcessing
      BY <2>1 DEF Destroy, DestroyResolves, Wipe
    <2> QED  BY <2>2 DEF IInv, Sound, Sequential
  <1>2. IInv /\ [Next]_vars => [limiterUp /\ ~limiterUp' => active = {}]_vars
    BY <1>1
  <1> QED  BY <1>2, Invariance, PTL DEF Spec, DestroyCutsNothingOff

-----------------------------------------------------------------------------
(***************************************************************************)
(* How often a job may be attempted.  The argument counts chances: the     *)
(* places of a job in the list, which may hold it several times, and its   *)
(* timers.  An attempt uses up one chance, a failure may give one back,    *)
(* and only start() makes one from nothing, of a job that is in flight or  *)
(* backing off.                                                            *)
(***************************************************************************)
Places(q, j) == {i \in DOMAIN q : q[i] = j}

Occurrences(q, j) == Cardinality(Places(q, j))

Extra == IF starts = 0 THEN 0 ELSE starts - 1

Limit == IF MaxRetries = 0 THEN 1 ELSE MaxRetries

Chances(q, tm, rt, j) == Occurrences(q, j) + tm[j] + rt[j]

Underway(act, j) == IF j \in act THEN 1 ELSE 0

WithinBudget(j, act, q, tm, rt, at, extra) ==
    /\ Chances(q, tm, rt, j) + Underway(act, j) <= 1 + extra
    /\ at[j] >= Limit => at[j] + Chances(q, tm, rt, j) <= Limit + extra

AllWithin(act, q, tm, rt, at, extra) ==
    \A j \in Jobs : WithinBudget(j, act, q, tm, rt, at, extra)

\* Nothing has happened to an id before it is handed out.
Untouched(q, tm, rt, at, last) ==
    \A j \in Jobs : j > last => at[j] = 0 /\ Chances(q, tm, rt, j) = 0

\* Before the first start() there is nothing to restore.
Idle(act, st) == act = {} /\ \A j \in Jobs : st[j] = "pending"

BInv ==
    /\ IInv
    /\ AllWithin(active, pending, schedTimers, retryTimers, attempts, Extra)
    /\ Untouched(pending, schedTimers, retryTimers, attempts, created)
    /\ starts = 0 => ~isRunning /\ Idle(active, status)

-----------------------------------------------------------------------------
\* A list holds a job finitely often.
LEMMA PlacesAreFinite ==
    ASSUME NEW S, NEW q \in Seq(S), NEW j
    PROVE  /\ IsFiniteSet(Places(q, j)) /\ Occurrences(q, j) \in Nat
           /\ j \notin Elements(q) => Occurrences(q, j) = 0
           /\ j \in Elements(q) => Occurrences(q, j) >= 1
  <1>1. Len(q) \in Nat /\ DOMAIN q = 1..Len(q)
    BY LenProperties
  <1>2. IsFiniteSet(1..Len(q))
    BY <1>1, FS_Interval
  <1>3. IsFiniteSet(Places(q, j))
    BY <1>1, <1>2, FS_Subset DEF Places
  <1>4. Occurrences(q, j) \in Nat
    BY <1>3, FS_CardinalityType DEF Occurrences
  <1>5. Occurrences(q, j) = 0 <=> Places(q, j) = {}
    BY <1>3, FS_EmptySet DEF Occurrences
  <1> QED  BY <1>3, <1>4, <1>5 DEF Places, Elements

\* One more element, or none.
LEMMA OneMoreAtMost ==
    ASSUME NEW P, IsFiniteSet(P), NEW x
    PROVE  /\ IsFiniteSet(P \cup {x})
           /\ Cardinality(P \cup {x}) \in Nat
           /\ Cardinality(P \cup {x}) <= Cardinality(P) + 1
  <1>1. Cardinality(P) \in Nat
    BY FS_CardinalityType
  <1>2. /\ IsFiniteSet(P \cup {x})
        /\ \/ Cardinality(P \cup {x}) = Cardinality(P)
           \/ Cardinality(P \cup {x}) = Cardinality(P) + 1
    BY FS_AddElement
  <1> QED  BY <1>1, <1>2

\* pending.push adds one place, of the job that is pushed.
LEMMA OccurrencesInAppend ==
    ASSUME NEW S, NEW q \in Seq(S), NEW k \in S, NEW j
    PROVE  Occurrences(Append(q, k), j) <= Occurrences(q, j) + (IF k = j THEN 1 ELSE 0)
  <1> DEFINE r == Append(q, k)
  <1>1. /\ r \in Seq(S) /\ Len(r) = Len(q) + 1 /\ Len(q) \in Nat
        /\ DOMAIN q = 1..Len(q) /\ DOMAIN r = 1..Len(r)
        /\ \A i \in 1..Len(q) : r[i] = q[i]
        /\ r[Len(q) + 1] = k
    BY AppendProperties, LenProperties
  <1>2. /\ IsFiniteSet(Places(q, j)) /\ IsFiniteSet(Places(r, j))
        /\ Occurrences(q, j) \in Nat
    BY <1>1, PlacesAreFinite
  <1> HIDE DEF r
  <1>3. CASE k = j
    <2>1. Places(r, j) = Places(q, j) \cup {Len(q) + 1}
      BY <1>1, <1>3 DEF Places
    <2>2. Cardinality(Places(q, j) \cup {Len(q) + 1}) <= Cardinality(Places(q, j)) + 1
      BY <1>2, OneMoreAtMost
    <2> QED  BY <1>3, <2>1, <2>2 DEF Occurrences, r
  <1>4. CASE k # j
    <2>1. Places(r, j) = Places(q, j)
      BY <1>1, <1>4 DEF Places
    <2> QED  BY <1>2, <1>4, <2>1 DEF Occurrences, r
  <1> QED  BY <1>3, <1>4

\* A list of distinct jobs put behind another adds one place of each.
LEMMA OccurrencesInConcat ==
    ASSUME NEW S, NEW q \in Seq(S), NEW r \in Seq(S), NEW j,
           \A i, k \in DOMAIN r : r[i] = r[k] => i = k
    PROVE  Occurrences(q \o r, j) <= Occurrences(q, j) + (IF j \in Elements(r) THEN 1 ELSE 0)
  <1> DEFINE p == q \o r
  <1>1. p \in Seq(S) /\ Len(p) = Len(q) + Len(r)
    BY ConcatProperties
  <1>2. \A i \in 1..Len(p) : p[i] = IF i <= Len(q) THEN q[i] ELSE r[i - Len(q)]
    BY ConcatProperties
  <1>3. /\ Len(q) \in Nat /\ Len(r) \in Nat /\ DOMAIN p = 1..Len(p)
        /\ DOMAIN q = 1..Len(q) /\ DOMAIN r = 1..Len(r)
    BY <1>1, LenProperties
  <1>4. /\ IsFiniteSet(Places(q, j)) /\ IsFiniteSet(Places(p, j))
        /\ Occurrences(q, j) \in Nat
    BY <1>1, PlacesAreFinite
  <1> HIDE DEF p
  <1>5. ASSUME NEW i \in Places(p, j)
        PROVE  \/ i \in Places(q, j)
               \/ i - Len(q) \in DOMAIN r /\ r[i - Len(q)] = j /\ i \in Int
    <2>1. i \in 1..Len(p) /\ p[i] = j
      BY <1>3, <1>5 DEF Places
    <2>2. CASE i <= Len(q)
      BY <1>2, <1>3, <2>1, <2>2 DEF Places
    <2>3. CASE ~(i <= Len(q))
      BY <1>1, <1>2, <1>3, <2>1, <2>3
    <2> QED  BY <2>2, <2>3
  <1>6. CASE j \in Elements(r)
    <2>1. PICK h \in DOMAIN r : r[h] = j
      BY <1>6 DEF Elements
    <2>2. Places(p, j) \subseteq Places(q, j) \cup {Len(q) + h}
      <3> SUFFICES ASSUME NEW i \in Places(p, j), i \notin Places(q, j)
                   PROVE  i = Len(q) + h
        OBVIOUS
      <3>1. i - Len(q) = h /\ i \in Int
        BY <1>5, <2>1
      <3> QED  BY <1>3, <3>1
    <2>3. /\ IsFiniteSet(Places(q, j) \cup {Len(q) + h})
          /\ Cardinality(Places(q, j) \cup {Len(q) + h}) \in Nat
          /\ Cardinality(Places(q, j) \cup {Len(q) + h}) <= Cardinality(Places(q, j)) + 1
      BY <1>4, OneMoreAtMost
    <2>4. Cardinality(Places(p, j)) <= Cardinality(Places(q, j) \cup {Len(q) + h})
      BY <2>2, <2>3, FS_Subset
    <2>5. Cardinality(Places(p, j)) \in Nat
      BY <1>4, FS_CardinalityType
    <2> QED  BY <1>4, <1>6, <2>3, <2>4, <2>5 DEF Occurrences, p
  <1>7. CASE j \notin Elements(r)
    <2>1. Places(p, j) \subseteq Places(q, j)
      BY <1>5, <1>7 DEF Elements
    <2>2. Cardinality(Places(p, j)) <= Cardinality(Places(q, j))
      BY <1>4, <2>1, FS_Subset
    <2> QED  BY <1>4, <1>7, <2>2 DEF Occurrences, p
  <1> QED  BY <1>6, <1>7

\* Taking the first n + 1 away takes away the place of the job at n + 1.
LEMMA OccurrencesBehind ==
    ASSUME NEW S, NEW q \in Seq(S), NEW n \in 0..Len(q), n < Len(q), NEW j
    PROVE  Occurrences(SubSeq(q, n + 2, Len(q)), j) + (IF q[n + 1] = j THEN 1 ELSE 0)
              <= Occurrences(q, j)
  <1> DEFINE r == SubSeq(q, n + 2, Len(q))
  <1>1. Len(q) \in Nat /\ n \in Nat /\ DOMAIN q = 1..Len(q)
    BY LenProperties
  <1>2. \A i \in (n + 2)..Len(q) : q[i] \in S
    BY <1>1, ElementOfSeq
  <1>3. /\ r \in Seq(S)
        /\ Len(r) = IF n + 2 <= Len(q) THEN Len(q) - (n + 2) + 1 ELSE 0
        /\ \A i \in 1..(Len(q) - (n + 2) + 1) : r[i] = q[n + 2 + i - 1]
    <2>1. n + 2 \in Int /\ Len(q) \in Int
      BY <1>1
    <2> QED  BY <1>2, <2>1, SubSeqProperties
  <1>4. DOMAIN r = 1..Len(r)
    BY <1>3, LenProperties
  <1>5. /\ IsFiniteSet(Places(r, j)) /\ Occurrences(r, j) \in Nat
        /\ IsFiniteSet(Places(q, j)) /\ Occurrences(q, j) \in Nat
    BY <1>3, PlacesAreFinite
  <1> HIDE DEF r
  <1>6. Len(q) \in Nat /\ n \in Nat
    BY <1>1
  <1>7. Len(r) = Len(q) - n - 1
    BY <1>6, <1>3
  <1> DEFINE T == Places(q, j) \ {n + 1}
             f == [i \in Places(r, j) |-> i + n + 1]
  <1>8. ASSUME NEW i \in Places(r, j)  PROVE i \in Int /\ i + n + 1 \in T
    <2>1. i \in 1..Len(r) /\ r[i] = j
      BY <1>4, <1>8 DEF Places
    <2>2. i \in Int /\ i + n + 1 \in 1..Len(q) /\ i + n + 1 # n + 1
      BY <1>1, <1>7, <2>1
    <2>4. i \in 1..(Len(q) - (n + 2) + 1)
      BY <1>1, <1>7, <2>1
    <2>5. r[i] = q[n + 2 + i - 1]
      BY <1>3, <2>4
    <2>3. n + 2 + i - 1 = i + n + 1
      BY <1>1, <2>2
    <2> QED  BY <1>1, <2>1, <2>2, <2>3, <2>5 DEF Places
  <1>9. f \in Injection(Places(r, j), T)
    <2>1. f \in [Places(r, j) -> T]
      BY <1>8
    <2>2. \A a, b \in Places(r, j) : f[a] = f[b] => a = b
      BY <1>1, <1>8
    <2> HIDE DEF f, T
    <2> QED  BY <2>1, <2>2 DEF Injection, IsInjective
  <1>10. /\ IsFiniteSet(T)
        /\ Cardinality(T) = IF n + 1 \in Places(q, j) THEN Cardinality(Places(q, j)) - 1
                                                     ELSE Cardinality(Places(q, j))
    BY <1>5, FS_RemoveElement
  <1>11. Cardinality(Places(r, j)) <= Cardinality(T)
    <2> HIDE DEF f, T
    <2> QED  BY <1>9, <1>10, FS_Injection
  <1>12. n + 1 \in Places(q, j) <=> q[n + 1] = j
    BY <1>1 DEF Places
  <1> HIDE DEF T
  <1> QED  BY <1>5, <1>10, <1>11, <1>12 DEF Occurrences, r

-----------------------------------------------------------------------------
\* The amounts are natural numbers.
NaturalAmounts ==
    /\ starts \in Nat /\ Extra \in Nat /\ Limit \in Nat /\ Limit >= 1
    /\ created \in Nat /\ Jobs \subseteq Nat
    /\ \A j \in Jobs : /\ attempts[j] \in Nat
                       /\ schedTimers[j] \in Nat /\ retryTimers[j] \in Nat
                       /\ Occurrences(pending, j) \in Nat
                       /\ Chances(pending, schedTimers, retryTimers, j) \in Nat

LEMMA Amounts == IInv => NaturalAmounts
  <1> SUFFICES ASSUME IInv PROVE NaturalAmounts
    OBVIOUS
  <1>1. /\ starts \in Nat /\ created \in Nat
        /\ \A j \in Jobs : attempts[j] \in Nat /\ schedTimers[j] \in Nat /\ retryTimers[j] \in Nat
    BY Unfolded DEF TypedRest, Typed, IInv, TypeOK
  <1>2. Extra \in Nat
    BY <1>1 DEF Extra
  <1>3. Limit \in Nat /\ Limit >= 1
    BY ConstantsAssumption DEF Limit
  <1>4. \A j \in Jobs : Occurrences(pending, j) \in Nat
    BY PlacesAreFinite, Unfolded DEF Typed
  <1>5. \A j \in Jobs : Chances(pending, schedTimers, retryTimers, j) \in Nat
    BY <1>1, <1>4 DEF Chances
  <1> QED  BY <1>1, <1>2, <1>3, <1>4, <1>5 DEF Jobs, NaturalAmounts

LEMMA AmountsAfter == IInv' => NaturalAmounts'
  BY Amounts, PTL

\* What processNext may do to the chances: it takes ids off the list, and gives a timer
\* to, or begins an attempt of, a job whose id it took off.
LEMMA ProcessNextTakesChances ==
    ASSUME IInv, NEW busy, NEW act, NEW q, NEW st, NEW tm,
           Typed(busy, act, q, st, tm), retryTimers' \in [Jobs -> Nat],
           ProcessNext(busy, act, q, st, tm)
    PROVE  \/ /\ status' = st /\ active' = act /\ attempts' = attempts
              /\ \A k \in Jobs : Chances(pending', schedTimers', retryTimers', k)
                                   <= Chances(q, tm, retryTimers', k)
           \/ \E j \in Jobs :
              /\ CanProcess(busy) /\ active' = act \cup {j}
              /\ attempts' = [attempts EXCEPT ![j] = @ + 1]
              /\ \A k \in Jobs : Chances(pending', schedTimers', retryTimers', k)
                                   + (IF j = k THEN 1 ELSE 0)
                                   <= Chances(q, tm, retryTimers', k)
  <1> DEFINE Goal ==
        \/ /\ status' = st /\ active' = act /\ attempts' = attempts
           /\ \A k \in Jobs : Chances(pending', schedTimers', retryTimers', k)
                                <= Chances(q, tm, retryTimers', k)
        \/ \E j \in Jobs :
           /\ CanProcess(busy) /\ active' = act \cup {j}
           /\ attempts' = [attempts EXCEPT ![j] = @ + 1]
           /\ \A k \in Jobs : Chances(pending', schedTimers', retryTimers', k)
                                + (IF j = k THEN 1 ELSE 0)
                                <= Chances(q, tm, retryTimers', k)
  <1>0. \A k \in Jobs : /\ tm[k] \in Nat /\ retryTimers'[k] \in Nat
                        /\ Occurrences(q, k) \in Nat
    BY PlacesAreFinite DEF Typed
  <1>1. CASE Leave(busy, act, q, st, tm)
    <2>1. status' = st /\ active' = act /\ attempts' = attempts /\ pending' = q /\ schedTimers' = tm
      BY <1>1 DEF Leave
    <2>2. \A k \in Jobs : Chances(pending', schedTimers', retryTimers', k)
                            <= Chances(q, tm, retryTimers', k)
      BY <1>0, <2>1 DEF Chances
    <2> QED  BY <2>1, <2>2
  <1>2. ASSUME CanProcess(busy), Leave(FALSE, act, <<>>, st, tm)  PROVE Goal
    <2>1. /\ status' = st /\ active' = act /\ attempts' = attempts
          /\ pending' = <<>> /\ schedTimers' = tm
      BY <1>2 DEF Leave
    <2>2. ASSUME NEW k \in Jobs  PROVE Occurrences(<<>>, k) = 0
      <3>1. <<>> \in Seq(Jobs) /\ k \notin Elements(<<>>)
        BY DEF Elements
      <3> QED  BY <3>1, PlacesAreFinite
    <2>3. \A k \in Jobs : Chances(pending', schedTimers', retryTimers', k)
                            <= Chances(q, tm, retryTimers', k)
      BY <1>0, <2>1, <2>2 DEF Chances
    <2> QED  BY <2>1, <2>3
  <1>3. ASSUME CanProcess(busy), NEW n \in 0..Len(q), n < Len(q),
               Dispatch(q[n + 1], act, SubSeq(q, n + 2, Len(q)), st, tm)
        PROVE  Goal
    <2> DEFINE j == q[n + 1]
               p == SubSeq(q, n + 2, Len(q))
    <2>1. p \in Seq(Jobs) /\ j \in Jobs
      BY <1>3, ElementsBehind DEF Typed
    <2>2. \A k \in Jobs : Occurrences(p, k) + (IF j = k THEN 1 ELSE 0) <= Occurrences(q, k)
      BY <1>3, OccurrencesBehind DEF Typed
    <2>3. \A k \in Jobs : Occurrences(p, k) \in Nat
      BY <2>1, PlacesAreFinite
    <2>4. \/ Leave(FALSE, act, p, st, tm)
          \/ Leave(FALSE, act, p, st, [tm EXCEPT ![j] = @ + 1])
          \/ Attempt(j, act, p, st, tm)
      BY <1>3 DEF Dispatch
    <2> HIDE DEF j, p
    <2>5. CASE Leave(FALSE, act, p, st, tm)
      <3>1. /\ status' = st /\ active' = act /\ attempts' = attempts
            /\ pending' = p /\ schedTimers' = tm
        BY <2>5 DEF Leave
      <3>2. \A k \in Jobs : Chances(pending', schedTimers', retryTimers', k)
                              <= Chances(q, tm, retryTimers', k)
        BY <1>0, <2>2, <2>3, <3>1 DEF Chances
      <3> QED  BY <3>1, <3>2
    <2>6. CASE Leave(FALSE, act, p, st, [tm EXCEPT ![j] = @ + 1])
      <3>1. /\ status' = st /\ active' = act /\ attempts' = attempts
            /\ pending' = p /\ schedTimers' = [tm EXCEPT ![j] = @ + 1]
        BY <2>6 DEF Leave
      <3>2. \A k \in Jobs : schedTimers'[k] = tm[k] + (IF j = k THEN 1 ELSE 0)
        BY <1>0, <2>1, <3>1 DEF Typed
      <3>3. \A k \in Jobs : Chances(pending', schedTimers', retryTimers', k)
                              <= Chances(q, tm, retryTimers', k)
        BY <1>0, <2>2, <2>3, <3>1, <3>2 DEF Chances
      <3> QED  BY <3>1, <3>3
    <2>7. CASE Attempt(j, act, p, st, tm)
      <3>1. /\ active' = act \cup {j} /\ attempts' = [attempts EXCEPT ![j] = @ + 1]
            /\ pending' = p /\ schedTimers' = tm
        BY <2>7 DEF Attempt
      <3>2. \A k \in Jobs : Chances(pending', schedTimers', retryTimers', k)
                              + (IF j = k THEN 1 ELSE 0)
                              <= Chances(q, tm, retryTimers', k)
        BY <1>0, <2>2, <2>3, <3>1 DEF Chances
      <3> QED  BY <1>3, <2>1, <3>1, <3>2
    <2> QED  BY <2>4, <2>5, <2>6, <2>7
  <1> QED  BY <1>1, <1>2, <1>3 DEF ProcessNext

\* Whoever passes processNext values that are within the budget leaves them so.
LEMMA ProcessNextKeepsBudget ==
    ASSUME IInv, IInv', NEW busy, NEW act, NEW q, NEW st, NEW tm,
           Typed(busy, act, q, st, tm), Sequential(busy, act),
           AllWithin(act, q, tm, retryTimers', attempts, Extra'),
           Untouched(q, tm, retryTimers', attempts, created'),
           starts' = 0 => ~isRunning' /\ Idle(act, st),
           ProcessNext(busy, act, q, st, tm)
    PROVE  BInv'
  <1> DEFINE C(k) == Chances(q, tm, retryTimers', k)
             D(k) == Chances(pending', schedTimers', retryTimers', k)
  <1>1. /\ Extra' \in Nat /\ Limit \in Nat /\ Limit >= 1 /\ created' \in Nat
        /\ \A k \in Jobs : D(k) \in Nat /\ attempts'[k] \in Nat
    BY AmountsAfter DEF NaturalAmounts
  <1>2. retryTimers' \in [Jobs -> Nat]
    BY DEF IInv, TypeOK
  <1>3. \A k \in Jobs : C(k) \in Nat /\ attempts[k] \in Nat
    <2>1. \A k \in Jobs : tm[k] \in Nat /\ retryTimers'[k] \in Nat /\ Occurrences(q, k) \in Nat
      BY <1>2, PlacesAreFinite DEF Typed
    <2> QED  BY <2>1, Amounts DEF Chances, NaturalAmounts
  <1>4. \A k \in Jobs : /\ C(k) + Underway(act, k) <= 1 + Extra'
                        /\ attempts[k] >= Limit => attempts[k] + C(k) <= Limit + Extra'
                        /\ k > created' => attempts[k] = 0 /\ C(k) = 0
    BY DEF AllWithin, WithinBudget, Untouched
  <1> HIDE DEF C, D
  <1>5. ASSUME \A k \in Jobs :
                 /\ D(k) + Underway(active', k) <= 1 + Extra'
                 /\ attempts'[k] >= Limit => attempts'[k] + D(k) <= Limit + Extra'
                 /\ k > created' => attempts'[k] = 0 /\ D(k) = 0,
               starts' = 0 => ~isRunning' /\ Idle(active', status')
        PROVE  BInv'
    BY <1>5 DEF D, BInv, AllWithin, WithinBudget, Untouched
  <1>6. CASE /\ status' = st /\ active' = act /\ attempts' = attempts
             /\ \A k \in Jobs : D(k) <= C(k)
    <2>1. ASSUME NEW k \in Jobs
          PROVE  /\ D(k) + Underway(active', k) <= 1 + Extra'
                 /\ attempts'[k] >= Limit => attempts'[k] + D(k) <= Limit + Extra'
                 /\ k > created' => attempts'[k] = 0 /\ D(k) = 0
      BY <1>1, <1>3, <1>4, <1>6, <2>1 DEF Underway
    <2> QED  BY <1>5, <1>6, <2>1
  <1>7. ASSUME NEW j \in Jobs, CanProcess(busy), active' = act \cup {j},
               attempts' = [attempts EXCEPT ![j] = @ + 1],
               \A k \in Jobs : D(k) + (IF j = k THEN 1 ELSE 0) <= C(k)
        PROVE  BInv'
    <2>1. act = {} /\ starts' # 0
      BY <1>7 DEF CanProcess, Typed, Sequential
    <2>2. attempts \in [Jobs -> Nat]
      BY DEF IInv, TypeOK
    <2>3. ASSUME NEW k \in Jobs
          PROVE  /\ D(k) + Underway(active', k) <= 1 + Extra'
                 /\ attempts'[k] >= Limit => attempts'[k] + D(k) <= Limit + Extra'
                 /\ k > created' => attempts'[k] = 0 /\ D(k) = 0
      <3>1. CASE k = j
        <4>1. Underway(active', k) = 1 /\ Underway(act, k) = 0
          BY <1>7, <2>1, <3>1 DEF Underway
        <4>2. attempts'[k] = attempts[k] + 1 /\ D(k) + 1 <= C(k)
          BY <1>7, <2>2, <3>1
        <4> QED  BY <1>1, <1>3, <1>4, <4>1, <4>2
      <3>2. CASE k # j
        <4>1. Underway(active', k) = 0 /\ Underway(act, k) = 0
          BY <1>7, <2>1, <3>2 DEF Underway
        <4>2. attempts'[k] = attempts[k] /\ D(k) <= C(k)
          <5>1. D(k) + 0 <= C(k)
            BY <1>7, <3>2
          <5> QED  BY <1>1, <1>7, <2>2, <3>2, <5>1
        <4> QED  BY <1>1, <1>3, <1>4, <4>1, <4>2
      <3> QED  BY <3>1, <3>2
    <2> QED  BY <1>5, <2>1, <2>3
  <1> QED
    BY <1>2, <1>6, <1>7, ProcessNextTakesChances DEF C, D

-----------------------------------------------------------------------------
\* What the invariant says of one job.
LEMMA OneJob ==
    ASSUME BInv, NEW j \in Jobs
    PROVE  /\ Chances(pending, schedTimers, retryTimers, j) + Underway(active, j) <= 1 + Extra
           /\ attempts[j] >= Limit =>
                attempts[j] + Chances(pending, schedTimers, retryTimers, j) <= Limit + Extra
           /\ j > created =>
                attempts[j] = 0 /\ Chances(pending, schedTimers, retryTimers, j) = 0
  BY DEF BInv, AllWithin, WithinBudget, Untouched

\* Losing chances does no harm.
LEMMA FewerChancesKeepBudget ==
    ASSUME BInv, IInv', UNCHANGED <<active, attempts, created, starts, status>>,
           isRunning' => isRunning \/ starts # 0,
           \A j \in Jobs : Chances(pending', schedTimers', retryTimers', j)
                             <= Chances(pending, schedTimers, retryTimers, j)
    PROVE  BInv'
  <1> DEFINE C(j) == Chances(pending, schedTimers, retryTimers, j)
             D(j) == Chances(pending', schedTimers', retryTimers', j)
  <1>1. NaturalAmounts /\ NaturalAmounts' /\ Extra' = Extra
    BY Amounts, AmountsAfter DEF BInv, Extra
  <1>2. Extra \in Nat /\ Limit \in Nat /\ created \in Nat
    BY <1>1 DEF NaturalAmounts
  <1>3. ASSUME NEW j \in Jobs
        PROVE  /\ D(j) + Underway(active, j) <= 1 + Extra
               /\ attempts[j] >= Limit => attempts[j] + D(j) <= Limit + Extra
               /\ j > created => attempts[j] = 0 /\ D(j) = 0
    <2>1. /\ C(j) \in Nat /\ D(j) \in Nat /\ attempts[j] \in Nat /\ j \in Nat /\ D(j) <= C(j)
          /\ Underway(active, j) \in {0, 1}
      BY <1>1 DEF NaturalAmounts, Underway
    <2>2. /\ C(j) + Underway(active, j) <= 1 + Extra
          /\ attempts[j] >= Limit => attempts[j] + C(j) <= Limit + Extra
          /\ j > created => attempts[j] = 0 /\ C(j) = 0
      BY OneJob
    <2> HIDE DEF C, D
    <2> QED  BY <1>2, <2>1, <2>2
  <1>4. starts' = 0 => ~isRunning' /\ Idle(active', status')
    BY DEF BInv
  <1> QED  BY <1>1, <1>3, <1>4 DEF BInv, AllWithin, WithinBudget, Untouched

\* A call of processNext with values that give no job more than it had.
LEMMA CallKeepsBudget ==
    ASSUME BInv, IInv', NEW q, NEW tm,
           Typed(isProcessing, active, q, status, tm),
           ProcessNext(isProcessing, active, q, status, tm),
           created' = created, starts' = starts, isRunning' = isRunning,
           \A j \in Jobs : Chances(q, tm, retryTimers', j)
                             <= Chances(pending, schedTimers, retryTimers, j)
    PROVE  BInv'
  <1> DEFINE C(j) == Chances(pending, schedTimers, retryTimers, j)
             D(j) == Chances(q, tm, retryTimers', j)
  <1>1. NaturalAmounts /\ Extra' = Extra /\ IInv /\ retryTimers' \in [Jobs -> Nat]
    BY Amounts DEF BInv, Extra, IInv, TypeOK
  <1>2. \A j \in Jobs : D(j) \in Nat
    <2>1. \A j \in Jobs : tm[j] \in Nat /\ retryTimers'[j] \in Nat /\ Occurrences(q, j) \in Nat
      BY <1>1, PlacesAreFinite DEF Typed
    <2> QED  BY <2>1 DEF Chances
  <1>3. Extra \in Nat /\ Limit \in Nat /\ created \in Nat
    BY <1>1 DEF NaturalAmounts
  <1>4. ASSUME NEW j \in Jobs
        PROVE  /\ D(j) + Underway(active, j) <= 1 + Extra
               /\ attempts[j] >= Limit => attempts[j] + D(j) <= Limit + Extra
               /\ j > created => attempts[j] = 0 /\ D(j) = 0
    <2>1. /\ C(j) \in Nat /\ D(j) \in Nat /\ attempts[j] \in Nat /\ j \in Nat /\ D(j) <= C(j)
          /\ Underway(active, j) \in {0, 1}
      BY <1>1, <1>2 DEF NaturalAmounts, Underway
    <2>2. /\ C(j) + Underway(active, j) <= 1 + Extra
          /\ attempts[j] >= Limit => attempts[j] + C(j) <= Limit + Extra
          /\ j > created => attempts[j] = 0 /\ C(j) = 0
      BY OneJob
    <2> HIDE DEF C, D
    <2> QED  BY <1>3, <2>1, <2>2
  <1>5. /\ AllWithin(active, q, tm, retryTimers', attempts, Extra')
        /\ Untouched(q, tm, retryTimers', attempts, created')
    BY <1>1, <1>4 DEF AllWithin, WithinBudget, Untouched
  <1>6. starts' = 0 => ~isRunning' /\ Idle(active, status)
    BY DEF BInv
  <1>7. Sequential(isProcessing, active)
    BY <1>1, Unfolded DEF Sound
  <1> QED  BY <1>1, <1>5, <1>6, <1>7, ProcessNextKeepsBudget

\* add() gives the new job, to which nothing has happened yet, one chance.
LEMMA AddKeepsBudget ==
    ASSUME BInv, IInv', NEW when, Add(when)
    PROVE  BInv'
  <1> DEFINE id == NewId
             q  == Enqueue(id)
             C(j) == Chances(pending, schedTimers, retryTimers, j)
             D(j) == Chances(q, schedTimers, retryTimers', j)
  <1>1. /\ created' = created + 1 /\ id = created + 1
        /\ UNCHANGED <<isRunning, retryTimers, starts>>
        /\ ProcessNext(isProcessing, active, q, status, schedTimers)
    BY DEF Add, NewId, control
  <1>2. NaturalAmounts /\ Extra' = Extra /\ IInv
    BY <1>1, Amounts DEF BInv, Extra
  <1>3. /\ Typed(isProcessing, active, pending, status, schedTimers)
        /\ Sequential(isProcessing, active) /\ active \subseteq 1..created
    BY <1>2, Unfolded DEF Sound
  <1>4. id \in Jobs
    <2>1. created \in Nat /\ created < N
      BY <1>2 DEF NaturalAmounts, Add
    <2> QED  BY <1>1, <2>1, ConstantsAssumption DEF Jobs
  <1>5. q \in Seq(Jobs)
    BY <1>3, <1>4, ElementsOfAppend DEF Typed, Enqueue
  <1>6. \A j \in Jobs : Occurrences(q, j) <= Occurrences(pending, j) + (IF id = j THEN 1 ELSE 0)
    BY <1>3, <1>4, OccurrencesInAppend DEF Typed, Enqueue
  <1>7. Typed(isProcessing, active, q, status, schedTimers)
    BY <1>3, <1>5 DEF Typed
  <1> HIDE DEF id, q
  <1>8. ASSUME NEW j \in Jobs
        PROVE  D(j) \in Nat /\ D(j) <= C(j) + (IF id = j THEN 1 ELSE 0)
    <2>1. Occurrences(q, j) \in Nat
      BY <1>5, PlacesAreFinite
    <2> QED  BY <1>1, <1>2, <1>6, <2>1 DEF Chances, NaturalAmounts
  <1>9. ASSUME NEW j \in Jobs
        PROVE  /\ D(j) + Underway(active, j) <= 1 + Extra
               /\ attempts[j] >= Limit => attempts[j] + D(j) <= Limit + Extra
               /\ j > created' => attempts[j] = 0 /\ D(j) = 0
    <2>1. /\ C(j) \in Nat /\ D(j) \in Nat /\ attempts[j] \in Nat /\ j \in Nat
          /\ Underway(active, j) \in {0, 1} /\ created \in Nat
          /\ Extra \in Nat /\ Limit \in Nat /\ Limit >= 1
      BY <1>2, <1>8 DEF NaturalAmounts, Underway
    <2>2. /\ C(j) + Underway(active, j) <= 1 + Extra
          /\ attempts[j] >= Limit => attempts[j] + C(j) <= Limit + Extra
          /\ j > created => attempts[j] = 0 /\ C(j) = 0
      BY OneJob
    <2>3. D(j) <= C(j) + (IF id = j THEN 1 ELSE 0)
      BY <1>8
    <2>4. CASE j = id
      <3>1. Underway(active, j) = 0
        BY <1>1, <1>3, <2>1, <2>4 DEF Underway
      <3> HIDE DEF C, D
      <3> QED  BY <1>1, <2>1, <2>2, <2>3, <2>4, <3>1
    <2>5. CASE j # id
      <3> HIDE DEF C, D
      <3> QED  BY <1>1, <2>1, <2>2, <2>3, <2>5
    <2> QED  BY <2>4, <2>5
  <1>10. /\ AllWithin(active, q, schedTimers, retryTimers', attempts, Extra')
         /\ Untouched(q, schedTimers, retryTimers', attempts, created')
    BY <1>2, <1>9 DEF AllWithin, WithinBudget, Untouched
  <1>11. starts' = 0 => ~isRunning' /\ Idle(active, status)
    BY <1>1 DEF BInv
  <1> QED  BY <1>1, <1>2, <1>3, <1>7, <1>10, <1>11, ProcessNextKeepsBudget

\* start() buys one chance for each job in flight or backing off, unless it is the
\* first: then there is none.
LEMMA StartKeepsBudget ==
    ASSUME BInv, IInv', Start
    PROVE  BInv'
  <1> DEFINE missing == Interrupted \ Elements(pending)
             reset   == [j \in Jobs |-> IF j \in Interrupted THEN "pending" ELSE status[j]]
             C(j) == Chances(pending, schedTimers, retryTimers, j)
  <1>1. PICK r \in [1..Cardinality(missing) -> missing] :
               /\ InInsertionOrder(r, missing)
               /\ ProcessNext(isProcessing, active, pending \o r, reset, schedTimers)
    BY DEF Start
  <1> DEFINE D(j) == Chances(pending \o r, schedTimers, retryTimers', j)
  <1>2. /\ starts' = starts + 1 /\ created' = created /\ retryTimers' = retryTimers
    BY DEF Start, book
  <1>3. NaturalAmounts /\ IInv
    BY Amounts DEF BInv
  <1>4. missing \subseteq jobs /\ missing \subseteq Jobs /\ IsFiniteSet(missing)
    <2>1. IsFiniteSet(Jobs)
      BY FS_Interval, ConstantsAssumption DEF Jobs
    <2>2. missing \subseteq jobs /\ jobs \subseteq Jobs
      BY <1>3, Unfolded DEF TypedRest, Interrupted
    <2> QED  BY <2>1, <2>2, FS_Subset
  <1>5. starts = 0 => missing = {}
    BY DEF BInv, Idle, Interrupted, IInv, TypeOK
  <1>6. starts \in Nat /\ starts' # 0 /\ (starts # 0 => Extra' = Extra + 1)
    BY <1>2, <1>3 DEF NaturalAmounts, Extra
  <1>7. starts = 0 => Extra' = Extra
    BY <1>2 DEF Extra
  <1>8. /\ r \in Seq(Jobs) /\ Elements(r) = missing /\ DOMAIN r = 1..Cardinality(missing)
        /\ Cardinality(missing) \in Nat
    <2>1. Cardinality(missing) \in Nat
      BY <1>4, FS_CardinalityType
    <2>2. Elements(r) = missing
      BY <1>1 DEF InInsertionOrder
    <2> HIDE DEF missing
    <2>3. r \in [1..Cardinality(missing) -> Jobs]
      BY <1>1, <1>4
    <2> QED  BY <2>1, <2>2, <2>3
  <1>9. ASSUME NEW i \in DOMAIN r, NEW k \in DOMAIN r, r[i] = r[k]  PROVE i = k
    <2>1. i \in Int /\ k \in Int /\ r[i] \in Int
      <3>1. i \in 1..Cardinality(missing) /\ k \in 1..Cardinality(missing)
        BY <1>8
      <3>2. r[i] \in Elements(r)
        BY DEF Elements
      <3> QED  BY <1>4, <1>8, <3>1, <3>2 DEF Jobs
    <2>2. (i < k => r[i] < r[k]) /\ (k < i => r[k] < r[i])
      BY <1>1 DEF InInsertionOrder
    <2> QED  BY <1>9, <2>1, <2>2
  <1>10. pending \o r \in Seq(Jobs)
    BY <1>3, <1>8, ElementsOfConcat, Unfolded DEF Typed
  <1>11. \A j \in Jobs :
           Occurrences(pending \o r, j)
             <= Occurrences(pending, j) + (IF j \in missing THEN 1 ELSE 0)
    <2>1. pending \in Seq(Jobs)
      BY <1>3, Unfolded DEF Typed
    <2> HIDE DEF missing
    <2> QED  BY <1>8, <1>9, <2>1, OccurrencesInConcat
  <1>12. /\ Typed(isProcessing, active, pending \o r, reset, schedTimers)
         /\ Sequential(isProcessing, active)
    BY <1>3, <1>10, Unfolded DEF Typed, Statuses, Sound
  <1> HIDE DEF missing, reset
  <1>13. ASSUME NEW j \in Jobs
         PROVE  D(j) \in Nat /\ D(j) <= C(j) + (IF j \in missing THEN 1 ELSE 0)
    <2>1. Occurrences(pending \o r, j) \in Nat
      BY <1>10, PlacesAreFinite
    <2> QED  BY <1>2, <1>3, <1>11, <2>1 DEF Chances, NaturalAmounts
  <1>14. ASSUME NEW j \in Jobs
         PROVE  /\ D(j) + Underway(active, j) <= 1 + Extra'
                /\ attempts[j] >= Limit => attempts[j] + D(j) <= Limit + Extra'
                /\ j > created => attempts[j] = 0 /\ D(j) = 0
    <2>1. /\ C(j) \in Nat /\ attempts[j] \in Nat /\ j \in Nat
          /\ Underway(active, j) \in {0, 1} /\ created \in Nat
          /\ Extra \in Nat /\ Limit \in Nat
      BY <1>3 DEF NaturalAmounts, Underway
    <2>2. /\ C(j) + Underway(active, j) <= 1 + Extra
          /\ attempts[j] >= Limit => attempts[j] + C(j) <= Limit + Extra
          /\ j > created => attempts[j] = 0 /\ C(j) = 0
      BY OneJob
    <2>3. D(j) \in Nat /\ D(j) <= C(j) + (IF j \in missing THEN 1 ELSE 0)
      BY <1>13
    <2>4. j > created => j \notin missing
      BY <1>3, <1>4, <2>1, Unfolded
    <2>5. j \in missing => Extra' = Extra + 1
      BY <1>5, <1>6
    <2>6. Extra' = Extra \/ Extra' = Extra + 1
      BY <1>6, <1>7
    <2> HIDE DEF C, D
    <2> QED  BY <2>1, <2>2, <2>3, <2>4, <2>5, <2>6
  <1>15. /\ AllWithin(active, pending \o r, schedTimers, retryTimers', attempts, Extra')
         /\ Untouched(pending \o r, schedTimers, retryTimers', attempts, created')
    BY <1>2, <1>14 DEF AllWithin, WithinBudget, Untouched
  <1> QED  BY <1>1, <1>3, <1>6, <1>12, <1>15, ProcessNextKeepsBudget

LEMMA ResumeKeepsBudget ==
    ASSUME BInv, IInv', Resume
    PROVE  BInv'
  <1>1. /\ ProcessNext(isProcessing, active, pending, status, schedTimers)
        /\ created' = created /\ starts' = starts /\ isRunning' = isRunning
        /\ retryTimers' = retryTimers
    BY DEF Resume, book
  <1>2. NaturalAmounts /\ Typed(isProcessing, active, pending, status, schedTimers)
    BY Amounts, Unfolded DEF BInv
  <1>3. \A j \in Jobs : Chances(pending, schedTimers, retryTimers', j)
                          <= Chances(pending, schedTimers, retryTimers, j)
    BY <1>1, <1>2 DEF NaturalAmounts
  <1> QED  BY <1>1, <1>2, <1>3, CallKeepsBudget

\* A timer that rings turns one chance into another, or into none.
LEMMA TimersKeepBudget ==
    ASSUME BInv, IInv', NEW j \in Jobs, SchedTimerFires(j) \/ RetryTimerFires(j)
    PROVE  BInv'
  <1>1. NaturalAmounts /\ Typed(isProcessing, active, pending, status, schedTimers)
    BY Amounts, Unfolded DEF BInv
  <1>2. \A k \in Jobs : Occurrences(Enqueue(j), k)
                          <= Occurrences(pending, k) + (IF j = k THEN 1 ELSE 0)
    BY <1>1, OccurrencesInAppend DEF Typed, Enqueue
  <1>3. Enqueue(j) \in Seq(Jobs) /\ \A k \in Jobs : Occurrences(Enqueue(j), k) \in Nat
    <2>1. Enqueue(j) \in Seq(Jobs)
      BY <1>1, ElementsOfAppend DEF Typed, Enqueue
    <2> QED  BY <2>1, PlacesAreFinite
  <1>4. schedTimers \in [Jobs -> Nat] /\ retryTimers \in [Jobs -> Nat]
    BY DEF BInv, IInv, TypeOK
  <1>5. CASE SchedTimerFires(j)
    <2> DEFINE tm == [schedTimers EXCEPT ![j] = @ - 1]
    <2>1. /\ schedTimers[j] > 0 /\ retryTimers' = retryTimers
          /\ created' = created /\ starts' = starts /\ isRunning' = isRunning
          /\ ProcessNext(isProcessing, active, Enqueue(j), status, tm)
      BY <1>5 DEF SchedTimerFires, control, book
    <2>2. /\ tm \in [Jobs -> Nat]
          /\ \A k \in Jobs : tm[k] + (IF j = k THEN 1 ELSE 0) = schedTimers[k]
      BY <1>4, <2>1
    <2> HIDE DEF tm
    <2>3. Typed(isProcessing, active, Enqueue(j), status, tm)
      BY <1>1, <1>3, <2>2 DEF Typed
    <2>4. ASSUME NEW k \in Jobs
          PROVE  Chances(Enqueue(j), tm, retryTimers', k)
                   <= Chances(pending, schedTimers, retryTimers, k)
      <3>1. /\ Occurrences(pending, k) \in Nat /\ Occurrences(Enqueue(j), k) \in Nat
            /\ schedTimers[k] \in Nat /\ retryTimers[k] \in Nat /\ tm[k] \in Nat
        BY <1>1, <1>3, <2>2 DEF NaturalAmounts
      <3>2. /\ Occurrences(Enqueue(j), k) <= Occurrences(pending, k) + (IF j = k THEN 1 ELSE 0)
            /\ tm[k] + (IF j = k THEN 1 ELSE 0) = schedTimers[k]
            /\ retryTimers'[k] = retryTimers[k]
        BY <1>2, <2>1, <2>2
      <3> QED  BY <3>1, <3>2 DEF Chances
    <2> QED  BY <2>1, <2>3, <2>4, CallKeepsBudget
  <1>6. CASE RetryTimerFires(j)
    <2>1. /\ retryTimers[j] > 0 /\ retryTimers' = [retryTimers EXCEPT ![j] = @ - 1]
          /\ created' = created /\ starts' = starts /\ isRunning' = isRunning
      BY <1>6 DEF RetryTimerFires, control, book
    <2>2. \A k \in Jobs : /\ retryTimers'[k] \in Nat
                          /\ retryTimers'[k] + (IF j = k THEN 1 ELSE 0) = retryTimers[k]
      BY <1>4, <2>1
    <2>3. CASE ProcessNext(isProcessing, active, Enqueue(j), status, schedTimers)
      <3>1. Typed(isProcessing, active, Enqueue(j), status, schedTimers)
        BY <1>1, <1>3 DEF Typed
      <3>2. ASSUME NEW k \in Jobs
            PROVE  Chances(Enqueue(j), schedTimers, retryTimers', k)
                     <= Chances(pending, schedTimers, retryTimers, k)
        <4>1. /\ Occurrences(pending, k) \in Nat /\ Occurrences(Enqueue(j), k) \in Nat
              /\ schedTimers[k] \in Nat /\ retryTimers[k] \in Nat /\ retryTimers'[k] \in Nat
          BY <1>1, <1>3, <2>2 DEF NaturalAmounts
        <4>2. /\ Occurrences(Enqueue(j), k) <= Occurrences(pending, k) + (IF j = k THEN 1 ELSE 0)
              /\ retryTimers'[k] + (IF j = k THEN 1 ELSE 0) = retryTimers[k]
          BY <1>2, <2>2
        <4> QED  BY <4>1, <4>2 DEF Chances
      <3> QED  BY <2>1, <2>3, <3>1, <3>2, CallKeepsBudget
    <2>4. CASE UNCHANGED work
      <3>1. /\ UNCHANGED <<active, attempts, created, starts, status>>
            /\ pending' = pending /\ schedTimers' = schedTimers
        BY <2>1, <2>4 DEF work
      <3>2. ASSUME NEW k \in Jobs
            PROVE  Chances(pending', schedTimers', retryTimers', k)
                     <= Chances(pending, schedTimers, retryTimers, k)
        BY <1>1, <2>2, <3>1 DEF Chances, NaturalAmounts
      <3> QED  BY <2>1, <3>1, <3>2, FewerChancesKeepBudget
    <2> QED  BY <1>6, <2>3, <2>4 DEF RetryTimerFires
  <1> QED  BY <1>5, <1>6

\* The provider's answer ends the attempt; what failed gets a chance back only below
\* the limit.
LEMMA AnswersKeepBudget ==
    ASSUME BInv, IInv', NEW j \in Jobs, SendSucceeds(j) \/ SendFails(j)
    PROVE  BInv'
  <1>1. PICK word \in {"completed", "retrying", "failed"} :
               ProcessNext(FALSE, active \ {j}, pending, [status EXCEPT ![j] = word], schedTimers)
    BY DEF SendSucceeds, SendFails, Finally
  <1> DEFINE st  == [status EXCEPT ![j] = word]
             act == active \ {j}
             C(k) == Chances(pending, schedTimers, retryTimers, k)
             D(k) == Chances(pending, schedTimers, retryTimers', k)
  <1>2. j \in active /\ created' = created /\ starts' = starts /\ isRunning' = isRunning
    BY DEF SendSucceeds, SendFails, book, control
  <1>3. \/ retryTimers' = retryTimers
        \/ MayRetry(j) /\ retryTimers' = [retryTimers EXCEPT ![j] = @ + 1]
    BY DEF SendSucceeds, SendFails
  <1>4. /\ NaturalAmounts /\ IInv /\ Extra' = Extra
        /\ retryTimers \in [Jobs -> Nat] /\ retryTimers' \in [Jobs -> Nat]
    BY <1>2, Amounts DEF BInv, IInv, TypeOK, Extra
  <1>5. Typed(FALSE, act, pending, st, schedTimers) /\ Sequential(FALSE, act)
    <2>1. Typed(isProcessing, active, pending, status, schedTimers)
      BY <1>4, Unfolded
    <2>2. Sequential(isProcessing, active)
      BY <1>4, Unfolded DEF Sound
    <2> QED  BY <1>2, <2>1, <2>2 DEF Typed, Statuses, Sequential
  <1>6. MayRetry(j) => attempts[j] < Limit
    BY <1>4, ConstantsAssumption DEF MayRetry, Limit, NaturalAmounts
  <1>7. starts # 0
    BY <1>2 DEF BInv, Idle
  <1>8. \A k \in Jobs : D(k) = C(k) + (IF retryTimers' # retryTimers /\ k = j THEN 1 ELSE 0)
    BY <1>3, <1>4 DEF Chances, NaturalAmounts
  <1>9. ASSUME NEW k \in Jobs
        PROVE  /\ D(k) + Underway(act, k) <= 1 + Extra
               /\ attempts[k] >= Limit => attempts[k] + D(k) <= Limit + Extra
               /\ k > created => attempts[k] = 0 /\ D(k) = 0
    <2>1. /\ C(k) \in Nat /\ attempts[k] \in Nat /\ k \in Nat /\ created \in Nat
          /\ Extra \in Nat /\ Limit \in Nat
      BY <1>4 DEF NaturalAmounts
    <2>2. /\ C(k) + Underway(active, k) <= 1 + Extra
          /\ attempts[k] >= Limit => attempts[k] + C(k) <= Limit + Extra
          /\ k > created => attempts[k] = 0 /\ C(k) = 0
      BY OneJob
    <2>3. D(k) = C(k) + (IF retryTimers' # retryTimers /\ k = j THEN 1 ELSE 0)
      BY <1>8
    <2>4. CASE k = j
      <3>1. Underway(active, k) = 1 /\ Underway(act, k) = 0
        BY <1>2, <2>4 DEF Underway
      <3>2. k <= created
        BY <1>2, <1>4, <2>1, <2>4, Unfolded
      <3>3. retryTimers' # retryTimers => attempts[k] < Limit
        BY <1>3, <1>6, <2>4
      <3> HIDE DEF C, D, act
      <3> QED  BY <2>1, <2>2, <2>3, <3>1, <3>2, <3>3
    <2>5. CASE k # j
      <3>1. Underway(act, k) = Underway(active, k) /\ Underway(active, k) \in {0, 1}
        BY <2>5 DEF Underway
      <3> HIDE DEF C, D, act
      <3> QED  BY <2>1, <2>2, <2>3, <2>5, <3>1
    <2> QED  BY <2>4, <2>5
  <1>10. /\ AllWithin(act, pending, schedTimers, retryTimers', attempts, Extra')
         /\ Untouched(pending, schedTimers, retryTimers', attempts, created')
    BY <1>2, <1>4, <1>9 DEF AllWithin, WithinBudget, Untouched
  <1>11. ProcessNext(FALSE, act, pending, st, schedTimers) /\ starts' # 0
    BY <1>1, <1>2, <1>7
  <1> HIDE DEF st, act
  <1> QED  BY <1>4, <1>5, <1>10, <1>11, ProcessNextKeepsBudget

\* clear() and destroy() empty the list, and with it take chances away.
LEMMA RemovalKeepsBudget ==
    ASSUME BInv, IInv', Clear \/ Destroy \/ DestroyResolves
    PROVE  BInv'
  <1>1. NaturalAmounts
    BY Amounts DEF BInv
  <1>2. /\ UNCHANGED <<active, attempts, created, starts, status, schedTimers, retryTimers>>
        /\ isRunning' = isRunning \/ isRunning' = FALSE
        /\ pending' = <<>> \/ pending' = pending
    BY DEF Clear, Destroy, DestroyResolves, Wipe, control
  <1>3. ASSUME NEW j \in Jobs  PROVE Occurrences(<<>>, j) = 0
    <2>1. <<>> \in Seq(Jobs) /\ j \notin Elements(<<>>)
      BY DEF Elements
    <2> QED  BY <2>1, PlacesAreFinite
  <1>4. ASSUME NEW j \in Jobs
        PROVE  Chances(pending', schedTimers', retryTimers', j)
                 <= Chances(pending, schedTimers, retryTimers, j)
    BY <1>1, <1>2, <1>3 DEF Chances, NaturalAmounts
  <1> QED  BY <1>2, <1>4, FewerChancesKeepBudget

LEMMA QuietStepsKeepBudget ==
    ASSUME BInv, IInv',
           \/ Stop \/ StopResolves \/ Pause \/ UNCHANGED vars
           \/ \E j \in Jobs : TimePasses(j)
    PROVE  BInv'
  <1>1. /\ UNCHANGED <<active, attempts, created, starts, status>>
        /\ pending' = pending /\ schedTimers' = schedTimers /\ retryTimers' = retryTimers
    BY DEF Stop, StopResolves, Pause, TimePasses, vars, work, book
  <1>2. isRunning' => isRunning
    BY DEF Stop, StopResolves, Pause, TimePasses, vars, control
  <1>3. NaturalAmounts
    BY Amounts DEF BInv
  <1>4. \A j \in Jobs : Chances(pending', schedTimers', retryTimers', j)
                          <= Chances(pending, schedTimers, retryTimers, j)
    BY <1>1, <1>3 DEF NaturalAmounts
  <1> QED  BY <1>1, <1>2, <1>4, FewerChancesKeepBudget

-----------------------------------------------------------------------------
LEMMA NextKeepsBInv == BInv /\ [Next]_vars => BInv'
  <1> SUFFICES ASSUME BInv, [Next]_vars PROVE BInv'
    OBVIOUS
  <1>0. IInv'
    BY NextKeepsIInv DEF BInv
  <1>1. CASE Progress
    <2>1. CASE StopResolves \/ DestroyResolves
      BY <1>0, <2>1, QuietStepsKeepBudget, RemovalKeepsBudget
    <2>2. ASSUME NEW j \in Jobs,
                 \/ TimePasses(j) \/ SchedTimerFires(j) \/ RetryTimerFires(j)
                 \/ SendSucceeds(j) \/ SendFails(j)
          PROVE  BInv'
      BY <1>0, <2>2, QuietStepsKeepBudget, TimersKeepBudget, AnswersKeepBudget
    <2> QED  BY <1>1, <2>1, <2>2 DEF Progress
  <1>2. CASE AddStartStop
    BY <1>0, <1>2, AddKeepsBudget, StartKeepsBudget, QuietStepsKeepBudget DEF AddStartStop
  <1>3. CASE Pause \/ UNCHANGED vars
    BY <1>0, <1>3, QuietStepsKeepBudget
  <1>4. CASE Resume
    BY <1>0, <1>4, ResumeKeepsBudget
  <1>5. CASE Clear \/ Destroy
    BY <1>0, <1>5, RemovalKeepsBudget
  <1> QED  BY <1>1, <1>2, <1>3, <1>4, <1>5 DEF Next

LEMMA InitEstablishesBInv == Init => BInv
  <1> SUFFICES ASSUME Init PROVE BInv
    OBVIOUS
  <1>1. IInv /\ NaturalAmounts
    BY InitEstablishesIInv, Amounts
  <1>2. Extra = 0 /\ Limit \in Nat /\ Limit >= 1
    BY <1>1 DEF Init, Extra, NaturalAmounts
  <1>3. ASSUME NEW j \in Jobs
        PROVE  /\ Chances(pending, schedTimers, retryTimers, j) = 0
               /\ Underway(active, j) = 0 /\ attempts[j] = 0
    <2>1. <<>> \in Seq(Jobs) /\ j \notin Elements(<<>>)
      BY DEF Elements
    <2>2. Occurrences(<<>>, j) = 0
      BY <2>1, PlacesAreFinite
    <2> QED  BY <2>2 DEF Init, Chances, Underway
  <1>4. /\ AllWithin(active, pending, schedTimers, retryTimers, attempts, Extra)
        /\ Untouched(pending, schedTimers, retryTimers, attempts, created)
    BY <1>2, <1>3 DEF AllWithin, WithinBudget, Untouched
  <1> QED  BY <1>1, <1>4 DEF BInv, Init, Idle

\* The chances stay within the budget in every reachable state.
THEOREM BudgetInvariance == Spec => []BInv
  BY InitEstablishesBInv, NextKeepsBInv, PTL DEF Spec

\* A job is attempted maxRetries times, and once if that is 0, and once more for each
\* start() after the first: no timer, duplicate in the list or pause adds to that.
THEOREM AttemptsWithinBudget == Spec => []RetryBudget
  <1>1. BInv => RetryBudget
    <2> SUFFICES ASSUME BInv, NEW j \in Jobs  PROVE attempts[j] <= Limit + Extra
      BY DEF RetryBudget, Limit, Extra
    <2>1. NaturalAmounts
      BY Amounts DEF BInv
    <2>2. /\ Extra \in Nat /\ Limit \in Nat /\ attempts[j] \in Nat
          /\ Chances(pending, schedTimers, retryTimers, j) \in Nat
      BY <2>1 DEF NaturalAmounts
    <2> QED  BY <2>2, OneJob
  <1> QED  BY <1>1, BudgetInvariance, PTL

-----------------------------------------------------------------------------
(***************************************************************************)
(* The in-memory queue implements EmailQueue, for every number of jobs,    *)
(* every maxRetries and every number of start() calls.  All but the quiet  *)
(* steps end in a call of processNext, and EmailQueue has Go where the     *)
(* code has that call: one lemma relates the two, and each action remains  *)
(* to show which lives it passes on.                                       *)
(***************************************************************************)
\* Life(j), of the values processNext works on.
Stage(j, cr, js, act, st) ==
    IF j > cr THEN "new"
    ELSE IF j \in act THEN "sending"
    ELSE IF j \notin js THEN "gone"
    ELSE IF st[j] = "completed" THEN "sent"
    ELSE IF st[j] = "failed" THEN "failed"
    ELSE "waiting"

LivesOf(cr, js, act, st) == [j \in Jobs |-> Stage(j, cr, js, act, st)]

\* An id that was not handed out yet has the status add() gives a job.
Unused(cr, st) == \A j \in Jobs : j > cr => st[j] = "pending"

RInv == IInv /\ Unused(created, status)

-----------------------------------------------------------------------------
\* The case distinctions of Life are those of Stage.
LEMMA LifeIsStage ==
    ASSUME IInv
    PROVE  [j \in Jobs |-> Life(j)] = LivesOf(created, jobs, active, status)
  <1>1. /\ created \in Int /\ Jobs \subseteq Int
        /\ active \subseteq 1..created /\ jobs \subseteq 1..created
    BY Unfolded DEF Jobs
  <1>2. ASSUME NEW j \in Jobs  PROVE Life(j) = Stage(j, created, jobs, active, status)
    <2>1. CASE j > created
      <3>1. ~(j <= created) /\ j \notin active /\ j \notin jobs
        BY <1>1, <2>1
      <3> QED  BY <2>1, <3>1 DEF Life, Stage
    <2>2. CASE ~(j > created)
      <3>1. j <= created
        BY <1>1, <2>2
      <3> QED  BY <2>2, <3>1 DEF Life, Stage
    <2> QED  BY <2>1, <2>2
  <1> QED  BY <1>2 DEF LivesOf

\* The same in the state a step leads to.
LEMMA LifeThenIsStage ==
    IInv' => [j \in Jobs |-> Life(j)]' = LivesOf(created', jobs', active', status')
  <1>1. IInv => [j \in Jobs |-> Life(j)] = LivesOf(created, jobs, active, status)
    BY LifeIsStage
  <1>2. (IInv => [j \in Jobs |-> Life(j)] = LivesOf(created, jobs, active, status))'
    BY <1>1, PTL
  <1> QED  BY <1>2

\* The jobs under way are those whose processJob is suspended.
LEMMA UnderwayIsActive ==
    ASSUME NEW cr \in 0..N, NEW js, NEW act \in SUBSET (1..cr), NEW st
    PROVE  Promise!Underway(LivesOf(cr, js, act, st)) = act
  <1>1. act \subseteq Jobs /\ \A j \in act : ~(j > cr)
    BY ConstantsAssumption DEF Jobs
  <1>2. \A j \in Jobs : LivesOf(cr, js, act, st)[j] = Stage(j, cr, js, act, st)
    BY DEF LivesOf
  <1>3. \A j \in Jobs : Stage(j, cr, js, act, st) \in {"sending", "accepted"} <=> j \in act
    BY <1>1 DEF Stage
  <1> QED  BY <1>1, <1>2, <1>3 DEF Promise!Underway

\* What EmailQueue sees of the queue.
Seen == [j \in Jobs |-> Life(j)]
SeenDue == [j \in Jobs |-> scheduledFor[j] # "future"]
SeenTaking == isRunning /\ ~isPaused

\* Promise!Go(l), of the state it leads to.
Goes(l, seen, taking, due) ==
    \/ seen = l
    \/ /\ taking /\ Promise!Underway(l) = {}
       /\ \E j \in Promise!Eligible(l) : due[j] /\ seen = [l EXCEPT ![j] = "sending"]

\* Beginning an attempt is taking up a job that waits or failed and is due.
LEMMA AttemptGoes ==
    ASSUME NEW act, NEW q, NEW st, NEW tm, NEW j \in jobs',
           Typed(FALSE, act, q, st, tm), Sequential(FALSE, act), InFlight(act, st),
           created' \in 0..N, jobs' \subseteq 1..created',
           CanProcess(FALSE), Due(j), ~Skipped(j, st),
           Attempt(j, act, q, st, tm),
           IInv'
    PROVE  Goes(LivesOf(created', jobs', act, st), Seen', SeenTaking', SeenDue')
  <1> DEFINE l == LivesOf(created', jobs', act, st)
             m == LivesOf(created', jobs', active', status')
  <1>1. act = {} /\ j \in Jobs /\ ~(j > created')
    BY ConstantsAssumption DEF Sequential, Jobs
  <1>2. st[j] # "completed" /\ active' = {j} /\ status' = [st EXCEPT ![j] = "processing"]
    BY <1>1 DEF Skipped, Attempt
  <1>3. m = [l EXCEPT ![j] = "sending"]
    <2>1. Stage(j, created', jobs', active', status') = "sending"
      BY <1>1, <1>2 DEF Stage
    <2>2. \A k \in Jobs : k # j => Stage(k, created', jobs', active', status')
                                   = Stage(k, created', jobs', act, st)
      BY <1>1, <1>2 DEF Stage, Typed
    <2> QED  BY <1>1, <2>1, <2>2 DEF LivesOf
  <1>4. l[j] \in {"waiting", "failed"}
    BY <1>1, <1>2 DEF LivesOf, Stage
  <1>5. Promise!Underway(l) = {}
    BY <1>1, UnderwayIsActive
  <1>6. j \in Promise!Eligible(l)
    BY <1>1, <1>4 DEF Promise!Eligible
  <1>7. Seen' = m
    BY LifeThenIsStage DEF Seen
  <1>8. SeenTaking' /\ SeenDue'[j]
    BY <1>1 DEF CanProcess, Due, SeenTaking, SeenDue
  <1> HIDE DEF l, m
  <1>9. Goes(l, Seen', SeenTaking', SeenDue')
    BY <1>3, <1>5, <1>6, <1>7, <1>8 DEF Goes
  <1> QED  BY <1>9 DEF l

\* processNext does what Go says: it changes no life, or takes up one job.
LEMMA ProcessNextGoes ==
    ASSUME NEW busy, NEW act, NEW q, NEW st, NEW tm,
           Typed(busy, act, q, st, tm), Sequential(busy, act), InFlight(act, st),
           created' \in 0..N, jobs' \subseteq 1..created',
           ProcessNext(busy, act, q, st, tm),
           IInv'
    PROVE  Goes(LivesOf(created', jobs', act, st), Seen', SeenTaking', SeenDue')
  <1>1. ASSUME NEW b, NEW p, NEW t, Leave(b, act, p, st, t)
        PROVE  Goes(LivesOf(created', jobs', act, st), Seen', SeenTaking', SeenDue')
    <2>1. active' = act /\ status' = st
      BY <1>1 DEF Leave
    <2> QED  BY <2>1, LifeThenIsStage DEF Goes, Seen
  <1>2. ASSUME CanProcess(busy), NEW n \in 0..Len(q), n < Len(q),
               Dispatch(q[n + 1], act, SubSeq(q, n + 2, Len(q)), st, tm)
        PROVE  Goes(LivesOf(created', jobs', act, st), Seen', SeenTaking', SeenDue')
    <2> DEFINE j == q[n + 1]
               p == SubSeq(q, n + 2, Len(q))
    <2>1. busy = FALSE /\ p \in Seq(Jobs)
      BY <1>2, ElementsBehind DEF CanProcess, Typed
    <2>2. Typed(FALSE, act, p, st, tm)
      BY <2>1 DEF Typed
    <2>3. \/ \E t : Leave(FALSE, act, p, st, t)
          \/ j \in jobs' /\ Due(j) /\ ~Skipped(j, st) /\ Attempt(j, act, p, st, tm)
      BY <1>2 DEF Dispatch
    <2> HIDE DEF j, p
    <2> QED  BY <1>1, <1>2, <2>1, <2>2, <2>3, AttemptGoes
  <1> QED  BY <1>1, <1>2 DEF ProcessNext

-----------------------------------------------------------------------------
(***************************************************************************)
(* The steps.                                                              *)
(***************************************************************************)
\* What the invariant says of the lives it shows.
LEMMA SeenFacts ==
    ASSUME IInv
    PROVE  /\ Seen = LivesOf(created, jobs, active, status)
           /\ Promise!Underway(Seen) = active
           /\ SeenTaking \in BOOLEAN
           /\ Sequential(isProcessing, active) /\ InFlight(active, status)
           /\ Typed(isProcessing, active, pending, status, schedTimers)
           /\ created \in 0..N /\ jobs \subseteq 1..created /\ active \subseteq 1..created
           /\ created \in Int /\ Jobs \subseteq Int
  <1>1. Seen = LivesOf(created, jobs, active, status)
    BY LifeIsStage DEF Seen
  <1>2. Promise!Underway(Seen) = active
    BY <1>1, UnderwayIsActive, Unfolded
  <1>3. SeenTaking \in BOOLEAN
    BY Unfolded DEF TypedRest, SeenTaking
  <1>4. created \in Int /\ Jobs \subseteq Int
    BY Unfolded DEF Jobs
  <1> QED  BY <1>1, <1>2, <1>3, <1>4, Unfolded DEF Sound

\* The new job's life begins; the date is its own.
LEMMA AddIsAdd ==
    ASSUME RInv, IInv', NEW when \in {"none", "future"}, Add(when)
    PROVE  Promise!Next
  <1> DEFINE id == NewId
  <1>1. /\ id = created + 1 /\ created' = id /\ jobs' = jobs \cup {id}
        /\ scheduledFor' = [scheduledFor EXCEPT ![id] = when]
        /\ UNCHANGED <<control, delivered>>
        /\ ProcessNext(isProcessing, active, Enqueue(id), status, schedTimers)
    BY DEF Add, NewId
  <1>2. created < N
    BY DEF Add
  <1> HIDE DEF id
  <1>3. id \in Jobs /\ id > created /\ id \notin active /\ status[id] = "pending"
    BY <1>1, <1>2, SeenFacts, ConstantsAssumption DEF Jobs, RInv, Unused
  <1>4. Typed(isProcessing, active, Enqueue(id), status, schedTimers)
    BY <1>3, EnqueueIsSound DEF RInv
  <1>5. created' \in 0..N /\ jobs' \subseteq 1..created'
    <2>1. created \in 0..N /\ jobs \subseteq 1..created /\ N \in Nat
      BY SeenFacts, ConstantsAssumption DEF RInv
    <2> QED  BY <1>1, <1>2, <2>1
  <1>6. Goes(LivesOf(created', jobs', active, status), Seen', SeenTaking', SeenDue')
    <2>1. Sequential(isProcessing, active) /\ InFlight(active, status)
      BY SeenFacts DEF RInv
    <2>2. ProcessNext(isProcessing, active, Enqueue(id), status, schedTimers)
      BY <1>1
    <2> QED  BY <1>4, <1>5, <2>1, <2>2, ProcessNextGoes
  <1>7. LivesOf(created', jobs', active, status)
          = [j \in Jobs |-> IF j \in {id} THEN "waiting" ELSE Seen[j]]
    <2>1. Stage(id, created', jobs', active, status) = "waiting"
      BY <1>1, <1>3, SeenFacts DEF Stage, RInv
    <2>2. ASSUME NEW j \in Jobs, j # id
          PROVE  Stage(j, created', jobs', active, status)
                   = Stage(j, created, jobs, active, status)
      <3>1. j > created' <=> j > created
        BY <1>1, <2>2, SeenFacts DEF RInv
      <3> QED  BY <1>1, <2>2, <3>1 DEF Stage
    <2> QED  BY <2>1, <2>2, SeenFacts DEF LivesOf, RInv
  <1>8. Seen[id] = "new"
    BY <1>3, SeenFacts DEF LivesOf, Stage, RInv
  <1>9. /\ \A j \in Jobs \ {id} : SeenDue'[j] = SeenDue[j]
        /\ UNCHANGED <<SeenTaking, delivered>>
        /\ SeenDue' \in [Jobs -> BOOLEAN]
    <2>1. \A j \in Jobs \ {id} : scheduledFor'[j] = scheduledFor[j]
      BY <1>1, Unfolded DEF TypedRest, RInv
    <2> QED  BY <1>1, <2>1 DEF SeenDue, SeenTaking, control
  <1>10. {id} \in SUBSET {j \in Jobs : Seen[j] = "new"}
    BY <1>3, <1>8
  <1>11. Goes([j \in Jobs |-> IF j \in {id} THEN "waiting" ELSE Seen[j]],
              Seen', SeenTaking', SeenDue')
    BY <1>6, <1>7
  <1>12. \E new \in SUBSET {j \in Jobs : Seen[j] = "new"} :
           /\ \A j \in Jobs \ new : SeenDue'[j] = SeenDue[j]
           /\ UNCHANGED <<SeenTaking, delivered>>
           /\ SeenDue' \in [Jobs -> BOOLEAN]
           /\ Goes([j \in Jobs |-> IF j \in new THEN "waiting" ELSE Seen[j]],
                   Seen', SeenTaking', SeenDue')
    BY <1>9, <1>10, <1>11
  <1> QED
    BY <1>12 DEF Promise!Next, Promise!Add, Promise!Go, Goes, Seen, SeenDue, SeenTaking

\* A call of processNext with the lives as they were is a Switch.
LEMMA CallIsSwitch ==
    ASSUME IInv, IInv', NEW q, NEW st, NEW tm,
           Typed(isProcessing, active, q, st, tm), InFlight(active, st),
           \A j \in Jobs : \/ st[j] = status[j]
                           \/ {st[j], status[j]} \cap {"completed", "failed"} = {},
           UNCHANGED <<created, jobs, scheduledFor, delivered>>,
           ProcessNext(isProcessing, active, q, st, tm)
    PROVE  Promise!Next
  <1>1. Goes(LivesOf(created', jobs', active, st), Seen', SeenTaking', SeenDue')
    BY SeenFacts, ProcessNextGoes
  <1>2. LivesOf(created', jobs', active, st) = Seen
    <2>1. \A j \in Jobs : Stage(j, created, jobs, active, st)
                            = Stage(j, created, jobs, active, status)
      BY DEF Stage
    <2> QED  BY <2>1, SeenFacts DEF LivesOf
  <1>3. UNCHANGED <<delivered, SeenDue>> /\ SeenTaking' \in BOOLEAN
    <2>1. SeenTaking' \in BOOLEAN
      BY Unfolded DEF IInv, TypeOK, SeenTaking
    <2> QED  BY <2>1 DEF SeenDue
  <1>4. Promise!Switch
    BY <1>1, <1>2, <1>3 DEF Promise!Switch, Promise!Go, Goes, Seen, SeenDue, SeenTaking
  <1> QED  BY <1>4 DEF Promise!Next

\* So is a step that changes the flags at most.
LEMMA FlagsAreSwitch ==
    ASSUME IInv, IInv', UNCHANGED <<created, jobs, scheduledFor, delivered, active, status>>
    PROVE  Promise!Next
  <1>1. Seen' = Seen /\ UNCHANGED <<delivered, SeenDue>>
    BY SeenFacts, LifeThenIsStage DEF Seen, SeenDue
  <1>2. SeenTaking' \in BOOLEAN
    BY DEF IInv, TypeOK, SeenTaking
  <1>3. Promise!Switch
    BY <1>1, <1>2 DEF Promise!Switch, Promise!Go, Seen, SeenDue, SeenTaking
  <1> QED  BY <1>3 DEF Promise!Next

\* What start() restores waited already, unless it is in flight.
LEMMA StartIsSwitch ==
    ASSUME IInv, IInv', Start
    PROVE  Promise!Next
  <1> DEFINE missing == Interrupted \ Elements(pending)
             reset   == [j \in Jobs |-> IF j \in Interrupted THEN "pending" ELSE status[j]]
  <1>1. PICK r \in [1..Cardinality(missing) -> missing] :
           ProcessNext(isProcessing, active, pending \o r, reset, schedTimers)
    BY DEF Start
  <1>2. UNCHANGED <<created, jobs, scheduledFor, delivered>>
    BY DEF Start, book
  <1>3. pending \o r \in Seq(Jobs)
    <2>1. Jobs \subseteq Nat /\ IsFiniteSet(Jobs)
      BY ConstantsAssumption, FS_Interval DEF Jobs
    <2>2. missing \subseteq Jobs
      BY DEF IInv, TypeOK, Interrupted
    <2>3. IsFiniteSet(missing)
      BY <2>1, <2>2, FS_Subset
    <2>4. Cardinality(missing) \in Nat
      BY <2>3, FS_CardinalityType
    <2> HIDE DEF missing
    <2>5. r \in [1..Cardinality(missing) -> Jobs]
      BY <2>2
    <2>6. r \in Seq(Jobs)
      BY <2>4, <2>5
    <2> QED  BY <2>6, ElementsOfConcat DEF IInv, TypeOK
  <1>4. Typed(isProcessing, active, pending \o r, reset, schedTimers)
    <2>1. reset \in [Jobs -> Statuses]
      BY Unfolded DEF Typed, Statuses
    <2> HIDE DEF reset
    <2> QED  BY <1>3, <2>1, Unfolded DEF Typed
  <1>5. InFlight(active, reset)
    BY SeenFacts DEF InFlight, Typed
  <1>6. \A j \in Jobs : \/ reset[j] = status[j]
                        \/ {reset[j], status[j]} \cap {"completed", "failed"} = {}
    BY DEF Interrupted
  <1> HIDE DEF reset, missing
  <1> QED  BY <1>1, <1>2, <1>4, <1>5, <1>6, CallIsSwitch

\* So is a timer that pushes its job.
LEMMA PushIsSwitch ==
    ASSUME IInv, IInv', NEW j \in Jobs, SchedTimerFires(j) \/ RetryTimerFires(j)
    PROVE  Promise!Next
  <1>1. UNCHANGED <<created, jobs, scheduledFor, delivered>>
    BY DEF SchedTimerFires, RetryTimerFires, book
  <1>2. ASSUME NEW tm \in [Jobs -> Nat],
               ProcessNext(isProcessing, active, Enqueue(j), status, tm)
        PROVE  Promise!Next
    <2>1. Typed(isProcessing, active, Enqueue(j), status, tm)
      BY <1>2, EnqueueIsSound DEF Typed
    <2>2. InFlight(active, status)
      BY SeenFacts
    <2> QED  BY <1>1, <1>2, <2>1, <2>2, CallIsSwitch
  <1>3. CASE SchedTimerFires(j)
    <2> DEFINE tm == [schedTimers EXCEPT ![j] = @ - 1]
    <2>1. tm \in [Jobs -> Nat]
      BY <1>3, Unfolded DEF SchedTimerFires, Typed
    <2>2. ProcessNext(isProcessing, active, Enqueue(j), status, tm)
      BY <1>3 DEF SchedTimerFires
    <2> HIDE DEF tm
    <2> QED  BY <1>2, <2>1, <2>2
  <1>4. CASE RetryTimerFires(j)
    <2>1. CASE ProcessNext(isProcessing, active, Enqueue(j), status, schedTimers)
      BY <1>2, <2>1, Unfolded DEF Typed
    <2>2. CASE UNCHANGED work
      BY <1>1, <2>2, FlagsAreSwitch DEF work
    <2> QED  BY <1>4, <2>1, <2>2 DEF RetryTimerFires
  <1> QED  BY <1>3, <1>4

\* resume() changes a flag and goes on.
LEMMA ResumeIsSwitch ==
    ASSUME IInv, IInv', Resume
    PROVE  Promise!Next
  <1>1. /\ ProcessNext(isProcessing, active, pending, status, schedTimers)
        /\ UNCHANGED <<created, jobs, scheduledFor, delivered>>
    BY DEF Resume, book
  <1> QED  BY <1>1, SeenFacts, CallIsSwitch

\* A job whose time comes.
LEMMA TimePassesIsComesDue ==
    ASSUME IInv, IInv', NEW j \in Jobs, TimePasses(j)
    PROVE  Promise!Next
  <1>1. /\ scheduledFor' = [scheduledFor EXCEPT ![j] = "past"]
        /\ UNCHANGED <<created, jobs, active, status, isRunning, isPaused, delivered>>
    BY DEF TimePasses, control, work
  <1>2. UNCHANGED <<Seen, SeenTaking, delivered>>
    BY <1>1, SeenFacts, LifeThenIsStage DEF Seen, SeenTaking
  <1>3. SeenDue' = [SeenDue EXCEPT ![j] = TRUE]
    BY <1>1, Unfolded DEF SeenDue, TypedRest
  <1>4. \E k \in Jobs : SeenDue' = [SeenDue EXCEPT ![k] = TRUE]
    BY <1>3
  <1> QED  BY <1>2, <1>4 DEF Promise!Next, Promise!ComesDue, Seen, SeenDue, SeenTaking

\* clear() and destroy() end lives, none of a job under way.
LEMMA RemovalIsRemove ==
    ASSUME IInv, IInv', Clear \/ Destroy \/ DestroyResolves
    PROVE  Promise!Next
  <1>1. /\ UNCHANGED <<created, scheduledFor, delivered, active, status>>
        /\ jobs' \subseteq jobs
        /\ SeenTaking' \in {SeenTaking, FALSE}
    <2>1. UNCHANGED <<created, scheduledFor, delivered, active, status>>
      BY DEF Clear, Destroy, DestroyResolves
    <2>2. jobs' \subseteq jobs
      BY DEF Clear, Destroy, DestroyResolves, Wipe, Kept
    <2>3. CASE Destroy
      <3>1. ~isRunning'
        BY <2>3 DEF Destroy
      <3>2. SeenTaking' = FALSE
        BY <3>1 DEF SeenTaking
      <3> QED  BY <2>1, <2>2, <3>2
    <2>4. CASE Clear \/ DestroyResolves
      <3>1. SeenTaking' = SeenTaking
        BY <2>4 DEF Clear, DestroyResolves, control, SeenTaking
      <3> QED  BY <2>1, <2>2, <3>1
    <2> QED  BY <2>3, <2>4
  <1>2. \A j \in Jobs : \/ Seen'[j] = Seen[j]
                        \/ Seen'[j] = "gone" /\ Seen[j] # "new" /\ j \notin active
    <2>1. /\ Seen = LivesOf(created, jobs, active, status)
          /\ Seen' = LivesOf(created, jobs', active, status)
      BY <1>1, SeenFacts, LifeThenIsStage DEF Seen
    <2> QED  BY <1>1, <2>1 DEF LivesOf, Stage
  <1>3. Seen' \in [Jobs -> Promise!Lives]
    <2>1. Seen' = LivesOf(created', jobs', active', status')
      BY LifeThenIsStage DEF Seen
    <2> QED  BY <2>1 DEF LivesOf, Stage, Promise!Lives
  <1>4. \A j \in Jobs : j \in active <=> j \in Promise!Underway(Seen)
    BY SeenFacts
  <1>5. Promise!Remove
    <2>1. UNCHANGED <<delivered, SeenDue>>
      BY <1>1 DEF SeenDue
    <2> QED
      BY <1>1, <1>2, <1>3, <1>4, <2>1 DEF Promise!Remove, Seen, SeenDue, SeenTaking
  <1> QED  BY <1>5 DEF Promise!Next

\* An answer ends the attempt of its job, and processNext goes on from there.
LEMMA AnswerGoes ==
    ASSUME IInv, IInv', NEW j \in active, NEW word \in {"completed", "retrying", "failed"},
           UNCHANGED <<created, jobs, scheduledFor>>,
           Finally(j, [status EXCEPT ![j] = word])
    PROVE  /\ j \in Jobs /\ Seen[j] = "sending"
           /\ \E end \in IF word = "completed" THEN {"sent", "gone"}
                                               ELSE {"waiting", "failed", "gone"} :
                Goes([Seen EXCEPT ![j] = end], Seen', SeenTaking', SeenDue')
  <1> DEFINE st  == [status EXCEPT ![j] = word]
             act == active \ {j}
             end == Stage(j, created, jobs, act, st)
  <1>1. j \in Jobs /\ ~(j > created) /\ status \in [Jobs -> Statuses]
    BY SeenFacts DEF Typed
  <1>2. Seen[j] = "sending"
    BY <1>1, SeenFacts DEF LivesOf, Stage
  <1>3. st[j] = word /\ \A k \in Jobs : k # j => st[k] = status[k]
    BY <1>1
  <1>4. Typed(FALSE, act, pending, st, schedTimers)
    BY <1>1, SeenFacts DEF Typed, Statuses
  <1>5. Sequential(FALSE, act) /\ InFlight(act, st)
    BY <1>1, <1>3, SeenFacts DEF Sequential, InFlight
  <1>6. ProcessNext(FALSE, act, pending, st, schedTimers)
    BY DEF Finally
  <1>7. end \in IF word = "completed" THEN {"sent", "gone"} ELSE {"waiting", "failed", "gone"}
    BY <1>1, <1>3 DEF Stage
  <1>8. LivesOf(created, jobs, act, st) = [Seen EXCEPT ![j] = end]
    <2>1. \A k \in Jobs : k # j => Stage(k, created, jobs, act, st)
                                   = Stage(k, created, jobs, active, status)
      BY <1>3 DEF Stage
    <2> HIDE DEF st, act
    <2> QED  BY <1>1, <2>1, SeenFacts DEF LivesOf
  <1> HIDE DEF st, act, end
  <1>9. created' \in 0..N /\ jobs' \subseteq 1..created'
    BY SeenFacts
  <1>10. Goes(LivesOf(created', jobs', act, st), Seen', SeenTaking', SeenDue')
    BY <1>4, <1>5, <1>6, <1>9, ProcessNextGoes
  <1>11. Goes([Seen EXCEPT ![j] = end], Seen', SeenTaking', SeenDue')
    BY <1>8, <1>10
  <1> QED  BY <1>1, <1>2, <1>7, <1>11

\* The provider accepts, and the queue records it at once.
LEMMA SuccessIsAccept ==
    ASSUME IInv, IInv', NEW j \in Jobs, SendSucceeds(j)
    PROVE  Promise!Next
  <1>1. /\ j \in active /\ UNCHANGED <<created, jobs, scheduledFor, isRunning, isPaused>>
        /\ delivered' = [delivered EXCEPT ![j] = @ + 1]
        /\ Finally(j, [status EXCEPT ![j] = "completed"])
    BY DEF SendSucceeds, control, book
  <1>2. /\ Seen[j] = "sending"
        /\ \E end \in {"sent", "gone"} :
             Goes([Seen EXCEPT ![j] = end], Seen', SeenTaking', SeenDue')
    BY <1>1, AnswerGoes
  <1>3. UNCHANGED <<SeenDue, SeenTaking>>
    BY <1>1 DEF SeenDue, SeenTaking
  <1>4. \E k \in Jobs :
          /\ Seen[k] = "sending"
          /\ delivered' = [delivered EXCEPT ![k] = @ + 1]
          /\ UNCHANGED <<SeenDue, SeenTaking>>
          /\ \E end \in {"sent", "gone"} :
               Goes([Seen EXCEPT ![k] = end], Seen', SeenTaking', SeenDue')
    BY <1>1, <1>2, <1>3
  <1> QED
    BY <1>4 DEF Promise!Next, Promise!Accept, Promise!Go, Goes, Seen, SeenDue, SeenTaking

\* A refusal ends the attempt.
LEMMA FailureIsRefuse ==
    ASSUME IInv, IInv', NEW j \in Jobs, SendFails(j)
    PROVE  Promise!Next
  <1>1. /\ j \in active /\ UNCHANGED <<created, jobs, scheduledFor, isRunning, isPaused>>
        /\ delivered' = delivered
        /\ \E word \in {"retrying", "failed"} : Finally(j, [status EXCEPT ![j] = word])
    BY DEF SendFails, control, book
  <1>2. /\ Seen[j] = "sending"
        /\ \E end \in {"waiting", "failed", "gone"} :
             Goes([Seen EXCEPT ![j] = end], Seen', SeenTaking', SeenDue')
    BY <1>1, AnswerGoes
  <1>3. UNCHANGED <<SeenDue, SeenTaking, delivered>>
    BY <1>1 DEF SeenDue, SeenTaking
  <1>4. \E k \in Jobs :
          /\ Seen[k] = "sending"
          /\ UNCHANGED <<SeenDue, SeenTaking, delivered>>
          /\ \E end \in {"waiting", "failed", "gone"} :
               Goes([Seen EXCEPT ![k] = end], Seen', SeenTaking', SeenDue')
    BY <1>2, <1>3
  <1> QED
    BY <1>4 DEF Promise!Next, Promise!Refuse, Promise!Go, Goes, Seen, SeenDue, SeenTaking

-----------------------------------------------------------------------------
(***************************************************************************)
(* Ids that were not handed out.                                           *)
(***************************************************************************)
\* processNext changes the status of jobs of the map only.
LEMMA StatusElsewhere ==
    ASSUME NEW busy, NEW act, NEW q, NEW st \in [Jobs -> Statuses], NEW tm,
           ProcessNext(busy, act, q, st, tm),
           NEW j \in Jobs, j \notin jobs'
    PROVE  status'[j] = st[j]
  <1>1. ASSUME NEW b, NEW p, NEW t, Leave(b, act, p, st, t)  PROVE status'[j] = st[j]
    BY <1>1 DEF Leave
  <1>2. ASSUME NEW k, NEW p, Dispatch(k, act, p, st, tm)  PROVE status'[j] = st[j]
    BY <1>2 DEF Dispatch, Leave, Attempt
  <1> QED  BY <1>1, <1>2 DEF ProcessNext

\* An id keeps its status until it is handed out.
LEMMA UnusedStaysSo ==
    ASSUME RInv, IInv', [Next]_vars
    PROVE  Unused(created', status')
  <1>1. created \in Int /\ created' \in Int /\ created <= created' /\ jobs' \subseteq 1..created'
    <2>1. created \in 0..N /\ created' \in 0..N /\ N \in Nat /\ jobs' \subseteq 1..created'
      BY ConstantsAssumption DEF RInv, IInv, TypeOK, Known
    <2>2. created' \in {created, created + 1}
      BY DEF Next, Progress, AddStartStop, Add, NewId, Start, Stop, StopResolves, Pause, Resume,
             Clear, Destroy, DestroyResolves, TimePasses, SchedTimerFires, RetryTimerFires,
             SendSucceeds, SendFails, vars, book
    <2> QED  BY <2>1, <2>2
  <1>2. /\ status \in [Jobs -> Statuses] /\ active \in SUBSET Jobs
        /\ jobs \subseteq 1..created /\ active \subseteq 1..created
        /\ \A j \in Jobs : j > created' => j > created /\ j \notin jobs \cup jobs' \cup active
    BY <1>1, SeenFacts DEF RInv, Typed
  <1>3. CASE status' = status
    BY <1>2, <1>3 DEF RInv, Unused
  <1>4. ASSUME NEW busy, NEW act, NEW q, NEW tm, NEW st \in [Jobs -> Statuses],
               \A j \in Jobs : st[j] = status[j] \/ j \in jobs \cup active,
               ProcessNext(busy, act, q, st, tm)
        PROVE  Unused(created', status')
    <2>1. ASSUME NEW j \in Jobs, j > created'  PROVE status'[j] = "pending"
      <3>1. status'[j] = st[j]
        BY <1>2, <1>4, <2>1, StatusElsewhere
      <3> QED  BY <1>2, <1>4, <2>1, <3>1 DEF RInv, Unused
    <2> QED  BY <2>1 DEF Unused
  <1>5. CASE Start
    <2> DEFINE reset == [j \in Jobs |-> IF j \in Interrupted THEN "pending" ELSE status[j]]
    <2>1. reset \in [Jobs -> Statuses] /\ \A j \in Jobs : reset[j] = status[j] \/ j \in jobs
      BY <1>2 DEF Interrupted, Statuses
    <2>2. \E q : ProcessNext(isProcessing, active, q, reset, schedTimers)
      BY <1>5 DEF Start
    <2> HIDE DEF reset
    <2> QED  BY <1>4, <2>1, <2>2
  <1>6. ASSUME NEW j \in Jobs, SendSucceeds(j) \/ SendFails(j)  PROVE Unused(created', status')
    <2>1. j \in active /\ \E word \in Statuses : Finally(j, [status EXCEPT ![j] = word])
      BY <1>6 DEF SendSucceeds, SendFails, Statuses
    <2>2. PICK word \in Statuses : Finally(j, [status EXCEPT ![j] = word])
      BY <2>1
    <2> DEFINE st == [status EXCEPT ![j] = word]
    <2>3. st \in [Jobs -> Statuses] /\ \A k \in Jobs : st[k] = status[k] \/ k \in active
      BY <1>2, <2>1
    <2>4. ProcessNext(FALSE, active \ {j}, pending, st, schedTimers)
      BY <2>2 DEF Finally
    <2> HIDE DEF st
    <2> QED  BY <1>4, <2>3, <2>4
  <1>7. CASE Resume \/ \E when \in {"none", "future"} : Add(when)
    BY <1>2, <1>4, <1>7 DEF Resume, Add
  <1>8. ASSUME NEW j \in Jobs, SchedTimerFires(j) \/ RetryTimerFires(j)
        PROVE  Unused(created', status')
    BY <1>2, <1>3, <1>4, <1>8 DEF SchedTimerFires, RetryTimerFires, work
  <1>9. \/ Start \/ Resume \/ status' = status
        \/ \E when \in {"none", "future"} : Add(when)
        \/ \E j \in Jobs : \/ SendSucceeds(j) \/ SendFails(j)
                           \/ SchedTimerFires(j) \/ RetryTimerFires(j)
    BY DEF Next, Progress, AddStartStop, Stop, StopResolves, Pause, Clear, Destroy,
           DestroyResolves, TimePasses, vars, work
  <1> QED  BY <1>3, <1>5, <1>6, <1>7, <1>8, <1>9

-----------------------------------------------------------------------------
\* A queue just created is where an EmailQueue begins.
LEMMA InitIsInit == Init => RInv /\ Promise!Init
  <1> SUFFICES ASSUME Init PROVE RInv /\ Promise!Init
    OBVIOUS
  <1>1. IInv
    BY InitEstablishesIInv
  <1>2. Unused(created, status)
    BY DEF Init, Unused
  <1>3. Seen = [j \in Jobs |-> "new"] /\ SeenDue = [j \in Jobs |-> TRUE] /\ SeenTaking = FALSE
    <2>1. \A j \in Jobs : j > created
      BY ConstantsAssumption DEF Init, Jobs
    <2>2. Seen = [j \in Jobs |-> "new"]
      BY <1>1, <2>1, SeenFacts DEF LivesOf, Stage
    <2> QED  BY <2>2 DEF Init, SeenDue, SeenTaking
  <1> QED
    BY <1>1, <1>2, <1>3 DEF RInv, Init, Promise!Init, Seen, SeenDue, SeenTaking

\* Every step of the list and the timers is one of an EmailQueue.
LEMMA NextIsNext == RInv /\ [Next]_vars => RInv' /\ [Promise!Next]_(Promise!vars)
  <1> SUFFICES ASSUME RInv, [Next]_vars
               PROVE  RInv' /\ (Promise!Next \/ UNCHANGED Promise!vars)
    OBVIOUS
  <1>1. IInv /\ IInv'
    BY NextKeepsIInv DEF RInv
  <1>2. RInv'
    BY <1>1, UnusedStaysSo DEF RInv
  <1>3. CASE Progress
    <2>1. CASE StopResolves \/ DestroyResolves
      <3>1. CASE StopResolves
        BY <1>1, <1>2, <3>1, FlagsAreSwitch DEF StopResolves, book, work
      <3> QED  BY <1>1, <1>2, <2>1, <3>1, RemovalIsRemove
    <2>2. ASSUME NEW j \in Jobs,
                 \/ TimePasses(j) \/ SchedTimerFires(j) \/ RetryTimerFires(j)
                 \/ SendSucceeds(j) \/ SendFails(j)
          PROVE  Promise!Next
      BY <1>1, <2>2, TimePassesIsComesDue, PushIsSwitch, SuccessIsAccept, FailureIsRefuse
    <2> QED  BY <1>2, <1>3, <2>1, <2>2 DEF Progress
  <1>4. CASE Stop \/ Pause
    BY <1>1, <1>2, <1>4, FlagsAreSwitch DEF Stop, Pause, book, work
  <1>5. CASE UNCHANGED vars
    <2>1. UNCHANGED <<created, jobs, scheduledFor, delivered, active, status>>
      BY <1>5 DEF vars, book, work
    <2> QED  BY <1>1, <1>2, <2>1, FlagsAreSwitch
  <1>6. CASE Start \/ Resume \/ Clear \/ Destroy
    BY <1>1, <1>2, <1>6, StartIsSwitch, ResumeIsSwitch, RemovalIsRemove
  <1>7. ASSUME NEW when \in {"none", "future"}, Add(when)  PROVE Promise!Next
    BY <1>1, <1>7, AddIsAdd
  <1> QED  BY <1>2, <1>3, <1>4, <1>5, <1>6, <1>7 DEF Next, AddStartStop

\* The in-memory queue does nothing that types/queue.ts does not let an EmailQueue do
\* (memory-queue.ts 45-353).
THEOREM Refinement == Spec => KeepsPromise
  BY InitIsInit, NextIsNext, PTL DEF Spec, KeepsPromise, Promise!Spec

-----------------------------------------------------------------------------
(***************************************************************************)
(* In which order first attempts begin.  A job without a date that was not *)
(* attempted yet is in the list, since it can leave that only with an      *)
(* attempt or with its entry in the map; and it stands behind those added  *)
(* before it that wait like it.                                            *)
(***************************************************************************)
Waits(j, at, js, sf) == j \in js /\ sf[j] = "none" /\ at[j] = 0

InLine(q, st, tm, at, js, sf) ==
    /\ \A j \in Jobs : sf[j] = "none" => tm[j] = 0
    /\ \A j \in Jobs : Waits(j, at, js, sf) => st[j] = "pending" /\ j \in Elements(q)
    /\ \A i \in DOMAIN q, k \in Jobs :
         Waits(q[i], at, js, sf) /\ Waits(k, at, js, sf) /\ k < q[i]
           => \E h \in 1..(i - 1) : q[h] = k

LineInv ==
    /\ InLine(pending, status, schedTimers, attempts, jobs, scheduledFor)
    /\ \A j \in active : attempts[j] > 0

OInv == BInv /\ RInv /\ LineInv

\* What FirstAttemptsInOrder says of one step, of the map and the dates it leaves.
OrderKept ==
    \A j, k \in Jobs :
        /\ Waits(j, attempts, jobs', scheduledFor') /\ attempts'[j] > 0
        /\ Waits(k, attempts, jobs', scheduledFor') /\ k < j
        => attempts'[k] > 0

-----------------------------------------------------------------------------
\* The list behind position n + 1, place by place.
LEMMA PlacesBehind ==
    ASSUME NEW S, NEW q \in Seq(S), NEW n \in 0..Len(q), n < Len(q)
    PROVE  LET p == SubSeq(q, n + 2, Len(q))
           IN  /\ Len(q) \in Nat /\ DOMAIN q = 1..Len(q) /\ n \in Nat
               /\ DOMAIN p = 1..(Len(q) - n - 1)
               /\ \A i \in 1..(Len(q) - n - 1) : p[i] = q[n + 1 + i]
  <1> DEFINE p == SubSeq(q, n + 2, Len(q))
  <1>1. Len(q) \in Nat /\ n \in Nat
    BY LenProperties
  <1>2. DOMAIN q = 1..Len(q) /\ \A i \in 1..Len(q) : q[i] \in S
    BY LenProperties, ElementOfSeq
  <1>3. \A i \in (n + 2)..Len(q) : q[i] \in S
    BY <1>1, <1>2
  <1>4. /\ p \in Seq(S)
        /\ Len(p) = IF n + 2 <= Len(q) THEN Len(q) - (n + 2) + 1 ELSE 0
        /\ \A i \in 1..(Len(q) - (n + 2) + 1) : p[i] = q[n + 2 + i - 1]
    <2>1. n + 2 \in Int /\ Len(q) \in Int
      BY <1>1
    <2> QED  BY <1>3, <2>1, SubSeqProperties
  <1>5. DOMAIN p = 1..Len(p)
    BY <1>4, LenProperties
  <1> HIDE DEF p
  <1>6. Len(p) = Len(q) - n - 1
    BY <1>1, <1>4
  <1>7. ASSUME NEW i \in 1..(Len(q) - n - 1)  PROVE p[i] = q[n + 1 + i]
    <2>1. i \in 1..(Len(q) - (n + 2) + 1) /\ n + 2 + i - 1 = n + 1 + i
      BY <1>1
    <2>2. p[i] = q[n + 2 + i - 1]
      BY <1>4, <2>1
    <2> QED  BY <2>1, <2>2
  <1> QED  BY <1>1, <1>2, <1>5, <1>6, <1>7 DEF p

\* Taking skipped ids and one that does not wait off the list leaves the rest in line.
LEMMA RestIsInLine ==
    ASSUME NEW q \in Seq(Jobs), NEW st, NEW tm, NEW tm2, NEW at, NEW at2, NEW st2,
           NEW js, NEW sf,
           NEW n \in 0..Len(q), n < Len(q),
           InLine(q, st, tm, at, js, sf),
           \A i \in 1..n : st[q[i]] = "completed",
           \A k \in Jobs : Waits(k, at2, js, sf) => Waits(k, at, js, sf) /\ st2[k] = st[k],
           ~Waits(q[n + 1], at2, js, sf),
           \A k \in Jobs : sf[k] = "none" => tm2[k] = tm[k]
    PROVE  InLine(SubSeq(q, n + 2, Len(q)), st2, tm2, at2, js, sf)
  <1> DEFINE p == SubSeq(q, n + 2, Len(q))
  <1>1. /\ Len(q) \in Nat /\ DOMAIN q = 1..Len(q) /\ n \in Nat
        /\ DOMAIN p = 1..(Len(q) - n - 1)
        /\ \A i \in 1..(Len(q) - n - 1) : p[i] = q[n + 1 + i]
    BY PlacesBehind
  <1>2. \A j \in Elements(q) : \/ \E i \in 1..n : j = q[i]
                               \/ j = q[n + 1]
                               \/ j \in Elements(p)
    BY ElementsBehind
  <1> HIDE DEF p
  <1>3. ASSUME NEW k \in Jobs, Waits(k, at2, js, sf)
        PROVE  st2[k] = "pending" /\ k \in Elements(p) /\ \A i \in 1..(n + 1) : q[i] # k
    <2>1. Waits(k, at, js, sf) /\ st2[k] = st[k] /\ st[k] = "pending" /\ k \in Elements(q)
      BY <1>3 DEF InLine
    <2>2. k # q[n + 1]
      BY <1>3
    <2>3. \A i \in 1..n : q[i] # k
      BY <2>1
    <2>4. ASSUME NEW i \in 1..(n + 1)  PROVE q[i] # k
      <3>1. i \in 1..n \/ i = n + 1
        BY <1>1
      <3> QED  BY <2>2, <2>3, <3>1
    <2> QED  BY <1>2, <2>1, <2>2, <2>3, <2>4
  <1>4. ASSUME NEW i \in DOMAIN p, NEW k \in Jobs,
               Waits(p[i], at2, js, sf), Waits(k, at2, js, sf), k < p[i]
        PROVE  \E h \in 1..(i - 1) : p[h] = k
    <2>0. i \in 1..(Len(q) - n - 1) /\ Len(q) \in Nat /\ n \in Nat
      BY <1>1
    <2>1. n + 1 + i \in DOMAIN q /\ p[i] = q[n + 1 + i] /\ i \in Nat
      <3>1. n + 1 + i \in 1..Len(q) /\ i \in Nat
        BY <2>0
      <3> QED  BY <1>1, <2>0, <3>1
    <2>2. q[n + 1 + i] \in Jobs
      BY <1>1, <2>1, ElementOfSeq
    <2>3. Waits(q[n + 1 + i], at, js, sf) /\ Waits(k, at, js, sf)
      BY <1>4, <2>1, <2>2
    <2>4. PICK h \in 1..(n + 1 + i - 1) : q[h] = k
      BY <1>4, <2>1, <2>3 DEF InLine
    <2>5. ~(h \in 1..(n + 1))
      BY <1>3, <1>4, <2>4
    <2>6. /\ h - n - 1 \in 1..(i - 1) /\ h - n - 1 \in 1..(Len(q) - n - 1)
          /\ n + 1 + (h - n - 1) = h
      BY <1>1, <2>1, <2>4, <2>5
    <2>7. p[h - n - 1] = k
      BY <1>1, <2>4, <2>6
    <2> QED  BY <2>6, <2>7
  <1>5. \A j \in Jobs : sf[j] = "none" => tm2[j] = 0
    BY DEF InLine
  <1> QED  BY <1>3, <1>4, <1>5 DEF InLine, p

\* processNext takes from the front, so it keeps the line and the order.
LEMMA ProcessNextKeepsOrder ==
    ASSUME IInv, NEW busy, NEW act, NEW q, NEW st, NEW tm,
           Typed(busy, act, q, st, tm),
           InLine(q, st, tm, attempts, jobs', scheduledFor'),
           ProcessNext(busy, act, q, st, tm)
    PROVE  /\ InLine(pending', status', schedTimers', attempts', jobs', scheduledFor')
           /\ OrderKept
           /\ \A j \in active' : j \in act \/ (j \in Jobs /\ attempts'[j] > 0)
  <1> DEFINE Goal ==
           /\ InLine(pending', status', schedTimers', attempts', jobs', scheduledFor')
           /\ OrderKept
           /\ \A j \in active' : j \in act \/ (j \in Jobs /\ attempts'[j] > 0)
  <1>0. attempts \in [Jobs -> Nat]
    BY DEF IInv, TypeOK
  <1>1. CASE Leave(busy, act, q, st, tm)
    <2>1. /\ status' = st /\ active' = act /\ attempts' = attempts
          /\ pending' = q /\ schedTimers' = tm
      BY <1>1 DEF Leave
    <2> QED  BY <1>0, <2>1 DEF OrderKept, Waits
  <1>2. ASSUME \A i \in 1..Len(q) : Skipped(q[i], st), Leave(FALSE, act, <<>>, st, tm)
        PROVE  Goal
    <2>1. /\ status' = st /\ active' = act /\ attempts' = attempts
          /\ pending' = <<>> /\ schedTimers' = tm
      BY <1>2 DEF Leave
    <2>2. DOMAIN q = 1..Len(q)
      BY LenProperties DEF Typed
    <2>3. ASSUME NEW j \in Jobs  PROVE ~Waits(j, attempts, jobs', scheduledFor')
      <3>1. j \in Elements(q) => st[j] = "completed"
        BY <1>2, <2>2 DEF Elements, Skipped
      <3> QED  BY <3>1 DEF InLine
    <2>4. InLine(<<>>, st, tm, attempts, jobs', scheduledFor')
      <3>1. DOMAIN <<>> = {}
        OBVIOUS
      <3> QED  BY <2>3, <3>1 DEF InLine
    <2> QED  BY <1>0, <2>1, <2>3, <2>4 DEF OrderKept
  <1>3. ASSUME NEW n \in 0..Len(q), n < Len(q), \A i \in 1..n : Skipped(q[i], st),
               Dispatch(q[n + 1], act, SubSeq(q, n + 2, Len(q)), st, tm)
        PROVE  Goal
    <2> DEFINE j == q[n + 1]
               p == SubSeq(q, n + 2, Len(q))
    <2>1. j \in Jobs /\ q \in Seq(Jobs) /\ n + 1 \in DOMAIN q /\ j \in Elements(q) /\ n \in Nat
      <3>1. n + 1 \in DOMAIN q /\ n \in Nat
        BY <1>3, PlacesBehind DEF Typed
      <3> QED  BY <1>3, <3>1, ElementsBehind DEF Typed, Elements
    <2>2. \A i \in 1..n : st[q[i]] = "completed"
      BY <1>3 DEF Skipped
    <2>3. ASSUME NEW tm2, NEW at2, NEW st2,
                 \A k \in Jobs : Waits(k, at2, jobs', scheduledFor') =>
                                   Waits(k, attempts, jobs', scheduledFor') /\ st2[k] = st[k],
                 ~Waits(j, at2, jobs', scheduledFor'),
                 \A k \in Jobs : scheduledFor'[k] = "none" => tm2[k] = tm[k]
          PROVE  InLine(p, st2, tm2, at2, jobs', scheduledFor')
      BY <1>3, <2>1, <2>2, <2>3, RestIsInLine
    <2>4. \/ j \notin jobs' /\ Leave(FALSE, act, p, st, tm)
          \/ ~Due(j) /\ Leave(FALSE, act, p, st, [tm EXCEPT ![j] = @ + 1])
          \/ j \in jobs' /\ Attempt(j, act, p, st, tm)
      BY <1>3 DEF Dispatch
    <2>5. ASSUME NEW k \in Jobs, k < j,
                 Waits(j, attempts, jobs', scheduledFor'), Waits(k, attempts, jobs', scheduledFor')
          PROVE  FALSE
      <3>1. PICK h \in 1..(n + 1 - 1) : q[h] = k
        BY <2>1, <2>5 DEF InLine
      <3>2. h \in 1..n
        BY <2>1
      <3>3. st[k] = "completed"
        BY <2>2, <3>1, <3>2
      <3> QED  BY <2>5, <3>3 DEF InLine
    <2> HIDE DEF j, p
    <2>6. CASE j \notin jobs' /\ Leave(FALSE, act, p, st, tm)
      <3>1. /\ status' = st /\ active' = act /\ attempts' = attempts
            /\ pending' = p /\ schedTimers' = tm
        BY <2>6 DEF Leave
      <3>2. ~Waits(j, attempts, jobs', scheduledFor')
        BY <2>6 DEF Waits
      <3>3. InLine(p, st, tm, attempts, jobs', scheduledFor')
        BY <2>3, <3>2
      <3> QED  BY <1>0, <3>1, <3>3 DEF OrderKept, Waits
    <2>7. CASE ~Due(j) /\ Leave(FALSE, act, p, st, [tm EXCEPT ![j] = @ + 1])
      <3>1. /\ status' = st /\ active' = act /\ attempts' = attempts
            /\ pending' = p /\ schedTimers' = [tm EXCEPT ![j] = @ + 1]
        BY <2>7 DEF Leave
      <3>2. scheduledFor'[j] # "none" /\ ~Waits(j, attempts, jobs', scheduledFor')
        BY <2>7 DEF Waits, Due
      <3>3. \A k \in Jobs : k # j => schedTimers'[k] = tm[k]
        BY <3>1 DEF Typed
      <3>4. InLine(p, st, schedTimers', attempts, jobs', scheduledFor')
        BY <2>3, <3>2, <3>3
      <3> QED  BY <1>0, <2>1, <3>1, <3>3, <3>4 DEF OrderKept, Waits
    <2>8. CASE j \in jobs' /\ Attempt(j, act, p, st, tm)
      <3>1. /\ active' = act \cup {j} /\ attempts' = [attempts EXCEPT ![j] = @ + 1]
            /\ pending' = p /\ schedTimers' = tm /\ status' = [st EXCEPT ![j] = "processing"]
        BY <2>8 DEF Attempt
      <3>2. /\ attempts'[j] = attempts[j] + 1 /\ attempts[j] \in Nat
            /\ \A k \in Jobs : k # j => attempts'[k] = attempts[k] /\ status'[k] = st[k]
        BY <1>0, <2>1, <3>1 DEF Typed
      <3>3. ~Waits(j, attempts', jobs', scheduledFor')
        BY <3>2 DEF Waits
      <3>4. InLine(p, status', tm, attempts', jobs', scheduledFor')
        <4>1. \A k \in Jobs : Waits(k, attempts', jobs', scheduledFor') =>
                                /\ Waits(k, attempts, jobs', scheduledFor')
                                /\ status'[k] = st[k]
          BY <3>2, <3>3 DEF Waits
        <4> QED  BY <2>3, <3>3, <4>1
      <3>5. OrderKept
        <4> SUFFICES ASSUME NEW a \in Jobs, NEW b \in Jobs,
                            Waits(a, attempts, jobs', scheduledFor'), attempts'[a] > 0,
                            Waits(b, attempts, jobs', scheduledFor'), b < a
                     PROVE  FALSE
          BY DEF OrderKept
        <4>1. a = j
          BY <3>2 DEF Waits
        <4> QED  BY <2>5, <4>1
      <3>7. \A k \in active' : k \in act \/ (k \in Jobs /\ attempts'[k] > 0)
        BY <2>1, <3>1, <3>2
      <3> QED  BY <3>1, <3>4, <3>5, <3>7
    <2> QED  BY <2>4, <2>6, <2>7, <2>8
  <1>4. \/ Leave(busy, act, q, st, tm)
        \/ \E n \in 0..Len(q) :
             /\ \A i \in 1..n : Skipped(q[i], st)
             /\ \/ n = Len(q) /\ Leave(FALSE, act, <<>>, st, tm)
                \/ /\ n < Len(q)
                   /\ Dispatch(q[n + 1], act, SubSeq(q, n + 2, Len(q)), st, tm)
    BY DEF ProcessNext
  <1> QED  BY <1>1, <1>2, <1>3, <1>4

-----------------------------------------------------------------------------
\* A job pushed behind the others is in line if none that waits was added after it.
LEMMA PushKeepsLine ==
    ASSUME NEW q \in Seq(Jobs), NEW id \in Jobs, NEW st, NEW tm, NEW tm2, NEW at,
           NEW js, NEW js2, NEW sf, NEW sf2,
           InLine(q, st, tm, at, js, sf),
           \A k \in Jobs : sf2[k] = "none" => tm2[k] = 0,
           \A k \in Jobs : Waits(k, at, js2, sf2) =>
             \/ Waits(k, at, js, sf)
             \/ /\ k = id /\ st[id] = "pending" /\ id \notin Elements(q)
                /\ \A l \in Jobs : Waits(l, at, js2, sf2) => l <= id
    PROVE  InLine(Append(q, id), st, tm2, at, js2, sf2)
  <1> DEFINE p == Append(q, id)
  <1>1. /\ Elements(p) = Elements(q) \cup {id}
        /\ Len(q) \in Nat /\ DOMAIN q = 1..Len(q) /\ DOMAIN p = 1..(Len(q) + 1)
        /\ \A i \in 1..Len(q) : p[i] = q[i]
        /\ p[Len(q) + 1] = id
    BY ElementsOfAppend, AppendProperties, LenProperties
  <1> HIDE DEF p
  <1>2. \A k \in Jobs : Waits(k, at, js2, sf2) => st[k] = "pending" /\ k \in Elements(p)
    BY <1>1 DEF InLine
  <1>3. ASSUME NEW i \in DOMAIN p, NEW k \in Jobs,
               Waits(p[i], at, js2, sf2), Waits(k, at, js2, sf2), k < p[i]
        PROVE  \E h \in 1..(i - 1) : p[h] = k
    <2>1. Len(q) \in Nat /\ i \in 1..(Len(q) + 1)
      BY <1>1
    <2>2. CASE i = Len(q) + 1
      <3>1. p[i] = id /\ k # id
        BY <1>1, <1>3, <2>2 DEF Jobs
      <3>2. k \in Elements(q)
        BY <1>3, <3>1 DEF InLine
      <3>3. PICK h \in DOMAIN q : q[h] = k
        BY <3>2 DEF Elements
      <3>4. h \in 1..(i - 1) /\ p[h] = k
        BY <1>1, <2>1, <2>2, <3>3
      <3> QED  BY <3>4
    <2>3. CASE i # Len(q) + 1
      <3>1. i \in 1..Len(q)
        BY <2>1, <2>3
      <3>2. p[i] = q[i] /\ q[i] \in Elements(q) /\ q[i] \in Jobs /\ i \in DOMAIN q
        BY <1>1, <3>1, ElementOfSeq DEF Elements
      <3>3. Waits(q[i], at, js, sf)
        BY <1>3, <3>2
      <3>4. Waits(k, at, js, sf)
        <4>1. q[i] \in Int /\ k \in Int /\ id \in Int
          BY <3>2 DEF Jobs
        <4>2. CASE k = id /\ \A l \in Jobs : Waits(l, at, js2, sf2) => l <= id
          <5>1. q[i] <= id
            BY <1>3, <3>2, <4>2
          <5> QED  BY <1>3, <3>2, <4>1, <4>2, <5>1
        <4> QED  BY <1>3, <4>2
      <3>5. PICK h \in 1..(i - 1) : q[h] = k
        BY <1>3, <3>2, <3>3, <3>4 DEF InLine
      <3>6. h \in 1..Len(q)
        BY <2>1, <3>1
      <3> QED  BY <1>1, <3>5, <3>6
    <2> QED  BY <2>2, <2>3
  <1> QED  BY <1>2, <1>3 DEF InLine, p

\* Restored jobs were attempted before, so that none of them waits for its first time.
LEMMA RestoreKeepsLine ==
    ASSUME NEW q \in Seq(Jobs), NEW r \in Seq(Jobs), NEW st, NEW st2, NEW tm, NEW at,
           NEW js, NEW sf,
           InLine(q, st, tm, at, js, sf),
           \A k \in Jobs : Waits(k, at, js, sf) => st2[k] = st[k] /\ k \notin Elements(r)
    PROVE  InLine(q \o r, st2, tm, at, js, sf)
  <1> DEFINE p == q \o r
  <1>1. Elements(p) = Elements(q) \cup Elements(r)
    BY ElementsOfConcat
  <1>2. p \in Seq(Jobs) /\ Len(p) = Len(q) + Len(r)
    BY ConcatProperties
  <1>3. \A i \in 1..Len(p) : p[i] = IF i <= Len(q) THEN q[i] ELSE r[i - Len(q)]
    BY ConcatProperties
  <1>4. /\ Len(q) \in Nat /\ Len(r) \in Nat /\ DOMAIN p = 1..Len(p)
        /\ DOMAIN q = 1..Len(q) /\ DOMAIN r = 1..Len(r)
    BY <1>2, LenProperties
  <1>5. \A i \in 1..Len(p) : p[i] \in Jobs
    BY <1>2, ElementOfSeq
  <1> HIDE DEF p
  <1>6. ASSUME NEW i \in DOMAIN p, NEW k \in Jobs,
               Waits(p[i], at, js, sf), Waits(k, at, js, sf), k < p[i]
        PROVE  \E h \in 1..(i - 1) : p[h] = k
    <2>1. i \in 1..Len(p) /\ i \in Nat
      BY <1>4
    <2>2. CASE ~(i <= Len(q))
      <3>1. i - Len(q) \in 1..Len(r)
        BY <1>2, <1>4, <2>1, <2>2
      <3>2. p[i] = r[i - Len(q)] /\ r[i - Len(q)] \in Elements(r)
        BY <1>3, <1>4, <2>1, <2>2, <3>1 DEF Elements
      <3> QED  BY <1>5, <1>6, <2>1, <3>2
    <2>3. CASE i <= Len(q)
      <3>1. i \in DOMAIN q /\ p[i] = q[i]
        BY <1>3, <1>4, <2>1, <2>3
      <3>2. PICK h \in 1..(i - 1) : q[h] = k
        BY <1>6, <3>1 DEF InLine
      <3>3. h \in 1..Len(p) /\ h <= Len(q)
        BY <1>2, <1>4, <2>1, <2>3
      <3> QED  BY <1>3, <3>2, <3>3
    <2> QED  BY <2>2, <2>3
  <1>7. \A k \in Jobs : Waits(k, at, js, sf) => st2[k] = "pending" /\ k \in Elements(p)
    BY <1>1 DEF InLine
  <1>8. \A k \in Jobs : sf[k] = "none" => tm[k] = 0
    BY DEF InLine
  <1> QED  BY <1>6, <1>7, <1>8 DEF InLine, p

-----------------------------------------------------------------------------
\* What FirstAttemptsInOrder says of a step.
StepInOrder ==
    \A j \in Jobs : attempts'[j] > 0 /\ Fresh(j) =>
                      \A k \in 1..(j - 1) : Fresh(k) => attempts'[k] > 0

OStep == LineInv' /\ StepInOrder

\* A call of processNext, by one that takes no job away and changes no date of one.
LEMMA CallKeepsOrder ==
    ASSUME OInv, NEW busy, NEW act, NEW q, NEW st, NEW tm,
           Typed(busy, act, q, st, tm), act \subseteq active,
           InLine(q, st, tm, attempts, jobs', scheduledFor'),
           jobs \subseteq jobs', \A j \in jobs : scheduledFor'[j] = scheduledFor[j],
           ProcessNext(busy, act, q, st, tm)
    PROVE  OStep
  <1>1. IInv /\ attempts \in [Jobs -> Nat] /\ \A j \in active : j \in Jobs /\ attempts[j] > 0
    BY DEF OInv, BInv, LineInv, IInv, TypeOK
  <1>2. /\ InLine(pending', status', schedTimers', attempts', jobs', scheduledFor')
        /\ OrderKept
        /\ \A j \in active' : j \in act \/ (j \in Jobs /\ attempts'[j] > 0)
    BY <1>1, ProcessNextKeepsOrder
  <1>3. \A j \in Jobs : attempts[j] > 0 => attempts'[j] > 0
    <2>1. attempts' = attempts \/ \E k : attempts' = [attempts EXCEPT ![k] = @ + 1]
      BY DEF ProcessNext, Dispatch, Leave, Attempt
    <2> QED  BY <1>1, <2>1
  <1>4. LineInv'
    BY <1>1, <1>2, <1>3 DEF LineInv
  <1>5. StepInOrder
    <2> SUFFICES ASSUME NEW j \in Jobs, attempts'[j] > 0, Fresh(j),
                        NEW k \in 1..(j - 1), Fresh(k)
                 PROVE  attempts'[k] > 0
      BY DEF StepInOrder
    <2>1. k \in Jobs /\ k < j
      BY ConstantsAssumption DEF Jobs
    <2>2. \A i \in {j, k} : Waits(i, attempts, jobs', scheduledFor')
      BY DEF Fresh, Waits
    <2> QED  BY <1>2, <2>1, <2>2 DEF OrderKept
  <1> QED  BY <1>4, <1>5 DEF OStep

LEMMA AddKeepsOrder ==
    ASSUME OInv, NEW when, Add(when)
    PROVE  OStep
  <1> DEFINE id == created + 1
  <1>1. /\ created < N /\ jobs' = jobs \cup {id}
        /\ scheduledFor' = [scheduledFor EXCEPT ![id] = when]
        /\ ProcessNext(isProcessing, active, Append(pending, id), status, schedTimers)
    BY DEF Add, NewId, Enqueue
  <1>2. IInv /\ NaturalAmounts /\ Unused(created, status)
    BY Amounts DEF OInv, BInv, RInv
  <1>3. created \in Nat /\ id \in Jobs
    <2>1. created \in Nat
      BY <1>2 DEF NaturalAmounts
    <2> QED  BY <1>1, <2>1, ConstantsAssumption DEF Jobs
  <1>4. /\ Typed(isProcessing, active, pending, status, schedTimers)
        /\ jobs \subseteq 1..created /\ scheduledFor \in [Jobs -> {"none", "future", "past"}]
    BY <1>2, Unfolded DEF TypedRest
  <1>5. \A k \in jobs : k # id /\ k \in Jobs /\ k <= id
    BY <1>3, <1>4, ConstantsAssumption DEF Jobs
  <1>6. schedTimers[id] = 0 /\ id \notin Elements(pending) /\ status[id] = "pending"
    <2>1. id > created
      BY <1>3
    <2>2. Chances(pending, schedTimers, retryTimers, id) = 0
      BY <1>3, <2>1, OneJob DEF OInv
    <2>3. schedTimers[id] = 0 /\ Occurrences(pending, id) = 0
      <3>1. /\ schedTimers[id] \in Nat /\ retryTimers[id] \in Nat
            /\ Occurrences(pending, id) \in Nat
        BY <1>2, <1>3 DEF NaturalAmounts
      <3> QED  BY <2>2, <3>1 DEF Chances
    <2>4. id \notin Elements(pending)
      BY <1>3, <1>4, <2>3, PlacesAreFinite DEF Typed
    <2> QED  BY <1>2, <1>3, <2>1, <2>3, <2>4 DEF Unused
  <1>7. Append(pending, id) \in Seq(Jobs)
    BY <1>3, <1>4, ElementsOfAppend DEF Typed
  <1> HIDE DEF id
  <1>8. \A k \in Jobs : k # id => scheduledFor'[k] = scheduledFor[k]
    BY <1>1, <1>4
  <1>9. InLine(Append(pending, id), status, schedTimers, attempts, jobs', scheduledFor')
    <2>1. InLine(pending, status, schedTimers, attempts, jobs, scheduledFor)
      BY DEF OInv, LineInv
    <2>2. \A k \in Jobs : scheduledFor'[k] = "none" => schedTimers[k] = 0
      BY <1>6, <1>8, <2>1 DEF InLine
    <2>3. \A k \in Jobs : k # id /\ Waits(k, attempts, jobs', scheduledFor')
                            => Waits(k, attempts, jobs, scheduledFor)
      BY <1>1, <1>8 DEF Waits
    <2>4. \A k \in Jobs : Waits(k, attempts, jobs', scheduledFor') => k <= id
      <3>1. id <= id
        BY <1>3 DEF Jobs
      <3> QED  BY <1>1, <1>5, <3>1 DEF Waits
    <2>5. \A k \in Jobs : Waits(k, attempts, jobs', scheduledFor') =>
             \/ Waits(k, attempts, jobs, scheduledFor)
             \/ /\ k = id /\ status[id] = "pending" /\ id \notin Elements(pending)
                /\ \A l \in Jobs : Waits(l, attempts, jobs', scheduledFor') => l <= id
      BY <1>6, <2>3, <2>4
    <2>6. pending \in Seq(Jobs)
      BY <1>4 DEF Typed
    <2> QED  BY <1>3, <2>1, <2>2, <2>5, <2>6, PushKeepsLine
  <1>10. jobs \subseteq jobs' /\ \A j \in jobs : scheduledFor'[j] = scheduledFor[j]
    BY <1>1, <1>5, <1>8
  <1>11. Typed(isProcessing, active, Append(pending, id), status, schedTimers)
    BY <1>4, <1>7 DEF Typed
  <1> QED  BY <1>1, <1>9, <1>10, <1>11, CallKeepsOrder

LEMMA StartKeepsOrder ==
    ASSUME OInv, Start
    PROVE  OStep
  <1> DEFINE missing == Interrupted \ Elements(pending)
             reset   == [j \in Jobs |-> IF j \in Interrupted THEN "pending" ELSE status[j]]
  <1>1. PICK r \in [1..Cardinality(missing) -> missing] :
               /\ InInsertionOrder(r, missing)
               /\ ProcessNext(isProcessing, active, pending \o r, reset, schedTimers)
    BY DEF Start
  <1>2. jobs' = jobs /\ scheduledFor' = scheduledFor /\ IInv
    BY DEF Start, book, OInv, BInv
  <1>3. missing \subseteq Jobs /\ IsFiniteSet(missing)
    <2>1. IsFiniteSet(Jobs)
      BY FS_Interval, ConstantsAssumption DEF Jobs
    <2>2. missing \subseteq Jobs
      BY <1>2, Unfolded DEF TypedRest, Interrupted
    <2> QED  BY <2>1, <2>2, FS_Subset
  <1>4. r \in Seq(Jobs) /\ Elements(r) = missing
    <2>1. Cardinality(missing) \in Nat
      BY <1>3, FS_CardinalityType
    <2>2. Elements(r) = missing
      BY <1>1 DEF InInsertionOrder
    <2> HIDE DEF missing
    <2>3. r \in [1..Cardinality(missing) -> Jobs]
      BY <1>1, <1>3
    <2> QED  BY <2>1, <2>2, <2>3
  <1>5. Typed(isProcessing, active, pending, status, schedTimers)
    BY <1>2, Unfolded
  <1>6. Typed(isProcessing, active, pending \o r, reset, schedTimers)
    BY <1>4, <1>5, ElementsOfConcat DEF Typed, Statuses
  <1>7. InLine(pending, status, schedTimers, attempts, jobs, scheduledFor)
    BY DEF OInv, LineInv
  <1>8. \A k \in Jobs : Waits(k, attempts, jobs, scheduledFor) =>
          reset[k] = status[k] /\ k \notin Elements(r)
    BY <1>4, <1>7 DEF InLine, Interrupted
  <1> HIDE DEF reset, missing
  <1>9. InLine(pending \o r, reset, schedTimers, attempts, jobs, scheduledFor)
    BY <1>4, <1>5, <1>7, <1>8, RestoreKeepsLine DEF Typed
  <1> QED  BY <1>1, <1>2, <1>6, <1>9, CallKeepsOrder

LEMMA ResumeKeepsOrder ==
    ASSUME OInv, Resume
    PROVE  OStep
  <1>1. /\ ProcessNext(isProcessing, active, pending, status, schedTimers)
        /\ jobs' = jobs /\ scheduledFor' = scheduledFor
    BY DEF Resume, book
  <1>2. Typed(isProcessing, active, pending, status, schedTimers)
    BY Unfolded DEF OInv, BInv
  <1>3. InLine(pending, status, schedTimers, attempts, jobs, scheduledFor)
    BY DEF OInv, LineInv
  <1> QED  BY <1>1, <1>2, <1>3, CallKeepsOrder

\* Nothing in the line changes.
LEMMA NoCallKeepsOrder ==
    ASSUME OInv, attempts' = attempts, active' = active,
           InLine(pending', status', schedTimers', attempts, jobs', scheduledFor')
    PROVE  OStep
  <1>1. LineInv'
    BY DEF OInv, LineInv
  <1>2. StepInOrder
    BY DEF StepInOrder, Fresh
  <1> QED  BY <1>1, <1>2 DEF OStep

LEMMA TimersKeepOrder ==
    ASSUME OInv, NEW j \in Jobs, SchedTimerFires(j) \/ RetryTimerFires(j)
    PROVE  OStep
  <1>1. jobs' = jobs /\ scheduledFor' = scheduledFor
    BY DEF SchedTimerFires, RetryTimerFires, book
  <1>2. Typed(isProcessing, active, pending, status, schedTimers)
    BY Unfolded DEF OInv, BInv
  <1>3. InLine(pending, status, schedTimers, attempts, jobs, scheduledFor)
    BY DEF OInv, LineInv
  <1>4. pending \in Seq(Jobs) /\ Append(pending, j) \in Seq(Jobs) /\ schedTimers \in [Jobs -> Nat]
    BY <1>2, ElementsOfAppend DEF Typed
  <1>5. ASSUME NEW tm \in [Jobs -> Nat],
               \A k \in Jobs : tm[k] <= schedTimers[k],
               ProcessNext(isProcessing, active, Append(pending, j), status, tm)
        PROVE  OStep
    <2>1. \A k \in Jobs : scheduledFor[k] = "none" => tm[k] = 0
      <3> SUFFICES ASSUME NEW k \in Jobs, scheduledFor[k] = "none"  PROVE tm[k] = 0
        OBVIOUS
      <3>1. schedTimers[k] = 0 /\ tm[k] \in Nat /\ tm[k] <= schedTimers[k]
        BY <1>3, <1>5 DEF InLine
      <3> QED  BY <3>1
    <2>2. InLine(Append(pending, j), status, tm, attempts, jobs, scheduledFor)
      BY <1>3, <1>4, <2>1, PushKeepsLine
    <2>3. Typed(isProcessing, active, Append(pending, j), status, tm)
      BY <1>2, <1>4, <1>5 DEF Typed
    <2> QED  BY <1>1, <1>5, <2>2, <2>3, CallKeepsOrder
  <1>6. CASE SchedTimerFires(j)
    <2> DEFINE tm == [schedTimers EXCEPT ![j] = @ - 1]
    <2>1. /\ schedTimers[j] > 0
          /\ ProcessNext(isProcessing, active, Append(pending, j), status, tm)
      BY <1>6 DEF SchedTimerFires, Enqueue
    <2>2. tm \in [Jobs -> Nat] /\ \A k \in Jobs : tm[k] <= schedTimers[k]
      BY <1>4, <2>1
    <2> HIDE DEF tm
    <2> QED  BY <1>5, <2>1, <2>2
  <1>7. CASE RetryTimerFires(j)
    <2>1. CASE ProcessNext(isProcessing, active, Append(pending, j), status, schedTimers)
      <3>1. \A k \in Jobs : schedTimers[k] <= schedTimers[k]
        BY <1>4
      <3> QED  BY <1>4, <1>5, <2>1, <3>1
    <2>2. CASE UNCHANGED work
      BY <1>1, <1>3, <2>2, NoCallKeepsOrder DEF work
    <2> QED  BY <1>7, <2>1, <2>2 DEF RetryTimerFires, Enqueue
  <1> QED  BY <1>6, <1>7

LEMMA AnswersKeepOrder ==
    ASSUME OInv, NEW j \in Jobs, SendSucceeds(j) \/ SendFails(j)
    PROVE  OStep
  <1>1. PICK word \in {"completed", "retrying", "failed"} :
               ProcessNext(FALSE, active \ {j}, pending, [status EXCEPT ![j] = word], schedTimers)
    BY DEF SendSucceeds, SendFails, Finally
  <1> DEFINE st  == [status EXCEPT ![j] = word]
  <1>2. j \in active /\ jobs' = jobs /\ scheduledFor' = scheduledFor
    BY DEF SendSucceeds, SendFails, book
  <1>3. Typed(isProcessing, active, pending, status, schedTimers)
    BY Unfolded DEF OInv, BInv
  <1>4. Typed(FALSE, active \ {j}, pending, st, schedTimers)
    BY <1>3 DEF Typed, Statuses
  <1>5. InLine(pending, status, schedTimers, attempts, jobs, scheduledFor) /\ attempts[j] # 0
    BY <1>2 DEF OInv, LineInv
  <1>6. \A k \in Jobs : k # j => st[k] = status[k]
    BY <1>3 DEF Typed
  <1> HIDE DEF st
  <1>7. InLine(pending, st, schedTimers, attempts, jobs, scheduledFor)
    BY <1>5, <1>6 DEF InLine, Waits
  <1> QED  BY <1>1, <1>2, <1>4, <1>7, CallKeepsOrder DEF st

\* Every job that waits is 'pending', so clear() leaves none of them in the map.
LEMMA RemovalKeepsOrder ==
    ASSUME OInv, Clear \/ Destroy \/ DestroyResolves
    PROVE  OStep
  <1>1. /\ attempts' = attempts /\ active' = active /\ status' = status
        /\ schedTimers' = schedTimers /\ scheduledFor' = scheduledFor
    BY DEF Clear, Destroy, DestroyResolves
  <1>2. InLine(pending, status, schedTimers, attempts, jobs, scheduledFor)
    BY DEF OInv, LineInv
  <1>3. CASE pending' = <<>> /\ jobs' \subseteq Kept
    <2>1. \A k \in Jobs : ~Waits(k, attempts, jobs', scheduledFor)
      BY <1>2, <1>3 DEF InLine, Waits, Kept
    <2>2. DOMAIN <<>> = {}
      OBVIOUS
    <2>3. InLine(<<>>, status, schedTimers, attempts, jobs', scheduledFor)
      BY <1>2, <2>1, <2>2 DEF InLine
    <2> QED  BY <1>1, <1>3, <2>3, NoCallKeepsOrder
  <1>4. CASE pending' = pending /\ jobs' = jobs
    BY <1>1, <1>2, <1>4, NoCallKeepsOrder
  <1> QED  BY <1>3, <1>4 DEF Clear, Destroy, DestroyResolves, Wipe

LEMMA QuietStepsKeepOrder ==
    ASSUME OInv,
           \/ Stop \/ StopResolves \/ Pause \/ UNCHANGED vars
           \/ \E j \in Jobs : TimePasses(j)
    PROVE  OStep
  <1>1. InLine(pending, status, schedTimers, attempts, jobs, scheduledFor)
    BY DEF OInv, LineInv
  <1>2. UNCHANGED <<work, jobs>>
    BY DEF Stop, StopResolves, Pause, TimePasses, vars, book
  <1>3. CASE scheduledFor' = scheduledFor
    BY <1>1, <1>2, <1>3, NoCallKeepsOrder DEF work
  <1>4. ASSUME NEW j \in Jobs, TimePasses(j)  PROVE OStep
    <2>1. scheduledFor[j] = "future" /\ scheduledFor' = [scheduledFor EXCEPT ![j] = "past"]
      BY <1>4 DEF TimePasses
    <2>2. scheduledFor \in [Jobs -> {"none", "future", "past"}]
      BY DEF OInv, BInv, IInv, TypeOK
    <2>3. \A k \in Jobs : scheduledFor'[k] = "none" <=> scheduledFor[k] = "none"
      BY <2>1, <2>2
    <2>4. \A k : k \in jobs => k \in Jobs
      BY DEF OInv, BInv, IInv, TypeOK
    <2>5. \A k : Waits(k, attempts, jobs, scheduledFor') <=> Waits(k, attempts, jobs, scheduledFor)
      BY <2>3, <2>4 DEF Waits
    <2>6. InLine(pending, status, schedTimers, attempts, jobs, scheduledFor')
      BY <1>1, <2>3, <2>5 DEF InLine
    <2> QED  BY <1>2, <2>6, NoCallKeepsOrder DEF work
  <1> QED  BY <1>3, <1>4 DEF Stop, StopResolves, Pause, vars, book

-----------------------------------------------------------------------------
LEMMA NextKeepsOInv == OInv /\ [Next]_vars => OInv' /\ StepInOrder
  <1> SUFFICES ASSUME OInv, [Next]_vars PROVE OInv' /\ StepInOrder
    OBVIOUS
  <1>0. BInv' /\ RInv'
    BY NextKeepsBInv, NextIsNext DEF OInv
  <1>1. CASE Progress
    <2>1. ASSUME StopResolves \/ DestroyResolves  PROVE OStep
      BY <2>1, QuietStepsKeepOrder, RemovalKeepsOrder
    <2>2. ASSUME NEW j \in Jobs,
                 \/ TimePasses(j) \/ SchedTimerFires(j) \/ RetryTimerFires(j)
                 \/ SendSucceeds(j) \/ SendFails(j)
          PROVE  OStep
      BY <2>2, QuietStepsKeepOrder, TimersKeepOrder, AnswersKeepOrder
    <2> QED  BY <1>0, <1>1, <2>1, <2>2 DEF Progress, OStep, OInv
  <1>2. CASE AddStartStop
    <2>1. OStep
      BY <1>2, AddKeepsOrder, StartKeepsOrder, QuietStepsKeepOrder DEF AddStartStop
    <2> QED  BY <1>0, <2>1 DEF OStep, OInv
  <1>3. CASE Pause \/ UNCHANGED vars \/ Resume \/ Clear \/ Destroy
    <2>1. OStep
      BY <1>3, QuietStepsKeepOrder, ResumeKeepsOrder, RemovalKeepsOrder
    <2> QED  BY <1>0, <2>1 DEF OStep, OInv
  <1> QED  BY <1>1, <1>2, <1>3 DEF Next

LEMMA InitEstablishesOInv == Init => OInv
  <1> SUFFICES ASSUME Init PROVE OInv
    OBVIOUS
  <1>1. BInv /\ RInv
    BY InitEstablishesBInv, InitIsInit
  <1>2. DOMAIN <<>> = {}
    OBVIOUS
  <1>3. LineInv
    BY <1>2 DEF Init, LineInv, InLine, Waits
  <1> QED  BY <1>1, <1>3 DEF OInv

\* First attempts of jobs without a date begin in the order of the add() calls, for
\* any number of jobs, whatever is retried, restored, scheduled, paused or cleared.
THEOREM FirstInFirstOut == Spec => FirstAttemptsInOrder
  <1>1. OInv /\ [Next]_vars => OInv'
    BY NextKeepsOInv
  <1>2. OInv /\ [Next]_vars =>
          [\A j \in Jobs : attempts'[j] > 0 /\ Fresh(j) =>
              \A k \in 1..(j - 1) : Fresh(k) => attempts'[k] > 0]_vars
    BY NextKeepsOInv DEF StepInOrder
  <1> QED  BY <1>1, <1>2, InitEstablishesOInv, PTL DEF Spec, FirstAttemptsInOrder
=============================================================================
