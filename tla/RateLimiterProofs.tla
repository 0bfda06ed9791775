------------------------- MODULE RateLimiterProofs -------------------------
(***************************************************************************)
(* Theorems about RateLimiter, for every limit and every burst capacity,   *)
(* and however many callers there are: each of them keeps the configured   *)
(* rate by itself, and a bucket that one sender uses keeps it altogether.  *)
(***************************************************************************)
EXTENDS RateLimiter, TLAPS

(***************************************************************************)
(* What a caller has to its credit never falls behind what the bucket      *)
(* holds, for the others only take away from that; and by the time a       *)
(* sleeper's timer is due, it has grown to what the sleeper's send costs.  *)
(***************************************************************************)
Level == AtMost(tokens + unrefilled, Full)

OwnCoversTokens == \A c \in Callers : own[c] >= Level

OwnCoversSleepers == \A c \in asleep : own[c] + need[c] >= Cost

IInv ==
    /\ TypeOK
    /\ EachKeepsRate
    /\ OwnCoversTokens
    /\ OwnCoversSleepers

(***************************************************************************)
(* What the queue's own limiter is guaranteed by its sequential processing *)
(* (OneAtATime of MemoryQueue and of SQLiteQueue).  The two ledgers of     *)
(* history are then the same.                                              *)
(***************************************************************************)
OneSender == \A c, d \in Callers : c = d

OneLedger ==
    /\ \A c \in Callers : credit = own[c]
    /\ RateRespected

-----------------------------------------------------------------------------
LEMMA Amounts ==
    /\ TokenUnits \in Nat /\ PerMs \in Nat /\ Full \in Nat /\ Burst \in Nat
    /\ 1 <= PerMs /\ PerMs <= TokenUnits
    /\ Cost \in 1..TokenUnits
    /\ TokenUnits <= Burst /\ Full <= Burst
  BY ConstantsAssumption DEF Cost, Burst, AtLeast

LEMMA InitEstablishesIInv == Init => IInv
<1> SUFFICES ASSUME Init
             PROVE  IInv
  OBVIOUS
<1> USE Amounts DEF Init
<1>1. /\ credit \in -TokenUnits..Burst /\ tokens \in 0..Full /\ unrefilled \in 0..Full
      /\ 0 \in 0..TokenUnits /\ Burst \in -TokenUnits..Burst
  OBVIOUS
<1>2. need \in [Callers -> 0..TokenUnits] /\ own \in [Callers -> -TokenUnits..Burst]
  BY <1>1
<1>3. TypeOK
  BY <1>1, <1>2 DEF TypeOK
<1>4. EachKeepsRate /\ OwnCoversTokens
  BY DEF EachKeepsRate, OwnCoversTokens, Level, AtMost
<1>5. OwnCoversSleepers
  BY DEF OwnCoversSleepers
<1> QED
  BY <1>3, <1>4, <1>5 DEF IInv

\* A refill neither creates nor destroys what the bucket holds.
LEMMA RefillKeepsLevel ==
    TypeOK => Refilled \in 0..Full /\ Refilled = Level
  BY Amounts DEF TypeOK, Refilled, Level, AtMost

\* A send costs what it is charged, if the ledger covers it.
LEMMA ChargedExactly ==
    ASSUME NEW level \in -TokenUnits..Burst, level >= Cost
    PROVE  Charged(level) = level - Cost
  BY Amounts DEF Charged, AtLeast

LEMMA ChargedInRange ==
    ASSUME NEW level \in -TokenUnits..Burst
    PROVE  Charged(level) \in -TokenUnits..Burst
  BY Amounts DEF Charged, AtLeast

LEMMA ReplenishedInRange ==
    ASSUME NEW level \in -TokenUnits..Burst
    PROVE  Replenished(level) \in -TokenUnits..Burst
  BY Amounts DEF Replenished, AtMost

\* A caller takes a token its own ledger covers, or goes to sleep for the time the
\* ledger is short.
LEMMA AcquireKeepsIInv ==
    ASSUME IInv, NEW c \in Callers, Acquire(c)
    PROVE  IInv'
<1> USE Amounts DEF IInv, TypeOK
<1>1. Refilled \in 0..Full /\ \A d \in Callers : own[d] >= Refilled
  BY RefillKeepsLevel DEF OwnCoversTokens
<1>2. unrefilled' = 0 /\ UNCHANGED isDestroyed
  BY DEF Acquire
<1>3. CASE TakeIfWhole
  <2>1. /\ tokens' = Refilled - TokenUnits
        /\ credit' = Charged(credit)
        /\ own' = [own EXCEPT ![c] = Charged(own[c])]
        /\ UNCHANGED <<asleep, need>>
    BY <1>3 DEF Acquire, Grant
  <2>2. c \notin asleep /\ Charged(own[c]) = own[c] - Cost
    <3>1. own[c] >= Cost
      BY <1>1, <1>3 DEF TakeIfWhole
    <3> QED
      BY <3>1, ChargedExactly DEF Acquire
  <2>3. tokens' \in 0..Full /\ Level' = Refilled - TokenUnits
    BY <1>1, <1>2, <1>3, <2>1 DEF TakeIfWhole, Level, AtMost
  <2>4. TypeOK'
    <3>1. credit' \in -TokenUnits..Burst /\ own' \in [Callers -> -TokenUnits..Burst]
      BY <2>1, ChargedInRange
    <3> QED
      BY <1>2, <2>1, <2>3, <3>1
  <2>5. \A d \in Callers : own'[d] >= 0 /\ own'[d] >= Level'
    BY <1>1, <1>3, <2>1, <2>2, <2>3 DEF TakeIfWhole, EachKeepsRate
  <2>6. OwnCoversSleepers'
    BY <2>1, <2>2 DEF OwnCoversSleepers
  <2> QED
    BY <2>4, <2>5, <2>6 DEF EachKeepsRate, OwnCoversTokens
<1>4. CASE ~TakeIfWhole
  <2>1. /\ tokens' = Refilled
        /\ asleep' = asleep \cup {c}
        /\ need' = [need EXCEPT ![c] = Sleep(TokenUnits - Refilled)]
        /\ UNCHANGED <<credit, own>>
    BY <1>4 DEF Acquire
  <2>2. /\ Sleep(TokenUnits - Refilled) \in 0..TokenUnits
        /\ Sleep(TokenUnits - Refilled) >= Cost - Refilled
    BY <1>1, <1>4 DEF TakeIfWhole, Sleep, AtLeast, Cost
  <2>3. TypeOK'
    BY <1>1, <1>2, <2>1, <2>2
  <2>4. EachKeepsRate' /\ OwnCoversTokens'
    BY <1>1, <1>2, <2>1 DEF EachKeepsRate, OwnCoversTokens, Level, AtMost
  <2>5. OwnCoversSleepers'
    <3> SUFFICES ASSUME NEW d \in asleep'
                 PROVE  own'[d] + need'[d] >= Cost
      BY <1>2 DEF OwnCoversSleepers
    <3>1. CASE d = c
      BY <1>1, <2>1, <2>2, <3>1
    <3>2. CASE d # c
      BY <2>1, <3>2 DEF OwnCoversSleepers
    <3> QED
      BY <3>1, <3>2
  <2> QED
    BY <2>3, <2>4, <2>5
<1> QED
  BY <1>3, <1>4

\* The ledger of a sleeper that wakes has caught up, whoever else took the token.
LEMMA WakeKeepsIInv ==
    ASSUME IInv, NEW c \in Callers, Wake(c)
    PROVE  IInv'
<1> USE Amounts DEF IInv, TypeOK
<1>1. own[c] >= Cost
  BY DEF Wake, IsDue, OwnCoversSleepers
<1>2. /\ tokens' = 0 /\ unrefilled' = 0
      /\ credit' = Charged(credit)
      /\ own' = [own EXCEPT ![c] = Charged(own[c])]
      /\ UNCHANGED <<isDestroyed, need>>
      /\ asleep' = asleep \ {c}
  BY DEF Wake, SpentTokens, Grant
<1>3. Charged(own[c]) = own[c] - Cost
  BY <1>1, ChargedExactly
<1>4. TypeOK'
  <2>1. credit' \in -TokenUnits..Burst /\ own' \in [Callers -> -TokenUnits..Burst]
    BY <1>2, ChargedInRange
  <2> QED
    BY <1>2, <2>1
<1>5. \A d \in Callers : own'[d] >= 0
  BY <1>1, <1>2, <1>3 DEF EachKeepsRate
<1>6. Level' = 0
  BY <1>2 DEF Level, AtMost
<1>7. OwnCoversSleepers'
  BY <1>2 DEF OwnCoversSleepers
<1> QED
  BY <1>4, <1>5, <1>6, <1>7 DEF EachKeepsRate, OwnCoversTokens

LEMMA GetStatusKeepsIInv ==
    ASSUME IInv, GetStatus
    PROVE  IInv'
<1> USE Amounts DEF IInv, TypeOK, GetStatus
<1>1. Refilled \in 0..Full /\ Refilled = Level
  BY RefillKeepsLevel
<1>2. Level' = Level
  BY <1>1 DEF Level, AtMost
<1>3. TypeOK' /\ EachKeepsRate' /\ OwnCoversTokens'
  BY <1>1, <1>2 DEF EachKeepsRate, OwnCoversTokens
<1>4. OwnCoversSleepers'
  BY DEF OwnCoversSleepers
<1> QED
  BY <1>3, <1>4

LEMMA DestroyKeepsIInv ==
    ASSUME IInv, Destroy
    PROVE  IInv'
<1> USE Amounts DEF IInv, TypeOK, Destroy
<1>1. Level' <= Level
  BY DEF Level, AtMost
<1>2. TypeOK' /\ EachKeepsRate'
  BY DEF EachKeepsRate
<1>3. OwnCoversTokens'
  <2>1. Level \in Int /\ Level' \in Int
    BY DEF Level, AtMost
  <2> QED
    BY <1>1, <2>1 DEF OwnCoversTokens
<1>4. OwnCoversSleepers'
  BY DEF OwnCoversSleepers
<1> QED
  BY <1>2, <1>3, <1>4

\* A millisecond adds to every ledger at least what it adds to the bucket and what it
\* takes off a sleeper's wait.
LEMMA TickKeepsIInv ==
    ASSUME IInv, Tick
    PROVE  IInv'
<1> USE Amounts DEF IInv, TypeOK
<1>1. /\ unrefilled' = AtMost(unrefilled + PerMs, Full)
      /\ credit' = Replenished(credit)
      /\ own' = [c \in Callers |-> Replenished(own[c])]
      /\ need' = [c \in Callers |-> IF c \in asleep THEN AtLeast(need[c] - PerMs, 0) ELSE 0]
      /\ UNCHANGED <<tokens, isDestroyed, asleep>>
  BY DEF Tick
<1>2. TypeOK'
  <2>1. need' \in [Callers -> 0..TokenUnits]
    BY <1>1 DEF AtLeast
  <2>2. credit' \in -TokenUnits..Burst /\ own' \in [Callers -> -TokenUnits..Burst]
    BY <1>1, ReplenishedInRange
  <2>3. unrefilled' \in 0..Full
    BY <1>1 DEF AtMost
  <2> QED
    BY <1>1, <2>1, <2>2, <2>3
<1>3. EachKeepsRate' /\ OwnCoversTokens'
  BY <1>1 DEF EachKeepsRate, OwnCoversTokens, Level, Replenished, AtMost
<1>4. OwnCoversSleepers'
  <2> SUFFICES ASSUME NEW c \in asleep
               PROVE  own'[c] + need'[c] >= Cost
    BY <1>1 DEF OwnCoversSleepers
  <2>1. c \in Callers /\ need[c] \in 0..TokenUnits /\ own[c] + need[c] >= Cost
    BY DEF OwnCoversSleepers
  <2>2. need'[c] = AtLeast(need[c] - PerMs, 0) /\ own'[c] = AtMost(own[c] + PerMs, Burst)
    BY <1>1, <2>1 DEF Replenished
  <2> QED
    BY <2>1, <2>2 DEF AtLeast, AtMost
<1> QED
  BY <1>2, <1>3, <1>4

LEMMA NextKeepsIInv ==
    ASSUME IInv, [Next]_vars
    PROVE  IInv'
<1>1. CASE \E c \in Callers : Acquire(c)
  BY <1>1, AcquireKeepsIInv
<1>2. CASE \E c \in Callers : Wake(c)
  BY <1>2, WakeKeepsIInv
<1>3. CASE GetStatus
  BY <1>3, GetStatusKeepsIInv
<1>4. CASE Destroy
  BY <1>4, DestroyKeepsIInv
<1>5. CASE Tick
  BY <1>5, TickKeepsIInv
<1>6. CASE UNCHANGED vars
  BY <1>6 DEF vars, IInv, TypeOK, EachKeepsRate, OwnCoversTokens, OwnCoversSleepers, Level
<1> QED
  BY <1>1, <1>2, <1>3, <1>4, <1>5, <1>6 DEF Next

\* With one caller, every send is charged to its ledger.
LEMMA NextKeepsOneLedger ==
    ASSUME OneSender, IInv, IInv', OneLedger, [Next]_vars
    PROVE  OneLedger'
<1> USE DEF OneLedger, RateRespected
<1>1. CASE \E c \in Callers : Grant(c)
  <2>1. PICK c \in Callers : Grant(c)
    BY <1>1
  <2>2. own'[c] >= 0 /\ own'[c] = Charged(own[c]) /\ credit' = own'[c]
    BY <2>1 DEF Grant, IInv, TypeOK, EachKeepsRate
  <2>3. \A d \in Callers : d = c
    BY DEF OneSender
  <2> QED
    BY <2>2, <2>3
<1>2. CASE UNCHANGED <<credit, own>>
  BY <1>2
<1>3. CASE Tick
  <2>1. credit' = Replenished(credit) /\ \A c \in Callers : own'[c] = Replenished(own[c])
    BY <1>3 DEF Tick
  <2>2. credit' >= 0
    BY <2>1, Amounts DEF Replenished, AtMost, IInv, TypeOK
  <2> QED
    BY <2>1, <2>2
<1> QED
  BY <1>1, <1>2, <1>3 DEF Next, Acquire, Wake, GetStatus, Destroy, vars

-----------------------------------------------------------------------------
\* The inductive invariant holds in every reachable state of a bucket, whoever uses it.
THEOREM Invariance == Spec => []IInv
<1>1. IInv /\ [Next]_vars => IInv'
  BY NextKeepsIInv
<1> QED
  BY InitEstablishesIInv, <1>1, PTL DEF Spec

\* The variables of the bucket keep their types: it never holds more than its
\* capacity, or less than nothing.
THEOREM TypeCorrect == Spec => []TypeOK
<1>1. IInv => TypeOK
  BY DEF IInv
<1> QED
  BY Invariance, <1>1, PTL

\* However many callers sleep in acquire() for the same token, each keeps the
\* configured rate, for every limit, burst and order of refills, late timers and
\* destroy(): the worst k of them can do is k times the limit.
THEOREM EachRateKept == Spec => []EachKeepsRate
<1>1. IInv => EachKeepsRate
  BY DEF IInv
<1> QED
  BY Invariance, <1>1, PTL

\* A bucket whose only sender awaits acquire() before every send keeps the
\* configured rate.
THEOREM RateKept == OneSender => (Spec => []RateRespected)
<1> SUFFICES ASSUME OneSender
             PROVE  Spec => []RateRespected
  OBVIOUS
<1>1. Init => OneLedger
  BY Amounts DEF Init, OneLedger, RateRespected
<1>2. IInv /\ IInv' /\ OneLedger /\ [Next]_vars => OneLedger'
  BY NextKeepsOneLedger
<1>3. OneLedger => RateRespected
  BY DEF OneLedger
<1> QED
  BY Invariance, <1>1, <1>2, <1>3, PTL DEF Spec
=============================================================================
