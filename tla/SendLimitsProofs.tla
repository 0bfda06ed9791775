-------------------------- MODULE SendLimitsProofs --------------------------
(***************************************************************************)
(* Theorems about SendLimits, for both limits, both bursts and any number  *)
(* of direct sends.  The queue's bucket is a token bucket of one sender,   *)
(* and what RateLimiterProofs shows of every step of a bucket holds of the *)
(* global one too, between the times it is reset and configured again.     *)
(***************************************************************************)
EXTENDS SendLimits, RateLimiterProofs

GP == INSTANCE RateLimiterProofs WITH
    Callers <- Senders, PerMs <- GPerMs, Full <- GFull, tokens <- gTokens,
    unrefilled <- gUnrefilled, isDestroyed <- gDestroyed, asleep <- gAsleep,
    need <- gNeed, credit <- gCredit, own <- gOwn

(***************************************************************************)
(* The inductive invariant.  The ledger of messages at the queue's limiter *)
(* is the one of tokens, which it is sent with.  At the global limiter a   *)
(* message may be charged later than its token, and the one ledger is then *)
(* ahead of the other by what is charged once.                             *)
(***************************************************************************)
SentBehind == IF hold = "token" THEN 0 ELSE G!Cost

Between ==
    /\ configured \in BOOLEAN
    /\ orphans \in SUBSET gAsleep
    /\ hold \in {"none", "token", "free"}
    /\ sentGlobal \in -TokenUnits..G!Burst
    /\ sentGlobal >= gOwn[queue] - SentBehind
    /\ sentLocal = own[queue]

SInv == IInv /\ GP!IInv /\ Between

-----------------------------------------------------------------------------
(***************************************************************************)
(* The two instances of the global bucket are one.                         *)
(***************************************************************************)
LEMMA GlobalAmounts ==
    /\ TokenUnits \in Nat /\ GPerMs \in Nat /\ GFull \in Nat
    /\ G!Burst \in Nat /\ G!Burst = GP!Burst
    /\ G!Cost \in 1..TokenUnits
    /\ TokenUnits <= G!Burst /\ GFull <= G!Burst
  BY ConstantsAssumption, GlobalAssumption
     DEF G!Burst, GP!Burst, G!Cost, G!AtLeast, GP!AtLeast

\* GP is G, with the theorems about it.
LEMMA SameTypes == G!TypeOK <=> GP!TypeOK
  BY DEF G!TypeOK, GP!TypeOK, G!Burst, GP!Burst, G!AtLeast, GP!AtLeast

LEMMA SameInit == G!Init <=> GP!Init
  BY DEF G!Init, GP!Init, G!Burst, GP!Burst, G!AtLeast, GP!AtLeast

LEMMA SameAcquire == ASSUME NEW c  PROVE G!Acquire(c) <=> GP!Acquire(c)
  BY DEF G!Acquire, GP!Acquire, G!TakeIfWhole, GP!TakeIfWhole, G!Refilled, GP!Refilled,
         G!Grant, GP!Grant, G!Sleep, GP!Sleep, G!AtMost, GP!AtMost, G!AtLeast, GP!AtLeast,
         G!Charged, GP!Charged, G!Cost, GP!Cost

LEMMA SameWake == ASSUME NEW c  PROVE G!Wake(c) <=> GP!Wake(c)
  BY DEF G!Wake, GP!Wake, G!IsDue, GP!IsDue, G!SpentTokens, GP!SpentTokens,
         G!Grant, GP!Grant, G!AtLeast, GP!AtLeast, G!Charged, GP!Charged, G!Cost, GP!Cost

LEMMA SameStatus == G!GetStatus <=> GP!GetStatus
  BY DEF G!GetStatus, GP!GetStatus, G!Refilled, GP!Refilled, G!AtMost, GP!AtMost

LEMMA SameDestroy == G!Destroy <=> GP!Destroy
  BY DEF G!Destroy, GP!Destroy

LEMMA SameTick == G!Tick <=> GP!Tick
  BY DEF G!Tick, GP!Tick, G!AtMost, GP!AtMost, G!AtLeast, GP!AtLeast,
         G!Replenished, GP!Replenished, G!Burst, GP!Burst

\* Whatever step of a bucket the global one takes, it stays sound.
LEMMA GlobalStepKeepsIInv ==
    ASSUME GP!IInv,
           \/ \E c \in Senders : G!Acquire(c) \/ G!Wake(c)
           \/ G!GetStatus \/ G!Destroy \/ G!Tick \/ UNCHANGED globalVars
    PROVE  GP!IInv'
  <1>1. UNCHANGED globalVars => UNCHANGED GP!vars
    BY DEF globalVars, GP!vars
  <1>2. [GP!Next]_(GP!vars)
    BY <1>1, SameAcquire, SameWake, SameStatus, SameDestroy, SameTick DEF GP!Next
  <1> QED
    BY <1>2, GP!NextKeepsIInv, ConstantsAssumption, GlobalAssumption

\* What the invariant of the global bucket is used for.
LEMMA GlobalFacts ==
    ASSUME GP!IInv
    PROVE  /\ gOwn \in [Senders -> -TokenUnits..G!Burst]
           /\ gOwn[queue] \in 0..G!Burst
           /\ gNeed \in [Senders -> 0..TokenUnits]
           /\ gAsleep \in SUBSET Senders
  <1>1. queue \in Senders
    BY DEF Senders
  <1> QED
    BY <1>1, GlobalAmounts DEF GP!IInv, GP!TypeOK, GP!EachKeepsRate

\* A limiter that is configured starts afresh, but for those who sleep in an old one.
LEMMA ConfigureKeepsIInv ==
    ASSUME GP!IInv, Configure
    PROVE  GP!IInv'
  <1>1. /\ gTokens' = GFull /\ gUnrefilled' = 0 /\ gDestroyed' = FALSE
        /\ gCredit' = G!Burst
        /\ gOwn' = [c \in Senders |-> G!Burst]
        /\ UNCHANGED <<gAsleep, gNeed>>
    BY DEF Configure
  <1>2. GP!TypeOK'
    <2>1. /\ GFull \in 0..GFull /\ 0 \in 0..GFull
          /\ G!Burst \in -TokenUnits..G!Burst
      BY GlobalAmounts
    <2>2. gOwn' \in [Senders -> -TokenUnits..G!Burst]
      BY <1>1, <2>1
    <2> QED
      BY <1>1, <2>1, <2>2, GlobalAmounts DEF GP!IInv, GP!TypeOK
  <1>3. GP!EachKeepsRate'
    BY <1>1, GlobalAmounts DEF GP!EachKeepsRate
  <1>4. GP!OwnCoversTokens'
    BY <1>1, GlobalAmounts DEF GP!OwnCoversTokens, GP!Level, GP!AtMost
  <1>5. GP!OwnCoversSleepers'
    <2> SUFFICES ASSUME NEW c \in gAsleep
                 PROVE  gOwn'[c] + gNeed[c] >= GP!Cost
      BY <1>1 DEF GP!OwnCoversSleepers, GP!Cost
    <2>1. gNeed[c] \in 0..TokenUnits /\ gOwn'[c] = G!Burst
      BY <1>1, GlobalFacts
    <2>2. GP!Cost = G!Cost
      BY DEF GP!Cost, G!Cost
    <2> QED
      BY <2>1, <2>2, GlobalAmounts
  <1> QED
    BY <1>2, <1>3, <1>4, <1>5 DEF GP!IInv

\* A sleeper of a bucket that was reset leaves no trace in the new one.
LEMMA WokenKeepsIInv ==
    ASSUME GP!IInv, NEW c \in Senders, Woken(c)
    PROVE  GP!IInv'
  <1>1. CASE G!Wake(c)
    BY <1>1, GlobalStepKeepsIInv
  <1>2. CASE gAsleep' = gAsleep \ {c}
             /\ UNCHANGED <<gTokens, gUnrefilled, gDestroyed, gNeed, gCredit, gOwn>>
    BY <1>2 DEF GP!IInv, GP!TypeOK, GP!EachKeepsRate, GP!OwnCoversTokens, GP!Level,
                GP!OwnCoversSleepers
  <1> QED
    BY <1>1, <1>2 DEF Woken

-----------------------------------------------------------------------------
(***************************************************************************)
(* The queue between its two limiters.                                     *)
(***************************************************************************)
\* What changes no ledger of the queue may only take the token from its hands.
LEMMA QuietKeepsBetween ==
    ASSUME SInv, UNCHANGED <<sentGlobal, sentLocal>>,
           own'[queue] = own[queue], gOwn'[queue] = gOwn[queue],
           hold' \in {hold, "none", "free"},
           configured' \in BOOLEAN, orphans' \in SUBSET gAsleep'
    PROVE  Between'
  <1>1. gOwn[queue] \in 0..G!Burst /\ sentGlobal \in -TokenUnits..G!Burst
    BY GlobalFacts DEF SInv, Between
  <1>2. sentGlobal >= gOwn[queue] - SentBehind' /\ hold' \in {"none", "token", "free"}
    BY <1>1, GlobalAmounts DEF SInv, Between, SentBehind
  <1> QED
    BY <1>1, <1>2 DEF SInv, Between

LEMMA ChargedLater ==
    ASSUME NEW level \in -TokenUnits..G!Burst
    PROVE  /\ G!Charged(level) \in -TokenUnits..G!Burst
           /\ G!Charged(level) >= level - G!Cost
  BY GlobalAmounts DEF G!Charged, G!AtLeast

\* A token of the global limiter is charged to the queue before the message is.
LEMMA GrantKeepsBetween ==
    ASSUME SInv, UNCHANGED <<vars, configured, sentGlobal, sentLocal>>,
           GP!IInv', G!Grant(queue), orphans' \in SUBSET gAsleep', hold' = "token"
    PROVE  Between'
  <1>1. queue \in Senders /\ gOwn[queue] \in 0..G!Burst /\ gOwn \in [Senders -> -TokenUnits..G!Burst]
    BY GlobalFacts DEF Senders, SInv
  <1>2. gOwn'[queue] = G!Charged(gOwn[queue]) /\ gOwn'[queue] >= 0
    BY <1>1 DEF G!Grant, GP!IInv, GP!EachKeepsRate
  <1>3. gOwn'[queue] = gOwn[queue] - G!Cost
    BY <1>1, <1>2, GlobalAmounts DEF G!Charged, G!AtLeast
  <1>4. sentGlobal >= gOwn[queue] - G!Cost /\ sentGlobal \in -TokenUnits..G!Burst
    BY <1>1, GlobalAmounts DEF SInv, Between, SentBehind
  <1>5. sentGlobal' >= gOwn'[queue] - SentBehind'
    BY <1>1, <1>3, <1>4, GlobalAmounts DEF SentBehind
  <1> QED
    BY <1>4, <1>5 DEF SInv, Between, vars

\* A message that is sent is charged to both.
LEMMA SentKeepsBetween ==
    ASSUME SInv, Sent, own'[queue] = Charged(own[queue]),
           UNCHANGED <<globalVars, configured, orphans>>
    PROVE  Between'
  <1>1. gOwn[queue] \in 0..G!Burst /\ sentGlobal \in -TokenUnits..G!Burst
    BY GlobalFacts DEF SInv, Between
  <1>2. sentGlobal' >= gOwn[queue] - G!Cost /\ sentGlobal' \in -TokenUnits..G!Burst
    <2>1. CASE hold = "token"
      <3>1. sentGlobal' = G!Charged(sentGlobal) /\ sentGlobal >= gOwn[queue] - 0
        BY <2>1 DEF Sent, SInv, Between, SentBehind
      <3> QED
        BY <1>1, <3>1, ChargedLater, GlobalAmounts
    <2>2. CASE hold # "token"
      BY <2>2 DEF Sent, SInv, Between, SentBehind
    <2> QED
      BY <2>1, <2>2
  <1>3. hold' = "none" /\ sentLocal' = Charged(sentLocal) /\ sentLocal = own[queue]
    BY DEF Sent, SInv, Between
  <1> QED
    BY <1>2, <1>3 DEF SInv, Between, SentBehind, globalVars

LEMMA QueueIsCaller == Callers = {queue} /\ queue \in Senders /\ Direct \subseteq Senders
  BY SendersAssumption DEF Senders

LEMMA ConfigureKeepsBetween ==
    ASSUME SInv, Configure
    PROVE  Between'
  <1>1. /\ sentGlobal' = G!Burst /\ gOwn'[queue] = G!Burst
        /\ configured' = TRUE /\ UNCHANGED <<vars, gAsleep, orphans, hold, sentLocal>>
    BY QueueIsCaller DEF Configure
  <1>2. sentGlobal' \in -TokenUnits..G!Burst /\ sentGlobal' >= gOwn'[queue] - SentBehind'
    BY <1>1, GlobalAmounts DEF SentBehind
  <1> QED
    BY <1>1, <1>2 DEF SInv, Between, vars

LEMMA SingletonKeepsBetween ==
    ASSUME SInv, Reset \/ DestroyGlobal \/ GlobalStatus
    PROVE  Between'
  <1>1. UNCHANGED <<vars, gOwn, gAsleep, sentGlobal, sentLocal>>
    BY DEF Reset, DestroyGlobal, GlobalStatus, G!Destroy, G!GetStatus, queueVars
  <1>2. /\ configured' \in BOOLEAN /\ orphans' \in SUBSET gAsleep
        /\ hold' \in {hold, "none", "free"}
    BY DEF Reset, DestroyGlobal, GlobalStatus, SInv, Between, queueVars
  <1> QED
    BY <1>1, <1>2, QuietKeepsBetween DEF vars

\* Nobody who still sleeps in an old bucket is forgotten.
LEMMA WokenKeepsOrphans ==
    ASSUME SInv, NEW c \in Senders, Woken(c)
    PROVE  orphans' \in SUBSET gAsleep'
  BY DEF Woken, G!Wake, SInv, Between

LEMMA DirectSendsKeepBetween ==
    ASSUME SInv, NEW c \in Direct, DirectSend(c) \/ DirectWakes(c)
    PROVE  Between'
  <1>1. c # queue /\ c \in Senders /\ gOwn \in [Senders -> -TokenUnits..G!Burst]
    BY SendersAssumption, GlobalFacts DEF Senders, SInv
  <1>2. UNCHANGED <<vars, configured, hold, sentGlobal, sentLocal>>
    BY DEF DirectSend, DirectWakes, queueVars
  <1>3. gOwn'[queue] = gOwn[queue]
    <2>1. gOwn' = gOwn \/ G!Grant(c)
      BY DEF DirectSend, DirectWakes, Woken, G!Acquire, G!Wake
    <2> QED
      BY <1>1, <2>1, QueueIsCaller DEF G!Grant
  <1>4. orphans' \in SUBSET gAsleep'
    <2>1. CASE DirectSend(c)
      BY <2>1 DEF DirectSend, G!Acquire, SInv, Between
    <2>2. CASE DirectWakes(c)
      BY <1>1, <2>2, WokenKeepsOrphans DEF DirectWakes
    <2> QED
      BY <2>1, <2>2
  <1>5. configured' \in BOOLEAN
    BY <1>2 DEF SInv, Between
  <1> QED
    BY <1>2, <1>3, <1>4, <1>5, QuietKeepsBetween DEF vars

LEMMA WaitForGlobalKeepsBetween ==
    ASSUME SInv, GP!IInv', WaitForGlobal
    PROVE  Between'
  <1>1. UNCHANGED <<vars, configured, orphans, sentGlobal, sentLocal>> /\ configured \in BOOLEAN
    BY DEF WaitForGlobal, SInv, Between
  <1>2. CASE hold' = "free" /\ UNCHANGED globalVars
    <2>1. orphans' \in SUBSET gAsleep'
      BY <1>1, <1>2 DEF globalVars, SInv, Between
    <2> QED
      BY <1>1, <1>2, <2>1, QuietKeepsBetween DEF globalVars, vars
  <1>3. ASSUME G!Acquire(queue), hold' = IF queue \in gAsleep' THEN "none" ELSE "token"
        PROVE  Between'
    <2>1. queue \notin gAsleep
      BY <1>3 DEF G!Acquire
    <2>2. CASE G!Grant(queue) /\ gAsleep' = gAsleep
      <3>1. hold' = "token" /\ orphans' \in SUBSET gAsleep'
        BY <1>1, <1>3, <2>1, <2>2 DEF SInv, Between
      <3> QED
        BY <1>1, <2>2, <3>1, GrantKeepsBetween
    <2>3. CASE gAsleep' = gAsleep \cup {queue} /\ gOwn' = gOwn
      <3>1. hold' = "none" /\ orphans' \in SUBSET gAsleep'
        BY <1>1, <1>3, <2>3 DEF SInv, Between
      <3> QED
        BY <1>1, <2>3, <3>1, QuietKeepsBetween DEF vars
    <2> QED
      BY <1>3, <2>2, <2>3 DEF G!Acquire
  <1> QED
    BY <1>2, <1>3 DEF WaitForGlobal

LEMMA GlobalGrantedKeepsBetween ==
    ASSUME SInv, GP!IInv', GlobalGranted
    PROVE  Between'
  <1>1. /\ UNCHANGED <<vars, configured, sentGlobal, sentLocal>> /\ configured \in BOOLEAN
        /\ Woken(queue)
        /\ hold' = IF queue \in orphans THEN "free" ELSE "token"
    BY DEF GlobalGranted, SInv, Between
  <1>2. orphans' \in SUBSET gAsleep'
    BY <1>1, QueueIsCaller, WokenKeepsOrphans
  <1>3. CASE queue \in orphans
    <2>1. gOwn' = gOwn
      BY <1>1, <1>3 DEF Woken
    <2> QED
      BY <1>1, <1>2, <1>3, <2>1, QuietKeepsBetween DEF vars
  <1>4. CASE queue \notin orphans
    <2>1. G!Grant(queue)
      BY <1>1, <1>4 DEF Woken, G!Wake
    <2> QED
      BY <1>1, <1>2, <1>4, <2>1, GrantKeepsBetween
  <1> QED
    BY <1>3, <1>4

\* A message is sent with the step that grants the queue's own limiter.
LEMMA LocalStepsKeepBetween ==
    ASSUME SInv, WaitForLocal \/ LocalGranted \/ LocalRejects \/ DestroyLocal
    PROVE  Between'
  <1>1. /\ UNCHANGED <<globalVars, configured, orphans>>
        /\ configured' \in BOOLEAN /\ orphans' \in SUBSET gAsleep'
    BY DEF WaitForLocal, LocalGranted, LocalRejects, DestroyLocal, globalVars, SInv, Between
  <1>2. queue \in Callers /\ own \in [Callers -> -TokenUnits..Burst]
    BY QueueIsCaller DEF SInv, IInv, TypeOK
  <1>3. CASE Sent /\ Grant(queue)
    <2>1. own'[queue] = Charged(own[queue])
      BY <1>2, <1>3 DEF Grant
    <2> QED
      BY <1>1, <1>3, <2>1, SentKeepsBetween
  <1>4. ASSUME own' = own, UNCHANGED <<sentGlobal, sentLocal>>, hold' \in {hold, "none", "free"}
        PROVE  Between'
    BY <1>1, <1>4, QuietKeepsBetween DEF globalVars
  <1>5. CASE WaitForLocal
    <2>1. CASE Grant(queue) /\ asleep' = asleep
      BY <1>3, <1>5, <2>1 DEF WaitForLocal, Acquire
    <2>2. CASE asleep' = asleep \cup {queue} /\ own' = own
      BY <1>4, <1>5, <2>2 DEF WaitForLocal, queueVars
    <2> QED
      BY <1>5, <2>1, <2>2 DEF WaitForLocal, Acquire
  <1>6. CASE LocalGranted
    BY <1>3, <1>6 DEF LocalGranted, Wake
  <1>7. CASE LocalRejects \/ DestroyLocal
    BY <1>4, <1>7 DEF LocalRejects, DestroyLocal, Destroy, vars, queueVars
  <1> QED
    BY <1>5, <1>6, <1>7

\* A millisecond adds to both ledgers of the queue alike.
LEMMA MillisecondKeepsBetween ==
    ASSUME SInv, Millisecond
    PROVE  Between'
  <1>1. /\ gOwn'[queue] = G!Replenished(gOwn[queue])
        /\ own'[queue] = Replenished(own[queue])
        /\ sentGlobal' = G!Replenished(sentGlobal) /\ sentLocal' = Replenished(sentLocal)
        /\ UNCHANGED <<configured, orphans, hold, gAsleep>>
    BY QueueIsCaller DEF Millisecond, Tick, G!Tick
  <1>2. gOwn[queue] \in 0..G!Burst /\ sentGlobal \in -TokenUnits..G!Burst
        /\ SentBehind \in 0..G!Cost /\ sentGlobal >= gOwn[queue] - SentBehind
    BY GlobalFacts, GlobalAmounts DEF SInv, Between, SentBehind
  <1>3. SentBehind' = SentBehind
    BY <1>1 DEF SentBehind, G!Cost
  <1> HIDE DEF SentBehind
  <1>4. /\ sentGlobal' \in -TokenUnits..G!Burst
        /\ sentGlobal' >= gOwn'[queue] - SentBehind'
    BY <1>1, <1>2, <1>3, GlobalAmounts DEF G!Replenished, G!AtMost
  <1> QED
    BY <1>1, <1>4 DEF SInv, Between

-----------------------------------------------------------------------------
LEMMA NextIsBucketStep ==
    ASSUME [LimitsNext]_allVars
    PROVE  [Next]_vars
  <1>1. \A c \in Direct : DirectSend(c) \/ DirectWakes(c) => UNCHANGED vars
    BY DEF DirectSend, DirectWakes
  <1>2. \/ Configure \/ Reset \/ DestroyGlobal \/ GlobalStatus
        \/ WaitForGlobal \/ GlobalGranted \/ LocalRejects
        => UNCHANGED vars
    BY DEF Configure, Reset, DestroyGlobal, GlobalStatus, WaitForGlobal, GlobalGranted, LocalRejects
  <1>3. WaitForLocal \/ LocalGranted \/ DestroyLocal \/ Millisecond => Next
    BY QueueIsCaller DEF WaitForLocal, LocalGranted, DestroyLocal, Millisecond, Next
  <1>4. UNCHANGED allVars => UNCHANGED vars
    BY DEF allVars
  <1> QED
    BY <1>1, <1>2, <1>3, <1>4 DEF LimitsNext

LEMMA NextKeepsGlobal ==
    ASSUME SInv, [LimitsNext]_allVars
    PROVE  GP!IInv'
  <1> USE DEF SInv
  <1>1. CASE Configure
    BY <1>1, ConfigureKeepsIInv
  <1>2. CASE Reset \/ DestroyGlobal \/ GlobalStatus \/ Millisecond
    BY <1>2, GlobalStepKeepsIInv DEF Reset, DestroyGlobal, GlobalStatus, Millisecond
  <1>3. ASSUME NEW c \in Direct, DirectSend(c) \/ DirectWakes(c)
        PROVE  GP!IInv'
    BY <1>3, QueueIsCaller, GlobalStepKeepsIInv, WokenKeepsIInv DEF DirectSend, DirectWakes
  <1>4. CASE WaitForGlobal \/ GlobalGranted
    BY <1>4, QueueIsCaller, GlobalStepKeepsIInv, WokenKeepsIInv DEF WaitForGlobal, GlobalGranted
  <1>5. CASE WaitForLocal \/ LocalGranted \/ LocalRejects \/ DestroyLocal \/ UNCHANGED allVars
    BY <1>5, GlobalStepKeepsIInv
       DEF WaitForLocal, LocalGranted, LocalRejects, DestroyLocal, allVars
  <1> QED
    BY <1>1, <1>2, <1>3, <1>4, <1>5 DEF LimitsNext

LEMMA NextKeepsSInv == SInv /\ [LimitsNext]_allVars => SInv'
  <1> SUFFICES ASSUME SInv, [LimitsNext]_allVars
               PROVE  SInv'
    OBVIOUS
  <1>1. IInv'
    BY NextIsBucketStep, NextKeepsIInv DEF SInv
  <1>2. GP!IInv'
    BY NextKeepsGlobal
  <1>3. ASSUME UNCHANGED allVars
        PROVE  Between'
    <2>1. UNCHANGED <<gOwn, gAsleep, own, configured, orphans, hold, sentGlobal, sentLocal>>
      BY <1>3 DEF allVars, vars, globalVars, queueVars
    <2>2. configured' \in BOOLEAN /\ orphans' \in SUBSET gAsleep'
      BY <2>1 DEF SInv, Between
    <2> QED
      BY <2>1, <2>2, QuietKeepsBetween
  <1>4. ASSUME LimitsNext
        PROVE  Between'
    <2>1. ASSUME NEW c \in Direct, DirectSend(c) \/ DirectWakes(c)
          PROVE  Between'
      BY <2>1, DirectSendsKeepBetween
    <2> QED
      BY <1>2, <1>4, <2>1, ConfigureKeepsBetween, SingletonKeepsBetween,
         WaitForGlobalKeepsBetween, GlobalGrantedKeepsBetween, LocalStepsKeepBetween,
         MillisecondKeepsBetween DEF LimitsNext
  <1> QED
    BY <1>1, <1>2, <1>3, <1>4 DEF SInv

LEMMA InitEstablishesSInv == LimitsInit => SInv
  <1> SUFFICES ASSUME LimitsInit
               PROVE  SInv
    OBVIOUS
  <1>1. IInv
    BY InitEstablishesIInv DEF LimitsInit
  <1>2. GP!IInv
    BY SameInit, GP!InitEstablishesIInv, ConstantsAssumption, GlobalAssumption DEF LimitsInit
  <1>3. gOwn[queue] = G!Burst /\ own[queue] = Burst
    BY QueueIsCaller DEF LimitsInit, Init, G!Init
  <1>4. sentGlobal \in -TokenUnits..G!Burst /\ sentGlobal >= gOwn[queue] - SentBehind
    BY <1>3, GlobalAmounts DEF LimitsInit, SentBehind
  <1>5. Between
    BY <1>3, <1>4 DEF LimitsInit, Between, Init
  <1> QED
    BY <1>1, <1>2, <1>5 DEF SInv

-----------------------------------------------------------------------------
\* The inductive invariant of the two buckets, and of what the queue carries from one
\* to the other, holds in every reachable state.
THEOREM LimitsInvariance == LimitsSpec => []SInv
  BY InitEstablishesSInv, NextKeepsSInv, PTL DEF LimitsSpec

\* The variables of both buckets, and of what is between them, keep their types.
THEOREM LimitsTypeCorrect == LimitsSpec => []LimitsTypeOK
  <1>1. SInv => LimitsTypeOK
    <2> SUFFICES ASSUME SInv
                 PROVE  LimitsTypeOK
      OBVIOUS
    <2>1. TypeOK /\ G!TypeOK
      BY SameTypes DEF SInv, IInv, GP!IInv
    <2>2. sentLocal \in -TokenUnits..Burst
      BY <2>1, QueueIsCaller DEF TypeOK, SInv, Between
    <2> QED
      BY <2>1, <2>2 DEF SInv, Between, LimitsTypeOK
  <1> QED
    BY <1>1, LimitsInvariance, PTL

\* Every sender keeps the global limit by itself, for every number of senders and
\* every limit, however often the limiter is reset and configured again over those
\* who sleep in it.
THEOREM EachSenderKeepsRate == LimitsSpec => []EachKeepsGlobalRate
  <1>1. SInv => EachKeepsGlobalRate
    BY DEF SInv, GP!IInv, GP!EachKeepsRate, EachKeepsGlobalRate, G!EachKeepsRate
  <1> QED
    BY <1>1, LimitsInvariance, PTL

\* The messages of the queue keep its own limit exactly, and the global one but for
\* a single message, that of the token the queue waited with at its own limiter.
THEOREM MessagesKeepBothRates == LimitsSpec => []SendsKeepBothRates
  <1>1. SInv => SendsKeepBothRates
    <2> SUFFICES ASSUME SInv
                 PROVE  SendsKeepBothRates
      OBVIOUS
    <2>1. sentLocal >= 0
      BY QueueIsCaller DEF SInv, IInv, EachKeepsRate, Between
    <2>2. gOwn[queue] \in 0..G!Burst /\ SentBehind \in 0..G!Cost
      BY GlobalFacts, GlobalAmounts DEF SInv, SentBehind
    <2>3. sentGlobal >= -G!Cost
      BY <2>2, GlobalAmounts DEF SInv, Between
    <2> QED
      BY <2>1, <2>3 DEF SendsKeepBothRates
  <1> QED
    BY <1>1, LimitsInvariance, PTL

\* What the queue does with its own limiter is what one caller of a token bucket
\* does: all that holds of such a bucket holds of the queue's.
THEOREM QueueBucketIsABucket == LimitsSpec => Spec
  <1>1. LimitsInit => Init
    BY DEF LimitsInit
  <1>2. [LimitsNext]_allVars => [Next]_vars
    BY NextIsBucketStep
  <1> QED
    BY <1>1, <1>2, PTL DEF LimitsSpec, Spec

\* The queue's own limiter never lets through more than configured.
THEOREM QueueKeepsItsRate == LimitsSpec => []RateRespected
  <1>1. OneSender
    BY QueueIsCaller DEF OneSender
  <1> QED
    BY <1>1, QueueBucketIsABucket, RateKept, PTL
=============================================================================
