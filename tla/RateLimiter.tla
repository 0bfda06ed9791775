---------------------------- MODULE RateLimiter ----------------------------
(***************************************************************************)
(* The token bucket, createTokenBucket of src/src/lib/rate-limiter.ts, in  *)
(* time.  Time advances by milliseconds; a token is TokenUnits units, of   *)
(* which PerMs trickle in every millisecond, so that the configured limit  *)
(* is 1000 * PerMs / TokenUnits sends per second.                          *)
(*                                                                         *)
(* acquire() either takes a token or computes how long the missing part of *)
(* one takes, sleeps, and then takes "the token" by emptying the bucket.   *)
(* The sleep is a setTimeout: whole milliseconds, rounded down, at least   *)
(* one, and it may ring late.                                              *)
(***************************************************************************)
EXTENDS Integers

CONSTANTS
    Callers,    \* those who may call acquire() at the same time
    TokenUnits,
    PerMs,
    Full        \* burstCapacity, in units; below a token where the limit is below 1

ASSUME ConstantsAssumption ==
    /\ TokenUnits \in Nat /\ PerMs \in Nat /\ Full \in Nat
    /\ 0 < PerMs /\ PerMs <= TokenUnits

VARIABLES
    tokens,      \* the tokens left at lastRefillTime, in units
    unrefilled,  \* what has trickled in since lastRefillTime, up to the capacity
    isDestroyed,
    asleep,      \* the callers in the delay of acquire()
    need,        \* per sleeping caller, the units to trickle in until its timer is due
    credit,      \* history: the level of a bucket that every send is charged to
    own          \* history: the same per caller, charged with the sends of that one

vars == <<tokens, unrefilled, isDestroyed, asleep, need, credit, own>>

AtMost(n, bound) == IF n <= bound THEN n ELSE bound
AtLeast(n, bound) == IF n >= bound THEN n ELSE bound

\* What a send costs: one token, or what a timer rounded down to milliseconds waits for.
Cost == TokenUnits - PerMs + 1

\* How much credit is kept: the burst, and at least one token.
Burst == AtLeast(Full, TokenUnits)

\* The debit of history stops at one token below zero.
Charged(level) == AtLeast(level - Cost, -TokenUnits)
Replenished(level) == AtMost(level + PerMs, Burst)

\* A send of c is let through.
Grant(c) ==
    /\ credit' = Charged(credit)
    /\ own' = [own EXCEPT ![c] = Charged(@)]

-----------------------------------------------------------------------------
RefillUncapped == tokens + unrefilled    \* flawed

\* refill(): Math.min(capacity, tokens + tokensToAdd)
Refilled == AtMost(tokens + unrefilled, Full)

TakeIfWhole == Refilled >= TokenUnits

\* The units that trickle in before a setTimeout for the missing units may ring.
Sleep(missing) == AtLeast(missing - PerMs + 1, 1)

Acquire(c) ==
    /\ c \notin asleep
    /\ ~isDestroyed
    /\ unrefilled' = 0
    /\ UNCHANGED isDestroyed
    /\ \/ /\ TakeIfWhole
          /\ tokens' = Refilled - TokenUnits
          /\ Grant(c)
          /\ UNCHANGED <<asleep, need>>
       \/ /\ ~TakeIfWhole
          /\ tokens' = Refilled
          /\ asleep' = asleep \cup {c}
          /\ need' = [need EXCEPT ![c] = Sleep(TokenUnits - Refilled)]
          /\ UNCHANGED <<credit, own>>

KeepTokens == tokens    \* flawed

SpentTokens == 0

DueUnlessDestroyed(c) == need[c] <= 0 /\ ~isDestroyed    \* flawed

IsDue(c) == need[c] <= 0

\* The delay is over; destroy() does not wake or reject the sleepers.
Wake(c) ==
    /\ c \in asleep
    /\ IsDue(c)
    /\ asleep' = asleep \ {c}
    /\ tokens' = SpentTokens
    /\ unrefilled' = 0
    /\ Grant(c)
    /\ UNCHANGED <<isDestroyed, need>>

\* Flawed: refill() leaves lastRefillTime as it was.
RefillsTwice ==
    /\ tokens' = Refilled
    /\ UNCHANGED <<unrefilled, isDestroyed, asleep, need, credit, own>>

\* getStatus() refills too.
GetStatus ==
    /\ tokens' = Refilled
    /\ unrefilled' = 0
    /\ UNCHANGED <<isDestroyed, asleep, need, credit, own>>

Destroy ==
    /\ isDestroyed' = TRUE
    /\ tokens' = 0
    /\ UNCHANGED <<unrefilled, asleep, need, credit, own>>

\* A millisecond passes.  What a full bucket would not hold is not counted.
Tick ==
    /\ unrefilled' = AtMost(unrefilled + PerMs, Full)
    /\ need' = [c \in Callers |-> IF c \in asleep THEN AtLeast(need[c] - PerMs, 0) ELSE 0]
    /\ credit' = Replenished(credit)
    /\ own' = [c \in Callers |-> Replenished(own[c])]
    /\ UNCHANGED <<tokens, isDestroyed, asleep>>

Init ==
    /\ tokens = Full
    /\ unrefilled = 0
    /\ isDestroyed = FALSE
    /\ asleep = {}
    /\ need = [c \in Callers |-> 0]
    /\ credit = Burst
    /\ own = [c \in Callers |-> Burst]

Next ==
    \/ \E c \in Callers : Acquire(c) \/ Wake(c)
    \/ GetStatus
    \/ Destroy
    \/ Tick

Spec == Init /\ [][Next]_vars

-----------------------------------------------------------------------------
\* The types of the variables.
TypeOK ==
    /\ tokens \in 0..Full
    /\ unrefilled \in 0..Full
    /\ isDestroyed \in BOOLEAN
    /\ asleep \in SUBSET Callers
    /\ need \in [Callers -> 0..TokenUnits]
    /\ credit \in -TokenUnits..Burst
    /\ own \in [Callers -> -TokenUnits..Burst]

\* The sends never outrun the configured limit: in every period of d milliseconds
\* there are at most (Burst + d * PerMs) / Cost of them, whatever the order of
\* acquire(), getStatus(), destroy() and late timers.  "10 emails/second max".
RateRespected == credit >= 0

\* Every caller by itself keeps the configured limit, however many sleep for the same
\* token: k of them together send at most k times as much.
EachKeepsRate == \A c \in Callers : own[c] >= 0
=============================================================================
