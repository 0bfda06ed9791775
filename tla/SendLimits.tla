----------------------------- MODULE SendLimits -----------------------------
(***************************************************************************)
(* Who sends through which limiter: the direct sends of                    *)
(* src/src/email-manager.ts await the global token bucket; a queue awaits  *)
(* first the global one and then its own (createRateLimitCoordinator of    *)
(* src/src/queue/queue-utils.ts).  The global bucket is a module-level     *)
(* singleton that may be configured, reset and configured again at any     *)
(* time; who sleeps in a bucket that was reset sleeps on.                  *)
(*                                                                         *)
(* The variables of RateLimiter are the queue's bucket.                    *)
(***************************************************************************)
EXTENDS RateLimiter

CONSTANTS
    queue,          \* the one caller of its own bucket
    Direct,         \* the direct sends that may be under way at the same time
    GPerMs, GFull   \* the global limit and burst

ASSUME SendersAssumption == Callers = {queue} /\ queue \notin Direct

ASSUME GlobalAssumption ==
    GPerMs \in Nat /\ GFull \in Nat /\ 0 < GPerMs /\ GPerMs <= TokenUnits

Senders == {queue} \cup Direct

VARIABLES
    gTokens, gUnrefilled, gDestroyed, gAsleep, gNeed, gCredit, gOwn,
    configured,   \* globalRateLimiter # null
    orphans,      \* those asleep in a global bucket that has been reset
    hold,         \* what the queue brings to its own bucket: "none", "token" or "free"
    sentGlobal,   \* history: as credit, charged when the queue's message is sent,
    sentLocal     \*          at the global limit and at its own

globalVars == <<gTokens, gUnrefilled, gDestroyed, gAsleep, gNeed, gCredit, gOwn>>
queueVars  == <<hold, sentGlobal, sentLocal>>
allVars    == <<vars, globalVars, configured, orphans, queueVars>>

G == INSTANCE RateLimiter WITH
    Callers <- Senders, PerMs <- GPerMs, Full <- GFull, tokens <- gTokens,
    unrefilled <- gUnrefilled, isDestroyed <- gDestroyed, asleep <- gAsleep,
    need <- gNeed, credit <- gCredit, own <- gOwn

-----------------------------------------------------------------------------
(***************************************************************************)
(* The singleton.                                                          *)
(***************************************************************************)
\* Refused by configureGlobalRateLimit when there is a limiter already.
Configure ==
    /\ ~configured
    /\ configured' = TRUE
    /\ gTokens' = GFull /\ gUnrefilled' = 0 /\ gDestroyed' = FALSE
    /\ gCredit' = G!Burst
    /\ gOwn' = [c \in Senders |-> G!Burst]
    /\ sentGlobal' = G!Burst
    /\ UNCHANGED <<vars, gAsleep, gNeed, orphans, hold, sentLocal>>

Reset ==
    /\ configured
    /\ configured' = FALSE
    /\ G!Destroy
    /\ orphans' = gAsleep
    /\ hold' = IF hold = "token" THEN "free" ELSE hold
    /\ UNCHANGED <<vars, sentGlobal, sentLocal>>

\* getGlobalRateLimiter().destroy(): the singleton stays, so that no send passes, and the
\* attempts of the queue fail, until it is reset; those asleep in it send as they wake.
DestroyGlobal ==
    /\ configured
    /\ G!Destroy
    /\ UNCHANGED <<vars, configured, orphans, queueVars>>

\* The delay of acquire() is over; an orphan empties a bucket nobody looks at.
Woken(c) ==
    \/ c \notin orphans /\ G!Wake(c) /\ UNCHANGED orphans
    \/ /\ c \in orphans
       /\ G!IsDue(c)
       /\ orphans' = orphans \ {c}
       /\ gAsleep' = gAsleep \ {c}
       /\ UNCHANGED <<gTokens, gUnrefilled, gDestroyed, gNeed, gCredit, gOwn>>

-----------------------------------------------------------------------------
(***************************************************************************)
(* Direct sends.  Without a global limiter they pass, and nothing changes. *)
(***************************************************************************)
DirectSend(c) ==
    /\ configured
    /\ G!Acquire(c)
    /\ UNCHANGED <<vars, configured, orphans, queueVars>>

DirectWakes(c) == Woken(c) /\ UNCHANGED <<vars, configured, queueVars>>

-----------------------------------------------------------------------------
(***************************************************************************)
(* A message of the queue: waitForRateLimit, then provider.send.           *)
(***************************************************************************)
AtRest == hold = "none" /\ queue \notin gAsleep

Sent ==
    /\ hold' = "none"
    /\ sentLocal' = Charged(sentLocal)
    /\ sentGlobal' = IF hold = "token" THEN G!Charged(sentGlobal) ELSE sentGlobal

\* Past the global bucket.
WaitForGlobal ==
    /\ AtRest
    /\ \/ ~configured /\ hold' = "free" /\ UNCHANGED globalVars
       \/ configured /\ G!Acquire(queue) /\ hold' = IF queue \in gAsleep' THEN "none" ELSE "token"
    /\ UNCHANGED <<vars, configured, orphans, sentGlobal, sentLocal>>

GlobalGranted ==
    /\ Woken(queue)
    /\ hold' = IF queue \in orphans THEN "free" ELSE "token"
    /\ UNCHANGED <<vars, configured, sentGlobal, sentLocal>>

NotAwaited ==    \* flawed
    /\ hold # "none"
    /\ Acquire(queue)
    /\ Sent
    /\ UNCHANGED <<globalVars, configured, orphans>>

WaitForLocal ==
    /\ hold # "none"
    /\ Acquire(queue)
    /\ IF queue \in asleep' THEN UNCHANGED queueVars ELSE Sent
    /\ UNCHANGED <<globalVars, configured, orphans>>

LocalGranted ==
    /\ Wake(queue)
    /\ Sent
    /\ UNCHANGED <<globalVars, configured, orphans>>

\* acquire() rejects, and so the attempt fails.
LocalRejects ==
    /\ hold # "none" /\ queue \notin asleep
    /\ isDestroyed
    /\ hold' = "none"
    /\ UNCHANGED <<vars, globalVars, configured, orphans, sentGlobal, sentLocal>>

\* The queue is destroyed.
DestroyLocal == Destroy /\ UNCHANGED <<globalVars, configured, orphans, queueVars>>

GlobalStatus ==
    /\ configured
    /\ G!GetStatus
    /\ UNCHANGED <<vars, configured, orphans, queueVars>>

Millisecond ==
    /\ Tick
    /\ G!Tick
    /\ sentGlobal' = G!Replenished(sentGlobal)
    /\ sentLocal' = Replenished(sentLocal)
    /\ UNCHANGED <<configured, orphans, hold>>

LimitsInit ==
    /\ Init
    /\ G!Init
    /\ configured = FALSE
    /\ orphans = {}
    /\ hold = "none"
    /\ sentGlobal = G!Burst
    /\ sentLocal = Burst

LimitsNext ==
    \/ Configure \/ Reset \/ DestroyGlobal
    \/ \E c \in Direct : DirectSend(c) \/ DirectWakes(c)
    \/ WaitForGlobal \/ GlobalGranted
    \/ WaitForLocal \/ LocalGranted \/ LocalRejects
    \/ DestroyLocal
    \/ GlobalStatus
    \/ Millisecond

LimitsSpec ==
    /\ LimitsInit /\ [][LimitsNext]_allVars
    /\ WF_allVars(Millisecond)
    /\ \A c \in Direct : WF_allVars(DirectWakes(c))
    /\ WF_allVars(GlobalGranted)
    /\ WF_allVars(WaitForLocal) /\ WF_allVars(LocalRejects)
    /\ WF_allVars(LocalGranted)

-----------------------------------------------------------------------------
\* The types of both buckets and of what is between them.
LimitsTypeOK ==
    /\ TypeOK /\ G!TypeOK
    /\ configured \in BOOLEAN
    /\ orphans \in SUBSET gAsleep
    /\ hold \in {"none", "token", "free"}
    /\ sentGlobal \in -TokenUnits..G!Burst /\ sentLocal \in -TokenUnits..Burst

\* Every sender, direct or queue, keeps the global limit by itself, however many wait
\* for the same token of the limiter, read its status or are asleep when it is reset.
EachKeepsGlobalRate == G!EachKeepsRate

\* What holds of tokens holds of messages.  The queue waits at one limiter with the
\* other's token in hand, so it may send later than it was let through: it waits for
\* its own limit last and keeps that exactly, and is one message ahead of the global
\* limit at most.
SendsKeepBothRates ==
    /\ sentLocal >= 0
    /\ sentGlobal >= -G!Cost

\* Nobody waits for ever: a sender asleep at the global limiter is let through,
\* although that is reset meanwhile, and the queue's message is then sent, or its
\* attempt fails because the queue's limiter was destroyed.
EveryoneGetsThrough ==
    /\ \A c \in Direct : c \in gAsleep ~> c \notin gAsleep
    /\ queue \in gAsleep ~> AtRest
=============================================================================
