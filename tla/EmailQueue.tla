----------------------------- MODULE EmailQueue -----------------------------
(***************************************************************************)
(* What an EmailQueue of src/src/types/queue.ts promises, whatever keeps   *)
(* the jobs: the life of a job from its being added to its end, one        *)
(* message on its way at a time, and only while the queue takes up work.   *)
(* Nothing is said of lists, tables, flags and timers.  MemoryQueue and    *)
(* SQLiteQueue implement it, each with constants of its own.               *)
(***************************************************************************)
EXTENDS Integers

CONSTANTS
    Jobs,
    Final,    \* the outcomes a job is never taken up from again
    MayCrash  \* the process may die, and its jobs go on without it

VARIABLES
    life,      \* where a job stands
    due,       \* its time has come
    taking,    \* the queue runs and is not paused
    delivered  \* how often the provider accepted its message

vars == <<life, due, taking, delivered>>

Lives == {"new", "waiting", "sending", "accepted", "sent", "failed", "gone"}
Underway(l) == {j \in Jobs : l[j] \in {"sending", "accepted"}}
Eligible(l) == {j \in Jobs : l[j] \in {"waiting"} \cup ({"sent", "failed"} \ Final)}

\* Whatever happens to the queue, it may take up a job next, if none is under way.
Go(l) ==
    \/ life' = l
    \/ /\ taking' /\ Underway(l) = {}
       /\ \E j \in Eligible(l) : due'[j] /\ life' = [l EXCEPT ![j] = "sending"]

-----------------------------------------------------------------------------
\* add, addBatch
Add(new) ==
    /\ \A j \in Jobs \ new : due'[j] = due[j]
    /\ UNCHANGED <<taking, delivered>>
    /\ due' \in [Jobs -> BOOLEAN]
    /\ Go([j \in Jobs |-> IF j \in new THEN "waiting" ELSE life[j]])

\* start, stop, pause, resume, and timers that look for work
Switch ==
    /\ UNCHANGED <<delivered, due>>
    /\ taking' \in BOOLEAN
    /\ Go(life)

\* clear, destroy, and the cleanup of old jobs
Remove ==
    /\ UNCHANGED <<delivered, due>>
    /\ taking' \in {taking, FALSE}
    /\ life' \in [Jobs -> Lives]
    /\ \A j \in Jobs : \/ life'[j] = life[j]
                       \/ life'[j] = "gone" /\ life[j] # "new" /\ j \notin Underway(life)

ComesDue(j) ==
    /\ due' = [due EXCEPT ![j] = TRUE]
    /\ UNCHANGED <<life, taking, delivered>>

\* The provider accepts the message; the queue hears of it now or later.
Accept(j) ==
    /\ life[j] = "sending"
    /\ delivered' = [delivered EXCEPT ![j] = @ + 1]
    /\ UNCHANGED <<due, taking>>
    /\ \/ life' = [life EXCEPT ![j] = "accepted"]
       \/ \E end \in {"sent", "gone"} : Go([life EXCEPT ![j] = end])

Record(j) ==
    /\ life[j] = "accepted"
    /\ UNCHANGED <<due, taking, delivered>>
    /\ \E end \in {"sent", "gone"} : Go([life EXCEPT ![j] = end])

Refuse(j) ==
    /\ life[j] = "sending"
    /\ UNCHANGED <<due, taking, delivered>>
    /\ \E end \in {"waiting", "failed", "gone"} : Go([life EXCEPT ![j] = end])

\* A settled job becomes one that waits.
Reopen(j) ==
    /\ life[j] \in {"sent", "failed"} \ Final
    /\ UNCHANGED <<due, taking, delivered>>
    /\ Go([life EXCEPT ![j] = "waiting"])

\* What was under way waits for the next process; a message may still arrive.
Crash ==
    /\ MayCrash
    /\ taking' = FALSE
    /\ UNCHANGED due
    /\ life' \in [Jobs -> Lives]
    /\ \A j \in Jobs : life'[j] \in IF j \in Underway(life) THEN {"waiting", "gone"}
                                                            ELSE {life[j]}
    /\ \E arrives \in SUBSET {j \in Jobs : life[j] = "sending"} :
         delivered' = [j \in Jobs |-> IF j \in arrives THEN delivered[j] + 1 ELSE delivered[j]]

Init ==
    /\ life = [j \in Jobs |-> "new"]
    /\ due = [j \in Jobs |-> TRUE]
    /\ taking = FALSE
    /\ delivered = [j \in Jobs |-> 0]

Next ==
    \/ Switch
    \/ \E new \in SUBSET {j \in Jobs : life[j] = "new"} : Add(new)
    \/ \E j \in Jobs : ComesDue(j) \/ Accept(j) \/ Record(j) \/ Refuse(j) \/ Reopen(j)
    \/ Remove
    \/ Crash

Spec == Init /\ [][Next]_vars

-----------------------------------------------------------------------------
\* Where "sent" is final and no process dies, no message is sent twice.
AtMostOnce ==
    "sent" \in Final /\ ~MayCrash => \A j \in Jobs : delivered[j] <= 1

\* A job counts as sent only after the provider accepted it.
SentIsTrue == \A j \in Jobs : life[j] = "sent" => delivered[j] > 0

\* One at a time.
OneUnderway == \A j, k \in Underway(life) : j = k
=============================================================================
