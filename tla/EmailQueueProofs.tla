-------------------------- MODULE EmailQueueProofs --------------------------
(***************************************************************************)
(* What follows from the promise of an EmailQueue alone, for every set of  *)
(* jobs and either kind of backend, and so for whatever implements it.     *)
(* Every action hands Go the lives it has made; one lemma shows that Go    *)
(* keeps them Sound, and the rest of the proof only that they are.         *)
(***************************************************************************)
EXTENDS EmailQueue, TLAPS

Typed ==
    /\ life \in [Jobs -> Lives]
    /\ due \in [Jobs -> BOOLEAN]
    /\ taking \in BOOLEAN
    /\ delivered \in [Jobs -> Nat]

ForGood == "sent" \in Final /\ ~MayCrash

\* One job under way, the provider took what counts as accepted or sent, and, where
\* "sent" is final and no process dies, it took nothing of a job that may yet be sent.
Sound(l, d) ==
    /\ \A j, k \in Underway(l) : j = k
    /\ \A j \in Jobs : l[j] \in {"accepted", "sent"} => d[j] > 0
    /\ ForGood => \A j \in Jobs :
         /\ d[j] <= 1
         /\ l[j] \in {"new", "waiting", "sending", "failed"} => d[j] = 0

IInv == Typed /\ Sound(life, delivered)

-----------------------------------------------------------------------------
\* Taking up one more job leaves lives sound.
LEMMA GoKeeps ==
    ASSUME NEW l \in [Jobs -> Lives], Sound(l, delivered'), Go(l)
    PROVE  life' \in [Jobs -> Lives] /\ Sound(life', delivered')
<1>1. CASE life' = l
  BY <1>1
<1>2. ASSUME Underway(l) = {}, NEW j \in Eligible(l), life' = [l EXCEPT ![j] = "sending"]
      PROVE  life' \in [Jobs -> Lives] /\ Sound(life', delivered')
  <2>1. j \in Jobs /\ l[j] \in {"waiting"} \cup ({"sent", "failed"} \ Final)
    BY DEF Eligible
  <2>2. life' \in [Jobs -> Lives]
    BY <1>2, <2>1 DEF Lives
  <2>3. \A k \in Jobs : life'[k] = IF k = j THEN "sending" ELSE l[k]
    BY <1>2, <2>1
  <2>4. \A k, m \in Underway(life') : k = m
    <3>1. \A k \in Underway(life') : k = j
      BY <1>2, <2>3 DEF Underway
    <3>2. QED
      BY <3>1
  <2>5. \A k \in Jobs : life'[k] \in {"accepted", "sent"} => delivered'[k] > 0
    BY <2>3 DEF Sound
  <2>6. ForGood => \A k \in Jobs :
          /\ delivered'[k] <= 1
          /\ life'[k] \in {"new", "waiting", "sending", "failed"} => delivered'[k] = 0
    BY <2>1, <2>3 DEF Sound, ForGood
  <2>7. QED
    BY <2>2, <2>4, <2>5, <2>6 DEF Sound
<1>3. QED
  BY <1>1, <1>2 DEF Go

\* A step of one job j, from a life in which it may be under way to one in which it is
\* not, leaves lives sound if it does so for j.
LEMMA OneJobMoves ==
    ASSUME IInv, NEW j \in Jobs, NEW x \in Lives \ {"sending"},
           x = "accepted" => life[j] = "sending",
           delivered' \in [Jobs -> Nat],
           \A k \in Jobs \ {j} : delivered'[k] = delivered[k],
           x \in {"accepted", "sent"} => delivered'[j] > 0,
           ForGood => /\ delivered'[j] <= 1
                      /\ x \in {"new", "waiting", "failed"} => delivered'[j] = 0
    PROVE  /\ [life EXCEPT ![j] = x] \in [Jobs -> Lives]
           /\ Sound([life EXCEPT ![j] = x], delivered')
<1> DEFINE l == [life EXCEPT ![j] = x]
<1>1. l \in [Jobs -> Lives] /\ \A k \in Jobs : l[k] = IF k = j THEN x ELSE life[k]
  BY DEF IInv, Typed
<1> HIDE DEF l
<1>2. Underway(l) \subseteq Underway(life)
  BY <1>1 DEF Underway
<1>3. \A k, m \in Underway(l) : k = m
  BY <1>2 DEF IInv, Sound
<1>4. \A k \in Jobs : l[k] \in {"accepted", "sent"} => delivered'[k] > 0
  BY <1>1 DEF IInv, Sound
<1>5. ForGood => \A k \in Jobs :
        /\ delivered'[k] <= 1
        /\ l[k] \in {"new", "waiting", "sending", "failed"} => delivered'[k] = 0
  BY <1>1 DEF IInv, Sound
<1>6. QED
  BY <1>1, <1>3, <1>4, <1>5 DEF Sound, l

-----------------------------------------------------------------------------
LEMMA Initially == Init => IInv
<1> SUFFICES ASSUME Init PROVE IInv
  OBVIOUS
<1>1. Typed
  BY DEF Init, Typed, Lives
<1>2. Underway(life) = {}
  BY DEF Init, Underway
<1>3. QED
  BY <1>1, <1>2 DEF Init, IInv, Sound

LEMMA Inductive == IInv /\ [Next]_vars => IInv'
<1> SUFFICES ASSUME IInv, [Next]_vars PROVE IInv'
  OBVIOUS
<1> USE DEF IInv
<1>1. CASE Switch
  <2>1. delivered' = delivered /\ due' = due /\ taking' \in BOOLEAN /\ Go(life)
    BY <1>1 DEF Switch
  <2>2. life \in [Jobs -> Lives] /\ Sound(life, delivered')
    BY <2>1 DEF Typed
  <2>3. QED
    BY <2>1, <2>2, GoKeeps DEF Typed
<1>2. ASSUME NEW new \in SUBSET {j \in Jobs : life[j] = "new"}, Add(new) PROVE IInv'
  <2> DEFINE l == [j \in Jobs |-> IF j \in new THEN "waiting" ELSE life[j]]
  <2>1. /\ delivered' = delivered /\ taking' = taking /\ due' \in [Jobs -> BOOLEAN]
        /\ Go(l)
    BY <1>2 DEF Add
  <2>2. l \in [Jobs -> Lives]
    BY DEF Typed, Lives
  <2>3. \A j \in Jobs : l[j] = life[j] \/ (l[j] = "waiting" /\ life[j] = "new")
    OBVIOUS
  <2> HIDE DEF l
  <2>4. Underway(l) \subseteq Underway(life)
    BY <2>3 DEF Underway
  <2>5. Sound(l, delivered')
    BY <2>1, <2>3, <2>4 DEF Sound
  <2>6. QED
    BY <2>1, <2>2, <2>5, GoKeeps DEF Typed
<1>3. ASSUME NEW j \in Jobs, ComesDue(j) PROVE IInv'
  BY <1>3 DEF ComesDue, Typed, Sound
<1>4. ASSUME NEW j \in Jobs, Accept(j) PROVE IInv'
  <2>1. /\ life[j] = "sending" /\ due' = due /\ taking' = taking
        /\ delivered' = [delivered EXCEPT ![j] = @ + 1]
    BY <1>4 DEF Accept
  <2>2. /\ delivered' \in [Jobs -> Nat] /\ delivered'[j] = delivered[j] + 1
        /\ \A k \in Jobs \ {j} : delivered'[k] = delivered[k]
        /\ delivered[j] \in Nat
    BY <2>1 DEF Typed
  <2>3. delivered'[j] > 0 /\ (ForGood => delivered'[j] <= 1)
    BY <2>1, <2>2 DEF Sound
  <2>4. \A x \in {"accepted", "sent", "gone"} :
          /\ [life EXCEPT ![j] = x] \in [Jobs -> Lives]
          /\ Sound([life EXCEPT ![j] = x], delivered')
    <3> TAKE x \in {"accepted", "sent", "gone"}
    <3>1. x \in Lives \ {"sending"}
      BY DEF Lives
    <3>2. QED
      BY <2>1, <2>2, <2>3, <3>1, OneJobMoves
  <2>5. CASE life' = [life EXCEPT ![j] = "accepted"]
    BY <2>1, <2>2, <2>4, <2>5 DEF Typed
  <2>6. ASSUME NEW end \in {"sent", "gone"}, Go([life EXCEPT ![j] = end]) PROVE IInv'
    BY <2>1, <2>2, <2>4, <2>6, GoKeeps DEF Typed
  <2>7. QED
    BY <1>4, <2>5, <2>6 DEF Accept
<1>5. ASSUME NEW j \in Jobs, Record(j) PROVE IInv'
  <2>1. life[j] = "accepted" /\ UNCHANGED <<due, taking, delivered>>
    BY <1>5 DEF Record
  <2>2. PICK end \in {"sent", "gone"} : Go([life EXCEPT ![j] = end])
    BY <1>5 DEF Record
  <2>3. delivered'[j] > 0 /\ (ForGood => delivered'[j] <= 1) /\ delivered' \in [Jobs -> Nat]
    BY <2>1 DEF Typed, Sound
  <2>4. end \in Lives \ {"sending"} /\ end \notin {"accepted", "new", "waiting", "failed"}
    BY DEF Lives
  <2>5. /\ [life EXCEPT ![j] = end] \in [Jobs -> Lives]
        /\ Sound([life EXCEPT ![j] = end], delivered')
    BY <2>1, <2>3, <2>4, OneJobMoves
  <2>6. QED
    BY <2>1, <2>2, <2>5, GoKeeps DEF Typed
<1>6. ASSUME NEW j \in Jobs, Refuse(j) PROVE IInv'
  <2>1. life[j] = "sending" /\ UNCHANGED <<due, taking, delivered>>
    BY <1>6 DEF Refuse
  <2>2. PICK end \in {"waiting", "failed", "gone"} : Go([life EXCEPT ![j] = end])
    BY <1>6 DEF Refuse
  <2>3. delivered' \in [Jobs -> Nat] /\ (ForGood => delivered'[j] = 0)
    BY <2>1 DEF Typed, Sound
  <2>4. end \in Lives \ {"sending"} /\ end \notin {"accepted", "sent"}
    BY DEF Lives
  <2>5. /\ [life EXCEPT ![j] = end] \in [Jobs -> Lives]
        /\ Sound([life EXCEPT ![j] = end], delivered')
    BY <2>1, <2>3, <2>4, OneJobMoves
  <2>6. QED
    BY <2>1, <2>2, <2>5, GoKeeps DEF Typed
<1>7. ASSUME NEW j \in Jobs, Reopen(j) PROVE IInv'
  <2>1. /\ life[j] \in {"sent", "failed"} \ Final /\ UNCHANGED <<due, taking, delivered>>
        /\ Go([life EXCEPT ![j] = "waiting"])
    BY <1>7 DEF Reopen
  <2>2. delivered' \in [Jobs -> Nat] /\ (ForGood => delivered'[j] = 0)
    BY <2>1 DEF Typed, Sound, ForGood
  <2>3. "waiting" \in Lives \ {"sending"}
    BY DEF Lives
  <2>4. /\ [life EXCEPT ![j] = "waiting"] \in [Jobs -> Lives]
        /\ Sound([life EXCEPT ![j] = "waiting"], delivered')
    BY <2>1, <2>2, <2>3, OneJobMoves
  <2>5. QED
    BY <2>1, <2>4, GoKeeps DEF Typed
<1>8. CASE Remove
  <2>1. /\ delivered' = delivered /\ due' = due /\ taking' \in BOOLEAN
        /\ life' \in [Jobs -> Lives]
        /\ \A j \in Jobs : life'[j] = life[j] \/ life'[j] = "gone"
    BY <1>8 DEF Remove, Typed
  <2>2. Underway(life') \subseteq Underway(life)
    BY <2>1 DEF Underway
  <2>3. Sound(life', delivered')
    BY <2>1, <2>2 DEF Sound
  <2>4. QED
    BY <2>1, <2>3 DEF Typed
<1>9. CASE Crash
  <2>1. /\ MayCrash /\ taking' = FALSE /\ due' = due
        /\ life' \in [Jobs -> Lives]
        /\ \A j \in Jobs : life'[j] \in IF j \in Underway(life) THEN {"waiting", "gone"}
                                                                ELSE {life[j]}
    BY <1>9 DEF Crash
  <2>2. delivered' \in [Jobs -> Nat] /\ \A j \in Jobs : delivered'[j] >= delivered[j]
    <3>1. PICK arrives \in SUBSET {j \in Jobs : life[j] = "sending"} :
            delivered' = [j \in Jobs |-> IF j \in arrives THEN delivered[j] + 1 ELSE delivered[j]]
      BY <1>9 DEF Crash
    <3>2. QED
      BY <3>1 DEF Typed
  <2>3. Underway(life') = {}
    BY <2>1 DEF Underway
  <2>4. \A j \in Jobs : life'[j] \in {"accepted", "sent"} => delivered'[j] > 0
    <3> SUFFICES ASSUME NEW j \in Jobs, life'[j] \in {"accepted", "sent"}
                 PROVE  delivered'[j] > 0
      OBVIOUS
    <3>1. life'[j] = life[j] /\ delivered[j] > 0
      BY <2>1 DEF Sound
    <3>2. QED
      BY <2>2, <3>1 DEF Typed
  <2>5. ~ForGood
    BY <2>1 DEF ForGood
  <2>6. QED
    BY <2>1, <2>2, <2>3, <2>4, <2>5 DEF Typed, Sound
<1>10. CASE UNCHANGED vars
  BY <1>10 DEF vars, Typed, Sound, Underway
<1>11. QED
  BY <1>1, <1>2, <1>3, <1>4, <1>5, <1>6, <1>7, <1>8, <1>9, <1>10 DEF Next

\* The inductive invariant holds in every reachable state.
THEOREM Invariance == Spec => []IInv
<1>1. QED
  BY Initially, Inductive, PTL DEF Spec

\* Where "sent" is final and no process dies, as in memory, no message is delivered twice.
THEOREM Once == Spec => []AtMostOnce
<1>1. IInv => AtMostOnce
  BY DEF IInv, Sound, ForGood, AtMostOnce
<1>2. QED
  BY <1>1, Invariance, PTL

\* A job counts as sent only after the provider accepted it, crashes or not.
THEOREM SentMeansAccepted == Spec => []SentIsTrue
<1>1. IInv => SentIsTrue
  BY DEF IInv, Sound, SentIsTrue
<1>2. QED
  BY <1>1, Invariance, PTL

\* There is never a second job under way.
THEOREM OneAtMost == Spec => []OneUnderway
<1>1. IInv => OneUnderway
  BY DEF IInv, Sound, OneUnderway
<1>2. QED
  BY <1>1, Invariance, PTL
=============================================================================
