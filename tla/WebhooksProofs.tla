--------------------------- MODULE WebhooksProofs ---------------------------
(***************************************************************************)
(* Theorems about Webhooks, for all types and handlers, any number of      *)
(* requests in progress and any number of changes of the table, with and   *)
(* without verification of signatures.                                     *)
(***************************************************************************)
EXTENDS Webhooks, TLAPS

(***************************************************************************)
(* The inductive invariant.  What a call did is what it answers, and that  *)
(* is decided in two steps: a request reaches a handler if it qualifies,   *)
(* and the end of the handler is still to come while the call awaits it.   *)
(***************************************************************************)
BeforeHandler ==
    \A c \in Calls : stage[c] = "new" => invoked[c] = NoHandler /\ outcome[c] = "open"

DuringHandler ==
    \A c \in Calls : stage[c] = "awaiting" =>
        invoked[c] # NoHandler /\ outcome[c] = "open" /\ Admissible(request[c])

\* What ResultIsTrue says of one call that is done.
TrueOf(c) ==
    /\ result[c] = "processed" <=> invoked[c] # NoHandler /\ outcome[c] = "returned"
    /\ result[c] = "HANDLER_ERROR" <=> invoked[c] # NoHandler /\ outcome[c] = "threw"
    /\ result[c] = "not processed" <=> invoked[c] = NoHandler /\ Admissible(request[c])
    /\ result[c] \in {"INVALID_SIGNATURE", "EXPIRED_TIMESTAMP"}
         <=> verifySignature /\ ~Trusted(request[c].header)

WInv == WebhooksTypeOK /\ BeforeHandler /\ DuringHandler /\ ResultIsTrue

-----------------------------------------------------------------------------
(***************************************************************************)
(* The checks of a request.                                                *)
(***************************************************************************)
\* A signature is accepted exactly if it can be trusted; whoever is not trusted is
\* told one of two things.
LEMMA VerifiedIsTrusted ==
    ASSUME verifySignature \in BOOLEAN, NEW h \in Headers
    PROVE  /\ Verified(h) = "ok" <=> (verifySignature => Trusted(h))
           /\ Verified(h) \in {"ok", "INVALID_SIGNATURE", "EXPIRED_TIMESTAMP"}
  <1>1. h.form \in {"none", "malformed", "dated", "undated"}
    BY DEF Headers
  <1>2. h.form \in {"dated", "undated"} => h.matches \in BOOLEAN
    BY DEF Headers
  <1>3. ASSUME h.form = "dated"
        PROVE  Expired(h) <=> h.age \notin -Tolerance..Tolerance
    <2>1. h.age \in Int /\ Tolerance \in Nat
      BY <1>3, WebhooksAssumption DEF Headers, Ages
    <2> QED
      BY <1>3, <2>1 DEF Expired
  <1>4. SignatureVerdict(h) \in {"ok", "INVALID_SIGNATURE", "EXPIRED_TIMESTAMP"}
    BY DEF SignatureVerdict
  <1>5. h.form # "none" => (SignatureVerdict(h) = "ok" <=> Trusted(h))
    BY <1>1, <1>2, <1>3 DEF SignatureVerdict, Trusted, Expired
  <1>6. CASE ~verifySignature
    BY <1>6 DEF Verified
  <1>7. CASE verifySignature /\ h.form = "none"
    BY <1>7 DEF Verified, Trusted
  <1>8. CASE verifySignature /\ h.form # "none"
    BY <1>4, <1>5, <1>8 DEF Verified
  <1> QED
    BY <1>6, <1>7, <1>8

LEMMA ParsedIsEvent ==
    ASSUME NEW b \in Bodies
    PROVE  /\ Parsed(b) = "ok" <=> b.json = "event"
           /\ Parsed(b) \in {"ok", "PARSE_ERROR", "INVALID_PAYLOAD"}
           /\ b.json = "event" => b.type \in Types
  <1>1. b.json \in {"broken", "incomplete", "unknown type", "event"}
    BY DEF Bodies
  <1>2. b.json = "event" => b.type \in Types
    BY DEF Bodies
  <1> QED
    BY <1>1, <1>2 DEF Parsed

-----------------------------------------------------------------------------
LEMMA TrueOfAll == ResultIsTrue <=> \A c \in Calls : stage[c] = "done" => TrueOf(c)
  BY DEF ResultIsTrue, TrueOf

LEMMA TrueOfAllAfter ==
    ResultIsTrue' <=> \A c \in Calls : stage'[c] = "done" => TrueOf(c)'
  BY DEF ResultIsTrue, TrueOf

\* A call that nothing happens to stays true.
LEMMA OthersStayTrue ==
    ASSUME ResultIsTrue, NEW d \in Calls, stage[d] = "done",
           request'[d] = request[d], invoked'[d] = invoked[d], outcome'[d] = outcome[d],
           result'[d] = result[d], verifySignature' = verifySignature
    PROVE  TrueOf(d)'
  <1>1. TrueOf(d)
    BY TrueOfAll
  <1>2. Admissible(request[d])' <=> Admissible(request[d])
    BY DEF Admissible
  <1> QED
    BY <1>1, <1>2 DEF TrueOf

\* The table is not what a call that has begun depends on.
LEMMA ChangesKeepWInv ==
    ASSUME WInv, NEW t \in Types, NEW h \in Handlers \cup {NoHandler},
           changes' = changes + 1, handlers' = [handlers EXCEPT ![t] = h],
           UNCHANGED <<verifySignature, stage, request, invoked, outcome, result>>
    PROVE  WInv'
  <1>1. WebhooksTypeOK'
    <2>1. handlers' \in [Types -> Handlers \cup {NoHandler}]
      BY DEF WInv, WebhooksTypeOK
    <2>2. changes' \in Nat
      <3>1. changes \in Nat /\ changes' = changes + 1
        BY DEF WInv, WebhooksTypeOK
      <3> QED
        BY ONLY <3>1
    <2> QED
      BY <2>1, <2>2 DEF WInv, WebhooksTypeOK
  <1>2. BeforeHandler' /\ DuringHandler' /\ ResultIsTrue'
    BY DEF WInv, BeforeHandler, DuringHandler, ResultIsTrue, Admissible
  <1> QED
    BY <1>1, <1>2 DEF WInv

LEMMA ProcessKeepsWInv ==
    ASSUME WInv, NEW c \in Calls, NEW h \in Headers, NEW b \in Bodies, Process(c, h, b)
    PROVE  WInv'
  <1> DEFINE signed == Verified(h)
             parsed == Parsed(b)
  <1>1. /\ stage[c] = "new" /\ invoked[c] = NoHandler /\ outcome[c] = "open"
        /\ request' = [request EXCEPT ![c] = [header |-> h, body |-> b]]
        /\ UNCHANGED <<verifySignature, handlers, outcome, changes>>
    BY DEF Process, WInv, BeforeHandler
  <1>2. /\ verifySignature \in BOOLEAN
        /\ signed = "ok" <=> (verifySignature => Trusted(h))
        /\ signed \in {"ok", "INVALID_SIGNATURE", "EXPIRED_TIMESTAMP"}
    BY VerifiedIsTrusted DEF WInv, WebhooksTypeOK
  <1>3. /\ parsed = "ok" <=> b.json = "event"
        /\ parsed \in {"ok", "PARSE_ERROR", "INVALID_PAYLOAD"}
    BY ParsedIsEvent
  <1>4. request'[c].header = h /\ request'[c].body = b
    BY <1>1 DEF WInv, WebhooksTypeOK
  <1>5. Admissible(request[c])' <=> signed = "ok" /\ parsed = "ok"
    BY <1>1, <1>2, <1>3, <1>4 DEF Admissible
  <1> HIDE DEF signed, parsed
  <1>6. request' \in [Calls -> [header : Headers, body : Bodies]]
    BY <1>1 DEF WInv, WebhooksTypeOK
  <1>7. ASSUME NEW d \in Calls, d # c
        PROVE  request'[d] = request[d]
    BY <1>1, <1>7 DEF WInv, WebhooksTypeOK
  <1>8. ASSUME NEW code \in ErrorCodes \cup {"not processed"},
               Answer(c, code), UNCHANGED invoked,
               code \notin {"HANDLER_ERROR"},
               code = "not processed" <=> signed = "ok" /\ parsed = "ok",
               code \in {"INVALID_SIGNATURE", "EXPIRED_TIMESTAMP"} <=> signed # "ok"
        PROVE  WInv'
    <2>1. /\ stage' = [stage EXCEPT ![c] = "done"]
          /\ result' = [result EXCEPT ![c] = code]
          /\ code # "processed"
      BY <1>8 DEF Answer, ErrorCodes
    <2>2. WebhooksTypeOK'
      BY <1>1, <1>6, <1>8, <2>1 DEF WInv, WebhooksTypeOK
    <2>3. ASSUME NEW d \in Calls
          PROVE  /\ d = c => stage'[d] = "done" /\ result'[d] = code
                 /\ d # c => stage'[d] = stage[d] /\ result'[d] = result[d]
      BY <2>1 DEF WInv, WebhooksTypeOK
    <2>4. BeforeHandler' /\ DuringHandler'
      BY <1>1, <1>7, <1>8, <2>3 DEF WInv, BeforeHandler, DuringHandler, Admissible
    <2>5. ResultIsTrue'
      <3> SUFFICES ASSUME NEW d \in Calls, stage'[d] = "done"
                   PROVE  TrueOf(d)'
        BY TrueOfAllAfter
      <3>1. CASE d = c
        <4>1. result'[c] = code /\ invoked'[c] = NoHandler /\ outcome'[c] = "open"
          BY <1>1, <1>8, <2>3
        <4>2. verifySignature /\ ~Trusted(h) <=> signed # "ok"
          BY <1>2
        <4>3. TrueOf(c)'
          BY <1>5, <1>8, <2>1, <1>1, <1>4, <4>1, <4>2 DEF TrueOf
        <4> QED
          BY <3>1, <4>3
      <3>2. CASE d # c
        <4>1. /\ stage[d] = "done" /\ result'[d] = result[d] /\ request'[d] = request[d]
              /\ UNCHANGED <<invoked, outcome, verifySignature>>
          BY <1>1, <1>7, <1>8, <2>3, <3>2
        <4> QED
          BY <4>1, OthersStayTrue DEF WInv
      <3> QED
        BY <3>1, <3>2
    <2> QED
      BY <2>2, <2>4, <2>5 DEF WInv
  <1>9. ASSUME signed = "ok", parsed = "ok", handlers[b.type] # NoHandler,
               stage' = [stage EXCEPT ![c] = "awaiting"],
               invoked' = [invoked EXCEPT ![c] = handlers[b.type]],
               UNCHANGED result
        PROVE  WInv'
    <2>1. handlers[b.type] \in Handlers \cup {NoHandler}
      BY <1>3, <1>9, ParsedIsEvent DEF WInv, WebhooksTypeOK
    <2>2. WebhooksTypeOK'
      BY <1>1, <1>6, <1>9, <2>1 DEF WInv, WebhooksTypeOK
    <2>3. ASSUME NEW d \in Calls
          PROVE  /\ d = c => stage'[d] = "awaiting" /\ invoked'[d] # NoHandler
                 /\ d # c => stage'[d] = stage[d] /\ invoked'[d] = invoked[d]
      BY <1>9 DEF WInv, WebhooksTypeOK
    <2>4. BeforeHandler' /\ DuringHandler'
      BY <1>1, <1>5, <1>7, <1>9, <2>3 DEF WInv, BeforeHandler, DuringHandler, Admissible
    <2>5. ASSUME NEW d \in Calls, stage'[d] = "done"
          PROVE  TrueOf(d)'
      <3>1. d # c /\ stage[d] = "done"
        BY <2>3, <2>5
      <3>2. /\ invoked'[d] = invoked[d] /\ request'[d] = request[d]
            /\ UNCHANGED <<result, outcome, verifySignature>>
        BY <1>1, <1>7, <1>9, <2>3, <3>1
      <3> QED
        BY <3>1, <3>2, OthersStayTrue DEF WInv
    <2> QED
      BY <2>2, <2>4, <2>5, TrueOfAllAfter DEF WInv
  <1>10. CASE signed # "ok" /\ Answer(c, signed) /\ UNCHANGED invoked
    BY <1>2, <1>8, <1>10 DEF ErrorCodes
  <1>11. CASE signed = "ok" /\ parsed # "ok" /\ Answer(c, parsed) /\ UNCHANGED invoked
    BY <1>3, <1>8, <1>11 DEF ErrorCodes
  <1>12. CASE signed = "ok" /\ parsed = "ok" /\ Answer(c, "not processed") /\ UNCHANGED invoked
    BY <1>8, <1>12
  <1> QED
    BY <1>9, <1>10, <1>11, <1>12 DEF Process, signed, parsed

\* The call answers with how its handler ended.
LEMMA HandlerEndsKeepsWInv ==
    ASSUME WInv, NEW c \in Calls, HandlerReturns(c) \/ HandlerThrows(c)
    PROVE  WInv'
  <1>1. /\ stage[c] = "awaiting" /\ invoked[c] # NoHandler /\ Admissible(request[c])
        /\ stage' = [stage EXCEPT ![c] = "done"]
        /\ UNCHANGED <<verifySignature, handlers, request, invoked, changes>>
    BY DEF HandlerReturns, HandlerThrows, Answer, WInv, DuringHandler
  <1>2. PICK how \in {<<"returned", "processed">>, <<"threw", "HANDLER_ERROR">>} :
               /\ outcome' = [outcome EXCEPT ![c] = how[1]]
               /\ result' = [result EXCEPT ![c] = how[2]]
    BY DEF HandlerReturns, HandlerThrows, Answer
  <1>3. \/ how[1] = "returned" /\ how[2] = "processed"
        \/ how[1] = "threw" /\ how[2] = "HANDLER_ERROR"
    BY <1>2
  <1>4. WebhooksTypeOK'
    BY <1>1, <1>2, <1>3 DEF WInv, WebhooksTypeOK, ErrorCodes
  <1>5. ASSUME NEW d \in Calls
        PROVE  /\ d = c => /\ stage'[d] = "done"
                           /\ outcome'[d] = how[1] /\ result'[d] = how[2]
               /\ d # c => /\ stage'[d] = stage[d]
                           /\ outcome'[d] = outcome[d] /\ result'[d] = result[d]
    BY <1>1, <1>2 DEF WInv, WebhooksTypeOK
  <1>6. BeforeHandler' /\ DuringHandler'
    BY <1>1, <1>5 DEF WInv, BeforeHandler, DuringHandler, Admissible
  <1>7. TrueOf(c)'
    <2>1. /\ outcome'[c] = how[1] /\ result'[c] = how[2] /\ invoked'[c] # NoHandler
          /\ Admissible(request[c]) /\ UNCHANGED <<request, verifySignature>>
      BY <1>1, <1>5
    <2> QED
      BY <1>3, <2>1 DEF TrueOf, Admissible
  <1>8. ASSUME NEW d \in Calls, d # c, stage'[d] = "done"
        PROVE  TrueOf(d)'
    <2>1. /\ outcome'[d] = outcome[d] /\ result'[d] = result[d] /\ TrueOf(d)
          /\ UNCHANGED <<request, verifySignature, invoked>>
      BY <1>1, <1>5, <1>8, TrueOfAll DEF WInv
    <2> QED
      BY <2>1 DEF TrueOf, Admissible
  <1> QED
    BY <1>4, <1>6, <1>7, <1>8, TrueOfAllAfter DEF WInv

LEMMA NextKeepsWInv == WInv /\ [WebhooksNext]_webhookVars => WInv'
  <1> SUFFICES ASSUME WInv, [WebhooksNext]_webhookVars
               PROVE  WInv'
    OBVIOUS
  <1>1. ASSUME NEW t \in Types, Off(t) \/ \E h \in Handlers : On(t, h)
        PROVE  WInv'
    BY <1>1, ChangesKeepWInv DEF On, Off
  <1>2. ASSUME NEW c \in Calls, \E h \in Headers, b \in Bodies : Process(c, h, b)
        PROVE  WInv'
    BY <1>2, ProcessKeepsWInv
  <1>3. ASSUME NEW c \in Calls, HandlerReturns(c) \/ HandlerThrows(c)
        PROVE  WInv'
    BY <1>3, HandlerEndsKeepsWInv
  <1>4. CASE UNCHANGED webhookVars
    BY <1>4 DEF webhookVars, WInv, WebhooksTypeOK, BeforeHandler, DuringHandler, ResultIsTrue,
                Admissible
  <1> QED
    BY <1>1, <1>2, <1>3, <1>4 DEF WebhooksNext

LEMMA InitEstablishesWInv == WebhooksInit => WInv
  <1> SUFFICES ASSUME WebhooksInit
               PROVE  WInv
    OBVIOUS
  <1>1. NoRequest \in [header : Headers, body : Bodies]
    BY DEF NoRequest, Headers, Bodies
  <1> HIDE DEF NoRequest
  <1>2. WebhooksTypeOK
    BY <1>1 DEF WebhooksInit, WebhooksTypeOK
  <1>3. BeforeHandler /\ DuringHandler /\ ResultIsTrue
    BY DEF WebhooksInit, BeforeHandler, DuringHandler, ResultIsTrue
  <1> QED
    BY <1>2, <1>3 DEF WInv

-----------------------------------------------------------------------------
\* The inductive invariant holds in every reachable state.
THEOREM WebhooksInvariance == WebhooksSpec => []WInv
  BY InitEstablishesWInv, NextKeepsWInv, PTL DEF WebhooksSpec

\* The variables keep their types: a call that is over has no way back, and resolves
\* with an error code or with whether it processed the event.
THEOREM WebhooksTypeCorrect == WebhooksSpec => []WebhooksTypeOK
  <1>1. WInv => WebhooksTypeOK
    BY DEF WInv
  <1> QED
    BY <1>1, WebhooksInvariance, PTL

\* What a call of process() resolves with is true of it, for any number of calls in
\* progress and whatever is registered or removed meanwhile.
THEOREM ResultsAreTrue == WebhooksSpec => []ResultIsTrue
  <1>1. WInv => ResultIsTrue
    BY DEF WInv
  <1> QED
    BY <1>1, WebhooksInvariance, PTL

\* No handler runs but the one registered for the type when the request came in, once
\* a request, and only for requests that qualify.
THEOREM HandlersOfTheMoment == WebhooksSpec => HandlerOfTheMoment
  <1> DEFINE Moment ==
        \A c \in Calls : invoked'[c] # invoked[c] =>
          /\ stage[c] = "new"
          /\ Admissible(request'[c])
          /\ invoked'[c] = handlers[request'[c].body.type]
  <1>1. ASSUME WInv, NEW c \in Calls, NEW h \in Headers, NEW b \in Bodies, Process(c, h, b)
        PROVE  Moment
    <2> SUFFICES ASSUME NEW d \in Calls, invoked'[d] # invoked[d]
                 PROVE  /\ stage[d] = "new"
                        /\ Admissible(request'[d])
                        /\ invoked'[d] = handlers[request'[d].body.type]
      OBVIOUS
    <2>1. /\ Verified(h) = "ok" /\ Parsed(b) = "ok" /\ stage[c] = "new"
          /\ invoked' = [invoked EXCEPT ![c] = handlers[b.type]]
          /\ request' = [request EXCEPT ![c] = [header |-> h, body |-> b]]
      BY <1>1 DEF Process
    <2>2. /\ invoked \in [Calls -> Handlers \cup {NoHandler}]
          /\ request \in [Calls -> [header : Headers, body : Bodies]]
          /\ verifySignature \in BOOLEAN
      BY <1>1 DEF WInv, WebhooksTypeOK
    <2>3. d = c /\ request'[d] = [header |-> h, body |-> b] /\ invoked'[d] = handlers[b.type]
      BY <2>1, <2>2
    <2>4. (verifySignature => Trusted(h)) /\ b.json = "event"
      BY <1>1, <2>1, <2>2, VerifiedIsTrusted, ParsedIsEvent
    <2> QED
      BY <2>1, <2>3, <2>4 DEF Admissible
  <1>2. WInv /\ [WebhooksNext]_webhookVars => Moment
    <2>1. ASSUME WInv, WebhooksNext
          PROVE  Moment
      <3>1. CASE UNCHANGED invoked
        BY <3>1
      <3>2. CASE \E c \in Calls, h \in Headers, b \in Bodies : Process(c, h, b)
        BY <1>1, <2>1, <3>2
      <3> QED
        BY <2>1, <3>1, <3>2 DEF WebhooksNext, On, Off, HandlerReturns, HandlerThrows
    <2> QED
      BY <2>1 DEF webhookVars
  <1> QED
    BY <1>2, WebhooksInvariance, PTL DEF WebhooksSpec, HandlerOfTheMoment
=============================================================================
