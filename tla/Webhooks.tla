------------------------------ MODULE Webhooks ------------------------------
(***************************************************************************)
(* Events that the provider reports, createWebhookHandler of               *)
(* src/src/webhooks/handler.ts: the table of handlers, and calls of        *)
(* process() that verify a request, parse it (src/src/webhooks/parser.ts)  *)
(* and await the handler, several of them at the same time and with the    *)
(* table changing under them.                                              *)
(***************************************************************************)
EXTENDS Integers

CONSTANTS
    Types,      \* VALID_EVENT_TYPES
    Handlers,   \* functions that may be registered
    Tolerance,  \* signatureTolerance
    Requests,   \* how many calls of process() there are (a bound)
    MaxChanges  \* how many calls of on() and off() (a bound)

ASSUME WebhooksAssumption ==
    /\ Tolerance \in Nat
    /\ Requests \in Nat /\ MaxChanges \in Nat

Calls == 1..Requests

NoHandler == "no handler"
ErrorCodes == {"INVALID_SIGNATURE", "EXPIRED_TIMESTAMP", "PARSE_ERROR", "INVALID_PAYLOAD",
               "HANDLER_ERROR"}

\* The ages of timestamps, negative in the future, on either side of the limits.
Ages == {-Tolerance - 1, -Tolerance, Tolerance, Tolerance + 1}

\* A request, as far as process() tells one from another.  A timestamp that is not a
\* number has no age; a mismatch may be one of length or of content.
Headers ==
    [form : {"none", "malformed"}] \cup
    [form : {"dated"}, age : Ages, matches : BOOLEAN] \cup
    [form : {"undated"}, matches : BOOLEAN]
Bodies ==
    [json : {"broken", "incomplete", "unknown type"}] \cup
    [json : {"event"}, type : Types]

NoRequest == [header |-> [form |-> "none"], body |-> [json |-> "broken"]]

VARIABLES
    verifySignature,    \* the option
    handlers,           \* the handler of each type, or NoHandler
    stage,              \* per call of process(): "new", "awaiting" or "done"
    request,            \* what it was called with
    invoked,            \* the handler it invoked, or NoHandler
    outcome,            \* history: how that one ended, "open" before
    result,             \* what it resolved with: an error code, or whether it processed
    changes             \* history: how many calls of on() and off() there were

webhookVars == <<verifySignature, handlers, stage, request, invoked, outcome, result, changes>>

-----------------------------------------------------------------------------
(***************************************************************************)
(* verifySignatureIfEnabled and verifyWebhookSignature; "ok" is null.      *)
(***************************************************************************)
TooOldOnly(h) == h.form = "dated" /\ h.age > Tolerance    \* flawed

\* Math.abs(now - timestamp) > tolerance, which is false of NaN
Expired(h) == h.form = "dated" /\ (h.age > Tolerance \/ -h.age > Tolerance)

\* verifyWebhookSignature; the checks come in this order.
SignatureVerdict(h) ==
    IF h.form = "malformed" THEN "INVALID_SIGNATURE"
    ELSE IF Expired(h) THEN "EXPIRED_TIMESTAMP"
    ELSE IF h.matches THEN "ok" ELSE "INVALID_SIGNATURE"

VerifiedIfPresent(h) ==    \* flawed
    IF verifySignature /\ h.form # "none" THEN SignatureVerdict(h) ELSE "ok"

Verified(h) ==
    CASE ~verifySignature -> "ok"
      [] verifySignature /\ h.form = "none" -> "INVALID_SIGNATURE"
      [] verifySignature /\ h.form # "none" -> SignatureVerdict(h)

\* parseWebhookPayload
Parsed(b) ==
    CASE b.json = "broken" -> "PARSE_ERROR"
      [] b.json \in {"incomplete", "unknown type"} -> "INVALID_PAYLOAD"
      [] b.json = "event" -> "ok"

-----------------------------------------------------------------------------
On(t, h) ==
    /\ changes < MaxChanges
    /\ changes' = changes + 1
    /\ handlers' = [handlers EXCEPT ![t] = h]
    /\ UNCHANGED <<verifySignature, stage, request, invoked, outcome, result>>

Off(t) ==
    /\ changes < MaxChanges
    /\ changes' = changes + 1
    /\ handlers' = [handlers EXCEPT ![t] = NoHandler]
    /\ UNCHANGED <<verifySignature, stage, request, invoked, outcome, result>>

Answer(c, code) ==
    /\ stage' = [stage EXCEPT ![c] = "done"]
    /\ result' = [result EXCEPT ![c] = code]

\* The call up to its await, handler(event) included.
Process(c, h, b) ==
    /\ stage[c] = "new"
    /\ request' = [request EXCEPT ![c] = [header |-> h, body |-> b]]
    /\ UNCHANGED <<verifySignature, handlers, outcome, changes>>
    /\ LET signed == Verified(h)
           parsed == Parsed(b)
       IN  \/ signed # "ok" /\ Answer(c, signed) /\ UNCHANGED invoked
           \/ signed = "ok" /\ parsed # "ok" /\ Answer(c, parsed) /\ UNCHANGED invoked
           \/ /\ signed = "ok" /\ parsed = "ok"
              /\ handlers[b.type] = NoHandler
              /\ Answer(c, "not processed")
              /\ UNCHANGED invoked
           \/ /\ signed = "ok" /\ parsed = "ok"
              /\ handlers[b.type] # NoHandler
              /\ stage' = [stage EXCEPT ![c] = "awaiting"]
              /\ invoked' = [invoked EXCEPT ![c] = handlers[b.type]]
              /\ UNCHANGED result

HandlerReturns(c) ==
    /\ stage[c] = "awaiting"
    /\ outcome' = [outcome EXCEPT ![c] = "returned"]
    /\ Answer(c, "processed")
    /\ UNCHANGED <<verifySignature, handlers, request, invoked, changes>>

\* Flawed: the promise of the handler is returned, not awaited in the try block.
ProcessRejects(c) ==
    /\ stage[c] = "awaiting"
    /\ outcome' = [outcome EXCEPT ![c] = "threw"]
    /\ stage' = [stage EXCEPT ![c] = "rejected"]
    /\ UNCHANGED <<verifySignature, handlers, request, invoked, result, changes>>

\* The catch block around the await.
HandlerThrows(c) ==
    /\ stage[c] = "awaiting"
    /\ outcome' = [outcome EXCEPT ![c] = "threw"]
    /\ Answer(c, "HANDLER_ERROR")
    /\ UNCHANGED <<verifySignature, handlers, request, invoked, changes>>

WebhooksInit ==
    /\ verifySignature \in BOOLEAN
    /\ handlers = [t \in Types |-> NoHandler]
    /\ stage = [c \in Calls |-> "new"]
    /\ request = [c \in Calls |-> NoRequest]
    /\ invoked = [c \in Calls |-> NoHandler]
    /\ outcome = [c \in Calls |-> "open"]
    /\ result = [c \in Calls |-> "none"]
    /\ changes = 0

WebhooksNext ==
    \/ \E t \in Types : Off(t) \/ \E h \in Handlers : On(t, h)
    \/ \E c \in Calls : \/ \E h \in Headers, b \in Bodies : Process(c, h, b)
                        \/ HandlerReturns(c)
                        \/ HandlerThrows(c)

WebhooksSpec == WebhooksInit /\ [][WebhooksNext]_webhookVars

-----------------------------------------------------------------------------
\* The types of the variables.
WebhooksTypeOK ==
    /\ verifySignature \in BOOLEAN
    /\ handlers \in [Types -> Handlers \cup {NoHandler}]
    /\ stage \in [Calls -> {"new", "awaiting", "done"}]
    /\ request \in [Calls -> [header : Headers, body : Bodies]]
    /\ invoked \in [Calls -> Handlers \cup {NoHandler}]
    /\ outcome \in [Calls -> {"open", "returned", "threw"}]
    /\ result \in [Calls -> ErrorCodes \cup {"none", "processed", "not processed"}]
    /\ changes \in Nat

\* What a handler may rely on: the sender knew the secret, and a timestamp that is a
\* number is near, in the past or in the future.  One that is not a number passes,
\* as in the code: this says nothing of how old such a request is.
Trusted(h) ==
    /\ h.form \in {"dated", "undated"} /\ h.matches
    /\ h.form = "dated" => h.age \in -Tolerance..Tolerance

Admissible(r) ==
    /\ verifySignature => Trusted(r.header)
    /\ r.body.json = "event"

\* A request reaches at most one handler, once: the one registered for its event's type
\* when it came in.  Replacing or removing that while it runs changes nothing for the
\* requests it has, and a request that does not qualify reaches none.  An event that the
\* provider sends again is another request.
HandlerOfTheMoment ==
    [][\A c \in Calls : invoked'[c] # invoked[c] =>
         /\ stage[c] = "new"
         /\ Admissible(request'[c])
         /\ invoked'[c] = handlers[request'[c].body.type]]_webhookVars

\* The result tells the caller what happened, for all requests in progress together:
\* "processed" and HANDLER_ERROR how the handler ended, any other error that the
\* request did not qualify, whose signature is reported before its contents.
ResultIsTrue ==
    \A c \in Calls : stage[c] = "done" =>
        /\ result[c] = "processed" <=> invoked[c] # NoHandler /\ outcome[c] = "returned"
        /\ result[c] = "HANDLER_ERROR" <=> invoked[c] # NoHandler /\ outcome[c] = "threw"
        /\ result[c] = "not processed" <=> invoked[c] = NoHandler /\ Admissible(request[c])
        /\ result[c] \in {"INVALID_SIGNATURE", "EXPIRED_TIMESTAMP"}
             <=> verifySignature /\ ~Trusted(request[c].header)
=============================================================================
