# Verification of email-manager

TLA+ models of the parts of `@nextnode/email-manager` that keep state: the two
email queues and what they promise, the token buckets and who waits for which, batch
sending, and the events that come back as webhooks. TLC checks them on small
instances and TLAPS proves the main results for every size. Paths below are
relative to the repository (`src/` is its library, so the queue is
`src/src/queue/memory-queue.ts`).

- [The system](#the-system)
- [The modules and the code](#the-modules-and-the-code)
- [The runs](#the-runs)
- [Where code and documents disagree](#where-code-and-documents-disagree)
- [The proofs](#the-proofs)
- [Assumptions and limits](#assumptions-and-limits)
- [Plan](#plan)

## The system

A program creates an email manager. `send()` goes to the provider at once or into
the manager's queue, `enqueue()` into the queue, `sendBatch()` through a queue of
its own or through the provider's batch call. Everything runs in one Node.js
process on one event loop: nothing is parallel, but whatever is awaited, and every
timer, lets other calls in. That is where the difficulty of this code lies.

| Component | State | Operations | What is hard | What makes it correct |
|---|---|---|---|---|
| In-memory queue, `queue/memory-queue.ts` | map of jobs, list of pending ids, flags `isRunning`, `isPaused`, `isProcessing`, outstanding timers | add, addBatch, start, stop, pause, resume, clear, destroy; answers, retry and schedule timers | calls between the two awaits of `processJob`; timers that outlive the job, the run or the pause they were made for; `start()` during an attempt | one attempt at a time; no message sent twice; nothing early; no job left without a way to be sent; a bounded number of attempts; order; `stop()` and `destroy()` wait |
| SQLite queue, `queue/sqlite-queue.ts` | a table of jobs; the flags; retry timers; the database handle | the same, and cleanup, shutdown on a signal, restart | a crash between an answer and its record; restoring rows at start; a database closed under an attempt; stale retry timers | the table tells the truth after any crash; no row lost; bounded re-sending; everything is settled in the end |
| Token bucket, `lib/rate-limiter.ts` | tokens, time of the last refill, a destroyed flag; a process-wide instance | acquire, getStatus, destroy; configure, get and reset of the global one | callers asleep at the same time; sleeps rounded to milliseconds; refills during a sleep | never more sends than the limit allows, also after a reset; no sleeper forgotten |
| Events and limiter coordinator, `queue/queue-utils.ts` | handler sets | emit, on, off; global then local acquire | a token of the global bucket held while waiting for the local one | one handler's exception does not reach another |
| Batch monitor, `queue/batch-monitor.ts` | per batch: total, completed, failed | startBatch, recordSuccess, recordFailure, completeBatch; webhooks | counts in memory beside the table; user callbacks in the middle | counts agree with the table; complete exactly when all is recorded |
| Ephemeral queue and queue strategy, `queue/ephemeral-batch-queue.ts`, `batch/queue-strategy.ts` | a completion promise, `isCompleted` | add, start, wait with a timeout, destroy | completion and timeout race; destruction with work outstanding | the report is true; nothing is sent or left behind afterwards; it returns |
| Native strategy, `batch/native-strategy.ts` | results and counts of one call | a loop over chunks | offsets; chunks that fail | every message has its result, in its place |
| Dispatcher, `batch/dispatcher.ts`; queue factory, `queue/index.ts` | none | a choice | | |
| Email manager, `email-manager.ts` | the queue, if any | send, sendTemplate, enqueue, sendBatch | direct sends share the global bucket with the queue | |
| Resend provider, `providers/` | none | send, sendBatch, validateConfig | a message of a chunk that is invalid; answers that are lost | a chunk goes out whole or not at all; errors become results |
| Webhooks, `webhooks/` | handler table | on, off, process | handlers replaced while an event is handled; a timestamp that is no number | nothing is handled before its signature is checked, and by one handler; the answer says what happened |
| Template renderer, utilities, logging, types | none | | | |

How they interact. A queue owns a token bucket and, if a global one is configured,
takes a token from each before it sends; a direct send takes one from the global
bucket. The SQLite queue of a batch calls the monitor from inside `processJob`; the
monitor calls the user's `onProgress` and, when the batch is complete, the
ephemeral queue's `handleComplete`, which resolves the promise `sendBatch` awaits.
A signal calls `gracefulShutdown` of every open SQLite queue.

`PROJECT.json` lists the components with what is modelled of each, the hazards with
their lines, and, under `map`, the lines every definition stands for.

## The modules and the code

| Module | Models | Builds on |
|---|---|---|
| `EmailQueue` | what the interface `EmailQueue` promises: the life of a job, no lists, tables or timers | |
| `MemoryQueue` | the in-memory queue; implements `EmailQueue` | `EmailQueue` (refinement) |
| `SQLiteQueue` | the persistent queue, with crashes and restarts; implements `EmailQueue` | `EmailQueue` (refinement) |
| `QueueFactory` | `createQueue`, and the liveness of the queue it returns | instances of `MemoryQueue`, `SQLiteQueue` |
| `RateLimiter` | the token bucket, in time | |
| `SendLimits` | direct senders and a queue, between the global bucket and the queue's own | `RateLimiter`, twice |
| `QueueBatch` | `sendBatch` in queue mode: driver, ephemeral queue, monitor | `SQLiteQueue` |
| `NativeBatch` | `sendBatch` in native mode, with the provider's batch call | |
| `BatchDispatch` | either of the two | `QueueBatch`, `NativeBatch` |
| `Webhooks` | verifying, parsing and handling the provider's events | |
| `MC...` | their instances for TLC | |
| `EmailQueueProofs`, `MemoryQueueProofs`, `SQLiteQueueProofs`, `RateLimiterProofs`, `SendLimitsProofs`, `NativeBatchProofs`, `WebhooksProofs` | their theorems | the module of that name |
| `BatchDispatchProofs` | theorems about `QueueBatch` and `BatchDispatch` | `SQLiteQueueProofs` |

**An action is what runs between two awaits.** JavaScript runs a callback to its end,
so a call of a queue together with the `processNext()` at its end and the
synchronous beginning of `processJob` is one step. `ProcessNext` in both queues is
therefore an operator, not an action: each action says what it makes of the flag,
the list and the statuses, and passes these to `ProcessNext`, which fixes the next
state, the way the code calls the function last. The two awaits inside an attempt, for the
bucket and for the provider, touch nothing of the queue and are one suspension.

*MemoryQueue.* `jobs` is the map, `status`, `attempts` and `scheduledFor` its jobs'
fields (kept after a job leaves the map, because `processJob` holds the object),
`pending` the list with its duplicates and dead ids, `active` the suspended calls of
`processJob`, `schedTimers` and `retryTimers` how many timers are outstanding per
job. Job ids are numbers in the order of `add()`, which is also the order in which
`start()` iterates the map. Time is whether a job's date has come.

*SQLiteQueue.* The columns are functions of the row; `flight` says what became of the
attempt `processJob` waits for, so that the provider's answer and the process's
hearing of it are two steps a crash can separate. `Update` is a no-op on a row that
is gone, as the SQL is. `createdAt` has ties, and `Oldest` leaves the choice among
them open, as `ORDER BY created_at` does. `Shutdown`, `Destroy` and the two `...Ends`
actions are `gracefulShutdown` and `destroy` around their waiting; the 30 s limit of
the wait is that `ShutdownEnds` and `DestroyEnds` do not look at `isProcessing`.
`DiesUncaught` is what a statement on the closed database does to the process.

*EmailQueue.* A job is new, waits, is being sent, was accepted without the queue
having heard of it, was sent, failed, or is gone. `Go` is the one rule behind every action:
whatever happens to a queue, it may take up a job that is due, if it runs and has none
under way. Two constants say in what the two backends differ: `Final`, the outcomes a
job is never taken up from again (`{"sent"}` in memory, none in SQLite, where a stale
timer reopens any), and `MayCrash`. `Life` in each of the queues is the mapping from
what it stores to a job's life.

*QueueFactory.* One set of variables, those of the interface, for whichever backend
`CreateQueue` chose; the other one's own variables stay at their initial values.

*RateLimiter.* Time in milliseconds; tokens in units, so that fractions are exact.
`Sleep` is `setTimeout` of a length that is not whole: it is rounded down, and at
least 1 ms. `need` counts the sleep down; the timer rings then or any time later.
`credit` and `own` are not in the code: they are the buckets the *promise* speaks of, one
for all and one per caller, filled at the configured rate and charged for every send.

*SendLimits.* The queue's own bucket is the `RateLimiter` it extends, the global one a
second instance, `G`. `configured` says whether the singleton exists. It may be destroyed
and stay (`DestroyGlobal`), or be reset, which destroys it and lets go of it: those asleep in
the old bucket are `orphans`, whom nothing wakes but their own timer and who change
nothing any more. `hold` is where the queue stands between its two waits.
`sentLocal` and `sentGlobal` charge the message when it is sent, not when its token is taken,
which is what a rate is about.

*QueueBatch.* The SQLite queue in the hands of `sendBatchWithQueue`, which calls
`addBatch`, `start` and `destroy` once each. `tracked`, `total`, `completed` and
`failed` are the monitor's entry, `promise` and `summary` the deferred completion,
`stage` where the driver stands. A callback of the user may throw at each call:
`SuccessTakenForFailure` is the throw caught by `processJob`'s own `catch`,
`FailureThrows` the one nobody catches. Continuations of promises are separate
steps, which allows more orders than the microtask queue does.

*NativeBatch.* Messages are numbered, a result is its index and whether it is a
success. `Admissible` is what the provider checks before it calls the API; `accepted`
records what it reported as sent, `taken` what the API took, which is more when an
answer is lost.

*Webhooks.* A request is what `process()` can tell apart: a header that is missing,
malformed, or carries a timestamp (of some age, or not a number) and a signature that matches or
not; a body that is broken, incomplete, of unknown type, or an event. Each call of
`process()` is one step up to `await handler(event)` and one when the handler ends, and
calls overlap. `JSON.parse` of `null` counts as broken, as its fields are read inside the
same `try`.

Definitions marked `\* flawed` are never used. Each is the definition below it with
a plausible mistake; putting it in that one's place makes a property fail, which is
how we know the property depends on that line (`PROJECT.json`, `mutants`).

## The runs

| Run | Instance | Shows |
|---|---|---|
| `memory_safety` | 3 jobs, 2 retries, 2 starts | `KeepsPromise` (the refinement), `OneAtATime`, `DeliveredOnce`, `NeverEarly`, `NoStrandedJob`, `RetryBudget`, `FirstAttemptsInOrder`, `DestroyCutsNothingOff` under every order of calls, timers and answers |
| `sqlite_safety` | 2 rows, 2 retries, 2 starts, 1 restart | `KeepsPromise`, `OneAtATime`, `NoOrphanedRow`, `CompletedWasDelivered`, `NeverEarly`, `ResendBudget`, `RetryBudget`, `NoRowLost`, with crashes and signals at any moment |
| `queue_live` | either backend, 3 jobs or 2 rows, callers that add, start and stop, a crash and a restart | `MemoryJobsSettle`, `RowsSettle`: every job of a queue that stays running is settled; `StopReturns` |
| `send_limits` | a queue and 2 direct senders; a token of 3 units, of which 1 per ms comes into the queue's bucket and 2 into the global one | `RateRespected` of the queue's bucket, `EachKeepsGlobalRate` of every sender at the global one, `SendsKeepBothRates` of the messages; `EveryoneGetsThrough`, resets and destruction notwithstanding |
| `batch` | 3 messages with 2 retries, or up to 5, valid or not, in chunks of 2 | `RemainingIsTrue`, `SummaryIsTrue`, `SendsAreBounded`, `FileIsDeleted`, `QuietAfterReturn`, `SendBatchReturns`; `ResultsInPlace`, `CountsAddUp`, `ChunksStayWhole` |
| `webhooks` | 2 requests at a time, 2 types, 2 handlers, 3 changes of the table | `ResultIsTrue`, and `HandlerOfTheMoment`: one handler per request, the one registered then, after verification. An event delivered again is another request |
| `memory_paused_retry`, `memory_head_of_line`, `sqlite_settled`, `sqlite_scheduled`, `rate_two_callers`, `batch_throwing` | the smallest that show it | the disagreements below |

**The bounds and why they are enough.** Sequential processing makes most
interactions pairwise: a job in flight and one that waits. Three jobs in memory add
one behind the second, which is what the list's order and a dead id or scheduled job at its
head need. Two retries give an attempt that may be repeated and one that may not.
Two starts give a `start()` while something is in flight, backing off or settled;
that is where stale timers come from. One restart gives a crash with a successor.
In `batch`, 3 messages let a batch be incomplete before and after a retry, and
5 messages in chunks of 2 give two whole chunks and a short one. In
`send_limits` the token is no multiple of what trickles into the global bucket per
millisecond, so rounding matters; its burst is two tokens; three senders let two
sleep for the token a third one takes. In `webhooks` two requests let one arrive while
the other's handler runs, and three changes let a handler be set, replaced and removed;
the ages lie on either side of the tolerance, in the past and in the future. The proofs
remove these bounds for all the safety properties of these runs.

**The properties that need a word.** `KeepsPromise` is the specification of `EmailQueue`
under the mapping: it rules out, for one, a job that comes back once it is gone, an
attempt begun in a queue that is stopped or paused, and, in memory, a sent job taken
up again. `SettledIsFinal`, which the SQLite queue violates, is why its `Final` is
empty: the finding is the difference between the two backends' promises.
`EachKeepsGlobalRate` is what remains of the limit when senders share a bucket: together
they exceed it (`rate_two_callers`), each one by itself does not. `SendsKeepBothRates`
allows one message less at the global limit, the one whose token the queue took before it
waited for its own. `RetryBudget` and `ResendBudget` say what a
`start()` on a running queue, or a restart, may cost: one attempt more for a job, and
in the SQLite queue one delivery more, each. The in-memory queue never delivers
twice (`DeliveredOnce`), because `processJob` skips a completed job. `NoRowLost`
names the only three ways for a row to go. `SendsAreBounded` is what is left of a batch's
report when callbacks throw: the retry budget holds all the same. `QuietAfterReturn` says that once
`sendBatch` has returned no attempt of the batch begins, and only the message then in flight
may still be delivered. `SendBatchReturns` excludes three cases in which it does not: an empty
batch without a timeout, which never completes because no job of it is ever recorded; a
signal that closed the database; and a process that is gone.

**Fairness.** Weak fairness of timers, of the polling loops of `stop()` and
`destroy()`, and of promise continuations: the event loop runs what is due. Weak
fairness of "the provider accepts or refuses": an assumption, since neither queue
puts a timeout on `send()`; which of the two is never assumed. Calls, signals,
crashes, restarts and callbacks that throw are never obliged to happen.
`MemoryJobsSettle` and `RowsSettle` therefore have the premise that the queue is running
from some time on, and `QueueFactory` leaves out callers that pause, clear or destroy;
pausing breaks the property (`memory_paused_retry`). In `SendLimits` time goes on, due
timers ring (each sleeper has one of its own, there is no line at a bucket), and the queue
goes on from one wait to the next; a direct sender is never obliged to send.

**Stopping.** The queues and the batch may come to rest: every job settled and no
call coming is a state without a next step once the bounds are used up, so those runs
do not look for deadlock. `send_limits` and `rate_two_callers` do: time always goes on.

## Where code and documents disagree

| Run | The code | Says otherwise |
|---|---|---|
| `memory_paused_retry` | a retry timer that rings in a paused queue is dropped and `resume()` does not make up for it (`memory-queue.ts:200`) | `types/queue.ts`, "Jobs waiting for retry" |
| `memory_head_of_line` | a scheduled job, or the id of a job that `clear()` removed, at the head of the list ends `processNext` (`:145`, `:147`) although later jobs are ready | `queue.spec.ts`, "should process pending jobs when started" |
| `sqlite_settled` | a retry timer sets its row to 'pending' whatever it says (`sqlite-queue.ts:542`); after a second `start()` a completed message is sent again | `sqlite-queue.ts`, "Handle successful job completion", "Handle permanent job failure" |
| `sqlite_scheduled` | nothing wakes the queue when a row's time comes (`:492`) | `README.md`, "Schedule for future" |
| `rate_two_callers` | callers asleep at the same time are let through together for one token (`rate-limiter.ts:94`) | `rate-limiter.ts`, "10 emails/second max" |
| `batch_throwing` | a callback that throws makes a delivered message a failed attempt (`sqlite-queue.ts:518`): sent again, counted twice | `types/queue.ts`, "Total emails successfully sent" |

One more was found by reading and has no run. `README.md`, line 181, says that the global rate
limiter coordinates "rate limits across all email operations (direct sends, queues, batch
operations)". A queue-mode batch does wait for it, as its queue does. A native batch
(`native-strategy.ts:43-55`) makes a limiter of its own for each call and never looks at the
global one, so that two calls of `sendBatch`, or one beside direct senders, may together
exceed it. The call that is missing touches no state; a model could only leave it out, too.

## The proofs

All are of the specifications TLC checks, for every value of the constants that
satisfies the modules' ASSUMEs, which say only that counts are natural numbers (and
that a millisecond brings something to a bucket, and no more than a token). Every
invariant and action property of the passing runs is proved; liveness is not.

**MemoryQueueProofs.** `TypeOK`, `OneAtATime`, `DeliveredOnce`, `NeverEarly`,
`NoStrandedJob`, `DestroyCutsNothingOff`. None of the safety properties is inductive
alone: that a message is not sent twice rests on what the statuses of jobs in flight
may be, which rests on there being only one. `IInv` is stated as a relation `Sound`
between the values `processNext` works on. One lemma shows that `ProcessNext` keeps
it; the proof of each action only shows that what the action passes is sound.

**SQLiteQueueProofs.** `TypeOK`, `OneAtATime`, `NoOrphanedRow`,
`CompletedWasDelivered`, `NeverEarly`, `NoRowLost`, by the same scheme. The part
`Attended` ("a row that says processing is in flight") is broken by a crash and
mended by the restoring that a restart begins with, so the invariant has it only for a
process that is up.

The two *budgets*, `ResendBudget` and `RetryBudget`, are not inductive, because
attempts are yet to come from timers that are outstanding. The argument (`BInv`)
counts *chances*: a job's retry timers, plus one while its row is pending.
An attempt uses up a chance; a refusal turns the attempt into a timer; a timer that
rings turns into a pending row, or into nothing if the row was pending already; only
restoring (a `start()` after the first, or a restart) makes one out of nothing. So
chances, attempts and deliveries together stay within 1 plus the restorings. Before
the first `start()` there is nothing to restore, which is why it is free.

**The same of MemoryQueue.** For its `RetryBudget` the chances of a job are its places
in the list, which may be several, and its timers. Lemmas about the number of times a
job occurs in a list, in what `push` makes of it and in what `shift` leaves,
carry the count. `FirstAttemptsInOrder` is an action property, proved from `LineInv`: a job
without a date that was never attempted is in the list, and at some place before any of
its successor's there is one of its own. `processNext` may skip completed jobs, and
`start()` appends ids that are there already; neither puts a successor in front.

**The refinements.** `KeepsPromise`, for each queue. Where
the code calls `processNext`, `EmailQueue` has `Go`: a lemma (`ProcessNextGoes`) shows
that the one implements the other, and each action then only has to show which lives it
passes on. Besides `IInv` the steps need one fact each: in memory, that an id not handed
out has the status `add` gives it (`Unused`); in SQLite, that a row in flight is not
settled (`FlightUnsettled`), without which a crash could turn a sent job into one that
waits to be sent.

**RateLimiterProofs.** `EachKeepsRate`, with no hypothesis on who uses the bucket, and
`RateRespected` under the hypothesis `OneSender`, that no two callers use it at once.
The latter is what `OneAtATime`, proved for both queues, guarantees of a queue's own
bucket; without it the property is false (`rate_two_callers`). The invariant says of every
caller that its own credit covers what the bucket holds, and that credit plus what is
still to trickle in covers a sleeper's send; a caller that empties the bucket makes this
only easier for the others. With one sender its own credit is everybody's. In
numbers: in every d milliseconds at most `(Burst + d * PerMs) / Cost` sends, where
`Cost` is less than a token by what one rounded-off millisecond can bring.

**SendLimitsProofs.** `LimitsTypeOK`, `EachKeepsGlobalRate`, `SendsKeepBothRates`, and
`RateRespected` of the queue's own bucket, which comes from a refinement: seen at that bucket, the
queue is one caller of `RateLimiter` (`QueueBucketIsABucket`). The global bucket is a
second instance of `RateLimiterProofs`: its steps are a bucket's, except resetting and
configuring, which only fill credits up. `Between` ties the ledgers of messages to
those of tokens: at the queue's own limiter they are equal; at the global one the ledger
of messages may fall below that of tokens by what one message costs, and does not while
the queue holds a token it has not sent with.

**NativeBatchProofs.** `NativeTypeOK`, `ResultsInPlace`, `CountsAddUp`,
`ChunksStayWhole`. The invariant ties the length of the results, the sum of the counts and
the sets of accepted and taken messages to one number, the messages of the chunks done;
a chunk adds to the sets only what lies above it, so that earlier chunks stay whole.

**BatchDispatchProofs.** `BatchTypeOK`, `RemainingIsTrue`, `SummaryIsTrue`,
`SendsAreBounded`, `FileIsDeleted` and `QuietAfterReturn`, of `QueueBatch`, and that
`BatchDispatch` implements both `QueueBatch` and `NativeBatch`, so that their theorems
hold of it. Every step of a batch is a step of `SQLiteQueue`, except the one in which a callback throws after the
message was accepted (`SuccessTakenForFailure`). The queue's `IInv` survives that one too;
its budget does not, which is what `batch_throwing` shows. So `QInv` has `IInv` and the phases
of the call throughout, and until a callback throws the budget `BInv` and `TrueCounts`:
with one `start()` and no restart a message has one chance at a time and none once
delivered, so the rows that are not settled number `total - completed - failed`,
and the messages heard of as accepted number `completed`. A batch that is complete has
therefore no row unsettled, nothing in flight and no timer, and stays that way.
`QueueStaysSound` and `QueueOfABatch` are what the queue's own theorems become in a batch.
`SendsAreBounded` is what remains when callbacks do throw: a message may be sent again after
it was accepted, but no message is attempted more than `maxRetries` times (once, if that is 0),
and none is delivered more often than it is attempted. Its invariant `AInv` counts chances as
the budget does, against the attempts made rather than the messages delivered.

**WebhooksProofs.** `WebhooksTypeOK`, `ResultIsTrue` and the action property
`HandlerOfTheMoment`. The invariant says of a call that awaits its handler that the
request qualified and nothing has come of it yet, of one not begun that it reached no handler;
a lemma shows that the order of the checks in the code accepts exactly what can be trusted.

**EmailQueueProofs.** What follows from the promise alone, and so holds of whatever
implements it: `AtMostOnce`, `SentIsTrue`, `OneUnderway`. The invariant is again a
relation `Sound` between lives and deliveries, which `Go` keeps.

**Model-checked only.** Liveness (`MemoryJobsSettle`, `RowsSettle`, `StopReturns`,
`EveryoneGetsThrough`, `SendBatchReturns`), which with fairness
and ENABLED is out of the prover's reach. So are, here, statements by induction over data
and about RECURSIVE operators; the models avoid both (the skipping of completed jobs in
`ProcessNext` is a quantifier over how many are skipped).

## Assumptions and limits

- A refusal means the provider did not accept the message. An answer that is lost on the way
  would add a delivery in any queue, since it is tried again; `NativeBatch`, which never
  tries again, has such answers.
- Event handlers do not matter: the emitter catches what they throw, and a handler
  that calls the queue does what a call right after the step would do.
- One process per database file, as nothing in the repository coordinates several.
  The database of a batch has a random name and is never opened again.
- `addBatch()` of the in-memory queue is a loop of `add()`; the awaits between them
  are the steps between `Add` actions.
- Calls of `destroy()` that wait at the same time end together.
- The provider returns one id per message of a batch call it accepts.
- The webhooks that the monitor *posts* are sent and forgotten, and so are left out.
- Whether a webhook's signature matches is an input of the model. A timestamp that is no number
  passes the check of its age, in the code as in `Trusted`: the model describes this and
  does not judge it.
- A callback of a batch throws at once or not at all. One that returns a promise which
  is rejected later, and a program with an `unhandledRejection` or `uncaughtException`
  handler of its own, which would survive what `DiesUncaught` and `FailureThrows` die of, are left out.
- `FileIsDeleted` is about batches. That a long-lived queue's file stays when `destroy()` comes after a
  signal's shutdown is what the code does, and `NoRowLost` does not object.
- `SendLimits` has one queue. A second one would be one more sender at the global
  bucket, as a direct one is, with a bucket of its own that no one shares.
- The native strategy uses a bucket of its own and never the global one (see the disagreements).
  `NativeBatch` leaves the waiting out: it changes no result.
- An attempt whose provider answers more than 30 s after `destroy()` finds the
  database closed; the exception is uncaught (`DiesUncaught`).
- Not modelled: several batches on one long-lived queue, the queues' events, and what has no
  state (the manager's defaults, the provider's mapping, templates, logging).

## Plan

Done: all the modules above, with proofs of every safety property the passing runs check
and of the two refinements.

Next, in this order:

1. The theorems of `EmailQueueProofs` as corollaries about either queue.
2. The monitor on a long-lived SQLite queue: `clear()` removes rows that are never
   recorded, a restart forgets the batch, several batches share the queue.
