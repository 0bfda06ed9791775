---------------------------- MODULE NativeBatch ----------------------------
(***************************************************************************)
(* sendBatch in native mode: sendBatchNative of                            *)
(* src/src/batch/native-strategy.ts, which cuts the messages into chunks   *)
(* and hands one after the other to the provider, sendBatch of             *)
(* src/src/providers/resend.ts: that validates a chunk before it calls the *)
(* API, and a chunk is accepted or refused as a whole; the next one is     *)
(* sent either way.  An answer of the API may be lost on the way.  Before  *)
(* each chunk the strategy waits for a limiter of its own, which changes   *)
(* nothing here.                                                           *)
(***************************************************************************)
EXTENDS Integers, Sequences, FiniteSets

CONSTANTS
    Size,       \* RESEND_MAX_BATCH_SIZE, of the strategy
    MaxBatch,   \* maxBatchSize, of the provider
    MaxLength   \* how many messages there may be (a bound of the model)

ASSUME SizeAssumption == Size \in Nat \ {0} /\ MaxBatch \in Nat /\ MaxLength \in Nat

VARIABLES
    native,      \* "idle", "sending" or "returned"
    length,      \* messages.length; they are numbered from 0
    invalid,     \* the messages that validateMessage refuses
    chunkIndex,  \* the chunks before it are done
    allResults,  \* sequence of [index, success]
    successful, unsuccessful,
    accepted,    \* history: the messages the provider reported as accepted
    taken        \* history: those the API took, whether or not that was heard

messages   == <<length, invalid>>
nativeVars == <<native, messages, chunkIndex, allResults, successful, unsuccessful, accepted,
                taken>>

-----------------------------------------------------------------------------
ChunkStartOff(c) == c * (Size - 1)    \* flawed

\* const offset = chunkIndex * RESEND_MAX_BATCH_SIZE
ChunkStart(c) == c * Size

ChunkUncut(c) == Size    \* flawed

\* chunkArray: array.slice(i, i + size)
ChunkLength(c) == IF length - c * Size <= Size THEN length - c * Size ELSE Size

MoreChunks == chunkIndex * Size < length

\* The messages of chunk c, and what is reported of them.
Chunk(c) == (c * Size)..(c * Size + ChunkLength(c) - 1)
Report(c, success) ==
    [i \in 1..ChunkLength(c) |-> [index |-> ChunkStart(c) + (i - 1), success |-> success]]

(***************************************************************************)
(* The provider's sendBatch of chunk c.                                    *)
(***************************************************************************)
ValidIfFirst(m) == (\E c \in 0..m : c * Size = m) => m \notin invalid    \* flawed

Valid(m) == m \notin invalid

Admissible(c) == ChunkLength(c) <= MaxBatch /\ \A m \in Chunk(c) : Valid(m)

SendBatchSucceeds(c) ==
    /\ Admissible(c)
    /\ taken' = taken \cup Chunk(c)

\* Refused here or by the API, or its answer does not arrive.
SendBatchFails(c) ==
    \/ UNCHANGED taken
    \/ Admissible(c) /\ taken' = taken \cup Chunk(c)

-----------------------------------------------------------------------------
NativeCall(n, bad) ==
    /\ native = "idle"
    /\ native' = "sending"
    /\ length' = n
    /\ invalid' = bad
    /\ UNCHANGED <<chunkIndex, allResults, successful, unsuccessful, accepted, taken>>

ChunkAccepted ==
    /\ native = "sending" /\ MoreChunks
    /\ SendBatchSucceeds(chunkIndex)
    /\ allResults' = allResults \o Report(chunkIndex, TRUE)
    /\ successful' = successful + ChunkLength(chunkIndex)
    /\ accepted' = accepted \cup Chunk(chunkIndex)
    /\ chunkIndex' = chunkIndex + 1
    /\ UNCHANGED <<native, messages, unsuccessful>>

\* Flawed: the first refused chunk ends the loop, or goes unreported.
RefusedEndsLoop ==
    /\ native' = "returned"
    /\ unsuccessful' = unsuccessful + ChunkLength(chunkIndex)
    /\ allResults' = allResults \o Report(chunkIndex, FALSE)

RefusalCounted ==
    /\ native' = native
    /\ unsuccessful' = unsuccessful + ChunkLength(chunkIndex)
    /\ allResults' = allResults \o Report(chunkIndex, FALSE)

ChunkRefused ==
    /\ native = "sending" /\ MoreChunks
    /\ SendBatchFails(chunkIndex)
    /\ RefusalCounted
    /\ chunkIndex' = chunkIndex + 1
    /\ UNCHANGED <<messages, successful, accepted>>

NativeReturns ==
    /\ native = "sending" /\ ~MoreChunks
    /\ native' = "returned"
    /\ UNCHANGED <<messages, chunkIndex, allResults, successful, unsuccessful, accepted,
                   taken>>

NativeInit ==
    /\ native = "idle"
    /\ length = 0 /\ invalid = {}
    /\ chunkIndex = 0
    /\ allResults = <<>>
    /\ successful = 0 /\ unsuccessful = 0
    /\ accepted = {} /\ taken = {}

NativeNext ==
    \/ \E n \in 0..MaxLength : \E bad \in SUBSET (0..(n - 1)) : NativeCall(n, bad)
    \/ ChunkAccepted
    \/ ChunkRefused
    \/ NativeReturns

NativeSpec == NativeInit /\ [][NativeNext]_nativeVars

-----------------------------------------------------------------------------
\* The types of the variables.
NativeTypeOK ==
    /\ native \in {"idle", "sending", "returned"}
    /\ length \in 0..MaxLength
    /\ chunkIndex \in Nat
    /\ allResults \in Seq([index : Nat, success : BOOLEAN])
    /\ successful \in 0..length /\ unsuccessful \in 0..length
    /\ invalid \in SUBSET (0..(length - 1))
    /\ accepted \in SUBSET (0..(length - 1))
    /\ taken \in SUBSET (0..(length - 1))

\* The result of message i stands at place i, under index i, and says whether the
\* provider accepted that message: across chunks, and after chunks that failed.
ResultsInPlace ==
    \A i \in 1..Len(allResults) :
        /\ allResults[i].index = i - 1
        /\ allResults[i].success <=> i - 1 \in accepted

\* A chunk goes out whole or not at all, and not at all if it has an invalid message,
\* wherever that stands: a success is never reported of a message that was not
\* delivered, and what is delivered although a failure was reported is a whole chunk
\* whose answer was lost.
ChunksStayWhole ==
    /\ accepted \subseteq taken
    /\ \A c \in 0..(chunkIndex - 1) :
         \/ Chunk(c) \cap taken = {}
         \/ Chunk(c) \subseteq taken \ invalid

\* The counts that are returned account for every message of the call.
CountsAddUp ==
    native = "returned" =>
        /\ successful + unsuccessful = length
        /\ Len(allResults) = length
        /\ successful = Cardinality(accepted)
=============================================================================
