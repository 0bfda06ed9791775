------------------------- MODULE NativeBatchProofs -------------------------
(***************************************************************************)
(* Proofs about NativeBatch, for every chunk size and number of messages.  *)
(* The inductive invariant ties the four things the loop builds, the list  *)
(* of results, the two counts and the set of accepted messages, to the one *)
(* number Done of messages the chunks before chunkIndex hold.  The messages *)
(* the API took are below Done too, so that a chunk adds to them nothing   *)
(* that belongs to an earlier one.                                         *)
(***************************************************************************)
EXTENDS NativeBatch, FiniteSetTheorems, SequenceTheorems, TLAPS

Offset == chunkIndex * Size
Done == IF Offset <= length THEN Offset ELSE length
Entry == [index : Nat, success : BOOLEAN]

Shape ==
    /\ native \in {"idle", "sending", "returned"}
    /\ length \in 0..MaxLength
    /\ chunkIndex \in Nat
    /\ allResults \in Seq(Entry)
    /\ successful \in Nat /\ unsuccessful \in Nat
    /\ invalid \in SUBSET (0..(length - 1))
    /\ accepted \in SUBSET (0..(Done - 1))
    /\ taken \in SUBSET (0..(Done - 1))

Tally ==
    /\ Len(allResults) = Done
    /\ successful + unsuccessful = Done
    /\ Cardinality(accepted) = successful

Phase ==
    /\ native = "idle" => chunkIndex = 0
    /\ native = "returned" => ~MoreChunks

IInv == Shape /\ Tally /\ ResultsInPlace /\ ChunksStayWhole /\ Phase

-----------------------------------------------------------------------------
\* A function on 1..n is a sequence of length n.
LEMMA FunctionIsSeq ==
    ASSUME NEW S, NEW n \in Nat, NEW f \in [1..n -> S]
    PROVE  f \in Seq(S) /\ Len(f) = n
OBVIOUS

\* What one chunk adds to Done: its length, between 1 and Size, and no more than is left.
LEMMA OneChunk ==
    ASSUME Shape, MoreChunks, chunkIndex' = chunkIndex + 1, length' = length
    PROVE  /\ Offset \in Nat /\ Done = Offset
           /\ ChunkStart(chunkIndex) = Done
           /\ ChunkLength(chunkIndex) \in Nat \ {0}
           /\ Done' \in Nat
           /\ Done' = Done + ChunkLength(chunkIndex)
           /\ Chunk(chunkIndex) = Done..(Done' - 1)
<1> DEFINE o == Offset
           l == ChunkLength(chunkIndex)
<1>1. Size \in Nat \ {0} /\ MaxLength \in Nat
  BY SizeAssumption
<1>2. chunkIndex \in Nat /\ length \in Nat
  BY <1>1 DEF Shape
<1>3. o \in Nat /\ Offset' = o + Size
  BY <1>1, <1>2 DEF Offset
<1>4. o < length /\ ChunkStart(chunkIndex) = o
  BY DEF Offset, MoreChunks, ChunkStart
<1>5. /\ length - o <= Size => l = length - o
      /\ ~(length - o <= Size) => l = Size
  BY DEF Offset, ChunkLength
<1>6. Chunk(chunkIndex) = o..(o + l - 1)
  BY DEF Chunk, Offset
<1>7. Done = o /\ Done' = IF o + Size <= length THEN o + Size ELSE length
  BY <1>1, <1>2, <1>3, <1>4 DEF Done
<1> HIDE DEF o, l
<1>8. l \in Nat \ {0} /\ Done' = o + l
  BY <1>1, <1>2, <1>3, <1>4, <1>5, <1>7
<1>9. QED
  BY <1>3, <1>4, <1>6, <1>7, <1>8 DEF o, l

\* The results after one more chunk: as many as its messages, in place, and true of
\* a set of accepted messages that differs only in that chunk.
LEMMA OneReport ==
    ASSUME Shape, Tally, ResultsInPlace, MoreChunks,
           chunkIndex' = chunkIndex + 1, length' = length,
           NEW success \in BOOLEAN,
           allResults' = allResults \o Report(chunkIndex, success),
           accepted' = IF success THEN accepted \cup Chunk(chunkIndex) ELSE accepted
    PROVE  /\ allResults' \in Seq(Entry)
           /\ Len(allResults') = Done'
           /\ ResultsInPlace'
<1> DEFINE l == ChunkLength(chunkIndex)
           r == Report(chunkIndex, success)
<1>1. /\ Done \in Nat /\ l \in Nat \ {0} /\ Done' = Done + l /\ Done' \in Nat
      /\ ChunkStart(chunkIndex) = Done
      /\ Chunk(chunkIndex) = Done..(Done' - 1)
  BY OneChunk
<1>2. r = [i \in 1..l |-> [index |-> Done + (i - 1), success |-> success]]
  BY <1>1 DEF Report
<1>3. accepted \in SUBSET (0..(Done - 1)) /\ allResults \in Seq(Entry) /\ Len(allResults) = Done
  BY DEF Shape, Tally
<1> HIDE DEF l, r
<1>4. \A i \in 1..l : [index |-> Done + (i - 1), success |-> success] \in Entry
  BY <1>1 DEF Entry
<1>5. r \in Seq(Entry) /\ Len(r) = l
  <2>1. r \in [1..l -> Entry]
    BY <1>2, <1>4
  <2>2. QED
    BY <1>1, <2>1, FunctionIsSeq
<1>6. allResults' = allResults \o r
  BY DEF r
<1>7. /\ allResults' \in Seq(Entry) /\ Len(allResults') = Done'
      /\ \A i \in 1..Done' :
           allResults'[i] = IF i <= Done THEN allResults[i] ELSE r[i - Done]
  <2>1. /\ allResults \o r \in Seq(Entry)
        /\ Len(allResults \o r) = Done + l
        /\ \A i \in 1..(Done + l) :
             (allResults \o r)[i] = IF i <= Done THEN allResults[i] ELSE r[i - Done]
    BY <1>3, <1>5, ConcatProperties
  <2>2. QED
    BY <1>1, <1>6, <2>1
<1>8. ASSUME NEW i \in 1..Len(allResults')
      PROVE  /\ allResults'[i].index = i - 1
             /\ allResults'[i].success <=> i - 1 \in accepted'
  <2>1. CASE i <= Done
    <3>1. i \in 1..Len(allResults) /\ allResults'[i] = allResults[i]
      BY <1>1, <1>3, <1>5, <1>6, <1>7, <2>1
    <3>2. i - 1 \in accepted' <=> i - 1 \in accepted
      BY <1>1, <1>7, <2>1
    <3>3. QED
      BY <3>1, <3>2 DEF ResultsInPlace
  <2>2. CASE ~(i <= Done)
    <3>1. i - Done \in 1..l /\ allResults'[i] = r[i - Done]
      BY <1>1, <1>3, <1>5, <1>6, <1>7, <2>2
    <3>2. allResults'[i] = [index |-> Done + (i - Done - 1), success |-> success]
      BY <1>2, <3>1
    <3>3. allResults'[i].index = i - 1 /\ allResults'[i].success = success
      BY <1>1, <1>7, <3>2
    <3>4. i - 1 \in accepted' <=> success
      <4>1. CASE success
        BY <1>1, <1>7, <2>2, <4>1
      <4>2. CASE ~success
        BY <1>1, <1>3, <1>7, <2>2, <4>2
      <4>3. QED
        BY <4>1, <4>2
    <3>5. QED
      BY <3>3, <3>4
  <2>3. QED
    BY <2>1, <2>2
<1>9. QED
  BY <1>7, <1>8 DEF ResultsInPlace

\* The accepted messages after one more accepted chunk.
LEMMA OneMoreAccepted ==
    ASSUME Shape, Tally, MoreChunks, chunkIndex' = chunkIndex + 1, length' = length
    PROVE  /\ accepted \cup Chunk(chunkIndex) \in SUBSET (0..(Done' - 1))
           /\ Cardinality(accepted \cup Chunk(chunkIndex)) = successful + ChunkLength(chunkIndex)
<1> DEFINE l == ChunkLength(chunkIndex)
           c == Chunk(chunkIndex)
<1>1. /\ Done \in Nat /\ l \in Nat \ {0} /\ Done' = Done + l /\ Done' \in Nat
      /\ c = Done..(Done' - 1)
  BY OneChunk
<1>2. accepted \in SUBSET (0..(Done - 1)) /\ Cardinality(accepted) = successful
  BY DEF Shape, Tally
<1> HIDE DEF l, c
<1>3. IsFiniteSet(c) /\ Cardinality(c) = l
  BY <1>1, FS_Interval
<1>4. IsFiniteSet(accepted)
  <2>1. IsFiniteSet(0..(Done - 1))
    BY <1>1, FS_Interval
  <2>2. QED
    BY <1>2, <2>1, FS_Subset
<1>5. accepted \cap c = {}
  BY <1>1, <1>2
<1>6. Cardinality(accepted \cup c) = successful + l - Cardinality(accepted \cap c)
  BY <1>2, <1>3, <1>4, FS_Union
<1>7. Cardinality(accepted \cap c) = 0
  BY <1>5, FS_EmptySet
<1>8. successful + l - 0 = successful + l
  BY <1>1 DEF Shape
<1>9. Cardinality(accepted \cup c) = successful + l
  BY <1>6, <1>7, <1>8
<1>10. accepted \cup c \in SUBSET (0..(Done' - 1))
  BY <1>1, <1>2
<1>11. QED
  BY <1>9, <1>10 DEF l, c

\* The chunks done lie below Done.
LEMMA EarlierChunk ==
    ASSUME Shape, MoreChunks, NEW c \in 0..(chunkIndex - 1)
    PROVE  /\ Chunk(c) \subseteq 0..(Offset - 1)
           /\ chunkIndex' = chunkIndex + 1 /\ length' = length => Chunk(c)' = Chunk(c)
<1>1. Size \in Nat \ {0} /\ MaxLength \in Nat
  BY SizeAssumption
<1>2. chunkIndex \in Nat /\ length \in Nat /\ c \in Nat
  BY <1>1 DEF Shape
<1>3. c * Size \in Nat /\ Offset \in Nat
  BY <1>1, <1>2 DEF Offset
<1>4. c * Size + Size <= Offset
  <2>1. PICK d \in Nat : chunkIndex = c + 1 + d
    <3>1. chunkIndex - c - 1 \in Nat /\ chunkIndex = c + 1 + (chunkIndex - c - 1)
      BY <1>2
    <3>2. QED
      BY <3>1
  <2>2. d * Size \in Nat
    BY <1>1
  <2>3. (c + 1 + d) * Size = c * Size + Size + d * Size
    BY <1>1, <1>2
  <2>4. QED
    BY <1>1, <1>3, <2>1, <2>2, <2>3 DEF Offset
<1>5. ChunkLength(c) <= Size
  BY <1>1, <1>2, <1>3 DEF ChunkLength
<1>6. Chunk(c) \subseteq 0..(Offset - 1)
  <2>1. ChunkLength(c) \in Int
    BY <1>1, <1>2, <1>3 DEF ChunkLength
  <2>2. QED
    BY <1>1, <1>3, <1>4, <1>5, <2>1 DEF Chunk
<1>7. length' = length => Chunk(c)' = Chunk(c)
  BY DEF Chunk, ChunkLength
<1>8. QED
  BY <1>6, <1>7

\* Chunks stay whole when one more is sent, whatever becomes of it.
LEMMA OneMoreTaken ==
    ASSUME Shape, Tally, ChunksStayWhole, MoreChunks,
           chunkIndex' = chunkIndex + 1, length' = length, invalid' = invalid,
           \/ taken' = taken
           \/ Admissible(chunkIndex) /\ taken' = taken \cup Chunk(chunkIndex),
           accepted' \subseteq taken'
    PROVE  /\ taken' \in SUBSET (0..(Done' - 1))
           /\ ChunksStayWhole'
<1>1. /\ Done \in Nat /\ Done = Offset
      /\ ChunkLength(chunkIndex) \in Nat \ {0}
      /\ Done' \in Nat /\ Done' = Done + ChunkLength(chunkIndex)
      /\ Chunk(chunkIndex) = Done..(Done' - 1)
  BY OneChunk
<1>2. taken \in SUBSET (0..(Done - 1)) /\ chunkIndex \in Nat
  BY DEF Shape
<1>3. taken' \in SUBSET (0..(Done' - 1))
  <2>1. 0..(Done - 1) \subseteq 0..(Done' - 1) /\ Done..(Done' - 1) \subseteq 0..(Done' - 1)
    BY <1>1
  <2>2. taken \subseteq 0..(Done' - 1) /\ Chunk(chunkIndex) \subseteq 0..(Done' - 1)
    BY <1>1, <1>2, <2>1
  <2>3. taken' \subseteq 0..(Done' - 1)
    BY <2>2
  <2>4. QED
    BY <2>3
<1>4. ASSUME NEW c \in 0..(chunkIndex' - 1)
      PROVE  \/ Chunk(c)' \cap taken' = {}
             \/ Chunk(c)' \subseteq taken' \ invalid'
  <2>1. CASE c = chunkIndex
    <3>1. Chunk(c)' = Chunk(chunkIndex)
      BY <2>1 DEF Chunk, ChunkLength
    <3>2. CASE taken' = taken
      <4>1. Chunk(chunkIndex) \cap taken = {}
        BY <1>1, <1>2
      <4>2. QED
        BY <3>1, <3>2, <4>1
    <3>3. CASE Admissible(chunkIndex) /\ taken' = taken \cup Chunk(chunkIndex)
      <4>1. Chunk(chunkIndex) \subseteq taken' \ invalid
        BY <3>3 DEF Admissible, Valid
      <4>2. QED
        BY <3>1, <4>1
    <3>4. QED
      BY <3>2, <3>3
  <2>2. CASE c # chunkIndex
    <3>1. c \in 0..(chunkIndex - 1)
      BY <1>2, <2>2
    <3>2. Chunk(c) \subseteq 0..(Done - 1) /\ Chunk(c)' = Chunk(c)
      BY <1>1, <3>1, EarlierChunk
    <3>3. \/ Chunk(c) \cap taken = {}
          \/ Chunk(c) \subseteq taken \ invalid
      BY <3>1 DEF ChunksStayWhole
    <3>4. Chunk(c) \cap Chunk(chunkIndex) = {}
      BY <1>1, <3>2
    <3>5. taken \subseteq taken' /\ Chunk(c) \cap taken' = Chunk(c) \cap taken
      BY <3>4
    <3>6. QED
      BY <3>2, <3>3, <3>5
  <2>3. QED
    BY <2>1, <2>2
<1>5. QED
  BY <1>3, <1>4 DEF ChunksStayWhole

-----------------------------------------------------------------------------
LEMMA Initially == NativeInit => IInv
<1> SUFFICES ASSUME NativeInit PROVE IInv
  OBVIOUS
<1>1. Size \in Nat \ {0} /\ MaxLength \in Nat
  BY SizeAssumption
<1>2. Offset = 0 /\ Done = 0
  BY <1>1 DEF NativeInit, Offset, Done
<1>3. Cardinality(accepted) = 0
  BY FS_EmptySet DEF NativeInit
<1>4. QED
  BY <1>1, <1>2, <1>3 DEF NativeInit, IInv, Shape, Tally, ResultsInPlace, ChunksStayWhole, Phase

LEMMA Inductive == IInv /\ [NativeNext]_nativeVars => IInv'
<1> SUFFICES ASSUME IInv, [NativeNext]_nativeVars PROVE IInv'
  OBVIOUS
<1>0. Size \in Nat \ {0} /\ MaxLength \in Nat
  BY SizeAssumption
<1>1. ASSUME NEW n \in 0..MaxLength, NEW bad \in SUBSET (0..(n - 1)), NativeCall(n, bad)
      PROVE  IInv'
  <2>1. chunkIndex = 0 /\ Offset = 0 /\ Offset' = 0
    BY <1>0, <1>1 DEF NativeCall, IInv, Phase, Offset
  <2>2. Done = 0 /\ Done' = 0
    BY <1>0, <1>1, <2>1 DEF NativeCall, Done, IInv, Shape
  <2>3. QED
    BY <1>0, <1>1, <2>1, <2>2 DEF NativeCall, IInv, Shape, Tally, ResultsInPlace, ChunksStayWhole,
       Phase
<1>2. ASSUME ChunkAccepted PROVE IInv'
  <2>1. /\ MoreChunks /\ chunkIndex' = chunkIndex + 1 /\ length' = length
        /\ invalid' = invalid
        /\ Shape /\ Tally /\ ResultsInPlace /\ ChunksStayWhole
    BY <1>2 DEF ChunkAccepted, messages, IInv
  <2>2. /\ ChunkLength(chunkIndex) \in Nat \ {0} /\ Done \in Nat
        /\ Done' = Done + ChunkLength(chunkIndex)
    BY <2>1, OneChunk
  <2>3. /\ allResults' \in Seq(Entry) /\ Len(allResults') = Done'
        /\ ResultsInPlace'
    BY <1>2, <2>1, OneReport DEF ChunkAccepted
  <2>4. /\ accepted' \in SUBSET (0..(Done' - 1))
        /\ Cardinality(accepted') = successful'
    BY <1>2, <2>1, OneMoreAccepted DEF ChunkAccepted
  <2>5. /\ successful' = successful + ChunkLength(chunkIndex)
        /\ unsuccessful' = unsuccessful /\ native' = "sending"
    BY <1>2 DEF ChunkAccepted
  <2>6. taken' \in SUBSET (0..(Done' - 1)) /\ ChunksStayWhole'
    <3>1. Admissible(chunkIndex) /\ taken' = taken \cup Chunk(chunkIndex)
      BY <1>2 DEF ChunkAccepted, SendBatchSucceeds
    <3>2. accepted' \subseteq taken'
      BY <1>2, <2>1, <3>1 DEF ChunkAccepted, ChunksStayWhole
    <3>3. QED
      BY <2>1, <3>1, <3>2, OneMoreTaken
  <2>7. QED
    BY <2>1, <2>2, <2>3, <2>4, <2>5, <2>6 DEF IInv, Shape, Tally, Phase
<1>3. ASSUME ChunkRefused PROVE IInv'
  <2>1. /\ MoreChunks /\ chunkIndex' = chunkIndex + 1 /\ length' = length
        /\ invalid' = invalid
        /\ Shape /\ Tally /\ ResultsInPlace /\ ChunksStayWhole
    BY <1>3 DEF ChunkRefused, messages, IInv
  <2>2. /\ ChunkLength(chunkIndex) \in Nat \ {0} /\ Done \in Nat
        /\ Done' = Done + ChunkLength(chunkIndex)
    BY <2>1, OneChunk
  <2>3. /\ allResults' \in Seq(Entry) /\ Len(allResults') = Done'
        /\ ResultsInPlace'
    BY <1>3, <2>1, OneReport DEF ChunkRefused, RefusalCounted
  <2>4. /\ successful' = successful /\ accepted' = accepted /\ native' = "sending"
        /\ unsuccessful' = unsuccessful + ChunkLength(chunkIndex)
    BY <1>3 DEF ChunkRefused, RefusalCounted
  <2>5. accepted' \in SUBSET (0..(Done' - 1))
    BY <2>1, <2>2, <2>4 DEF Shape
  <2>6. taken' \in SUBSET (0..(Done' - 1)) /\ ChunksStayWhole'
    <3>1. \/ taken' = taken
          \/ Admissible(chunkIndex) /\ taken' = taken \cup Chunk(chunkIndex)
      BY <1>3 DEF ChunkRefused, SendBatchFails
    <3>2. accepted' \subseteq taken'
      BY <2>1, <2>4, <3>1 DEF ChunksStayWhole
    <3>3. QED
      BY <2>1, <3>1, <3>2, OneMoreTaken
  <2>7. QED
    BY <2>1, <2>2, <2>3, <2>4, <2>5, <2>6 DEF IInv, Shape, Tally, Phase
<1>4. ASSUME NativeReturns PROVE IInv'
  BY <1>4 DEF NativeReturns, messages, IInv, Shape, Tally, ResultsInPlace, ChunksStayWhole, Phase,
     Done, Offset, MoreChunks, Chunk, ChunkLength
<1>5. ASSUME UNCHANGED nativeVars PROVE IInv'
  BY <1>5 DEF nativeVars, messages, IInv, Shape, Tally, ResultsInPlace, ChunksStayWhole, Phase,
     Done, Offset, MoreChunks, Chunk, ChunkLength
<1>6. QED
  BY <1>1, <1>2, <1>3, <1>4, <1>5 DEF NativeNext

\* The inductive invariant holds in every reachable state.
THEOREM Invariance == NativeSpec => []IInv
<1>1. QED
  BY Initially, Inductive, PTL DEF NativeSpec

\* Done is between 0 and length; once sendBatch returns it is length.
LEMMA DoneBounds ==
    ASSUME IInv
    PROVE  Done \in 0..length /\ (native = "returned" => Done = length)
<1>1. Size \in Nat \ {0} /\ MaxLength \in Nat
  BY SizeAssumption
<1>2. chunkIndex \in Nat /\ length \in Nat
  BY <1>1 DEF IInv, Shape
<1>3. Offset \in Nat
  BY <1>1, <1>2 DEF Offset
<1>4. native = "returned" => ~(Offset < length)
  BY DEF IInv, Phase, MoreChunks, Offset
<1>5. QED
  BY <1>2, <1>3, <1>4 DEF Done

\* The variables keep their types; no count exceeds the number of messages.
THEOREM TypeCorrect == NativeSpec => []NativeTypeOK
<1>1. IInv => NativeTypeOK
  <2> SUFFICES ASSUME IInv PROVE NativeTypeOK
    OBVIOUS
  <2>1. length \in Nat
    BY SizeAssumption DEF IInv, Shape
  <2>2. successful \in 0..length /\ unsuccessful \in 0..length
    BY <2>1, DoneBounds DEF IInv, Shape, Tally
  <2>3. accepted \in SUBSET (0..(length - 1)) /\ taken \in SUBSET (0..(length - 1))
    BY <2>1, DoneBounds DEF IInv, Shape
  <2>4. QED
    BY <2>2, <2>3 DEF IInv, Shape, NativeTypeOK, Entry
<1>2. QED
  BY <1>1, Invariance, PTL

\* Every result stands at its message's place and says what became of that message.
THEOREM InPlace == NativeSpec => []ResultsInPlace
<1>1. IInv => ResultsInPlace
  BY DEF IInv
<1>2. QED
  BY <1>1, Invariance, PTL

\* Each chunk is delivered whole or not at all, with an invalid message not at all, and
\* no success is reported of a message that was not delivered.
THEOREM Whole == NativeSpec => []ChunksStayWhole
<1>1. IInv => ChunksStayWhole
  BY DEF IInv
<1>2. QED
  BY <1>1, Invariance, PTL

\* When sendBatch returns, its counts and results account for every message.
THEOREM AddUp == NativeSpec => []CountsAddUp
<1>1. IInv => CountsAddUp
  BY DoneBounds DEF IInv, Tally, CountsAddUp
<1>2. QED
  BY <1>1, Invariance, PTL
=============================================================================
