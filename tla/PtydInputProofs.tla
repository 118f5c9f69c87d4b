-------------------------- MODULE PtydInputProofs --------------------------
(***************************************************************************)
(* Proofs about PtydInput, for any writers, limits and sizes: input is     *)
(* written in order, a failure is final, and no wakeup for it is lost.     *)
(***************************************************************************)
EXTENDS PtydInput, SequenceTheorems, TLAPS

Orderly == TypeOK /\ AcceptedInOrder /\ NoLostInput

-----------------------------------------------------------------------------
\* A sequence cut in two.
LEMMA CutInTwo ==
    ASSUME NEW S, NEW s \in Seq(S), NEW n \in 0..Len(s)
    PROVE  /\ SubSeq(s, 1, n) \in Seq(S) /\ SubSeq(s, n + 1, Len(s)) \in Seq(S)
           /\ Len(SubSeq(s, n + 1, Len(s))) = Len(s) - n
           /\ SubSeq(s, 1, n) \o SubSeq(s, n + 1, Len(s)) = s
  <1>1. \A i \in 1..Len(s) : s[i] \in S
    OBVIOUS
  <1>2. n \in Int /\ Len(s) \in Int /\ n <= Len(s)
    OBVIOUS
  <1>3. SubSeq(s, 1, n) \in Seq(S) /\ SubSeq(s, n + 1, Len(s)) \in Seq(S)
    BY <1>1, <1>2, SubSeqProperties
  <1>4. Len(SubSeq(s, n + 1, Len(s))) = Len(s) - n
    BY <1>1, <1>2, SubSeqProperties
  <1>5. SubSeq(s, 1, n) \o SubSeq(s, n + 1, Len(s)) = s
    <2>1. SubSeq(s, 1, n) \o SubSeq(s, n + 1, Len(s)) = SubSeq(s, 1, Len(s))
      <3>1. 1 \in 1..(Len(s) + 1) /\ n \in (1 - 1)..Len(s) /\ Len(s) \in n..Len(s)
        OBVIOUS
      <3> QED
        BY <3>1, ConcatAdjacentSubSeq, Zenon
    <2> QED
      BY <2>1, SubSeqFull
  <1> QED
    BY <1>3, <1>4, <1>5

\* Bytes put one after another.
LEMMA BytesConcatenated ==
    ASSUME NEW a \in Bytes, NEW b \in Bytes, NEW c \in Bytes
    PROVE  /\ a \o b \in Bytes
           /\ Len(a \o b) = Len(a) + Len(b)
           /\ (a \o b) \o c = a \o (b \o c)
  <1> DEFINE S == (1..MaxChunks) \X Nat
  <1>1. a \in Seq(S) /\ b \in Seq(S) /\ Bytes = Seq(S)
    BY DEF Bytes
  <1> HIDE DEF S
  <1>2. a \o b \in Seq(S) /\ Len(a \o b) = Len(a) + Len(b)
    BY <1>1, ConcatProperties
  <1>3. (a \o b) \o c = a \o (b \o c)
    BY <1>1, c \in Seq(S), ConcatAssociative
  <1> QED
    BY <1>1, <1>2, <1>3

\* What is put in front of a sequence is a beginning of the result.
LEMMA FrontIsBeginning ==
    ASSUME NEW S, NEW s \in Seq(S), NEW r \in Seq(S)
    PROVE  Len(s) \in 0..Len(s \o r) /\ s = SubSeq(s \o r, 1, Len(s))
  <1>1. Len(s \o r) = Len(s) + Len(r) /\ Len(s) \in Nat /\ Len(r) \in Nat
    BY ConcatProperties
  <1>2. SubSeq(s \o r, 1, Len(s)) = SubSeq(s, 1, Len(s))
    BY <1>1, SubSeqOfConcat1
  <1> QED
    BY <1>1, <1>2, SubSeqFull

\* drain_input writes a beginning of what it is given after what was written, and
\* keeps the rest or, when it fails, nothing.
LEMMA DrainInOrder ==
    ASSUME written \in Bytes, room \in 0..Room, NEW bytes \in Bytes, Drain(bytes)
    PROVE  /\ queue' \in Bytes /\ written' \in Bytes
           /\ room' \in 0..Room /\ failed' \in BOOLEAN
           /\ Len(queue') <= Len(bytes)
           /\ failed' => /\ queue' = <<>>
                         /\ \E n \in 0..Len(written \o bytes) :
                                written' = SubSeq(written \o bytes, 1, n)
           /\ ~failed' => written' \o queue' = written \o bytes
  <1> DEFINE front(n) == SubSeq(bytes, 1, n)
             rest(n) == SubSeq(bytes, n + 1, Len(bytes))
  <1>1. PICK n \in 0..Len(bytes) :
           /\ n <= room
           /\ \/ Becomes(rest(n), FALSE, written \o front(n), room - n)
              \/ Becomes(<<>>, TRUE, written \o front(n), room - n)
    BY DEF Drain
  <1>2. /\ front(n) \in Bytes /\ rest(n) \in Bytes
        /\ Len(rest(n)) = Len(bytes) - n
        /\ front(n) \o rest(n) = bytes
    BY CutInTwo DEF Bytes
  <1>3. /\ written \o front(n) \in Bytes
        /\ (written \o front(n)) \o rest(n) = written \o bytes
    <2>1. (written \o front(n)) \o rest(n) = written \o (front(n) \o rest(n))
      BY <1>2, BytesConcatenated, Zenon
    <2> QED
      BY <2>1, <1>2, BytesConcatenated
  <1>4. \E k \in 0..Len(written \o bytes) :
           written \o front(n) = SubSeq(written \o bytes, 1, k)
    <2>1. /\ Len(written \o front(n)) \in 0..Len((written \o front(n)) \o rest(n))
          /\ written \o front(n)
                = SubSeq((written \o front(n)) \o rest(n), 1, Len(written \o front(n)))
      BY <1>2, <1>3, FrontIsBeginning DEF Bytes
    <2> QED
      BY <2>1, <1>3
  <1>5. <<>> \in Bytes /\ Len(<<>>) = 0 /\ Len(bytes) \in Nat
    BY DEF Bytes
  <1>6. Room \in Nat /\ room - n \in 0..Room
    BY <1>1, InputAssumption
  <1> HIDE DEF front, rest
  <1>7. CASE Becomes(rest(n), FALSE, written \o front(n), room - n)
    <2>1. /\ queue' = rest(n) /\ failed' = FALSE
          /\ written' = written \o front(n) /\ room' = room - n
      BY <1>7 DEF Becomes
    <2>2. Len(rest(n)) <= Len(bytes)
      BY <1>2, <1>5
    <2>3. written' \o queue' = written \o bytes
      BY <2>1, <1>3
    <2> QED
      BY <2>1, <2>2, <2>3, <1>2, <1>3, <1>6
  <1>8. CASE Becomes(<<>>, TRUE, written \o front(n), room - n)
    BY <1>8, <1>3, <1>4, <1>5, <1>6 DEF Becomes
  <1> QED
    BY <1>1, <1>7, <1>8

\* A chunk that fits, queued behind what is there, keeps the order and the limit.
LEMMA QueueInOrder ==
    ASSUME TypeOK, AcceptedInOrder, ~failed, NEW size \in Sizes, Fits(size), Queue(size)
    PROVE  /\ queue' \in Bytes /\ Len(queue') <= InputMax
           /\ written' \in Bytes /\ accepted' \in Bytes
           /\ failed' \in BOOLEAN /\ room' \in 0..Room
           /\ chunks' = chunks + 1 /\ chunks' \in 1..MaxChunks
           /\ AcceptedInOrder'
  <1> DEFINE chunk == Chunk(chunks + 1, size)
             bytes == queue \o chunk
  <1>1. /\ chunks < MaxChunks /\ chunks' = chunks + 1 /\ accepted' = accepted \o chunk
        /\ Drain(bytes)
    BY DEF Queue
  <1>2. chunks' \in 1..MaxChunks
    BY <1>1, InputAssumption DEF TypeOK
  <1>3. chunk \in Bytes /\ Len(chunk) = size
    <2>1. size \in Nat /\ chunks + 1 \in 1..MaxChunks
      BY <1>1, <1>2, InputAssumption
    <2> QED
      BY <2>1 DEF Chunk, Bytes
  <1>4. queue \in Bytes /\ written \in Bytes /\ accepted \in Bytes /\ room \in 0..Room
    BY DEF TypeOK
  <1> HIDE DEF chunk
  <1>5. bytes \in Bytes /\ Len(bytes) = Len(queue) + size
    BY <1>3, <1>4, BytesConcatenated
  <1>6. Len(bytes) <= InputMax
    <2>1. size <= InputMax - Len(queue) /\ Len(queue) \in Nat /\ size \in Nat /\ InputMax \in Nat
      BY <1>4, InputAssumption DEF Fits, Bytes
    <2> QED
      BY <2>1, <1>5
  <1>7. accepted' \in Bytes
    BY <1>1, <1>3, <1>4, BytesConcatenated
  <1>8. written \o bytes = accepted'
    <2>1. written \o queue = accepted
      BY DEF AcceptedInOrder
    <2>2. written \in Bytes /\ queue \in Bytes /\ chunk \in Bytes
      BY <1>3, <1>4
    <2>3. (written \o queue) \o chunk = written \o (queue \o chunk)
      BY <2>2, BytesConcatenated
    <2> QED
      BY <2>1, <2>3, <1>1
  <1> HIDE DEF bytes
  <1>9. /\ queue' \in Bytes /\ written' \in Bytes
        /\ room' \in 0..Room /\ failed' \in BOOLEAN
        /\ Len(queue') <= Len(bytes)
        /\ failed' => /\ queue' = <<>>
                      /\ \E n \in 0..Len(written \o bytes) :
                             written' = SubSeq(written \o bytes, 1, n)
        /\ ~failed' => written' \o queue' = written \o bytes
    BY <1>1, <1>4, <1>5, DrainInOrder
  <1>10. Len(queue') <= InputMax
    <2>1. Len(queue') \in Nat /\ Len(bytes) \in Nat /\ InputMax \in Nat
      BY <1>5, <1>9, InputAssumption DEF Bytes
    <2> QED
      BY <2>1, <1>6, <1>9
  <1>11. AcceptedInOrder'
    BY <1>8, <1>9 DEF AcceptedInOrder
  <1> QED
    BY <1>1, <1>2, <1>7, <1>9, <1>10, <1>11

\* Draining the queue as it is keeps the order too.
LEMMA DrainKeepsOrder ==
    ASSUME TypeOK, AcceptedInOrder, ~failed, Drain(queue), accepted' = accepted
    PROVE  /\ queue' \in Bytes /\ Len(queue') <= InputMax
           /\ written' \in Bytes /\ failed' \in BOOLEAN /\ room' \in 0..Room
           /\ AcceptedInOrder'
  <1>1. queue \in Bytes /\ written \in Bytes /\ room \in 0..Room /\ Len(queue) <= InputMax
    BY DEF TypeOK
  <1>2. written \o queue = accepted
    BY DEF AcceptedInOrder
  <1>3. /\ queue' \in Bytes /\ written' \in Bytes
        /\ room' \in 0..Room /\ failed' \in BOOLEAN
        /\ Len(queue') <= Len(queue)
        /\ failed' => /\ queue' = <<>>
                      /\ \E n \in 0..Len(written \o queue) :
                             written' = SubSeq(written \o queue, 1, n)
        /\ ~failed' => written' \o queue' = written \o queue
    BY <1>1, DrainInOrder
  <1>4. Len(queue') \in Nat /\ Len(queue) \in Nat /\ InputMax \in Nat
    BY <1>1, <1>3, InputAssumption DEF Bytes
  <1> QED
    BY <1>1, <1>2, <1>3, <1>4 DEF AcceptedInOrder

\* A failure leaves a beginning of what was accepted.
LEMMA FailsInOrder ==
    ASSUME TypeOK, AcceptedInOrder, Fails, accepted' = accepted
    PROVE  /\ queue' \in Bytes /\ Len(queue') <= InputMax
           /\ written' \in Bytes /\ failed' \in BOOLEAN /\ room' \in 0..Room
           /\ AcceptedInOrder'
  <1>1. /\ queue' = <<>> /\ failed' = TRUE /\ written' = written /\ room' = room
        /\ queue \in Bytes /\ written \in Bytes /\ room \in 0..Room
    BY DEF Fails, Becomes, TypeOK
  <1>2. <<>> \in Bytes /\ Len(<<>>) <= InputMax
    BY InputAssumption DEF Bytes
  <1>3. \E n \in 0..Len(accepted) : written = SubSeq(accepted, 1, n)
    <2>1. CASE failed
      BY <2>1 DEF AcceptedInOrder
    <2>2. CASE ~failed
      <3>1. accepted = written \o queue
        BY <2>2 DEF AcceptedInOrder
      <3>2. Len(written) \in 0..Len(written \o queue)
            /\ written = SubSeq(written \o queue, 1, Len(written))
        BY <1>1, FrontIsBeginning DEF Bytes
      <3> QED
        BY <3>1, <3>2
    <2> QED
      BY <2>1, <2>2
  <1> QED
    BY <1>1, <1>2, <1>3 DEF AcceptedInOrder

-----------------------------------------------------------------------------
\* Nothing has been accepted, and nothing is wrong.
LEMMA InitOrderly == Init => Orderly
  <1> SUFFICES ASSUME Init PROVE Orderly
    OBVIOUS
  <1>1. <<>> \in Bytes /\ Len(<<>>) = 0 /\ <<>> \o <<>> = <<>>
    BY DEF Bytes
  <1>2. TypeOK
    <2>1. queue \in Bytes /\ Len(queue) <= InputMax /\ written \in Bytes /\ accepted \in Bytes
      BY <1>1, InputAssumption DEF Init
    <2>2. room \in 0..Room /\ chunks \in 0..MaxChunks
      BY InputAssumption DEF Init
    <2> QED
      BY <2>1, <2>2 DEF Init, TypeOK
  <1>3. AcceptedInOrder
    BY <1>1 DEF Init, AcceptedInOrder
  <1> QED
    BY <1>2, <1>3 DEF Init, Orderly, NoLostInput

\* Every step keeps the types, the order and the wakeups.
LEMMA NextOrderly == Orderly /\ [Next]_vars => Orderly'
  <1> SUFFICES ASSUME TypeOK, AcceptedInOrder, NoLostInput, [Next]_vars PROVE Orderly'
    BY DEF Orderly
  <1>1. ASSUME NEW w \in Writer, Write(w) PROVE Orderly'
    <2>1. PICK size \in Sizes :
             IF failed \/ ~Fits(size)
             THEN UNCHANGED <<inputVars, at>>
             ELSE /\ Queue(size) /\ UNCHANGED replies
                  /\ at' = [at EXCEPT ![w] = IF queue' # <<>> THEN "poke" ELSE "idle"]
      BY <1>1 DEF Write
    <2>2. at[w] = "idle" /\ UNCHANGED <<io, wantWrite, wake, announced>>
      BY <1>1 DEF Write
    <2>3. CASE failed \/ ~Fits(size)
      BY <2>1, <2>2, <2>3
      DEF Orderly, TypeOK, AcceptedInOrder, NoLostInput, inputVars
    <2>4. CASE ~failed /\ Fits(size)
      <3>1. /\ Queue(size) /\ UNCHANGED replies
            /\ at' = [at EXCEPT ![w] = IF queue' # <<>> THEN "poke" ELSE "idle"]
        BY <2>1, <2>4
      <3>2. /\ queue' \in Bytes /\ Len(queue') <= InputMax
            /\ written' \in Bytes /\ accepted' \in Bytes
            /\ failed' \in BOOLEAN /\ room' \in 0..Room
            /\ chunks' = chunks + 1 /\ chunks' \in 1..MaxChunks
            /\ AcceptedInOrder'
        BY <3>1, <2>4, QueueInOrder
      <3>3. TypeOK'
        BY <3>1, <3>2, <2>2, InputAssumption DEF TypeOK
      <3>4. NoLostInput'
        BY <3>1, <2>2 DEF NoLostInput, TypeOK
      <3> QED
        BY <3>2, <3>3, <3>4 DEF Orderly
    <2> QED
      BY <2>3, <2>4
  <1>2. ASSUME NEW w \in Writer, Poke(w) PROVE Orderly'
    BY <1>2 DEF Poke, Orderly, TypeOK, AcceptedInOrder, NoLostInput, inputVars
  <1>3. ASSUME ProgramReads PROVE Orderly'
    BY <1>3, InputAssumption DEF ProgramReads, Orderly, TypeOK, AcceptedInOrder, NoLostInput
  <1>4. ASSUME Arm PROVE Orderly'
    BY <1>4 DEF Arm, Orderly, TypeOK, AcceptedInOrder, NoLostInput, inputVars
  <1>5. ASSUME PollWritable \/ PollWoken \/ PollOutput PROVE Orderly'
    <2>1. /\ io' \in {"drain", "output"} /\ wake' = FALSE
          /\ UNCHANGED <<inputVars, wantWrite, at, announced>>
      BY <1>5 DEF PollWritable, PollWoken, PollOutput, PollReturns
    <2> QED
      BY <2>1 DEF Orderly, TypeOK, AcceptedInOrder, NoLostInput, inputVars
  <1>6. ASSUME io' \in {"top", "output"}, UNCHANGED <<wantWrite, wake, at>>,
               announced' \in BOOLEAN,
               UNCHANGED <<accepted, chunks, replies>>,
               /\ queue' \in Bytes /\ Len(queue') <= InputMax
               /\ written' \in Bytes /\ failed' \in BOOLEAN /\ room' \in 0..Room
               /\ AcceptedInOrder'
        PROVE  Orderly'
    BY <1>6 DEF Orderly, TypeOK, NoLostInput
  <1>7. ASSUME DrainReady PROVE Orderly'
    <2>1. /\ io' = "output" /\ UNCHANGED <<wantWrite, wake, at>>
          /\ announced' = (announced \/ failed')
      BY <1>7 DEF DrainReady
    <2>2. CASE failed
      <3>1. UNCHANGED inputVars
        BY <1>7, <2>2 DEF DrainReady
      <3> QED
        BY <2>1, <3>1 DEF Orderly, TypeOK, AcceptedInOrder, NoLostInput, inputVars
    <2>3. CASE ~failed
      <3>1. Drain(queue) /\ UNCHANGED <<accepted, chunks, replies>>
        BY <1>7, <2>3 DEF DrainReady
      <3>2. /\ queue' \in Bytes /\ Len(queue') <= InputMax
            /\ written' \in Bytes /\ failed' \in BOOLEAN /\ room' \in 0..Room
            /\ AcceptedInOrder'
        BY <3>1, <2>3, DrainKeepsOrder
      <3>3. announced' \in BOOLEAN
        BY <2>1, <3>2 DEF TypeOK
      <3> QED
        BY <1>6, <2>1, <3>1, <3>2, <3>3
    <2> QED
      BY <2>2, <2>3
  <1>8. ASSUME CollectionFails PROVE Orderly'
    <2>1. /\ io' = "top" /\ UNCHANGED <<wantWrite, wake, at>> /\ announced' = TRUE
          /\ Fails /\ UNCHANGED <<accepted, chunks, replies>>
      BY <1>8 DEF CollectionFails
    <2> QED
      BY <1>6, <2>1, FailsInOrder
  <1>9. ASSUME Responds PROVE Orderly'
    <2>1. PICK size \in Sizes :
             IF failed \/ ~Fits(size)
             THEN Fails /\ UNCHANGED <<accepted, chunks, replies>>
             ELSE Queue(size) /\ replies' = replies \cup {chunks'}
      BY <1>9 DEF Responds
    <2>2. /\ io' = "top" /\ UNCHANGED <<wantWrite, wake, at>>
          /\ announced' = (announced \/ failed')
      BY <1>9 DEF Responds
    <2>3. CASE failed \/ ~Fits(size)
      <3>1. /\ queue' \in Bytes /\ Len(queue') <= InputMax
            /\ written' \in Bytes /\ failed' \in BOOLEAN /\ room' \in 0..Room
            /\ AcceptedInOrder' /\ UNCHANGED <<accepted, chunks, replies>>
        BY <2>1, <2>3, FailsInOrder
      <3>2. announced' \in BOOLEAN
        BY <2>2, <3>1 DEF TypeOK
      <3> QED
        BY <1>6, <2>2, <3>1, <3>2
    <2>4. CASE ~failed /\ Fits(size)
      <3>1. Queue(size) /\ replies' = replies \cup {chunks'}
        BY <2>1, <2>4
      <3>2. /\ queue' \in Bytes /\ Len(queue') <= InputMax
            /\ written' \in Bytes /\ accepted' \in Bytes
            /\ failed' \in BOOLEAN /\ room' \in 0..Room
            /\ chunks' = chunks + 1 /\ chunks' \in 1..MaxChunks
            /\ AcceptedInOrder'
        BY <3>1, <2>4, QueueInOrder
      <3>3. TypeOK'
        BY <3>1, <3>2, <2>2, InputAssumption DEF TypeOK
      <3>4. NoLostInput'
        BY <2>2 DEF NoLostInput
      <3> QED
        BY <3>2, <3>3, <3>4 DEF Orderly
    <2> QED
      BY <2>3, <2>4
  <1>10. ASSUME NothingToAnswer PROVE Orderly'
    BY <1>10 DEF NothingToAnswer, Orderly, TypeOK, AcceptedInOrder, NoLostInput, inputVars
  <1>11. CASE UNCHANGED vars
    BY <1>11 DEF vars, inputVars, Orderly, TypeOK, AcceptedInOrder, NoLostInput
  <1> QED
    BY <1>1, <1>2, <1>3, <1>4, <1>5, <1>7, <1>8, <1>9, <1>10, <1>11 DEF Next, IoThread

\* The input is always orderly.
LEMMA AlwaysOrderly == Spec => []Orderly
  BY InitOrderly, NextOrderly, PTL DEF Spec

\* Every state is well typed, and the queue never holds more than INPUT_MAX.
THEOREM InputTypeCorrect == Spec => []TypeOK
  <1>1. Orderly => TypeOK
    BY DEF Orderly
  <1> QED
    BY <1>1, AlwaysOrderly, PTL

\* The program is given what was accepted, in that order, whatever writers and
\* replies share the queue (queue_input, drain_input).
THEOREM AlwaysAcceptedInOrder == Spec => []AcceptedInOrder
  <1>1. Orderly => AcceptedInOrder
    BY DEF Orderly
  <1> QED
    BY <1>1, AlwaysOrderly, PTL

\* Input left in the queue never waits for a thread that nobody wakes (write's
\* poke, and the I/O thread's interest in room).
THEOREM NeverLosesInput == Spec => []NoLostInput
  <1>1. Orderly => NoLostInput
    BY DEF Orderly
  <1> QED
    BY <1>1, AlwaysOrderly, PTL

\* Nothing is written after a failure (drain_input's and queue_input's latch).
THEOREM FailureAlwaysFinal == Spec => FailureIsFinal
  <1>1. ASSUME TypeOK, [Next]_vars PROVE [failed => failed' /\ written' = written]_vars
    <2> SUFFICES ASSUME failed, Next PROVE failed' /\ written' = written
      BY <1>1
    <2>1. ASSUME NEW w \in Writer, Write(w) \/ Poke(w) PROVE failed' /\ written' = written
      BY <2>1 DEF Write, Poke, inputVars
    <2>2. ASSUME ProgramReads PROVE failed' /\ written' = written
      BY <2>2 DEF ProgramReads
    <2>3. ASSUME Arm \/ PollWritable \/ PollWoken \/ PollOutput \/ NothingToAnswer
          PROVE  failed' /\ written' = written
      BY <2>3 DEF Arm, PollWritable, PollWoken, PollOutput, PollReturns, NothingToAnswer,
                  inputVars
    <2>4. ASSUME DrainReady PROVE failed' /\ written' = written
      BY <2>4 DEF DrainReady, inputVars
    <2>5. ASSUME CollectionFails \/ Responds PROVE failed' /\ written' = written
      BY <2>5 DEF CollectionFails, Responds, Fails, Becomes
    <2> QED
      BY <2>1, <2>2, <2>3, <2>4, <2>5 DEF Next, IoThread
  <1> QED
    BY <1>1, InputTypeCorrect, PTL DEF Spec, FailureIsFinal
=============================================================================
