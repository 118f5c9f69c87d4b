------------------------------ MODULE PtydInput ------------------------------
(***************************************************************************)
(* The input side of one terminal of the PTY daemon: the bounded queue     *)
(* that clients' writes and the terminal's own protocol replies share, the *)
(* non-blocking writer that empties it into the kernel, and the I/O thread *)
(* that goes on emptying it when the kernel can take more.  The first      *)
(* failure is final: what was not written is discarded and nothing is      *)
(* retried.                                                                *)
(*                                                                         *)
(* A step is one hold of the input lock, or one call of poll().  A byte is *)
(* <<chunk, position>>.                                                    *)
(***************************************************************************)
EXTENDS Naturals, Sequences

CONSTANTS
    Writer,      \* the clients that type
    InputMax,    \* INPUT_MAX
    Room,        \* how much input the kernel holds for the program
    Sizes,       \* the sizes of a chunk of input or of a reply
    MaxChunks    \* bound of the model: chunks put in the queue

ASSUME InputAssumption ==
    /\ InputMax \in Nat /\ Room \in Nat \ {0} /\ MaxChunks \in Nat
    /\ Sizes \subseteq Nat \ {0}

VARIABLES
    queue,       \* the bytes not yet written
    failed,      \* whether the input has failed for good
    written,     \* the bytes the kernel has taken, in order
    room,        \* how many more it would take now
    io,          \* where the I/O thread is
    wantWrite,   \* whether its poll() asks for room
    wake,        \* whether the wake pipe holds a byte
    at,          \* where each writer's reader thread is
    accepted,    \* observed: the bytes put in the queue, in order
    chunks,      \* observed: how many chunks were put in the queue
    replies,     \* observed: those of them that were the terminal's replies
    announced    \* observed: an inputError was broadcast

inputVars == <<queue, failed, written, room, accepted, chunks, replies>>
vars == <<inputVars, io, wantWrite, wake, at, announced>>

Chunk(n, size) == [i \in 1..size |-> <<n, i>>]

Becomes(newQueue, newFailed, newWritten, newRoom) ==
    /\ queue' = newQueue /\ failed' = newFailed
    /\ written' = newWritten /\ room' = newRoom

Fails == Becomes(<<>>, TRUE, written, room)

-----------------------------------------------------------------------------
Init ==
    /\ queue = <<>> /\ failed = FALSE /\ written = <<>> /\ room = Room
    /\ io = "top" /\ wantWrite = FALSE /\ wake = FALSE
    /\ at = [w \in Writer |-> "idle"]
    /\ accepted = <<>> /\ chunks = 0 /\ replies = {} /\ announced = FALSE

-----------------------------------------------------------------------------
(* The queue, under its lock.                                              *)

\* Mutant of Drain: a write that fails drops the rest and carries on.
DrainCarriesOn(bytes) ==
    \E n \in 0..Len(bytes) :
        /\ n <= room
        /\ \E rest \in {<<>>, SubSeq(bytes, n + 1, Len(bytes))} :
             Becomes(rest, FALSE, written \o SubSeq(bytes, 1, n), room - n)

\* drain_input, of a queue that holds `bytes`: the writer takes as much as there
\* is room for, or fails part way.
Drain(bytes) ==
    \E n \in 0..Len(bytes) :
        /\ n <= room
        /\ \/ /\ n = Len(bytes) \/ n = room
              /\ Becomes(SubSeq(bytes, n + 1, Len(bytes)), FALSE,
                         written \o SubSeq(bytes, 1, n), room - n)
           \/ /\ n < Len(bytes)
              /\ Becomes(<<>>, TRUE, written \o SubSeq(bytes, 1, n), room - n)

Fits(size) == size <= InputMax - Len(queue)

\* queue_input, of a chunk that fits in an input that has not failed.
Queue(size) ==
    LET chunk == Chunk(chunks + 1, size)
    IN  /\ chunks < MaxChunks
        /\ chunks' = chunks + 1
        /\ accepted' = accepted \o chunk
        /\ Drain(queue \o chunk)

-----------------------------------------------------------------------------
(* Clients.                                                                *)

\* Mutant of Write: the I/O thread is not woken for what is left.
WriteOnly(w) ==
    /\ at[w] = "idle" /\ ~failed
    /\ \E size \in Sizes : Fits(size) /\ Queue(size)
    /\ UNCHANGED <<replies, io, wantWrite, wake, at, announced>>

\* write: refused whole, or queued and pushed; what is left the I/O thread is
\* to push, and is woken for.
Write(w) ==
    /\ at[w] = "idle"
    /\ \E size \in Sizes :
         IF failed \/ ~Fits(size)
         THEN UNCHANGED <<inputVars, at>>
         ELSE /\ Queue(size) /\ UNCHANGED replies
              /\ at' = [at EXCEPT ![w] = IF queue' # <<>> THEN "poke" ELSE "idle"]
    /\ UNCHANGED <<io, wantWrite, wake, announced>>

Poke(w) ==
    /\ at[w] = "poke"
    /\ at' = [at EXCEPT ![w] = "idle"]
    /\ wake' = TRUE
    /\ UNCHANGED <<inputVars, io, wantWrite, announced>>

\* The program reads some of its input.
ProgramReads ==
    /\ room < Room
    /\ \E n \in (room + 1)..Room : room' = n
    /\ UNCHANGED <<queue, failed, written, accepted, chunks, replies, io, wantWrite, wake, at, announced>>

-----------------------------------------------------------------------------
(* The I/O thread.                                                         *)

\* Mutant of Arm: poll() is not asked for room.
ArmForOutput ==
    /\ io = "top"
    /\ io' = "poll"
    /\ wantWrite' = FALSE
    /\ UNCHANGED <<inputVars, wake, at, announced>>

Arm ==
    /\ io = "top"
    /\ io' = "poll"
    /\ wantWrite' = (queue # <<>>)
    /\ UNCHANGED <<inputVars, wake, at, announced>>

PollReturns(next) ==
    /\ io = "poll"
    /\ io' = next
    /\ wake' = FALSE
    /\ UNCHANGED <<inputVars, wantWrite, at, announced>>

Writable == wantWrite /\ room > 0

PollWritable == Writable /\ PollReturns("drain")

PollWoken == ~Writable /\ wake /\ PollReturns("output")

\* The program printed something.
PollOutput == ~Writable /\ PollReturns("output")

\* POLLOUT: the queue is drained; a failure, whosever, is announced.
DrainReady ==
    /\ io = "drain"
    /\ io' = "output"
    /\ IF failed THEN UNCHANGED inputVars
       ELSE Drain(queue) /\ UNCHANGED <<accepted, chunks, replies>>
    /\ announced' = (announced \/ failed')
    /\ UNCHANGED <<wantWrite, wake, at>>

\* The replies to a batch of output, or to a state change at the top of the
\* loop, go through queue_responses: they could not be collected...
CollectionFails ==
    /\ io \in {"top", "output"}
    /\ io' = "top"
    /\ Fails /\ announced' = TRUE
    /\ UNCHANGED <<accepted, chunks, replies, wantWrite, wake, at>>

\* ... or one was, and is queued like input; not being able to is a failure...
Responds ==
    /\ io \in {"top", "output"}
    /\ io' = "top"
    /\ \E size \in Sizes :
         IF failed \/ ~Fits(size)
         THEN Fails /\ UNCHANGED <<accepted, chunks, replies>>
         ELSE Queue(size) /\ replies' = replies \cup {chunks'}
    /\ announced' = (announced \/ failed')
    /\ UNCHANGED <<wantWrite, wake, at>>

\* ... or there is none, and the queue is not looked at.
NothingToAnswer ==
    /\ io = "output"
    /\ io' = "top"
    /\ UNCHANGED <<inputVars, wantWrite, wake, at, announced>>

IoThread == Arm \/ PollWritable \/ PollWoken \/ DrainReady
                \/ CollectionFails \/ Responds \/ NothingToAnswer

Next == (\E w \in Writer : Write(w) \/ Poke(w)) \/ ProgramReads \/ IoThread \/ PollOutput

\* Threads keep running, and the program reads its input: one that does not
\* stalls its own input only.  Nobody is obliged to type, or to print.
Fairness ==
    /\ \A w \in Writer : WF_vars(Poke(w))
    /\ WF_vars(ProgramReads) /\ WF_vars(IoThread)

Spec == Init /\ [][Next]_vars
FairSpec == Spec /\ Fairness

-----------------------------------------------------------------------------
(* Properties.                                                             *)

Bytes == Seq((1..MaxChunks) \X Nat)

TypeOK ==
    /\ queue \in Bytes /\ Len(queue) <= InputMax
    /\ written \in Bytes /\ accepted \in Bytes
    /\ failed \in BOOLEAN /\ announced \in BOOLEAN
    /\ room \in 0..Room /\ chunks \in 0..MaxChunks /\ replies \subseteq 1..chunks
    /\ io \in {"top", "poll", "drain", "output"}
    /\ wantWrite \in BOOLEAN /\ wake \in BOOLEAN
    /\ at \in [Writer -> {"idle", "poke"}]

\* The program is given what was accepted, in that order, with nothing lost,
\* repeated or out of place; after a failure, some beginning of it.
AcceptedInOrder ==
    IF failed
    THEN queue = <<>> /\ \E n \in 0..Len(accepted) : written = SubSeq(accepted, 1, n)
    ELSE written \o queue = accepted

\* Nothing is written after a failure: a partial write is never continued.
FailureIsFinal == [][failed => failed' /\ written' = written]_vars

\* A thread asleep without asking for room, while input waits, is woken or about
\* to be: the writer that left it there pokes after it let the queue go.
NoLostInput ==
    io = "poll" /\ ~wantWrite /\ queue # <<>> => wake \/ \E w \in Writer : at[w] = "poke"

\* Input that was accepted reaches a program that reads, or the input failed.
InputDelivered ==
    \A n \in 1..(2 * InputMax) : Len(accepted) >= n ~> (Len(written) >= n \/ failed)

ReplyDiscarded ==
    failed /\ \E i \in (Len(written) + 1)..Len(accepted) : accepted[i][1] \in replies

\* SNAPSHOTS.md of the terminal's replies, which share the queue: "Collection/
\* queue/write failure latches input failure, discards the unsent suffix and
\* emits `inputError`".
FailureAnnounced == ReplyDiscarded ~> announced
=============================================================================
