-------------------------- MODULE PtydDaemonProofs --------------------------
(***************************************************************************)
(* Proofs about PtydDaemon and PtydViewer, for any number of clients and   *)
(* terminals and any sizes of rings, outboxes and queues.  First the       *)
(* daemon: its types and what it tells its clients.  Then the app's views  *)
(* of it: the numbers every event carries, where a view is in them, and    *)
(* that the two together implement TerminalView.                           *)
(***************************************************************************)
EXTENDS PtydViewer, SequenceTheorems, FiniteSetTheorems, WellFoundedInduction, TLAPS

Places == {"idle", "attach", "capture", "changing", "reply"}

LiveKinds == {"replay", "header"}

\* A handler that reads a ring is about a terminal, and so is an answer that says
\* one is live; a handler about to answer is about the terminal of its line.
Handlers == {h \in [at : Places, term : Term \cup {NoTerm}, line : Line] :
               /\ h.at \in {"attach", "capture"} => h.term \in Term
               /\ h.at = "reply" => h.line.term = h.term
               /\ h.at = "reply" /\ h.line.kind \in LiveKinds => h.term \in Term}

Rings == [chunks : Seq(Sizes), seq : Nat, stateSeq : Nat,
          truncated : BOOLEAN, valid : BOOLEAN]

-----------------------------------------------------------------------------
(* Lines and handler states have their types.                              *)

\* A line without numbers is a line, of the kind and about the terminal asked for.
LEMMA PlainLine ==
    ASSUME NEW kind \in Kinds, NEW t \in Term \cup {NoTerm}
    PROVE  Plain(kind, t) \in Line /\ Plain(kind, t).kind = kind /\ Plain(kind, t).term = t
BY DEF Plain, Line

\* So is a line with the terminal's numbers.
LEMMA StampedLine ==
    ASSUME TypeOK, NEW kind \in Kinds, NEW t \in Term
    PROVE  /\ Stamped(kind, t) \in Line
           /\ Stamped(kind, t).kind = kind /\ Stamped(kind, t).term = t
BY DEF Stamped, Plain, Line, TypeOK

\* An attach's answer numbers its first chunk from 1 on, for a ring never holds
\* more chunks than the terminal has emitted.
LEMMA ReplayLine ==
    ASSUME TypeOK, TruncationHonest, NEW t \in Term
    PROVE  Replay(t) \in Line /\ Replay(t).kind = "replay" /\ Replay(t).term = t
<1>1. /\ ring[t].seq \in Nat /\ ring[t].truncated \in BOOLEAN
      /\ ring[t].chunks \in Seq(Sizes)
  BY DEF TypeOK
<1>2. Len(ring[t].chunks) \in Nat
  BY <1>1, LenProperties
<1>3. ring[t].seq + 1 - Len(ring[t].chunks) \in Nat
  BY <1>1, <1>2 DEF TruncationHonest
<1>4. "replay" \in Kinds
  BY DEF Kinds
<1>5. /\ Stamped("replay", t) \in Line /\ Stamped("replay", t).kind = "replay"
      /\ Stamped("replay", t).term = t
  BY <1>4, StampedLine
<1> QED
  BY <1>1, <1>3, <1>5 DEF Replay, Line

\* A handler about to answer is about the terminal of its line.
LEMMA AnswerType ==
    ASSUME NEW line \in Line, line.kind \in LiveKinds => line.term \in Term
    PROVE  /\ Answer(line) \in Handlers /\ Answer(line).at = "reply"
           /\ Answer(line).term = line.term /\ Answer(line).line = line
BY DEF Answer, Handlers, Line, Places

\* An answer that does not say a terminal is live.
LEMMA PlainAnswer ==
    ASSUME NEW kind \in {"ok", "error", "dead"}, NEW t \in Term \cup {NoTerm}
    PROVE  Answer(Plain(kind, t)) \in Handlers
<1>1. kind \in Kinds /\ kind \notin LiveKinds
  BY DEF Kinds, LiveKinds
<1>2. Plain(kind, t) \in Line /\ Plain(kind, t).kind \notin LiveKinds
  BY <1>1, PlainLine
<1> QED
  BY <1>2, AnswerType

\* A reader thread in the middle of a request is one of the handlers.
LEMMA DoingType ==
    ASSUME NEW at \in {"attach", "capture", "changing"}, NEW t \in Term
    PROVE  Doing(at, t) \in Handlers /\ Doing(at, t).at = at /\ Doing(at, t).term = t
<1>1. NoLine \in Line
  BY PlainLine DEF NoLine, Kinds
<1> QED
  BY <1>1 DEF Doing, Handlers, Places

\* A reader thread between requests works on no terminal.
LEMMA IdleType == Idle \in Handlers /\ Idle.at = "idle" /\ Idle.term = NoTerm
<1>1. NoLine \in Line
  BY PlainLine DEF NoLine, Kinds
<1> QED
  BY <1>1 DEF Idle, Handlers, Places

-----------------------------------------------------------------------------
(* The daemon's list of clients keeps its type.                            *)

\* What leaves the list, whoever it is, and what the others are sent.
LEMMA LeaveType ==
    ASSUME TypeOK,
           NEW dropped, NEW socket \in {"absent", "open", "shut", "gone"},
           NEW queues \in [Client -> Seq(Line)], NEW exits \in [Client -> SUBSET Term],
           Leave(dropped, socket, queues, exits)
    PROVE  /\ clients' \in SUBSET Client /\ stalled' \in SUBSET Client
           /\ conn' \in [Client -> {"absent", "open", "shut", "gone"}]
           /\ hearsAll' \in [Client -> BOOLEAN]
           /\ terminals' \in [Client -> SUBSET Term]
           /\ outbox' \in [Client -> Seq(Line)]
           /\ answered' \in [Client -> SUBSET Term]
           /\ announced' \in [Client -> SUBSET Term]
<1>1. <<>> \in Seq(Line)
  OBVIOUS
<1> QED
  BY <1>1 DEF Leave, Without, TypeOK

\* A line sent to those that hear its terminal.
LEMMA BroadcastType ==
    ASSUME TypeOK, NEW t \in Term, NEW line \in Line, NEW dropped,
           Broadcast(t, line, dropped)
    PROVE  /\ clients' \in SUBSET Client /\ stalled' \in SUBSET Client
           /\ conn' \in [Client -> {"absent", "open", "shut", "gone"}]
           /\ hearsAll' \in [Client -> BOOLEAN]
           /\ terminals' \in [Client -> SUBSET Term]
           /\ outbox' \in [Client -> Seq(Line)]
           /\ answered' \in [Client -> SUBSET Term]
           /\ announced' \in [Client -> SUBSET Term]
<1> DEFINE hearers == {c \in clients : Hears(c, t)}
           told == IF line.kind = "exit" THEN {t} ELSE {}
           queues == [c \in Client |-> IF c \in hearers THEN Append(outbox[c], line)
                                                          ELSE outbox[c]]
           exits == [c \in Client |-> IF c \in hearers THEN announced[c] \cup told
                                                         ELSE announced[c]]
<1>1. queues \in [Client -> Seq(Line)]
  <2>1. \A c \in Client : outbox[c] \in Seq(Line)
    BY DEF TypeOK
  <2>2. \A c \in Client : Append(outbox[c], line) \in Seq(Line)
    BY <2>1, AppendProperties
  <2> QED
    BY <2>1, <2>2
<1>2. exits \in [Client -> SUBSET Term]
  BY DEF TypeOK
<1>3. Leave(dropped, "shut", queues, exits)
  BY DEF Broadcast
<1> HIDE DEF queues, exits
<1> QED
  BY <1>1, <1>2, <1>3, LeaveType

-----------------------------------------------------------------------------
(* Rings.                                                                  *)

\* A batch is pushed on a ring, which keeps its type, and goes on saying whether
\* it still holds every batch.
LEMMA PushRing ==
    ASSUME TypeOK, TruncationHonest, NEW t \in Term, Push(t)
    PROVE  ring' \in [Term -> Rings] /\ TruncationHonest'
<1>1. PICK size \in Sizes, valid \in {ring[t].valid, ring[t].valid /\ ~VtFails} :
        LET grown == Append(ring[t].chunks, size)
        IN  \E n \in 0..Len(grown) :
              /\ Pops(grown, n)
              /\ ring' = [ring EXCEPT ![t] =
                 [chunks |-> SubSeq(grown, n + 1, Len(grown)),
                  seq |-> @.seq + 1, stateSeq |-> @.stateSeq + 1,
                  truncated |-> @.truncated \/ n > 0, valid |-> valid]]
  BY Zenon DEF Push
<1> DEFINE chunks == ring[t].chunks
           grown == Append(chunks, size)
<1>2. PICK n \in 0..Len(grown) :
        ring' = [ring EXCEPT ![t] =
           [chunks |-> SubSeq(grown, n + 1, Len(grown)),
            seq |-> @.seq + 1, stateSeq |-> @.stateSeq + 1,
            truncated |-> @.truncated \/ n > 0, valid |-> valid]]
  BY <1>1
<1>3. /\ ring[t] \in Rings /\ chunks \in Seq(Sizes) /\ ring[t].seq \in Nat
      /\ ring[t].truncated \in BOOLEAN
  BY DEF TypeOK, Rings
<1>4. grown \in Seq(Sizes) /\ Len(grown) = Len(chunks) + 1 /\ Len(chunks) \in Nat
  BY <1>3, AppendProperties, LenProperties
<1> DEFINE left == SubSeq(grown, n + 1, Len(grown))
<1> HIDE DEF grown
<1>5. left \in Seq(Sizes) /\ Len(left) = Len(grown) - n
  <2>1. n \in Nat /\ n <= Len(grown)
    BY <1>2, <1>4
  <2>2. \A i \in (n + 1)..Len(grown) : grown[i] \in Sizes
    BY <1>4, <2>1, ElementOfSeq
  <2> QED
    BY <1>4, <2>1, <2>2, SubSeqProperties
<1> DEFINE new == [chunks |-> left, seq |-> ring[t].seq + 1, stateSeq |-> ring[t].stateSeq + 1,
                   truncated |-> ring[t].truncated \/ n > 0, valid |-> valid]
<1>6. new \in Rings
  <2>1. valid \in BOOLEAN
    BY <1>1, <1>3, BoundsAssumption DEF Rings
  <2> QED
    BY <1>3, <1>5, <2>1 DEF Rings
<1>7. ring \in [Term -> Rings] /\ ring' = [ring EXCEPT ![t] = new]
  BY <1>2 DEF TypeOK, Rings
<1>8. ring' \in [Term -> Rings]
  BY <1>6, <1>7
<1>9. TruncationHonest'
  <2> SUFFICES ASSUME NEW u \in Term
               PROVE  /\ Len(ring'[u].chunks) <= ring'[u].seq
                      /\ ring'[u].truncated <=> Len(ring'[u].chunks) < ring'[u].seq
    BY DEF TruncationHonest
  <2>1. CASE u # t
    BY <2>1, <1>7 DEF TruncationHonest
  <2>2. CASE u = t
    <3>1. /\ ring'[u].chunks = left /\ ring'[u].seq = ring[t].seq + 1
          /\ ring'[u].truncated <=> ring[t].truncated \/ n > 0
      BY <2>2, <1>7
    <3>2. Len(chunks) <= ring[t].seq /\ (ring[t].truncated <=> Len(chunks) < ring[t].seq)
      BY DEF TruncationHonest
    <3>3. Len(left) = Len(chunks) + 1 - n /\ n \in 0..(Len(chunks) + 1)
      BY <1>2, <1>4, <1>5
    <3> HIDE DEF left
    <3>4. Len(left) <= ring[t].seq + 1
      BY <3>2, <3>3, <1>3, <1>4
    <3>5. Len(left) < ring[t].seq + 1 <=> Len(chunks) < ring[t].seq \/ n > 0
      BY <3>2, <3>3, <1>3, <1>4
    <3> QED
      BY <3>1, <3>2, <3>4, <3>5
  <2> QED
    BY <2>1, <2>2
<1> QED
  BY <1>8, <1>9

-----------------------------------------------------------------------------
(* Type correctness, with the facts about rings and handlers it needs.     *)

Typed == TypeOK /\ TruncationHonest /\ handler \in [Client -> Handlers]

\* A daemon that has just started is well typed, and its rings count right.
LEMMA InitTyped == Init => Typed
<1> SUFFICES ASSUME Init PROVE Typed
  OBVIOUS
<1>1. NewRing \in Rings /\ Len(NewRing.chunks) = 0 /\ NewRing.seq = 0 /\ ~NewRing.truncated
  BY DEF NewRing, Rings
<1>2. TypeOK
  BY <1>1, IdleType DEF Init, TypeOK, Rings, Handlers, Places
<1>3. TruncationHonest
  BY <1>1 DEF Init, TruncationHonest
<1> QED
  BY <1>2, <1>3, IdleType DEF Init, Typed

\* What a ring says of itself does not hang on its state number or its parser.
LEMMA RingsKept ==
    ASSUME TruncationHonest,
           \A t \in Term : /\ ring'[t].chunks = ring[t].chunks /\ ring'[t].seq = ring[t].seq
                           /\ ring'[t].truncated = ring[t].truncated
    PROVE  TruncationHonest'
BY DEF TruncationHonest

\* Connections and the watchdog.
LEMMA SocketType ==
    ASSUME Typed, NEW c \in Client, Socket(c) \/ Reap
    PROVE  Typed'
<1> USE DEF Typed, TypeOK, TruncationHonest, threadVars, seen
<1>1. CASE Connect(c)
  BY <1>1 DEF Connect
<1>2. CASE Disconnect(c)
  BY <1>2 DEF Disconnect
<1>3. CASE Deliver(c)
  <2>1. outbox[c] \in Seq(Line) /\ outbox[c] # <<>>
    BY <1>3 DEF Deliver
  <2>2. Tail(outbox[c]) \in Seq(Line)
    BY <2>1, HeadTailProperties
  <2> QED
    BY <1>3, <2>2 DEF Deliver
<1>4. CASE StallElapses(c)
  BY <1>4 DEF StallElapses
<1>5. CASE ReaderEnds(c) \/ Reap
  <2>1. \/ Leave({c}, "gone", outbox, announced)
        \/ Leave(stalled, "shut", outbox, announced)
    BY <1>5 DEF ReaderEnds, Reap
  <2>2. outbox \in [Client -> Seq(Line)] /\ announced \in [Client -> SUBSET Term]
    OBVIOUS
  <2>3. UNCHANGED <<threadVars, handler>>
    BY <1>5 DEF ReaderEnds, Reap
  <2> QED
    BY <2>1, <2>2, <2>3, LeaveType
<1> QED
  BY <1>1, <1>2, <1>3, <1>4, <1>5 DEF Socket

\* Requests: their first section.
LEMMA RequestType ==
    ASSUME Typed, NEW c \in Client, Request(c)
    PROVE  Typed'
<1> USE DEF Typed, TypeOK, TruncationHonest, threadVars, seen
<1>1. handler \in [Client -> Handlers]
  OBVIOUS
<1>2. ASSUME NEW doing \in Handlers, Begin(c, doing)
      PROVE  handler' \in [Client -> Handlers]
  BY <1>1, <1>2 DEF Begin
<1>3. \A kind \in {"ok", "error", "dead"}, t \in Term \cup {NoTerm} :
        Answer(Plain(kind, t)) \in Handlers
  BY PlainAnswer
<1>4. ASSUME NEW t \in Term, Subscribe(c, t)
      PROVE  terminals' \in [Client -> SUBSET Term]
  BY <1>4 DEF Subscribe
<1>6. ASSUME NEW all \in BOOLEAN, Hello(c, all)
      PROVE  Typed'
  <2>1. handler' \in [Client -> Handlers]
    BY <1>2, <1>3, <1>6 DEF Hello, NoLine
  <2> QED
    BY <1>6, <2>1 DEF Hello, Handlers, Places
<1>7. ASSUME NEW t \in Term, Create(c, t)
      PROVE  Typed'
  <2>1. handler' \in [Client -> Handlers]
    BY <1>2, <1>3, <1>7 DEF Create
  <2>2. terminals' \in [Client -> SUBSET Term]
    BY <1>4, <1>7 DEF Create
  <2>3. io' = io \/ Move(t, "unborn", "loop")
    BY <1>7 DEF Create
  <2> QED
    BY <1>7, <2>1, <2>2, <2>3 DEF Create, Move, Handlers, Places
<1>8. ASSUME NEW t \in Term, Attach(c, t) \/ SnapshotBegin(c, t)
      PROVE  Typed'
  <2>1. handler' \in [Client -> Handlers]
    <3>1. Doing("attach", t) \in Handlers /\ Doing("capture", t) \in Handlers
      BY DoingType DEF Places
    <3> QED
      BY <1>2, <1>3, <1>8, <3>1 DEF Attach, SnapshotBegin
  <2>2. terminals' \in [Client -> SUBSET Term]
    BY <1>4, <1>8 DEF Attach, SnapshotBegin
  <2> QED
    BY <1>8, <2>1, <2>2 DEF Attach, SnapshotBegin, Handlers, Places
<1>9. ASSUME NEW t \in Term, NEW what \in Changes, Change(c, t, what)
      PROVE  Typed'
  <2>1. handler' \in [Client -> Handlers]
    <3>1. Doing("changing", t) \in Handlers
      BY DoingType DEF Places
    <3> QED
      BY <1>2, <1>3, <1>9, <3>1 DEF Change
  <2>2. resizes' \in [Term -> Seq([from : Client, what : Changes])]
    <3>1. Append(resizes[t], [from |-> c, what |-> what]) \in Seq([from : Client, what : Changes])
      BY AppendProperties
    <3> QED
      BY <1>9, <3>1 DEF Change
  <2> QED
    BY <1>9, <2>1, <2>2 DEF Change, clientVars, Handlers, Places
<1> QED
  BY <1>6, <1>7, <1>8, <1>9 DEF Request

\* Requests: their second section, and the answer.
LEMMA HandlerType ==
    ASSUME Typed, NEW c \in Client, HandlerStep(c)
    PROVE  Typed'
<1> USE DEF Typed
<1>1. ASSUME NEW doing \in Handlers, Begin(c, doing)
      PROVE  handler' \in [Client -> Handlers]
  BY <1>1 DEF Begin
<1>2. handler[c] \in Handlers
  OBVIOUS
<1>3. {"error", "header"} \subseteq Kinds
  BY DEF Kinds
<1>4. CASE AttachRead(c)
  <2>1. handler[c].term \in Term
    BY <1>2, <1>4 DEF AttachRead, Handlers
  <2>2. Answer(Replay(handler[c].term)) \in Handlers
    BY <2>1, ReplayLine, AnswerType DEF LiveKinds
  <2> QED
    BY <1>1, <1>4, <2>2
       DEF AttachRead, TypeOK, TruncationHonest, Handlers, Places, threadVars, clientVars, seen
<1>5. CASE Capture(c)
  <2>1. handler[c].term \in Term
    BY <1>2, <1>5 DEF Capture, Handlers
  <2>2. /\ Answer(Stamped("header", handler[c].term)) \in Handlers
        /\ Answer(Plain("error", handler[c].term)) \in Handlers
    BY <1>3, <2>1, StampedLine, PlainLine, AnswerType DEF LiveKinds
  <2> QED
    BY <1>1, <1>5, <2>2
       DEF Capture, TypeOK, TruncationHonest, Handlers, Places, threadVars, clientVars, seen
<1>6. CASE Reply(c)
  <2>1. handler[c].line \in Line
    BY <1>2 DEF Handlers
  <2>2. Append(outbox[c], handler[c].line) \in Seq(Line)
    BY <2>1, AppendProperties DEF TypeOK
  <2>3. handler[c].line.kind \in {"replay", "header"} => handler[c].line.term \in Term
    BY <1>2, <1>6 DEF Reply, Handlers, LiveKinds
  <2>4. handler' \in [Client -> Handlers]
    BY <1>1, <1>6, IdleType DEF Reply
  <2>5. /\ outbox' \in [Client -> Seq(Line)] /\ answered' \in [Client -> SUBSET Term]
        /\ conn' \in [Client -> {"absent", "open", "shut", "gone"}]
    <3> DEFINE line == handler[c].line
    <3>1. \/ outbox' = outbox \/ outbox' = [outbox EXCEPT ![c] = Append(@, line)]
      BY <1>6 DEF Reply
    <3>2. \/ answered' = answered
          \/ answered' = [answered EXCEPT ![c] =
                            IF line.kind \in {"replay", "header"} THEN @ \cup {line.term} ELSE @]
      BY <1>6 DEF Reply
    <3>3. conn' = conn \/ conn' = [conn EXCEPT ![c] = "shut"]
      BY <1>6 DEF Reply
    <3>4. outbox' \in [Client -> Seq(Line)]
      BY <2>2, <3>1 DEF TypeOK
    <3>5. answered' \in [Client -> SUBSET Term]
      <4>1. answered \in [Client -> SUBSET Term]
        BY DEF TypeOK
      <4>2. CASE line.kind \in {"replay", "header"}
        <5>1. answered' = answered \/ answered' = [answered EXCEPT ![c] = @ \cup {line.term}]
          BY <3>2, <4>2
        <5> QED
          BY <2>3, <4>1, <4>2, <5>1
      <4>3. CASE line.kind \notin {"replay", "header"}
        <5>1. answered' = answered \/ answered' = [answered EXCEPT ![c] = @]
          BY <3>2, <4>3
        <5> QED
          BY <4>1, <5>1
      <4> QED
        BY <4>2, <4>3
    <3> QED
      BY <3>3, <3>4, <3>5 DEF TypeOK
  <2>6. UNCHANGED <<threadVars, clients, hearsAll, terminals, stalled, announced>>
    BY <1>6 DEF Reply
  <2> QED
    BY <2>4, <2>5, <2>6 DEF TypeOK, TruncationHonest, Handlers, Places, threadVars
<1> QED
  BY <1>4, <1>5, <1>6 DEF HandlerStep

\* An I/O thread that moves on, or pushes a batch.
LEMMA LoopType ==
    ASSUME Typed, NEW t \in Term,
           Push(t) \/ LeaveLoop(t) \/ Unregister(t) \/ Forget(t)
    PROVE  Typed'
<1> USE DEF Typed, TypeOK
<1>1. CASE Push(t)
  BY <1>1, PushRing DEF Push, Move, clientVars, seen, Rings
<1>2. CASE LeaveLoop(t) \/ Unregister(t) \/ Forget(t)
  <2>1. io' \in [Term -> {"unborn", "loop", "broadcast", "reap", "announce",
                          "forget", "ending", "done"}]
    BY <1>2 DEF LeaveLoop, Unregister, Forget, Move
  <2>2. terminals' \in [Client -> SUBSET Term]
    BY <1>2 DEF LeaveLoop, Unregister, Forget, clientVars
  <2>3. UNCHANGED <<ring, resizes, clients, conn, hearsAll, outbox, stalled, handler, seen>>
    BY <1>2 DEF LeaveLoop, Unregister, Forget, clientVars
  <2> QED
    BY <2>1, <2>2, <2>3 DEF TruncationHonest, seen
<1> QED
  BY <1>1, <1>2

\* An I/O thread that sends a line.
LEMMA SendType ==
    ASSUME Typed, NEW t \in Term, BroadcastOutput(t) \/ AnnounceExit(t)
    PROVE  Typed'
<1>1. PICK line, dropped : line \in Line /\ Broadcast(t, line, dropped)
  <2>1. /\ Stamped("data", t) \in Line /\ Plain("exit", t) \in Line
    BY StampedLine, PlainLine DEF Kinds, Typed
  <2> QED
    BY <2>1 DEF BroadcastOutput, AnnounceExit
<1>2. UNCHANGED <<ring, resizes, handler>> /\ \E from, to :
        to \in {"loop", "forget"} /\ Move(t, from, to)
  BY DEF BroadcastOutput, AnnounceExit
<1>3. TypeOK
  BY DEF Typed
<1>4. io' \in [Term -> {"unborn", "loop", "broadcast", "reap", "announce",
                        "forget", "ending", "done"}]
  BY <1>2, <1>3 DEF Move, TypeOK
<1>5. TypeOK'
  BY <1>1, <1>2, <1>3, <1>4, BroadcastType DEF TypeOK
<1> QED
  BY <1>2, <1>5 DEF Typed, TruncationHonest

\* A change's ring is numbered anew, and keeps its output.
LEMMA RenumberedRing ==
    ASSUME ring \in [Term -> Rings], TruncationHonest, NEW t \in Term, NEW n \in Nat,
           NEW ok \in BOOLEAN,
           ring' = [ring EXCEPT ![t].stateSeq = n, ![t].valid = ok]
    PROVE  ring' \in [Term -> Rings] /\ TruncationHonest'
<1>1. ring[t] \in Rings
  OBVIOUS
<1>2. [ring[t] EXCEPT !.stateSeq = n, !.valid = ok] \in Rings
  BY <1>1 DEF Rings
<1>3. ring' = [ring EXCEPT ![t] = [ring[t] EXCEPT !.stateSeq = n, !.valid = ok]]
  BY <1>1 DEF Rings
<1>4. ring' \in [Term -> Rings]
  BY <1>2, <1>3
<1>5. \A u \in Term : /\ ring'[u].chunks = ring[u].chunks /\ ring'[u].seq = ring[u].seq
                      /\ ring'[u].truncated = ring[u].truncated
  BY <1>1, <1>3 DEF Rings
<1> QED
  BY <1>4, <1>5, RingsKept

\* An I/O thread that answers a state change, or ends and lets the rest go.
LEMMA ChangeType ==
    ASSUME Typed, NEW t \in Term, ApplyChange(t) \/ ThreadEnds(t)
    PROVE  Typed'
<1> USE DEF Typed
<1>1. ring \in [Term -> Rings] /\ resizes \in [Term -> Seq([from : Client, what : Changes])]
  BY DEF TypeOK, Rings
<1>2. Answer(Plain("ok", t)) \in Handlers /\ Answer(Plain("error", t)) \in Handlers
  BY PlainLine, AnswerType DEF Kinds, LiveKinds
<1>3. ASSUME NEW answer \in {"ok", "error"}, Answered(t, answer)
      PROVE  /\ resizes' \in [Term -> Seq([from : Client, what : Changes])]
             /\ handler' \in [Client -> Handlers]
  <2>1. resizes[t] \in Seq([from : Client, what : Changes]) /\ resizes[t] # <<>>
    BY <1>1, <1>3 DEF Answered
  <2>2. Tail(resizes[t]) \in Seq([from : Client, what : Changes])
    BY <2>1, HeadTailProperties
  <2> QED
    BY <1>1, <1>2, <1>3, <2>2 DEF Answered
<1>4. CASE ChangeApplied(t)
  <2>1. PICK dropped : Broadcast(t, [Stamped("state", t) EXCEPT !.state = @ + 1], dropped)
    BY <1>4 DEF ChangeApplied
  <2>2. [Stamped("state", t) EXCEPT !.state = @ + 1] \in Line
    BY StampedLine DEF Kinds, Line
  <2>3. ring' \in [Term -> Rings] /\ TruncationHonest'
    <3>1. ring[t] \in Rings
      BY <1>1
    <3>2. ring[t].stateSeq + 1 \in Nat /\ ring[t].valid \in BOOLEAN
      BY <3>1 DEF Rings
    <3>3. ring' = [ring EXCEPT ![t].stateSeq = ring[t].stateSeq + 1, ![t].valid = ring[t].valid]
      BY <1>1, <1>4, <3>1 DEF ChangeApplied, Rings
    <3> QED
      BY <1>1, <3>2, <3>3, RenumberedRing
  <2> QED
    <3>1. UNCHANGED io
      BY <1>4 DEF ChangeApplied
    <3>2. /\ resizes' \in [Term -> Seq([from : Client, what : Changes])]
          /\ handler' \in [Client -> Handlers]
      BY <1>3, <1>4 DEF ChangeApplied
    <3> QED
      BY <2>1, <2>2, <2>3, <3>1, <3>2, BroadcastType DEF TypeOK, Rings, Handlers, Places
<1>5. CASE ChangeSkipped(t)
  BY <1>3, <1>5
     DEF ChangeSkipped, TypeOK, TruncationHonest, Handlers, Places, clientVars, seen
<1>6. CASE ChangeFails(t)
  <2> DEFINE n == IF Head(resizes[t]).what = "resize" THEN ring[t].stateSeq + 1
                                                       ELSE ring[t].stateSeq
  <2>1. ring' \in [Term -> Rings] /\ TruncationHonest'
    <3>1. ring[t] \in Rings
      BY <1>1
    <3>2. n \in Nat
      BY <3>1 DEF Rings
    <3>3. ring' = [ring EXCEPT ![t].stateSeq = n, ![t].valid = FALSE]
      BY <1>1, <1>6, <3>1 DEF ChangeFails, Rings
    <3> HIDE DEF n
    <3> QED
      BY <1>1, <3>2, <3>3, RenumberedRing
  <2> QED
    BY <1>3, <1>6, <2>1
       DEF ChangeFails, TypeOK, Rings, Handlers, Places, clientVars, seen
<1>7. CASE ThreadEnds(t)
  <2>1. handler' \in [Client -> Handlers]
    BY <1>2, <1>7 DEF ThreadEnds
  <2>2. resizes' \in [Term -> Seq([from : Client, what : Changes])]
    <3>1. <<>> \in Seq([from : Client, what : Changes])
      BY EmptySeq
    <3> QED
      BY <1>1, <1>7, <3>1 DEF ThreadEnds
  <2> QED
    BY <1>7, <2>1, <2>2
       DEF ThreadEnds, Move, TypeOK, TruncationHonest, Handlers, Places, clientVars, seen
<1> QED
  BY <1>4, <1>5, <1>6, <1>7 DEF ApplyChange

\* Every step keeps the types and the rings' count.
LEMMA NextTyped == Typed /\ [Next]_vars => Typed'
<1> SUFFICES ASSUME Typed, [Next]_vars PROVE Typed'
  OBVIOUS
<1>1. ASSUME NEW c \in Client, Request(c) \/ HandlerStep(c) \/ Socket(c)
      PROVE  Typed'
  BY <1>1, RequestType, HandlerType, SocketType
<1>2. CASE Reap
  <2>1. PICK c \in Client : TRUE
    BY <1>2 DEF Reap, Typed, TypeOK
  <2> QED
    BY <1>2, <2>1, SocketType
<1>3. ASSUME NEW t \in Term, IoThread(t)
      PROVE  Typed'
  BY <1>3, LoopType, SendType, ChangeType DEF IoThread, Teardown
<1>4. CASE UNCHANGED vars
  BY <1>4 DEF Typed, TypeOK, TruncationHonest, vars, threadVars, clientVars, seen
<1> QED
  BY <1>1, <1>2, <1>3, <1>4 DEF Next

\* So they hold always.
LEMMA AlwaysTyped == Spec => []Typed
BY InitTyped, NextTyped, PTL DEF Spec

\* Every variable keeps its type: a terminal's numbers and an attach's answer
\* stay natural numbers, whatever rings drop.
THEOREM TypeCorrect == Spec => []TypeOK
BY AlwaysTyped, PTL DEF Typed

\* Ring::push never lets a replay pass for the whole output when it is not.
THEOREM AlwaysTruncationHonest == Spec => []TruncationHonest
BY AlwaysTyped, PTL DEF Typed

-----------------------------------------------------------------------------
(* Who is told, who hears, who is told of the end.                         *)

Gone == {"forget", "ending", "done"}

\* The inductive invariant, for one client and one terminal.  The three safety
\* properties need each other, and two facts more: nobody was told that a terminal
\* still to be created is live, and a connection still to come was told nothing.
Pair(c, t) ==
    /\ c \in clients /\ ToldLive(c, t) /\ (Registered(t) \/ io[t] = "announce")
          => t \in terminals[c]
    /\ c \in clients /\ ToldLive(c, t) /\ io[t] \in Gone => t \in announced[c]
    /\ t \in terminals[c] =>
          c \in clients /\ (Registered(t) \/ io[t] \in {"announce", "forget"})
    /\ ToldLive(c, t) => io[t] # "unborn"
    /\ conn[c] = "absent" => c \notin clients /\ ~ToldLive(c, t)

Safe == Typed /\ \A c \in Client, t \in Term : Pair(c, t)

\* A step that, if c stays in the list, takes away neither its interest in t nor
\* the exit it was sent.
ListKept(c, t) ==
    /\ c \in clients' => c \in clients \/ conn[c] = "absent"
    /\ t \in terminals'[c] => t \in terminals[c] /\ c \in clients'
    /\ c \in clients' /\ t \in terminals[c] => t \in terminals'[c]
    /\ c \in clients' /\ t \in announced[c] => t \in announced'[c]
    /\ conn'[c] = "absent" => conn[c] = "absent" /\ c \notin clients'

\* A step that tells c nothing new of t.
ToldKept(c, t) == ToldLive(c, t)' => ToldLive(c, t)

\* A step that leaves t on the same side of its creation and of its end.
Steady(t) ==
    \/ io'[t] = io[t]
    \/ /\ io[t] \in {"loop", "broadcast", "reap", "announce"}
       /\ io'[t] \in {"loop", "broadcast", "reap", "announce"}
    \/ io[t] = "ending" /\ io'[t] = "done"

\* Such steps preserve the invariant.
LEMMA Kept ==
    ASSUME NEW c \in Client, NEW t \in Term, Pair(c, t),
           ListKept(c, t), ToldKept(c, t), Steady(t)
    PROVE  Pair(c, t)'
BY DEF Pair, ListKept, ToldKept, Steady, Registered, Gone

\* A handler that is not about to tell its client that a terminal is live.
Mute(h) ==
    h.at \notin {"attach", "capture"} /\ ~(h.at = "reply" /\ h.line.kind \in LiveKinds)

\* A handler that goes on as it was, or has no such thing to say.
LEMMA HandlerKept ==
    ASSUME NEW c \in Client, NEW t \in Term, answered'[c] \subseteq answered[c],
           handler'[c] = handler[c] \/ Mute(handler'[c])
    PROVE  ToldKept(c, t)
BY DEF ToldKept, ToldLive, Awaits, Mute, LiveKinds

\* Answers of the other kinds, and the waits for the I/O thread.
LEMMA MuteStates ==
    ASSUME NEW kind \in {"ok", "error", "dead"}, NEW t
    PROVE  Mute(Answer(Plain(kind, t))) /\ Mute(Idle) /\ Mute(Doing("changing", t))
BY DEF Mute, Answer, Plain, Idle, Doing, NoLine, LiveKinds

\* Nobody is told or in the list before the first step.
LEMMA InitPair == Init => \A c \in Client, t \in Term : Pair(c, t)
BY DEF Init, Pair, ToldLive, Awaits, Idle, Registered, Gone

\* Nothing about the list changes.
LEMMA SameList ==
    ASSUME NEW c \in Client, NEW t \in Term, Pair(c, t),
           UNCHANGED <<clients, conn, terminals, seen>>
    PROVE  ListKept(c, t) /\ answered'[c] \subseteq answered[c]
BY DEF ListKept, Pair, seen

\* Some leave the list, and the rest may be sent an exit.
LEMMA LeaveKept ==
    ASSUME Typed, NEW c \in Client, NEW t \in Term, Pair(c, t),
           NEW dropped, NEW socket \in {"shut", "gone"}, NEW queues, NEW exits,
           announced[c] \subseteq exits[c],
           Leave(dropped, socket, queues, exits)
    PROVE  ListKept(c, t) /\ answered'[c] \subseteq answered[c]
<1>1. /\ c \in dropped =>
            /\ c \notin clients' /\ conn'[c] = socket /\ terminals'[c] = {}
            /\ answered'[c] = {}
      /\ c \notin dropped =>
            /\ conn'[c] = conn[c] /\ terminals'[c] = terminals[c]
            /\ answered'[c] = answered[c] /\ announced'[c] = exits[c]
      /\ clients' \subseteq clients
      /\ c \notin dropped /\ c \in clients => c \in clients'
  BY DEF Leave, Without
<1> QED
  BY <1>1 DEF ListKept, Pair

\* A line sent to those that hear its terminal takes nothing from the others.
LEMMA BroadcastKept ==
    ASSUME Typed, NEW c \in Client, NEW t \in Term, Pair(c, t),
           NEW u \in Term, NEW line, NEW dropped, Broadcast(u, line, dropped)
    PROVE  ListKept(c, t) /\ answered'[c] \subseteq answered[c]
<1> DEFINE hearers == {d \in clients : Hears(d, u)}
           told == IF line.kind = "exit" THEN {u} ELSE {}
           queues == [d \in Client |-> IF d \in hearers THEN Append(outbox[d], line)
                                                          ELSE outbox[d]]
           exits == [d \in Client |-> IF d \in hearers THEN announced[d] \cup told
                                                         ELSE announced[d]]
<1>1. Leave(dropped, "shut", queues, exits)
  BY DEF Broadcast
<1>2. announced[c] \subseteq exits[c]
  OBVIOUS
<1> HIDE DEF queues, exits
<1> QED
  BY <1>1, <1>2, LeaveKept

-----------------------------------------------------------------------------
(* Each action preserves the invariant.                                    *)

\* A client's socket, and the watchdog that drops those that stall.
LEMMA SocketSafe ==
    ASSUME Safe, NEW d \in Client, Socket(d) \/ Reap,
           NEW c \in Client, NEW t \in Term
    PROVE  Pair(c, t)'
<1> USE DEF Safe
<1>1. UNCHANGED <<threadVars, handler>>
  BY DEF Socket, Reap, Connect, Disconnect, Deliver, StallElapses, ReaderEnds
<1>2. Steady(t)
  BY <1>1 DEF Steady, threadVars
<1>3. ListKept(c, t) /\ answered'[c] \subseteq answered[c]
  <2>1. CASE Connect(d) \/ Disconnect(d) \/ Deliver(d) \/ StallElapses(d)
    <3>1. UNCHANGED <<terminals, seen>>
      BY <2>1 DEF Connect, Disconnect, Deliver, StallElapses
    <3>2. \/ conn' = conn /\ clients' = clients
          \/ /\ conn[d] = "absent" /\ conn' = [conn EXCEPT ![d] = "open"]
             /\ clients' = clients \cup {d}
          \/ conn' = [conn EXCEPT ![d] = "shut"] /\ clients' = clients
      BY <2>1 DEF Connect, Disconnect, Deliver, StallElapses
    <3>3. conn \in [Client -> {"absent", "open", "shut", "gone"}]
      BY DEF Typed, TypeOK
    <3> QED
      BY <3>1, <3>2, <3>3 DEF ListKept, Pair, seen
  <2>2. CASE ReaderEnds(d)
    BY <2>2, LeaveKept DEF ReaderEnds
  <2>3. CASE Reap
    BY <2>3, LeaveKept DEF Reap
  <2> QED
    BY <2>1, <2>2, <2>3 DEF Socket
<1> QED
  BY <1>1, <1>2, <1>3, HandlerKept, Kept

\* An I/O thread that changes nothing of the list.
LEMMA QuietThreadSafe ==
    ASSUME Safe, NEW u \in Term,
           \/ Push(u) \/ LeaveLoop(u) \/ Unregister(u) \/ ThreadEnds(u)
           \/ ChangeSkipped(u) \/ ChangeFails(u),
           NEW c \in Client, NEW t \in Term
    PROVE  Pair(c, t)'
<1> USE DEF Safe
<1>1. UNCHANGED <<clientVars, seen>>
  BY DEF Push, LeaveLoop, Unregister, ThreadEnds, ChangeSkipped, ChangeFails
<1>2. ListKept(c, t) /\ answered'[c] \subseteq answered[c]
  BY <1>1, SameList DEF clientVars
<1>3. Steady(t)
  <2>1. io \in [Term -> {"unborn", "loop", "broadcast", "reap", "announce",
                         "forget", "ending", "done"}]
    BY DEF Typed, TypeOK
  <2> QED
    BY <2>1 DEF Push, LeaveLoop, Unregister, ThreadEnds, ChangeSkipped, ChangeFails, Move,
                Steady
<1>4. handler'[c] = handler[c] \/ Mute(handler'[c])
  <2>1. handler \in [Client -> Handlers]
    BY DEF Typed
  <2>2. CASE Push(u) \/ LeaveLoop(u) \/ Unregister(u)
    BY <2>2 DEF Push, LeaveLoop, Unregister
  <2>3. CASE ThreadEnds(u)
    BY <2>3, MuteStates DEF ThreadEnds
  <2>4. ASSUME NEW answer \in {"ok", "error"}, Answered(u, answer)
        PROVE  handler'[c] = handler[c] \/ Mute(handler'[c])
    BY <2>1, <2>4, MuteStates DEF Answered
  <2> QED
    BY <2>2, <2>3, <2>4 DEF ChangeSkipped, ChangeFails
<1> QED
  BY <1>2, <1>3, <1>4, HandlerKept, Kept

\* A line of output, or a state event, goes to those that hear the terminal.
LEMMA OutputSafe ==
    ASSUME Safe, NEW u \in Term, BroadcastOutput(u) \/ ChangeApplied(u),
           NEW c \in Client, NEW t \in Term
    PROVE  Pair(c, t)'
<1> USE DEF Safe
<1>1. PICK line, dropped : Broadcast(u, line, dropped)
  BY DEF BroadcastOutput, ChangeApplied
<1>2. ListKept(c, t) /\ answered'[c] \subseteq answered[c]
  BY <1>1, BroadcastKept
<1>3. Steady(t)
  <2>1. io \in [Term -> {"unborn", "loop", "broadcast", "reap", "announce",
                         "forget", "ending", "done"}]
    BY DEF Typed, TypeOK
  <2> QED
    BY <2>1 DEF BroadcastOutput, ChangeApplied, Move, Steady
<1>4. handler'[c] = handler[c] \/ Mute(handler'[c])
  <2>1. handler \in [Client -> Handlers]
    BY DEF Typed
  <2> QED
    BY <2>1, MuteStates DEF BroadcastOutput, ChangeApplied, Answered
<1> QED
  BY <1>2, <1>3, <1>4, HandlerKept, Kept

\* The exit is in the outbox of every client in the list that was told the
\* terminal is live: it hears it, so it was offered the exit or dropped.
LEMMA AnnounceSafe ==
    ASSUME Safe, NEW u \in Term, AnnounceExit(u), NEW c \in Client, NEW t \in Term
    PROVE  Pair(c, t)'
<1> USE DEF Safe
<1>1. PICK dropped : Broadcast(u, Plain("exit", u), dropped)
  BY DEF AnnounceExit
<1>2. ListKept(c, t) /\ answered'[c] \subseteq answered[c]
  BY <1>1, BroadcastKept
<1>3. ToldKept(c, t)
  BY <1>2, HandlerKept DEF AnnounceExit
<1>4. io \in [Term -> {"unborn", "loop", "broadcast", "reap", "announce",
                       "forget", "ending", "done"}]
  BY DEF Typed, TypeOK
<1>5. CASE t # u
  BY <1>2, <1>3, <1>4, <1>5, Kept DEF AnnounceExit, Move, Steady
<1>6. CASE t = u
  <2>1. io[t] = "announce" /\ io'[t] = "forget"
    BY <1>4, <1>6 DEF AnnounceExit, Move
  <2>2. c \in clients' /\ ToldLive(c, t)' => t \in announced'[c]
    <3>1. SUFFICES ASSUME c \in clients', ToldLive(c, t)' PROVE t \in announced'[c]
      OBVIOUS
    <3>2. c \in clients /\ t \in terminals[c]
      BY <1>2, <1>3, <2>1, <3>1 DEF ListKept, ToldKept, Pair
    <3>3. c \notin dropped
      BY <1>1, <3>1 DEF Broadcast, Leave
    <3>4. Plain("exit", u).kind = "exit"
      BY DEF Plain
    <3> QED
      BY <1>1, <1>6, <3>2, <3>3, <3>4 DEF Broadcast, Leave, Without, Hears
  <2> QED
    BY <1>2, <1>3, <2>1, <2>2 DEF Pair, ListKept, ToldKept, Registered, Gone
<1> QED
  BY <1>5, <1>6

\* The dead are forgotten once their exit is out, so nothing is lost by it.
LEMMA ForgetSafe ==
    ASSUME Safe, NEW u \in Term, Forget(u), NEW c \in Client, NEW t \in Term
    PROVE  Pair(c, t)'
<1> USE DEF Safe
<1>1. UNCHANGED <<clients, conn, handler, answered, announced>>
  BY DEF Forget, seen
<1>2. terminals'[c] = terminals[c] \ {u} /\ io[u] = "forget"
  BY DEF Forget, Move
<1>3. io' = [io EXCEPT ![u] = "ending"] /\ io[u] = "forget"
  BY DEF Forget, Move
<1>4. io \in [Term -> {"unborn", "loop", "broadcast", "reap", "announce",
                       "forget", "ending", "done"}]
  BY DEF Typed, TypeOK
<1>5. ToldKept(c, t)
  BY <1>1 DEF ToldKept, ToldLive, Awaits
<1> QED
  BY <1>1, <1>2, <1>3, <1>4, <1>5 DEF Pair, ToldKept, Registered, Gone

\* A client that is told a terminal is live hears it from the same hold of
\* `terms` on; a terminal just created was told to nobody.
LEMMA RequestSafe ==
    ASSUME Safe, NEW d \in Client, Request(d), NEW c \in Client, NEW t \in Term
    PROVE  Pair(c, t)'
<1> USE DEF Safe
<1>1. UNCHANGED <<clients, conn, seen>>
  BY DEF Request, Hello, Create, Attach, SnapshotBegin, Change, clientVars
<1>2. /\ handler \in [Client -> Handlers] /\ terminals \in [Client -> SUBSET Term]
      /\ io \in [Term -> {"unborn", "loop", "broadcast", "reap", "announce",
                          "forget", "ending", "done"}]
  BY DEF Typed, TypeOK
<1>3. handler[d] = Idle /\ conn[d] \in {"open", "shut"}
  BY DEF Request, Hello, Create, Attach, SnapshotBegin, Change, Ready
<1>4. ASSUME UNCHANGED <<io, terminals>>, handler'[c] = handler[c] \/ Mute(handler'[c])
      PROVE  Pair(c, t)'
  <2>1. ListKept(c, t) /\ answered'[c] \subseteq answered[c]
    BY <1>1, <1>4, SameList
  <2> QED
    BY <1>4, <2>1, HandlerKept, Kept DEF Steady
<1>5. ASSUME NEW all \in BOOLEAN, Hello(d, all)
      PROVE  Pair(c, t)'
  <2>1. PICK kind \in {"ok", "error"} :
          handler' = [handler EXCEPT ![d] = Answer(Plain(kind, NoTerm))]
    BY <1>5 DEF Hello, Begin
  <2>2. Mute(Answer(Plain(kind, NoTerm)))
    BY MuteStates
  <2>3. handler'[c] = handler[c] \/ Mute(handler'[c])
    BY <1>2, <2>1, <2>2
  <2> QED
    BY <1>4, <1>5, <2>3 DEF Hello, threadVars
<1>6. ASSUME NEW u \in Term, NEW what \in Changes, Change(d, u, what)
      PROVE  Pair(c, t)'
  BY <1>2, <1>4, <1>6, MuteStates DEF Change, Begin, clientVars
<1>7. ASSUME NEW u \in Term, Create(d, u)
      PROVE  Pair(c, t)'
  <2>1. handler'[c] = handler[c] \/ Mute(handler'[c])
    BY <1>2, <1>7, MuteStates DEF Create, Begin
  <2>2. ToldKept(c, t)
    BY <1>1, <2>1, HandlerKept DEF seen
  <2>3. CASE UNCHANGED <<io, terminals>>
    BY <1>4, <2>1, <2>3
  <2>4. CASE Move(u, "unborn", "loop") /\ Subscribe(d, u)
    <3>1. CASE t = u
      <4>1. io[t] = "unborn" /\ io'[t] = "loop"
        BY <1>2, <2>4, <3>1 DEF Move
      <4>2. ~ToldLive(c, t)'
        BY <2>2, <4>1 DEF ToldKept, Pair
      <4>3. t \in terminals'[c] => c \in clients'
        BY <1>1, <1>2, <2>4 DEF Subscribe, Pair
      <4> QED
        BY <1>1, <4>1, <4>2, <4>3 DEF Pair, Registered, Gone
    <3>2. CASE t # u
      <4>1. t \in terminals'[c] <=> t \in terminals[c]
        BY <1>2, <2>4, <3>2 DEF Subscribe
      <4>2. ListKept(c, t)
        BY <1>1, <4>1 DEF ListKept, Pair, seen
      <4>3. Steady(t)
        BY <1>2, <2>4, <3>2 DEF Move, Steady
      <4> QED
        BY <2>2, <4>2, <4>3, Kept
    <3> QED
      BY <3>1, <3>2
  <2> QED
    BY <1>7, <2>3, <2>4 DEF Create
<1>8. ASSUME NEW u \in Term, Attach(d, u) \/ SnapshotBegin(d, u)
      PROVE  Pair(c, t)'
  <2>1. UNCHANGED io
    BY <1>8 DEF Attach, SnapshotBegin, threadVars
  <2>2. CASE ~Registered(u)
    BY <1>2, <1>4, <1>8, <2>1, <2>2, MuteStates DEF Attach, SnapshotBegin, Begin
  <2>3. CASE Registered(u)
    <3>1. /\ Subscribe(d, u)
          /\ \E at \in {"attach", "capture"} : handler' = [handler EXCEPT ![d] = Doing(at, u)]
      BY <1>8, <2>3 DEF Attach, SnapshotBegin, Begin
    <3>2. CASE c = d /\ t = u
      <4>1. /\ c \in clients => t \in terminals'[c]
            /\ t \in terminals'[c] => c \in clients
        BY <1>2, <3>1, <3>2 DEF Subscribe, Pair
      <4> QED
        BY <1>1, <1>3, <2>1, <2>3, <3>2, <4>1 DEF Pair, Registered, Gone
    <3>3. CASE ~(c = d /\ t = u)
      <4>1. t \in terminals'[c] <=> t \in terminals[c]
        BY <1>2, <3>1, <3>3 DEF Subscribe
      <4>2. ListKept(c, t)
        BY <1>1, <4>1 DEF ListKept, Pair, seen
      <4>3. ToldKept(c, t)
        BY <1>1, <1>2, <3>1, <3>3 DEF ToldKept, ToldLive, Awaits, Doing, seen
      <4> QED
        BY <2>1, <4>2, <4>3, Kept DEF Steady
    <3> QED
      BY <3>2, <3>3
  <2> QED
    BY <2>2, <2>3
<1> QED
  BY <1>5, <1>6, <1>7, <1>8 DEF Request

\* An answer that says a terminal is live is the one its handler was awaiting.
LEMMA HandlerSafe ==
    ASSUME Safe, NEW d \in Client, HandlerStep(d), NEW c \in Client, NEW t \in Term
    PROVE  Pair(c, t)'
<1> USE DEF Safe
<1>1. /\ handler \in [Client -> Handlers] /\ answered \in [Client -> SUBSET Term]
      /\ conn \in [Client -> {"absent", "open", "shut", "gone"}]
  BY DEF Typed, TypeOK
<1>2. /\ UNCHANGED <<io, clients, terminals, announced>>
      /\ conn' = conn \/ conn' = [conn EXCEPT ![d] = "shut"]
  BY DEF HandlerStep, AttachRead, Capture, Reply, threadVars, clientVars, seen
<1>3. ListKept(c, t) /\ Steady(t)
  BY <1>1, <1>2 DEF ListKept, Steady, Pair
<1>4. ToldKept(c, t)
  <2>1. CASE AttachRead(d) \/ Capture(d)
    <3> DEFINE u == handler[d].term
    <3>1. u \in Term /\ handler[d].at \in {"attach", "capture"}
      BY <1>1, <2>1 DEF AttachRead, Capture, Handlers
    <3>2. /\ Answer(Replay(u)).term = u /\ Answer(Stamped("header", u)).term = u
          /\ Answer(Plain("error", u)).term = u
      BY <3>1, ReplayLine, StampedLine DEF Answer, Plain, Kinds, Typed
    <3>3. handler'[d].term = u /\ \A e \in Client : e # d => handler'[e] = handler[e]
      BY <1>1, <2>1, <3>2 DEF AttachRead, Capture, Begin
    <3>4. answered' = answered
      BY <2>1 DEF AttachRead, Capture, seen
    <3> QED
      BY <3>1, <3>3, <3>4 DEF ToldKept, ToldLive, Awaits
  <2>2. CASE Reply(d)
    <3>1. handler' = [handler EXCEPT ![d] = Idle] /\ handler[d].at = "reply"
      BY <2>2 DEF Reply, Begin
    <3>2. c # d => answered'[c] = answered[c]
      BY <1>1, <2>2 DEF Reply
    <3>3. CASE c # d
      BY <1>1, <3>1, <3>2, <3>3 DEF ToldKept, ToldLive, Awaits
    <3>4. CASE c = d
      <4>1. t \in answered'[c] => \/ t \in answered[c]
                                  \/ /\ handler[c].line.kind \in {"replay", "header"}
                                     /\ handler[c].line.term = t
        BY <1>1, <2>2, <3>4 DEF Reply
      <4>2. handler[c].line.term = handler[c].term
        BY <1>1, <3>1, <3>4 DEF Handlers
      <4>3. ~Awaits(c, t)'
        BY <1>1, <3>1, <3>4 DEF Awaits, Idle
      <4> QED
        BY <3>1, <3>4, <4>1, <4>2, <4>3 DEF ToldKept, ToldLive, Awaits
    <3> QED
      BY <3>3, <3>4
  <2> QED
    BY <2>1, <2>2 DEF HandlerStep
<1> QED
  BY <1>3, <1>4, Kept

\* The invariant is inductive.
LEMMA NextSafe == Safe /\ [Next]_vars => Safe'
<1> SUFFICES ASSUME Safe, [Next]_vars PROVE Safe'
  OBVIOUS
<1>1. Typed'
  BY NextTyped DEF Safe
<1>2. ASSUME NEW c \in Client, NEW t \in Term PROVE Pair(c, t)'
  <2>1. ASSUME NEW d \in Client, Request(d) \/ HandlerStep(d) \/ Socket(d)
        PROVE  Pair(c, t)'
    BY <2>1, RequestSafe, HandlerSafe, SocketSafe
  <2>2. CASE Reap
    BY <2>2, SocketSafe
  <2>3. ASSUME NEW u \in Term, IoThread(u)
        PROVE  Pair(c, t)'
    BY <2>3, QuietThreadSafe, OutputSafe, AnnounceSafe, ForgetSafe
       DEF IoThread, ApplyChange, Teardown
  <2>4. CASE UNCHANGED vars
    BY <2>4 DEF vars, threadVars, clientVars, seen, Safe, Pair, ToldLive, Awaits, Registered
  <2> QED
    BY <2>1, <2>2, <2>3, <2>4 DEF Next
<1> QED
  BY <1>1, <1>2 DEF Safe

\* So it always holds.
LEMMA AlwaysSafe == Spec => []Safe
<1>1. Init => Safe
  BY InitTyped, InitPair DEF Safe
<1> QED
  BY <1>1, NextSafe, PTL DEF Spec

\* attach and snapshotBegin subscribe before they read the ring, under the lock
\* the terminal needs to leave the registry: who is told a terminal is live hears
\* it for as long as it lives.
THEOREM AlwaysHeardWhileLive == Spec => []HeardWhileLive
<1>1. Safe => HeardWhileLive
  BY DEF Safe, Typed, TypeOK, Pair, HeardWhileLive
<1> QED
  BY <1>1, AlwaysSafe, PTL

\* A client that was told a terminal is live and is still in the list is told of
\* its exit, at the latest when the terminal has left the registry and been forgotten.
THEOREM NeverMissesAnExit == Spec => []ExitNeverMissed
<1>1. Safe => ExitNeverMissed
  BY DEF Safe, Typed, TypeOK, Pair, ExitNeverMissed, Gone
<1> QED
  BY <1>1, AlwaysSafe, PTL

\* No client's set of terminals keeps one that is gone.
THEOREM NeverADeadSubscription == Spec => []NoDeadSubscription
<1>1. Safe => NoDeadSubscription
  BY DEF Safe, Typed, TypeOK, Pair, NoDeadSubscription
<1> QED
  BY <1>1, AlwaysSafe, PTL

-----------------------------------------------------------------------------
(* What a view is shown: the events of a terminal, on their way.            *)

Event == {"data", "state", "exit"}
OfTerm(l, t) == l.kind \in Event /\ l.term = t

\* A batch that is in the ring and still to be sent is late.
Late(t) == IF io[t] = "broadcast" THEN 1 ELSE 0

\* How far a terminal is: the numbers in its ring, those of the last event sent,
\* whether its exit was sent and whether its parser still works.
Status(t) == [seq |-> ring[t].seq, state |-> ring[t].stateSeq,
              sent |-> ring[t].seq - Late(t), sentState |-> ring[t].stateSeq - Late(t),
              over |-> io[t] \in Gone, valid |-> ring[t].valid]

Statuses == {T \in [seq : Nat, state : Nat, sent : Int, sentState : Int,
                    over : BOOLEAN, valid : BOOLEAN] :
               /\ T.sent <= T.seq /\ T.sentState <= T.state
               /\ T.state = T.sentState => T.seq = T.sent
               /\ T.over => T.seq = T.sent}

\* A terminal only goes on, and a batch is sent with the numbers it was pushed
\* with.
Onward(T, U) ==
    /\ T.seq <= U.seq /\ T.state <= U.state
    /\ T.sent <= U.sent /\ T.sentState <= U.sentState
    /\ T.state = U.state => T.seq = U.seq
    /\ \/ U.sentState = T.sentState /\ U.sent = T.sent
       \/ U.sentState = T.state /\ U.sent = T.seq
       \/ U.sentState > T.state
    /\ T.over => U.over /\ T.seq = U.seq /\ T.sent = U.sent
    /\ U.valid => T.valid

\* Nothing is sent, and no number of a terminal that works is skipped.
Silent(T, U) == T.sent = U.sent /\ (U.valid => T.sentState = U.sentState)

\* How much an event adds to the output numbers.
Adds(e) == IF e.kind = "data" THEN 1 ELSE 0

\* Event e is sent.
Emits(T, U, e) ==
    /\ e \in Line /\ e.kind \in Event /\ ~T.over
    /\ IF e.kind = "exit" THEN U.over /\ U.sent = T.sent /\ U.sentState = T.sentState
       ELSE /\ e.state = U.sentState /\ U.sentState = T.sentState + 1
            /\ e.seq = U.sent /\ U.sent = T.sent + Adds(e)

\* An event that was sent is of what was sent by now.
Sent(e, T) ==
    /\ e \in Line
    /\ e.kind # "exit" => /\ e.seq <= T.sent /\ e.state <= T.sentState
                          /\ e.state = T.sentState => e.seq = T.sent
    /\ e.kind = "exit" => T.over

\* Event e was sent before f.
Before(e, f) ==
    /\ e.kind # "exit"
    /\ f.kind # "exit" => /\ e.state < f.state /\ e.seq + Adds(f) <= f.seq
                          /\ f.state = e.state + 1 => f.seq = e.seq + Adds(f)

\* A terminal's events in the pipe's buffer b and in the outbox o are ones that
\* were sent, in the order they were sent in.
Queue(b, o, t, T) ==
    /\ \A i \in DOMAIN b : OfTerm(b[i], t) /\ Sent(b[i], T)
    /\ \A i \in DOMAIN o : OfTerm(o[i], t) => Sent(o[i], T)
    /\ \A i, j \in DOMAIN b : i < j => Before(b[i], b[j])
    /\ \A i, j \in DOMAIN o : i < j /\ OfTerm(o[i], t) /\ OfTerm(o[j], t) => Before(o[i], o[j])
    /\ \A i \in DOMAIN b, j \in DOMAIN o : OfTerm(o[j], t) => Before(b[i], o[j])

\* The events of a terminal a view has still to look at.
Due(o, t) == {o[i] : i \in {j \in DOMAIN o : OfTerm(o[j], t)}}
Rest(b, o, t) == {b[i] : i \in DOMAIN b} \cup Due(o, t)

\* A view of a terminal has shown the output up to its number, or its parser has
\* failed; and what follows is still on its way, each number once.
At(q, T, R) ==
    /\ q.shown = q.seq /\ q.seq <= T.seq
    /\ q.state # NoState => /\ q.state <= T.state
                            /\ q.state = T.state => q.seq = T.seq
                            /\ q.state = T.sentState => q.seq = T.sent
    /\ q.failed => ~T.valid
    /\ q.ended => T.over /\ q.seq = T.seq /\ R = {}
    /\ ~q.failed =>
         /\ \A n \in Nat : q.seq < n /\ n <= T.sent => \E e \in R : e.kind = "data" /\ e.seq = n
         /\ q.state # NoState =>
              /\ \A e \in R : e.kind = "data" /\ e.state <= q.state => e.seq <= q.seq
              /\ \A e \in R : e.kind # "exit" /\ e.state = q.state + 1 => e.seq = q.seq + Adds(e)
              /\ T.valid => \A n \in Nat : q.state < n /\ n <= T.sentState =>
                               \E e \in R : e.kind # "exit" /\ e.state = n

Phase == {"new", "asking", "greeted", "opening", "restoring", "live", "closed"}
Pipe == [phase : Phase, term : Term \cup {NoTerm}, seq : Nat, shown : Nat,
         state : Nat \cup {NoState}, ended : BOOLEAN, failed : BOOLEAN, buffered : Seq(Line)]

-----------------------------------------------------------------------------
\* What was sent stays sent.
LEMMA SentOnward ==
    ASSUME NEW T \in Statuses, NEW U \in Statuses, Onward(T, U), NEW e, Sent(e, T)
    PROVE  Sent(e, U)
BY DEF Sent, Onward, Statuses, Line

\* What is sent now was sent, after all that was.
LEMMA EmitsSent ==
    ASSUME NEW T \in Statuses, NEW U \in Statuses, NEW e, Emits(T, U, e)
    PROVE  Sent(e, U) /\ \A l : Sent(l, T) => Before(l, e)
BY DEF Sent, Emits, Before, Statuses, Line, Adds

\* A queue stays one while the terminal goes on.
LEMMA QueueOnward ==
    ASSUME NEW T \in Statuses, NEW U \in Statuses, Onward(T, U), NEW b, NEW o, NEW t,
           Queue(b, o, t, T)
    PROVE  Queue(b, o, t, U)
<1>1. \A e : Sent(e, T) => Sent(e, U)
  BY SentOnward
<1> QED
  BY <1>1 DEF Queue

\* The line at the end of an outbox.
LEMMA AppendAt ==
    ASSUME NEW o \in Seq(Line), NEW e \in Line
    PROVE  /\ Append(o, e) \in Seq(Line) /\ DOMAIN Append(o, e) = DOMAIN o \cup {Len(o) + 1}
           /\ Len(o) + 1 \notin DOMAIN o /\ Append(o, e)[Len(o) + 1] = e
           /\ \A i \in DOMAIN o : Append(o, e)[i] = o[i] /\ i < Len(o) + 1 /\ i \in Nat
BY AppendProperties, LenProperties

\* The lines after the first.
LEMMA TailAt ==
    ASSUME NEW o \in Seq(Line), o # <<>>
    PROVE  /\ Tail(o) \in Seq(Line) /\ Head(o) = o[1] /\ 1 \in DOMAIN o /\ Head(o) \in Line
           /\ \A i \in DOMAIN Tail(o) : i \in Nat /\ i + 1 \in DOMAIN o /\ Tail(o)[i] = o[i + 1] /\ 1 < i + 1
           /\ \A i \in DOMAIN o : i \in Nat /\ (i # 1 => i - 1 \in DOMAIN Tail(o) /\ Tail(o)[i - 1] = o[i])
<1>1. Len(o) \in Nat /\ DOMAIN o = 1..Len(o) /\ Len(o) > 0
  BY LenProperties, EmptySeq
<1>2. Len(Tail(o)) = Len(o) - 1 /\ \A i \in 1..(Len(o) - 1) : Tail(o)[i] = o[i + 1]
  BY HeadTailProperties
<1>3. Tail(o) \in Seq(Line) /\ Head(o) \in Line /\ Head(o) = o[1]
  BY HeadTailProperties
<1>4. DOMAIN Tail(o) = 1..(Len(o) - 1)
  BY <1>2, <1>3, LenProperties
<1> QED
  BY <1>1, <1>2, <1>3, <1>4

\* An event of the terminal goes to the end of the outbox.
LEMMA QueueAppend ==
    ASSUME NEW T \in Statuses, NEW U \in Statuses, Onward(T, U), NEW b \in Seq(Line),
           NEW o \in Seq(Line), NEW t, Queue(b, o, t, T), NEW e, Emits(T, U, e)
    PROVE  Queue(b, Append(o, e), t, U)
<1>1. \A l : Sent(l, T) => Sent(l, U) /\ Before(l, e)
  BY SentOnward, EmitsSent
<1>2. Sent(e, U) /\ e \in Line
  BY EmitsSent DEF Emits
<1> DEFINE a == Append(o, e)
           n == Len(o) + 1
<1>3. /\ DOMAIN a = DOMAIN o \cup {n} /\ n \notin DOMAIN o /\ a[n] = e
      /\ \A i \in DOMAIN o : a[i] = o[i] /\ i < n
  BY <1>2, AppendAt
<1>4. \A i \in DOMAIN o : ~(n < i)
  BY LenProperties
<1>5. ~(n < n)
  BY LenProperties
<1> HIDE DEF a, n
<1>6. \A i \in DOMAIN a : OfTerm(a[i], t) => Sent(a[i], U)
  BY <1>1, <1>2, <1>3 DEF Queue
<1>7. \A i, j \in DOMAIN a : i < j /\ OfTerm(a[i], t) /\ OfTerm(a[j], t) => Before(a[i], a[j])
  BY <1>1, <1>3, <1>4, <1>5 DEF Queue
<1>8. \A i \in DOMAIN b, j \in DOMAIN a : OfTerm(a[j], t) => Before(b[i], a[j])
  BY <1>1, <1>3 DEF Queue
<1> QED
  BY <1>1, <1>6, <1>7, <1>8 DEF Queue, a

\* Any other line does.
LEMMA QueueOther ==
    ASSUME NEW T, NEW b \in Seq(Line), NEW o \in Seq(Line), NEW t, Queue(b, o, t, T),
           NEW e \in Line, ~OfTerm(e, t)
    PROVE  Queue(b, Append(o, e), t, T)
<1> DEFINE a == Append(o, e)
           n == Len(o) + 1
<1>1. /\ DOMAIN a = DOMAIN o \cup {n} /\ n \notin DOMAIN o /\ a[n] = e
      /\ \A i \in DOMAIN o : a[i] = o[i] /\ i < n
  BY AppendAt
<1> HIDE DEF a, n
<1> QED
  BY <1>1 DEF Queue, a

\* The first line is taken off, and waits in the pipe if it is of the terminal.
LEMMA QueueTail ==
    ASSUME NEW T, NEW b \in Seq(Line), NEW o \in Seq(Line), NEW t, Queue(b, o, t, T), o # <<>>
    PROVE  /\ Queue(b, Tail(o), t, T)
           /\ OfTerm(Head(o), t) => Queue(Append(b, Head(o)), Tail(o), t, T)
<1> DEFINE r == Tail(o)
           e == Head(o)
<1>1. /\ r \in Seq(Line) /\ e = o[1] /\ 1 \in DOMAIN o /\ e \in Line
      /\ \A i \in DOMAIN r : i \in Nat /\ i + 1 \in DOMAIN o /\ r[i] = o[i + 1] /\ 1 < i + 1
  BY TailAt
<1> HIDE DEF r, e
<1>2. Queue(b, r, t, T)
  <2>1. \A i, j \in DOMAIN r : i < j /\ OfTerm(r[i], t) /\ OfTerm(r[j], t) => Before(r[i], r[j])
    BY <1>1 DEF Queue
  <2> QED
    BY <1>1, <2>1 DEF Queue
<1>3. ASSUME OfTerm(e, t) PROVE Queue(Append(b, e), r, t, T)
  <2> DEFINE a == Append(b, e)
             n == Len(b) + 1
  <2>1. /\ DOMAIN a = DOMAIN b \cup {n} /\ n \notin DOMAIN b /\ a[n] = e
        /\ \A i \in DOMAIN b : a[i] = b[i] /\ i < n
    BY <1>1, AppendAt
  <2>2. \A i \in DOMAIN b : ~(n < i)
    BY LenProperties
  <2>3. ~(n < n)
    BY LenProperties
  <2> HIDE DEF a, n
  <2>4. \A i \in DOMAIN b : Before(b[i], e)
    BY <1>1, <1>3 DEF Queue
  <2>5. \A j \in DOMAIN r : OfTerm(r[j], t) => Before(e, r[j])
    BY <1>1, <1>3 DEF Queue
  <2>6. \A i \in DOMAIN a : OfTerm(a[i], t) /\ Sent(a[i], T)
    BY <1>1, <1>3, <2>1 DEF Queue
  <2>7. \A i, j \in DOMAIN a : i < j => Before(a[i], a[j])
    BY <2>1, <2>2, <2>3, <2>4 DEF Queue
  <2>8. \A i \in DOMAIN a, j \in DOMAIN r : OfTerm(r[j], t) => Before(a[i], r[j])
    BY <1>2, <2>1, <2>5 DEF Queue
  <2> QED
    BY <1>2, <2>6, <2>7, <2>8 DEF Queue, a
<1> QED
  BY <1>2, <1>3 DEF r, e

-----------------------------------------------------------------------------
(* Where a view is.                                                         *)

\* A view stays where it is while its terminal goes on and sends nothing.
LEMMA AtOnward ==
    ASSUME NEW T \in Statuses, NEW U \in Statuses, Onward(T, U), Silent(T, U),
           NEW q, q.seq \in Nat, q.state \in Nat \cup {NoState}, NEW R, At(q, T, R)
    PROVE  At(q, U, R)
<1>1. /\ T.seq <= U.seq /\ T.state <= U.state /\ U.sent = T.sent
      /\ T.state = U.state => T.seq = U.seq
      /\ U.valid => T.valid /\ U.sentState = T.sentState
      /\ T.over => U.over /\ T.seq = U.seq
      /\ T.sent <= T.seq /\ T.sentState <= T.state
      /\ \/ U.sentState = T.sentState /\ U.sent = T.sent
         \/ U.sentState = T.state /\ U.sent = T.seq
         \/ U.sentState > T.state
      /\ {T.seq, U.seq, T.state, U.state} \subseteq Nat
      /\ {T.sent, U.sent, T.sentState, U.sentState} \subseteq Int
  BY DEF Onward, Silent, Statuses
<1>2. /\ q.shown = q.seq /\ q.seq <= U.seq
      /\ q.state # NoState => /\ q.state <= U.state
                              /\ q.state = U.state => q.seq = U.seq
                              /\ q.state = U.sentState => q.seq = U.sent
  BY <1>1 DEF At
<1>3. /\ q.failed => ~U.valid
      /\ q.ended => U.over /\ q.seq = U.seq /\ R = {}
  BY <1>1 DEF At
<1> QED
  BY <1>1, <1>2, <1>3 DEF At

\* It still is when an event of the terminal is sent to it.
LEMMA AtEmits ==
    ASSUME NEW T \in Statuses, NEW U \in Statuses, Onward(T, U), NEW e, Emits(T, U, e),
           NEW q, q.seq \in Nat, q.state \in Nat \cup {NoState}, NEW R, At(q, T, R)
    PROVE  At(q, U, R \cup {e})
<1>1. /\ T.seq <= U.seq /\ T.state <= U.state
      /\ T.state = U.state => T.seq = U.seq
      /\ U.valid => T.valid /\ ~T.over
      /\ T.sent <= T.seq /\ T.sentState <= T.state
      /\ \/ U.sentState = T.sentState /\ U.sent = T.sent
         \/ U.sentState = T.state /\ U.sent = T.seq
         \/ U.sentState > T.state
      /\ {T.seq, U.seq, T.state, U.state} \subseteq Nat
      /\ {T.sent, U.sent, T.sentState, U.sentState} \subseteq Int
      /\ e.seq \in Nat /\ e.state \in Nat
  BY DEF Onward, Emits, Statuses, Line
<1>2. /\ q.shown = q.seq /\ q.seq <= U.seq
      /\ q.state # NoState => /\ q.state <= U.state
                              /\ q.state = U.state => q.seq = U.seq
                              /\ q.state = U.sentState => q.seq = U.sent
  BY <1>1 DEF At
<1>3. (q.failed => ~U.valid) /\ ~q.ended
  BY <1>1 DEF At, Emits
<1>4. CASE e.kind = "exit"
  BY <1>1, <1>2, <1>3, <1>4 DEF At, Emits
<1>5. CASE e.kind # "exit"
  <2>1. /\ e.state = U.sentState /\ U.sentState = T.sentState + 1
        /\ e.seq = U.sent /\ U.sent = T.sent + Adds(e) /\ Adds(e) \in {0, 1}
        /\ e.kind = "data" <=> Adds(e) = 1
    BY <1>5 DEF Emits, Adds
  <2> SUFFICES ASSUME ~q.failed
               PROVE  /\ \A n \in Nat : q.seq < n /\ n <= U.sent =>
                            \E f \in R \cup {e} : f.kind = "data" /\ f.seq = n
                      /\ q.state # NoState =>
                           /\ \A f \in R \cup {e} : f.kind = "data" /\ f.state <= q.state => f.seq <= q.seq
                           /\ \A f \in R \cup {e} : f.kind # "exit" /\ f.state = q.state + 1 => f.seq = q.seq + Adds(f)
                           /\ U.valid => \A n \in Nat : q.state < n /\ n <= U.sentState =>
                                            \E f \in R \cup {e} : f.kind # "exit" /\ f.state = n
    BY <1>2, <1>3 DEF At
  <2>2. ASSUME NEW n \in Nat, q.seq < n, n <= U.sent
        PROVE  \E f \in R \cup {e} : f.kind = "data" /\ f.seq = n
    <3>1. CASE n <= T.sent
      BY <2>2, <3>1 DEF At
    <3>2. CASE ~(n <= T.sent)
      <4>1. Adds(e) = 1 /\ n = U.sent
        BY <1>1, <2>1, <2>2, <3>2
      <4> QED
        BY <2>1, <4>1
    <3> QED
      BY <3>1, <3>2
  <2>3. ASSUME q.state # NoState
        PROVE  /\ \A f \in R \cup {e} : f.kind = "data" /\ f.state <= q.state => f.seq <= q.seq
               /\ \A f \in R \cup {e} : f.kind # "exit" /\ f.state = q.state + 1 => f.seq = q.seq + Adds(f)
               /\ U.valid => \A n \in Nat : q.state < n /\ n <= U.sentState =>
                                \E f \in R \cup {e} : f.kind # "exit" /\ f.state = n
    <3>0. q.state \in Nat /\ q.state <= T.state
      BY <2>3 DEF At
    <3>1. e.kind = "data" /\ e.state <= q.state => e.seq <= q.seq
      <4>1. CASE q.state = U.sentState
        BY <1>1, <1>2, <2>1, <2>3, <4>1
      <4>2. CASE q.state # U.sentState
        <5>1. e.state <= q.state => U.sentState < T.state
          BY <1>1, <2>1, <3>0, <4>2
        <5>2. (U.sentState = T.sentState /\ U.sent = T.sent) \/ U.sentState >= T.state
          BY <1>1
        <5> QED
          BY <1>1, <2>1, <5>1, <5>2
      <4> QED
        BY <4>1, <4>2
    <3>2. e.state = q.state + 1 => e.seq = q.seq + Adds(e)
      <4>1. e.state = q.state + 1 => q.state = T.sentState
        BY <1>1, <2>1, <3>0
      <4> QED
        BY <2>1, <2>3, <4>1 DEF At
    <3>3. ASSUME U.valid, NEW n \in Nat, q.state < n, n <= U.sentState
          PROVE  \E f \in R \cup {e} : f.kind # "exit" /\ f.state = n
      <4>1. CASE n <= T.sentState
        BY <1>1, <2>3, <3>3, <4>1 DEF At
      <4>2. CASE ~(n <= T.sentState)
        <5>1. n = e.state
          BY <1>1, <2>1, <3>3, <4>2
        <5> QED
          BY <1>5, <5>1
      <4> QED
        BY <4>1, <4>2
    <3>4. /\ \A f \in R : f.kind = "data" /\ f.state <= q.state => f.seq <= q.seq
          /\ \A f \in R : f.kind # "exit" /\ f.state = q.state + 1 => f.seq = q.seq + Adds(f)
      BY <2>3 DEF At
    <3> QED
      BY <3>1, <3>2, <3>3, <3>4
  <2> QED
    BY <2>2, <2>3
<1> QED
  BY <1>4, <1>5

\* What an answer says of a terminal just now is a place to go on from.
LEMMA AtAnswer ==
    ASSUME NEW T \in Statuses, NEW q, q.seq = T.seq, q.shown = T.seq,
           q.state \in {T.state, NoState}, ~q.ended, ~q.failed,
           NEW R, \A e \in R : Sent(e, T)
    PROVE  At(q, T, R)
<1>1. /\ T.seq \in Nat /\ T.state \in Nat /\ T.sent <= T.seq /\ T.sentState <= T.state
      /\ T.state = T.sentState => T.seq = T.sent
      /\ T.sent \in Int /\ T.sentState \in Int
  BY DEF Statuses
<1>2. \A e \in R : e.kind # "exit" => /\ e.seq <= T.sent /\ e.state <= T.sentState
                                      /\ e.seq \in Nat /\ e.state \in Nat
  BY DEF Sent, Line
<1> QED
  BY <1>1, <1>2 DEF At

\* What the screen of a view does when the pipe looks at an event.
Moves(p, q, T) ==
    \/ q.shown = p.shown /\ q.ended = p.ended
    \/ q.shown = p.shown + 1 /\ p.shown < T.seq /\ ~p.ended /\ q.ended = p.ended
    \/ q.shown = p.shown /\ q.ended /\ T.over /\ p.shown = T.seq

\* A view opened by snapshot ends on the exit, whatever its numbers.
LEMMA FollowExit ==
    ASSUME NEW p, NEW e, e.kind = "exit"
    PROVE  FollowState(p, e) = [p EXCEPT !.ended = TRUE]
BY DEF FollowState

\* What such a view does with an event, by its state number.
LEMMA FollowGuards ==
    ASSUME NEW p, NEW e, p.state \in Nat, e.state \in Nat, e.kind # "exit"
    PROVE  /\ e.state <= p.state => FollowState(p, e) = p
           /\ e.state > p.state + 1 => FollowState(p, e) = Fail(p)
           /\ e.state = p.state + 1 /\ e.kind = "state" /\ e.seq = p.seq =>
                FollowState(p, e) = [p EXCEPT !.state = e.state]
           /\ e.state = p.state + 1 /\ e.kind = "data" /\ e.seq = p.seq + 1 =>
                FollowState(p, e) = [Display(p, e) EXCEPT !.state = e.state]
<1>1. ASSUME e.state <= p.state PROVE FollowState(p, e) = p
  BY <1>1 DEF FollowState
<1>2. ASSUME e.state > p.state + 1 PROVE FollowState(p, e) = Fail(p)
  <2>1. ~(e.state <= p.state) /\ e.state # p.state + 1
    BY <1>2
  <2> QED
    BY <2>1 DEF FollowState
<1>3. ASSUME e.state = p.state + 1, e.kind = "state", e.seq = p.seq
      PROVE  FollowState(p, e) = [p EXCEPT !.state = e.state]
  <2>1. ~(e.state <= p.state) /\ e.kind # "data"
    BY <1>3
  <2> QED
    BY <1>3, <2>1, Zenon DEF FollowState
<1>4. ASSUME e.state = p.state + 1, e.kind = "data", e.seq = p.seq + 1
      PROVE  FollowState(p, e) = [Display(p, e) EXCEPT !.state = e.state]
  <2>1. ~(e.state <= p.state) /\ e.kind # "state"
    BY <1>4
  <2> QED
    BY <1>4, <2>1, Zenon DEF FollowState
<1> QED
  BY <1>1, <1>2, <1>3, <1>4

\* A view that schedules the first event that is due is where it should be with the
\* rest, and went there by a step that TerminalView allows.
LEMMA AtSchedule ==
    ASSUME NEW T \in Statuses, NEW p \in Pipe, NEW e, NEW R, At(p, T, R \cup {e}),
           e.kind \in Event, Sent(e, T), \A f \in R : Sent(f, T) /\ Before(e, f)
    PROVE  LET q == Schedule(p, e)
           IN  /\ q \in Pipe /\ q.phase = p.phase /\ q.term = p.term /\ q.buffered = p.buffered
               /\ At(q, T, R) /\ Moves(p, q, T)
<1> DEFINE q == Schedule(p, e)
<1>1. /\ T.seq \in Nat /\ T.state \in Nat /\ T.sent <= T.seq /\ T.sentState <= T.state
      /\ T.state = T.sentState => T.seq = T.sent
      /\ T.over => T.seq = T.sent
      /\ T.sent \in Int /\ T.sentState \in Int
  BY DEF Statuses
<1>2. /\ e \in Line /\ e.seq \in Nat /\ e.state \in Nat /\ e.kind \in Event
      /\ e.kind # "exit" => e.seq <= T.sent /\ e.state <= T.sentState /\ (e.state = T.sentState => e.seq = T.sent)
      /\ e.kind = "exit" => T.over
  BY DEF Sent, Line
<1>3. /\ p.seq \in Nat /\ p.shown \in Nat /\ p.state \in Nat \cup {NoState}
      /\ p.ended \in BOOLEAN /\ p.failed \in BOOLEAN
  BY DEF Pipe
<1>4. /\ p.shown = p.seq /\ p.seq <= T.seq /\ ~p.ended
      /\ p.state # NoState => /\ p.state <= T.state
                              /\ p.state = T.state => p.seq = T.seq
                              /\ p.state = T.sentState => p.seq = T.sent
      /\ p.failed => ~T.valid
  BY DEF At
<1>5. \A f \in R : /\ f \in Line /\ f.seq \in Nat /\ f.state \in Nat
                   /\ f.kind # "exit" => e.state < f.state /\ e.seq + Adds(f) <= f.seq
                                         /\ (f.state = e.state + 1 => f.seq = e.seq + Adds(f))
                   /\ e.kind # "exit"
  BY DEF Sent, Before, Line
<1>6. ASSUME p.failed PROVE q = p /\ At(p, T, R)
  BY <1>4, <1>6 DEF Schedule, At
<1>7. ASSUME ~p.failed, q = [p EXCEPT !.ended = TRUE], e.kind = "exit"
      PROVE  q \in Pipe /\ At(q, T, R) /\ Moves(p, q, T)
  <2>1. R = {}
    BY <1>5, <1>7
  <2>2. p.seq = T.seq
    <3>1. ~(p.seq < T.seq /\ T.seq <= T.sent)
      BY <1>1, <1>7, <2>1 DEF At
    <3> QED
      BY <1>1, <1>2, <1>3, <1>4, <1>7, <3>1
  <2>3. /\ q \in Pipe /\ q.seq = p.seq /\ q.shown = p.shown /\ q.state = p.state
        /\ q.failed = p.failed /\ q.ended = TRUE
    BY <1>7 DEF Pipe
  <2>4. p.state # NoState =>
          (T.valid => \A n \in Nat : ~(p.state < n /\ n <= T.sentState))
    BY <1>7, <2>1 DEF At
  <2> HIDE DEF q
  <2> QED
    BY <1>1, <1>2, <1>3, <1>4, <1>7, <2>1, <2>2, <2>3, <2>4 DEF At, Moves
<1>8. ASSUME ~p.failed, q = p, e.kind # "exit",
             IF p.state = NoState THEN e.kind = "data" => e.seq <= p.seq ELSE e.state <= p.state
      PROVE  At(q, T, R) /\ Moves(p, q, T)
  <2>1. e.kind = "data" => e.seq <= p.seq
    BY <1>8 DEF At
  <2>2. \A n \in Nat : p.seq < n /\ n <= T.sent => \E f \in R : f.kind = "data" /\ f.seq = n
    BY <1>2, <1>3, <1>8, <2>1 DEF At
  <2>3. p.state # NoState => (T.valid => \A n \in Nat : p.state < n /\ n <= T.sentState =>
                                            \E f \in R : f.kind # "exit" /\ f.state = n)
    BY <1>2, <1>3, <1>8 DEF At
  <2> HIDE DEF q
  <2> QED
    BY <1>4, <1>8, <2>2, <2>3 DEF At, Moves
<1>9. ASSUME ~p.failed, q = Fail(p), e.kind # "exit",
             IF p.state = NoState THEN e.kind = "data" /\ e.seq > p.seq + 1
             ELSE \/ e.state > p.state + 1
                  \/ e.state = p.state + 1 /\ e.seq # p.seq + Adds(e)
      PROVE  q \in Pipe /\ At(q, T, R) /\ Moves(p, q, T)
  <2>1. /\ q \in Pipe /\ q.seq = p.seq /\ q.shown = p.shown /\ q.state = p.state
        /\ q.failed = TRUE /\ q.ended = p.ended
    BY <1>9 DEF Pipe, Fail
  <2>2. CASE p.state = NoState
    <3>1. PICK f \in R \cup {e} : f.kind = "data" /\ f.seq = p.seq + 1
      <4>1. p.seq + 1 \in Nat /\ p.seq < p.seq + 1 /\ p.seq + 1 <= T.sent
        BY <1>1, <1>2, <1>3, <1>9, <2>2
      <4> QED
        BY <1>9, <4>1 DEF At
    <3>2. f \in R
      BY <1>2, <1>3, <1>9, <2>2, <3>1
    <3>3. e.seq + 1 <= f.seq
      BY <1>5, <3>1, <3>2 DEF Adds
    <3> QED
      BY <1>2, <1>3, <1>9, <2>2, <3>1, <3>3
  <2>3. CASE p.state # NoState
    <3>1. ~T.valid
      <4>1. CASE e.state > p.state + 1
        <5> SUFFICES ASSUME T.valid PROVE FALSE
          OBVIOUS
        <5>1. PICK f \in R \cup {e} : f.kind # "exit" /\ f.state = p.state + 1
          <6>1. p.state \in Nat
            BY <1>3, <2>3
          <6>2. p.state + 1 \in Nat /\ p.state < p.state + 1 /\ p.state + 1 <= T.sentState
            BY <1>1, <1>2, <1>9, <4>1, <6>1
          <6> QED
            BY <1>9, <2>3, <6>2 DEF At
        <5>2. f \in R
          BY <1>2, <1>3, <2>3, <4>1, <5>1
        <5>3. e.state < f.state
          BY <1>5, <5>1, <5>2
        <5> QED
          BY <1>2, <1>3, <2>3, <4>1, <5>1, <5>3
      <4>2. CASE e.state = p.state + 1
        <5>1. e.seq = p.seq + Adds(e)
          BY <1>9, <2>3, <4>2 DEF At
        <5> QED
          BY <1>9, <2>3, <4>2, <5>1, <1>3, <1>2
      <4> QED
        BY <1>9, <2>3, <4>1, <4>2
    <3> HIDE DEF q
    <3> QED
      BY <1>4, <2>1, <3>1 DEF At, Moves
  <2> QED
    BY <2>2, <2>3
<1>10. ASSUME ~p.failed, e.kind # "exit", e.seq = p.seq + Adds(e),
              IF p.state = NoState THEN e.kind = "data" ELSE e.state = p.state + 1,
              q = [p EXCEPT !.seq = e.seq, !.shown = @ + Adds(e),
                            !.state = IF @ = NoState THEN NoState ELSE e.state]
       PROVE  q \in Pipe /\ At(q, T, R) /\ Moves(p, q, T)
  <2>0. Adds(e) \in {0, 1} /\ (Adds(e) = 1 <=> e.kind = "data")
    BY DEF Adds
  <2>1. /\ q.seq = e.seq /\ q.shown = e.seq /\ q.failed = p.failed /\ q.ended = p.ended
        /\ q.state = IF p.state = NoState THEN NoState ELSE e.state
        /\ p.state = NoState <=> q.state = NoState
    BY <1>2, <1>3, <1>4, <1>10 DEF Pipe, NoState
  <2>2. q \in Pipe
    <3>1. p.shown + Adds(e) \in Nat
      BY <1>3, <2>0
    <3> HIDE DEF Adds
    <3> QED
      BY <1>2, <1>3, <1>10, <3>1 DEF Pipe
  <2>3. /\ q.seq <= T.seq
        /\ q.state # NoState => /\ q.state <= T.state
                                /\ q.state = T.state => q.seq = T.seq
                                /\ q.state = T.sentState => q.seq = T.sent
    BY <1>1, <1>2, <1>10, <2>1
  <2> HIDE DEF q
  <2>4. \A n \in Nat : q.seq < n /\ n <= T.sent => \E f \in R : f.kind = "data" /\ f.seq = n
    <3> SUFFICES ASSUME NEW n \in Nat, q.seq < n, n <= T.sent
                 PROVE  \E f \in R : f.kind = "data" /\ f.seq = n
      OBVIOUS
    <3>1. p.seq < n
      BY <1>3, <1>10, <2>0, <2>1
    <3>2. PICK f \in R \cup {e} : f.kind = "data" /\ f.seq = n
      BY <1>10, <3>1 DEF At
    <3>3. f # e
      BY <1>2, <2>1, <3>2
    <3> QED
      BY <3>2, <3>3
  <2>5. ASSUME q.state # NoState
        PROVE  /\ \A f \in R : f.kind = "data" /\ f.state <= q.state => f.seq <= q.seq
               /\ \A f \in R : f.kind # "exit" /\ f.state = q.state + 1 => f.seq = q.seq + Adds(f)
               /\ T.valid => \A n \in Nat : q.state < n /\ n <= T.sentState =>
                                \E f \in R : f.kind # "exit" /\ f.state = n
    <3>1. q.state = e.state /\ p.state \in Nat /\ e.state = p.state + 1 /\ p.state # NoState
      BY <1>3, <1>10, <2>1, <2>5
    <3>2. \A f \in R : f.kind = "data" => ~(f.state <= q.state)
      BY <1>2, <1>5, <3>1
    <3>3. \A f \in R : f.kind # "exit" /\ f.state = q.state + 1 => f.seq = q.seq + Adds(f)
      BY <1>5, <2>1, <3>1
    <3>4. ASSUME T.valid, NEW n \in Nat, q.state < n, n <= T.sentState
          PROVE  \E f \in R : f.kind # "exit" /\ f.state = n
      <4>1. PICK f \in R \cup {e} : f.kind # "exit" /\ f.state = n
        <5>1. p.state < n
          BY <3>1, <3>4
        <5> QED
          BY <1>10, <3>1, <3>4, <5>1 DEF At
      <4>2. f # e
        BY <1>2, <3>1, <3>4, <4>1
      <4> QED
        BY <4>1, <4>2
    <3> QED
      BY <3>2, <3>3, <3>4
  <2>6. Moves(p, q, T)
    <3>1. q.shown = p.shown \/ (q.shown = p.shown + 1 /\ p.shown < T.seq)
      <4>1. CASE Adds(e) = 0
        <5>1. e.seq = p.seq
          BY <1>3, <1>10, <4>1
        <5> QED
          <6>1. p.shown = p.seq /\ q.shown = e.seq
            BY <1>4, <2>1
          <6> QED
            BY <5>1, <6>1, Zenon
      <4>2. CASE Adds(e) = 1
        <5>1. q.shown = p.shown + 1
          BY <1>4, <1>10, <2>1, <4>2
        <5>2. p.shown + 1 <= T.seq
          BY <1>4, <1>10, <2>1, <2>3, <4>2
        <5> QED
          BY <1>1, <1>3, <5>1, <5>2
      <4> QED
        BY <2>0, <4>1, <4>2
    <3> QED
      BY <1>4, <2>1, <3>1 DEF Moves
  <2>7. ~q.failed /\ ~q.ended
    BY <1>4, <1>10, <2>1
  <2> QED
    BY <2>1, <2>2, <2>3, <2>4, <2>5, <2>6, <2>7 DEF At
<1>11. /\ q \in Pipe => q.phase = p.phase /\ q.term = p.term /\ q.buffered = p.buffered
       /\ q \in Pipe /\ At(q, T, R) /\ Moves(p, q, T)
  <2>1. CASE p.failed
    BY <1>4, <1>6, <2>1 DEF Moves
  <2>2. CASE ~p.failed /\ e.kind = "exit"
    <3>1. q = [p EXCEPT !.ended = TRUE]
      <4>1. e.kind # "data" /\ e.kind # "state"
        BY <2>2
      <4>2. FollowOutput(p, e) = [p EXCEPT !.ended = TRUE]
        BY <2>2, <4>1 DEF FollowOutput
      <4>3. FollowState(p, e) = [p EXCEPT !.ended = TRUE]
        BY FollowExit, <2>2
      <4> QED
        BY <2>2, <4>2, <4>3 DEF Schedule
    <3> QED
      BY <1>7, <2>2, <3>1 DEF Pipe
  <2>3. CASE ~p.failed /\ e.kind # "exit" /\ p.state = NoState
    <3>1. CASE e.kind = "data" /\ e.seq > p.seq + 1
      <4>1. q = Fail(p)
        <5>1. e.kind # "exit" /\ ~(e.seq = p.seq + 1)
          BY <1>2, <1>3, <2>3, <3>1
        <5> QED
          BY <2>3, <3>1, <5>1 DEF Schedule, FollowOutput
      <4> QED
        BY <1>9, <2>3, <3>1, <4>1 DEF Pipe, Fail
    <3>2. CASE e.kind = "data" /\ e.seq = p.seq + 1
      <4>1. q = Display(p, e)
        BY <1>2, <1>3, <2>3, <3>2 DEF Schedule, FollowOutput
      <4>2. q = [p EXCEPT !.seq = e.seq, !.shown = @ + Adds(e),
                          !.state = IF @ = NoState THEN NoState ELSE e.state]
        BY <2>3, <3>2, <4>1 DEF Display, Adds, Pipe
      <4> QED
        BY <1>10, <2>3, <3>2, <4>1, <4>2 DEF Adds, Pipe, Display
    <3>3. CASE ~(e.kind = "data" /\ e.seq > p.seq + 1) /\ ~(e.kind = "data" /\ e.seq = p.seq + 1)
      <4>1. q = p
        BY <2>3, <3>3 DEF Schedule, FollowOutput
      <4>2. e.kind = "data" => e.seq <= p.seq
        BY <1>2, <1>3, <3>3
      <4> QED
        BY <1>8, <2>3, <4>1, <4>2
    <3> QED
      BY <3>1, <3>2, <3>3
  <2>4. CASE ~p.failed /\ e.kind # "exit" /\ p.state # NoState
    <3>0. q = FollowState(p, e) /\ p.state \in Nat /\ e.kind \in {"data", "state"}
      BY <1>2, <1>3, <2>4 DEF Schedule, Event
    <3>1. CASE e.state <= p.state
      <4>1. q = p
        BY <1>2, <2>4, <3>0, <3>1, FollowGuards
      <4> QED
        BY <1>8, <2>4, <3>1, <4>1
    <3>2. CASE e.state > p.state + 1
      <4>1. q = Fail(p)
        BY <1>2, <2>4, <3>0, <3>2, FollowGuards
      <4> QED
        BY <1>9, <2>4, <3>2, <4>1 DEF Pipe, Fail
    <3>3. CASE e.state = p.state + 1
      <4>0. ~(e.state <= p.state) /\ ~(e.state > p.state + 1)
        BY <1>2, <3>0, <3>3
      <4>1. CASE e.seq = p.seq + Adds(e)
        <5>1. q = [p EXCEPT !.seq = e.seq, !.shown = @ + Adds(e),
                            !.state = IF @ = NoState THEN NoState ELSE e.state]
          <6>1. CASE e.kind = "data"
            <7>1. q = [Display(p, e) EXCEPT !.state = e.state]
              <8>1. e.seq = p.seq + 1
                BY <4>1, <6>1 DEF Adds
              <8> QED
                BY <1>2, <3>0, <3>3, <6>1, <8>1, FollowGuards
            <7> QED
              BY <2>4, <6>1, <7>1 DEF Display, Adds, Pipe
          <6>2. CASE e.kind = "state"
            <7>1. e.seq = p.seq
              BY <1>3, <4>1, <6>2 DEF Adds
            <7>2. q = [p EXCEPT !.state = e.state]
              BY <1>2, <3>0, <3>3, <6>2, <7>1, FollowGuards
            <7>3. p.shown + Adds(e) = p.shown
              BY <1>3, <6>2 DEF Adds
            <7> QED
              BY <2>4, <7>1, <7>2, <7>3 DEF Pipe
          <6> QED
            BY <3>0, <6>1, <6>2
        <5> QED
          BY <1>10, <2>4, <3>3, <4>1, <5>1 DEF Pipe
      <4>2. CASE e.seq # p.seq + Adds(e)
        <5>1. q = Fail(p)
          <6>1. ~(e.kind = "state" /\ e.seq = p.seq)
            BY <1>3, <4>2 DEF Adds
          <6>2. ~(e.kind = "data" /\ e.seq = p.seq + 1)
            BY <1>3, <4>2 DEF Adds
          <6> QED
            BY <2>4, <3>0, <4>0, <6>1, <6>2 DEF FollowState
        <5> QED
          BY <1>9, <2>4, <3>3, <4>2, <5>1 DEF Pipe, Fail
      <4> QED
        BY <4>1, <4>2
    <3> QED
      BY <1>2, <3>0, <3>1, <3>2, <3>3
  <2> QED
    BY <2>1, <2>2, <2>3, <2>4
<1> QED
  BY <1>11

-----------------------------------------------------------------------------
(* What was buffered is scheduled, an event at a time.                      *)

\* The natural numbers are well founded.
LEMMA LeastNatural ==
    ASSUME NEW T \in SUBSET Nat, T # {}
    PROVE  \E x \in T : \A y \in T : x <= y
<1> DEFINE U == {0..k : k \in T}
<1>1. U \subseteq FiniteSubsetsOf(Nat) /\ U # {}
  <2>1. ASSUME NEW k \in T PROVE 0..k \in FiniteSubsetsOf(Nat)
    BY FS_Interval DEF FiniteSubsetsOf
  <2> QED
    BY <2>1
<1>2. IsWellFoundedOn(StrictSubsetOrdering(Nat), FiniteSubsetsOf(Nat))
  BY FS_StrictSubsetOrderingWellFounded
<1>3. PICK u \in U : \A v \in U : <<v, u>> \notin StrictSubsetOrdering(Nat)
  <2> HIDE DEF U
  <2> QED
    BY <1>1, <1>2, WFMin
<1>4. PICK x \in T : u = 0..x
  OBVIOUS
<1>5. ASSUME NEW y \in T, y < x PROVE FALSE
  <2>1. 0..y \in U /\ 0..y \subseteq 0..x /\ x \in 0..x /\ x \notin 0..y
    BY <1>5
  <2>2. <<0..y, 0..x>> \in StrictSubsetOrdering(Nat)
    BY <2>1 DEF StrictSubsetOrdering
  <2> QED
    BY <1>3, <1>4, <2>1, <2>2
<1> QED
  BY <1>5

\* What holds of 0, and of each number after one it holds of, holds up to n.
LEMMA UpTo ==
    ASSUME NEW n \in Nat, NEW S, 0 \in S, \A k \in 0..(n - 1) : k \in S => k + 1 \in S
    PROVE  \A k \in 0..n : k \in S
<1> DEFINE Out == {k \in 0..n : k \notin S}
<1> SUFFICES ASSUME Out # {} PROVE FALSE
  OBVIOUS
<1>1. PICK x \in Out : \A y \in Out : x <= y
  <2>1. Out \in SUBSET Nat
    OBVIOUS
  <2> HIDE DEF Out
  <2> QED
    BY <2>1, LeastNatural
<1>2. x \in Nat /\ x # 0 /\ x <= n
  OBVIOUS
<1>3. x - 1 \in 0..(n - 1) /\ (x - 1) + 1 = x /\ x - 1 \notin Out
  BY <1>1, <1>2
<1> QED
  BY <1>3

\* The pipe after n events, as a function on the first k of them.
After(f, p, k) == f = [n \in 0..k |-> IF n = 0 THEN p ELSE Schedule(f[n - 1], p.buffered[n])]

\* There is one for every k.
LEMMA AfterExists ==
    ASSUME NEW p, NEW n \in Nat
    PROVE  \E f : After(f, p, n)
<1> DEFINE S == {k \in Nat : \E f : After(f, p, k)}
<1>1. 0 \in S
  <2>1. After([n0 \in 0..0 |-> p], p, 0)
    BY DEF After
  <2> QED
    BY <2>1
<1>2. ASSUME NEW k \in 0..(n - 1), k \in S PROVE k + 1 \in S
  <2>1. PICK f : After(f, p, k)
    BY <1>2
  <2> DEFINE g == [m \in 0..(k + 1) |-> IF m = k + 1 THEN Schedule(f[k], p.buffered[k + 1]) ELSE f[m]]
  <2>2. \A m \in 0..k : g[m] = f[m]
    OBVIOUS
  <2>3. \A m \in 0..(k + 1) : g[m] = IF m = 0 THEN p ELSE Schedule(g[m - 1], p.buffered[m])
    <3> SUFFICES ASSUME NEW m \in 0..(k + 1)
                 PROVE  g[m] = IF m = 0 THEN p ELSE Schedule(g[m - 1], p.buffered[m])
      OBVIOUS
    <3>1. CASE m = k + 1
      <4>1. m - 1 = k /\ g[m - 1] = f[k] /\ m # 0
        BY <2>2, <3>1
      <4> QED
        BY <3>1, <4>1
    <3>2. CASE m # k + 1
      <4>1. m \in 0..k /\ (m # 0 => m - 1 \in 0..k)
        BY <3>2
      <4>2. f[m] = IF m = 0 THEN p ELSE Schedule(f[m - 1], p.buffered[m])
        BY <2>1, <4>1 DEF After
      <4> HIDE DEF g
      <4> QED
        BY <2>2, <4>1, <4>2
    <3> QED
      BY <3>1, <3>2
  <2>4. After(g, p, k + 1)
    <3> HIDE DEF g
    <3>1. g = [m \in 0..(k + 1) |-> g[m]]
      BY DEF g
    <3> QED
      BY <2>3, <3>1, Zenon DEF After
  <2> QED
    BY <2>4
<1> HIDE DEF S
<1>3. \A k \in 0..n : k \in S
  BY <1>1, <1>2, UpTo
<1>4. n \in S
  BY <1>3
<1> QED
  BY <1>4 DEF S

\* One event after the other.
LEMMA ScheduledSteps ==
    ASSUME NEW p, p.buffered \in Seq(Line)
    PROVE  /\ Len(p.buffered) \in Nat /\ Scheduled(p)[0] = p
           /\ \A n \in 1..Len(p.buffered) :
                Scheduled(p)[n] = Schedule(Scheduled(p)[n - 1], p.buffered[n])
<1> DEFINE L == Len(p.buffered)
<1>1. L \in Nat
  BY LenProperties
<1> HIDE DEF L
<1>2. \E f : After(f, p, L)
  BY <1>1, AfterExists
<1>3. Scheduled(p) = CHOOSE f : After(f, p, L)
  BY Zenon DEF Scheduled, After, L
<1>4. After(Scheduled(p), p, L)
  BY <1>2, <1>3
<1> DEFINE f == Scheduled(p)
<1>5. f = [n \in 0..L |-> IF n = 0 THEN p ELSE Schedule(f[n - 1], p.buffered[n])]
  BY <1>4 DEF After
<1> HIDE DEF f
<1> QED
  BY <1>1, <1>5 DEF f, L

\* What a line adds to what is due, at the end of the outbox.
LEMMA DueAppend ==
    ASSUME NEW o \in Seq(Line), NEW e \in Line, NEW t, NEW b
    PROVE  /\ OfTerm(e, t) => Due(Append(o, e), t) = Due(o, t) \cup {e}
           /\ ~OfTerm(e, t) => Due(Append(o, e), t) = Due(o, t)
<1> DEFINE a == Append(o, e)
           n == Len(o) + 1
<1>1. /\ DOMAIN a = DOMAIN o \cup {n} /\ n \notin DOMAIN o /\ a[n] = e
      /\ \A i \in DOMAIN o : a[i] = o[i]
  BY AppendAt
<1> HIDE DEF a, n
<1> QED
  BY <1>1 DEF Due, a

\* Taken off the outbox, a line of the terminal is no longer due, but may wait.
LEMMA DueTail ==
    ASSUME NEW o \in Seq(Line), o # <<>>, NEW t, NEW b \in Seq(Line)
    PROVE  /\ OfTerm(Head(o), t) => /\ Due(o, t) = Due(Tail(o), t) \cup {Head(o)}
                                    /\ Rest(Append(b, Head(o)), Tail(o), t) = Rest(b, o, t)
           /\ ~OfTerm(Head(o), t) => Due(o, t) = Due(Tail(o), t)
<1> DEFINE r == Tail(o)
           e == Head(o)
<1>1. /\ r \in Seq(Line) /\ e = o[1] /\ 1 \in DOMAIN o /\ e \in Line
      /\ \A i \in DOMAIN r : i + 1 \in DOMAIN o /\ r[i] = o[i + 1]
      /\ \A i \in DOMAIN o : i # 1 => i - 1 \in DOMAIN r /\ r[i - 1] = o[i]
  BY TailAt
<1>2. {b[i] : i \in DOMAIN b} \cup {e} = {Append(b, e)[i] : i \in DOMAIN Append(b, e)}
  <2> DEFINE a == Append(b, e)
             n == Len(b) + 1
  <2>1. /\ DOMAIN a = DOMAIN b \cup {n} /\ a[n] = e
        /\ \A i \in DOMAIN b : a[i] = b[i]
    BY <1>1, AppendAt
  <2> HIDE DEF a, n
  <2> QED
    BY <2>1 DEF a
<1> HIDE DEF r, e
<1>3. \A l : l \in Due(o, t) <=> OfTerm(l, t) /\ (l = e \/ l \in Due(r, t))
  <2>1. ASSUME NEW l, l \in Due(o, t) PROVE OfTerm(l, t) /\ (l = e \/ l \in Due(r, t))
    <3>1. PICK i \in DOMAIN o : OfTerm(o[i], t) /\ l = o[i]
      BY <2>1 DEF Due
    <3> QED
      BY <1>1, <3>1 DEF Due
  <2>2. ASSUME NEW l, OfTerm(l, t), l = e PROVE l \in Due(o, t)
    BY <1>1, <2>2 DEF Due
  <2>3. ASSUME NEW l, l \in Due(r, t) PROVE l \in Due(o, t)
    <3>1. PICK i \in DOMAIN r : OfTerm(r[i], t) /\ l = r[i]
      BY <2>3 DEF Due
    <3> QED
      BY <1>1, <3>1 DEF Due
  <2> QED
    BY <2>1, <2>2, <2>3
<1>4. \A l : l \in Due(r, t) => OfTerm(l, t)
  BY DEF Due
<1> QED
  BY <1>2, <1>3, <1>4 DEF Rest, r, e

\* What is due was sent, in order.
LEMMA DueSent ==
    ASSUME NEW T, NEW b \in Seq(Line), NEW o \in Seq(Line), NEW t, Queue(b, o, t, T)
    PROVE  \A e \in Rest(b, o, t) : OfTerm(e, t) /\ Sent(e, T)
BY DEF Queue, Rest, Due

\* A view that looks at the next event of its terminal goes on from there.
LEMMA AtReceive ==
    ASSUME NEW T \in Statuses, NEW p \in Pipe, NEW o \in Seq(Line), o # <<>>, NEW t,
           Queue(<<>>, o, t, T), OfTerm(Head(o), t), At(p, T, Due(o, t))
    PROVE  LET q == Schedule(p, Head(o))
           IN  /\ q \in Pipe /\ q.phase = p.phase /\ q.term = p.term /\ q.buffered = p.buffered
               /\ At(q, T, Due(Tail(o), t)) /\ Moves(p, q, T)
<1> DEFINE e == Head(o)
           r == Tail(o)
<1>1. At(p, T, Due(r, t) \cup {e})
  <2>1. <<>> \in Seq(Line)
    OBVIOUS
  <2> QED
    BY <2>1, DueTail
<1>2. e.kind \in Event /\ Sent(e, T)
  <2>1. e = o[1] /\ 1 \in DOMAIN o
    BY TailAt
  <2> QED
    BY <2>1 DEF Queue, OfTerm
<1>3. \A f \in Due(r, t) : Sent(f, T) /\ Before(e, f)
  <2>1. /\ e = o[1] /\ 1 \in DOMAIN o
        /\ \A i \in DOMAIN r : i + 1 \in DOMAIN o /\ r[i] = o[i + 1] /\ 1 < i + 1
    BY TailAt
  <2> HIDE DEF e, r
  <2>2. OfTerm(e, t)
    BY DEF e
  <2> QED
    BY <2>1, <2>2 DEF Due, Queue
<1> HIDE DEF e, r
<1> QED
  BY <1>1, <1>2, <1>3, AtSchedule DEF e, r

\* A view that looks at all that waited is live, at the last of it.
LEMMA AtOpened ==
    ASSUME NEW T \in Statuses, NEW p \in Pipe, NEW o \in Seq(Line), NEW t,
           Queue(p.buffered, o, t, T), At(p, T, Rest(p.buffered, o, t))
    PROVE  /\ Opened(p) \in Pipe /\ Opened(p).phase = "live" /\ Opened(p).term = p.term
           /\ Opened(p).buffered = <<>> /\ At(Opened(p), T, Due(o, t))
<1> DEFINE b == p.buffered
           L == Len(b)
           D == Due(o, t)
           R(n) == {b[i] : i \in (n + 1)..L} \cup D
           S == {n \in Nat : /\ Scheduled(p)[n] \in Pipe /\ Scheduled(p)[n].term = p.term
                             /\ At(Scheduled(p)[n], T, R(n))}
<1>1. /\ b \in Seq(Line) /\ L \in Nat /\ DOMAIN b = 1..L /\ Scheduled(p)[0] = p
      /\ \A n \in 1..L : Scheduled(p)[n] = Schedule(Scheduled(p)[n - 1], b[n])
  <2>1. b \in Seq(Line)
    BY DEF Pipe
  <2> QED
    BY <2>1, ScheduledSteps, LenProperties
<1>2. 0 \in S
  <2>1. R(0) = Rest(b, o, t)
    BY <1>1 DEF Rest
  <2> QED
    BY <1>1, <2>1
<1>3. ASSUME NEW n \in 0..(L - 1), n \in S PROVE n + 1 \in S
  <2> DEFINE q == Scheduled(p)[n]
             e == b[n + 1]
             X == R(n + 1)
  <2>1. n + 1 \in 1..L /\ (n + 1) - 1 = n /\ n + 1 \in DOMAIN b
    BY <1>1
  <2>2. R(n) = X \cup {e}
    BY <1>1, <2>1
  <2>3. q \in Pipe /\ q.term = p.term /\ At(q, T, X \cup {e})
    BY <1>3, <2>2
  <2>4. e.kind \in Event /\ Sent(e, T)
    BY <2>1 DEF Queue, OfTerm
  <2>5. \A f \in X : Sent(f, T) /\ Before(e, f)
    <3>1. ASSUME NEW i \in (n + 2)..L PROVE Sent(b[i], T) /\ Before(e, b[i])
      <4>1. i \in DOMAIN b /\ n + 1 < i
        BY <1>1
      <4> HIDE DEF b
      <4> QED
        BY <2>1, <4>1 DEF Queue, b
    <3>2. ASSUME NEW f \in D PROVE Sent(f, T) /\ Before(e, f)
      BY <2>1 DEF Queue, Due
    <3>3. (n + 1) + 1 = n + 2
      OBVIOUS
    <3> QED
      BY <3>1, <3>2, <3>3
  <2>6. Scheduled(p)[n + 1] = Schedule(q, e)
    BY <1>1, <2>1
  <2> HIDE DEF q, e, X
  <2>7. /\ Schedule(q, e) \in Pipe /\ Schedule(q, e).term = q.term
        /\ At(Schedule(q, e), T, X)
    BY <2>3, <2>4, <2>5, AtSchedule
  <2> QED
    BY <2>3, <2>6, <2>7 DEF X
<1>4. L \in S
  <2> HIDE DEF S
  <2> \A k \in 0..L : k \in S
    BY <1>1, <1>2, <1>3, UpTo
  <2> QED
    BY <1>1
<1>5. R(L) = D
  BY <1>1
<1> DEFINE q == Scheduled(p)[L]
<1>6. q \in Pipe /\ q.term = p.term /\ At(q, T, D)
  BY <1>4, <1>5
<1>7. Opened(p) = [q EXCEPT !.phase = "live", !.buffered = <<>>]
  BY DEF Opened
<1> HIDE DEF q, D, L, b
<1>8. /\ Opened(p) \in Pipe /\ Opened(p).phase = "live" /\ Opened(p).term = p.term
      /\ Opened(p).buffered = <<>> /\ Opened(p).seq = q.seq /\ Opened(p).shown = q.shown
      /\ Opened(p).state = q.state /\ Opened(p).ended = q.ended /\ Opened(p).failed = q.failed
  <2>1. <<>> \in Seq(Line) /\ "live" \in Phase
    BY DEF Phase
  <2> DEFINE nothing == <<>>
  <2>2. Opened(p) = [q EXCEPT !.phase = "live", !.buffered = nothing] /\ nothing \in Seq(Line)
    BY <1>7, <2>1
  <2> HIDE DEF nothing
  <2>3. Opened(p) \in Pipe /\ Opened(p).buffered = nothing
    BY <1>6, <2>1, <2>2 DEF Pipe
  <2> QED
    BY <1>6, <2>2, <2>3 DEF Pipe, nothing
<1>9. At(Opened(p), T, D)
  BY <1>6, <1>8 DEF At
<1> QED
  BY <1>8, <1>9 DEF D

-----------------------------------------------------------------------------
(* What a view, its connection and its reader thread have of each other.    *)

\* The events of t that wait in the pipe.
Waits(p, t) == IF p.term = t THEN p.buffered ELSE <<>>

Answers(o) == {i \in DOMAIN o : o[i].kind \notin Event}

\* The answers on their way that say a terminal is live.
LiveLines(o, h) == {l \in {o[i] : i \in DOMAIN o} \cup (IF h.at = "reply" THEN {h.line} ELSE {}) :
                      l.kind \in LiveKinds}

\* Where the pipe is once it has an answer.
Offered(p, l) == [p EXCEPT !.seq = l.seq, !.shown = l.seq,
                           !.state = IF l.kind = "header" THEN l.state ELSE NoState]

\* Where a view is, or will go on from.
Starts(p, o, h) == {Offered(p, l) : l \in LiveLines(o, h)}
                     \cup (IF p.phase \in {"restoring", "live"} THEN {p} ELSE {})

\* A pipe is bound to a terminal while it opens it and after, keeps events only
\* while it opens it, and fails or ends only after.
Shape(p) ==
    /\ IF p.phase \in {"opening", "restoring", "live"} THEN p.term \in Term ELSE p.term = NoTerm
    /\ p.phase \notin {"opening", "restoring"} => p.buffered = <<>>
    /\ p.phase # "live" => ~p.failed /\ ~p.ended
    /\ p.phase \notin {"restoring", "live"} => p.state = NoState

\* One request at a time until the view is live: what the reader thread does, what
\* is on its way, and what the client was told, are about the terminal it opens.
Talk(p, o, h, a) ==
    /\ p.phase \in {"new", "greeted", "restoring"} => h = Idle /\ Answers(o) = {}
    /\ p.phase \in {"asking", "opening"} => /\ h # Idle => Answers(o) = {}
                                            /\ \A i, j \in Answers(o) : i = j
    /\ p.phase = "opening" /\ h.at \in {"attach", "capture"} => h.term = p.term
    /\ p.phase # "opening" => Mute(h) /\ LiveLines(o, h) = {}
    /\ \A l \in LiveLines(o, h) : l.term = p.term
    /\ LiveLines(o, Idle) # {} => p.term \in a
    /\ p.phase \in {"restoring", "live"} => p.term \in a

\* The inductive invariant of a view: its pipe, outbox, reader thread, socket and
\* what it was told, against how far the terminals are.
View(p, o, h, k, a, S) ==
    /\ Shape(p)
    /\ \A t \in Term : Queue(Waits(p, t), o, t, S[t])
    /\ p.failed => ~S[p.term].valid
    /\ \A i \in DOMAIN o : o[i].kind \in Event => o[i].term \in Term
    /\ h.at = "reply" => h.line.kind \notin Event
    /\ k = "absent" => p = NewPipe /\ o = <<>> /\ h = Idle
    /\ k = "open" =>
         /\ Talk(p, o, h, a)
         /\ \A q \in Starts(p, o, h) : At(q, S[p.term], Rest(p.buffered, o, p.term))

Further(S, U) == \A t \in Term : Onward(S[t], U[t])

\* A view bound to no terminal has nothing waiting.
LEMMA WaitsOf ==
    ASSUME NEW p \in Pipe, Shape(p)
    PROVE  /\ \A t : Waits(p, t) \in Seq(Line)
           /\ p.term \in Term => Waits(p, p.term) = p.buffered
           /\ p.phase \in {"opening", "restoring", "live"} => p.term \in Term
BY EmptySeq DEF Shape, Waits, Pipe

\* Only a view that is bound to a terminal has a place to go on from.
LEMMA StartsBound ==
    ASSUME NEW p \in Pipe, Shape(p), NEW o, NEW h, NEW a, Talk(p, o, h, a),
           NEW q \in Starts(p, o, h)
    PROVE  /\ p.term \in Term /\ Waits(p, p.term) = p.buffered
           /\ p.phase \in {"opening", "restoring", "live"}
<1>1. p.phase \in {"opening", "restoring", "live"}
  BY DEF Starts, Talk
<1> QED
  BY <1>1, WaitsOf

\* The numbers of a place to go on from.
LEMMA StartType ==
    ASSUME NEW p \in Pipe, NEW o \in Seq(Line), NEW h \in Handlers, NEW q \in Starts(p, o, h)
    PROVE  q \in Pipe
<1>1. LiveLines(o, h) \subseteq Line
  BY DEF LiveLines, Handlers
<1>2. ASSUME NEW l \in Line PROVE Offered(p, l) \in Pipe
  <2> DEFINE s == IF l.kind = "header" THEN l.state ELSE NoState
  <2>1. s \in Nat \cup {NoState} /\ l.seq \in Nat
    BY DEF Line
  <2>2. Offered(p, l) = [p EXCEPT !.seq = l.seq, !.shown = l.seq, !.state = s]
    BY DEF Offered
  <2> HIDE DEF s
  <2> QED
    BY <2>1, <2>2 DEF Pipe
<1> QED
  BY <1>1, <1>2 DEF Starts

\* The terminals go on and send nothing.
LEMMA ViewOnward ==
    ASSUME NEW S \in [Term -> Statuses], NEW U \in [Term -> Statuses], Further(S, U),
           \A t \in Term : Silent(S[t], U[t]),
           NEW p \in Pipe, NEW o \in Seq(Line), NEW h \in Handlers, NEW k, NEW a,
           View(p, o, h, k, a, S)
    PROVE  View(p, o, h, k, a, U)
<1>1. \A t \in Term : Queue(Waits(p, t), o, t, U[t])
  BY QueueOnward DEF View, Further
<1>2. p.failed => ~U[p.term].valid
  BY DEF View, Shape, Further, Onward
<1>3. ASSUME k = "open", NEW q \in Starts(p, o, h)
      PROVE  At(q, U[p.term], Rest(p.buffered, o, p.term))
  <2>1. Shape(p) /\ Talk(p, o, h, a) /\ At(q, S[p.term], Rest(p.buffered, o, p.term))
    BY <1>3 DEF View
  <2>2. p.term \in Term
    BY <1>3, <2>1, StartsBound
  <2>3. q \in Pipe
    BY <1>3, StartType
  <2> QED
    BY <2>1, <2>2, <2>3, AtOnward DEF Further, Pipe
<1> QED
  BY <1>1, <1>2, <1>3 DEF View

\* An event more in the outbox is no answer.
LEMMA SameAnswers ==
    ASSUME NEW o \in Seq(Line), NEW e \in Line, e.kind \in Event, NEW h
    PROVE  /\ Answers(Append(o, e)) = Answers(o)
           /\ LiveLines(Append(o, e), h) = LiveLines(o, h)
<1>1. e.kind \notin LiveKinds
  BY DEF Event, LiveKinds
<1> DEFINE a == Append(o, e)
           n == Len(o) + 1
<1>2. /\ DOMAIN a = DOMAIN o \cup {n} /\ n \notin DOMAIN o /\ a[n] = e
      /\ \A i \in DOMAIN o : a[i] = o[i]
  BY AppendAt
<1> HIDE DEF a, n
<1>3. Answers(a) = Answers(o)
  BY <1>2 DEF Answers
<1>4. {a[i] : i \in DOMAIN a} = {o[i] : i \in DOMAIN o} \cup {e}
  BY <1>2
<1>5. LiveLines(a, h) = LiveLines(o, h)
  BY <1>1, <1>4 DEF LiveLines
<1> QED
  BY <1>3, <1>5 DEF a

\* A terminal sends an event, and this client is sent it.
LEMMA ViewSent ==
    ASSUME NEW S \in [Term -> Statuses], NEW U \in [Term -> Statuses], Further(S, U),
           NEW u \in Term, \A t \in Term \ {u} : U[t] = S[t],
           NEW e, OfTerm(e, u), Emits(S[u], U[u], e),
           NEW p \in Pipe, NEW o \in Seq(Line), NEW h \in Handlers, NEW k, k # "absent", NEW a,
           View(p, o, h, k, a, S)
    PROVE  View(p, Append(o, e), h, k, a, U)
<1>0. e \in Line /\ e.kind \in Event /\ \A t \in Term : OfTerm(e, t) => t = u
  BY DEF Emits, OfTerm
<1>1. ASSUME NEW t \in Term PROVE Queue(Waits(p, t), Append(o, e), t, U[t])
  <2>1. Queue(Waits(p, t), o, t, S[t]) /\ Waits(p, t) \in Seq(Line) /\ Onward(S[t], U[t])
    BY WaitsOf DEF View, Further
  <2>2. CASE t = u
    BY <2>1, <2>2, QueueAppend
  <2>3. CASE t # u
    BY <1>0, <2>1, <2>3, QueueOther
  <2> QED
    BY <2>2, <2>3
<1>2. p.failed => ~U[p.term].valid
  BY DEF View, Shape, Further, Onward
<1>3. ASSUME k = "open"
      PROVE  /\ Talk(p, Append(o, e), h, a)
             /\ \A q \in Starts(p, Append(o, e), h) :
                   At(q, U[p.term], Rest(p.buffered, Append(o, e), p.term))
  <2>1. Shape(p) /\ Talk(p, o, h, a)
    BY <1>3 DEF View
  <2>2. Talk(p, Append(o, e), h, a)
    BY <1>0, <2>1, SameAnswers DEF Talk
  <2>3. Starts(p, Append(o, e), h) = Starts(p, o, h)
    BY <1>0, SameAnswers DEF Starts
  <2>4. ASSUME NEW q \in Starts(p, o, h)
        PROVE  At(q, U[p.term], Rest(p.buffered, Append(o, e), p.term))
    <3>1. p.term \in Term /\ At(q, S[p.term], Rest(p.buffered, o, p.term)) /\ q \in Pipe
      BY <1>3, <2>1, <2>4, StartsBound, StartType DEF View
    <3>2. CASE p.term = u
      <4>1. Rest(p.buffered, Append(o, e), u) = Rest(p.buffered, o, u) \cup {e}
        BY <1>0, DueAppend DEF Rest
      <4> QED
        BY <3>1, <3>2, <4>1, AtEmits DEF Further, Pipe
    <3>3. CASE p.term # u
      <4>1. Due(Append(o, e), p.term) = Due(o, p.term)
        BY <1>0, <3>1, <3>3, DueAppend
      <4> QED
        BY <3>1, <3>3, <4>1 DEF Rest
    <3> QED
      BY <3>2, <3>3
  <2> QED
    BY <2>2, <2>3, <2>4
<1>4. \A i \in DOMAIN Append(o, e) : Append(o, e)[i].kind \in Event => Append(o, e)[i].term \in Term
  BY <1>0, AppendAt DEF View, OfTerm
<1> QED
  BY <1>1, <1>2, <1>3, <1>4 DEF View

\* A terminal sends an event to others: this client was not told it is live.
LEMMA ViewUnsent ==
    ASSUME NEW S \in [Term -> Statuses], NEW U \in [Term -> Statuses], Further(S, U),
           NEW u \in Term, \A t \in Term \ {u} : U[t] = S[t],
           NEW p \in Pipe, NEW o \in Seq(Line), NEW h \in Handlers, NEW k, NEW a,
           View(p, o, h, k, a, S), k = "open" /\ p.term = u => Starts(p, o, h) = {}
    PROVE  View(p, o, h, k, a, U)
<1>1. \A t \in Term : Queue(Waits(p, t), o, t, U[t])
  BY QueueOnward DEF View, Further
<1>2. p.failed => ~U[p.term].valid
  BY DEF View, Shape, Further, Onward
<1>3. ASSUME k = "open", NEW q \in Starts(p, o, h)
      PROVE  At(q, U[p.term], Rest(p.buffered, o, p.term))
  <2>1. Shape(p) /\ Talk(p, o, h, a) /\ At(q, S[p.term], Rest(p.buffered, o, p.term))
    BY <1>3 DEF View
  <2>2. p.term \in Term /\ p.term # u
    BY <1>3, <2>1, StartsBound
  <2> QED
    BY <2>1, <2>2
<1> QED
  BY <1>1, <1>2, <1>3 DEF View

\* A connection that is shut, and perhaps out of the list, takes its view nowhere.
LEMMA ViewShut ==
    ASSUME NEW S \in [Term -> Statuses], NEW U \in [Term -> Statuses], Further(S, U),
           NEW p \in Pipe, NEW o \in Seq(Line), NEW r \in {o, <<>>}, NEW h, NEW k, NEW a,
           NEW l \in {"shut", "gone"}, NEW d, View(p, o, h, k, a, S),
           NEW g, g.at = "reply" => g.line.kind \notin Event
    PROVE  View(p, r, g, l, d, U)
<1>1. \A t \in Term : Queue(Waits(p, t), o, t, U[t])
  BY QueueOnward DEF View, Further
<1>2. \A t \in Term : Queue(Waits(p, t), <<>>, t, U[t])
  BY <1>1 DEF Queue
<1>3. p.failed => ~U[p.term].valid
  BY DEF View, Shape, Further, Onward
<1> QED
  BY <1>1, <1>2, <1>3 DEF View

\* A reader thread with nothing to say of a live terminal.
LEMMA MuteLines ==
    ASSUME NEW o, NEW h, Mute(h)
    PROVE  LiveLines(o, h) = LiveLines(o, Idle)
BY DEF Mute, LiveLines, Idle

\* Without answers on their way there are none that say a terminal is live.
LEMMA NoAnswers ==
    ASSUME NEW o, Answers(o) = {}
    PROVE  LiveLines(o, Idle) = {}
<1>1. \A i \in DOMAIN o : o[i].kind \in Event
  BY DEF Answers
<1>2. \A kind \in Event : kind \notin LiveKinds
  BY DEF Event, LiveKinds
<1> QED
  BY <1>1, <1>2 DEF LiveLines, Idle

\* A place to go on from is known by its numbers.
LEMMA AtSame ==
    ASSUME NEW p, NEW q, NEW T, NEW R, At(p, T, R),
           q.seq = p.seq, q.shown = p.shown, q.state = p.state, q.ended = p.ended,
           q.failed = p.failed
    PROVE  At(q, T, R)
BY DEF At

\* A reader thread in the middle of a request goes on, or one of a view that is
\* live or closed begins, with nothing to say of a live terminal.
LEMMA ViewGoesOn ==
    ASSUME NEW S, NEW p \in Pipe, NEW o \in Seq(Line), NEW h, NEW k, NEW a,
           View(p, o, h, k, a, S), Mute(h), h # Idle \/ (k # "absent" /\ p.phase \in {"live", "closed"}),
           NEW g, g # Idle, Mute(g), g.at = "reply" => g.line.kind \notin Event
    PROVE  View(p, o, g, k, a, S)
<1>1. LiveLines(o, g) = LiveLines(o, h)
  BY MuteLines
<1>2. Starts(p, o, g) = Starts(p, o, h)
  BY <1>1 DEF Starts
<1>3. Talk(p, o, h, a) => Talk(p, o, g, a)
  BY <1>1 DEF Talk, Mute
<1> QED
  BY <1>2, <1>3 DEF View

\* The ring is read under its lock: the answer has the numbers as they stand.
LEMMA ViewRead ==
    ASSUME NEW S \in [Term -> Statuses], NEW p \in Pipe, NEW o \in Seq(Line),
           NEW h \in Handlers, NEW k, NEW a, View(p, o, h, k, a, S),
           h.at \in {"attach", "capture"},
           NEW g, g.at = "reply", g.line.kind \notin Event,
           g.line.kind \in LiveKinds =>
             /\ g.line.term = h.term /\ g.line.seq = S[h.term].seq
             /\ g.line.kind = "header" => g.line.state = S[h.term].state
    PROVE  View(p, o, g, k, a, S)
<1>1. h # Idle /\ ~Mute(h) /\ h.term \in Term
  BY DEF Idle, Mute, Handlers
<1>2. g # Idle
  BY DEF Idle
<1>3. ASSUME k = "open"
      PROVE  /\ Talk(p, o, g, a)
             /\ \A q \in Starts(p, o, g) : At(q, S[p.term], Rest(p.buffered, o, p.term))
  <2>1. Shape(p) /\ Talk(p, o, h, a)
    BY <1>3 DEF View
  <2>2. p.phase = "opening" /\ h.term = p.term /\ Answers(o) = {}
    BY <1>1, <2>1 DEF Talk
  <2>3. LiveLines(o, Idle) = {}
    BY <2>2, NoAnswers
  <2>4. \A l \in LiveLines(o, g) : l = g.line /\ l.kind \in LiveKinds
    BY <2>3 DEF LiveLines, Idle
  <2>5. Talk(p, o, g, a)
    BY <1>1, <1>2, <2>1, <2>2, <2>3, <2>4 DEF Talk
  <2>6. ASSUME NEW l \in LiveLines(o, g)
        PROVE  At(Offered(p, l), S[p.term], Rest(p.buffered, o, p.term))
    <3> DEFINE q == Offered(p, l)
               T == S[p.term]
               R == Rest(p.buffered, o, p.term)
    <3>1. T \in Statuses /\ p.term \in Term
      BY <1>1, <2>2
    <3>2. \A e \in R : Sent(e, T)
      <4>1. Queue(p.buffered, o, p.term, T) /\ p.buffered \in Seq(Line)
        BY <2>1, <3>1, WaitsOf DEF View, Pipe
      <4> QED
        BY <4>1, DueSent
    <3>3. l.seq = T.seq /\ (l.kind = "header" => l.state = T.state)
      BY <2>2, <2>4
    <3>4. ~p.ended /\ ~p.failed
      BY <2>1, <2>2 DEF Shape
    <3>5. /\ q.seq = T.seq /\ q.shown = T.seq /\ q.state \in {T.state, NoState}
          /\ ~q.ended /\ ~q.failed
      BY <3>3, <3>4 DEF Offered, Pipe
    <3> HIDE DEF q, T, R
    <3> QED
      BY <3>1, <3>2, <3>5, AtAnswer DEF q, T, R
  <2> QED
    BY <2>2, <2>5, <2>6 DEF Starts
<1> QED
  BY <1>3, <1>2 DEF View, Idle

\* An answer more in the outbox.
LEMMA OneAnswerMore ==
    ASSUME NEW o \in Seq(Line), NEW e \in Line, e.kind \notin Event,
           NEW h, h.at = "reply", h.line = e
    PROVE  /\ Answers(o) = {} => \A i, j \in Answers(Append(o, e)) : i = j
           /\ LiveLines(Append(o, e), Idle) = LiveLines(o, h)
           /\ LiveLines(o, h) # {} => LiveLines(o, Idle) # {} \/ e.kind \in LiveKinds
<1> DEFINE a == Append(o, e)
           n == Len(o) + 1
<1>2. /\ DOMAIN a = DOMAIN o \cup {n} /\ a[n] = e
      /\ \A i \in DOMAIN o : a[i] = o[i]
  BY AppendAt
<1> HIDE DEF a, n
<1>3. Answers(a) \subseteq Answers(o) \cup {n}
  BY <1>2 DEF Answers
<1>4. {a[i] : i \in DOMAIN a} = {o[i] : i \in DOMAIN o} \cup {e}
  BY <1>2
<1>5. LiveLines(a, Idle) = LiveLines(o, h)
  BY <1>4 DEF LiveLines, Idle
<1>6. LiveLines(o, h) # {} => LiveLines(o, Idle) # {} \/ e.kind \in LiveKinds
  BY DEF LiveLines, Idle
<1> QED
  BY <1>3, <1>5, <1>6 DEF a

\* The answer goes to the outbox, and the reader thread takes its next request.
LEMMA ViewReply ==
    ASSUME NEW S \in [Term -> Statuses], NEW p \in Pipe, NEW o \in Seq(Line),
           NEW h \in Handlers, NEW k, NEW a, View(p, o, h, k, a, S), h.at = "reply",
           NEW b, a \subseteq b, h.line.kind \in LiveKinds => h.line.term \in b
    PROVE  View(p, Append(o, h.line), Idle, k, b, S)
<1> DEFINE e == h.line
           n == Append(o, e)
<1>1. e \in Line /\ e.kind \notin Event /\ h # Idle /\ \A t : ~OfTerm(e, t)
  BY DEF Handlers, View, Idle, OfTerm
<1>2. /\ Answers(o) = {} => \A i, j \in Answers(n) : i = j
      /\ LiveLines(n, Idle) = LiveLines(o, h)
      /\ LiveLines(o, h) # {} => LiveLines(o, Idle) # {} \/ e.kind \in LiveKinds
  BY <1>1, OneAnswerMore
<1>3. \A t : Due(n, t) = Due(o, t)
  BY <1>1, DueAppend
<1>4. \A i \in DOMAIN n : n[i].kind \in Event => n[i].term \in Term
  BY <1>1, AppendAt DEF View
<1>5. ASSUME NEW t \in Term PROVE Queue(Waits(p, t), n, t, S[t])
  <2>1. Waits(p, t) \in Seq(Line)
    BY WaitsOf DEF View
  <2> QED
    BY <1>1, <2>1, QueueOther DEF View
<1>6. e.kind \in LiveKinds => e \in LiveLines(o, h)
  BY DEF LiveLines
<1> HIDE DEF e, n
<1>7. k # "absent"
  BY <1>1 DEF View
<1>8. Idle.at # "reply" /\ Mute(Idle) /\ Idle.at \notin {"attach", "capture"}
  BY DEF Idle, Mute
<1>9. ASSUME k = "open" PROVE Talk(p, n, Idle, b)
  <2>1. Talk(p, o, h, a)
    BY <1>9 DEF View
  <2>2. p.phase \notin {"new", "greeted", "restoring"}
    BY <1>1, <2>1 DEF Talk
  <2>3. p.phase \in {"asking", "opening"} => \A i, j \in Answers(n) : i = j
    BY <1>1, <1>2, <2>1 DEF Talk
  <2>4. LiveLines(n, Idle) # {} => p.term \in b
    BY <1>2, <1>6, <2>1 DEF Talk, e
  <2> QED
    BY <1>2, <1>8, <2>1, <2>2, <2>3, <2>4 DEF Talk
<1>10. Starts(p, n, Idle) = Starts(p, o, h)
  BY <1>2 DEF Starts
<1> QED
  BY <1>3, <1>4, <1>5, <1>7, <1>8, <1>9, <1>10 DEF View, Rest, n, e

\* Nothing need wait.
LEMMA QueueNone ==
    ASSUME NEW b, NEW o, NEW t, NEW T, Queue(b, o, t, T)
    PROVE  Queue(<<>>, o, t, T)
BY DEF Queue

\* A request is sent on a connection that waits for no answer.
LEMMA ViewAsks ==
    ASSUME NEW S \in [Term -> Statuses], NEW p \in Pipe, NEW o \in Seq(Line), NEW h, NEW a,
           View(p, o, h, "open", a, S), p.phase \in {"new", "greeted"},
           NEW g, g # Idle, g.at = "reply" => g.line.kind \notin Event \cup LiveKinds,
           NEW q,
           \/ q = [p EXCEPT !.phase = "asking"] /\ Mute(g)
           \/ \E t \in Term : /\ q = [p EXCEPT !.phase = "opening", !.term = t]
                              /\ g.at \in {"attach", "capture"} => g.term = t
    PROVE  q \in Pipe /\ View(q, o, g, "open", a, S)
<1>1. /\ Shape(p) /\ Answers(o) = {} /\ p.term = NoTerm /\ p.buffered = <<>>
      /\ ~p.failed /\ ~p.ended /\ p.state = NoState
  BY DEF View, Talk, Shape
<1>2. /\ q \in Pipe /\ q.buffered = <<>> /\ ~q.failed /\ ~q.ended /\ q.state = NoState
      /\ \/ q.phase = "asking" /\ q.term = NoTerm /\ Mute(g)
         \/ q.phase = "opening" /\ q.term \in Term /\ (g.at \in {"attach", "capture"} => g.term = q.term)
  <2>0. "asking" \in Phase /\ "opening" \in Phase
    BY DEF Phase
  <2>1. ASSUME q = [p EXCEPT !.phase = "asking"], Mute(g)
        PROVE  /\ q \in Pipe /\ q.phase = "asking" /\ q.term = p.term /\ q.buffered = p.buffered
               /\ q.failed = p.failed /\ q.ended = p.ended /\ q.state = p.state
    BY <2>0, <2>1 DEF Pipe
  <2>2. ASSUME NEW t \in Term, q = [p EXCEPT !.phase = "opening", !.term = t]
        PROVE  /\ q \in Pipe /\ q.phase = "opening" /\ q.term = t /\ q.buffered = p.buffered
               /\ q.failed = p.failed /\ q.ended = p.ended /\ q.state = p.state
    BY <2>0, <2>2 DEF Pipe
  <2> QED
    BY <1>1, <2>1, <2>2
<1>3. Shape(q)
  BY <1>2 DEF Shape
<1>4. LiveLines(o, Idle) = {} /\ LiveLines(o, g) = {}
  <2>1. LiveLines(o, Idle) = {}
    BY <1>1, NoAnswers
  <2>2. \A i \in DOMAIN o : o[i].kind \notin LiveKinds
    BY <2>1 DEF LiveLines
  <2> QED
    BY <2>1, <2>2 DEF LiveLines
<1>5. Talk(q, o, g, a)
  BY <1>1, <1>2, <1>4 DEF Talk
<1>6. Starts(q, o, g) = {}
  BY <1>2, <1>4 DEF Starts
<1>7. \A t \in Term : Queue(Waits(q, t), o, t, S[t])
  <2>1. ASSUME NEW t \in Term PROVE Queue(<<>>, o, t, S[t])
    BY QueueNone DEF View
  <2> QED
    BY <1>2, <2>1 DEF Waits
<1> QED
  BY <1>2, <1>3, <1>5, <1>6, <1>7 DEF View

\* The connection is made.
LEMMA ViewConnects ==
    ASSUME NEW S, NEW p, NEW o, NEW h, NEW a, View(p, o, h, "absent", a, S)
    PROVE  View(p, o, h, "open", a, S)
<1>1. p = NewPipe /\ o = <<>> /\ h = Idle
  BY DEF View
<1>2. Answers(o) = {} /\ LiveLines(o, h) = {} /\ LiveLines(o, Idle) = {}
  BY <1>1 DEF Answers, LiveLines, Idle
<1>3. Mute(h)
  BY <1>1 DEF Mute, Idle
<1>4. Starts(p, o, h) = {} /\ Talk(p, o, h, a)
  BY <1>1, <1>2, <1>3 DEF Starts, Talk, NewPipe
<1> QED
  BY <1>4 DEF View

\* The first line is taken off an outbox.
LEMMA TailAnswers ==
    ASSUME NEW o \in Seq(Line), o # <<>>, NEW h
    PROVE  /\ Answers(o) = {} => Answers(Tail(o)) = {}
           /\ (\A i, j \in Answers(o) : i = j) =>
                 /\ \A i, j \in Answers(Tail(o)) : i = j
                 /\ Head(o).kind \notin Event => Answers(o) # {} /\ Answers(Tail(o)) = {}
           /\ LiveLines(Tail(o), h) \subseteq LiveLines(o, h)
           /\ Head(o).kind \in LiveKinds => Head(o) \in LiveLines(o, h) /\ Head(o) \in LiveLines(o, Idle)
<1> DEFINE r == Tail(o)
           e == Head(o)
<1>1. /\ r \in Seq(Line) /\ e = o[1] /\ 1 \in DOMAIN o
      /\ \A i \in DOMAIN r : i \in Nat /\ i + 1 \in DOMAIN o /\ r[i] = o[i + 1] /\ 1 < i + 1
  BY TailAt
<1> HIDE DEF r, e
<1>2. \A i \in Answers(r) : i \in Nat /\ i + 1 \in Answers(o) /\ i + 1 # 1
  BY <1>1 DEF Answers
<1>3. e.kind \notin Event => 1 \in Answers(o)
  BY <1>1 DEF Answers
<1>4. (\A i, j \in Answers(o) : i = j) => \A i, j \in Answers(r) : i = j
  BY <1>2
<1>5. {r[i] : i \in DOMAIN r} \subseteq {o[i] : i \in DOMAIN o}
  BY <1>1
<1>6. e \in {o[i] : i \in DOMAIN o}
  BY <1>1
<1>7. LiveLines(r, h) \subseteq LiveLines(o, h)
  BY <1>5 DEF LiveLines
<1>8. e.kind \in LiveKinds => e \in LiveLines(o, h) /\ e \in LiveLines(o, Idle)
  BY <1>6 DEF LiveLines
<1> QED
  BY <1>2, <1>3, <1>4, <1>7, <1>8 DEF r, e

\* What an outbox without its first line still says of live terminals is less.
LEMMA TailTalk ==
    ASSUME NEW o \in Seq(Line), o # <<>>, NEW p, NEW h, NEW a, Talk(p, o, h, a)
    PROVE  Talk(p, Tail(o), h, a)
<1>1. LiveLines(Tail(o), h) \subseteq LiveLines(o, h) /\ LiveLines(Tail(o), Idle) \subseteq LiveLines(o, Idle)
  BY TailAnswers
<1> QED
  BY <1>1, TailAnswers DEF Talk

\* What is due of an outbox without its first line.
LEMMA TailView ==
    ASSUME NEW S \in [Term -> Statuses], NEW p \in Pipe, NEW o \in Seq(Line), o # <<>>,
           NEW h, NEW k, NEW a, View(p, o, h, k, a, S)
    PROVE  /\ Tail(o) \in Seq(Line) /\ Head(o) \in Line
           /\ \A i \in DOMAIN Tail(o) : Tail(o)[i].kind \in Event => Tail(o)[i].term \in Term
           /\ Head(o).kind \in Event => Head(o).term \in Term
           /\ \A t \in Term : /\ Queue(Waits(p, t), Tail(o), t, S[t])
                              /\ OfTerm(Head(o), t) => Queue(Append(Waits(p, t), Head(o)), Tail(o), t, S[t])
<1>1. ASSUME NEW t \in Term
      PROVE  /\ Queue(Waits(p, t), Tail(o), t, S[t])
             /\ OfTerm(Head(o), t) => Queue(Append(Waits(p, t), Head(o)), Tail(o), t, S[t])
  <2>1. Waits(p, t) \in Seq(Line)
    BY WaitsOf DEF View
  <2> QED
    BY <2>1, QueueTail DEF View
<1>2. /\ Tail(o) \in Seq(Line) /\ Head(o) \in Line
      /\ \A i \in DOMAIN Tail(o) : Tail(o)[i].kind \in Event => Tail(o)[i].term \in Term
      /\ Head(o).kind \in Event => Head(o).term \in Term
  BY TailAt DEF View
<1> QED
  BY <1>1, <1>2

\* What a line does to a view: it moves on as its terminal went on.
Received(p, q, o, h, a, S) ==
    /\ q \in Pipe /\ View(q, Tail(o), h, "open", a, S)
    /\ p.phase = "live" /\ q.phase = "live" => q.term = p.term /\ Moves(p, q, S[p.term])

\* A line the pipe has no use for.
LEMMA ViewDrops ==
    ASSUME NEW S \in [Term -> Statuses], NEW p \in Pipe, NEW o \in Seq(Line), o # <<>>,
           NEW h \in Handlers, NEW a, View(p, o, h, "open", a, S),
           ~OfTerm(Head(o), p.term) \/ p.failed
    PROVE  Received(p, p, o, h, a, S)
<1> DEFINE r == Tail(o)
           e == Head(o)
           R == Rest(p.buffered, o, p.term)
           Q == Rest(p.buffered, r, p.term)
<1>1. Shape(p) /\ Talk(p, o, h, a)
  BY DEF View
<1>2. Talk(p, r, h, a)
  BY <1>1, TailTalk
<1>3. ASSUME NEW q \in Starts(p, r, h) PROVE At(q, S[p.term], Q)
  <2>1. q \in Starts(p, o, h)
    BY <1>3, TailAnswers DEF Starts
  <2>2. At(q, S[p.term], R)
    BY <2>1 DEF View
  <2>3. p.buffered \in Seq(Line)
    BY DEF Pipe
  <2>4. CASE ~OfTerm(e, p.term)
    <3>1. Q = R
      BY <2>3, <2>4, DueTail DEF Rest
    <3> QED
      BY <2>2, <3>1
  <2>5. CASE OfTerm(e, p.term) /\ p.failed
    <3>1. p.phase = "live" /\ q = p
      BY <1>1, <2>1, <2>5 DEF Shape, Starts, Talk
    <3>2. e \in R
      BY <2>3, <2>5, DueTail DEF Rest
    <3>3. ~p.ended
      BY <2>2, <3>1, <3>2 DEF At
    <3> QED
      BY <2>2, <2>5, <3>1, <3>3 DEF At
  <2> QED
    BY <2>4, <2>5
<1>4. View(p, r, h, "open", a, S)
  <2>1. /\ \A t \in Term : Queue(Waits(p, t), r, t, S[t])
        /\ \A i \in DOMAIN r : r[i].kind \in Event => r[i].term \in Term
    BY TailView
  <2> HIDE DEF r
  <2> QED
    BY <1>2, <1>3, <2>1 DEF View
<1> QED
  BY <1>4 DEF Received, Moves

\* An event waits while the view opens.
LEMMA ViewWaits ==
    ASSUME NEW S \in [Term -> Statuses], NEW p \in Pipe, NEW o \in Seq(Line), o # <<>>,
           NEW h \in Handlers, NEW a, View(p, o, h, "open", a, S),
           OfTerm(Head(o), p.term), p.phase \in {"opening", "restoring"},
           NEW q, q = [p EXCEPT !.buffered = Append(@, Head(o))]
    PROVE  Received(p, q, o, h, a, S)
<1> DEFINE r == Tail(o)
           e == Head(o)
<1>1. Shape(p) /\ Talk(p, o, h, a) /\ e \in Line
  BY TailAt DEF View
<1>2. p.buffered \in Seq(Line) /\ Append(p.buffered, e) \in Seq(Line)
  BY <1>1, AppendProperties DEF Pipe
<1>3. /\ q \in Pipe /\ q.buffered = Append(p.buffered, e) /\ q.phase = p.phase /\ q.term = p.term
      /\ q.seq = p.seq /\ q.shown = p.shown /\ q.state = p.state /\ q.ended = p.ended
      /\ q.failed = p.failed
  <2> DEFINE b == Append(p.buffered, e)
  <2> HIDE DEF b
  <2>1. q = [p EXCEPT !.buffered = b] /\ b \in Seq(Line)
    BY <1>2, Zenon DEF b
  <2>2. q.buffered = b
    BY <2>1 DEF Pipe
  <2> QED
    BY <2>1, <2>2 DEF Pipe, b
<1> HIDE DEF e, r
<1>4. Shape(q) /\ p.term \in Term
  BY <1>1, <1>3 DEF Shape
<1>5. Talk(p, r, h, a)
  BY <1>1, TailTalk DEF r
<1>6. Talk(q, r, h, a)
  BY <1>3, <1>5 DEF Talk
<1>7. Rest(q.buffered, r, q.term) = Rest(p.buffered, o, p.term)
  BY <1>2, <1>3, DueTail DEF e, r
<1>8. ASSUME NEW m \in Starts(q, r, h) PROVE At(m, S[q.term], Rest(q.buffered, r, q.term))
  <2>1. CASE m = q
    <3>1. p.phase = "restoring" => p \in Starts(p, o, h)
      BY DEF Starts
    <3>2. CASE p.phase = "restoring"
      <4>1. At(p, S[p.term], Rest(p.buffered, o, p.term))
        BY <3>1, <3>2 DEF View
      <4> QED
        BY <1>3, <1>7, <2>1, <4>1, AtSame
    <3>3. CASE p.phase # "restoring"
      <4>1. PICK l \in LiveLines(r, h) : m = Offered(q, l)
        BY <1>3, <1>8, <3>3 DEF Starts
      <4>2. Offered(p, l) \in Starts(p, o, h)
        BY <4>1, TailAnswers DEF Starts, r
      <4>3. At(Offered(p, l), S[p.term], Rest(p.buffered, o, p.term))
        BY <4>2 DEF View
      <4>4. /\ Offered(q, l).seq = Offered(p, l).seq /\ Offered(q, l).shown = Offered(p, l).shown
            /\ Offered(q, l).state = Offered(p, l).state
            /\ Offered(q, l).ended = Offered(p, l).ended /\ Offered(q, l).failed = Offered(p, l).failed
        BY <1>3 DEF Offered, Pipe
      <4> QED
        BY <1>3, <1>7, <4>1, <4>3, <4>4, AtSame
    <3> QED
      BY <3>2, <3>3
  <2>2. CASE m # q
    <3>1. PICK l \in LiveLines(r, h) : m = Offered(q, l)
      BY <1>8, <2>2 DEF Starts
    <3>2. Offered(p, l) \in Starts(p, o, h)
      BY <3>1, TailAnswers DEF Starts, r
    <3>3. At(Offered(p, l), S[p.term], Rest(p.buffered, o, p.term))
      BY <3>2 DEF View
    <3>4. /\ Offered(q, l).seq = Offered(p, l).seq /\ Offered(q, l).shown = Offered(p, l).shown
          /\ Offered(q, l).state = Offered(p, l).state
          /\ Offered(q, l).ended = Offered(p, l).ended /\ Offered(q, l).failed = Offered(p, l).failed
      BY <1>3 DEF Offered, Pipe
    <3> QED
      BY <1>3, <1>7, <3>1, <3>3, <3>4, AtSame
  <2> QED
    BY <2>1, <2>2
<1>9. ASSUME NEW t \in Term PROVE Queue(Waits(q, t), r, t, S[t])
  <2>1. CASE t = p.term
    BY <1>3, <2>1, TailView DEF Waits, e, r
  <2>2. CASE t # p.term
    <3>1. Waits(q, t) = <<>> /\ Waits(p, t) = <<>>
      BY <1>3, <2>2 DEF Waits
    <3>2. Queue(Waits(p, t), r, t, S[t])
      BY TailView DEF r
    <3> QED
      BY <3>1, <3>2
  <2> QED
    BY <2>1, <2>2
<1>10. \A i \in DOMAIN r : r[i].kind \in Event => r[i].term \in Term
  BY TailView DEF r
<1>11. q.failed => ~S[q.term].valid
  BY <1>3 DEF View
<1>12. View(q, r, h, "open", a, S)
  BY <1>4, <1>6, <1>8, <1>9, <1>10, <1>11 DEF View
<1>13. q.phase # "live"
  BY <1>3
<1> QED
  BY <1>3, <1>12, <1>13 DEF Received, r

\* An event a live view looks at.
LEMMA ViewShows ==
    ASSUME NEW S \in [Term -> Statuses], NEW p \in Pipe, NEW o \in Seq(Line), o # <<>>,
           NEW h \in Handlers, NEW a, View(p, o, h, "open", a, S),
           OfTerm(Head(o), p.term), p.phase = "live"
    PROVE  Received(p, Schedule(p, Head(o)), o, h, a, S)
<1> DEFINE r == Tail(o)
           e == Head(o)
           q == Schedule(p, e)
           T == S[p.term]
<1>1. /\ Shape(p) /\ Talk(p, o, h, a) /\ p.term \in Term /\ p.buffered = <<>>
      /\ T \in Statuses
  BY DEF View, Shape
<1>2. Queue(<<>>, o, p.term, T)
  BY <1>1 DEF View, Waits
<1>3. Rest(p.buffered, o, p.term) = Due(o, p.term) /\ Rest(p.buffered, r, p.term) = Due(r, p.term)
  BY <1>1 DEF Rest
<1>4. At(p, T, Due(o, p.term))
  BY <1>3 DEF View, Starts
<1>5. /\ q \in Pipe /\ q.phase = p.phase /\ q.term = p.term /\ q.buffered = p.buffered
      /\ At(q, T, Due(r, p.term)) /\ Moves(p, q, T)
  BY <1>1, <1>2, <1>4, AtReceive
<1> HIDE DEF q, e, r
<1>6. Shape(q)
  BY <1>1, <1>5 DEF Shape
<1>7. Talk(p, r, h, a)
  BY <1>1, TailTalk DEF r
<1>8. Talk(q, r, h, a)
  BY <1>5, <1>7 DEF Talk
<1>9. Starts(q, r, h) = {q}
  BY <1>5, <1>8 DEF Starts, Talk
<1>10. \A t \in Term : Queue(Waits(q, t), r, t, S[t])
  BY <1>5, TailView DEF Waits, r
<1>11. \A i \in DOMAIN r : r[i].kind \in Event => r[i].term \in Term
  BY TailView DEF r
<1>12. q.failed => ~T.valid
  BY <1>5 DEF At
<1>13. View(q, r, h, "open", a, S)
  BY <1>3, <1>5, <1>6, <1>8, <1>9, <1>10, <1>11, <1>12 DEF View
<1> QED
  BY <1>5, <1>13 DEF Received, q, e, r

\* A view that becomes live, with nothing more to wait for.
LEMMA ViewLives ==
    ASSUME NEW S \in [Term -> Statuses], NEW q \in Pipe, NEW o \in Seq(Line), NEW t \in Term,
           NEW h, NEW a, Mute(h), LiveLines(o, h) = {}, t \in a,
           q.phase = "live", q.term = t, q.buffered = <<>>,
           \A u \in Term : Queue(<<>>, o, u, S[u]),
           \A i \in DOMAIN o : o[i].kind \in Event => o[i].term \in Term,
           h.at = "reply" => h.line.kind \notin Event,
           At(q, S[t], Due(o, t))
    PROVE  View(q, o, h, "open", a, S)
<1>1. Shape(q) /\ Talk(q, o, h, a)
  BY DEF Shape, Talk
<1>2. Starts(q, o, h) = {q} /\ Rest(q.buffered, o, t) = Due(o, t)
  BY DEF Starts, Rest
<1>3. \A u \in Term : Waits(q, u) = <<>>
  BY DEF Waits
<1>4. q.failed => ~S[t].valid
  BY DEF At
<1> QED
  BY <1>1, <1>2, <1>3, <1>4 DEF View

\* The snapshot is restored.
LEMMA ViewRestored ==
    ASSUME NEW S \in [Term -> Statuses], NEW p \in Pipe, NEW o \in Seq(Line), NEW h, NEW a,
           View(p, o, h, "open", a, S), p.phase = "restoring"
    PROVE  /\ Opened(p) \in Pipe /\ Opened(p).phase = "live"
           /\ View(Opened(p), o, h, "open", a, S)
<1> DEFINE t == p.term
           q == Opened(p)
<1>1. /\ Shape(p) /\ Talk(p, o, h, a) /\ t \in Term /\ p.buffered \in Seq(Line)
      /\ Waits(p, t) = p.buffered
  BY DEF View, Shape, Pipe, Waits
<1>2. Queue(p.buffered, o, t, S[t]) /\ At(p, S[t], Rest(p.buffered, o, t))
  BY <1>1 DEF View, Starts
<1>3. /\ q \in Pipe /\ q.phase = "live" /\ q.term = t /\ q.buffered = <<>>
      /\ At(q, S[t], Due(o, t))
  BY <1>1, <1>2, AtOpened
<1> HIDE DEF q
<1>4. Mute(h) /\ LiveLines(o, h) = {} /\ t \in a
  BY <1>1 DEF Talk
<1>5. \A u \in Term : Queue(<<>>, o, u, S[u])
  BY QueueNone DEF View
<1>6. /\ \A i \in DOMAIN o : o[i].kind \in Event => o[i].term \in Term
      /\ h.at = "reply" => h.line.kind \notin Event
  BY DEF View
<1>7. View(q, o, h, "open", a, S)
  BY <1>1, <1>3, <1>4, <1>5, <1>6, ViewLives
<1> QED
  BY <1>3, <1>7 DEF q

\* What an answer finds, and what is left when it is taken.
LEMMA AnswerFinds ==
    ASSUME NEW S \in [Term -> Statuses], NEW p \in Pipe, NEW o \in Seq(Line), o # <<>>,
           NEW h \in Handlers, NEW a, View(p, o, h, "open", a, S), Head(o).kind \notin Event
    PROVE  /\ Talk(p, o, h, a) /\ Shape(p) /\ Talk(p, Tail(o), h, a)
           /\ p.phase \notin {"new", "greeted", "restoring"}
           /\ p.phase \in {"asking", "opening"} => h = Idle /\ Answers(Tail(o)) = {}
           /\ LiveLines(Tail(o), h) \subseteq LiveLines(o, h)
           /\ Mute(h) => \A t \in Term : Queue(<<>>, Tail(o), t, S[t])
           /\ p.phase \in {"asking", "opening"} => LiveLines(Tail(o), Idle) = {}
           /\ \A t \in Term : Queue(Waits(p, t), Tail(o), t, S[t])
           /\ \A i \in DOMAIN Tail(o) : Tail(o)[i].kind \in Event => Tail(o)[i].term \in Term
           /\ h.at = "reply" => h.line.kind \notin Event
           /\ \A t : Due(o, t) = Due(Tail(o), t)
<1>1. Talk(p, o, h, a) /\ Shape(p) /\ (h.at = "reply" => h.line.kind \notin Event)
  BY DEF View
<1>2. Answers(o) # {}
  <2>1. 1 \in DOMAIN o /\ Head(o) = o[1]
    BY TailAt
  <2> QED
    BY <2>1 DEF Answers
<1>3. p.phase \in {"asking", "opening"} => h = Idle /\ Answers(Tail(o)) = {}
  BY <1>1, <1>2, TailAnswers DEF Talk
<1>4. p.phase \notin {"new", "greeted", "restoring"}
  BY <1>1, <1>2 DEF Talk
<1>5. p.phase \in {"asking", "opening"} => LiveLines(Tail(o), Idle) = {}
  BY <1>3, NoAnswers
<1>6. /\ \A t \in Term : Queue(Waits(p, t), Tail(o), t, S[t])
      /\ \A i \in DOMAIN Tail(o) : Tail(o)[i].kind \in Event => Tail(o)[i].term \in Term
  BY TailView
<1>7. \A t \in Term : Queue(<<>>, Tail(o), t, S[t])
  BY <1>6, QueueNone
<1>8. \A t : Due(o, t) = Due(Tail(o), t)
  <2>1. \A t : ~OfTerm(Head(o), t)
    BY DEF OfTerm
  <2>2. <<>> \in Seq(Line)
    OBVIOUS
  <2> QED
    BY <2>1, <2>2, DueTail
<1>9. LiveLines(Tail(o), h) \subseteq LiveLines(o, h) /\ Talk(p, Tail(o), h, a)
  BY <1>1, TailAnswers, TailTalk
<1> QED
  BY <1>1, <1>3, <1>4, <1>5, <1>6, <1>7, <1>8, <1>9

\* A view with no places to go on from.
LEMMA ViewRests ==
    ASSUME NEW S, NEW q \in Pipe, NEW o, NEW h, NEW a, Shape(q), Talk(q, o, h, a),
           q.phase \in {"greeted", "closed"}, \A u \in Term : Queue(<<>>, o, u, S[u]),
           \A i \in DOMAIN o : o[i].kind \in Event => o[i].term \in Term,
           h.at = "reply" => h.line.kind \notin Event
    PROVE  View(q, o, h, "open", a, S)
<1>1. Starts(q, o, h) = {} /\ ~q.failed
  BY DEF Starts, Talk, Shape
<1>2. \A u \in Term : Waits(q, u) = <<>>
  BY DEF Waits, Shape
<1> QED
  BY <1>1, <1>2 DEF View

\* The request was granted.
LEMMA ViewGreeted ==
    ASSUME NEW S \in [Term -> Statuses], NEW p \in Pipe, NEW o \in Seq(Line), o # <<>>,
           NEW h \in Handlers, NEW a, View(p, o, h, "open", a, S), Head(o).kind \notin Event,
           p.phase = "asking", NEW q, q = [p EXCEPT !.phase = "greeted"]
    PROVE  Received(p, q, o, h, a, S)
<1>1. Shape(p) /\ h = Idle /\ Answers(Tail(o)) = {} /\ LiveLines(Tail(o), Idle) = {}
  BY AnswerFinds
<1>2. q \in Pipe /\ q.phase = "greeted" /\ Shape(q)
  BY <1>1 DEF Pipe, Phase, Shape
<1>3. Mute(h)
  BY <1>1 DEF Mute, Idle
<1>4. Talk(q, Tail(o), h, a)
  BY <1>1, <1>2, <1>3 DEF Talk
<1>5. View(q, Tail(o), h, "open", a, S)
  BY <1>2, <1>3, <1>4, AnswerFinds, ViewRests
<1> QED
  BY <1>2, <1>5 DEF Received

\* The request was refused.
LEMMA ViewCloses ==
    ASSUME NEW S \in [Term -> Statuses], NEW p \in Pipe, NEW o \in Seq(Line), o # <<>>,
           NEW h \in Handlers, NEW a, View(p, o, h, "open", a, S), Head(o).kind \notin Event
    PROVE  Received(p, Closed, o, h, a, S)
<1>1. /\ Closed \in Pipe /\ Closed.phase = "closed" /\ Shape(Closed)
  <2> DEFINE nothing == <<>>
  <2>2. nothing \in Seq(Line) /\ nothing = <<>>
    OBVIOUS
  <2> HIDE DEF nothing
  <2>0. NewPipe = [phase |-> "new", term |-> NoTerm, seq |-> 0, shown |-> 0, state |-> NoState,
                   ended |-> FALSE, failed |-> FALSE, buffered |-> nothing]
    BY <2>2 DEF NewPipe
  <2>1. NewPipe \in Pipe
    BY <2>0, <2>2 DEF Pipe, Phase
  <2>5. /\ NewPipe.term = NoTerm /\ NewPipe.buffered = nothing /\ NewPipe.state = NoState
        /\ ~NewPipe.failed /\ ~NewPipe.ended
    BY <2>0
  <2>6. "closed" \in Phase
    BY DEF Phase
  <2> HIDE DEF NewPipe, NoState
  <2>3. Closed \in Pipe
    BY <2>1, <2>6 DEF Pipe, Closed
  <2>4. /\ Closed.phase = "closed" /\ Closed.term = NoTerm /\ Closed.buffered = nothing
        /\ ~Closed.failed /\ ~Closed.ended /\ Closed.state = NoState
    BY <2>1, <2>5 DEF Pipe, Closed
  <2> QED
    BY <2>2, <2>3, <2>4 DEF Shape
<1>2. Mute(h) /\ LiveLines(Tail(o), h) = {}
  <2>1. CASE p.phase = "opening"
    <3>1. h = Idle /\ LiveLines(Tail(o), Idle) = {}
      BY <2>1, AnswerFinds
    <3> QED
      BY <3>1 DEF Mute, Idle
  <2>2. CASE p.phase # "opening"
    BY <2>2, AnswerFinds DEF Talk
  <2> QED
    BY <2>1, <2>2
<1>3. LiveLines(Tail(o), Idle) = {}
  BY <1>2, MuteLines
<1> HIDE DEF Closed
<1>4. Talk(Closed, Tail(o), h, a)
  BY <1>1, <1>2, <1>3 DEF Talk
<1>5. View(Closed, Tail(o), h, "open", a, S)
  BY <1>1, <1>2, <1>4, AnswerFinds, ViewRests
<1> QED
  BY <1>1, <1>5 DEF Received

\* What an answer that says the terminal is live finds.
LEMMA LiveAnswer ==
    ASSUME NEW S \in [Term -> Statuses], NEW p \in Pipe, NEW o \in Seq(Line), o # <<>>,
           NEW h \in Handlers, NEW a, View(p, o, h, "open", a, S), Head(o).kind \in LiveKinds
    PROVE  /\ p.phase = "opening" /\ p.term \in Term /\ p.term \in a /\ h = Idle
           /\ Head(o) \in Line /\ Head(o).kind \notin Event /\ p.buffered \in Seq(Line)
           /\ Offered(p, Head(o)) \in Pipe
           /\ At(Offered(p, Head(o)), S[p.term], Rest(p.buffered, Tail(o), p.term))
           /\ Queue(p.buffered, Tail(o), p.term, S[p.term])
<1> DEFINE e == Head(o)
<1>1. e.kind \notin Event /\ Talk(p, o, h, a) /\ Shape(p) /\ e \in Line
  BY TailAt DEF Event, LiveKinds, View
<1>2. e \in LiveLines(o, h) /\ e \in LiveLines(o, Idle)
  BY TailAnswers
<1>3. p.phase = "opening" /\ p.term \in a
  BY <1>1, <1>2 DEF Talk
<1>4. h = Idle /\ p.term \in Term /\ p.buffered \in Seq(Line)
  BY <1>1, <1>3, AnswerFinds DEF Shape, Pipe
<1>5. Offered(p, e) \in Starts(p, o, h)
  BY <1>2 DEF Starts
<1>6. Offered(p, e) \in Pipe /\ At(Offered(p, e), S[p.term], Rest(p.buffered, o, p.term))
  BY <1>5, StartType DEF View
<1>7. Rest(p.buffered, o, p.term) = Rest(p.buffered, Tail(o), p.term)
  BY <1>1, AnswerFinds DEF Rest
<1>8. Queue(p.buffered, Tail(o), p.term, S[p.term])
  <2>1. Queue(Waits(p, p.term), Tail(o), p.term, S[p.term])
    BY <1>1, <1>4, AnswerFinds
  <2> QED
    BY <2>1 DEF Waits
<1> QED
  BY <1>1, <1>3, <1>4, <1>6, <1>7, <1>8

\* The numbers of a place to go on from.
LEMMA OfferedNumbers ==
    ASSUME NEW p \in Pipe, NEW l
    PROVE  /\ Offered(p, l).seq = l.seq /\ Offered(p, l).shown = l.seq
           /\ l.kind = "header" => Offered(p, l).state = l.state
           /\ Offered(p, l).ended = p.ended /\ Offered(p, l).failed = p.failed
BY DEF Offered, Pipe

\* The snapshot's header: the view goes on from it once it has the snapshot.
LEMMA ViewRestores ==
    ASSUME NEW S \in [Term -> Statuses], NEW p \in Pipe, NEW o \in Seq(Line), o # <<>>,
           NEW h \in Handlers, NEW a, View(p, o, h, "open", a, S), Head(o).kind = "header",
           NEW q, q = [p EXCEPT !.phase = "restoring", !.seq = Head(o).seq, !.shown = Head(o).seq,
                                !.state = Head(o).state]
    PROVE  Received(p, q, o, h, a, S)
<1> DEFINE e == Head(o)
           r == Tail(o)
<1>0. Head(o).kind \in LiveKinds
  BY DEF LiveKinds
<1>1. /\ p.phase = "opening" /\ p.term \in Term /\ p.term \in a /\ h = Idle
      /\ e \in Line /\ e.kind \notin Event
      /\ Offered(p, e) \in Pipe
      /\ At(Offered(p, e), S[p.term], Rest(p.buffered, r, p.term))
  BY <1>0, LiveAnswer
<1>2. /\ q \in Pipe /\ q.phase = "restoring" /\ q.term = p.term /\ q.buffered = p.buffered
      /\ q.seq = e.seq /\ q.shown = e.seq /\ q.state = e.state
      /\ q.failed = p.failed /\ q.ended = p.ended
  <2>1. e.seq \in Nat /\ e.state \in Nat /\ "restoring" \in Phase
    BY <1>1 DEF Line, Phase
  <2> HIDE DEF e
  <2>2. q = [p EXCEPT !.phase = "restoring", !.seq = e.seq, !.shown = e.seq, !.state = e.state]
    BY DEF e
  <2> QED
    BY <2>1, <2>2 DEF Pipe
<1>3. Answers(r) = {} /\ LiveLines(r, Idle) = {} /\ Shape(p)
  BY <1>1, AnswerFinds
<1>4. Shape(q) /\ Mute(h)
  BY <1>1, <1>2, <1>3 DEF Shape, Mute, Idle
<1>5. Talk(q, r, h, a)
  BY <1>1, <1>2, <1>3, <1>4 DEF Talk
<1>6. Starts(q, r, h) = {q}
  BY <1>1, <1>2, <1>3 DEF Starts
<1>7. At(q, S[q.term], Rest(q.buffered, r, q.term))
  <2>1. /\ Offered(p, e).seq = e.seq /\ Offered(p, e).shown = e.seq /\ Offered(p, e).state = e.state
        /\ Offered(p, e).ended = p.ended /\ Offered(p, e).failed = p.failed
    BY OfferedNumbers
  <2> DEFINE m == Offered(p, e)
             R == Rest(p.buffered, r, p.term)
             T == S[p.term]
  <2>2. At(m, T, R)
    BY <1>1
  <2>3. /\ q.seq = m.seq /\ q.shown = m.shown /\ q.state = m.state /\ q.ended = m.ended
        /\ q.failed = m.failed
    BY <1>2, <2>1
  <2> HIDE DEF m, R, T
  <2>4. At(q, T, R)
    BY <2>2, <2>3, AtSame
  <2> QED
    BY <1>2, <2>4 DEF R, T
<1>8. \A t \in Term : Waits(q, t) = Waits(p, t)
  BY <1>2 DEF Waits
<1>9. /\ \A t \in Term : Queue(Waits(p, t), r, t, S[t])
      /\ \A i \in DOMAIN r : r[i].kind \in Event => r[i].term \in Term
      /\ h.at = "reply" => h.line.kind \notin Event
      /\ ~p.failed
  BY <1>1, <1>3, AnswerFinds DEF Shape
<1> HIDE DEF e, r
<1>10. View(q, r, h, "open", a, S)
  BY <1>2, <1>4, <1>5, <1>6, <1>7, <1>8, <1>9 DEF View
<1> QED
  BY <1>2, <1>10 DEF Received, r

\* The replay: the view goes on from it at once.
LEMMA ViewReplayed ==
    ASSUME NEW S \in [Term -> Statuses], NEW p \in Pipe, NEW o \in Seq(Line), o # <<>>,
           NEW h \in Handlers, NEW a, View(p, o, h, "open", a, S), Head(o).kind = "replay"
    PROVE  Received(p, Opened([p EXCEPT !.seq = Head(o).seq, !.shown = Head(o).seq]), o, h, a, S)
<1> DEFINE e == Head(o)
           r == Tail(o)
           t == p.term
           m == Offered(p, e)
           q == Opened(m)
<1>0. Head(o).kind \in LiveKinds
  BY DEF LiveKinds
<1>1. /\ p.phase = "opening" /\ t \in Term /\ t \in a /\ h = Idle
      /\ e \in Line /\ e.kind \notin Event
      /\ m \in Pipe /\ At(m, S[t], Rest(p.buffered, r, t)) /\ Queue(p.buffered, r, t, S[t])
  BY <1>0, LiveAnswer
<1>2. Shape(p) /\ r \in Seq(Line)
  BY <1>1, AnswerFinds, TailAt
<1>3. [p EXCEPT !.seq = e.seq, !.shown = e.seq] = m
  <2>1. p.state = NoState
    BY <1>1, <1>2 DEF Shape
  <2>2. m = [p EXCEPT !.seq = e.seq, !.shown = e.seq, !.state = NoState]
    BY DEF Offered
  <2>3. p = [p EXCEPT !.state = NoState]
    BY <2>1 DEF Pipe
  <2> HIDE DEF e, m
  <2> QED
    BY <2>1, <2>2 DEF Pipe
<1>4. m.buffered = p.buffered /\ m.term = t
  BY DEF Offered, Pipe
<1>5. LiveLines(r, Idle) = {} /\ LiveLines(r, h) = {} /\ Mute(h)
  BY <1>1, AnswerFinds DEF Mute, Idle
<1>6. /\ \A u \in Term : Queue(<<>>, r, u, S[u])
      /\ \A i \in DOMAIN r : r[i].kind \in Event => r[i].term \in Term
      /\ h.at = "reply" => h.line.kind \notin Event
  BY <1>1, <1>5, AnswerFinds
<1> HIDE DEF e, r, m
<1>7. /\ q \in Pipe /\ q.phase = "live" /\ q.term = t /\ q.buffered = <<>>
      /\ At(q, S[t], Due(r, t))
  BY <1>1, <1>2, <1>4, AtOpened
<1> HIDE DEF q
<1>8. View(q, r, h, "open", a, S)
  BY <1>1, <1>2, <1>5, <1>6, <1>7, ViewLives
<1>9. p.phase # "live"
  BY <1>1
<1>10. Received(p, q, o, h, a, S)
  BY <1>7, <1>8, <1>9 DEF Received, r
<1> QED
  BY <1>3, <1>10, Zenon DEF q, e

\* The socket has a line for the view.
LEMMA ViewReceives ==
    ASSUME NEW S \in [Term -> Statuses], NEW p \in Pipe, NEW o \in Seq(Line), o # <<>>,
           NEW h \in Handlers, NEW a, View(p, o, h, "open", a, S)
    PROVE  Received(p, ReceiveLine(p, Head(o)), o, h, a, S)
<1> DEFINE e == Head(o)
<1>1. e \in Line /\ e.kind \in Kinds
  BY TailAt DEF Line
<1>2. CASE e.kind \in Event
  <2>1. e.term \in Term
    BY <1>2, TailView
  <2>2. ReceiveLine(p, e) = ReceiveEvent(p, e)
    BY <1>2 DEF ReceiveLine, Event
  <2>3. OfTerm(e, p.term) <=> e.term = p.term
    BY <1>2 DEF OfTerm
  <2>4. CASE e.term # p.term \/ p.failed
    <3>1. ReceiveEvent(p, e) = p
      BY <2>4 DEF ReceiveEvent
    <3> QED
      BY <2>2, <2>3, <2>4, <3>1, ViewDrops
  <2>5. CASE e.term = p.term /\ ~p.failed /\ p.phase \in {"opening", "restoring"}
    <3>1. ReceiveEvent(p, e) = [p EXCEPT !.buffered = Append(@, e)]
      BY <2>5 DEF ReceiveEvent
    <3> QED
      BY <2>2, <2>3, <2>5, <3>1, ViewWaits
  <2>6. CASE e.term = p.term /\ ~p.failed /\ p.phase \notin {"opening", "restoring"}
    <3>1. ReceiveEvent(p, e) = Schedule(p, e)
      BY <2>6 DEF ReceiveEvent
    <3>2. p.phase = "live"
      BY <2>1, <2>6, NoTermAssumption DEF View, Shape
    <3> QED
      BY <2>2, <2>3, <2>6, <3>1, <3>2, ViewShows
  <2> QED
    BY <2>4, <2>5, <2>6
<1>3. CASE e.kind \notin Event
  <2>1. ReceiveLine(p, e) = ReceiveAnswer(p, e)
    BY <1>3 DEF ReceiveLine, Event
  <2>2. e.kind \in {"ok", "header", "replay", "dead", "error"}
    BY <1>1, <1>3 DEF Kinds, Event
  <2>3. CASE e.kind = "ok" /\ p.phase = "asking"
    <3>1. ReceiveAnswer(p, e) = [p EXCEPT !.phase = "greeted"]
      BY <2>3 DEF ReceiveAnswer
    <3> QED
      BY <1>3, <2>1, <2>3, <3>1, ViewGreeted
  <2>4. CASE e.kind = "ok" /\ p.phase # "asking"
    <3>1. ReceiveAnswer(p, e) = p
      BY <2>4 DEF ReceiveAnswer
    <3>2. ~OfTerm(e, p.term)
      BY <1>3 DEF OfTerm
    <3> QED
      BY <2>1, <3>1, <3>2, ViewDrops
  <2>5. CASE e.kind = "header"
    <3>1. ReceiveAnswer(p, e) = [p EXCEPT !.phase = "restoring", !.seq = e.seq, !.shown = e.seq,
                                          !.state = e.state]
      BY <2>5 DEF ReceiveAnswer
    <3> QED
      BY <2>1, <2>5, <3>1, ViewRestores
  <2>6. CASE e.kind = "replay" /\ ~e.truncated
    <3>1. ReceiveAnswer(p, e) = Opened([p EXCEPT !.seq = e.seq, !.shown = e.seq])
      BY <2>6 DEF ReceiveAnswer
    <3> QED
      BY <2>1, <2>6, <3>1, ViewReplayed
  <2>7. CASE e.kind \in {"dead", "error"} \/ (e.kind = "replay" /\ e.truncated)
    <3>1. ReceiveAnswer(p, e) = Closed
      BY <2>7 DEF ReceiveAnswer
    <3> QED
      BY <1>3, <2>1, <3>1, ViewCloses
  <2> QED
    BY <2>2, <2>3, <2>4, <2>5, <2>6, <2>7
<1> QED
  BY <1>2, <1>3

-----------------------------------------------------------------------------
(* The daemon and its views.                                                *)

Stats == [t \in Term |-> Status(t)]

\* Each pending change is one that a reader thread of its own waits for.
Waiting ==
    /\ \A t \in Term : \A i \in DOMAIN resizes[t] : handler[resizes[t][i].from] = Doing("changing", t)
    /\ \A t, u \in Term : \A i \in DOMAIN resizes[t], j \in DOMAIN resizes[u] :
          resizes[t][i].from = resizes[u][j].from => t = u /\ i = j

\* The inductive invariant of the composition, for one client.
Watch(c) ==
    /\ conn[c] = "open" => c \in clients
    /\ View(pipe[c], outbox[c], handler[c], conn[c], answered[c], Stats)

Watched == Safe /\ pipe \in [Client -> Pipe] /\ Waiting /\ \A c \in Client : Watch(c)

\* The types the proofs below use.
LEMMA WatchTypes ==
    ASSUME Safe
    PROVE  /\ Stats \in [Term -> Statuses] /\ \A t \in Term : Stats[t] = Status(t)
           /\ handler \in [Client -> Handlers] /\ outbox \in [Client -> Seq(Line)]
           /\ conn \in [Client -> {"absent", "open", "shut", "gone"}]
           /\ answered \in [Client -> SUBSET Term]
           /\ io \in [Term -> {"unborn", "loop", "broadcast", "reap", "announce",
                               "forget", "ending", "done"}]
           /\ ring \in [Term -> Rings]
           /\ resizes \in [Term -> Seq([from : Client, what : Changes])]
<1>1. /\ handler \in [Client -> Handlers] /\ outbox \in [Client -> Seq(Line)]
      /\ conn \in [Client -> {"absent", "open", "shut", "gone"}]
      /\ answered \in [Client -> SUBSET Term]
      /\ io \in [Term -> {"unborn", "loop", "broadcast", "reap", "announce",
                          "forget", "ending", "done"}]
      /\ ring \in [Term -> Rings]
      /\ resizes \in [Term -> Seq([from : Client, what : Changes])]
  BY DEF Safe, Typed, TypeOK, Rings
<1>2. ASSUME NEW t \in Term PROVE Status(t) \in Statuses
  <2>1. /\ ring[t].seq \in Nat /\ ring[t].stateSeq \in Nat /\ ring[t].valid \in BOOLEAN
        /\ Late(t) \in {0, 1} /\ (io[t] \in Gone => Late(t) = 0)
    BY <1>1 DEF Rings, Late, Gone
  <2>2. /\ ring[t].seq - Late(t) \in Int /\ ring[t].stateSeq - Late(t) \in Int
        /\ ring[t].seq - Late(t) <= ring[t].seq /\ ring[t].stateSeq - Late(t) <= ring[t].stateSeq
        /\ ring[t].stateSeq = ring[t].stateSeq - Late(t) => ring[t].seq = ring[t].seq - Late(t)
        /\ io[t] \in Gone => ring[t].seq = ring[t].seq - Late(t)
    BY <2>1
  <2> DEFINE over == io[t] \in Gone
             sent == ring[t].seq - Late(t)
             sentState == ring[t].stateSeq - Late(t)
  <2>3. Status(t) = [seq |-> ring[t].seq, state |-> ring[t].stateSeq, sent |-> sent,
                     sentState |-> sentState, over |-> over, valid |-> ring[t].valid]
    BY DEF Status
  <2>4. over \in BOOLEAN
    OBVIOUS
  <2> HIDE DEF over, sent, sentState
  <2>5. /\ sent \in Int /\ sentState \in Int /\ sent <= ring[t].seq /\ sentState <= ring[t].stateSeq
        /\ ring[t].stateSeq = sentState => ring[t].seq = sent
        /\ over => ring[t].seq = sent
    BY <2>2 DEF over, sent, sentState
  <2> QED
    BY <2>1, <2>3, <2>4, <2>5 DEF Statuses
<1> QED
  BY <1>1, <1>2 DEF Stats

-----------------------------------------------------------------------------
(* How far the terminals are.                                               *)

\* The numbers of a terminal, before a step and after it.
LEMMA StatusIs ==
    ASSUME NEW t \in Term
    PROVE  /\ Status(t).seq = ring[t].seq /\ Status(t).state = ring[t].stateSeq
           /\ Status(t).sent = ring[t].seq - Late(t) /\ Status(t).sentState = ring[t].stateSeq - Late(t)
           /\ (Status(t).over <=> io[t] \in Gone) /\ (Status(t).valid <=> ring[t].valid)
           /\ Status(t)'.seq = ring'[t].seq /\ Status(t)'.state = ring'[t].stateSeq
           /\ Status(t)'.sent = ring'[t].seq - Late(t)' /\ Status(t)'.sentState = ring'[t].stateSeq - Late(t)'
           /\ (Status(t)'.over <=> io'[t] \in Gone) /\ (Status(t)'.valid <=> ring'[t].valid)
BY DEF Status

\* A terminal is where it was when its thread is still sending, still not, or
\* still over with.
LEMMA StatusKept ==
    ASSUME NEW t \in Term, ring'[t] = ring[t],
           io'[t] = "broadcast" <=> io[t] = "broadcast", io'[t] \in Gone <=> io[t] \in Gone
    PROVE  Status(t)' = Status(t)
BY DEF Status, Late

\* Where nothing happened nothing is sent.
LEMMA OnwardSame == \A T \in Statuses : Onward(T, T) /\ Silent(T, T)
BY DEF Onward, Silent, Statuses

\* One terminal goes on, in silence.
LEMMA OneSilent ==
    ASSUME Safe, Safe', NEW u \in Term, \A t \in Term \ {u} : Status(t)' = Status(t),
           Onward(Status(u), Status(u)'), Silent(Status(u), Status(u)')
    PROVE  Further(Stats, Stats') /\ \A t \in Term : Silent(Stats[t], Stats'[t])
<1>1. \A t \in Term : Stats[t] \in Statuses /\ Stats[t] = Status(t) /\ Stats'[t] = Status(t)'
  BY WatchTypes DEF Stats
<1> QED
  BY <1>1, OnwardSame DEF Further

\* The terminals are where they were.
LEMMA NoneMoves ==
    ASSUME Safe, Safe', \A t \in Term : Status(t)' = Status(t)
    PROVE  Stats' = Stats /\ Further(Stats, Stats') /\ \A t \in Term : Silent(Stats[t], Stats'[t])
<1>1. \A t \in Term : Stats[t] \in Statuses /\ Stats[t] = Status(t) /\ Stats'[t] = Status(t)'
  BY WatchTypes DEF Stats
<1>2. Stats' = Stats
  BY DEF Stats
<1> QED
  BY <1>1, <1>2, OnwardSame DEF Further

\* A batch takes the next number of both kinds.
LEMMA PushNumbers ==
    ASSUME ring \in [Term -> Rings], NEW t \in Term, Push(t)
    PROVE  /\ ring'[t].seq = ring[t].seq + 1 /\ ring'[t].stateSeq = ring[t].stateSeq + 1
           /\ ring'[t].valid => ring[t].valid
           /\ \A u \in Term \ {t} : ring'[u] = ring[u]
<1>1. PICK size \in Sizes, valid \in {ring[t].valid, ring[t].valid /\ ~VtFails} :
        LET grown == Append(ring[t].chunks, size)
        IN  \E n \in 0..Len(grown) :
              /\ Pops(grown, n)
              /\ ring' = [ring EXCEPT ![t] =
                 [chunks |-> SubSeq(grown, n + 1, Len(grown)),
                  seq |-> @.seq + 1, stateSeq |-> @.stateSeq + 1,
                  truncated |-> @.truncated \/ n > 0, valid |-> valid]]
  BY Zenon DEF Push
<1> DEFINE grown == Append(ring[t].chunks, size)
<1>2. PICK n \in 0..Len(grown) :
        ring' = [ring EXCEPT ![t] =
           [chunks |-> SubSeq(grown, n + 1, Len(grown)),
            seq |-> @.seq + 1, stateSeq |-> @.stateSeq + 1,
            truncated |-> @.truncated \/ n > 0, valid |-> valid]]
  BY <1>1
<1> DEFINE new == [chunks |-> SubSeq(grown, n + 1, Len(grown)),
                   seq |-> ring[t].seq + 1, stateSeq |-> ring[t].stateSeq + 1,
                   truncated |-> ring[t].truncated \/ n > 0, valid |-> valid]
<1>3. new.seq = ring[t].seq + 1 /\ new.stateSeq = ring[t].stateSeq + 1 /\ new.valid = valid
  OBVIOUS
<1>4. ring' = [ring EXCEPT ![t] = new]
  BY <1>2
<1>5. valid => ring[t].valid
  BY <1>1, Zenon
<1> HIDE DEF new, grown
<1>6. ring'[t] = new /\ \A u \in Term \ {t} : ring'[u] = ring[u]
  BY <1>4
<1> QED
  BY <1>3, <1>5, <1>6

\* The I/O thread's steps that send nothing.
QuietStep(u) ==
    \/ Push(u) \/ ChangeSkipped(u) \/ ChangeFails(u) \/ LeaveLoop(u) \/ Unregister(u)
    \/ Forget(u) \/ ThreadEnds(u)

\* They are: the terminals go on in silence.
LEMMA QuietStats ==
    ASSUME Safe, Safe', NEW u \in Term, QuietStep(u)
    PROVE  Further(Stats, Stats') /\ \A t \in Term : Silent(Stats[t], Stats'[t])
<1>1. /\ ring \in [Term -> Rings]
      /\ io \in [Term -> {"unborn", "loop", "broadcast", "reap", "announce",
                          "forget", "ending", "done"}]
  BY WatchTypes
<1>2. CASE ChangeSkipped(u) \/ LeaveLoop(u) \/ Unregister(u) \/ Forget(u) \/ ThreadEnds(u)
  <2>1. ring' = ring
    BY <1>2 DEF ChangeSkipped, LeaveLoop, Unregister, Forget, ThreadEnds
  <2>2. \A t \in Term : (io'[t] = "broadcast" <=> io[t] = "broadcast") /\ (io'[t] \in Gone <=> io[t] \in Gone)
    BY <1>1, <1>2 DEF ChangeSkipped, LeaveLoop, Unregister, Forget, ThreadEnds, Move, Gone
  <2> QED
    BY <2>1, <2>2, StatusKept, NoneMoves
<1>3. CASE Push(u)
  <2>1. io[u] = "loop" /\ io' = [io EXCEPT ![u] = "broadcast"]
    BY <1>3 DEF Push, Move
  <2>3. /\ ring'[u].seq = ring[u].seq + 1 /\ ring'[u].stateSeq = ring[u].stateSeq + 1
        /\ ring'[u].valid => ring[u].valid
        /\ \A t \in Term \ {u} : ring'[t] = ring[t]
    BY <1>1, <1>3, PushNumbers
  <2>4. \A t \in Term \ {u} : Status(t)' = Status(t)
    BY <1>1, <2>1, <2>3, StatusKept
  <2>5. ring[u].seq \in Nat /\ ring[u].stateSeq \in Nat
    BY <1>1 DEF Rings
  <2>6. Late(u) = 0 /\ Late(u)' = 1 /\ io[u] \notin Gone /\ io'[u] \notin Gone
    BY <1>1, <2>1 DEF Late, Gone
  <2>7. Onward(Status(u), Status(u)') /\ Silent(Status(u), Status(u)')
    <3> DEFINE T == Status(u)
               U == Status(u)'
    <3>1. /\ T.seq = ring[u].seq /\ T.state = ring[u].stateSeq /\ T.sent = T.seq /\ T.sentState = T.state
          /\ U.seq = T.seq + 1 /\ U.state = T.state + 1 /\ U.sent = T.seq /\ U.sentState = T.state
          /\ ~T.over /\ ~U.over /\ (U.valid => T.valid)
      BY <2>3, <2>5, <2>6, StatusIs
    <3> HIDE DEF T, U
    <3>2. Onward(T, U) /\ Silent(T, U)
      BY <2>5, <3>1 DEF Onward, Silent
    <3> QED
      BY <3>2 DEF T, U
  <2> QED
    BY <2>4, <2>7, OneSilent
<1>4. CASE ChangeFails(u)
  <2>1. io[u] = "loop" /\ io' = io
    BY <1>4 DEF ChangeFails, Answered
  <2>2. ring' = [ring EXCEPT ![u].valid = FALSE,
                             ![u].stateSeq = IF Head(resizes[u]).what = "resize" THEN @ + 1 ELSE @]
    BY <1>4 DEF ChangeFails
  <2>3. /\ ring'[u].seq = ring[u].seq /\ ring'[u].stateSeq \in {ring[u].stateSeq, ring[u].stateSeq + 1}
        /\ ~ring'[u].valid
        /\ \A t \in Term \ {u} : ring'[t] = ring[t]
    BY <1>1, <2>2 DEF Rings
  <2>4. \A t \in Term \ {u} : Status(t)' = Status(t)
    BY <1>1, <2>1, <2>3, StatusKept
  <2>5. ring[u].seq \in Nat /\ ring[u].stateSeq \in Nat
    BY <1>1 DEF Rings
  <2>6. Late(u) = 0 /\ Late(u)' = 0 /\ io[u] \notin Gone /\ io'[u] \notin Gone
    BY <1>1, <2>1 DEF Late, Gone
  <2>7. Onward(Status(u), Status(u)') /\ Silent(Status(u), Status(u)')
    <3> DEFINE T == Status(u)
               U == Status(u)'
    <3>1. /\ T.seq = ring[u].seq /\ T.state = ring[u].stateSeq /\ T.sent = T.seq /\ T.sentState = T.state
          /\ U.seq = T.seq /\ U.state \in {T.state, T.state + 1} /\ U.sent = T.seq /\ U.sentState = U.state
          /\ ~T.over /\ ~U.over /\ ~U.valid
      BY <2>3, <2>5, <2>6, StatusIs
    <3> HIDE DEF T, U
    <3>2. Onward(T, U) /\ Silent(T, U)
      BY <2>5, <3>1 DEF Onward, Silent
    <3> QED
      BY <3>2 DEF T, U
  <2> QED
    BY <2>4, <2>7, OneSilent
<1> QED
  BY <1>2, <1>3, <1>4 DEF QuietStep

\* What a thread sends is its terminal's next number, or its end.
Sending(u, e, dropped) ==
    /\ Broadcast(u, e, dropped) /\ OfTerm(e, u) /\ Emits(Stats[u], Stats'[u], e)
    /\ Further(Stats, Stats') /\ \A t \in Term \ {u} : Stats'[t] = Stats[t]

\* BroadcastOutput, ChangeApplied and AnnounceExit send one event each.
LEMMA SendingStats ==
    ASSUME Safe, Safe', NEW u \in Term, BroadcastOutput(u) \/ ChangeApplied(u) \/ AnnounceExit(u)
    PROVE  \E e, dropped : Sending(u, e, dropped)
<1>1. /\ ring \in [Term -> Rings]
      /\ io \in [Term -> {"unborn", "loop", "broadcast", "reap", "announce",
                          "forget", "ending", "done"}]
      /\ ring[u].seq \in Nat /\ ring[u].stateSeq \in Nat
      /\ \A t \in Term : Stats[t] = Status(t) /\ Stats[t] \in Statuses /\ Stats'[t] = Status(t)'
  BY WatchTypes DEF Rings, Stats
<1>2. ASSUME \A t \in Term \ {u} : Status(t)' = Status(t), Onward(Status(u), Status(u)'),
             NEW e, NEW dropped, Broadcast(u, e, dropped), e \in Line,
             e.kind \in Event, e.term = u, Emits(Status(u), Status(u)', e)
      PROVE  Sending(u, e, dropped)
  BY <1>1, <1>2, OnwardSame DEF Sending, Further, OfTerm
<1>3. CASE BroadcastOutput(u)
  <2> DEFINE e == Stamped("data", u)
  <2>1. PICK dropped : Broadcast(u, e, dropped)
    BY <1>3 DEF BroadcastOutput
  <2>2. io[u] = "broadcast" /\ io' = [io EXCEPT ![u] = "loop"] /\ ring' = ring
    BY <1>3 DEF BroadcastOutput, Move
  <2>3. \A t \in Term \ {u} : Status(t)' = Status(t)
    BY <1>1, <2>2, StatusKept
  <2>4. Late(u) = 1 /\ Late(u)' = 0 /\ io[u] \notin Gone /\ io'[u] \notin Gone
    BY <1>1, <2>2 DEF Late, Gone
  <2>5. e \in Line /\ e.kind = "data" /\ e.term = u
    BY StampedLine DEF Safe, Typed, Kinds
  <2>6. e.seq = ring[u].seq /\ e.state = ring[u].stateSeq
    BY DEF Stamped, Plain
  <2> HIDE DEF e
  <2>7. Onward(Status(u), Status(u)')
    <3> DEFINE T == Status(u)
               U == Status(u)'
    <3>1. /\ T.seq = ring[u].seq /\ T.state = ring[u].stateSeq /\ U.seq = T.seq /\ U.state = T.state
          /\ T.sent = T.seq - 1 /\ T.sentState = T.state - 1 /\ U.sent = T.seq /\ U.sentState = T.state
          /\ ~T.over /\ (U.valid => T.valid)
      BY <1>1, <2>2, <2>4, StatusIs
    <3> HIDE DEF T, U
    <3>2. Onward(T, U)
      BY <1>1, <3>1 DEF Onward
    <3> QED
      BY <3>2 DEF T, U
  <2>8. Emits(Status(u), Status(u)', e)
    <3> DEFINE T == Status(u)
               U == Status(u)'
    <3>1. ~T.over /\ T.sent = ring[u].seq - 1 /\ T.sentState = ring[u].stateSeq - 1
          /\ U.sent = ring[u].seq /\ U.sentState = ring[u].stateSeq
      BY <1>1, <2>2, <2>4, StatusIs
    <3> HIDE DEF T, U
    <3>2. Emits(T, U, e)
      BY <1>1, <2>5, <2>6, <3>1 DEF Emits, Event, Adds
    <3> QED
      BY <3>2 DEF T, U
  <2>9. Sending(u, e, dropped)
    BY <1>2, <2>1, <2>3, <2>5, <2>7, <2>8 DEF Event
  <2> QED
    BY <2>9
<1>4. CASE ChangeApplied(u)
  <2> DEFINE e == [Stamped("state", u) EXCEPT !.state = @ + 1]
  <2>1. PICK dropped : Broadcast(u, e, dropped)
    BY <1>4 DEF ChangeApplied
  <2>2. io[u] = "loop" /\ io' = io /\ ring' = [ring EXCEPT ![u].stateSeq = @ + 1]
    BY <1>4 DEF ChangeApplied, Answered
  <2>3. /\ ring'[u].seq = ring[u].seq /\ ring'[u].stateSeq = ring[u].stateSeq + 1
        /\ ring'[u].valid = ring[u].valid /\ \A t \in Term \ {u} : ring'[t] = ring[t]
    BY <1>1, <2>2 DEF Rings
  <2>4. \A t \in Term \ {u} : Status(t)' = Status(t)
    BY <1>1, <2>2, <2>3, StatusKept
  <2>5. Late(u) = 0 /\ Late(u)' = 0 /\ io[u] \notin Gone /\ io'[u] \notin Gone
    BY <1>1, <2>2 DEF Late, Gone
  <2>6. Stamped("state", u) \in Line /\ Stamped("state", u).kind = "state" /\ Stamped("state", u).term = u
    BY StampedLine DEF Safe, Typed, Kinds
  <2>7. Stamped("state", u).seq = ring[u].seq /\ Stamped("state", u).state = ring[u].stateSeq
    BY DEF Stamped, Plain
  <2>8. /\ e \in Line /\ e.kind = "state" /\ e.term = u
        /\ e.seq = ring[u].seq /\ e.state = ring[u].stateSeq + 1
    BY <1>1, <2>6, <2>7 DEF Line
  <2> HIDE DEF e
  <2>9. Onward(Status(u), Status(u)')
    BY <1>1, <2>3, <2>5, StatusIs DEF Onward
  <2>10. Emits(Status(u), Status(u)', e)
    BY <1>1, <2>3, <2>5, <2>8, StatusIs DEF Emits, Event, Adds
  <2>11. Sending(u, e, dropped)
    BY <1>2, <2>1, <2>4, <2>8, <2>9, <2>10 DEF Event
  <2> QED
    BY <2>11
<1>5. CASE AnnounceExit(u)
  <2> DEFINE e == Plain("exit", u)
  <2>1. PICK dropped : Broadcast(u, e, dropped)
    BY <1>5 DEF AnnounceExit
  <2>2. io[u] = "announce" /\ io' = [io EXCEPT ![u] = "forget"] /\ ring' = ring
    BY <1>5 DEF AnnounceExit, Move
  <2>3. \A t \in Term \ {u} : Status(t)' = Status(t)
    BY <1>1, <2>2, StatusKept
  <2>4. Late(u) = 0 /\ Late(u)' = 0 /\ io[u] \notin Gone /\ io'[u] \in Gone
    BY <1>1, <2>2 DEF Late, Gone
  <2>5. e \in Line /\ e.kind = "exit" /\ e.term = u
    BY PlainLine DEF Kinds
  <2> HIDE DEF e
  <2>7. Onward(Status(u), Status(u)')
    <3> DEFINE T == Status(u)
               U == Status(u)'
    <3>1. /\ T.seq = ring[u].seq /\ T.state = ring[u].stateSeq /\ U.seq = T.seq /\ U.state = T.state
          /\ T.sent = T.seq /\ T.sentState = T.state /\ U.sent = T.sent /\ U.sentState = T.sentState
          /\ ~T.over /\ (U.valid => T.valid)
      BY <1>1, <2>2, <2>4, StatusIs
    <3> HIDE DEF T, U
    <3>2. Onward(T, U)
      BY <1>1, <3>1 DEF Onward
    <3> QED
      BY <3>2 DEF T, U
  <2>8. Emits(Status(u), Status(u)', e)
    BY <1>1, <2>2, <2>4, <2>5, StatusIs DEF Emits, Event
  <2>9. Sending(u, e, dropped)
    BY <1>2, <2>1, <2>3, <2>5, <2>7, <2>8 DEF Event
  <2> QED
    BY <2>9
<1> QED
  BY <1>3, <1>4, <1>5

-----------------------------------------------------------------------------
(* What the daemon's steps do to a view.                                    *)

\* A view with a place to go on from is of a terminal its client was told is live.
LEMMA StartsTold ==
    ASSUME NEW p, NEW o, NEW h \in Handlers, NEW a, Talk(p, o, h, a), Starts(p, o, h) # {}
    PROVE  \/ p.term \in a
           \/ h.at = "reply" /\ h.line.kind \in LiveKinds /\ h.term = p.term
<1>1. CASE p.phase \in {"restoring", "live"}
  BY <1>1 DEF Talk
<1>2. CASE p.phase \notin {"restoring", "live"}
  <2>1. PICK l : l \in LiveLines(o, h)
    BY <1>2 DEF Starts
  <2>2. CASE l \in {o[i] : i \in DOMAIN o}
    <3>1. l \in LiveLines(o, Idle)
      BY <2>1, <2>2 DEF LiveLines
    <3> QED
      BY <3>1 DEF Talk
  <2>3. CASE l \notin {o[i] : i \in DOMAIN o}
    <3>1. h.at = "reply" /\ l = h.line /\ l.kind \in LiveKinds
      BY <2>1, <2>3 DEF LiveLines
    <3>2. l.term = p.term
      BY <2>1 DEF Talk
    <3> QED
      BY <3>1, <3>2 DEF Handlers
  <2> QED
    BY <2>2, <2>3
<1> QED
  BY <1>1, <1>2

\* The parts of the invariant, for one client.
LEMMA WatchParts ==
    ASSUME Watched, NEW c \in Client
    PROVE  /\ Safe /\ pipe[c] \in Pipe /\ outbox[c] \in Seq(Line) /\ handler[c] \in Handlers
           /\ Stats \in [Term -> Statuses]
           /\ conn[c] = "open" => c \in clients
           /\ View(pipe[c], outbox[c], handler[c], conn[c], answered[c], Stats)
BY WatchTypes DEF Watched, Watch

\* A client an event of a live terminal is sent to is one that views it.
LEMMA TheyHear ==
    ASSUME Watched, NEW c \in Client, NEW u \in Term, Registered(u) \/ io[u] = "announce",
           conn[c] = "open", pipe[c].term = u, Starts(pipe[c], outbox[c], handler[c]) # {}
    PROVE  c \in clients /\ Hears(c, u)
<1>1. c \in clients /\ Talk(pipe[c], outbox[c], handler[c], answered[c]) /\ handler[c] \in Handlers
  BY WatchParts DEF View
<1>2. \/ u \in answered[c]
      \/ handler[c].at = "reply" /\ handler[c].line.kind \in LiveKinds /\ handler[c].term = u
  BY <1>1, StartsTold
<1>3. ToldLive(c, u)
  BY <1>2 DEF ToldLive, Awaits, LiveKinds
<1>4. Pair(c, u)
  BY DEF Watched, Safe
<1> QED
  BY <1>1, <1>3, <1>4 DEF Pair, Hears

\* How far the terminals are after a step.
LEMMA StatsTyped == Safe => Stats \in [Term -> Statuses]
BY WatchTypes

\* The same, of the next state.
LEMMA StatsNext == Safe' => Stats' \in [Term -> Statuses]
<1>1. (Safe => Stats \in [Term -> Statuses])'
  BY StatsTyped, PTL
<1> QED
  BY <1>1

\* What Broadcast does to one client.
LEMMA BroadcastAt ==
    ASSUME NEW u, NEW e, NEW dropped, Broadcast(u, e, dropped), NEW c \in Client
    PROVE  /\ clients' = clients \ dropped /\ dropped \subseteq clients
           /\ c \in dropped => conn'[c] = "shut" /\ outbox'[c] = <<>> /\ answered'[c] = {}
           /\ c \notin dropped => conn'[c] = conn[c] /\ answered'[c] = answered[c]
           /\ c \notin dropped /\ c \in clients /\ Hears(c, u) => outbox'[c] = Append(outbox[c], e)
           /\ c \notin dropped /\ ~(c \in clients /\ Hears(c, u)) => outbox'[c] = outbox[c]
BY DEF Broadcast, Leave, Without

\* A terminal sends an event: every view of it gets it, or is cut off.
LEMMA SentViews ==
    ASSUME Watched, Safe', NEW u \in Term, Registered(u) \/ io[u] = "announce",
           NEW e, NEW dropped, Sending(u, e, dropped), NEW c \in Client
    PROVE  /\ View(pipe[c], outbox'[c], handler[c], conn'[c], answered'[c], Stats')
           /\ conn'[c] = "open" => c \in clients'
<1>1. /\ Stats \in [Term -> Statuses] /\ pipe[c] \in Pipe /\ outbox[c] \in Seq(Line)
      /\ handler[c] \in Handlers /\ (conn[c] = "open" => c \in clients)
      /\ View(pipe[c], outbox[c], handler[c], conn[c], answered[c], Stats)
  BY WatchParts
<1>2. Stats' \in [Term -> Statuses]
  BY StatsNext
<1> DEFINE S == Stats
           U == Stats'
<1>3. /\ Broadcast(u, e, dropped) /\ OfTerm(e, u) /\ Emits(S[u], U[u], e)
      /\ Further(S, U) /\ \A t \in Term \ {u} : U[t] = S[t]
  BY DEF Sending
<1>4. handler[c].at = "reply" => handler[c].line.kind \notin Event
  BY <1>1 DEF View
<1> HIDE DEF U, S
<1>5. /\ S \in [Term -> Statuses] /\ U \in [Term -> Statuses]
      /\ View(pipe[c], outbox[c], handler[c], conn[c], answered[c], S)
  BY <1>1, <1>2 DEF S, U
<1>6. CASE c \in dropped
  <2>1. View(pipe[c], <<>>, handler[c], "shut", {}, U)
    BY <1>1, <1>3, <1>4, <1>5, ViewShut
  <2> QED
    BY <1>3, <1>6, <2>1, BroadcastAt DEF U
<1>7. CASE c \notin dropped /\ c \in clients /\ Hears(c, u)
  <2>1. conn[c] # "absent"
    BY <1>7 DEF Watched, Safe, Pair
  <2>2. View(pipe[c], Append(outbox[c], e), handler[c], conn[c], answered[c], U)
    BY <1>1, <1>3, <1>5, <2>1, ViewSent
  <2>3. /\ outbox'[c] = Append(outbox[c], e) /\ conn'[c] = conn[c] /\ answered'[c] = answered[c]
        /\ c \in clients'
    BY <1>3, <1>7, BroadcastAt
  <2> QED
    BY <2>2, <2>3 DEF U
<1>8. CASE c \notin dropped /\ ~(c \in clients /\ Hears(c, u))
  <2>1. conn[c] = "open" /\ pipe[c].term = u => Starts(pipe[c], outbox[c], handler[c]) = {}
    BY <1>8, TheyHear
  <2>2. View(pipe[c], outbox[c], handler[c], conn[c], answered[c], U)
    BY <1>1, <1>3, <1>5, <2>1, ViewUnsent
  <2> QED
    BY <1>1, <1>3, <1>8, <2>2, BroadcastAt DEF U
<1> QED
  BY <1>6, <1>7, <1>8

-----------------------------------------------------------------------------
(* The I/O thread.                                                          *)

\* The answer to a change, if it was this client's.
LEMMA ChangeAnswered ==
    ASSUME NEW S, NEW p \in Pipe, NEW o \in Seq(Line), NEW h, NEW k, NEW a,
           View(p, o, h, k, a, S), NEW u, NEW g,
           g = h \/ (h = Doing("changing", u) /\ \E answer \in {"ok", "error"} : g = Answer(Plain(answer, u)))
    PROVE  View(p, o, g, k, a, S)
<1>1. CASE g = h
  BY <1>1
<1>2. ASSUME h = Doing("changing", u), NEW answer \in {"ok", "error"}, g = Answer(Plain(answer, u))
      PROVE  View(p, o, g, k, a, S)
  <2>1. /\ g.at = "reply" /\ g.line.kind = answer /\ h.at = "changing" /\ Idle.at = "idle"
    BY <1>2 DEF Answer, Plain, Doing, Idle
  <2>2. Mute(h) /\ Mute(g) /\ h # Idle /\ g # Idle /\ g.line.kind \notin Event
    BY <1>2, <2>1 DEF Mute, LiveKinds, Event
  <2> QED
    BY <2>2, ViewGoesOn
<1> QED
  BY <1>1, <1>2

\* Nobody else waits for the change that is answered, and its client waited.
LEMMA WaitingAnswered ==
    ASSUME Safe, Waiting, NEW u \in Term, NEW answer \in {"ok", "error"}, Answered(u, answer)
    PROVE  /\ Waiting'
           /\ \A c \in Client : \/ handler'[c] = handler[c]
                                \/ /\ handler[c] = Doing("changing", u)
                                   /\ handler'[c] = Answer(Plain(answer, u))
<1> DEFINE q == resizes[u]
           d == Head(q).from
<1>1. /\ handler \in [Client -> Handlers]
      /\ resizes \in [Term -> Seq([from : Client, what : Changes])]
  BY WatchTypes
<1>2. /\ q # <<>> /\ resizes' = [resizes EXCEPT ![u] = Tail(q)]
      /\ handler' = [handler EXCEPT ![d] = Answer(Plain(answer, u))]
  BY DEF Answered
<1>3. q \in Seq([from : Client, what : Changes]) /\ Len(q) \in Nat /\ DOMAIN q = 1..Len(q)
  BY <1>1, LenProperties
<1>4. /\ Head(q) = q[1] /\ 1 \in DOMAIN q /\ q[1] \in [from : Client, what : Changes]
      /\ \A i \in DOMAIN Tail(q) : i \in Nat /\ i >= 1 /\ i + 1 \in DOMAIN q /\ Tail(q)[i] = q[i + 1]
  <2>1. Len(q) > 0
    BY <1>2, <1>3, EmptySeq
  <2>2. Len(Tail(q)) = Len(q) - 1 /\ \A i \in 1..(Len(q) - 1) : Tail(q)[i] = q[i + 1]
    BY <1>2, <1>3, HeadTailProperties
  <2>3. Tail(q) \in Seq([from : Client, what : Changes]) /\ Head(q) = q[1]
    BY <1>2, <1>3, HeadTailProperties
  <2>4. DOMAIN Tail(q) = 1..(Len(q) - 1)
    BY <2>2, <2>3, LenProperties
  <2>5. 1 \in DOMAIN q
    BY <1>3, <2>1
  <2>6. q[1] \in [from : Client, what : Changes]
    BY <1>3, <2>5, ElementOfSeq
  <2>7. \A i \in DOMAIN Tail(q) : i \in Nat /\ i >= 1 /\ i + 1 \in DOMAIN q /\ Tail(q)[i] = q[i + 1]
    BY <1>3, <2>2, <2>4
  <2> QED
    BY <2>3, <2>5, <2>6, <2>7
<1>5. d \in Client /\ handler[d] = Doing("changing", u)
  BY <1>4 DEF Waiting
<1>6. /\ resizes'[u] = Tail(q) /\ \A t \in Term \ {u} : resizes'[t] = resizes[t]
      /\ handler'[d] = Answer(Plain(answer, u)) /\ \A c \in Client \ {d} : handler'[c] = handler[c]
  BY <1>1, <1>2, <1>5
<1>7. /\ \A t \in Term : resizes[t] \in Seq([from : Client, what : Changes])
      /\ \A t \in Term : \A n \in DOMAIN resizes[t] : n \in Nat /\ resizes[t][n].from \in Client
  <2>1. \A t \in Term : resizes[t] \in Seq([from : Client, what : Changes])
    BY <1>1
  <2>2. ASSUME NEW t \in Term, NEW n \in DOMAIN resizes[t]
        PROVE  n \in Nat /\ resizes[t][n].from \in Client
    <3>1. n \in 1..Len(resizes[t]) /\ Len(resizes[t]) \in Nat
      BY <2>1, <2>2, LenProperties
    <3>2. resizes[t][n] \in [from : Client, what : Changes]
      BY <2>1, <3>1, ElementOfSeq
    <3> QED
      BY <3>1, <3>2
  <2> QED
    BY <2>1, <2>2
<1> DEFINE Q == resizes'
           at(w, n) == IF w = u THEN n + 1 ELSE n
<1>8. Q[u] = Tail(q) /\ q = resizes[u] /\ \A t \in Term \ {u} : Q[t] = resizes[t]
  BY <1>6
<1> HIDE DEF q, Q
<1>9. ASSUME NEW t \in Term, NEW i \in DOMAIN Q[t]
      PROVE  /\ i \in Nat /\ at(t, i) \in DOMAIN resizes[t] /\ Q[t][i] = resizes[t][at(t, i)]
             /\ t = u => at(t, i) # 1
  <2>1. CASE t = u
    <3>1. i \in DOMAIN Tail(q) /\ Q[t] = Tail(q)
      BY <1>8, <1>9, <2>1
    <3>2. i \in Nat /\ i >= 1 /\ i + 1 \in DOMAIN q /\ Tail(q)[i] = q[i + 1]
      BY <1>4, <3>1
    <3>3. at(t, i) = i + 1 /\ i + 1 # 1
      BY <2>1, <3>2
    <3> QED
      BY <1>8, <2>1, <3>1, <3>2, <3>3
  <2>2. CASE t # u
    BY <1>7, <1>8, <1>9, <2>2
  <2> QED
    BY <2>1, <2>2
<1> HIDE DEF at
<1>10. ASSUME NEW t \in Term, NEW i \in DOMAIN Q[t]
       PROVE  handler'[Q[t][i].from] = Doing("changing", t)
  <2>1. /\ at(t, i) \in DOMAIN resizes[t] /\ Q[t][i] = resizes[t][at(t, i)]
        /\ t = u => at(t, i) # 1
    BY <1>9
  <2>2. resizes[t][at(t, i)].from # resizes[u][1].from
    BY <1>4, <1>8, <2>1 DEF Waiting
  <2>3. Q[t][i].from \in Client \ {d}
    BY <1>4, <1>7, <1>8, <2>1, <2>2
  <2> QED
    BY <1>6, <2>1, <2>3 DEF Waiting
<1>11. ASSUME NEW t \in Term, NEW v \in Term, NEW i \in DOMAIN Q[t], NEW j \in DOMAIN Q[v],
              Q[t][i].from = Q[v][j].from
       PROVE  t = v /\ i = j
  <2>1. t = v /\ at(t, i) = at(v, j)
    BY <1>9, <1>11 DEF Waiting
  <2>2. i \in Nat /\ j \in Nat
    BY <1>9
  <2> QED
    BY <2>1, <2>2 DEF at
<1>12. Waiting'
  BY <1>10, <1>11 DEF Waiting, Q
<1> QED
  BY <1>5, <1>6, <1>12 DEF q

\* A thread that ends answers whoever waits for it, and no one else.
LEMMA WaitingEnds ==
    ASSUME Safe, Waiting, NEW u \in Term, ThreadEnds(u)
    PROVE  /\ Waiting'
           /\ \A c \in Client : \/ handler'[c] = handler[c]
                                \/ /\ handler[c] = Doing("changing", u)
                                   /\ handler'[c] = Answer(Plain("error", u))
<1>1. /\ handler \in [Client -> Handlers]
      /\ resizes \in [Term -> Seq([from : Client, what : Changes])]
  BY WatchTypes
<1>2. /\ resizes' = [resizes EXCEPT ![u] = <<>>]
      /\ handler' = [c \in Client |-> IF \E i \in DOMAIN resizes[u] : resizes[u][i].from = c
                                      THEN Answer(Plain("error", u)) ELSE handler[c]]
  BY DEF ThreadEnds
<1>3. resizes'[u] = <<>> /\ \A t \in Term \ {u} : resizes'[t] = resizes[t]
  BY <1>1, <1>2
<1>4. \A c \in Client : /\ (\E i \in DOMAIN resizes[u] : resizes[u][i].from = c)
                              => handler'[c] = Answer(Plain("error", u)) /\ handler[c] = Doing("changing", u)
                        /\ ~(\E i \in DOMAIN resizes[u] : resizes[u][i].from = c) => handler'[c] = handler[c]
  BY <1>2 DEF Waiting
<1>5. ASSUME NEW t \in Term, NEW i \in DOMAIN resizes'[t]
      PROVE  /\ t # u /\ i \in DOMAIN resizes[t] /\ resizes'[t] = resizes[t]
             /\ handler'[resizes[t][i].from] = Doing("changing", t)
  <2>1. t # u /\ resizes'[t] = resizes[t] /\ i \in DOMAIN resizes[t]
    BY <1>3, <1>5
  <2>2. resizes[t][i] \in [from : Client, what : Changes]
    BY <1>1, <2>1, LenProperties, ElementOfSeq
  <2>3. ~ \E j \in DOMAIN resizes[u] : resizes[u][j].from = resizes[t][i].from
    BY <2>1 DEF Waiting
  <2> QED
    BY <1>4, <2>1, <2>2, <2>3 DEF Waiting
<1>6. Waiting'
  BY <1>5 DEF Waiting
<1> QED
  BY <1>4, <1>6

\* Whoever does not wait may do something else.
LEMMA WaitingKept ==
    ASSUME Safe, Waiting, resizes' = resizes,
           \A c \in Client : handler[c].at = "changing" => handler'[c] = handler[c]
    PROVE  Waiting'
<1>1. ASSUME NEW t \in Term, NEW i \in DOMAIN resizes[t]
      PROVE  handler'[resizes[t][i].from] = Doing("changing", t)
  <2>1. resizes[t][i] \in [from : Client, what : Changes]
    <3>1. resizes[t] \in Seq([from : Client, what : Changes])
      BY WatchTypes
    <3>2. i \in 1..Len(resizes[t])
      BY <1>1, <3>1, LenProperties
    <3> QED
      BY <3>1, <3>2, ElementOfSeq
  <2>2. handler[resizes[t][i].from] = Doing("changing", t)
    BY DEF Waiting
  <2> QED
    BY <2>1, <2>2 DEF Doing
<1> QED
  BY <1>1 DEF Waiting

-----------------------------------------------------------------------------
(* Every step of the daemon preserves the invariant.                        *)

\* The invariant, after a step, from its parts.
LEMMA WatchedFrom ==
    ASSUME Safe', pipe' \in [Client -> Pipe], Waiting',
           \A c \in Client : /\ View(pipe'[c], outbox'[c], handler'[c], conn'[c], answered'[c], Stats')
                             /\ conn'[c] = "open" => c \in clients'
    PROVE  Watched'
BY DEF Watched, Watch

\* The I/O thread sends nothing.
LEMMA QuietWatched ==
    ASSUME Watched, Safe', NEW u \in Term, QuietStep(u), UNCHANGED pipe
    PROVE  Watched'
<1>1. Further(Stats, Stats') /\ \A t \in Term : Silent(Stats[t], Stats'[t])
  BY QuietStats DEF Watched
<1>2. UNCHANGED <<clients, conn, outbox, answered>>
  BY DEF QuietStep, Push, ChangeSkipped, ChangeFails, LeaveLoop, Unregister, Forget, ThreadEnds,
         clientVars, seen
<1>3. /\ Waiting'
      /\ \A c \in Client :
            \/ handler'[c] = handler[c]
            \/ /\ handler[c] = Doing("changing", u)
               /\ \E answer \in {"ok", "error"} : handler'[c] = Answer(Plain(answer, u))
  <2>1. CASE Push(u) \/ LeaveLoop(u) \/ Unregister(u) \/ Forget(u)
    <3>1. resizes' = resizes /\ handler' = handler
      BY <2>1 DEF Push, LeaveLoop, Unregister, Forget
    <3> QED
      BY <3>1, WaitingKept DEF Watched
  <2>2. CASE ChangeSkipped(u) \/ ChangeFails(u)
    <3>1. PICK answer \in {"ok", "error"} : Answered(u, answer)
      BY <2>2 DEF ChangeSkipped, ChangeFails
    <3> QED
      BY <3>1, WaitingAnswered DEF Watched
  <2>3. CASE ThreadEnds(u)
    BY <2>3, WaitingEnds DEF Watched
  <2> QED
    BY <2>1, <2>2, <2>3 DEF QuietStep
<1>4. ASSUME NEW c \in Client
      PROVE  /\ View(pipe'[c], outbox'[c], handler'[c], conn'[c], answered'[c], Stats')
             /\ conn'[c] = "open" => c \in clients'
  <2>1. /\ Stats \in [Term -> Statuses] /\ pipe[c] \in Pipe /\ outbox[c] \in Seq(Line)
        /\ handler[c] \in Handlers /\ (conn[c] = "open" => c \in clients)
        /\ View(pipe[c], outbox[c], handler[c], conn[c], answered[c], Stats)
    BY WatchParts
  <2>2. Stats' \in [Term -> Statuses]
    BY StatsNext
  <2> DEFINE S == Stats
             U == Stats'
  <2> HIDE DEF S, U
  <2>3. View(pipe[c], outbox[c], handler[c], conn[c], answered[c], U)
    BY <1>1, <2>1, <2>2, ViewOnward DEF S, U
  <2>4. View(pipe[c], outbox[c], handler'[c], conn[c], answered[c], U)
    BY <1>3, <2>1, <2>3, ChangeAnswered
  <2> QED
    BY <1>2, <2>1, <2>4 DEF U
<1> QED
  BY <1>3, <1>4, WatchedFrom DEF Watched

\* The I/O thread sends an event.
LEMMA SendingWatched ==
    ASSUME Watched, Safe', NEW u \in Term,
           BroadcastOutput(u) \/ ChangeApplied(u) \/ AnnounceExit(u), UNCHANGED pipe
    PROVE  Watched'
<1>1. PICK e, dropped : Sending(u, e, dropped)
  BY SendingStats DEF Watched
<1>2. Registered(u) \/ io[u] = "announce"
  BY DEF BroadcastOutput, ChangeApplied, AnnounceExit, Answered, Move, Registered
<1>3. /\ Waiting'
      /\ \A c \in Client :
            \/ handler'[c] = handler[c]
            \/ /\ handler[c] = Doing("changing", u)
               /\ \E answer \in {"ok", "error"} : handler'[c] = Answer(Plain(answer, u))
  <2>1. CASE BroadcastOutput(u) \/ AnnounceExit(u)
    <3>1. resizes' = resizes /\ handler' = handler
      BY <2>1 DEF BroadcastOutput, AnnounceExit
    <3> QED
      BY <3>1, WaitingKept DEF Watched
  <2>2. CASE ChangeApplied(u)
    <3>1. PICK answer \in {"ok", "error"} : Answered(u, answer)
      BY <2>2 DEF ChangeApplied
    <3> QED
      BY <3>1, WaitingAnswered DEF Watched
  <2> QED
    BY <2>1, <2>2
<1>4. ASSUME NEW c \in Client
      PROVE  /\ View(pipe'[c], outbox'[c], handler'[c], conn'[c], answered'[c], Stats')
             /\ conn'[c] = "open" => c \in clients'
  <2>1. /\ View(pipe[c], outbox'[c], handler[c], conn'[c], answered'[c], Stats')
        /\ conn'[c] = "open" => c \in clients'
    BY <1>1, <1>2, SentViews
  <2>2. pipe[c] \in Pipe /\ outbox'[c] \in Seq(Line)
    BY WatchParts DEF Safe, Typed, TypeOK
  <2> DEFINE U == Stats'
             o == outbox'[c]
             k == conn'[c]
             a == answered'[c]
             g == handler'[c]
  <2>3. View(pipe[c], o, handler[c], k, a, U) /\ o \in Seq(Line)
    BY <2>1, <2>2
  <2>4. g = handler[c] \/ (handler[c] = Doing("changing", u) /\ \E answer \in {"ok", "error"} : g = Answer(Plain(answer, u)))
    BY <1>3
  <2> HIDE DEF U, o, k, a, g
  <2>5. View(pipe[c], o, g, k, a, U)
    BY <2>2, <2>3, <2>4, ChangeAnswered
  <2> QED
    BY <2>1, <2>5 DEF U, o, k, a, g
<1> QED
  BY <1>3, <1>4, WatchedFrom DEF Watched

\* The terminals are where they were.
LEMMA StatsSame ==
    ASSUME UNCHANGED <<ring, io>>
    PROVE  Stats' = Stats
BY DEF Stats, Status, Late

\* Connections come and go.
LEMMA SocketWatched ==
    ASSUME Watched, Safe', NEW d \in Client,
           Connect(d) \/ Disconnect(d) \/ StallElapses(d) \/ ReaderEnds(d) \/ Reap, UNCHANGED pipe
    PROVE  Watched'
<1>1. UNCHANGED <<ring, io, resizes, handler>>
  BY DEF Connect, Disconnect, StallElapses, ReaderEnds, Reap, threadVars
<1>2. Waiting' /\ Stats' = Stats
  BY <1>1, WaitingKept, StatsSame DEF Watched
<1>3. /\ Stats \in [Term -> Statuses] /\ conn \in [Client -> {"absent", "open", "shut", "gone"}]
      /\ \A T \in Statuses : Onward(T, T)
  BY WatchTypes, OnwardSame DEF Watched
<1>4. Further(Stats, Stats)
  BY <1>3 DEF Further
<1>5. ASSUME NEW c \in Client
      PROVE  /\ View(pipe[c], outbox'[c], handler[c], conn'[c], answered'[c], Stats)
             /\ conn'[c] = "open" => c \in clients'
  <2>1. /\ pipe[c] \in Pipe /\ outbox[c] \in Seq(Line) /\ (conn[c] = "open" => c \in clients)
        /\ View(pipe[c], outbox[c], handler[c], conn[c], answered[c], Stats)
    BY WatchParts
  <2>2. handler[c].at = "reply" => handler[c].line.kind \notin Event
    BY <2>1 DEF View
  <2>3. \A r \in {outbox[c], <<>>}, l \in {"shut", "gone"} : \A a : View(pipe[c], r, handler[c], l, a, Stats)
    BY <1>3, <1>4, <2>1, <2>2, ViewShut
  <2>4. \/ conn'[c] = conn[c] /\ outbox'[c] = outbox[c] /\ answered'[c] = answered[c]
           /\ (c \in clients' <=> c \in clients)
        \/ /\ conn[c] = "absent" /\ conn'[c] = "open" /\ outbox'[c] = outbox[c]
           /\ answered'[c] = answered[c] /\ c \in clients'
        \/ conn'[c] \in {"shut", "gone"} /\ outbox'[c] \in {outbox[c], <<>>}
    <3>1. CASE StallElapses(d)
      BY <3>1 DEF StallElapses, seen
    <3>2. CASE Connect(d)
      BY <1>3, <3>2 DEF Connect, seen
    <3>3. CASE Disconnect(d)
      BY <1>3, <3>3 DEF Disconnect, seen
    <3>4. CASE ReaderEnds(d)
      BY <3>4 DEF ReaderEnds, Leave, Without
    <3>5. CASE Reap
      BY <3>5 DEF Reap, Leave, Without
    <3> QED
      BY <3>1, <3>2, <3>3, <3>4, <3>5
  <2>5. conn[c] = "absent" => View(pipe[c], outbox[c], handler[c], "open", answered[c], Stats)
    BY <2>1, ViewConnects
  <2> QED
    BY <2>1, <2>3, <2>4, <2>5
<1>6. ASSUME NEW c \in Client
      PROVE  View(pipe'[c], outbox'[c], handler'[c], conn'[c], answered'[c], Stats')
  BY <1>1, <1>2, <1>5
<1> QED
  BY <1>2, <1>5, <1>6, WatchedFrom DEF Watched

-----------------------------------------------------------------------------
(* A reader thread at work.                                                 *)

\* What one client's step does not touch, it does not touch.
LEMMA OthersWatched ==
    ASSUME Watched, Safe', NEW d \in Client, Stats' = Stats, UNCHANGED clients,
           \A c \in Client \ {d} :
               /\ pipe'[c] = pipe[c] /\ outbox'[c] = outbox[c] /\ handler'[c] = handler[c]
               /\ conn'[c] = conn[c] /\ answered'[c] = answered[c],
           pipe' \in [Client -> Pipe], Waiting',
           View(pipe'[d], outbox'[d], handler'[d], conn'[d], answered'[d], Stats),
           conn'[d] \in {"open", "absent"} => conn'[d] = conn[d]
    PROVE  Watched'
<1>1. ASSUME NEW c \in Client
      PROVE  /\ View(pipe'[c], outbox'[c], handler'[c], conn'[c], answered'[c], Stats')
             /\ conn'[c] = "open" => c \in clients'
  <2>1. /\ conn[c] = "open" => c \in clients
        /\ View(pipe[c], outbox[c], handler[c], conn[c], answered[c], Stats)
    BY WatchParts
  <2>2. CASE c = d
    BY <2>1, <2>2
  <2>3. CASE c # d
    BY <2>1, <2>3
  <2> QED
    BY <2>2, <2>3
<1> QED
  BY <1>1, WatchedFrom

\* A ring is read for the answer that says its terminal is live.
LEMMA ReadWatched ==
    ASSUME Watched, Safe', NEW d \in Client, AttachRead(d) \/ Capture(d), UNCHANGED pipe
    PROVE  Watched'
<1> DEFINE h == handler[d]
           g == handler'[d]
<1>1. /\ pipe \in [Client -> Pipe] /\ pipe[d] \in Pipe /\ outbox[d] \in Seq(Line) /\ h \in Handlers
      /\ Stats \in [Term -> Statuses]
      /\ View(pipe[d], outbox[d], h, conn[d], answered[d], Stats)
      /\ \A t \in Term : Stats[t].seq = ring[t].seq /\ Stats[t].state = ring[t].stateSeq
      /\ handler \in [Client -> Handlers]
  BY WatchParts, WatchTypes, StatusIs DEF Watched
<1>2. /\ h.at \in {"attach", "capture"} /\ UNCHANGED <<ring, io, resizes>>
      /\ UNCHANGED <<clients, conn, outbox, answered>>
      /\ \A c \in Client \ {d} : handler'[c] = handler[c]
  BY <1>1 DEF AttachRead, Capture, Begin, threadVars, clientVars, seen
<1>3. h.term \in Term
  BY <1>1, <1>2 DEF Handlers
<1>4. /\ g.at = "reply" /\ g.line.kind \notin Event
      /\ g.line.kind \in LiveKinds =>
             /\ g.line.term = h.term /\ g.line.seq = ring[h.term].seq
             /\ g.line.kind = "header" => g.line.state = ring[h.term].stateSeq
  <2>1. CASE AttachRead(d)
    <3>1. g = Answer(Replay(h.term))
      BY <1>1, <2>1 DEF AttachRead, Begin
    <3>2. /\ g.at = "reply" /\ g.line = Replay(h.term)
      BY <3>1 DEF Answer
    <3>3. Replay(h.term).kind = "replay" /\ Replay(h.term).term = h.term /\ Replay(h.term).seq = ring[h.term].seq
      BY DEF Replay, Stamped, Plain
    <3> QED
      BY <3>2, <3>3 DEF Event
  <2>2. CASE Capture(d)
    <3>1. g \in {Answer(Stamped("header", h.term)), Answer(Plain("error", h.term))}
      BY <1>1, <2>2 DEF Capture, Begin
    <3>2. /\ g.at = "reply" /\ g.line \in {Stamped("header", h.term), Plain("error", h.term)}
      BY <3>1 DEF Answer
    <3>3. /\ Stamped("header", h.term).kind = "header" /\ Stamped("header", h.term).term = h.term
          /\ Stamped("header", h.term).seq = ring[h.term].seq
          /\ Stamped("header", h.term).state = ring[h.term].stateSeq
          /\ Plain("error", h.term).kind = "error"
      BY DEF Stamped, Plain
    <3> QED
      BY <3>2, <3>3 DEF Event, LiveKinds
  <2> QED
    BY <2>1, <2>2
<1>5. View(pipe[d], outbox[d], g, conn[d], answered[d], Stats)
  <2> HIDE DEF g, h
  <2>1. g.line.kind \in LiveKinds =>
             /\ g.line.term = h.term /\ g.line.seq = Stats[h.term].seq
             /\ g.line.kind = "header" => g.line.state = Stats[h.term].state
    BY <1>1, <1>3, <1>4
  <2> QED
    BY <1>1, <1>2, <1>4, <2>1, ViewRead
<1>6. Waiting'
  <2>1. \A c \in Client : handler[c].at = "changing" => handler'[c] = handler[c]
    BY <1>2
  <2> QED
    BY <1>2, <2>1, WaitingKept DEF Watched
<1>7. Stats' = Stats
  BY <1>2, StatsSame
<1>8. View(pipe'[d], outbox'[d], handler'[d], conn'[d], answered'[d], Stats)
  BY <1>2, <1>5
<1>9. \A c \in Client \ {d} :
               /\ pipe'[c] = pipe[c] /\ outbox'[c] = outbox[c] /\ handler'[c] = handler[c]
               /\ conn'[c] = conn[c] /\ answered'[c] = answered[c]
  BY <1>2
<1> QED
  BY <1>1, <1>2, <1>6, <1>7, <1>8, <1>9, OthersWatched

\* A request is answered, or the connection is shut.
LEMMA ReplyWatched ==
    ASSUME Watched, Safe', NEW d \in Client, Reply(d), UNCHANGED pipe
    PROVE  Watched'
<1> DEFINE h == handler[d]
<1>1. /\ pipe \in [Client -> Pipe] /\ pipe[d] \in Pipe /\ outbox[d] \in Seq(Line) /\ h \in Handlers
      /\ Stats \in [Term -> Statuses] /\ (conn[d] = "open" => d \in clients)
      /\ View(pipe[d], outbox[d], h, conn[d], answered[d], Stats)
      /\ handler \in [Client -> Handlers] /\ outbox \in [Client -> Seq(Line)]
      /\ conn \in [Client -> {"absent", "open", "shut", "gone"}] /\ answered \in [Client -> SUBSET Term]
      /\ \A T \in Statuses : Onward(T, T)
  BY WatchParts, WatchTypes, OnwardSame DEF Watched
<1>2. /\ h.at = "reply" /\ UNCHANGED <<ring, io, resizes, clients>>
      /\ handler' = [handler EXCEPT ![d] = Idle]
  BY DEF Reply, Begin, threadVars
<1>3. h.line.kind \notin Event /\ conn[d] # "absent"
  BY <1>1, <1>2 DEF View, Idle
<1>4. Stats' = Stats /\ Further(Stats, Stats)
  BY <1>1, <1>2, StatsSame DEF Further
<1>5. Waiting'
  <2>1. \A c \in Client : handler[c].at = "changing" => handler'[c] = handler[c]
    BY <1>1, <1>2
  <2> QED
    BY <1>2, <2>1, WaitingKept DEF Watched
<1>6. ASSUME NEW l \in {"shut", "gone"} PROVE View(pipe[d], outbox[d], Idle, l, answered[d], Stats)
  <2>1. Idle.at # "reply"
    BY DEF Idle
  <2> HIDE DEF h
  <2>2. /\ Stats \in [Term -> Statuses] /\ Further(Stats, Stats) /\ pipe[d] \in Pipe
        /\ outbox[d] \in Seq(Line) /\ View(pipe[d], outbox[d], h, conn[d], answered[d], Stats)
    BY <1>1, <1>4
  <2> DEFINE g == Idle
             o == outbox[d]
  <2> HIDE DEF g, o
  <2>3. View(pipe[d], o, g, l, answered[d], Stats)
    BY <1>6, <2>1, <2>2, ViewShut DEF g, o
  <2> QED
    BY <2>3 DEF g, o
<1>7. CASE d \in clients /\ CanTake(d) /\ outbox' = [outbox EXCEPT ![d] = Append(@, h.line)]
             /\ answered' = [answered EXCEPT ![d] = IF h.line.kind \in {"replay", "header"}
                                                    THEN @ \cup {h.line.term} ELSE @]
             /\ UNCHANGED conn
  <2> DEFINE b == IF h.line.kind \in {"replay", "header"}
                  THEN answered[d] \cup {h.line.term} ELSE answered[d]
  <2>1. answered[d] \subseteq b /\ (h.line.kind \in LiveKinds => h.line.term \in b)
    BY DEF LiveKinds
  <2>2. answered' = [answered EXCEPT ![d] = b]
    BY <1>7
  <2> HIDE DEF b, h
  <2>3. View(pipe[d], Append(outbox[d], h.line), Idle, conn[d], b, Stats)
    BY <1>1, <1>2, <2>1, ViewReply
  <2>4. View(pipe'[d], outbox'[d], handler'[d], conn'[d], answered'[d], Stats)
    BY <1>1, <1>2, <1>7, <2>2, <2>3
  <2>5. \A c \in Client \ {d} :
               /\ pipe'[c] = pipe[c] /\ outbox'[c] = outbox[c] /\ handler'[c] = handler[c]
               /\ conn'[c] = conn[c] /\ answered'[c] = answered[c]
    BY <1>1, <1>2, <1>7, <2>2
  <2> QED
    BY <1>1, <1>2, <1>4, <1>5, <1>7, <2>4, <2>5, OthersWatched
<1>8. CASE conn' = [conn EXCEPT ![d] = "shut"] /\ UNCHANGED <<outbox, answered>>
  <2>1. View(pipe'[d], outbox'[d], handler'[d], conn'[d], answered'[d], Stats)
    BY <1>1, <1>2, <1>6, <1>8
  <2>2. \A c \in Client \ {d} :
               /\ pipe'[c] = pipe[c] /\ outbox'[c] = outbox[c] /\ handler'[c] = handler[c]
               /\ conn'[c] = conn[c] /\ answered'[c] = answered[c]
    BY <1>1, <1>2, <1>8
  <2>3. conn'[d] = "shut"
    BY <1>1, <1>8
  <2> QED
    BY <1>1, <1>2, <1>4, <1>5, <2>1, <2>2, <2>3, OthersWatched
<1>9. CASE d \notin clients /\ UNCHANGED <<conn, outbox, answered>>
  <2>1. conn[d] \in {"shut", "gone"}
    BY <1>1, <1>3, <1>9
  <2>2. View(pipe'[d], outbox'[d], handler'[d], conn'[d], answered'[d], Stats)
    BY <1>1, <1>2, <1>6, <1>9, <2>1
  <2>3. \A c \in Client \ {d} :
               /\ pipe'[c] = pipe[c] /\ outbox'[c] = outbox[c] /\ handler'[c] = handler[c]
               /\ conn'[c] = conn[c] /\ answered'[c] = answered[c]
    BY <1>1, <1>2, <1>9
  <2> QED
    BY <1>1, <1>2, <1>4, <1>5, <1>9, <2>2, <2>3, OthersWatched
<1> QED
  BY <1>7, <1>8, <1>9 DEF Reply

\* The daemon's steps.
LEMMA DaemonWatched ==
    ASSUME Watched, Safe', DaemonStep
    PROVE  Watched'
<1>1. ASSUME NEW c \in Client, HandlerStep(c), UNCHANGED pipe PROVE Watched'
  BY <1>1, ReadWatched, ReplyWatched DEF HandlerStep
<1>2. ASSUME NEW c \in Client, Connect(c) \/ StallElapses(c) \/ ReaderEnds(c), UNCHANGED pipe
      PROVE  Watched'
  BY <1>2, SocketWatched
<1>3. ASSUME Reap, UNCHANGED pipe PROVE Watched'
  <2>1. stalled # {}
    BY <1>3 DEF Reap
  <2>2. PICK c : c \in Client
    BY <2>1 DEF Watched, Safe, Typed, TypeOK
  <2> QED
    BY <1>3, <2>2, SocketWatched
<1>4. ASSUME NEW t \in Term, IoThread(t), UNCHANGED pipe PROVE Watched'
  <2>1. CASE QuietStep(t)
    BY <1>4, <2>1, QuietWatched
  <2>2. CASE BroadcastOutput(t) \/ ChangeApplied(t) \/ AnnounceExit(t)
    BY <1>4, <2>2, SendingWatched
  <2> QED
    BY <1>4, <2>1, <2>2 DEF IoThread, ApplyChange, Teardown, QuietStep
<1> QED
  BY <1>1, <1>2, <1>3, <1>4 DEF DaemonStep

-----------------------------------------------------------------------------
(* The app's steps.                                                         *)

\* A request is taken by an idle reader thread, and no terminal is anywhere else.
Asked(c, g) ==
    /\ handler[c] = Idle /\ handler' = [handler EXCEPT ![c] = g] /\ g # Idle
    /\ g.at = "reply" => g.line.kind \notin Event \cup LiveKinds
    /\ UNCHANGED <<clients, conn, outbox, answered>> /\ Stats' = Stats

\* The two things a request becomes.
LEMMA RequestStates ==
    ASSUME NEW t
    PROVE  /\ \A kind \in {"ok", "error", "dead"} :
                 /\ Answer(Plain(kind, t)) # Idle /\ Answer(Plain(kind, t)).at = "reply"
                 /\ Answer(Plain(kind, t)).line.kind \notin Event \cup LiveKinds
                 /\ Mute(Answer(Plain(kind, t)))
           /\ \A at \in {"attach", "capture", "changing"} :
                 Doing(at, t) # Idle /\ Doing(at, t).at = at /\ Doing(at, t).term = t
           /\ Mute(Doing("changing", t))
<1>1. ASSUME NEW kind \in {"ok", "error", "dead"}
      PROVE  /\ Answer(Plain(kind, t)) # Idle /\ Answer(Plain(kind, t)).at = "reply"
             /\ Answer(Plain(kind, t)).line.kind \notin Event \cup LiveKinds
             /\ Mute(Answer(Plain(kind, t)))
  <2>1. Answer(Plain(kind, t)).at = "reply" /\ Answer(Plain(kind, t)).line.kind = kind
    BY DEF Answer, Plain
  <2>2. Idle.at = "idle"
    BY DEF Idle
  <2> QED
    BY <1>1, <2>1, <2>2 DEF Mute, Event, LiveKinds
<1>2. ASSUME NEW at \in {"attach", "capture", "changing"}
      PROVE  Doing(at, t) # Idle /\ Doing(at, t).at = at /\ Doing(at, t).term = t
  BY <1>2 DEF Doing, Idle
<1>3. Mute(Doing("changing", t))
  BY DEF Mute, Doing
<1> QED
  BY <1>1, <1>2, <1>3

\* hello and create.
LEMMA GreetAsks ==
    ASSUME Safe, Safe', NEW c \in Client, Hello(c, FALSE) \/ \E t \in Term : Create(c, t)
    PROVE  /\ resizes' = resizes
           /\ \E g : Asked(c, g) /\ Mute(g)
<1>1. /\ handler[c] = Idle /\ UNCHANGED <<ring, resizes, clients, conn, outbox, answered>>
  BY DEF Hello, Create, Ready, threadVars, seen
<1>2. Stats' = Stats
  <2>1. CASE io' = io
    BY <1>1, <2>1, StatsSame
  <2>2. ASSUME NEW t \in Term, io[t] = "unborn", io' = [io EXCEPT ![t] = "loop"]
        PROVE  Stats' = Stats
    <3>1. io \in [Term -> {"unborn", "loop", "broadcast", "reap", "announce",
                           "forget", "ending", "done"}]
      BY WatchTypes
    <3>2. \A u \in Term : (io'[u] = "broadcast" <=> io[u] = "broadcast") /\ (io'[u] \in Gone <=> io[u] \in Gone)
      BY <2>2, <3>1 DEF Gone
    <3>3. \A u \in Term : Status(u)' = Status(u)
      BY <1>1, <3>2, StatusKept
    <3> QED
      BY <3>3, NoneMoves
  <2> QED
    BY <2>1, <2>2 DEF Hello, Create, Move, threadVars
<1>3. PICK kind \in {"ok", "error"}, v \in Term \cup {NoTerm} : handler' = [handler EXCEPT ![c] = Answer(Plain(kind, v))]
  BY DEF Hello, Create, Begin
<1> DEFINE g == Answer(Plain(kind, v))
<1>4. g # Idle /\ (g.at = "reply" => g.line.kind \notin Event \cup LiveKinds) /\ Mute(g)
  BY RequestStates
<1> HIDE DEF g
<1>5. Asked(c, g)
  BY <1>1, <1>2, <1>3, <1>4 DEF Asked, g
<1> QED
  BY <1>1, <1>4, <1>5

\* attach and snapshotBegin.
LEMMA OpenAsks ==
    ASSUME Safe, Safe', NEW c \in Client, NEW t \in Term, SnapshotBegin(c, t) \/ Attach(c, t)
    PROVE  /\ resizes' = resizes
           /\ \E g : Asked(c, g) /\ (g.at \in {"attach", "capture"} => g.term = t)
<1>1. handler[c] = Idle /\ UNCHANGED <<ring, io, resizes, clients, conn, outbox, answered>>
  BY DEF SnapshotBegin, Attach, Ready, threadVars, seen
<1>2. PICK g \in {Doing("attach", t), Doing("capture", t), Answer(Plain("dead", t)), Answer(Plain("error", t))} :
        handler' = [handler EXCEPT ![c] = g]
  BY DEF SnapshotBegin, Attach, Begin
<1>3. /\ g # Idle /\ (g.at = "reply" => g.line.kind \notin Event \cup LiveKinds)
      /\ g.at \in {"attach", "capture"} => g.term = t
  BY RequestStates
<1>4. Stats' = Stats
  BY <1>1, StatsSame
<1>5. Asked(c, g)
  BY <1>1, <1>2, <1>3, <1>4 DEF Asked
<1> QED
  BY <1>1, <1>3, <1>5

\* resize and appearance: the client itself waits for the change it queues.
LEMMA ChangeAsks ==
    ASSUME Safe, Safe', Waiting, NEW c \in Client, NEW t \in Term, NEW what \in Changes, Change(c, t, what)
    PROVE  Waiting' /\ \E g : Asked(c, g) /\ Mute(g)
<1>1. handler[c] = Idle /\ UNCHANGED <<ring, io, clients, conn, outbox, answered>>
  BY DEF Change, Ready, clientVars, seen
<1>2. Stats' = Stats
  BY <1>1, StatsSame
<1>3. \/ handler' = [handler EXCEPT ![c] = Answer(Plain("error", t))] /\ resizes' = resizes
      \/ /\ handler' = [handler EXCEPT ![c] = Doing("changing", t)]
         /\ resizes' = [resizes EXCEPT ![t] = Append(@, [from |-> c, what |-> what])]
  BY DEF Change, Begin
<1>4. /\ handler \in [Client -> Handlers]
      /\ resizes \in [Term -> Seq([from : Client, what : Changes])]
  BY WatchTypes
<1>5. Idle.at = "idle" /\ \A v : Doing("changing", v).at = "changing"
  BY DEF Idle, Doing
<1>6. \E g : Asked(c, g) /\ Mute(g)
  <2>1. PICK g \in {Answer(Plain("error", t)), Doing("changing", t)} : handler' = [handler EXCEPT ![c] = g]
    BY <1>3
  <2>2. g # Idle /\ (g.at = "reply" => g.line.kind \notin Event \cup LiveKinds) /\ Mute(g)
    BY RequestStates
  <2>3. Asked(c, g)
    BY <1>1, <1>2, <2>1, <2>2 DEF Asked
  <2> QED
    BY <2>2, <2>3
<1>7. CASE resizes' = resizes
  <2>1. \A d \in Client : handler[d].at = "changing" => handler'[d] = handler[d]
    BY <1>1, <1>3, <1>4, <1>5
  <2>2. Waiting'
    BY <1>7, <2>1, WaitingKept
  <2> QED
    BY <1>6, <2>2
<1>8. CASE /\ handler' = [handler EXCEPT ![c] = Doing("changing", t)]
           /\ resizes' = [resizes EXCEPT ![t] = Append(@, [from |-> c, what |-> what])]
  <2> DEFINE new == [from |-> c, what |-> what]
             R == [from : Client, what : Changes]
             n == Len(resizes[t]) + 1
             Q == resizes'
             H == handler'
  <2>1. /\ new \in R /\ new.from = c /\ \A u \in Term : resizes[u] \in Seq(R)
    BY <1>4
  <2>2. /\ Q[t] = Append(resizes[t], new) /\ \A u \in Term \ {t} : Q[u] = resizes[u]
        /\ H[c] = Doing("changing", t) /\ \A d \in Client \ {c} : H[d] = handler[d]
    BY <1>4, <1>8
  <2>3. /\ DOMAIN Append(resizes[t], new) = DOMAIN resizes[t] \cup {n} /\ n \notin DOMAIN resizes[t]
        /\ Append(resizes[t], new)[n] = new
        /\ \A i \in DOMAIN resizes[t] : Append(resizes[t], new)[i] = resizes[t][i]
    <3>1. resizes[t] \in Seq(R) /\ new \in R
      BY <2>1
    <3> HIDE DEF new, R
    <3>2. Len(resizes[t]) \in Nat /\ DOMAIN resizes[t] = 1..Len(resizes[t])
      BY <3>1, LenProperties
    <3>3. /\ Append(resizes[t], new) \in Seq(R) /\ Len(Append(resizes[t], new)) = Len(resizes[t]) + 1
          /\ \A i \in 1..Len(resizes[t]) : Append(resizes[t], new)[i] = resizes[t][i]
          /\ Append(resizes[t], new)[Len(resizes[t]) + 1] = new
      BY <3>1, AppendProperties
    <3>4. DOMAIN Append(resizes[t], new) = 1..(Len(resizes[t]) + 1)
      BY <3>3, LenProperties
    <3> QED
      BY <3>2, <3>3, <3>4
  <2>4. ASSUME NEW u \in Term, NEW i \in DOMAIN resizes[u]
        PROVE  resizes[u][i].from \in Client \ {c}
    <3>1. i \in 1..Len(resizes[u])
      BY <2>1, <2>4, LenProperties
    <3>2. resizes[u][i] \in R
      BY <2>1, <3>1, ElementOfSeq
    <3>3. handler[resizes[u][i].from] = Doing("changing", u)
      BY DEF Waiting
    <3> QED
      BY <1>1, <1>5, <3>2, <3>3
  <2>5. ASSUME NEW u \in Term, NEW i \in DOMAIN Q[u]
        PROVE  \/ u = t /\ i = n /\ Q[u][i] = new
               \/ i \in DOMAIN resizes[u] /\ Q[u][i] = resizes[u][i]
    BY <2>2, <2>3, <2>5
  <2> HIDE DEF new, n, Q, H
  <2>6. ASSUME NEW u \in Term, NEW i \in DOMAIN Q[u]
        PROVE  H[Q[u][i].from] = Doing("changing", u)
    BY <2>1, <2>2, <2>4, <2>5, <2>6 DEF Waiting
  <2>7. ASSUME NEW u \in Term, NEW v \in Term, NEW i \in DOMAIN Q[u], NEW j \in DOMAIN Q[v],
               Q[u][i].from = Q[v][j].from
        PROVE  u = v /\ i = j
    <3>1. CASE Q[u][i].from = c
      <4>1. \A w \in Term : \A k \in DOMAIN Q[w] : Q[w][k].from = c => w = t /\ k = n
        <5> SUFFICES ASSUME NEW w \in Term, NEW k \in DOMAIN Q[w], Q[w][k].from = c
                     PROVE  w = t /\ k = n
          OBVIOUS
        <5>1. CASE k \in DOMAIN resizes[w] /\ Q[w][k] = resizes[w][k]
          <6>1. resizes[w][k].from \in Client \ {c}
            BY <2>4, <5>1
          <6> QED
            BY <5>1, <6>1
        <5> QED
          BY <2>5, <5>1
      <4> QED
        BY <2>7, <3>1, <4>1
    <3>2. CASE Q[u][i].from # c
      BY <2>1, <2>5, <2>7, <3>2 DEF Waiting
    <3> QED
      BY <3>1, <3>2
  <2>8. Waiting'
    BY <2>6, <2>7 DEF Waiting, Q, H
  <2> QED
    BY <1>6, <2>8
<1> QED
  BY <1>3, <1>7, <1>8

\* One view asks.
LEMMA AskWatched ==
    ASSUME Watched, Safe', Waiting', NEW c \in Client, NEW g, Asked(c, g), NEW q,
           pipe' = [pipe EXCEPT ![c] = q], q \in Pipe,
           View(q, outbox[c], g, conn[c], answered[c], Stats)
    PROVE  Watched'
<1>1. /\ pipe \in [Client -> Pipe] /\ handler \in [Client -> Handlers]
  BY WatchTypes DEF Watched
<1>2. /\ pipe'[c] = q /\ handler'[c] = g /\ pipe' \in [Client -> Pipe]
      /\ UNCHANGED <<clients, conn, outbox, answered>> /\ Stats' = Stats
      /\ \A d \in Client \ {c} : pipe'[d] = pipe[d] /\ handler'[d] = handler[d]
  BY <1>1 DEF Asked
<1>3. View(pipe'[c], outbox'[c], handler'[c], conn'[c], answered'[c], Stats)
  BY <1>2
<1> QED
  BY <1>2, <1>3, OthersWatched

\* hello, create, a change, or the request that opens the view.
LEMMA AsksWatched ==
    ASSUME Watched, Safe', NEW c \in Client,
           \/ AppHello(c)
           \/ \E t \in Term : AppCreate(c, t) \/ AppOpen(c, t)
           \/ \E what \in Changes : AppChange(c, what)
    PROVE  Watched'
<1> DEFINE p == pipe[c]
<1>1. /\ Safe /\ Waiting /\ p \in Pipe /\ outbox[c] \in Seq(Line)
      /\ Stats \in [Term -> Statuses] /\ handler \in [Client -> Handlers]
      /\ View(p, outbox[c], handler[c], conn[c], answered[c], Stats)
  BY WatchParts, WatchTypes DEF Watched
<1>2. ASSUME p.phase \in {"new", "greeted"}, conn[c] = "open", Waiting', NEW g, Asked(c, g), Mute(g),
             pipe' = [pipe EXCEPT ![c] = [p EXCEPT !.phase = "asking"]]
      PROVE  Watched'
  <2> DEFINE q == [p EXCEPT !.phase = "asking"]
  <2>1. g # Idle /\ (g.at = "reply" => g.line.kind \notin Event \cup LiveKinds)
    BY <1>2 DEF Asked
  <2>2. pipe' = [pipe EXCEPT ![c] = q]
    BY <1>2
  <2> DEFINE o == outbox[c]
             h == handler[c]
             a == answered[c]
             S == Stats
  <2>3. /\ View(p, o, h, "open", a, S) /\ p \in Pipe /\ o \in Seq(Line) /\ S \in [Term -> Statuses]
        /\ p.phase \in {"new", "greeted"}
    BY <1>1, <1>2
  <2> HIDE DEF p, o, h, a, S
  <2>4. q \in Pipe /\ View(q, o, g, "open", a, S)
    BY <1>2, <2>1, <2>3, ViewAsks
  <2> HIDE DEF q
  <2>5. q \in Pipe /\ View(q, outbox[c], g, conn[c], answered[c], Stats)
    BY <1>2, <2>4 DEF o, a, S
  <2> QED
    BY <1>2, <2>2, <2>5, AskWatched
<1>3. CASE AppHello(c) \/ \E t \in Term : AppCreate(c, t)
  <2>1. /\ p.phase \in {"new", "greeted"} /\ conn[c] = "open"
        /\ pipe' = [pipe EXCEPT ![c] = [p EXCEPT !.phase = "asking"]]
        /\ Hello(c, FALSE) \/ \E t \in Term : Create(c, t)
    BY <1>3 DEF AppHello, AppCreate, Send
  <2>2. resizes' = resizes /\ \E g : Asked(c, g) /\ Mute(g)
    BY <1>1, <2>1, GreetAsks
  <2>3. PICK g : Asked(c, g) /\ Mute(g)
    BY <2>2
  <2>4. Waiting'
    <3>1. \A d \in Client : handler[d].at = "changing" => handler'[d] = handler[d]
      BY <1>1, <2>3 DEF Asked, Idle
    <3> QED
      BY <1>1, <2>2, <3>1, WaitingKept
  <2> QED
    BY <1>2, <2>1, <2>3, <2>4
<1>4. ASSUME NEW t \in Term, AppOpen(c, t) PROVE Watched'
  <2> DEFINE q == [p EXCEPT !.phase = "opening", !.term = t]
  <2>1. /\ p.phase = "greeted" /\ conn[c] = "open" /\ pipe' = [pipe EXCEPT ![c] = q]
        /\ SnapshotBegin(c, t) \/ Attach(c, t)
    BY <1>4 DEF AppOpen, Send
  <2>2. resizes' = resizes /\ \E g : Asked(c, g) /\ (g.at \in {"attach", "capture"} => g.term = t)
    BY <1>1, <2>1, OpenAsks
  <2>3. PICK g : Asked(c, g) /\ (g.at \in {"attach", "capture"} => g.term = t)
    BY <2>2
  <2>4. Waiting'
    <3>1. \A d \in Client : handler[d].at = "changing" => handler'[d] = handler[d]
      BY <1>1, <2>3 DEF Asked, Idle
    <3> QED
      BY <1>1, <2>2, <3>1, WaitingKept
  <2>5. g # Idle /\ (g.at = "reply" => g.line.kind \notin Event \cup LiveKinds)
    BY <2>3 DEF Asked
  <2> DEFINE o == outbox[c]
             h == handler[c]
             a == answered[c]
             S == Stats
  <2>6. View(p, o, h, "open", a, S) /\ p \in Pipe /\ o \in Seq(Line) /\ S \in [Term -> Statuses]
    BY <1>1, <2>1
  <2> HIDE DEF p, o, h, a, S
  <2>7. q \in Pipe /\ View(q, o, g, "open", a, S)
    BY <1>4, <2>1, <2>3, <2>5, <2>6, ViewAsks
  <2> HIDE DEF q
  <2>8. q \in Pipe /\ View(q, outbox[c], g, conn[c], answered[c], Stats)
    BY <2>1, <2>7 DEF o, a, S
  <2> QED
    BY <2>1, <2>3, <2>4, <2>8, AskWatched
<1>5. ASSUME NEW what \in Changes, AppChange(c, what) PROVE Watched'
  <2>1. conn[c] = "open"
    BY <1>5 DEF AppChange, Send
  <2>2. CASE Send(c, "live", p) /\ Change(c, p.term, what)
    <3>1. p.phase = "live" /\ pipe' = [pipe EXCEPT ![c] = p] /\ p.term \in Term
      BY <1>1, <2>2 DEF Send, View, Shape
    <3>2. PICK g : Waiting' /\ Asked(c, g) /\ Mute(g)
      BY <1>1, <2>2, <3>1, ChangeAsks
    <3>3. /\ g # Idle /\ (g.at = "reply" => g.line.kind \notin Event) /\ handler[c] = Idle /\ Mute(Idle)
      BY <3>2 DEF Asked, Mute, Idle
    <3>4. View(p, outbox[c], g, conn[c], answered[c], Stats)
      <4> DEFINE i == Idle
      <4>1. View(p, outbox[c], i, conn[c], answered[c], Stats) /\ Mute(i)
        BY <1>1, <3>3
      <4> HIDE DEF i
      <4> QED
        BY <1>1, <2>1, <3>1, <3>2, <3>3, <4>1, ViewGoesOn
    <3> QED
      BY <1>1, <3>1, <3>2, <3>4, AskWatched
  <2>3. CASE /\ Send(c, "greeted", [p EXCEPT !.phase = "asking"])
             /\ \E t \in Term : Change(c, t, what)
    <3>1. /\ p.phase = "greeted" /\ pipe' = [pipe EXCEPT ![c] = [p EXCEPT !.phase = "asking"]]
      BY <2>3 DEF Send
    <3>2. PICK g : Waiting' /\ Asked(c, g) /\ Mute(g)
      BY <1>1, <2>3, ChangeAsks
    <3> QED
      BY <1>2, <2>1, <3>1, <3>2
  <2> QED
    BY <1>5, <2>2, <2>3 DEF AppChange
<1> QED
  BY <1>3, <1>4, <1>5

\* A line is received, the snapshot is imported, or the view is given up.
LEMMA ReadsWatched ==
    ASSUME Watched, Safe', NEW c \in Client, Receive(c) \/ Restored(c) \/ Close(c)
    PROVE  Watched'
<1> DEFINE p == pipe[c]
           o == outbox[c]
           h == handler[c]
           a == answered[c]
<1>1. /\ Safe /\ Waiting /\ p \in Pipe /\ o \in Seq(Line) /\ h \in Handlers
      /\ Stats \in [Term -> Statuses] /\ handler \in [Client -> Handlers]
      /\ View(p, o, h, conn[c], a, Stats) /\ pipe \in [Client -> Pipe]
      /\ outbox \in [Client -> Seq(Line)] /\ conn \in [Client -> {"absent", "open", "shut", "gone"}]
  BY WatchParts, WatchTypes DEF Watched
<1>2. CASE Close(c)
  BY <1>2, SocketWatched DEF Close
<1>3. CASE Receive(c)
  <2>1. /\ UNCHANGED <<ring, io, resizes, handler, clients, answered, conn>> /\ conn[c] = "open" /\ o # <<>>
        /\ outbox' = [outbox EXCEPT ![c] = Tail(o)]
        /\ pipe' = [pipe EXCEPT ![c] = ReceiveLine(p, Head(o))]
    BY <1>3 DEF Receive, Deliver, threadVars, seen
  <2> DEFINE q == ReceiveLine(p, Head(o))
             S == Stats
  <2>2. Stats' = S /\ Waiting'
    BY <1>1, <2>1, StatsSame, WaitingKept
  <2>3. View(p, o, h, "open", a, S)
    BY <1>1, <2>1
  <2> HIDE DEF p, o, h, a, S
  <2>4. Received(p, q, o, h, a, S)
    BY <1>1, <2>1, <2>3, ViewReceives DEF S
  <2> HIDE DEF q
  <2>5. q \in Pipe /\ View(q, Tail(o), h, "open", a, S)
    BY <2>4 DEF Received
  <2>6. /\ pipe'[c] = q /\ outbox'[c] = Tail(o) /\ handler'[c] = h /\ conn'[c] = "open" /\ answered'[c] = a
        /\ pipe' \in [Client -> Pipe]
        /\ \A d \in Client \ {c} : pipe'[d] = pipe[d] /\ outbox'[d] = outbox[d]
    BY <1>1, <2>1, <2>5 DEF h, a, q
  <2>7. View(pipe'[c], outbox'[c], handler'[c], conn'[c], answered'[c], Stats)
    BY <2>5, <2>6 DEF S
  <2> QED
    BY <2>1, <2>2, <2>6, <2>7, OthersWatched DEF S
<1>4. CASE Restored(c)
  <2>1. /\ UNCHANGED <<ring, io, resizes, handler, clients, answered, conn, outbox>> /\ conn[c] = "open"
        /\ p.phase = "restoring" /\ pipe' = [pipe EXCEPT ![c] = Opened(p)]
    BY <1>4 DEF Restored, Send, vars, threadVars, clientVars, seen
  <2> DEFINE q == Opened(p)
             S == Stats
  <2>2. Stats' = S /\ Waiting'
    BY <1>1, <2>1, StatsSame, WaitingKept
  <2>3. View(p, o, h, "open", a, S)
    BY <1>1, <2>1
  <2> HIDE DEF p, o, h, a, S
  <2>4. q \in Pipe /\ View(q, o, h, "open", a, S)
    BY <1>1, <2>1, <2>3, ViewRestored DEF S
  <2> HIDE DEF q
  <2>5. /\ pipe'[c] = q /\ outbox'[c] = o /\ handler'[c] = h /\ conn'[c] = "open" /\ answered'[c] = a
        /\ pipe' \in [Client -> Pipe] /\ \A d \in Client \ {c} : pipe'[d] = pipe[d]
    BY <1>1, <2>1, <2>4 DEF o, h, a, q
  <2>6. View(pipe'[c], outbox'[c], handler'[c], conn'[c], answered'[c], Stats)
    BY <2>4, <2>5 DEF S
  <2> QED
    BY <2>1, <2>2, <2>5, <2>6, OthersWatched DEF S
<1> QED
  BY <1>2, <1>3, <1>4

-----------------------------------------------------------------------------
(* The composition.                                                         *)

\* Every step of the app and the daemon is a step of the daemon, or none.
LEMMA AppStepsDaemon == Watched /\ [AppNext]_appVars => [Next]_vars
<1> SUFFICES ASSUME Watched, [AppNext]_appVars PROVE [Next]_vars
  OBVIOUS
<1>1. CASE DaemonStep
  <2>1. ASSUME NEW c \in Client, HandlerStep(c) \/ Connect(c) \/ StallElapses(c) \/ ReaderEnds(c)
        PROVE  Next
    BY <2>1 DEF Next, Socket
  <2>2. ASSUME NEW t \in Term, IoThread(t) PROVE Next
    BY <2>2 DEF Next
  <2> QED
    BY <1>1, <2>1, <2>2 DEF DaemonStep, Next
<1>2. ASSUME NEW c \in Client, AppStep(c) PROVE [Next]_vars
  <2>1. CASE AppHello(c)
    BY <2>1 DEF AppHello, Next, Request
  <2>2. ASSUME NEW t \in Term, AppCreate(c, t) \/ AppOpen(c, t) PROVE Next
    BY <2>2 DEF AppCreate, AppOpen, Next, Request
  <2>3. ASSUME NEW what \in Changes, AppChange(c, what) PROVE Next
    <3>1. pipe[c].phase = "live" => pipe[c].term \in Term
      BY WatchParts DEF View, Shape
    <3>2. \E t \in Term : Change(c, t, what)
      BY <2>3, <3>1 DEF AppChange, Send
    <3> QED
      BY <3>2 DEF Next, Request
  <2>4. CASE Receive(c) \/ Close(c)
    BY <2>4 DEF Receive, Close, Next, Socket
  <2>5. CASE Restored(c)
    BY <2>5 DEF Restored
  <2> QED
    BY <1>2, <2>1, <2>2, <2>3, <2>4, <2>5 DEF AppStep
<1>3. CASE UNCHANGED appVars
  BY <1>3 DEF appVars
<1> QED
  BY <1>1, <1>2, <1>3 DEF AppNext

\* A view that is still to connect is one nothing was sent to.
LEMMA InitWatched == AppInit => Watched
<1> SUFFICES ASSUME AppInit PROVE Watched
  OBVIOUS
<1>1. Safe
  BY InitTyped, InitPair DEF AppInit, Safe
<1>2. NewPipe \in Pipe
  BY EmptySeq DEF NewPipe, Pipe, Phase, NoState
<1>3. pipe \in [Client -> Pipe] /\ \A c \in Client : pipe[c] = NewPipe
  BY <1>2 DEF AppInit
<1>4. Waiting
  BY DEF AppInit, Init, Waiting
<1>5. ASSUME NEW c \in Client PROVE Watch(c)
  <2>1. /\ conn[c] = "absent" /\ outbox[c] = <<>> /\ handler[c] = Idle
    BY DEF AppInit, Init
  <2>2. Shape(NewPipe) /\ ~NewPipe.failed /\ \A t : Waits(NewPipe, t) = <<>>
    BY DEF Shape, NewPipe, Waits
  <2>3. \A t \in Term : Queue(<<>>, <<>>, t, Stats[t])
    BY DEF Queue
  <2>4. Idle.at # "reply"
    BY DEF Idle
  <2>5. View(NewPipe, <<>>, Idle, "absent", answered[c], Stats)
    BY <2>2, <2>3, <2>4 DEF View
  <2> QED
    BY <1>3, <2>1, <2>5 DEF Watch
<1> QED
  BY <1>1, <1>3, <1>4, <1>5 DEF Watched

\* Every step preserves the invariant.
LEMMA NextWatched == Watched /\ [AppNext]_appVars => Watched'
<1> SUFFICES ASSUME Watched, [AppNext]_appVars PROVE Watched'
  OBVIOUS
<1>1. Safe'
  BY AppStepsDaemon, NextSafe DEF Watched
<1>2. CASE DaemonStep
  BY <1>1, <1>2, DaemonWatched
<1>3. ASSUME NEW c \in Client, AppStep(c) PROVE Watched'
  BY <1>1, <1>3, AsksWatched, ReadsWatched DEF AppStep
<1>4. CASE UNCHANGED appVars
  <2>1. UNCHANGED <<io, ring, resizes, clients, conn, outbox, handler, answered, pipe>>
    BY <1>4 DEF appVars, vars, threadVars, clientVars, seen
  <2>2. Stats' = Stats /\ Waiting'
    BY <2>1, StatsSame DEF Watched, Waiting
  <2>3. \A c \in Client : Watch(c)'
    BY <2>1, <2>2 DEF Watched, Watch
  <2> QED
    BY <1>1, <2>1, <2>2, <2>3 DEF Watched
<1> QED
  BY <1>2, <1>3, <1>4 DEF AppNext

\* In every state of the app and the daemon.
LEMMA AlwaysWatched == AppSpec => []Watched
BY InitWatched, NextWatched, PTL DEF AppSpec

\* A view that opened fails only on a terminal whose parser failed.
THEOREM FailsOnlyWithTheParser ==
    AppSpec => [](\A c \in Client : pipe[c].failed => ~ring[pipe[c].term].valid)
<1>1. Watched => \A c \in Client : pipe[c].failed => ~ring[pipe[c].term].valid
  <2> SUFFICES ASSUME Watched, NEW c \in Client, pipe[c].failed
               PROVE  ~ring[pipe[c].term].valid
    OBVIOUS
  <2>1. Shape(pipe[c]) /\ ~Stats[pipe[c].term].valid
    BY WatchParts DEF View
  <2>2. pipe[c].term \in Term
    BY <2>1 DEF Shape
  <2> QED
    BY <2>1, <2>2, WatchTypes, StatusIs DEF Watched
<1> QED
  BY <1>1, AlwaysWatched, PTL

-----------------------------------------------------------------------------
(* The daemon and its views keep the promise of TerminalView.               *)

\* The refinement mapping: the output, the ends, and the screens.
Output == [t \in Term |-> ring[t].seq]
Ended == {t \in Term : io[t] \notin {"unborn", "loop", "broadcast"}}
ScreenOf(p) == IF p.phase = "live" THEN [term |-> p.term, last |-> p.shown, ended |-> p.ended]
               ELSE NotLive
Screens == [c \in Client |-> ScreenOf(pipe[c])]

\* It is the one of ExactView.
LEMMA ScreensAre == Screens = [c \in Client |->
                IF Live(c)
                THEN [term |-> pipe[c].term, last |-> pipe[c].shown, ended |-> pipe[c].ended]
                ELSE NotLive]
BY DEF Screens, ScreenOf, Live

\* Where nothing is seen to happen, nothing happens.
LEMMA Unseen ==
    ASSUME Output' = Output, Ended' = Ended, Screens' = Screens
    PROVE  UNCHANGED Views!view
BY ScreensAre DEF Views!view, Output, Ended, Screens, ScreenOf, Live

\* The screen of the one view that goes on.
LEMMA OneScreen ==
    ASSUME pipe \in [Client -> Pipe], NEW c \in Client, NEW q, pipe' = [pipe EXCEPT ![c] = q]
    PROVE  Screens' = [Screens EXCEPT ![c] = ScreenOf(q)]
BY DEF Screens

\* A view opens with what a terminal put out so far, or with all of it and its end.
LEMMA SeesOpen ==
    ASSUME Output' = Output, Ended' = Ended, NEW c \in Client, NEW t \in Term, NEW q,
           Screens[c] = NotLive, Screens' = [Screens EXCEPT ![c] = ScreenOf(q)],
           q.phase = "live", q.term = t, q.shown \in 0..ring[t].seq, q.ended \in BOOLEAN,
           q.ended => t \in Ended /\ q.shown = ring[t].seq
    PROVE  Views!Open(c, t)
<1>1. ScreenOf(q) = Views!Showing(t, q.shown, q.ended)
  BY DEF ScreenOf, Views!Showing
<1>2. Output[t] = ring[t].seq
  BY DEF Output
<1>3. q.ended => Views!Complete(t, q.shown)
  BY <1>2 DEF Views!Complete, Output, Ended
<1>4. Screens' = [Screens EXCEPT ![c] = Views!Showing(t, q.shown, q.ended)]
  BY <1>1
<1> QED
  BY <1>2, <1>3, <1>4, ScreensAre DEF Views!Open, Output, Ended, Screens, ScreenOf, Live

\* The steps of TerminalView, of the mapped state.
LEMMA ViewsSteps ==
    ASSUME NEW c \in Client, Output' = Output, Ended' = Ended, Screens[c] # NotLive
    PROVE  /\ /\ Screens[c].last < Output[Screens[c].term] /\ ~Screens[c].ended
              /\ Screens' = [Screens EXCEPT ![c].last = @ + 1]
              => Views!Show(c)
           /\ /\ Screens[c].term \in Ended /\ Screens[c].last = Output[Screens[c].term]
              /\ Screens' = [Screens EXCEPT ![c].ended = TRUE]
              => Views!End(c)
           /\ Screens' = [Screens EXCEPT ![c] = NotLive] => Views!Close(c)
<1>1. /\ Screens[c].last < Output[Screens[c].term] /\ ~Screens[c].ended
      /\ Screens' = [Screens EXCEPT ![c].last = @ + 1]
      => Views!Show(c)
  BY DEF Views!Show, Output, Ended, Screens, ScreenOf, Live
<1>2. /\ Screens[c].term \in Ended /\ Screens[c].last = Output[Screens[c].term]
      /\ Screens' = [Screens EXCEPT ![c].ended = TRUE]
      => Views!End(c)
  BY DEF Views!End, Views!Complete, Output, Ended, Screens, ScreenOf, Live
<1>3. Screens' = [Screens EXCEPT ![c] = NotLive] => Views!Close(c)
  BY DEF Views!Close, Output, Ended, Screens, ScreenOf, Live
<1> QED
  BY <1>1, <1>2, <1>3

\* A view that goes on from p to q shows the next batch, or the end, or nothing new.
LEMMA SeesMove ==
    ASSUME Output' = Output, Ended' = Ended, NEW c \in Client, NEW p, NEW q, NEW T,
           Screens[c] = ScreenOf(p), Screens' = [Screens EXCEPT ![c] = ScreenOf(q)],
           p.phase = "live", q.phase = "live", p.term \in Term, q.term = p.term,
           p.shown \in Nat, p.ended \in BOOLEAN, q.ended \in BOOLEAN, Moves(p, q, T),
           T.seq = Output[p.term], T.over => p.term \in Ended
    PROVE  Views!Show(c) \/ Views!End(c) \/ UNCHANGED Views!view
<1> DEFINE x == [term |-> p.term, last |-> p.shown, ended |-> p.ended]
           y == [term |-> p.term, last |-> q.shown, ended |-> q.ended]
<1>1. Screens[c] = x /\ Screens' = [Screens EXCEPT ![c] = y] /\ Screens[c] # NotLive
  <2>1. x.term = p.term /\ NotLive.term = NoTerm
    BY DEF NotLive
  <2>2. ScreenOf(p) = x /\ ScreenOf(q) = y
    BY DEF ScreenOf
  <2> QED
    BY <2>1, <2>2, NoTermAssumption
<1>2. Screens = [d \in Client |-> Screens[d]]
  BY DEF Screens
<1>3. x.term = p.term /\ x.last = p.shown /\ x.ended = p.ended
  OBVIOUS
<1>4. CASE q.shown = p.shown /\ q.ended = p.ended
  <2>1. y = x
    BY <1>4
  <2>2. Screens' = Screens
    BY <1>1, <1>2, <2>1
  <2> QED
    BY <2>2, Unseen
<1>5. CASE q.shown = p.shown + 1 /\ p.shown < T.seq /\ ~p.ended /\ q.ended = p.ended
  <2>1. y = [x EXCEPT !.last = @ + 1]
    BY <1>5
  <2> DEFINE A == Screens
  <2> HIDE DEF x, y, A
  <2>2. A' = [A EXCEPT ![c].last = @ + 1]
    BY <1>1, <2>1 DEF A
  <2> QED
    BY <1>1, <1>3, <1>5, <2>2, ViewsSteps DEF A
<1>6. CASE q.shown = p.shown /\ q.ended /\ T.over /\ p.shown = T.seq
  <2>1. y = [x EXCEPT !.ended = TRUE]
    <3>1. q.ended = TRUE
      BY <1>6
    <3> DEFINE R == [term : {p.term}, last : {p.shown}, ended : BOOLEAN]
    <3>2. x \in R /\ y \in R /\ y.ended = TRUE
      BY <1>6, <3>1
    <3> HIDE DEF x, y
    <3> QED
      BY <3>2
  <2> DEFINE A == Screens
  <2> HIDE DEF x, y, A
  <2>2. A' = [A EXCEPT ![c].ended = TRUE]
    BY <1>1, <2>1 DEF A
  <2> QED
    BY <1>1, <1>3, <1>6, <2>2, ViewsSteps DEF A
<1> QED
  BY <1>4, <1>5, <1>6 DEF Moves

\* A view is given up.
LEMMA SeesClose ==
    ASSUME Output' = Output, Ended' = Ended, NEW c \in Client, NEW p, NEW q,
           Screens[c] = ScreenOf(p), Screens' = [Screens EXCEPT ![c] = ScreenOf(q)],
           p.phase = "live", q.phase # "live", p.term \in Term
    PROVE  Views!Close(c)
<1>1. ScreenOf(q) = NotLive /\ ScreenOf(p) # NotLive
  <2>1. ScreenOf(p).term = p.term /\ NotLive.term = NoTerm
    BY DEF NotLive, ScreenOf
  <2> QED
    BY <2>1, NoTermAssumption DEF ScreenOf
<1> QED
  BY <1>1, ViewsSteps

\* A terminal puts out a batch.
LEMMA SeesProduce ==
    ASSUME NEW t \in Term, t \notin Ended, Output' = [Output EXCEPT ![t] = @ + 1],
           Ended' = Ended, Screens' = Screens
    PROVE  Views!Produce(t)
BY ScreensAre DEF Views!Produce, Output, Ended, Screens, ScreenOf, Live

\* A terminal ends.
LEMMA SeesFinish ==
    ASSUME NEW t \in Term, Output' = Output, Ended' = Ended \cup {t}, Screens' = Screens
    PROVE  Views!Finish(t)
BY ScreensAre DEF Views!Finish, Output, Ended, Screens, ScreenOf, Live

-----------------------------------------------------------------------------
\* The terminals' output and ends are as they were.
LEMMA SameOutput ==
    ASSUME Safe, \A t \in Term : /\ ring'[t].seq = ring[t].seq
                                 /\ io'[t] \in {"unborn", "loop", "broadcast"}
                                      <=> io[t] \in {"unborn", "loop", "broadcast"}
    PROVE  Output' = Output /\ Ended' = Ended
BY DEF Output, Ended

\* The I/O thread produces a batch, or finishes, or does nothing one sees.
LEMMA ThreadSeen ==
    ASSUME Safe, NEW u \in Term, IoThread(u), UNCHANGED pipe
    PROVE  Views!Produce(u) \/ Views!Finish(u) \/ UNCHANGED Views!view
<1>1. /\ ring \in [Term -> Rings]
      /\ io \in [Term -> {"unborn", "loop", "broadcast", "reap", "announce",
                          "forget", "ending", "done"}]
  BY WatchTypes
<1>2. Screens' = Screens
  BY DEF Screens
<1>3. CASE Push(u)
  <2>1. io[u] = "loop" /\ io' = [io EXCEPT ![u] = "broadcast"]
    BY <1>3 DEF Push, Move
  <2>2. ring'[u].seq = ring[u].seq + 1 /\ \A t \in Term \ {u} : ring'[t] = ring[t]
    BY <1>1, <1>3, PushNumbers
  <2>3. Output' = [Output EXCEPT ![u] = @ + 1]
    BY <2>2 DEF Output
  <2>4. Ended' = Ended /\ u \notin Ended
    BY <1>1, <2>1 DEF Ended
  <2> QED
    BY <1>2, <2>3, <2>4, SeesProduce
<1>4. CASE LeaveLoop(u)
  <2>1. io[u] = "loop" /\ io' = [io EXCEPT ![u] = "reap"] /\ ring' = ring
    BY <1>4 DEF LeaveLoop, Move
  <2>2. Output' = Output
    BY <2>1 DEF Output
  <2>3. Ended' = Ended \cup {u}
    BY <1>1, <2>1 DEF Ended
  <2> QED
    BY <1>2, <2>2, <2>3, SeesFinish
<1>5. CASE BroadcastOutput(u) \/ Unregister(u) \/ Teardown(u)
  <2>1. ring' = ring
    BY <1>5 DEF BroadcastOutput, Unregister, Teardown, AnnounceExit, Forget, ThreadEnds
  <2>2. \A t \in Term : io'[t] \in {"unborn", "loop", "broadcast"} <=> io[t] \in {"unborn", "loop", "broadcast"}
    BY <1>1, <1>5 DEF BroadcastOutput, Unregister, Teardown, AnnounceExit, Forget, ThreadEnds, Move
  <2> QED
    BY <1>2, <2>1, <2>2, SameOutput, Unseen
<1>6. CASE ApplyChange(u)
  <2>1. io' = io
    BY <1>6 DEF ApplyChange, ChangeApplied, ChangeSkipped, ChangeFails
  <2>2. \A t \in Term : ring'[t].seq = ring[t].seq
    <3>1. CASE ChangeApplied(u)
      BY <1>1, <3>1 DEF ChangeApplied, Rings
    <3>2. CASE ChangeSkipped(u)
      BY <3>2 DEF ChangeSkipped
    <3>3. CASE ChangeFails(u)
      BY <1>1, <3>3 DEF ChangeFails, Rings
    <3> QED
      BY <1>6, <3>1, <3>2, <3>3 DEF ApplyChange
  <2> QED
    BY <1>2, <2>1, <2>2, SameOutput, Unseen
<1> QED
  BY <1>3, <1>4, <1>5, <1>6 DEF IoThread

\* A request or a connection changes nothing one sees.
LEMMA RequestSeen ==
    ASSUME Safe, NEW c \in Client,
           \/ Request(c) \/ HandlerStep(c) \/ Socket(c) \/ Reap,
           Screens' = Screens
    PROVE  UNCHANGED Views!view
<1>1. /\ io \in [Term -> {"unborn", "loop", "broadcast", "reap", "announce",
                          "forget", "ending", "done"}]
  BY WatchTypes
<1>2. ring' = ring
  BY DEF Request, Hello, Create, Attach, SnapshotBegin, Change, HandlerStep, AttachRead, Capture, Reply,
         Socket, Connect, Disconnect, Deliver, StallElapses, ReaderEnds, Reap, threadVars
<1>3. \A t \in Term : io'[t] \in {"unborn", "loop", "broadcast"} <=> io[t] \in {"unborn", "loop", "broadcast"}
  <2>1. io' = io \/ \E t \in Term : io[t] = "unborn" /\ io' = [io EXCEPT ![t] = "loop"]
    BY DEF Request, Hello, Create, Move, Attach, SnapshotBegin, Change, HandlerStep, AttachRead, Capture,
           Reply, Socket, Connect, Disconnect, Deliver, StallElapses, ReaderEnds, Reap, threadVars
  <2> QED
    BY <1>1, <2>1
<1> QED
  BY <1>2, <1>3, SameOutput, Unseen

\* What a pipe does on a line or at the end of a snapshot is what a view may do.
LEMMA PipeSeen ==
    ASSUME Watched, UNCHANGED <<ring, io>>, NEW c \in Client, NEW q \in Pipe,
           pipe' = [pipe EXCEPT ![c] = q], NEW o, NEW h, NEW a, View(q, o, h, "open", a, Stats),
           pipe[c].phase = "live" /\ q.phase = "live"
              => q.term = pipe[c].term /\ Moves(pipe[c], q, Stats[pipe[c].term])
    PROVE  \/ Views!Show(c) \/ Views!End(c) \/ Views!Close(c) \/ UNCHANGED Views!view
           \/ \E t \in Term : Views!Open(c, t)
<1> DEFINE p == pipe[c]
<1>1. /\ Safe /\ pipe \in [Client -> Pipe] /\ p \in Pipe /\ Stats \in [Term -> Statuses]
      /\ (p.phase = "live" => p.term \in Term) /\ (q.phase = "live" => q.term \in Term)
      /\ ring \in [Term -> Rings]
  BY WatchParts, WatchTypes DEF Watched, View, Shape
<1>2. Output' = Output /\ Ended' = Ended
  BY DEF Output, Ended
<1>3. Screens' = [Screens EXCEPT ![c] = ScreenOf(q)] /\ Screens[c] = ScreenOf(p)
  BY <1>1, OneScreen DEF Screens
<1>4. \A t \in Term : /\ Stats[t].seq = ring[t].seq /\ Stats[t].seq \in Nat /\ Output[t] = ring[t].seq
                      /\ Stats[t].over => t \in Ended
  <2> SUFFICES ASSUME NEW t \in Term
               PROVE  /\ Stats[t].seq = ring[t].seq /\ Stats[t].seq \in Nat /\ Output[t] = ring[t].seq
                      /\ Stats[t].over => t \in Ended
    OBVIOUS
  <2>1. Stats[t] = Status(t)
    BY DEF Stats
  <2>2. Status(t).seq = ring[t].seq /\ (Status(t).over <=> io[t] \in Gone)
    BY StatusIs
  <2>3. ring[t].seq \in Nat
    BY <1>1 DEF Rings
  <2> QED
    BY <2>1, <2>2, <2>3 DEF Output, Ended, Gone
<1> DEFINE S == Stats
<1>5. p.shown \in Nat /\ p.ended \in BOOLEAN /\ q.shown \in Nat /\ q.ended \in BOOLEAN
  BY <1>1 DEF Pipe
<1> HIDE DEF p, S
<1>6. CASE p.phase = "live" /\ q.phase = "live"
  BY <1>1, <1>2, <1>3, <1>4, <1>5, <1>6, SeesMove DEF p
<1>7. CASE p.phase = "live" /\ q.phase # "live"
  BY <1>1, <1>2, <1>3, <1>7, SeesClose
<1>8. CASE p.phase # "live" /\ q.phase # "live"
  <2>1. ScreenOf(p) = NotLive /\ ScreenOf(q) = NotLive
    BY <1>8 DEF ScreenOf
  <2>2. Screens' = Screens
    BY <1>3, <2>1 DEF Screens
  <2> QED
    BY <1>2, <2>2, Unseen
<1>9. CASE p.phase # "live" /\ q.phase = "live"
  <2>1. q \in Starts(q, o, h)
    BY <1>9 DEF Starts
  <2>2. At(q, S[q.term], Rest(q.buffered, o, q.term)) /\ q.term \in Term
    BY <1>1, <1>9, <2>1 DEF View, S
  <2>3. /\ q.shown \in 0..ring[q.term].seq
        /\ q.ended => q.term \in Ended /\ q.shown = ring[q.term].seq
    <3>1. q.shown = q.seq /\ q.seq <= S[q.term].seq /\ (q.ended => S[q.term].over /\ q.seq = S[q.term].seq)
      BY <2>2 DEF At
    <3>2. S[q.term].seq = ring[q.term].seq /\ ring[q.term].seq \in Nat /\ (S[q.term].over => q.term \in Ended)
      BY <1>4, <2>2 DEF S
    <3> QED
      BY <1>5, <3>1, <3>2
  <2>4. Screens[c] = NotLive
    BY <1>3, <1>9 DEF ScreenOf
  <2>5. Views!Open(c, q.term)
    BY <1>2, <1>3, <1>5, <1>9, <2>2, <2>3, <2>4, SeesOpen
  <2> QED
    BY <2>2, <2>5
<1> QED
  BY <1>6, <1>7, <1>8, <1>9

\* A view that asks for something, or is given up, shows what it showed.
LEMMA AskSeen ==
    ASSUME Watched, NEW c \in Client,
           \/ AppHello(c)
           \/ \E t \in Term : AppCreate(c, t) \/ AppOpen(c, t)
           \/ \E what \in Changes : AppChange(c, what)
           \/ Close(c)
    PROVE  UNCHANGED Views!view
<1>1. pipe \in [Client -> Pipe] /\ (pipe[c].phase = "live" => pipe[c].term \in Term)
  BY WatchParts DEF Watched, View, Shape
<1>2. Screens' = Screens
  <2>1. ASSUME NEW q, pipe[c].phase # "live", q.phase # "live", pipe' = [pipe EXCEPT ![c] = q]
        PROVE  Screens' = Screens
    BY <1>1, <2>1, OneScreen DEF Screens, ScreenOf
  <2>2. CASE AppHello(c) \/ \E t \in Term : AppCreate(c, t)
    <3>1. /\ pipe[c].phase # "live" /\ pipe' = [pipe EXCEPT ![c] = [pipe[c] EXCEPT !.phase = "asking"]]
      BY <2>2 DEF AppHello, AppCreate, Send
    <3>2. [pipe[c] EXCEPT !.phase = "asking"].phase = "asking"
      BY <1>1 DEF Pipe
    <3> QED
      BY <2>1, <3>1, <3>2
  <2>3. ASSUME NEW t \in Term, AppOpen(c, t) PROVE Screens' = Screens
    <3>1. /\ pipe[c].phase # "live"
          /\ pipe' = [pipe EXCEPT ![c] = [pipe[c] EXCEPT !.phase = "opening", !.term = t]]
      BY <2>3 DEF AppOpen, Send
    <3>2. [pipe[c] EXCEPT !.phase = "opening", !.term = t].phase = "opening"
      BY <1>1 DEF Pipe
    <3> QED
      BY <2>1, <3>1, <3>2
  <2>4. ASSUME NEW what \in Changes, AppChange(c, what) PROVE Screens' = Screens
    <3>1. CASE pipe' = [pipe EXCEPT ![c] = pipe[c]]
      BY <1>1, <3>1 DEF Screens
    <3>2. CASE pipe[c].phase # "live" /\ pipe' = [pipe EXCEPT ![c] = [pipe[c] EXCEPT !.phase = "asking"]]
      <4>1. [pipe[c] EXCEPT !.phase = "asking"].phase = "asking"
        BY <1>1 DEF Pipe
      <4> QED
        BY <2>1, <3>2, <4>1
    <3> QED
      BY <2>4, <3>1, <3>2 DEF AppChange, Send
  <2>5. CASE Close(c)
    BY <2>5 DEF Close, Screens
  <2> QED
    BY <2>2, <2>3, <2>4, <2>5
<1>3. Request(c) \/ Socket(c)
  <2>1. ASSUME NEW what \in Changes, AppChange(c, what) PROVE Request(c)
    <3>1. \E t \in Term : Change(c, t, what)
      BY <1>1, <2>1 DEF AppChange, Send
    <3> QED
      BY <3>1 DEF Request
  <2> QED
    BY <2>1 DEF AppHello, AppCreate, AppOpen, Close, Request, Socket
<1> QED
  BY <1>2, <1>3, RequestSeen DEF Watched

\* Every step of the app and the daemon is one that TerminalView allows, or one
\* that changes nothing a view shows.
LEMMA StepsSeen == Watched /\ [AppNext]_appVars => [Views!Next]_Views!view
<1> SUFFICES ASSUME Watched, [AppNext]_appVars PROVE [Views!Next]_Views!view
  OBVIOUS
<1>1. Safe
  BY DEF Watched
<1>2. CASE DaemonStep
  <2>1. Screens' = Screens
    BY <1>2 DEF DaemonStep, Screens
  <2>2. ASSUME NEW c \in Client, HandlerStep(c) \/ Connect(c) \/ StallElapses(c) \/ ReaderEnds(c)
        PROVE  UNCHANGED Views!view
    BY <1>1, <2>1, <2>2, RequestSeen DEF Socket
  <2>3. ASSUME Reap PROVE UNCHANGED Views!view
    <3>1. stalled # {}
      BY <2>3 DEF Reap
    <3>2. PICK c : c \in Client
      BY <1>1, <3>1 DEF Safe, Typed, TypeOK
    <3> QED
      BY <1>1, <2>1, <2>3, <3>2, RequestSeen
  <2>4. ASSUME NEW t \in Term, IoThread(t) PROVE [Views!Next]_Views!view
    <3>1. Views!Produce(t) \/ Views!Finish(t) \/ UNCHANGED Views!view
      BY <1>1, <1>2, <2>4, ThreadSeen DEF DaemonStep
    <3> QED
      BY <3>1 DEF Views!Next
  <2> QED
    BY <1>2, <2>2, <2>3, <2>4 DEF DaemonStep
<1>3. ASSUME NEW c \in Client, AppStep(c) PROVE [Views!Next]_Views!view
  <2>1. CASE Receive(c) \/ Restored(c)
    <3>1. \/ Views!Show(c) \/ Views!End(c) \/ Views!Close(c) \/ UNCHANGED Views!view
          \/ \E t \in Term : Views!Open(c, t)
      <4> DEFINE p == pipe[c]
                 o == outbox[c]
                 h == handler[c]
                 a == answered[c]
                 S == Stats
      <4>1. /\ p \in Pipe /\ o \in Seq(Line) /\ h \in Handlers /\ S \in [Term -> Statuses]
            /\ View(p, o, h, conn[c], a, S)
        BY WatchParts
      <4>2. CASE Receive(c)
        <5>1. /\ UNCHANGED <<ring, io>> /\ conn[c] = "open" /\ o # <<>>
              /\ pipe' = [pipe EXCEPT ![c] = ReceiveLine(p, Head(o))]
          BY <4>2 DEF Receive, Deliver, threadVars
        <5> DEFINE q == ReceiveLine(p, Head(o))
        <5>2. View(p, o, h, "open", a, S)
          BY <4>1, <5>1
        <5> HIDE DEF p, o, h, a, S
        <5>3. Received(p, q, o, h, a, S)
          BY <4>1, <5>1, <5>2, ViewReceives
        <5> HIDE DEF q
        <5>4. /\ q \in Pipe /\ View(q, Tail(o), h, "open", a, S) /\ pipe' = [pipe EXCEPT ![c] = q]
              /\ pipe[c].phase = "live" /\ q.phase = "live"
                   => q.term = pipe[c].term /\ Moves(pipe[c], q, Stats[pipe[c].term])
          BY <5>1, <5>3 DEF Received, p, q, S
        <5> QED
          BY <5>1, <5>4, PipeSeen DEF S
      <4>3. CASE Restored(c)
        <5>1. /\ UNCHANGED <<ring, io>> /\ conn[c] = "open" /\ p.phase = "restoring"
              /\ pipe' = [pipe EXCEPT ![c] = Opened(p)]
          BY <4>3 DEF Restored, Send, vars, threadVars
        <5> DEFINE q == Opened(p)
        <5>2. View(p, o, h, "open", a, S)
          BY <4>1, <5>1
        <5> HIDE DEF p, o, h, a, S
        <5>3. q \in Pipe /\ View(q, o, h, "open", a, S)
          BY <4>1, <5>1, <5>2, ViewRestored
        <5> HIDE DEF q
        <5>4. pipe' = [pipe EXCEPT ![c] = q] /\ pipe[c].phase # "live"
          BY <5>1 DEF q, p
        <5> QED
          BY <5>1, <5>3, <5>4, PipeSeen DEF S
      <4> QED
        BY <2>1, <4>2, <4>3
    <3> QED
      BY <3>1 DEF Views!Next
  <2>2. CASE \/ AppHello(c)
             \/ \E t \in Term : AppCreate(c, t) \/ AppOpen(c, t)
             \/ \E what \in Changes : AppChange(c, what)
             \/ Close(c)
    BY <2>2, AskSeen
  <2> QED
    BY <1>3, <2>1, <2>2 DEF AppStep
<1>4. CASE UNCHANGED appVars
  <2>1. UNCHANGED <<ring, io, pipe>>
    BY <1>4 DEF appVars, vars, threadVars
  <2>2. Output' = Output /\ Ended' = Ended /\ Screens' = Screens
    BY <2>1 DEF Output, Ended, Screens
  <2> QED
    BY <2>2, Unseen
<1> QED
  BY <1>2, <1>3, <1>4 DEF AppNext

\* No terminal and no view.
LEMMA InitSeen == AppInit => Views!Init
<1> SUFFICES ASSUME AppInit PROVE Views!Init
  OBVIOUS
<1>1. /\ ring = [t \in Term |-> NewRing] /\ io = [t \in Term |-> "unborn"]
      /\ pipe = [c \in Client |-> NewPipe]
  BY DEF AppInit, Init
<1>2. NewRing.seq = 0 /\ NewPipe.phase = "new"
  BY DEF NewRing, NewPipe
<1>3. /\ Output = [t \in Term |-> 0] /\ Ended = {} /\ Screens = [c \in Client |-> NotLive]
  BY <1>1, <1>2 DEF Output, Ended, Screens, ScreenOf
<1> QED
  BY <1>3, ScreensAre DEF Views!Init, Output, Ended, Screens

\* The daemon and the pipe together keep the promise of TerminalView.
THEOREM ViewsKeepPromise == AppSpec => ExactView
BY InitSeen, StepsSeen, AlwaysWatched, PTL DEF AppSpec, ExactView, Views!Spec
=============================================================================
