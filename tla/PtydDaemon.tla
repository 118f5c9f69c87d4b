----------------------------- MODULE PtydDaemon -----------------------------
(***************************************************************************)
(* The PTY daemon's fan-out of terminal output: its registry of terminals, *)
(* each with one I/O thread and a ring of recent output; its list of       *)
(* clients, each with a bounded outbox and a reader thread that handles    *)
(* its requests one at a time; and the locks the two share.                *)
(*                                                                         *)
(* A step is one critical section: `terms`, `clients` and a ring's mutex   *)
(* are taken and released inside it, except for `attach`, which keeps      *)
(* `terms` across two sections (handler state "attach").  Line sizes are   *)
(* one unit each, so what a client owes is the length of its outbox.       *)
(* Encodings, spawning, geometry values and the input path are left out;   *)
(* pauses are in PtydFlow, kill and the wake pipe in PtydTeardown.         *)
(***************************************************************************)
EXTENDS Integers, Sequences, FiniteSets, Functions

CONSTANTS
    Client,      \* connections; a reconnect is another connection
    Term,        \* terminal ids, never reused
    NoTerm,      \* the term of an answer that names none
    RingMax,     \* RING_MAX, in units of chunk size
    OutboxMax,   \* OUTBOX_MAX, in lines
    QueueMax,    \* the limit on a terminal's pending state changes (64)
    Sizes,       \* the sizes a batch of output may have
    MaxSeq,      \* bound of the model: batches a terminal emits
    MaxState,    \* bound of the model: state numbers of a terminal
    VtFails      \* whether the VT parser may fail

ASSUME BoundsAssumption ==
    /\ RingMax \in Nat /\ OutboxMax \in Nat /\ QueueMax \in Nat
    /\ Sizes \subseteq Nat
    /\ MaxSeq \in Nat /\ MaxState \in Nat
    /\ VtFails \in BOOLEAN

ASSUME NoTermAssumption == NoTerm \notin Term

VARIABLES
    io,          \* where each terminal's I/O thread is
    ring,        \* each terminal's Ring
    resizes,     \* each terminal's pending state changes
    clients,     \* the connections in the daemon's list
    conn,        \* each connection's socket
    hearsAll,    \* whether a client hears every terminal
    terminals,   \* the terminals a client has created, attached to or restored
    outbox,      \* the lines a client in the list is still owed
    stalled,     \* clients owing for STALL_DROP without progress
    handler,     \* the request a client's reader thread is handling
    answered,    \* observed: terminals a client was told are live
    announced    \* observed: terminals whose exit was put in a client's outbox

threadVars == <<io, ring, resizes>>
clientVars == <<clients, conn, hearsAll, terminals, outbox, stalled>>
seen == <<answered, announced>>
vars == <<threadVars, clientVars, handler, seen>>

-----------------------------------------------------------------------------
Changes == {"resize", "appearance"}
Kinds == {"data", "state", "exit", "replay", "header", "dead", "ok", "error"}

Line == [kind : Kinds, term : Term \cup {NoTerm}, seq : Nat, state : Nat,
         first : Nat, truncated : BOOLEAN]

Plain(kind, t) == [kind |-> kind, term |-> t, seq |-> 0, state |-> 0,
                   first |-> 0, truncated |-> FALSE]
NoLine == Plain("ok", NoTerm)

\* A line that carries the terminal's sequence numbers as they stand.
Stamped(kind, t) == [Plain(kind, t) EXCEPT !.seq = ring[t].seq,
                                           !.state = ring[t].stateSeq]

\* attach's answer: the chunks in the ring, numbered first .. seq.
Replay(t) == [Stamped("replay", t) EXCEPT
                !.first = ring[t].seq + 1 - Len(ring[t].chunks),
                !.truncated = ring[t].truncated]

Idle == [at |-> "idle", term |-> NoTerm, line |-> NoLine]
Doing(at, t) == [at |-> at, term |-> t, line |-> NoLine]
Answer(line) == [at |-> "reply", term |-> line.term, line |-> line]

NewRing == [chunks |-> <<>>, seq |-> 0, stateSeq |-> 0,
            truncated |-> FALSE, valid |-> TRUE]

\* The bytes left in a ring after its first n chunks are popped.
Left(chunks, n) == SumFunctionOnSet(chunks, (n + 1)..Len(chunks))

\* Ring::push pops n chunks from the front: as few as make the rest fit.
Pops(chunks, n) ==
    /\ Left(chunks, n) <= RingMax
    /\ \A m \in 0..(n - 1) : Left(chunks, m) > RingMax

\* The `terms` map: a terminal is in it until its I/O thread removes it.
Registered(t) == io[t] \in {"loop", "broadcast", "reap"}

\* attach holds `terms` between subscribing and reading the ring.
TermsFree == \A c \in Client : handler[c].at # "attach"

\* A terminal's I/O thread goes from one place to the next.
Move(t, from, to) == io[t] = from /\ io' = [io EXCEPT ![t] = to]

Hears(c, t) == hearsAll[c] \/ t \in terminals[c]

\* offer() refuses a line over budget, and any line of a stalled client.
CanTake(c) == Len(outbox[c]) < OutboxMax /\ c \notin stalled

-----------------------------------------------------------------------------
Init ==
    /\ io = [t \in Term |-> "unborn"]
    /\ ring = [t \in Term |-> NewRing]
    /\ resizes = [t \in Term |-> <<>>]
    /\ clients = {}
    /\ conn = [c \in Client |-> "absent"]
    /\ hearsAll = [c \in Client |-> TRUE]
    /\ terminals = [c \in Client |-> {}]
    /\ outbox = [c \in Client |-> <<>>]
    /\ stalled = {}
    /\ handler = [c \in Client |-> Idle]
    /\ answered = [c \in Client |-> {}]
    /\ announced = [c \in Client |-> {}]

\* f after the records of `dropped` leave the list: nothing of theirs is kept.
Without(dropped, f, fresh) == [c \in Client |-> IF c \in dropped THEN fresh ELSE f[c]]

\* The list loses `dropped`, and `socket` is what their sockets become.  `queues`
\* and `exits` are what the outboxes and announcements otherwise become.
Leave(dropped, socket, queues, exits) ==
    /\ clients' = clients \ dropped
    /\ conn' = Without(dropped, conn, socket)
    /\ hearsAll' = Without(dropped, hearsAll, TRUE)
    /\ terminals' = Without(dropped, terminals, {})
    /\ outbox' = Without(dropped, queues, <<>>)
    /\ stalled' = stalled \ dropped
    /\ answered' = Without(dropped, answered, {})
    /\ announced' = Without(dropped, exits, {})

\* Mutant of Broadcast: a client that cannot take a line just goes without it.
BroadcastSkips(t, line, dropped) ==
    LET able == {c \in clients : Hears(c, t) /\ CanTake(c)}
        told == IF line.kind = "exit" THEN {t} ELSE {}
    IN  /\ dropped = {}
        /\ Leave({}, "shut",
                 [c \in Client |-> IF c \in able THEN Append(outbox[c], line) ELSE outbox[c]],
                 [c \in Client |-> IF c \in able THEN announced[c] \cup told ELSE announced[c]])

\* Fans `line` out to the clients that hear t.  `dropped` leave the list with
\* their socket shut: those offer() refuses, and any whose outbox thread had
\* already ended because its socket was shut.
Broadcast(t, line, dropped) ==
    LET hearers == {c \in clients : Hears(c, t)}
        refused == {c \in hearers : ~CanTake(c)}
        told == IF line.kind = "exit" THEN {t} ELSE {}
    IN  /\ refused \subseteq dropped
        /\ dropped \subseteq refused \cup {c \in hearers : conn[c] = "shut"}
        /\ Leave(dropped, "shut",
                 [c \in Client |-> IF c \in hearers THEN Append(outbox[c], line)
                                                    ELSE outbox[c]],
                 [c \in Client |-> IF c \in hearers THEN announced[c] \cup told
                                                    ELSE announced[c]])

\* subscribe(): does nothing for a client no longer in the list.
Subscribe(c, t) ==
    terminals' = IF c \in clients
                 THEN [terminals EXCEPT ![c] = @ \cup {t}]
                 ELSE terminals

-----------------------------------------------------------------------------
(* Connections.                                                            *)

\* serve_client: the connection joins the list, hearing everything.
Connect(c) ==
    /\ conn[c] = "absent"
    /\ conn' = [conn EXCEPT ![c] = "open"]
    /\ clients' = clients \cup {c}
    /\ UNCHANGED <<threadVars, hearsAll, terminals, outbox, stalled, handler, seen>>

\* The peer closes its end, or dies.
Disconnect(c) ==
    /\ conn[c] = "open"
    /\ conn' = [conn EXCEPT ![c] = "shut"]
    /\ UNCHANGED <<threadVars, clients, hearsAll, terminals, outbox, stalled, handler, seen>>

\* The outbox thread writes a line to the socket: progress.
Deliver(c) ==
    /\ conn[c] = "open" /\ outbox[c] # <<>>
    /\ outbox' = [outbox EXCEPT ![c] = Tail(@)]
    /\ stalled' = stalled \ {c}
    /\ UNCHANGED <<threadVars, clients, conn, hearsAll, terminals, handler, seen>>

\* STALL_DROP passes while the client owes and takes nothing.
StallElapses(c) ==
    /\ c \in clients /\ outbox[c] # <<>>
    /\ stalled' = stalled \cup {c}
    /\ UNCHANGED <<threadVars, clients, conn, hearsAll, terminals, outbox, handler, seen>>

\* Mutant of Reap: the client is forgotten, its socket stays open.
ReapUnshut ==
    /\ stalled # {}
    /\ Leave(stalled, "open", outbox, announced)
    /\ UNCHANGED <<threadVars, handler>>

\* reap_stalled_clients, from the watchdog or a terminal's poll loop.
Reap ==
    /\ stalled # {}
    /\ Leave(stalled, "shut", outbox, announced)
    /\ UNCHANGED <<threadVars, handler>>

\* The reader thread meets the end of its stream and forgets the client.
ReaderEnds(c) ==
    /\ conn[c] = "shut" /\ handler[c] = Idle
    /\ Leave({c}, "gone", outbox, announced)
    /\ UNCHANGED <<threadVars, handler>>

-----------------------------------------------------------------------------
(* Requests.  A reader thread takes one when its last is answered; lines   *)
(* already read are still handled after the socket is shut.                *)

Ready(c) == handler[c] = Idle /\ conn[c] \in {"open", "shut"}

Begin(c, doing) == handler' = [handler EXCEPT ![c] = doing]

\* hello: the event scope this connection asks for, kept even if the daemon then
\* refuses what else it asks for.
Hello(c, all) ==
    /\ Ready(c)
    /\ \/ /\ c \in clients
          /\ hearsAll' = [hearsAll EXCEPT ![c] = all]
          /\ \E kind \in {"ok", "error"} : Begin(c, Answer(Plain(kind, NoTerm)))
       \/ /\ c \notin clients
          /\ Begin(c, Answer(Plain("error", NoTerm)))
          /\ UNCHANGED hearsAll
    /\ UNCHANGED <<threadVars, clients, conn, terminals, outbox, stalled, seen>>

\* create: registered and heard in one hold of `terms`; then the I/O thread
\* starts.  Refused options, or a shell that cannot be started, change nothing.
Create(c, t) ==
    /\ Ready(c)
    /\ \/ /\ TermsFree
          /\ Move(t, "unborn", "loop")
          /\ Subscribe(c, t)
          /\ Begin(c, Answer(Plain("ok", t)))
       \/ /\ Begin(c, Answer(Plain("error", NoTerm)))
          /\ UNCHANGED <<io, terminals>>
    /\ UNCHANGED <<ring, resizes, clients, conn, hearsAll, outbox, stalled, seen>>

\* Mutant of Attach: it subscribes before it looks the terminal up.
AttachUnchecked(c, t) ==
    /\ Ready(c) /\ TermsFree
    /\ Begin(c, IF Registered(t) THEN Doing("attach", t) ELSE Answer(Plain("dead", t)))
    /\ Subscribe(c, t)
    /\ UNCHANGED <<threadVars, clients, conn, hearsAll, outbox, stalled, seen>>

\* attach, first half: heard before the ring is read, `terms` kept.
Attach(c, t) ==
    /\ Ready(c) /\ TermsFree
    /\ IF Registered(t)
       THEN Begin(c, Doing("attach", t)) /\ Subscribe(c, t)
       ELSE Begin(c, Answer(Plain("dead", t))) /\ UNCHANGED terminals
    /\ UNCHANGED <<threadVars, clients, conn, hearsAll, outbox, stalled, seen>>

\* attach, second half: the ring is read and `terms` released.
AttachRead(c) ==
    /\ handler[c].at = "attach"
    /\ Begin(c, Answer(Replay(handler[c].term)))
    /\ UNCHANGED <<threadVars, clientVars, seen>>

\* Mutant of SnapshotBegin: the client is not made to hear the terminal.
SnapshotUnheard(c, t) ==
    /\ Ready(c) /\ TermsFree
    /\ Begin(c, IF Registered(t) THEN Doing("capture", t) ELSE Answer(Plain("error", t)))
    /\ UNCHANGED <<threadVars, clients, conn, hearsAll, terminals, outbox, stalled, seen>>

\* snapshotBegin, first half: heard before the capture, `terms` released.
SnapshotBegin(c, t) ==
    /\ Ready(c) /\ TermsFree
    /\ IF Registered(t)
       THEN Begin(c, Doing("capture", t)) /\ Subscribe(c, t)
       ELSE Begin(c, Answer(Plain("error", t))) /\ UNCHANGED terminals
    /\ UNCHANGED <<threadVars, clients, conn, hearsAll, outbox, stalled, seen>>

\* snapshotBegin, second half: the terminal may be gone, its ring is not.
Capture(c) ==
    /\ handler[c].at = "capture"
    /\ LET t == handler[c].term
       IN  \/ ring[t].valid /\ Begin(c, Answer(Stamped("header", t)))
           \/ (~ring[t].valid \/ VtFails) /\ Begin(c, Answer(Plain("error", t)))
    /\ UNCHANGED <<threadVars, clientVars, seen>>

\* resize and appearance: queued for the I/O thread, and waited for.
Change(c, t, what) ==
    /\ Ready(c) /\ TermsFree
    /\ IF Registered(t) /\ Len(resizes[t]) < QueueMax
       THEN /\ resizes' = [resizes EXCEPT ![t] = Append(@, [from |-> c, what |-> what])]
            /\ Begin(c, Doing("changing", t))
       ELSE /\ Begin(c, Answer(Plain("error", t)))
            /\ UNCHANGED resizes
    /\ UNCHANGED <<io, ring, clientVars, seen>>

\* reply(): offered to the client's outbox if it is still in the list; a
\* refused answer shuts the socket and leaves the list to the reader thread.
Reply(c) ==
    LET line == handler[c].line
        refused == ~CanTake(c)
    IN  /\ handler[c].at = "reply"
        /\ Begin(c, Idle)
        /\ \/ c \in clients /\ ~refused
              /\ outbox' = [outbox EXCEPT ![c] = Append(@, line)]
              /\ answered' = [answered EXCEPT ![c] =
                               IF line.kind \in {"replay", "header"}
                               THEN @ \cup {line.term} ELSE @]
              /\ UNCHANGED conn
           \/ c \in clients /\ (refused \/ conn[c] = "shut")
              /\ conn' = [conn EXCEPT ![c] = "shut"]
              /\ UNCHANGED <<outbox, answered>>
           \/ c \notin clients
              /\ UNCHANGED <<conn, outbox, answered>>
        /\ UNCHANGED <<threadVars, clients, hearsAll, terminals, stalled, announced>>

-----------------------------------------------------------------------------
(* A terminal's I/O thread.                                                *)

\* Mutant of Push: `truncated` is only what the last push did.
PushForgets(t) ==
    /\ Move(t, "loop", "broadcast")
    /\ ring[t].seq < MaxSeq /\ ring[t].stateSeq < MaxState
    /\ \E size \in Sizes :
         LET grown == Append(ring[t].chunks, size)
         IN  \E n \in 0..Len(grown) :
               /\ Pops(grown, n)
               /\ ring' = [ring EXCEPT ![t].chunks = SubSeq(grown, n + 1, Len(grown)),
                                       ![t].seq = @ + 1, ![t].stateSeq = @ + 1,
                                       ![t].truncated = n > 0]
    /\ UNCHANGED <<resizes, clientVars, handler, seen>>

\* A batch is read and pushed under the ring's lock.
Push(t) ==
    /\ Move(t, "loop", "broadcast")
    /\ ring[t].seq < MaxSeq /\ ring[t].stateSeq < MaxState
    /\ \E size \in Sizes, valid \in {ring[t].valid, ring[t].valid /\ ~VtFails} :
         LET grown == Append(ring[t].chunks, size)
         IN  \E n \in 0..Len(grown) :
               /\ Pops(grown, n)
               /\ ring' = [ring EXCEPT ![t] =
                     [chunks |-> SubSeq(grown, n + 1, Len(grown)),
                      seq |-> @.seq + 1, stateSeq |-> @.stateSeq + 1,
                      truncated |-> @.truncated \/ n > 0, valid |-> valid]]
    /\ UNCHANGED <<resizes, clientVars, handler, seen>>

\* The batch is sent once the ring's lock is released.
BroadcastOutput(t) ==
    /\ Move(t, "broadcast", "loop")
    /\ \E dropped \in SUBSET clients : Broadcast(t, Stamped("data", t), dropped)
    /\ UNCHANGED <<ring, resizes, handler>>

\* The oldest pending change is answered, with `answer`.
Answered(t, answer) ==
    /\ io[t] = "loop" /\ resizes[t] # <<>>
    /\ resizes' = [resizes EXCEPT ![t] = Tail(@)]
    /\ handler' = [handler EXCEPT ![Head(resizes[t]).from] = Answer(Plain(answer, t))]

\* Applied: the new state number is broadcast before the ring's lock goes.  The
\* answer is an error if the terminal's replies to the change cannot be queued.
ChangeApplied(t) ==
    /\ \E answer \in {"ok", "error"} : Answered(t, answer)
    /\ ring[t].valid /\ ring[t].stateSeq < MaxState
    /\ ring' = [ring EXCEPT ![t].stateSeq = @ + 1]
    /\ \E dropped \in SUBSET clients :
         Broadcast(t, [Stamped("state", t) EXCEPT !.state = @ + 1], dropped)
    /\ UNCHANGED io

\* Nothing to do (the same geometry or colours), or the kernel or an invalid
\* parser refuses: no event.
ChangeSkipped(t) ==
    /\ \/ Answered(t, "ok") /\ ring[t].valid
       \/ Answered(t, "error")
    /\ UNCHANGED <<io, ring, clientVars, seen>>

\* The parser fails: a resize has taken its state number, and no event says so.
ChangeFails(t) ==
    /\ VtFails
    /\ Answered(t, "error")
    /\ ring[t].valid /\ ring[t].stateSeq < MaxState
    /\ ring' = [ring EXCEPT ![t].valid = FALSE,
                            ![t].stateSeq = IF Head(resizes[t]).what = "resize"
                                            THEN @ + 1 ELSE @]
    /\ UNCHANGED <<io, clientVars, seen>>

\* End of output, or killed: the thread leaves its loop.
LeaveLoop(t) ==
    /\ Move(t, "loop", "reap")
    /\ UNCHANGED <<ring, resizes, clientVars, handler, seen>>

\* The child is reaped and the terminal leaves the registry: once the shell has
\* ended, which one that only closed its terminal may never do, and `terms` is free.
Unregister(t) ==
    /\ TermsFree
    /\ Move(t, "reap", "announce")
    /\ UNCHANGED <<ring, resizes, clientVars, handler, seen>>

AnnounceExit(t) ==
    /\ Move(t, "announce", "forget")
    /\ \E dropped \in SUBSET clients : Broadcast(t, Plain("exit", t), dropped)
    /\ UNCHANGED <<ring, resizes, handler>>

\* forget(): no client in the list keeps the id.
Forget(t) ==
    /\ Move(t, "forget", "ending")
    /\ terminals' = [c \in Client |-> terminals[c] \ {t}]
    /\ UNCHANGED <<ring, resizes, clients, conn, hearsAll, outbox, stalled, handler, seen>>

\* Mutant of ThreadEnds: whoever waits for a change it never applied is left waiting.
ThreadEndsSilently(t) ==
    /\ Move(t, "ending", "done")
    /\ UNCHANGED <<ring, resizes, clientVars, handler, seen>>

\* The thread ends: the changes it never applied are dropped, which answers them.
ThreadEnds(t) ==
    /\ Move(t, "ending", "done")
    /\ resizes' = [resizes EXCEPT ![t] = <<>>]
    /\ handler' = [c \in Client |->
                     IF \E i \in DOMAIN resizes[t] : resizes[t][i].from = c
                     THEN Answer(Plain("error", t)) ELSE handler[c]]
    /\ UNCHANGED <<ring, clientVars, seen>>

-----------------------------------------------------------------------------
Request(c) ==
    \/ \E all \in BOOLEAN : Hello(c, all)
    \/ \E t \in Term :
         \/ Create(c, t) \/ Attach(c, t) \/ SnapshotBegin(c, t)
         \/ \E what \in Changes : Change(c, t, what)

HandlerStep(c) == AttachRead(c) \/ Capture(c) \/ Reply(c)

Socket(c) == Connect(c) \/ Disconnect(c) \/ Deliver(c) \/ StallElapses(c) \/ ReaderEnds(c)

ApplyChange(t) == ChangeApplied(t) \/ ChangeSkipped(t) \/ ChangeFails(t)

Teardown(t) == AnnounceExit(t) \/ Forget(t) \/ ThreadEnds(t)

IoThread(t) == Push(t) \/ BroadcastOutput(t) \/ ApplyChange(t) \/ LeaveLoop(t)
                       \/ Unregister(t) \/ Teardown(t)

Next ==
    \/ \E c \in Client : Request(c) \/ HandlerStep(c) \/ Socket(c)
    \/ Reap
    \/ \E t \in Term : IoThread(t)

\* Threads keep running.  Nothing obliges a client to send, read or leave, nor a
\* shell that closed its terminal to end: Unregister is not fair.
Fairness ==
    /\ \A c \in Client : WF_vars(HandlerStep(c)) /\ WF_vars(ReaderEnds(c))
    /\ \A t \in Term : WF_vars(BroadcastOutput(t)) /\ WF_vars(ApplyChange(t))
                       /\ WF_vars(Teardown(t))

Spec == Init /\ [][Next]_vars
FairSpec == Spec /\ Fairness

-----------------------------------------------------------------------------
TypeOK ==
    /\ io \in [Term -> {"unborn", "loop", "broadcast", "reap", "announce",
                        "forget", "ending", "done"}]
    /\ ring \in [Term -> [chunks : Seq(Sizes), seq : Nat, stateSeq : Nat,
                          truncated : BOOLEAN, valid : BOOLEAN]]
    /\ resizes \in [Term -> Seq([from : Client, what : Changes])]
    /\ clients \in SUBSET Client
    /\ conn \in [Client -> {"absent", "open", "shut", "gone"}]
    /\ hearsAll \in [Client -> BOOLEAN]
    /\ terminals \in [Client -> SUBSET Term]
    /\ outbox \in [Client -> Seq(Line)]
    /\ stalled \in SUBSET Client
    /\ handler \in [Client -> [at : {"idle", "attach", "capture", "changing", "reply"},
                               term : Term \cup {NoTerm}, line : Line]]
    /\ answered \in [Client -> SUBSET Term]
    /\ announced \in [Client -> SUBSET Term]

-----------------------------------------------------------------------------
(* Properties.                                                             *)

\* A request that will be, or has been, answered "this terminal is live".
Awaits(c, t) ==
    /\ handler[c].term = t
    /\ \/ handler[c].at \in {"attach", "capture"}
       \/ handler[c].at = "reply" /\ handler[c].line.kind \in {"replay", "header"}
ToldLive(c, t) == Awaits(c, t) \/ t \in answered[c]

\* The ring says it is truncated exactly when it no longer holds every batch
\* since the terminal began (Ring::push), so a replay never passes for whole.
TruncationHonest ==
    \A t \in Term : /\ Len(ring[t].chunks) <= ring[t].seq
                    /\ ring[t].truncated <=> Len(ring[t].chunks) < ring[t].seq

\* A client in the list that is told a terminal is live (attach,
\* snapshotBegin) hears it until its exit has been announced.
HeardWhileLive ==
    \A c \in clients, t \in Term :
        ToldLive(c, t) /\ (Registered(t) \/ io[t] = "announce") => t \in terminals[c]

\* A client told a terminal was live is never left believing so: once the exit
\* has been broadcast, it has that exit in its outbox, or it was dropped.
ExitNeverMissed ==
    \A c \in clients, t \in Term :
        ToldLive(c, t) /\ io[t] \in {"forget", "ending", "done"} => t \in announced[c]

\* A terminal that is gone is forgotten everywhere: no client's set of
\* terminals grows with ids of the dead (subscribe, forget).
NoDeadSubscription ==
    \A c \in clients : \A t \in terminals[c] :
        Registered(t) \/ io[t] \in {"announce", "forget"}

\* A client's reader thread waits for the I/O thread of t to change its state.
WaitsFor(c, t) == handler[c].at = "changing" /\ handler[c].term = t

\* A reader thread never waits for nothing: a state change it waits for is applied
\* or refused, or dropped with the thread that was to apply it, which answers it
\* too.  It waits for ever only for a thread that itself does: one that has left
\* its loop with the change still queued, and whose shell never ends (or which is
\* never given `terms`, that a kill may keep: PtydTeardown).
RequestsAnswered ==
    \A c \in Client :
        /\ handler[c].at \in {"attach", "capture", "reply"} ~> handler[c] = Idle
        /\ \A t \in Term :
             WaitsFor(c, t) ~> handler[c] = Idle \/ [](WaitsFor(c, t) /\ io[t] = "reap")
=============================================================================
