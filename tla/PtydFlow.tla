------------------------------ MODULE PtydFlow ------------------------------
(***************************************************************************)
(* Flow control in the PTY daemon: when a terminal's I/O thread reads its  *)
(* shell's output.  It stops for a viewer that asked it to (flow) and for  *)
(* a backlog owed to a client that hears it, and sleeps in poll() until a  *)
(* byte in its wake pipe, output it wants, a hangup, or the short timer of *)
(* a backlog pause.  What a client is owed is counted; lines are not kept: *)
(* batches of output, the events of a terminal and the answers to requests *)
(* all add to one count.                                                   *)
(*                                                                         *)
(* A step is one critical section, or one call of poll().                  *)
(***************************************************************************)
EXTENDS Naturals, FiniteSets

CONSTANTS
    Client,      \* connections; a reconnect is another connection
    Term,        \* terminal ids
    Hearing,     \* the <<client, terminal>> pairs of clients that hear one
    High, Low,   \* BACKLOG_HIGH and BACKLOG_LOW
    OutboxMax,   \* OUTBOX_MAX
    BatchMax,    \* the most one batch adds to an outbox
    LineMax,     \* the most another event, or an answer, adds to it
    TtyMax,      \* what the kernel holds of a shell's unread output
    OtherMax     \* bound of the model: what else than output a client is owed

ASSUME LimitsAssumption ==
    /\ Low \in Nat \ {0} /\ High \in Nat /\ OutboxMax \in Nat
    /\ BatchMax \in Nat \ {0} /\ LineMax \in Nat \ {0} /\ TtyMax \in Nat \ {0}
    /\ OtherMax \in Nat
    /\ Low <= High /\ High <= OutboxMax
    /\ Hearing \subseteq Client \X Term
    /\ IsFiniteSet(Term)

VARIABLES
    io,              \* where each terminal's I/O thread is
    interest,        \* whether its poll() asks for output, computed every time round
    backlogPaused,   \* its backlog_paused
    paused,          \* the flag flow() sets
    pauseOwners,     \* the clients whose pause it is
    wake,            \* whether the wake pipe holds a byte
    unread,          \* the shell's output the kernel holds
    hungUp,          \* the shell's side of the terminal is closed
    clients,         \* the connections in the daemon's list
    conn,            \* each connection's socket and reader thread
    owed,            \* what each client is owed
    output,          \* observed: how much of it is terminals' output
    stalled          \* clients owing for STALL_DROP without progress

termVars == <<io, interest, backlogPaused, unread, hungUp>>
pauseVars == <<paused, pauseOwners, wake>>
clientVars == <<clients, conn, owed, output, stalled>>
vars == <<termVars, pauseVars, clientVars>>

Hears(c, t) == <<c, t>> \in Hearing
HeardBy(c) == {t \in Term : Hears(c, t)}

-----------------------------------------------------------------------------
Init ==
    /\ io = [t \in Term |-> "top"]
    /\ interest = [t \in Term |-> FALSE]
    /\ backlogPaused = [t \in Term |-> FALSE]
    /\ paused = [t \in Term |-> FALSE]
    /\ pauseOwners = [t \in Term |-> {}]
    /\ wake = [t \in Term |-> FALSE]
    /\ unread = [t \in Term |-> 0]
    /\ hungUp = {}
    /\ clients = Client
    /\ conn = [c \in Client |-> "open"]
    /\ owed = [c \in Client |-> 0] /\ output = [c \in Client |-> 0]
    /\ stalled = {}

\* `dropped` leave the list, their sockets shut; what they were owed is void.
Drop(dropped, owing, out) ==
    /\ clients' = clients \ dropped
    /\ conn' = [c \in Client |-> IF c \in dropped THEN "shut" ELSE conn[c]]
    /\ owed' = [c \in Client |-> IF c \in dropped THEN 0 ELSE owing[c]]
    /\ output' = [c \in Client |-> IF c \in dropped THEN 0 ELSE out[c]]
    /\ stalled' = stalled \ dropped

\* offer() refuses a line over budget, and any line of a stalled client.
Refuses(c, n) == owed[c] + n > OutboxMax \/ c \in stalled

\* The clients the list holds that hear t.
Hearers(t) == {c \in clients : Hears(c, t)}

\* f with n more for the clients that hear t.
More(f, t, n) == [c \in Client |-> IF c \in Hearers(t) THEN f[c] + n ELSE f[c]]

\* A line of n units, k of them output, goes to the clients that hear t; those
\* that cannot take it are dropped.
Broadcast(t, n, k) ==
    Drop({c \in Hearers(t) : Refuses(c, n)}, More(owed, t, n), More(output, t, k))

\* Mutant of SetOwners: the thread is not poked.
SetOwnersQuietly(t, owners) ==
    /\ pauseOwners' = [pauseOwners EXCEPT ![t] = owners]
    /\ paused' = [paused EXCEPT ![t] = owners # {}]
    /\ UNCHANGED wake

\* pauseOwners[t] becomes `owners`: the flag follows and the thread is poked.
SetOwners(t, owners) ==
    /\ pauseOwners' = [pauseOwners EXCEPT ![t] = owners]
    /\ paused' = [paused EXCEPT ![t] = owners # {}]
    /\ wake' = [wake EXCEPT ![t] = TRUE]

-----------------------------------------------------------------------------
(* The shell.                                                              *)

ShellWrites(t) ==
    /\ t \notin hungUp /\ unread[t] < TtyMax
    /\ unread' = [unread EXCEPT ![t] = @ + 1]
    /\ UNCHANGED <<io, interest, backlogPaused, hungUp, pauseVars, clientVars>>

HangsUp(t) ==
    /\ t \notin hungUp
    /\ hungUp' = hungUp \cup {t}
    /\ UNCHANGED <<io, interest, backlogPaused, unread, pauseVars, clientVars>>

-----------------------------------------------------------------------------
(* The I/O thread.                                                         *)

\* The top of the loop: stalled clients are dropped, the rest that hear t say
\* how far behind they are, and poll() is armed accordingly.
Arm(t) ==
    LET left == clients \ stalled
        owing == {owed[c] : c \in {d \in left : Hears(d, t)}}
        pausing == \E n \in owing : IF backlogPaused[t] THEN n >= Low ELSE n > High
    IN  /\ io[t] = "top"
        /\ io' = [io EXCEPT ![t] = "poll"]
        /\ backlogPaused' = [backlogPaused EXCEPT ![t] = pausing]
        /\ interest' = [interest EXCEPT ![t] = ~paused[t] /\ ~pausing]
        /\ Drop(clients \cap stalled, owed, output)
        /\ UNCHANGED <<unread, hungUp, pauseVars>>


\* Mutant of Readable: output is always asked for.
ReadableAlways(t) == unread[t] > 0 \/ t \in hungUp

Readable(t) == (interest[t] /\ unread[t] > 0) \/ t \in hungUp

\* Out of poll(), the thread reads if there is anything to, or goes round again.
GoesOn(t) ==
    IF Readable(t)
    THEN io' = [io EXCEPT ![t] = "read"] /\ UNCHANGED interest
    ELSE io' = [io EXCEPT ![t] = "top"] /\ interest' = [interest EXCEPT ![t] = FALSE]

\* Mutant of PollReturns: a backlog pause sets no timer.
PollReturnsLate(t) ==
    /\ io[t] = "poll"
    /\ Readable(t) \/ wake[t]
    /\ GoesOn(t)
    /\ wake' = [wake EXCEPT ![t] = FALSE]
    /\ UNCHANGED <<backlogPaused, unread, hungUp, paused, pauseOwners, clientVars>>

\* poll() returns; the wake pipe is emptied.  A hangup is reported, and read,
\* whatever the thread asked for.
PollReturns(t) ==
    /\ io[t] = "poll"
    /\ Readable(t) \/ wake[t] \/ backlogPaused[t]
    /\ GoesOn(t)
    /\ wake' = [wake EXCEPT ![t] = FALSE]
    /\ UNCHANGED <<backlogPaused, unread, hungUp, paused, pauseOwners, clientVars>>

\* One batch is read and sent to the clients that hear t.
ReadBatch(t) ==
    /\ io[t] = "read" /\ unread[t] > 0
    /\ \E n \in 1..BatchMax :
         /\ n <= unread[t]
         /\ unread' = [unread EXCEPT ![t] = @ - n]
         /\ Broadcast(t, n, n)
    /\ io' = [io EXCEPT ![t] = "top"]
    /\ interest' = [interest EXCEPT ![t] = FALSE]
    /\ UNCHANGED <<backlogPaused, hungUp, pauseVars>>

\* The clients of which the model lets n more than output be put in an outbox.
Within(n, cs) == \A c \in cs : owed[c] - output[c] + n <= OtherMax \/ Refuses(c, n)

\* Another event of the terminal: it was resized or its colours changed, at the
\* top of the loop, or its input failed.
Announces(t) ==
    /\ io[t] \in {"top", "read"}
    /\ \E n \in 1..LineMax : Within(n, Hearers(t)) /\ Broadcast(t, n, 0)
    /\ UNCHANGED <<termVars, pauseVars>>

\* The end of the output: the thread leaves its loop, the shell is reaped and the
\* terminal unregistered, which drops its flags, its pauses and its wake pipe.
Ends(t) ==
    /\ io[t] = "read" /\ unread[t] = 0 /\ t \in hungUp
    /\ io' = [io EXCEPT ![t] = "ended"]
    /\ interest' = [interest EXCEPT ![t] = FALSE]
    /\ backlogPaused' = [backlogPaused EXCEPT ![t] = FALSE]
    /\ paused' = [paused EXCEPT ![t] = FALSE]
    /\ pauseOwners' = [pauseOwners EXCEPT ![t] = {}]
    /\ wake' = [wake EXCEPT ![t] = FALSE]
    /\ UNCHANGED <<unread, hungUp, clientVars>>

\* ... and its exit is announced.
AnnounceExit(t) ==
    /\ io[t] = "ended"
    /\ io' = [io EXCEPT ![t] = "done"]
    /\ \E n \in 1..LineMax : Broadcast(t, n, 0)
    /\ UNCHANGED <<interest, backlogPaused, unread, hungUp, pauseVars>>

-----------------------------------------------------------------------------
(* Clients.  A reader thread handles what was sent before its socket shut. *)

Reading(c) == conn[c] \in {"open", "shut"}

Registered(t) == io[t] \notin {"ended", "done"}

Flow(c, t, pause) ==
    /\ Reading(c) /\ Registered(t)
    /\ SetOwners(t, IF pause THEN pauseOwners[t] \cup {c} ELSE pauseOwners[t] \ {c})
    /\ UNCHANGED <<termVars, clientVars>>

\* attach releases the client's own pause, never another's.
Attach(c, t) ==
    /\ Reading(c) /\ Registered(t) /\ c \in pauseOwners[t]
    /\ SetOwners(t, pauseOwners[t] \ {c})
    /\ UNCHANGED <<termVars, clientVars>>

\* reply(): the answer to a request, a replay among them.  One that is refused
\* shuts the socket and leaves the list to the reader thread.
Reply(c) ==
    /\ Reading(c) /\ c \in clients
    /\ \E n \in 1..LineMax :
         /\ Within(n, {c})
         /\ IF Refuses(c, n)
            THEN conn' = [conn EXCEPT ![c] = "shut"] /\ UNCHANGED owed
            ELSE owed' = [owed EXCEPT ![c] = @ + n] /\ UNCHANGED conn
    /\ UNCHANGED <<termVars, pauseVars, clients, output, stalled>>

\* The outbox thread makes progress, by a unit: of output or of another line (of the
\* order of the lines only how much of each is owed is kept).
Sent(c) ==
    /\ conn[c] = "open" /\ owed[c] > 0
    /\ owed' = [owed EXCEPT ![c] = @ - 1]
    /\ \/ output[c] > 0 /\ output' = [output EXCEPT ![c] = @ - 1]
       \/ output[c] < owed[c] /\ UNCHANGED output
    /\ stalled' = stalled \ {c}
    /\ UNCHANGED <<termVars, pauseVars, clients, conn>>

StallElapses(c) ==
    /\ c \in clients /\ owed[c] > 0
    /\ stalled' = stalled \cup {c}
    /\ UNCHANGED <<termVars, pauseVars, clients, conn, owed, output>>

\* The watchdog's reap, for clients no terminal's thread looks at.
Reap ==
    /\ stalled # {}
    /\ Drop(stalled, owed, output)
    /\ UNCHANGED <<termVars, pauseVars>>

Disconnect(c) ==
    /\ conn[c] = "open"
    /\ conn' = [conn EXCEPT ![c] = "shut"]
    /\ UNCHANGED <<termVars, pauseVars, clients, owed, output, stalled>>

\* The reader thread ends: first the client leaves the list...
ReaderEnds(c) ==
    /\ conn[c] = "shut"
    /\ conn' = [conn EXCEPT ![c] = "leaving"]
    /\ clients' = clients \ {c}
    /\ owed' = [owed EXCEPT ![c] = 0] /\ output' = [output EXCEPT ![c] = 0]
    /\ stalled' = stalled \ {c}
    /\ UNCHANGED <<termVars, pauseVars>>

\* Mutant of PausesEnd: a client that goes keeps its pauses.
PausesKept(c) ==
    /\ conn[c] = "leaving"
    /\ conn' = [conn EXCEPT ![c] = "gone"]
    /\ UNCHANGED <<termVars, pauseVars, clients, owed, output, stalled>>

\* ... then, under `terms`, its pauses die with it, and those it held are poked.
PausesEnd(c) ==
    LET held == {t \in Term : c \in pauseOwners[t] /\ Registered(t)}
    IN  /\ conn[c] = "leaving"
        /\ conn' = [conn EXCEPT ![c] = "gone"]
        /\ pauseOwners' = [t \in Term |-> IF t \in held THEN pauseOwners[t] \ {c} ELSE pauseOwners[t]]
        /\ paused' = [t \in Term |-> IF t \in held THEN pauseOwners'[t] # {} ELSE paused[t]]
        /\ wake' = [t \in Term |-> wake[t] \/ t \in held]
        /\ UNCHANGED <<termVars, clients, owed, output, stalled>>

-----------------------------------------------------------------------------
IoThread(t) == Arm(t) \/ PollReturns(t) \/ ReadBatch(t) \/ Ends(t) \/ AnnounceExit(t)

ReaderLeaves(c) == ReaderEnds(c) \/ PausesEnd(c)

Next ==
    \/ \E t \in Term : ShellWrites(t) \/ HangsUp(t) \/ IoThread(t) \/ Announces(t)
    \/ \E c \in Client :
         \/ Reply(c) \/ Sent(c) \/ StallElapses(c) \/ Disconnect(c) \/ ReaderLeaves(c)
         \/ \E t \in Term : Attach(c, t) \/ \E pause \in BOOLEAN : Flow(c, t, pause)
    \/ Reap

\* Threads keep running, and a client that takes nothing of what it is owed
\* stalls after STALL_DROP.  Nothing obliges a shell to write, or a viewer to
\* read, pause or resume.
Fairness ==
    /\ \A t \in Term : WF_vars(IoThread(t))
    /\ \A c \in Client : WF_vars(ReaderLeaves(c)) /\ WF_vars(Sent(c) \/ StallElapses(c))

Spec == Init /\ [][Next]_vars
FairSpec == Spec /\ Fairness

-----------------------------------------------------------------------------
(* Properties.                                                             *)

TypeOK ==
    /\ io \in [Term -> {"top", "poll", "read", "ended", "done"}]
    /\ interest \in [Term -> BOOLEAN] /\ backlogPaused \in [Term -> BOOLEAN]
    /\ paused \in [Term -> BOOLEAN] /\ wake \in [Term -> BOOLEAN]
    /\ pauseOwners \in [Term -> SUBSET Client]
    /\ unread \in [Term -> 0..TtyMax] /\ hungUp \subseteq Term
    /\ clients \subseteq Client
    /\ conn \in [Client -> {"open", "shut", "leaving", "gone"}]
    /\ owed \in [Client -> Nat] /\ output \in [Client -> Nat] /\ stalled \subseteq Client

\* No wakeup is lost: a thread asleep without asking for output, that nothing
\* pauses any more, has a byte in its wake pipe.  flow, attach and a leaving
\* client poke after they store the flag.
NoLostWakeup ==
    \A t \in Term :
        io[t] = "poll" /\ ~interest[t] /\ ~backlogPaused[t] /\ ~paused[t] => wake[t]

\* A pause is always somebody's who can still release it: none outlives its
\* client ("a paused PTY with no one to resume it would freeze forever").
PauseHasOwner ==
    \A t \in Term : Registered(t) =>
        /\ paused[t] => pauseOwners[t] # {}
        /\ \A c \in pauseOwners[t] : conn[c] # "gone"

\* A slow viewer bounds memory: of terminals' output it is owed at most
\* BACKLOG_HIGH and one more batch of each terminal it hears, whatever answers and
\* events are put between them, and of everything at most OUTBOX_MAX.  A hangup is
\* read whatever it owes.
BacklogBounded ==
    \A c \in clients :
        /\ output[c] <= owed[c] /\ owed[c] <= OutboxMax
        /\ HeardBy(c) \cap hungUp = {} =>
               output[c] <= High + BatchMax * Cardinality(HeardBy(c))

\* Terminals that share a client: either may fill what it is owed.
Rivals(t) == {u \in Term : u = t \/ \E c \in Client : Hears(c, t) /\ Hears(c, u)}

\* Output no viewer pauses does not wait for nothing, however slow or dead its
\* viewers are: a backlog pause ends because they read or are dropped, or new lines
\* keep the backlog up for ever: output of a rival, which is read, or the events and
\* answers that a viewer of it is owed again and again.
OutputFlows ==
    \A t \in Term :
        <>[](unread[t] > 0 /\ pauseOwners[t] = {}) =>
            \/ \E u \in Rivals(t) : []<><<ReadBatch(u)>>_vars
            \/ \E c \in Client : Hears(c, t) /\ []<>(owed[c] > output[c])

=============================================================================
