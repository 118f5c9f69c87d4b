------------------------------ MODULE PtydIdle ------------------------------
(***************************************************************************)
(* When the PTY daemon ends: the idle clock idle_since, which connecting   *)
(* and creating stop, which note_idle starts or stops when a terminal or a *)
(* client is gone, and which the watchdog reads.                           *)
(*                                                                         *)
(* A step is one critical section.  note_idle looks at `terms`, then at    *)
(* `clients`, then stores what it concluded, each under its own lock; so   *)
(* does the watchdog.  Time is the age of a clock, up to IDLE_EXIT.        *)
(***************************************************************************)
EXTENDS Naturals

CONSTANTS
    Client,      \* connections; a reconnect is another connection
    Term,        \* terminal ids, never reused
    IdleExit     \* IDLE_EXIT, in ticks

ASSUME IdleAssumption ==
    /\ IdleExit \in Nat \ {0}
    /\ Client \cap Term = {}

VARIABLES
    at,          \* where each client's reader and each terminal's I/O thread is
    clients,     \* the connections in the daemon's list
    idle,        \* the age of idle_since, or NotIdle
    watchdog,    \* where the watchdog is
    quiet,       \* observed: how long the daemon has held nothing
    raced        \* observed: a note_idle has stored what was no longer so

vars == <<at, clients, idle, watchdog, quiet, raced>>

Thread == Client \cup Term
NotIdle == IdleExit + 1

Older(age) == IF age < IdleExit THEN age + 1 ELSE age

\* The `terms` map.
Terms == {t \in Term : at[t] \in {"starting", "running"}}
Nothing == Terms = {} /\ clients = {}

\* Once the process is gone its threads are.
Alive == watchdog # "exited"

Step(x, from, to) == Alive /\ at[x] = from /\ at' = [at EXCEPT ![x] = to]

-----------------------------------------------------------------------------
Init ==
    /\ at = [x \in Thread |-> "absent"]
    /\ clients = {}
    /\ idle = 0
    /\ watchdog = "asleep"
    /\ quiet = 0
    /\ raced = FALSE

Tick ==
    /\ Alive
    /\ idle' = Older(idle)
    /\ quiet' = IF Nothing THEN Older(quiet) ELSE 0
    /\ UNCHANGED <<at, clients, watchdog, raced>>

-----------------------------------------------------------------------------
(* Clients and terminals come.                                             *)

\* serve_client: the connection joins the list, then stops the clock.
Connect(c) ==
    /\ Step(c, "absent", "joining")
    /\ clients' = clients \cup {c}
    /\ quiet' = 0
    /\ UNCHANGED <<idle, watchdog, raced>>

\* Mutant of Joined: a new connection leaves the clock running.
JoinedUnnoticed(c) ==
    /\ Step(c, "joining", "serving")
    /\ UNCHANGED <<clients, idle, watchdog, quiet, raced>>

Joined(c) ==
    /\ Step(c, "joining", "serving")
    /\ idle' = NotIdle
    /\ UNCHANGED <<clients, watchdog, quiet, raced>>

\* create: the terminal enters the map; its reader thread then stops the clock
\* and starts the I/O thread.
Create(c, t) ==
    /\ Alive /\ at[c] = "serving" /\ at[t] = "absent"
    /\ at' = [at EXCEPT ![c] = "creating", ![t] = "starting"]
    /\ quiet' = 0
    /\ UNCHANGED <<clients, idle, watchdog, raced>>

Created(c, t) ==
    /\ Alive /\ at[c] = "creating" /\ at[t] = "starting"
    /\ at' = [at EXCEPT ![c] = "serving", ![t] = "running"]
    /\ idle' = NotIdle
    /\ UNCHANGED <<clients, watchdog, quiet, raced>>

-----------------------------------------------------------------------------
(* ... and go.                                                             *)

\* A client that is too slow leaves the list; its reader thread is still there.
Dropped(c) ==
    /\ Alive /\ c \in clients
    /\ clients' = clients \ {c}
    /\ UNCHANGED <<at, idle, watchdog, quiet, raced>>

\* Mutant of ReaderEnds: a client leaves without note_idle.
ReaderEndsUnnoticed(c) ==
    /\ Step(c, "serving", "gone")
    /\ clients' = clients \ {c}
    /\ UNCHANGED <<idle, watchdog, quiet, raced>>

ReaderEnds(c) ==
    /\ Step(c, "serving", "noteTerms")
    /\ clients' = clients \ {c}
    /\ UNCHANGED <<idle, watchdog, quiet, raced>>

TerminalEnds(t) ==
    /\ Step(t, "running", "noteTerms")
    /\ UNCHANGED <<clients, idle, watchdog, quiet, raced>>

\* note_idle: `empty`, one map at a time...
NoteTerms(x) ==
    /\ Step(x, "noteTerms", IF Terms = {} THEN "noteClients" ELSE "storeBusy")
    /\ UNCHANGED <<clients, idle, watchdog, quiet, raced>>

NoteClients(x) ==
    /\ Step(x, "noteClients", IF clients = {} THEN "storeEmpty" ELSE "storeBusy")
    /\ UNCHANGED <<clients, idle, watchdog, quiet, raced>>

\* ... then stored: a running clock is left running.
StoreEmpty(x) ==
    /\ Step(x, "storeEmpty", "gone")
    /\ idle' = IF idle = NotIdle THEN 0 ELSE idle
    /\ raced' = (raced \/ ~Nothing)
    /\ UNCHANGED <<clients, watchdog, quiet>>

StoreBusy(x) ==
    /\ Step(x, "storeBusy", "gone")
    /\ idle' = NotIdle
    /\ raced' = (raced \/ Nothing)
    /\ UNCHANGED <<clients, watchdog, quiet>>

NoteIdle(x) == NoteTerms(x) \/ NoteClients(x) \/ StoreEmpty(x) \/ StoreBusy(x)

-----------------------------------------------------------------------------
(* The watchdog.                                                           *)

WatchdogMoves(from, to) ==
    /\ watchdog = from /\ watchdog' = to
    /\ UNCHANGED <<at, clients, idle, quiet, raced>>

\* Its sleep is over: it reads the clock.
ReadClock == idle = IdleExit /\ WatchdogMoves("asleep", "checkTerms")

CheckTerms == WatchdogMoves("checkTerms", IF Terms = {} THEN "checkClients" ELSE "asleep")

CheckClients == WatchdogMoves("checkClients", IF clients = {} THEN "exiting" ELSE "asleep")

\* The files go, then the process.
Exit == WatchdogMoves("exiting", "exited")

Watchdog == ReadClock \/ CheckTerms \/ CheckClients \/ Exit

-----------------------------------------------------------------------------
Joins(c) == Joined(c) \/ \E t \in Term : Created(c, t)

Next ==
    \/ Tick \/ Watchdog
    \/ \E c \in Client : \/ Connect(c) \/ Joins(c) \/ Dropped(c) \/ ReaderEnds(c)
                          \/ \E t \in Term : Create(c, t)
    \/ \E t \in Term : TerminalEnds(t)
    \/ \E x \in Thread : NoteIdle(x)

\* Time passes and threads keep running; the reader of a dropped client meets
\* the end of its socket.  Nobody else is obliged to come or go.
Fairness ==
    /\ WF_vars(Tick) /\ WF_vars(Watchdog)
    /\ \A x \in Thread : WF_vars(NoteIdle(x))
    /\ \A c \in Client : WF_vars(Joins(c)) /\ WF_vars(c \notin clients /\ ReaderEnds(c))

Spec == Init /\ [][Next]_vars
FairSpec == Spec /\ Fairness

-----------------------------------------------------------------------------
(* Properties.                                                             *)

TypeOK ==
    /\ at \in [Thread -> {"absent", "joining", "serving", "creating", "starting", "running",
                          "noteTerms", "noteClients", "storeEmpty", "storeBusy", "gone"}]
    /\ clients \subseteq Client
    /\ idle \in 0..NotIdle
    /\ watchdog \in {"asleep", "checkTerms", "checkClients", "exiting", "exited"}
    /\ quiet \in 0..IdleExit
    /\ raced \in BOOLEAN

\* Somebody has come and is about to stop the clock.
Arriving == \E x \in Thread : at[x] \in {"joining", "starting"}

\* Unless a note_idle stored what was no longer so, the clock never shows more
\* idleness than there has been: whoever came has stopped it, or is about to.
ClockHonest == ~raced /\ idle # NotIdle /\ ~Arriving => idle <= quiet

\* Unless that happened, a daemon that holds nothing for good ends.
ExitsUnlessRaced == <>[](Nothing /\ ~raced) => <>(watchdog = "exited")

\* "The daemon exits by itself once it holds no terminals and no client for
\* IDLE_EXIT."
ExitsOnceIdle == <>[]Nothing => <>(watchdog = "exited")
=============================================================================
