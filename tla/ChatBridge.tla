------------------------------ MODULE ChatBridge ------------------------------
(***************************************************************************)
(* The chat page's half of its bridge to the app (web/chat/src/bridge.ts):  *)
(* the reads the page waits for, and the answers the app still owes.  A      *)
(* request leaves the page's table when it is answered, when its time is up  *)
(* or when it is cancelled; the app may answer an abandoned one all the      *)
(* same, even to the page's next load.                                       *)
(***************************************************************************)
EXTENDS Integers, FiniteSets

CONSTANTS
    Thread,      \* the chats
    NoThread,    \* no chat
    MaxSeq,      \* bound: how long a thread's log grows
    MaxAsked,    \* bound: how many requests of one load are open at once
    MaxLate,     \* bound: how many abandoned requests the app may still answer
    MaxLoad      \* bound: how often the page is loaded

ASSUME BridgeAssumption ==
    /\ NoThread \notin Thread
    /\ MaxSeq \in Nat \ {0} /\ MaxAsked \in Nat \ {0}
    /\ MaxLate \in Nat /\ MaxLoad \in Nat \ {0}

VARIABLES
    load,        \* which load of the page this is (loadToken)
    waiting,     \* the requests in the page's table (pending)
    owed         \* the requests the app has not answered

bridgeVars == <<load, waiting, owed>>

\* Who asked and what for: the stream's read of its thread, or a card's read of
\* a related one, with the mentions it was made for.  A number is free again
\* once its request is closed on both sides; the code's only grow.
Request == [load : 1..MaxLoad, n : 1..MaxAsked, by : {"stream", "card"},
            about : Thread, child : BOOLEAN, mentions : 0..MaxSeq]

\* Mutant of Id: the page's loads number their requests alike.
IdUntokened(r) == r.n

\* A request's name on the bridge: the load's token and a number.
Id(r) == <<r.load, r.n>>

BridgeInit == load = 1 /\ waiting = {} /\ owed = {}

Free(debt) == {n \in 1..MaxAsked : \A r \in debt : ~(r.load = load /\ r.n = n)}

Unused == Free(owed)

\* request(): into the table and to the app.
Post(new) ==
    /\ waiting' = waiting \cup new
    /\ owed' = owed \cup new
    /\ UNCHANGED load

\* The entry of the table a reply to r settles; none when r was abandoned.
Settles(r) == {w \in waiting : Id(w) = Id(r)}

\* What the app may still owe once the page waits for no more than remaining.
Debts(remaining) ==
    {d \in SUBSET owed : remaining \subseteq d /\ Cardinality(d \ remaining) <= MaxLate}

\* window.nativeChat.reply finds no entry.
Ignored(r) ==
    /\ r \in owed /\ Settles(r) = {}
    /\ owed' = owed \ {r}
    /\ UNCHANGED <<load, waiting>>

\* The timeout of a request: its entry goes, the app may answer it yet.
TimesOut(w) ==
    /\ waiting' = waiting \ {w}
    /\ owed' \in Debts(waiting \ {w})
    /\ UNCHANGED load

\* cancelPending of the read method: every read, whoever made it.
CancelPending ==
    /\ waiting' = {}
    /\ owed' \in Debts({})
    /\ UNCHANGED load

\* The page is loaded again: its table is empty, the app's debts stay.
Reloaded ==
    /\ load < MaxLoad
    /\ load' = load + 1
    /\ waiting' = {}
    /\ owed' \in Debts({})

\* What the page waits for is what the app owes it in this load.
BridgeOK ==
    /\ load \in 1..MaxLoad
    /\ owed \subseteq Request
    /\ waiting \subseteq owed
    /\ \A r \in waiting : r.load = load
=============================================================================
