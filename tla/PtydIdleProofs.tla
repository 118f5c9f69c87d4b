--------------------------- MODULE PtydIdleProofs ---------------------------
(***************************************************************************)
(* Proofs about PtydIdle, for any clients, terminals and IDLE_EXIT: the    *)
(* idle clock is honest, unless a note_idle stored what was no longer so.  *)
(***************************************************************************)
EXTENDS PtydIdle, TLAPS

\* Why ClockHonest holds: a clock that runs while nobody is about to stop it
\* runs for a daemon that holds nothing.
Resting == ~raced /\ idle # NotIdle /\ ~Arriving => Nothing /\ idle <= quiet

Honest == TypeOK /\ Resting

-----------------------------------------------------------------------------
\* Both clocks grow by at most a tick and keep their order.
LEMMA OlderInOrder ==
    ASSUME NEW a \in 0..IdleExit, NEW b \in 0..IdleExit
    PROVE  /\ Older(a) \in 0..IdleExit
           /\ a <= b => Older(a) <= Older(b)
  <1>1. IdleExit \in Nat
    BY IdleAssumption
  <1>2. \A n \in 0..IdleExit : /\ n \in Nat /\ 0 <= n /\ n <= IdleExit
                               /\ Older(n) = IF n < IdleExit THEN n + 1 ELSE n
    BY <1>1 DEF Older
  <1> QED
    BY <1>1, <1>2

\* A step that moves a thread, other than by arriving or having arrived,
\* leaves the arrivals as they are.
LEMMA SameArrivals ==
    ASSUME TypeOK, NEW x \in Thread, NEW from, NEW to, Step(x, from, to),
           from \notin {"joining", "starting"}, to \notin {"joining", "starting"}
    PROVE  Arriving' = Arriving
  <1>1. DOMAIN at = Thread /\ at[x] = from /\ at' = [at EXCEPT ![x] = to]
    BY DEF Step, TypeOK
  <1>2. at'[x] = to /\ \A y \in Thread \ {x} : at'[y] = at[y]
    BY <1>1
  <1>3. \A y \in Thread : at'[y] \in {"joining", "starting"} <=> at[y] \in {"joining", "starting"}
    BY <1>1, <1>2
  <1> QED
    BY <1>3 DEF Arriving

-----------------------------------------------------------------------------
\* The daemon starts with its clock running and nothing to serve.
LEMMA HonestInit == Init => Honest
  <1> SUFFICES ASSUME Init PROVE Honest
    OBVIOUS
  <1>1. TypeOK
    <2>1. idle \in 0..NotIdle /\ quiet \in 0..IdleExit
      BY IdleAssumption DEF Init, NotIdle
    <2>2. raced \in BOOLEAN /\ watchdog = "asleep" /\ clients = {}
      BY DEF Init
    <2>3. at = [x \in Thread |-> "absent"]
      BY DEF Init
    <2> QED
      BY <2>1, <2>2, <2>3 DEF TypeOK
  <1>2. Nothing
    BY DEF Init, Nothing, Terms, Thread
  <1>3. idle <= quiet
    BY DEF Init
  <1> QED
    BY <1>1, <1>2, <1>3 DEF Honest, Resting

\* Every step keeps the types.
LEMMA TypeNext == TypeOK /\ [Next]_vars => TypeOK'
  <1> SUFFICES ASSUME TypeOK, [Next]_vars PROVE TypeOK'
    OBVIOUS
  <1> USE IdleAssumption DEF TypeOK, NotIdle
  <1>1. CASE Tick
    <2>1. /\ idle' = (IF idle < IdleExit THEN idle + 1 ELSE idle)
          /\ quiet' \in {0, IF quiet < IdleExit THEN quiet + 1 ELSE quiet}
          /\ UNCHANGED <<at, clients, watchdog, raced>>
      BY <1>1 DEF Tick, Older
    <2>2. idle' \in 0..(IdleExit + 1) /\ quiet' \in 0..IdleExit
      BY <2>1
    <2> QED
      BY <2>1, <2>2
  <1>2. CASE Watchdog
    BY <1>2 DEF Watchdog, ReadClock, CheckTerms, CheckClients, Exit, WatchdogMoves
  <1>3. ASSUME NEW c \in Client, Connect(c) \/ Dropped(c) \/ ReaderEnds(c) PROVE TypeOK'
    BY <1>3 DEF Connect, Dropped, ReaderEnds, Step, Thread
  <1>4. ASSUME NEW c \in Client, Joins(c) PROVE TypeOK'
    BY <1>4 DEF Joins, Joined, Created, Step, Thread
  <1>5. ASSUME NEW c \in Client, NEW t \in Term, Create(c, t) PROVE TypeOK'
    BY <1>5 DEF Create, Thread
  <1>6. ASSUME NEW t \in Term, TerminalEnds(t) PROVE TypeOK'
    BY <1>6 DEF TerminalEnds, Step, Thread
  <1>7. ASSUME NEW x \in Thread, NoteIdle(x) PROVE TypeOK'
    <2>1. \E to \in {"noteClients", "storeEmpty", "storeBusy", "gone"} :
             at' = [at EXCEPT ![x] = to]
      BY <1>7 DEF NoteIdle, NoteTerms, NoteClients, StoreEmpty, StoreBusy, Step
    <2>2. idle' \in {0, idle, NotIdle} /\ raced' \in BOOLEAN /\ UNCHANGED <<clients, watchdog, quiet>>
      BY <1>7 DEF NoteIdle, NoteTerms, NoteClients, StoreEmpty, StoreBusy, Nothing
    <2> QED
      BY <2>1, <2>2
  <1>8. CASE UNCHANGED vars
    BY <1>8 DEF vars
  <1> QED
    BY <1>1, <1>2, <1>3, <1>4, <1>5, <1>6, <1>7, <1>8 DEF Next

\* A clock is started, or left running, only when there is nothing to serve.
LEMMA RestingNext == Honest /\ [Next]_vars => Resting'
  <1> SUFFICES ASSUME TypeOK, Resting, [Next]_vars,
                      ~raced', idle' # NotIdle, ~Arriving'
               PROVE  Nothing' /\ idle' <= quiet'
    BY DEF Honest, Resting
  <1> USE DEF TypeOK
  <1>1. CASE Tick
    <2>1. /\ idle' = Older(idle) /\ quiet' = (IF Nothing THEN Older(quiet) ELSE 0)
          /\ Nothing' = Nothing /\ Arriving' = Arriving /\ raced' = raced
      BY <1>1 DEF Tick, Nothing, Terms, Arriving
    <2>2. idle # NotIdle
      BY <2>1, IdleAssumption DEF Older, NotIdle
    <2>3. Nothing /\ idle <= quiet
      BY <2>1, <2>2 DEF Resting
    <2>4. idle \in 0..IdleExit
      BY <2>2, IdleAssumption DEF NotIdle
    <2> QED
      BY <2>1, <2>3, <2>4, OlderInOrder
  <1>2. CASE Watchdog
    <2>1. UNCHANGED <<at, clients, idle, quiet, raced>>
      BY <1>2 DEF Watchdog, ReadClock, CheckTerms, CheckClients, Exit, WatchdogMoves
    <2> QED
      BY <2>1 DEF Resting, Arriving, Nothing, Terms
  \* Who comes is arriving ...
  <1>3. ASSUME NEW c \in Client, Connect(c) PROVE FALSE
    <2>1. at'[c] = "joining"
      BY <1>3 DEF Connect, Step, Thread
    <2> QED
      BY <2>1 DEF Arriving, Thread
  <1>4. ASSUME NEW c \in Client, NEW t \in Term, Create(c, t) PROVE FALSE
    <2>1. at'[t] = "starting"
      BY <1>4 DEF Create, Thread
    <2> QED
      BY <2>1 DEF Arriving, Thread
  \* ... until it has stopped the clock.
  <1>5. ASSUME NEW c \in Client, Joins(c) PROVE FALSE
    BY <1>5 DEF Joins, Joined, Created
  \* Who goes leaves at least as little behind.
  <1>6. ASSUME NEW c \in Client, Dropped(c) PROVE Nothing' /\ idle' <= quiet'
    <2>1. /\ UNCHANGED <<at, idle, quiet, raced>> /\ clients' = clients \ {c}
          /\ Arriving' = Arriving /\ Terms' = Terms
      BY <1>6 DEF Dropped, Arriving, Terms
    <2> QED
      BY <2>1 DEF Resting, Nothing
  <1>7. ASSUME NEW c \in Client, ReaderEnds(c) PROVE Nothing' /\ idle' <= quiet'
    <2>1. /\ UNCHANGED <<idle, quiet, raced>> /\ clients' = clients \ {c}
          /\ Step(c, "serving", "noteTerms")
      BY <1>7 DEF ReaderEnds
    <2>2. Arriving' = Arriving
      BY <2>1, SameArrivals DEF Thread
    <2>3. Terms' \subseteq Terms
      BY <2>1 DEF Terms, Step, Thread
    <2> QED
      BY <2>1, <2>2, <2>3 DEF Resting, Nothing
  <1>8. ASSUME NEW t \in Term, TerminalEnds(t) PROVE Nothing' /\ idle' <= quiet'
    <2>1. UNCHANGED <<clients, idle, quiet, raced>> /\ Step(t, "running", "noteTerms")
      BY <1>8 DEF TerminalEnds
    <2>2. Arriving' = Arriving
      BY <2>1, SameArrivals DEF Thread
    <2>3. Terms' \subseteq Terms
      BY <2>1 DEF Terms, Step, Thread
    <2> QED
      BY <2>1, <2>2, <2>3 DEF Resting, Nothing
  <1>9. ASSUME NEW x \in Thread, NoteIdle(x) PROVE Nothing' /\ idle' <= quiet'
    <2>1. /\ Arriving' = Arriving
          /\ Terms' \subseteq Terms
          /\ UNCHANGED <<clients, quiet>>
      <3>1. PICK from \in {"noteTerms", "noteClients", "storeEmpty", "storeBusy"},
                 to \in {"noteClients", "storeEmpty", "storeBusy", "gone"} : Step(x, from, to)
        BY <1>9 DEF NoteIdle, NoteTerms, NoteClients, StoreEmpty, StoreBusy
      <3>2. Arriving' = Arriving
        BY <3>1, SameArrivals
      <3>3. Terms' \subseteq Terms
        BY <3>1 DEF Terms, Step, Thread
      <3> QED
        BY <1>9, <3>2, <3>3 DEF NoteIdle, NoteTerms, NoteClients, StoreEmpty, StoreBusy
    <2>2. Nothing => Nothing'
      BY <2>1 DEF Nothing
    <2>3. CASE NoteTerms(x) \/ NoteClients(x)
      <3>1. UNCHANGED <<idle, raced>>
        BY <2>3 DEF NoteTerms, NoteClients
      <3> QED
        BY <2>1, <2>2, <3>1 DEF Resting
    <2>4. CASE StoreEmpty(x)
      <3>1. ~raced /\ Nothing /\ idle' = (IF idle = NotIdle THEN 0 ELSE idle)
        BY <2>4 DEF StoreEmpty
      <3>2. idle # NotIdle => idle <= quiet
        BY <2>1, <3>1 DEF Resting
      <3> QED
        BY <2>1, <2>2, <3>1, <3>2, IdleAssumption
    <2>5. CASE StoreBusy(x)
      BY <2>5 DEF StoreBusy
    <2> QED
      BY <1>9, <2>3, <2>4, <2>5 DEF NoteIdle
  <1>10. CASE UNCHANGED vars
    BY <1>10 DEF vars, Resting, Arriving, Nothing, Terms
  <1> QED
    BY <1>1, <1>2, <1>3, <1>4, <1>5, <1>6, <1>7, <1>8, <1>9, <1>10 DEF Next

\* So the clock is honest always.
LEMMA AlwaysHonest == Spec => []Honest
  <1>1. Honest /\ [Next]_vars => Honest'
    BY TypeNext, RestingNext DEF Honest
  <1> QED
    BY <1>1, HonestInit, PTL DEF Spec

-----------------------------------------------------------------------------
\* Every state of the idle clock and of the threads that touch it is well typed.
THEOREM IdleTypeCorrect == Spec => []TypeOK
  <1>1. Honest => TypeOK
    BY DEF Honest
  <1> QED
    BY <1>1, AlwaysHonest, PTL

\* idle_since never claims more idleness than there has been, unless a
\* note_idle stored what was no longer so.
THEOREM ClockAlwaysHonest == Spec => []ClockHonest
  <1>1. Honest => ClockHonest
    BY DEF Honest, Resting, ClockHonest
  <1> QED
    BY <1>1, AlwaysHonest, PTL
=============================================================================
