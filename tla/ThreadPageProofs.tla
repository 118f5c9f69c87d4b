--------------------------- MODULE ThreadPageProofs ---------------------------
(***************************************************************************)
(* Proofs about ThreadPage, for any threads, bounds and related threads:     *)
(* the page's tables are well typed, the stream waits for one read at most,  *)
(* a gap is always pursued, the screen holds exactly a beginning of the      *)
(* thread's events, and the cards' answers take nothing back.                *)
(***************************************************************************)
EXTENDS ThreadPage, FiniteSetTheorems, TLAPS

\* No two requests the app owes have the same name on the bridge.
UniqueIds == \A r, q \in owed : r.load = q.load /\ r.n = q.n => r = q

Bridge == BridgeOK /\ UniqueIds

\* Nothing is applied before there is a thread, or taken before a snapshot.
OnAThread ==
    /\ stream.thread = NoThread => stream.applied = Unread
    /\ stream.applied = Unread => stream.batch = {}

StreamOK ==
    /\ stream \in Stream
    /\ shown \in [Thread -> SUBSET (1..MaxSeq)]
    /\ torn \in BOOLEAN /\ denied \in BOOLEAN

\* ScreenExact, and the screen shows something.
ScreenBegun ==
    stream.applied # Unread /\ ~torn =>
        \E k \in 1..stream.applied :
            shown[stream.thread] = 1..k /\ stream.batch = (k + 1)..stream.applied

Told == StreamOK /\ OnAThread /\ GapPursued /\ ScreenBegun

PageInv == Bridge /\ OneRead /\ Told /\ related \in Related

-----------------------------------------------------------------------------
(* Natural numbers and the last event without a gap.                       *)

LEMMA LeastNatural ==
    ASSUME NEW T \in SUBSET Nat, T # {}
    PROVE  \E x \in T : \A y \in T : x <= y
<1> DEFINE U == {0..k : k \in T}
<1>1. U \subseteq FiniteSubsetsOf(Nat) /\ U # {}
  <2>1. ASSUME NEW k \in T PROVE 0..k \in FiniteSubsetsOf(Nat)
    BY FS_Interval DEF FiniteSubsetsOf
  <2> QED
    BY <2>1
<1>2. IsWellFoundedOn(StrictSubsetOrdering(Nat), FiniteSubsetsOf(Nat))
  BY FS_StrictSubsetOrderingWellFounded
<1>3. PICK u \in U : \A v \in U : <<v, u>> \notin StrictSubsetOrdering(Nat)
  <2> HIDE DEF U
  <2> QED
    BY <1>1, <1>2, WFMin
<1>4. PICK x \in T : u = 0..x
  OBVIOUS
<1>5. ASSUME NEW y \in T, y < x PROVE FALSE
  <2>1. 0..y \in U /\ 0..y \subseteq 0..x /\ x \in 0..x /\ x \notin 0..y
    BY <1>5
  <2>2. <<0..y, 0..x>> \in StrictSubsetOrdering(Nat)
    BY <2>1 DEF StrictSubsetOrdering
  <2> QED
    BY <1>3, <1>4, <2>1, <2>2
<1> QED
  BY <1>5

LEMMA ReachBounds ==
    ASSUME NEW s \in Stream, s.applied # Unread
    PROVE  /\ Reach(s) \in s.applied..MaxSeq
           /\ (s.applied + 1)..Reach(s) \subseteq s.pending
           /\ Reach(s) + 1 \notin s.pending
<1> DEFINE T == {k \in s.applied..MaxSeq : k + 1 \notin s.pending}
<1>1. /\ s.applied \in 0..MaxSeq /\ s.pending \subseteq 1..MaxSeq
      /\ MaxSeq \in Nat
  BY BridgeAssumption DEF Stream, Unread
<1>2. T \in SUBSET Nat /\ MaxSeq \in T
  BY <1>1
<1>3. PICK k \in T : \A j \in T : k <= j
  BY <1>2, LeastNatural
<1>4. (s.applied + 1)..k \subseteq s.pending
  <2> SUFFICES ASSUME NEW n \in (s.applied + 1)..k, n \notin s.pending
               PROVE  FALSE
    OBVIOUS
  <2>1. k \in s.applied..MaxSeq
    OBVIOUS
  <2>2. n - 1 \in s.applied..MaxSeq /\ (n - 1) + 1 = n /\ n - 1 < k
    BY <1>1, <2>1
  <2>3. n - 1 \in T
    BY <2>2
  <2> QED
    BY <1>1, <1>3, <2>1, <2>2, <2>3
<1> QED
  BY <1>3, <1>4 DEF Reach

-----------------------------------------------------------------------------
(* What the helpers of the stream leave and change.                        *)

LEMMA Scheduled ==
    ASSUME NEW s \in Stream
    PROVE  /\ ScheduleRefresh(s) \in Stream
           /\ ScheduleRefresh(s).thread = s.thread
           /\ ScheduleRefresh(s).applied = s.applied
           /\ ScheduleRefresh(s).pending = s.pending
           /\ ScheduleRefresh(s).batch = s.batch
           /\ ScheduleRefresh(s).reading = s.reading
           /\ ScheduleRefresh(s).again = s.again
           /\ ScheduleRefresh(s).timer \/ ScheduleRefresh(s).reading
BY DEF ScheduleRefresh, Stream

LEMMA Held ==
    ASSUME NEW s \in Stream, NEW n \in 1..MaxSeq, NEW full \in BOOLEAN
    PROVE  /\ Hold(s, n, full) \in Stream
           /\ Hold(s, n, full).thread = s.thread
           /\ Hold(s, n, full).applied = s.applied
           /\ Hold(s, n, full).batch = s.batch
           /\ Hold(s, n, full).timer = s.timer
           /\ Hold(s, n, full).reading = s.reading
           /\ Hold(s, n, full).again = s.again
BY DEF Hold, Stream

LEMMA Taken ==
    ASSUME NEW s \in Stream, s.applied # Unread, NEW k \in s.applied..MaxSeq
    PROVE  /\ TakeTo(s, k) \in Stream
           /\ TakeTo(s, k).thread = s.thread
           /\ TakeTo(s, k).applied = k
           /\ TakeTo(s, k).batch = s.batch \cup ((s.applied + 1)..k)
           /\ TakeTo(s, k).timer = s.timer
           /\ TakeTo(s, k).reading = s.reading
           /\ TakeTo(s, k).again = s.again
<1>1. /\ s.applied \in 0..MaxSeq /\ k \in -1..MaxSeq /\ MaxSeq \in Nat
      /\ (s.applied + 1)..k \subseteq 1..MaxSeq
  BY BridgeAssumption DEF Stream, Unread
<1>2. /\ {n \in s.pending : n > k} \subseteq 1..MaxSeq
      /\ s.batch \cup ((s.applied + 1)..k) \subseteq 1..MaxSeq
  BY <1>1 DEF Stream
<1>3. (s.frame \/ k > s.applied) \in BOOLEAN
  OBVIOUS
<1> QED
  BY <1>1, <1>2, <1>3 DEF TakeTo, Stream

\* drainPending takes what follows without a gap and pursues the gap that is left.
LEMMA Drained ==
    ASSUME NEW s \in Stream, s.applied # Unread
    PROVE  /\ Drain(s) \in Stream
           /\ Drain(s).thread = s.thread
           /\ Drain(s).applied \in s.applied..MaxSeq
           /\ Drain(s).batch = s.batch \cup ((s.applied + 1)..Drain(s).applied)
           /\ Drain(s).reading = s.reading
           /\ Drain(s).again = s.again
           /\ Drain(s).pending # {} => Drain(s).timer \/ Drain(s).reading
<1> DEFINE done == TakeTo(s, Reach(s))
<1>1. /\ done \in Stream /\ done.thread = s.thread
      /\ done.applied \in s.applied..MaxSeq
      /\ done.batch = s.batch \cup ((s.applied + 1)..done.applied)
      /\ done.reading = s.reading /\ done.again = s.again
  BY ReachBounds, Taken
<1>2. Drain(s) = IF done.pending = {} THEN done ELSE ScheduleRefresh(done)
  BY DEF Drain
<1> HIDE DEF done
<1>3. CASE done.pending = {}
  BY <1>1, <1>2, <1>3
<1>4. CASE done.pending # {}
  BY <1>1, <1>2, <1>4, Scheduled
<1> QED
  BY <1>3, <1>4

\* applySnapshot: the snapshot's events and what follows them, or, when it is
\* older than what is applied, what was there and what follows that.
LEMMA Applied ==
    ASSUME NEW s \in Stream, NEW n \in 1..MaxSeq
    PROVE  /\ ApplySnapshot(s, n) \in Stream
           /\ ApplySnapshot(s, n).thread = s.thread
           /\ ApplySnapshot(s, n).applied # Unread
           /\ ApplySnapshot(s, n).reading = s.reading
           /\ ApplySnapshot(s, n).again = s.again
           /\ ApplySnapshot(s, n).pending # {} =>
                 ApplySnapshot(s, n).timer \/ ApplySnapshot(s, n).reading
           /\ n >= s.applied =>
                 /\ ApplySnapshot(s, n).applied \in n..MaxSeq
                 /\ ApplySnapshot(s, n).batch = (n + 1)..ApplySnapshot(s, n).applied
           /\ ~(n >= s.applied) =>
                 /\ s.applied # Unread
                 /\ ApplySnapshot(s, n).applied \in s.applied..MaxSeq
                 /\ ApplySnapshot(s, n).batch =
                       s.batch \cup ((s.applied + 1)..ApplySnapshot(s, n).applied)
<1>0. MaxSeq \in Nat /\ n \in -1..MaxSeq /\ n # Unread /\ s.applied \in -1..MaxSeq
  BY BridgeAssumption DEF Stream, Unread
<1>1. CASE n >= s.applied
  <2> DEFINE r == [s EXCEPT !.batch = {}, !.applied = n]
  <2>1. /\ r \in Stream /\ r.thread = s.thread /\ r.applied = n /\ r.batch = {}
        /\ r.reading = s.reading /\ r.again = s.again
    BY <1>0 DEF Stream
  <2>2. ApplySnapshot(s, n) = Drain(r)
    BY <1>1 DEF ApplySnapshot, Replaces
  <2> HIDE DEF r
  <2>3. r.applied # Unread
    BY <1>0, <2>1
  <2>4. Drain(r).applied # Unread
    BY <1>0, <2>1, <2>3, Drained DEF Unread
  <2> QED
    BY <1>1, <2>1, <2>2, <2>3, <2>4, Drained
<1>2. CASE ~(n >= s.applied)
  <2>1. ApplySnapshot(s, n) = Drain(s)
    BY <1>2 DEF ApplySnapshot, Replaces
  <2>2. s.applied # Unread
    BY <1>0, <1>2 DEF Unread
  <2>3. Drain(s).applied # Unread
    BY <1>0, <2>2, Drained DEF Unread
  <2> QED
    BY <1>2, <2>1, <2>2, <2>3, Drained
<1> QED
  BY <1>1, <1>2

-----------------------------------------------------------------------------
(* The table of requests.                                                  *)

\* A reply settles the request it was made for.
LEMMA Settled ==
    ASSUME Bridge, NEW r \in owed, NEW w \in Settles(r)
    PROVE  w = r /\ w \in waiting
BY DEF Bridge, BridgeOK, UniqueIds, Settles, Id

\* Some entries go, some debts are forgotten, new requests have names of their own.
LEMMA TableChanges ==
    ASSUME Bridge, NEW debt \in SUBSET owed, NEW kept \in SUBSET waiting,
           kept \subseteq debt, NEW new \in SUBSET Request,
           \A r \in new : r.load = load /\ \A d \in debt : ~(d.load = load /\ d.n = r.n),
           \A r, q \in new : r.n = q.n => r = q,
           load' = load, waiting' = kept \cup new, owed' = debt \cup new
    PROVE  Bridge'
<1>1. BridgeOK'
  BY DEF Bridge, BridgeOK
<1>2. ASSUME NEW r \in owed', NEW q \in owed', r.load = q.load, r.n = q.n
      PROVE  r = q
  BY <1>2 DEF Bridge, UniqueIds
<1> QED
  BY <1>1, <1>2 DEF Bridge, UniqueIds

LEMMA Asked ==
    ASSUME Bridge, NEW t \in Thread, NEW debt \in SUBSET owed, Free(debt) # {}
    PROVE  /\ ReadOf(t, Free(debt)) \in Request
           /\ ReadOf(t, Free(debt)).load = load
           /\ ReadOf(t, Free(debt)).by = "stream"
           /\ ReadOf(t, Free(debt)).about = t
           /\ \A d \in debt : ~(d.load = load /\ d.n = ReadOf(t, Free(debt)).n)
<1> DEFINE n == CHOOSE m \in Free(debt) : TRUE
<1>1. n \in Free(debt)
  OBVIOUS
<1>2. n \in 1..MaxAsked /\ \A d \in debt : ~(d.load = load /\ d.n = n)
  BY <1>1 DEF Free
<1>3. ReadOf(t, Free(debt)) = [load |-> load, n |-> n, by |-> "stream", about |-> t,
                               child |-> FALSE, mentions |-> 0]
  BY DEF ReadOf
<1>4. 0 \in 0..MaxSeq /\ load \in 1..MaxLoad
  BY BridgeAssumption DEF Bridge, BridgeOK
<1> HIDE DEF n
<1> QED
  BY <1>2, <1>3, <1>4 DEF Request

\* The page waits for no read of the stream while it has no thread.
LEMMA NoReadNowhere ==
    ASSUME Bridge, OneRead, stream.thread = NoThread
    PROVE  ~stream.reading
BY BridgeAssumption DEF Bridge, BridgeOK, OneRead, Request

\* A read starts where none was.
LEMMA Started ==
    ASSUME Bridge, OneRead, NEW s \in Stream, s.thread \in Thread,
           ~stream.reading, StartRead(s)
    PROVE  /\ Bridge' /\ OneRead'
           /\ stream' = [s EXCEPT !.reading = TRUE, !.again = FALSE]
<1> DEFINE q == ReadOf(s.thread, Unused)
<1>1. /\ stream' = [s EXCEPT !.reading = TRUE, !.again = FALSE]
      /\ waiting' = waiting \cup {q} /\ owed' = owed \cup {q} /\ load' = load
      /\ Free(owed) # {}
  BY DEF StartRead, Post, Unused
<1>2. /\ q \in Request /\ q.load = load /\ q.by = "stream" /\ q.about = s.thread
      /\ \A d \in owed : ~(d.load = load /\ d.n = q.n)
  BY <1>1, Asked DEF Unused
<1>3. stream'.reading = TRUE /\ stream'.thread = s.thread
  BY <1>1 DEF Stream
<1> HIDE DEF q
<1>4. Bridge'
  <2>1. waiting \subseteq owed
    BY DEF Bridge, BridgeOK
  <2>2. /\ {q} \in SUBSET Request /\ \A r, p \in {q} : r.n = p.n => r = p
        /\ \A r \in {q} : r.load = load /\ \A d \in owed : ~(d.load = load /\ d.n = r.n)
    BY <1>2
  <2> QED
    BY <1>1, <2>1, <2>2, TableChanges
<1>5. \A w \in waiting : w.by # "stream"
  BY DEF OneRead
<1>6. OneRead'
  BY <1>1, <1>2, <1>3, <1>5 DEF OneRead
<1> QED
  BY <1>1, <1>4, <1>6

\* Requests only leave the tables.
LEMMA TableShrinks ==
    ASSUME Bridge, NEW debt \in SUBSET owed, NEW kept \in SUBSET waiting,
           kept \subseteq debt, load' = load, waiting' = kept, owed' = debt
    PROVE  Bridge'
<1>1. BridgeOK'
  BY DEF Bridge, BridgeOK
<1>2. UniqueIds'
  BY DEF Bridge, UniqueIds
<1> QED
  BY <1>1, <1>2 DEF Bridge

\* A read is over, and the fresh one chained to it starts.
LEMMA Continued ==
    ASSUME Bridge, OneRead, NEW w \in waiting, w.by = "stream",
           NEW s \in Stream, s.thread = stream.thread,
           NEW debt \in SUBSET owed, waiting \ {w} \subseteq debt,
           Continue(w, s, debt)
    PROVE  /\ Bridge' /\ OneRead'
           /\ stream' = [s EXCEPT !.reading = s.again, !.again = FALSE]
<1> DEFINE q == ReadOf(s.thread, Free(debt))
           next == IF s.again THEN {q} ELSE {}
<1>1. /\ stream' = [s EXCEPT !.reading = s.again, !.again = FALSE]
      /\ waiting' = (waiting \ {w}) \cup next /\ owed' = debt \cup next /\ load' = load
      /\ Free(debt) # {}
  BY DEF Continue
<1>2. s.thread \in Thread
  BY DEF OneRead, Bridge, BridgeOK, Request
<1>3. /\ q \in Request /\ q.load = load /\ q.by = "stream" /\ q.about = s.thread
      /\ \A d \in debt : ~(d.load = load /\ d.n = q.n)
  BY <1>1, <1>2, Asked
<1>4. stream'.reading = s.again /\ stream'.thread = s.thread
  BY <1>1 DEF Stream
<1>5. \A v \in waiting \ {w} : v.by # "stream"
  BY DEF OneRead
<1> HIDE DEF q
<1>6. Bridge'
  <2>1. /\ next \in SUBSET Request /\ \A r, p \in next : r.n = p.n => r = p
        /\ \A r \in next : r.load = load /\ \A d \in debt : ~(d.load = load /\ d.n = r.n)
    BY <1>3
  <2>2. waiting \ {w} \in SUBSET waiting
    OBVIOUS
  <2> HIDE DEF next
  <2> QED
    BY <1>1, <2>1, <2>2, TableChanges
<1>7. OneRead'
  BY <1>1, <1>3, <1>4, <1>5 DEF OneRead
<1> QED
  BY <1>1, <1>6, <1>7

-----------------------------------------------------------------------------
(* The screen.                                                             *)

\* Events taken without a gap wait for the frame behind what is shown.
LEMMA Extended ==
    ASSUME StreamOK, ScreenBegun, stream' \in Stream,
           stream'.thread = stream.thread, stream.applied # Unread,
           stream'.applied \in stream.applied..MaxSeq,
           stream'.batch = stream.batch \cup ((stream.applied + 1)..stream'.applied),
           shown' = shown, torn' = torn
    PROVE  ScreenBegun'
<1> SUFFICES ASSUME ~torn
             PROVE  \E k \in 1..stream'.applied :
                       /\ shown[stream.thread] = 1..k
                       /\ stream'.batch = (k + 1)..stream'.applied
  BY DEF ScreenBegun
<1>1. PICK k \in 1..stream.applied :
         shown[stream.thread] = 1..k /\ stream.batch = (k + 1)..stream.applied
  BY DEF ScreenBegun
<1>2. stream.applied \in Int /\ stream'.applied \in Int /\ stream.applied <= stream'.applied
  BY BridgeAssumption DEF StreamOK, Stream, Unread
<1>3. k \in 1..stream'.applied
  BY <1>2
<1>4. stream'.batch = (k + 1)..stream'.applied
  BY <1>1, <1>2
<1> QED
  BY <1>1, <1>3, <1>4

\* applySnapshot, on the screen and in the store.
LEMMA SnapshotShown ==
    ASSUME Told, NEW t \in Thread, NEW n \in 1..MaxSeq, NEW s \in Stream,
           stream.thread \in {t, NoThread}, s.thread = t,
           s.applied = stream.applied, s.batch = stream.batch,
           stream' \in Stream, stream'.thread = t,
           stream'.applied = ApplySnapshot(s, n).applied,
           stream'.batch = ApplySnapshot(s, n).batch,
           Shows(n, t), denied' \in BOOLEAN
    PROVE  StreamOK' /\ OnAThread' /\ ScreenBegun'
<1>0. t # NoThread /\ MaxSeq \in Nat
  BY BridgeAssumption
<1>1. stream'.applied # Unread
  BY Applied
<1>2. OnAThread'
  BY <1>0, <1>1 DEF OnAThread
<1>3. CASE n >= stream.applied
  <2>1. /\ shown' = [shown EXCEPT ![t] = 1..n] /\ torn' = FALSE
    BY <1>3 DEF Shows, Replaces, Synced
  <2>2. stream'.applied \in n..MaxSeq /\ stream'.batch = (n + 1)..stream'.applied
    BY <1>3, Applied
  <2>3. 1..n \in SUBSET (1..MaxSeq)
    BY <1>0
  <2>4. shown' \in [Thread -> SUBSET (1..MaxSeq)] /\ shown'[t] = 1..n
    BY <2>1, <2>3 DEF Told, StreamOK
  <2>5. n \in 1..stream'.applied
    BY <1>0, <2>2
  <2>6. StreamOK' /\ ScreenBegun'
    BY <2>1, <2>2, <2>4, <2>5 DEF StreamOK, ScreenBegun
  <2> QED
    BY <1>2, <2>6
<1>4. CASE ~(n >= stream.applied)
  <2>1. shown' = shown /\ torn' = torn
    BY <1>4 DEF Shows, Replaces
  <2>2. /\ stream.applied # Unread
        /\ stream'.applied \in stream.applied..MaxSeq
        /\ stream'.batch = stream.batch \cup ((stream.applied + 1)..stream'.applied)
    BY <1>4, Applied
  <2>3. stream'.thread = stream.thread
    BY <2>2 DEF Told, OnAThread
  <2>4. StreamOK' /\ ScreenBegun'
    BY <2>1, <2>2, <2>3, Extended DEF Told, StreamOK
  <2> QED
    BY <1>2, <2>4
<1> QED
  BY <1>3, <1>4

\* What is shown and taken stays, and a gap that is left has a timer or a read.
LEMMA Unshown ==
    ASSUME Told, stream' \in Stream,
           stream'.thread = stream.thread, stream'.applied = stream.applied,
           stream'.batch = stream.batch,
           stream'.thread # NoThread /\ stream'.pending # {}
               => stream'.timer \/ stream'.reading \/ TurnedAway',
           shown' = shown, torn' = torn, denied' \in BOOLEAN
    PROVE  Told'
BY DEF Told, StreamOK, OnAThread, GapPursued, TurnedAway, ScreenBegun

-----------------------------------------------------------------------------
(* The steps of the stream.                                                *)

LEMMA EmptyStream ==
    ASSUME StreamOK, NEW t \in Thread \cup {NoThread}
    PROVE  /\ OnThread(t) \in Stream /\ OnThread(t).thread = t
           /\ OnThread(t).applied = Unread /\ OnThread(t).batch = {}
           /\ OnThread(t).pending = {} /\ OnThread(t).reading = FALSE
<1>1. Unread \in -1..MaxSeq /\ stream.frame \in BOOLEAN
  BY BridgeAssumption DEF Unread, StreamOK, Stream
<1> QED
  BY <1>1 DEF OnThread, Stream

\* The bridge and the reads stay as they are.
LEMMA BridgeStill ==
    ASSUME Bridge, OneRead, UNCHANGED bridgeVars,
           stream'.reading = stream.reading,
           stream.reading => stream'.thread = stream.thread
    PROVE  Bridge' /\ OneRead'
BY DEF Bridge, BridgeOK, UniqueIds, OneRead, bridgeVars

LEMMA PushSnapshotStep ==
    ASSUME PageInv, NEW t \in Thread, NEW n \in 1..MaxSeq, PushSnapshot(t, n)
    PROVE  (Bridge /\ OneRead /\ Told)'
<1>0. t # NoThread /\ StreamOK /\ stream \in Stream /\ denied' \in BOOLEAN
  BY BridgeAssumption DEF PageInv, Told, StreamOK, PushSnapshot
<1>1. CASE stream.thread = t /\ stream' = ApplySnapshot(stream, n)
  <2>1. /\ stream' \in Stream /\ stream'.thread = t /\ stream'.reading = stream.reading
        /\ stream'.pending # {} => stream'.timer \/ stream'.reading
    BY <1>0, <1>1, Applied
  <2>2. StreamOK' /\ OnAThread' /\ ScreenBegun'
    BY <1>0, <1>1, <2>1, SnapshotShown DEF PageInv, PushSnapshot
  <2>3. Bridge' /\ OneRead'
    BY <1>1, <2>1, BridgeStill DEF PageInv, PushSnapshot
  <2> QED
    BY <2>1, <2>2, <2>3 DEF Told, GapPursued
<1>2. CASE stream.thread = NoThread /\ stream' = ApplySnapshot(OnThread(t), n)
  <2>1. /\ OnThread(t) \in Stream /\ OnThread(t).thread = t
        /\ OnThread(t).applied = Unread /\ OnThread(t).batch = {}
        /\ OnThread(t).reading = FALSE
    BY <1>0, EmptyStream
  <2>2. /\ stream' \in Stream /\ stream'.thread = t /\ stream'.reading = FALSE
        /\ stream'.pending # {} => stream'.timer \/ stream'.reading
    BY <1>2, <2>1, Applied
  <2>3. stream.applied = Unread /\ stream.batch = {}
    BY <1>2 DEF PageInv, Told, OnAThread
  <2>4. StreamOK' /\ OnAThread' /\ ScreenBegun'
    BY <1>0, <1>2, <2>1, <2>2, <2>3, SnapshotShown DEF PageInv, PushSnapshot
  <2>5. stream.reading = FALSE
    BY <1>0, <1>2, NoReadNowhere DEF PageInv, Stream
  <2>6. Bridge' /\ OneRead'
    BY <2>2, <2>5, BridgeStill DEF PageInv, PushSnapshot
  <2> QED
    BY <2>2, <2>4, <2>6 DEF Told, GapPursued
<1> QED
  BY <1>1, <1>2 DEF PushSnapshot

LEMMA PushEventStep ==
    ASSUME PageInv, NEW t \in Thread, NEW n \in 1..MaxSeq, PushEvent(t, n)
    PROVE  (Bridge /\ OneRead /\ Told)'
<1>0. /\ stream \in Stream /\ UNCHANGED bridgeVars /\ shown' = shown /\ torn' = torn
      /\ t # NoThread /\ denied' = FALSE
  BY BridgeAssumption DEF PageInv, Told, StreamOK, PushEvent
<1>1. ASSUME NEW full \in BOOLEAN, stream' = ScheduleRefresh(Hold(stream, n, full))
      PROVE  (Bridge /\ OneRead /\ Told)'
  <2>1. /\ stream' \in Stream /\ stream'.thread = stream.thread
        /\ stream'.applied = stream.applied /\ stream'.batch = stream.batch
        /\ stream'.reading = stream.reading /\ (stream'.timer \/ stream'.reading)
    BY <1>0, <1>1, Held, Scheduled
  <2>2. Told'
    BY <1>0, <2>1, Unshown DEF PageInv
  <2> QED
    BY <1>0, <2>1, <2>2, BridgeStill DEF PageInv
<1>2. ASSUME NEW full \in BOOLEAN, stream.reading, stream' = Hold(stream, n, full)
      PROVE  (Bridge /\ OneRead /\ Told)'
  <2>1. /\ stream' \in Stream /\ stream'.thread = stream.thread
        /\ stream'.applied = stream.applied /\ stream'.batch = stream.batch
        /\ stream'.reading = stream.reading
    BY <1>0, <1>2, Held
  <2>2. Told'
    BY <1>0, <1>2, <2>1, Unshown DEF PageInv
  <2> QED
    BY <1>0, <2>1, <2>2, BridgeStill DEF PageInv
<1>3. CASE /\ stream.applied # Unread /\ n = stream.applied + 1
           /\ stream' = LET s == TakeTo(stream, n)
                        IN  IF s.pending = {} THEN s ELSE Drain(s)
  <2> DEFINE s == TakeTo(stream, n)
  <2>1. n \in stream.applied..MaxSeq /\ stream.applied \in Int /\ n # Unread
    BY <1>0, <1>3, BridgeAssumption DEF Stream, Unread
  <2>2. /\ s \in Stream /\ s.thread = stream.thread /\ s.applied = n
        /\ s.batch = stream.batch \cup ((stream.applied + 1)..n)
        /\ s.reading = stream.reading
    BY <1>0, <1>3, <2>1, Taken
  <2>3. stream' = IF s.pending = {} THEN s ELSE Drain(s)
    BY <1>3
  <2> HIDE DEF s
  <2>4. /\ stream' \in Stream /\ stream'.thread = stream.thread
        /\ stream'.applied \in n..MaxSeq
        /\ stream'.batch = s.batch \cup ((n + 1)..stream'.applied)
        /\ stream'.reading = stream.reading
        /\ stream'.pending # {} => stream'.timer \/ stream'.reading
    <3>1. CASE s.pending = {}
      <4>1. stream' = s /\ n \in n..MaxSeq /\ (n + 1)..n = {}
        BY <2>1, <2>3, <3>1
      <4> QED
        BY <2>2, <3>1, <4>1
    <3>2. CASE s.pending # {}
      BY <2>1, <2>2, <2>3, <3>2, Drained
    <3> QED
      BY <3>1, <3>2
  <2>5. /\ stream'.applied \in stream.applied..MaxSeq
        /\ stream'.batch = stream.batch \cup ((stream.applied + 1)..stream'.applied)
    BY <1>3, <2>1, <2>2, <2>4
  <2>6. ScreenBegun'
    BY <1>0, <1>3, <2>4, <2>5, Extended DEF PageInv, Told
  <2>7. stream'.applied # Unread /\ stream.thread # NoThread
    BY <1>3, <2>4 DEF PageInv, Told, OnAThread, Unread
  <2>8. Told'
    BY <1>0, <2>4, <2>6, <2>7 DEF PageInv, Told, StreamOK, OnAThread, GapPursued
  <2> QED
    BY <1>0, <2>4, <2>8, BridgeStill DEF PageInv
<1> QED
  BY <1>1, <1>2, <1>3 DEF PushEvent, MayBeFull

LEMMA FlushStep ==
    ASSUME PageInv, Flush
    PROVE  (Bridge /\ OneRead /\ Told)'
<1>0. stream \in Stream /\ MaxSeq \in Nat
  BY BridgeAssumption DEF PageInv, Told, StreamOK
<1>1. /\ stream' = [stream EXCEPT !.frame = FALSE, !.batch = {}]
      /\ UNCHANGED bridgeVars /\ torn' = torn /\ denied' = denied
  BY DEF Flush
<1>2. /\ stream' \in Stream /\ stream'.thread = stream.thread
      /\ stream'.applied = stream.applied /\ stream'.batch = {}
      /\ stream'.pending = stream.pending /\ stream'.timer = stream.timer
      /\ stream'.reading = stream.reading
  BY <1>0, <1>1 DEF Stream
<1>3. StreamOK'
  <2>1. shown' \in [Thread -> SUBSET (1..MaxSeq)]
    BY <1>0 DEF PageInv, Told, StreamOK, Flush, Stream
  <2> QED
    BY <1>1, <1>2, <2>1 DEF PageInv, Told, StreamOK
<1>4. ScreenBegun'
  <2> SUFFICES ASSUME stream.applied # Unread, ~torn
               PROVE  \E k \in 1..stream.applied :
                         shown'[stream.thread] = 1..k /\ {} = (k + 1)..stream.applied
    BY <1>1, <1>2 DEF ScreenBegun
  <2>1. PICK k \in 1..stream.applied :
           shown[stream.thread] = 1..k /\ stream.batch = (k + 1)..stream.applied
    BY DEF PageInv, Told, ScreenBegun
  <2>2. stream.applied \in Nat
    BY <1>0 DEF Stream, Unread
  <2>3. stream.thread \in Thread
    BY <1>0 DEF PageInv, Told, OnAThread, Stream
  <2>4. CASE stream.batch = {}
    BY <2>1, <2>4 DEF Flush
  <2>5. CASE stream.batch # {}
    <3>1. shown' = [shown EXCEPT ![stream.thread] = @ \cup stream.batch]
      BY <2>5 DEF Flush
    <3>2. shown'[stream.thread] = shown[stream.thread] \cup stream.batch
      BY <2>3, <3>1 DEF PageInv, Told, StreamOK
    <3>3. (1..k) \cup ((k + 1)..stream.applied) = 1..stream.applied
      BY <2>2
    <3>4. stream.applied \in 1..stream.applied /\ {} = (stream.applied + 1)..stream.applied
      BY <2>2
    <3> QED
      BY <2>1, <3>2, <3>3, <3>4
  <2> QED
    BY <2>4, <2>5
<1>5. Told'
  BY <1>1, <1>2, <1>3, <1>4 DEF PageInv, Told, OnAThread, GapPursued, TurnedAway
<1> QED
  BY <1>1, <1>2, <1>5, BridgeStill DEF PageInv

\* A read that starts leaves the screen as it is.
LEMMA StartedTold ==
    ASSUME PageInv, NEW s \in Stream, s.thread = stream.thread,
           s.applied = stream.applied, s.batch = stream.batch,
           stream.thread \in Thread, ~stream.reading, StartRead(s),
           shown' = shown, torn' = torn, denied' = denied
    PROVE  (Bridge /\ OneRead /\ Told)'
<1>1. Bridge' /\ OneRead' /\ stream' = [s EXCEPT !.reading = TRUE, !.again = FALSE]
  BY Started DEF PageInv
<1>2. /\ stream' \in Stream /\ stream'.thread = stream.thread
      /\ stream'.applied = stream.applied /\ stream'.batch = stream.batch
      /\ stream'.reading = TRUE
  BY <1>1 DEF Stream
<1>3. Told'
  BY <1>2, Unshown DEF PageInv, Told, StreamOK
<1> QED
  BY <1>1, <1>3

LEMMA TimerStep ==
    ASSUME PageInv, TimerFires
    PROVE  (Bridge /\ OneRead /\ Told)'
<1> DEFINE s == [stream EXCEPT !.timer = FALSE]
<1>0. stream \in Stream
  BY DEF PageInv, Told, StreamOK
<1>1. /\ s \in Stream /\ s.thread = stream.thread /\ s.applied = stream.applied
      /\ s.batch = stream.batch /\ s.reading = stream.reading /\ s.pending = stream.pending
  BY <1>0 DEF Stream
<1>2. shown' = shown /\ torn' = torn /\ denied' = denied
  BY DEF TimerFires
<1>3. IF s.thread = NoThread \/ s.reading
      THEN stream' = s /\ UNCHANGED bridgeVars ELSE StartRead(s)
  BY DEF TimerFires
<1> HIDE DEF s
<1>4. CASE s.thread = NoThread \/ s.reading
  <2>1. stream' = s /\ UNCHANGED bridgeVars
    BY <1>3, <1>4
  <2>2. Told'
    BY <1>1, <1>2, <1>4, <2>1, Unshown DEF PageInv, Told, StreamOK, GapPursued
  <2> QED
    BY <1>1, <2>1, <2>2, BridgeStill DEF PageInv
<1>5. CASE ~(s.thread = NoThread \/ s.reading)
  <2>1. stream.thread \in Thread /\ ~stream.reading /\ StartRead(s)
    BY <1>0, <1>1, <1>3, <1>5 DEF Stream
  <2> QED
    BY <1>1, <1>2, <2>1, StartedTold
<1> QED
  BY <1>4, <1>5

LEMMA UnpromptedStep ==
    ASSUME PageInv, ReadUnprompted
    PROVE  (Bridge /\ OneRead /\ Told)'
<1>1. stream \in Stream
  BY DEF PageInv, Told, StreamOK
<1>2. /\ stream.thread \in Thread /\ ~stream.reading /\ StartRead(stream)
      /\ shown' = shown /\ torn' = torn /\ denied' = denied
  BY <1>1 DEF ReadUnprompted, Stream
<1> QED
  BY <1>1, <1>2, StartedTold

LEMMA FreshStep ==
    ASSUME PageInv, ReadFresh
    PROVE  (Bridge /\ OneRead /\ Told)'
<1>0. stream \in Stream /\ shown' = shown /\ torn' = torn /\ denied' = denied
  BY DEF PageInv, Told, StreamOK, ReadFresh
<1>1. CASE /\ stream.reading /\ stream' = [stream EXCEPT !.again = TRUE]
           /\ UNCHANGED bridgeVars
  <2>1. /\ stream' \in Stream /\ stream'.thread = stream.thread
        /\ stream'.applied = stream.applied /\ stream'.batch = stream.batch
        /\ stream'.reading = stream.reading
    BY <1>0, <1>1 DEF Stream
  <2>2. Told'
    BY <1>0, <1>1, <2>1, Unshown DEF PageInv, Told, StreamOK
  <2> QED
    BY <1>1, <2>1, <2>2, BridgeStill DEF PageInv
<1>2. CASE ~stream.reading /\ StartRead(stream)
  <2>1. stream.thread \in Thread
    BY <1>0 DEF ReadFresh, Stream
  <2> QED
    BY <1>0, <1>2, <2>1, StartedTold
<1> QED
  BY <1>1, <1>2 DEF ReadFresh

\* A read that brought nothing new: what is shown stays.
LEMMA OverTold ==
    ASSUME PageInv, NEW w \in waiting, w.by = "stream",
           NEW s \in Stream, s.thread = stream.thread,
           s.applied = stream.applied, s.batch = stream.batch,
           s.pending # {} => s.timer \/ (s.applied = Unread /\ denied'),
           NEW debt \in SUBSET owed, waiting \ {w} \subseteq debt,
           Continue(w, s, debt), shown' = shown, torn' = torn,
           denied' \in BOOLEAN
    PROVE  (Bridge /\ OneRead /\ Told)'
<1>1. /\ Bridge' /\ OneRead'
      /\ stream' = [s EXCEPT !.reading = s.again, !.again = FALSE]
  BY Continued DEF PageInv
<1>2. /\ stream' \in Stream /\ stream'.thread = stream.thread
      /\ stream'.applied = stream.applied /\ stream'.batch = stream.batch
      /\ stream'.pending = s.pending /\ stream'.timer = s.timer
  BY <1>1 DEF Stream
<1>3. Told'
  BY <1>2, Unshown DEF PageInv, TurnedAway
<1> QED
  BY <1>1, <1>3

LEMMA Over ==
    ASSUME StreamOK
    PROVE  /\ ReadOver \in Stream /\ ReadOver.thread = stream.thread
           /\ ReadOver.applied = stream.applied /\ ReadOver.batch = stream.batch
           /\ ReadOver.pending = stream.pending /\ ReadOver.timer = stream.timer
           /\ ReadOver.reading = FALSE
BY DEF StreamOK, ReadOver, Stream

LEMMA ReadAnsweredStep ==
    ASSUME PageInv, NEW w \in waiting, w.by = "stream", NEW n \in 1..MaxSeq,
           ReadAnswered(w, w, n)
    PROVE  (Bridge /\ OneRead /\ Told)'
<1> DEFINE a == ApplySnapshot(ReadOver, n)
<1>0. StreamOK /\ w \in owed /\ w.about \in Thread /\ w.about = stream.thread
  BY DEF PageInv, Told, Bridge, BridgeOK, OneRead, Request
<1>1. /\ a \in Stream /\ a.thread = stream.thread /\ a.reading = FALSE
      /\ a.pending # {} => a.timer \/ a.reading
  BY <1>0, Over, Applied
<1>2. waiting \ {w} \subseteq owed \ {w}
  BY DEF PageInv, Bridge, BridgeOK
<1>3. Continue(w, a, owed \ {w}) /\ Shows(n, w.about) /\ denied' = FALSE
  BY DEF ReadAnswered
<1> HIDE DEF a
<1>4. /\ Bridge' /\ OneRead'
      /\ stream' = [a EXCEPT !.reading = a.again, !.again = FALSE]
  BY <1>1, <1>2, <1>3, Continued DEF PageInv
<1>5. /\ stream' \in Stream /\ stream'.thread = stream.thread
      /\ stream'.applied = a.applied /\ stream'.batch = a.batch
      /\ stream'.pending = a.pending /\ stream'.timer = a.timer
  BY <1>1, <1>4 DEF Stream
<1>6. StreamOK' /\ OnAThread' /\ ScreenBegun'
  <2>1. /\ stream'.applied = ApplySnapshot(ReadOver, n).applied
        /\ stream'.batch = ApplySnapshot(ReadOver, n).batch
    BY <1>5 DEF a
  <2> QED
    BY <1>0, <1>3, <1>5, <2>1, Over, SnapshotShown DEF PageInv
<1>7. Told'
  BY <1>1, <1>5, <1>6 DEF Told, GapPursued
<1> QED
  BY <1>4, <1>7

LEMMA StreamReplyStep ==
    ASSUME PageInv, NEW r \in owed, StreamReply(r)
    PROVE  (Bridge /\ OneRead /\ Told)'
<1>1. PICK w \in Settles(r) :
        /\ w.by = "stream"
        /\ \/ \E n \in Readable : ReadAnswered(r, w, n)
           \/ ReadFoundNone(r, w)
           \/ ReadFailed(r, w)
  BY DEF StreamReply
<1>2. w = r /\ w \in waiting /\ StreamOK
  BY Settled DEF PageInv, Told
<1>3. waiting \ {w} \subseteq owed \ {w} /\ owed \ {w} \in SUBSET owed
  BY DEF PageInv, Bridge, BridgeOK
<1>4. ASSUME NEW n \in Readable, ReadAnswered(r, w, n)
      PROVE  (Bridge /\ OneRead /\ Told)'
  <2>1. n \in 1..MaxSeq
    BY StreamAssumption
  <2> QED
    BY <1>1, <1>2, <1>4, <2>1, ReadAnsweredStep
<1>5. CASE ReadFoundNone(r, w)
  <2>1. /\ Continue(w, Drain(ReadOver), owed \ {w})
        /\ shown' = shown /\ torn' = torn /\ denied' \in BOOLEAN
        /\ denied' = (stream.applied = Unread /\ stream.pending # {})
    BY <1>2, <1>5 DEF ReadFoundNone
  <2>2. CASE stream.applied = Unread
    <3>1. Drain(ReadOver) = ReadOver
      BY <1>2, <2>2, Over DEF Drain
    <3>2. /\ ReadOver \in Stream /\ ReadOver.thread = stream.thread
          /\ ReadOver.applied = Unread /\ ReadOver.batch = stream.batch
          /\ ReadOver.applied = stream.applied /\ ReadOver.pending = stream.pending
      BY <1>2, <2>2, Over
    <3>3. ReadOver.pending # {} => denied'
      BY <2>1, <2>2, <3>2
    <3>4. Continue(w, ReadOver, owed \ {w})
      BY <2>1, <3>1
    <3> QED
      BY <1>1, <1>2, <1>3, <2>1, <3>2, <3>3, <3>4, OverTold
  <2>3. CASE stream.applied # Unread
    <3> DEFINE d == Drain(ReadOver)
    <3>1. /\ d \in Stream /\ d.thread = stream.thread /\ d.reading = FALSE
          /\ d.applied \in stream.applied..MaxSeq
          /\ d.batch = stream.batch \cup ((stream.applied + 1)..d.applied)
          /\ d.pending # {} => d.timer \/ d.reading
      BY <1>2, <2>3, Over, Drained
    <3> HIDE DEF d
    <3>2. /\ Bridge' /\ OneRead'
          /\ stream' = [d EXCEPT !.reading = d.again, !.again = FALSE]
      BY <1>1, <1>2, <1>3, <2>1, <3>1, Continued DEF PageInv, d
    <3>3. /\ stream' \in Stream /\ stream'.thread = stream.thread
          /\ stream'.applied = d.applied /\ stream'.batch = d.batch
          /\ stream'.pending = d.pending /\ stream'.timer = d.timer
      BY <3>1, <3>2 DEF Stream
    <3>4. ScreenBegun'
      BY <2>1, <2>3, <3>1, <3>3, Extended DEF PageInv, Told
    <3>5. stream'.applied # Unread /\ stream.thread # NoThread
      BY <1>2, <2>3, <3>1, <3>3, BridgeAssumption
      DEF PageInv, Told, OnAThread, Unread, StreamOK, Stream
    <3>6. Told'
      BY <1>2, <2>1, <3>1, <3>3, <3>4, <3>5 DEF Told, StreamOK, OnAThread, GapPursued
    <3> QED
      BY <3>2, <3>6
  <2> QED
    BY <2>2, <2>3
<1>6. CASE ReadFailed(r, w)
  <2> DEFINE s == IF stream.pending = {} THEN ReadOver ELSE ScheduleRefresh(ReadOver)
  <2>1. Continue(w, s, owed \ {w}) /\ shown' = shown /\ torn' = torn /\ denied' \in BOOLEAN
    BY <1>2, <1>6 DEF ReadFailed
  <2>2. /\ s \in Stream /\ s.thread = stream.thread
        /\ s.applied = stream.applied /\ s.batch = stream.batch
        /\ s.pending # {} => s.timer
    BY <1>2, Over, Scheduled
  <2> HIDE DEF s
  <2> QED
    BY <1>1, <1>2, <1>3, <2>1, <2>2, OverTold
<1> QED
  BY <1>1, <1>4, <1>5, <1>6

LEMMA LateReplyStep ==
    ASSUME PageInv, NEW r \in owed, LateReply(r)
    PROVE  (Bridge /\ OneRead /\ Told)'
<1>1. /\ load' = load /\ waiting' = waiting \cup {} /\ owed' = (owed \ {r}) \cup {}
      /\ UNCHANGED streamVars /\ Settles(r) = {}
  BY DEF LateReply, Ignored
<1>2. waiting \subseteq owed \ {r}
  BY <1>1 DEF PageInv, Bridge, BridgeOK, Settles
<1>3. Bridge'
  BY <1>1, <1>2, TableChanges DEF PageInv
<1>4. OneRead' /\ Told'
  BY <1>1 DEF PageInv, OneRead, Told, StreamOK, OnAThread, GapPursued, TurnedAway, ScreenBegun, streamVars
<1> QED
  BY <1>3, <1>4

LEMMA ReadTimesOutStep ==
    ASSUME PageInv, NEW w \in waiting, ReadTimesOut(w)
    PROVE  (Bridge /\ OneRead /\ Told)'
<1> DEFINE s == ScheduleRefresh(ReadOver)
<1>1. PICK debt \in Debts(waiting \ {w}) : Continue(w, s, debt)
  BY DEF ReadTimesOut
<1>2. /\ debt \in SUBSET owed /\ waiting \ {w} \subseteq debt
      /\ w.by = "stream" /\ shown' = shown /\ torn' = torn /\ denied' \in BOOLEAN
  BY DEF Debts, ReadTimesOut
<1>3. /\ s \in Stream /\ s.thread = stream.thread
      /\ s.applied = stream.applied /\ s.batch = stream.batch
      /\ s.pending # {} => s.timer
  BY Over, Scheduled DEF PageInv, Told
<1> HIDE DEF s
<1> QED
  BY <1>1, <1>2, <1>3, OverTold

LEMMA StreamStep ==
    ASSUME PageInv, StreamNext
    PROVE  (Bridge /\ OneRead /\ Told)'
<1>1. ASSUME NEW t \in Thread, NEW n \in Readable, PushSnapshot(t, n)
      PROVE  (Bridge /\ OneRead /\ Told)'
  <2>1. n \in 1..MaxSeq
    BY StreamAssumption
  <2> QED
    BY <1>1, <2>1, PushSnapshotStep
<1>2. ASSUME NEW r \in owed, StreamReply(r) \/ LateReply(r)
      PROVE  (Bridge /\ OneRead /\ Told)'
  BY <1>2, StreamReplyStep, LateReplyStep
<1> QED
  BY <1>1, <1>2, PushEventStep, FlushStep, TimerStep, UnpromptedStep, FreshStep,
     ReadTimesOutStep
  DEF StreamNext

-----------------------------------------------------------------------------
(* The related threads and the rest of the page.                           *)

\* The numbers of the cards' reads: there are enough, and each gets its own.
LEMMA Numbered ==
    ASSUME NEW S, NEW T, IsFiniteSet(S), IsFiniteSet(T), Cardinality(T) > Cardinality(S)
    PROVE  \E f \in [S -> T] : \A e, d \in S : f[e] = f[d] => e = d
<1>1. /\ Cardinality(S) \in Nat /\ ExistsBijection(1..Cardinality(S), S)
      /\ Cardinality(T) \in Nat /\ ExistsBijection(1..Cardinality(T), T)
  BY FS_CardinalityType
<1>2. PICK g \in Bijection(1..Cardinality(S), S) : TRUE
  BY <1>1 DEF ExistsBijection
<1>3. PICK h \in Bijection(1..Cardinality(T), T) : TRUE
  BY <1>1 DEF ExistsBijection
<1>4. /\ g \in [1..Cardinality(S) -> S]
      /\ \A e \in S : \E i \in 1..Cardinality(S) : g[i] = e
  BY DEF Bijection, Surjection
<1>5. /\ h \in [1..Cardinality(T) -> T]
      /\ \A i, j \in 1..Cardinality(T) : h[i] = h[j] => i = j
  BY DEF Bijection, Injection, IsInjective
<1> DEFINE at(e) == CHOOSE i \in 1..Cardinality(S) : g[i] = e
           f == [e \in S |-> h[at(e)]]
<1>6. ASSUME NEW e \in S
      PROVE  at(e) \in 1..Cardinality(S) /\ at(e) \in 1..Cardinality(T) /\ g[at(e)] = e
  BY <1>1, <1>4
<1>7. f \in [S -> T]
  BY <1>5, <1>6
<1>8. ASSUME NEW e \in S, NEW d \in S, f[e] = f[d] PROVE e = d
  BY <1>5, <1>6, <1>8
<1> QED
  BY <1>7, <1>8

LEMMA RelatedTyped ==
    ASSUME PageInv
    PROVE  /\ IsFiniteSet(Due)
           /\ Due \subseteq [about : Thread, child : BOOLEAN, mentions : 0..MaxSeq]
<1> DEFINE Entry == [about : Thread, child : BOOLEAN, mentions : 0..MaxSeq]
           t == stream.thread
           source == IF Parent[t] = NoThread THEN t ELSE Parent[t]
           above == IF Parent[t] = NoThread THEN {}
                    ELSE {[about |-> Parent[t], child |-> FALSE, mentions |-> 0]}
           below == {[about |-> c, child |-> TRUE, mentions |-> Cardinality(Named(c))]
                        : c \in Children(source) \ {t}}
<1>0. MaxSeq \in Nat /\ 0 \in 0..MaxSeq
  BY BridgeAssumption
<1>1. CASE t = NoThread
  <2>1. Due = {}
    BY <1>1 DEF Due, RelatedThreads
  <2> QED
    BY <2>1, FS_EmptySet
<1>2. CASE t # NoThread
  <2>1. t \in Thread
    BY <1>2 DEF PageInv, Told, StreamOK, Stream
  <2>2. source \in Thread
    BY <2>1, RelatedAssumption
  <2>3. above \subseteq Entry /\ IsFiniteSet(above)
    <3>1. CASE Parent[t] = NoThread
      <4>1. above = {}
        BY <3>1
      <4> QED
        BY <4>1, FS_EmptySet
    <3>2. CASE Parent[t] # NoThread
      <4>1. Parent[t] \in Thread
        BY <2>1, <3>2, RelatedAssumption
      <4>2. above = {[about |-> Parent[t], child |-> FALSE, mentions |-> 0]}
        BY <3>2
      <4>3. [about |-> Parent[t], child |-> FALSE, mentions |-> 0] \in Entry
        BY <1>0, <4>1
      <4> HIDE DEF above, Entry
      <4> QED
        BY <4>2, <4>3, FS_Singleton
    <3> QED
      BY <3>1, <3>2
  <2>4. ASSUME NEW c \in Children(source) \ {t}
        PROVE  c \in Thread /\ Cardinality(Named(c)) \in 0..MaxSeq
    <3>1. c \in Thread /\ Parent[c] = source
      BY DEF Children
    <3>2. Named(c) \in SUBSET (1..MaxSeq)
      BY <2>2, <3>1 DEF Named, PageInv, Told, StreamOK
    <3>3. /\ IsFiniteSet(1..MaxSeq) /\ Cardinality(1..MaxSeq) <= MaxSeq
      BY <1>0, FS_Interval
    <3>4. IsFiniteSet(Named(c)) /\ Cardinality(Named(c)) <= Cardinality(1..MaxSeq)
      BY <3>2, <3>3, FS_Subset
    <3>5. Cardinality(Named(c)) \in Nat /\ Cardinality(1..MaxSeq) \in Nat
      BY <3>3, <3>4, FS_CardinalityType
    <3> QED
      BY <1>0, <3>1, <3>3, <3>4, <3>5
  <2>5. below \subseteq Entry
    <3>1. ASSUME NEW c \in Children(source) \ {t}, NEW m \in 0..MaxSeq
          PROVE  [about |-> c, child |-> TRUE, mentions |-> m] \in Entry
      BY <2>4
    <3> HIDE DEF Entry
    <3> QED
      BY <2>4, <3>1
  <2>6. IsFiniteSet(Children(source) \ {t})
    <3>1. Children(source) \ {t} \in SUBSET Thread
      BY DEF Children
    <3> QED
      BY <3>1, FS_Subset, RelatedAssumption
  <2>7. IsFiniteSet(below)
    <3> DEFINE C == Children(source) \ {t}
               f == [c \in C |-> [about |-> c, child |-> TRUE,
                                  mentions |-> Cardinality(Named(c))]]
    <3>1. f \in Surjection(C, below)
      BY DEF Surjection
    <3> HIDE DEF C, f
    <3>2. IsFiniteSet(C)
      BY <2>6 DEF C
    <3> QED
      BY <3>1, <3>2, FS_Surjection
  <2>8. RelatedThreads = above \cup below
    BY <1>2 DEF RelatedThreads
  <2> HIDE DEF above, below, Entry
  <2>9. IsFiniteSet(above \cup below) /\ above \cup below \subseteq Entry
    BY <2>3, <2>5, <2>7, FS_Union
  <2>10. Due \in SUBSET (above \cup below)
    BY <2>8 DEF Due
  <2> QED
    BY <2>9, <2>10, FS_Subset DEF Entry
<1> QED
  BY <1>1, <1>2

LEMMA RelatedFireStep ==
    ASSUME PageInv, RelatedFire
    PROVE  PageInv'
<1> DEFINE Injective(f) == \A e, d \in Due : f[e] = f[d] => e = d
           number == CHOOSE f \in [Due -> Unused] : Injective(f)
           Ask(e) == [load |-> load, n |-> number[e], by |-> "card", about |-> e.about,
                      child |-> e.child, mentions |-> e.mentions]
           new == {Ask(e) : e \in Due}
<1>1. /\ waiting' = waiting \cup new /\ owed' = owed \cup new /\ load' = load
      /\ UNCHANGED streamVars /\ related' = [related EXCEPT !.due = FALSE]
      /\ Cardinality(Unused) > Cardinality(Due)
  BY DEF RelatedFire, Post
<1>2. IsFiniteSet(Unused) /\ Unused \subseteq 1..MaxAsked
  <2>1. Unused \in SUBSET (1..MaxAsked) /\ IsFiniteSet(1..MaxAsked)
    BY FS_Interval, BridgeAssumption DEF Unused, Free
  <2> QED
    BY <2>1, FS_Subset
<1>3. \E f \in [Due -> Unused] : Injective(f)
  BY <1>1, <1>2, RelatedTyped, Numbered
<1>4. number \in [Due -> Unused] /\ Injective(number)
  BY <1>3
<1> HIDE DEF number
<1>5. ASSUME NEW e \in Due
      PROVE  /\ Ask(e) \in Request /\ Ask(e).load = load /\ Ask(e).by = "card"
             /\ \A d \in owed : ~(d.load = load /\ d.n = Ask(e).n)
  <2>1. e \in [about : Thread, child : BOOLEAN, mentions : 0..MaxSeq]
    BY RelatedTyped
  <2>2. number[e] \in Unused
    BY <1>4
  <2>3. number[e] \in 1..MaxAsked /\ load \in 1..MaxLoad
    BY <1>2, <2>2 DEF PageInv, Bridge, BridgeOK
  <2>4. \A d \in owed : ~(d.load = load /\ d.n = number[e])
    BY <2>2 DEF Unused, Free
  <2> QED
    BY <2>1, <2>3, <2>4 DEF Request
<1>6. Bridge'
  <2>1. /\ new \in SUBSET Request
        /\ \A r \in new : r.load = load /\ \A d \in owed : ~(d.load = load /\ d.n = r.n)
    BY <1>5
  <2>2. ASSUME NEW e \in Due, NEW d \in Due, Ask(e).n = Ask(d).n PROVE Ask(e) = Ask(d)
    BY <1>4, <2>2
  <2>4. \A r, q \in new : r.n = q.n => r = q
    BY <2>2
  <2>3. waiting \subseteq owed
    BY DEF PageInv, Bridge, BridgeOK
  <2> HIDE DEF new
  <2> QED
    BY <1>1, <2>1, <2>3, <2>4, TableChanges DEF PageInv
<1>7. OneRead'
  <2>1. \A r \in new : r.by # "stream"
    BY <1>5
  <2> HIDE DEF new
  <2> QED
    BY <1>1, <2>1 DEF PageInv, OneRead, streamVars
<1>8. Told'
  BY <1>1 DEF PageInv, Told, StreamOK, OnAThread, GapPursued, TurnedAway, ScreenBegun, streamVars
<1>9. related' \in Related
  BY <1>1 DEF PageInv, Related
<1> QED
  BY <1>6, <1>7, <1>8, <1>9 DEF PageInv

LEMMA RelatedReplyStep ==
    ASSUME PageInv, NEW r \in owed, RelatedReply(r)
    PROVE  PageInv'
<1>1. PICK w \in Settles(r) :
        /\ w.by = "card"
        /\ waiting' = waiting \ {w} /\ owed' = owed \ {r} /\ load' = load
        /\ RelatedFailed \/ \E n \in Readable : RelatedAnswered(r, w, n)
  BY DEF RelatedReply
<1>2. w = r /\ w \in waiting /\ r \in Request
  BY Settled DEF PageInv, Bridge, BridgeOK
<1>3. Bridge'
  <2>1. /\ waiting \ {w} \in SUBSET waiting /\ owed \ {r} \in SUBSET owed
        /\ waiting \ {w} \subseteq owed \ {r}
    BY <1>1, <1>2 DEF PageInv, Bridge, BridgeOK
  <2>2. load' = load /\ waiting' = waiting \ {w} /\ owed' = owed \ {r}
    BY <1>1
  <2> QED
    BY <2>1, <2>2, TableShrinks DEF PageInv
<1>4. CASE RelatedFailed
  <2>1. OneRead' /\ Told' /\ related' \in Related
    BY <1>1, <1>4 DEF RelatedFailed, PageInv, OneRead, Told, StreamOK, OnAThread, GapPursued,
                     TurnedAway, ScreenBegun, streamVars
  <2> QED
    BY <1>3, <2>1 DEF PageInv
<1>5. ASSUME NEW n \in Readable, RelatedAnswered(r, w, n)
      PROVE  PageInv'
  <2>0. n \in 1..MaxSeq /\ n \in Never..MaxSeq /\ Never \in Never..MaxSeq
    BY StreamAssumption, BridgeAssumption DEF Never
  <2>1. stream' = stream /\ denied' = denied
    BY <1>5 DEF RelatedAnswered
  <2>2. OneRead' /\ GapPursued' /\ OnAThread'
    BY <1>1, <2>1 DEF PageInv, OneRead, Told, GapPursued, TurnedAway, OnAThread
  <2>3. CASE RelatedIsLate(w.about, n)
    <3>1. shown' = shown /\ torn' = torn /\ related' = related
      BY <1>5, <2>3 DEF RelatedAnswered
    <3> QED
      BY <1>3, <2>1, <2>2, <3>1 DEF PageInv, Told, StreamOK, ScreenBegun
  <2>4. CASE ~RelatedIsLate(w.about, n)
    <3>1. /\ shown' = [shown EXCEPT ![r.about] = 1..n]
          /\ torn' = (torn \/ r.about = stream.thread)
          /\ related' = [related EXCEPT
                 !.applied[w.about] = n,
                 !.settled[w.about] = IF w.child /\ n \in SettledIn[w.about]
                                      THEN w.mentions ELSE Never]
      BY <1>5, <2>4 DEF RelatedAnswered, Synced
    <3>2. w.about \in Thread /\ w.mentions \in Never..MaxSeq /\ r.about \in Thread
      BY <1>2, BridgeAssumption DEF Request, Never
    <3>3. related' \in Related
      BY <2>0, <3>1, <3>2 DEF PageInv, Related
    <3>4. shown' \in [Thread -> SUBSET (1..MaxSeq)] /\ torn' \in BOOLEAN
      <4>1. 1..n \in SUBSET (1..MaxSeq)
        BY <2>0, BridgeAssumption
      <4> QED
        BY <3>1, <3>2, <4>1 DEF PageInv, Told, StreamOK
    <3>5. r.about # stream.thread => shown'[stream.thread] = shown[stream.thread] \/ stream.applied = Unread
      BY <3>1 DEF PageInv, Told, StreamOK, OnAThread, Stream
    <3>6. ScreenBegun'
      BY <2>1, <3>1, <3>5 DEF PageInv, Told, ScreenBegun
    <3> QED
      BY <1>3, <2>1, <2>2, <3>3, <3>4, <3>6 DEF PageInv, Told, StreamOK
  <2> QED
    BY <2>3, <2>4
<1> QED
  BY <1>1, <1>4, <1>5

LEMMA RelatedTimesOutStep ==
    ASSUME PageInv, NEW w \in waiting, RelatedTimesOut(w)
    PROVE  PageInv'
<1>1. /\ waiting' = waiting \ {w} /\ load' = load
      /\ UNCHANGED <<related, streamVars>> /\ w.by = "card"
  BY DEF RelatedTimesOut, TimesOut, RelatedFailed
<1>2. PICK debt \in Debts(waiting \ {w}) : owed' = debt
  BY DEF RelatedTimesOut, TimesOut
<1>3. debt \in SUBSET owed /\ waiting \ {w} \subseteq debt
  BY DEF Debts
<1>4. Bridge'
  BY <1>1, <1>2, <1>3, TableShrinks DEF PageInv
<1>5. OneRead' /\ Told' /\ related' \in Related
  BY <1>1 DEF PageInv, OneRead, Told, StreamOK, OnAThread, GapPursued, TurnedAway, ScreenBegun, streamVars
<1> QED
  BY <1>4, <1>5 DEF PageInv

LEMMA ShowThreadStep ==
    ASSUME PageInv, NEW t \in Thread \cup {NoThread}, ShowThread(t)
    PROVE  PageInv'
<1>1. /\ stream' = OnThread(t) /\ torn' = FALSE /\ shown' = shown /\ denied' = FALSE
      /\ related' = [related EXCEPT !.due = FALSE]
  BY DEF ShowThread, SetStreamThread
<1>2. /\ stream' \in Stream /\ stream'.thread = t /\ stream'.applied = Unread
      /\ stream'.batch = {} /\ stream'.pending = {} /\ stream'.reading = FALSE
  BY <1>1, EmptyStream DEF PageInv, Told
<1>3. Told'
  BY <1>1, <1>2 DEF PageInv, Told, StreamOK, OnAThread, GapPursued, TurnedAway, ScreenBegun
<1>4. related' \in Related
  BY <1>1 DEF PageInv, Related
<1>5. Bridge' /\ OneRead'
  <2>1. CASE stream.reading
    <3>1. load' = load /\ waiting' = {} \cup {} /\ owed' \in Debts({})
      BY <2>1 DEF ShowThread, SetStreamThread, CancelPending
    <3>2. PICK debt \in Debts({}) : owed' = debt \cup {}
      BY <3>1
    <3>3. debt \in SUBSET owed
      BY DEF Debts
    <3>4. Bridge'
      BY <3>1, <3>2, <3>3, TableChanges DEF PageInv
    <3>5. OneRead'
      BY <1>2, <3>1 DEF OneRead
    <3> QED
      BY <3>4, <3>5
  <2>2. CASE ~stream.reading
    <3>1. UNCHANGED bridgeVars
      BY <2>2 DEF ShowThread, SetStreamThread
    <3>2. stream.reading = FALSE
      BY <2>2 DEF PageInv, Told, StreamOK, Stream
    <3> QED
      BY <1>2, <2>2, <3>1, <3>2, BridgeStill DEF PageInv
  <2> QED
    BY <2>1, <2>2
<1> QED
  BY <1>3, <1>4, <1>5 DEF PageInv

LEMMA FirstLoads ==
    /\ FirstLoad \in Stream /\ FirstLoad.thread = NoThread /\ FirstLoad.applied = Unread
    /\ FirstLoad.batch = {} /\ FirstLoad.pending = {} /\ FirstLoad.reading = FALSE
    /\ NothingRead \in Related
    /\ [t \in Thread |-> {}] \in [Thread -> SUBSET (1..MaxSeq)]
<1>1. Unread \in -1..MaxSeq /\ Never \in Never..MaxSeq
  BY BridgeAssumption DEF Unread, Never
<1> QED
  BY <1>1 DEF FirstLoad, Stream, NothingRead, Related

LEMMA ReloadStep ==
    ASSUME PageInv, ReloadPage
    PROVE  PageInv'
<1>1. /\ load < MaxLoad /\ load' = load + 1 /\ waiting' = {} /\ owed' \subseteq owed
      /\ stream' = FirstLoad /\ shown' = [t \in Thread |-> {}] /\ torn' = FALSE
      /\ related' = NothingRead /\ denied' = FALSE
  BY DEF ReloadPage, Reload, Reloaded, Debts
<1>2. Bridge'
  BY <1>1, BridgeAssumption DEF PageInv, Bridge, BridgeOK, UniqueIds
<1>3. OneRead' /\ Told' /\ related' \in Related
  BY <1>1, FirstLoads DEF OneRead, Told, StreamOK, OnAThread, GapPursued, TurnedAway, ScreenBegun
<1> QED
  BY <1>2, <1>3 DEF PageInv

-----------------------------------------------------------------------------
(* The invariant and the theorems.                                         *)

LEMMA InitPageInv == Init => PageInv
<1> SUFFICES ASSUME Init PROVE PageInv
  OBVIOUS
<1>1. /\ load = 1 /\ waiting = {} /\ owed = {} /\ stream = FirstLoad /\ torn = FALSE
      /\ denied = FALSE
      /\ shown = [t \in Thread |-> {}] /\ related = NothingRead
  BY DEF Init, BridgeInit, StreamInit
<1>2. Bridge
  BY <1>1, BridgeAssumption DEF Bridge, BridgeOK, UniqueIds
<1>3. OneRead /\ Told /\ related \in Related
  BY <1>1, FirstLoads DEF OneRead, Told, StreamOK, OnAThread, GapPursued, TurnedAway, ScreenBegun
<1> QED
  BY <1>2, <1>3 DEF PageInv

LEMMA NextPageInv == PageInv /\ [Next]_pageVars => PageInv'
<1> SUFFICES ASSUME PageInv, [Next]_pageVars PROVE PageInv'
  OBVIOUS
<1>1. CASE StreamNext /\ UNCHANGED related
  BY <1>1, StreamStep DEF PageInv
<1>2. CASE RelatedEffect
  <2>1. UNCHANGED vars /\ related' = [related EXCEPT !.due = TRUE]
    BY <1>2 DEF RelatedEffect
  <2>2. related' \in Related
    BY <2>1 DEF PageInv, Related
  <2> QED
    BY <2>1, <2>2 DEF PageInv, Bridge, BridgeOK, UniqueIds, OneRead, Told, StreamOK, OnAThread,
                      GapPursued, TurnedAway, ScreenBegun, vars, bridgeVars, streamVars
<1>3. CASE UNCHANGED pageVars
  BY <1>3 DEF PageInv, Bridge, BridgeOK, UniqueIds, OneRead, Told, StreamOK, OnAThread,
              GapPursued, TurnedAway, ScreenBegun, pageVars, vars, bridgeVars, streamVars
<1> QED
  BY <1>1, <1>2, <1>3, RelatedFireStep, RelatedReplyStep, RelatedTimesOutStep, ShowThreadStep,
     ReloadStep
  DEF Next

LEMMA AlwaysPageInv == Spec => []PageInv
BY InitPageInv, NextPageInv, PTL DEF Spec

\* The page's tables, the stream's state and the related threads' are well typed,
\* whatever the app pushes, answers late or leaves unanswered.
THEOREM PageTypeCorrect == Spec => []TypeOK
<1>1. PageInv => TypeOK
  BY DEF PageInv, Bridge, Told, StreamOK, TypeOK
<1> QED
  BY <1>1, AlwaysPageInv, PTL

\* The stream waits for one read of the thread on screen while it says so, and
\* for none otherwise (snapshotRequest, cancelPending and the ids of requests).
THEOREM AlwaysOneRead == Spec => []OneRead
<1>1. PageInv => OneRead
  BY DEF PageInv
<1> QED
  BY <1>1, AlwaysPageInv, PTL

\* Events held back always have a read in flight or scheduled, but on a page without
\* a snapshot whose last answer was that there is no such thread (scheduleRefresh,
\* drainPending, refreshSnapshot).
THEOREM GapAlwaysPursued == Spec => []GapPursued
<1>1. PageInv => GapPursued
  BY DEF PageInv, Told
<1> QED
  BY <1>1, AlwaysPageInv, PTL

\* The screen is always exactly a beginning of the thread's events, with the next
\* ones waiting for the frame (applySnapshot, take and flush).
THEOREM ScreenAlwaysExact == Spec => []ScreenExact
<1>1. ASSUME PageInv PROVE ScreenExact
  <2> SUFFICES ASSUME stream.applied # Unread, ~torn
               PROVE  \E k \in 0..stream.applied :
                         /\ shown[stream.thread] = 1..k
                         /\ stream.batch = (k + 1)..stream.applied
    BY DEF ScreenExact
  <2>1. PICK k \in 1..stream.applied :
           shown[stream.thread] = 1..k /\ stream.batch = (k + 1)..stream.applied
    BY <1>1 DEF PageInv, Told, ScreenBegun
  <2>2. k \in 0..stream.applied
    BY <2>1
  <2> QED
    BY <2>1, <2>2
<1> QED
  BY <1>1, AlwaysPageInv, PTL

-----------------------------------------------------------------------------
(* The page implements ThreadScreen.                                       *)

ScreenSame == UNCHANGED <<stream.thread, OnScreen>>

ScreenStep == Screen!ScreenNext \/ ScreenSame

\* What OnScreen is, in terms of ScreenBegun.
LEMMA OnScreenValue ==
    ASSUME NEW k \in 1..MaxSeq, stream.applied # Unread, ~torn,
           shown[stream.thread] = 1..k
    PROVE  OnScreen = k
<1>1. MaxSeq \in Nat /\ k \in Nat
  BY BridgeAssumption
<1>2. Cardinality(1..k) = k
  BY <1>1, FS_Interval
<1> QED
  BY <1>2 DEF OnScreen

\* The same of the next state.
LEMMA OnScreenNext ==
    ASSUME NEW k \in 1..MaxSeq, stream'.applied # Unread, torn' = FALSE,
           shown'[stream'.thread] = 1..k
    PROVE  OnScreen' = k
<1>1. MaxSeq \in Nat /\ k \in Nat
  BY BridgeAssumption
<1>2. Cardinality(1..k) = k
  BY <1>1, FS_Interval
<1> QED
  BY <1>2 DEF OnScreen

\* The screen shows the events up to OnScreen, which are among those taken.
LEMMA OnScreenTaken ==
    ASSUME PageInv, stream.applied # Unread, ~torn
    PROVE  /\ stream.thread \in Thread /\ stream.applied \in 1..MaxSeq
           /\ OnScreen \in 1..stream.applied /\ OnScreen # -1
           /\ shown[stream.thread] = 1..OnScreen
           /\ stream.batch = (OnScreen + 1)..stream.applied
<1>1. PICK k \in 1..stream.applied :
        shown[stream.thread] = 1..k /\ stream.batch = (k + 1)..stream.applied
  BY DEF PageInv, Told, ScreenBegun
<1>2. stream.thread \in Thread /\ stream.applied \in -1..MaxSeq /\ MaxSeq \in Nat
  BY BridgeAssumption DEF PageInv, Told, StreamOK, OnAThread, Stream
<1>3. k \in 1..MaxSeq /\ stream.applied \in 1..MaxSeq
  BY <1>1, <1>2
<1>4. OnScreen = k
  BY <1>1, <1>3, OnScreenValue
<1> QED
  BY <1>1, <1>2, <1>3, <1>4

LEMMA ScreenUnknown ==
    ASSUME stream.applied = Unread \/ torn
    PROVE  OnScreen = -1
BY DEF OnScreen

\* A step that leaves what the page's store has of its thread is none for the screen.
LEMMA ScreenStays ==
    ASSUME stream'.thread = stream.thread, shown' = shown, torn' = torn,
           stream'.applied = Unread <=> stream.applied = Unread
    PROVE  ScreenStep
BY DEF ScreenStep, ScreenSame, OnScreen

\* A snapshot opens the screen or takes it forward (applySnapshot).
LEMMA SnapshotScreen ==
    ASSUME PageInv, NEW t \in Thread, NEW n \in 1..MaxSeq,
           stream.thread \in {t, NoThread}, stream'.thread = t,
           stream'.applied # Unread, Shows(n, t)
    PROVE  ScreenStep
<1>0. /\ stream.applied \in -1..MaxSeq /\ MaxSeq \in Nat /\ t # NoThread
      /\ shown \in [Thread -> SUBSET (1..MaxSeq)] /\ torn \in BOOLEAN
  BY BridgeAssumption DEF PageInv, Told, StreamOK, Stream
<1>1. CASE n >= stream.applied
  <2>1. shown' = [shown EXCEPT ![t] = 1..n] /\ torn' = FALSE
    BY <1>1 DEF Shows, Replaces, Synced
  <2>2. shown'[stream'.thread] = 1..n
    BY <1>0, <2>1
  <2>3. OnScreen' = n
    BY <2>1, <2>2, OnScreenNext
  <2>4. CASE stream.applied = Unread \/ torn
    <3>1. OnScreen = -1
      BY <2>4, ScreenUnknown
    <3>2. Screen!Open
      BY <2>3, <3>1 DEF Screen!Open, Screen!Nothing
    <3> QED
      BY <3>2 DEF ScreenStep, Screen!ScreenNext
  <2>5. CASE stream.applied # Unread /\ ~torn
    <3>1. stream.thread \in Thread /\ OnScreen \in 1..stream.applied /\ OnScreen # -1
      BY <2>5, OnScreenTaken
    <3>2. stream.thread = t /\ OnScreen \in Nat /\ OnScreen <= n
      BY <1>0, <1>1, <3>1, BridgeAssumption
    <3>3. CASE OnScreen = n
      BY <2>3, <3>2, <3>3 DEF ScreenStep, ScreenSame
    <3>4. CASE OnScreen # n
      <4>1. n \in (OnScreen + 1)..MaxSeq
        BY <1>0, <3>2, <3>4
      <4>2. Screen!Forward
        BY <1>0, <2>3, <3>1, <3>2, <4>1 DEF Screen!Forward, Screen!Nothing
      <4> QED
        BY <4>2 DEF ScreenStep, Screen!ScreenNext
    <3> QED
      BY <3>3, <3>4
  <2> QED
    BY <2>4, <2>5
<1>2. CASE ~(n >= stream.applied)
  <2>1. shown' = shown /\ torn' = torn
    BY <1>2 DEF Shows, Replaces
  <2>2. stream.applied # Unread
    BY <1>0, <1>2 DEF Unread
  <2>3. stream.thread = t
    BY <2>2 DEF PageInv, Told, OnAThread
  <2> QED
    BY <2>1, <2>2, <2>3, ScreenStays
<1> QED
  BY <1>1, <1>2

LEMMA PushSnapshotScreen ==
    ASSUME PageInv, NEW t \in Thread, NEW n \in 1..MaxSeq, PushSnapshot(t, n)
    PROVE  ScreenStep
<1>1. stream \in Stream /\ OnThread(t) \in Stream /\ OnThread(t).thread = t
  BY EmptyStream DEF PageInv, Told, StreamOK
<1>2. /\ stream.thread \in {t, NoThread} /\ Shows(n, t)
      /\ stream'.thread = t /\ stream'.applied # Unread
  BY <1>1, Applied DEF PushSnapshot
<1> QED
  BY <1>2, SnapshotScreen

LEMMA PushEventScreen ==
    ASSUME PageInv, NEW t \in Thread, NEW n \in 1..MaxSeq, PushEvent(t, n)
    PROVE  ScreenStep
<1>0. stream \in Stream /\ shown' = shown /\ torn' = torn
  BY DEF PageInv, Told, StreamOK, PushEvent
<1>1. ASSUME NEW full \in BOOLEAN,
             \/ stream' = ScheduleRefresh(Hold(stream, n, full))
             \/ stream' = Hold(stream, n, full)
      PROVE  ScreenStep
  <2>1. stream'.thread = stream.thread /\ stream'.applied = stream.applied
    BY <1>0, <1>1, Held, Scheduled
  <2> QED
    BY <1>0, <2>1, ScreenStays
<1>2. CASE /\ stream.applied # Unread /\ n = stream.applied + 1
           /\ stream' = LET s == TakeTo(stream, n)
                        IN  IF s.pending = {} THEN s ELSE Drain(s)
  <2> DEFINE s == TakeTo(stream, n)
  <2>1. n \in stream.applied..MaxSeq /\ n # Unread /\ n \in Nat /\ MaxSeq \in Nat
    BY <1>0, <1>2, BridgeAssumption DEF Stream, Unread
  <2>2. s \in Stream /\ s.thread = stream.thread /\ s.applied = n
    BY <1>0, <1>2, <2>1, Taken
  <2>3. stream' = IF s.pending = {} THEN s ELSE Drain(s)
    BY <1>2
  <2> HIDE DEF s
  <2>4. Drain(s).thread = stream.thread /\ Drain(s).applied \in n..MaxSeq
    BY <2>1, <2>2, Drained
  <2>5. Drain(s).applied # Unread
    BY <2>1, <2>4 DEF Unread
  <2>6. stream'.thread = stream.thread /\ stream'.applied # Unread
    BY <2>1, <2>2, <2>3, <2>4, <2>5
  <2> QED
    BY <1>0, <1>2, <2>6, ScreenStays
<1> QED
  BY <1>1, <1>2 DEF PushEvent, MayBeFull

\* A flush shows what was taken (flush).
LEMMA FlushScreen ==
    ASSUME PageInv, Flush
    PROVE  ScreenStep
<1>0. /\ stream \in Stream /\ shown \in [Thread -> SUBSET (1..MaxSeq)] /\ torn' = torn
      /\ stream' = [stream EXCEPT !.frame = FALSE, !.batch = {}]
  BY DEF PageInv, Told, StreamOK, Flush
<1>1. stream'.thread = stream.thread /\ stream'.applied = stream.applied
  BY <1>0 DEF Stream
<1>2. CASE stream.applied = Unread \/ torn
  <2>1. OnScreen = -1 /\ OnScreen' = -1
    BY <1>0, <1>1, <1>2 DEF OnScreen
  <2> QED
    BY <1>1, <2>1 DEF ScreenStep, ScreenSame
<1>3. CASE stream.applied # Unread /\ ~torn
  <2>1. /\ stream.thread \in Thread /\ stream.applied \in 1..MaxSeq
        /\ OnScreen \in 1..stream.applied /\ OnScreen # -1
        /\ shown[stream.thread] = 1..OnScreen
        /\ stream.batch = (OnScreen + 1)..stream.applied
    BY <1>3, OnScreenTaken
  <2>2. MaxSeq \in Nat /\ torn \in BOOLEAN /\ stream.thread # NoThread
    BY <2>1, BridgeAssumption DEF PageInv, Told, StreamOK
  <2>3. CASE stream.batch = {}
    BY <1>0, <1>1, <2>3, ScreenStays DEF Flush
  <2>4. CASE stream.batch # {}
    <3>1. shown' = [shown EXCEPT ![stream.thread] = @ \cup stream.batch]
      BY <2>4 DEF Flush
    <3>2. shown'[stream.thread] = (1..OnScreen) \cup ((OnScreen + 1)..stream.applied)
      BY <1>0, <2>1, <3>1
    <3>3. ASSUME NEW k \in 1..stream.applied
          PROVE  (1..k) \cup ((k + 1)..stream.applied) = 1..stream.applied
      BY <2>1, <2>2
    <3>4. shown'[stream'.thread] = 1..stream.applied
      BY <1>1, <2>1, <3>2, <3>3
    <3>5. OnScreen' = stream.applied
      BY <1>0, <1>1, <1>3, <2>1, <2>2, <3>4, OnScreenNext
    <3>6. stream.applied \in (OnScreen + 1)..MaxSeq
      BY <2>1, <2>2, <2>4
    <3>7. Screen!Forward
      BY <1>1, <2>1, <2>2, <3>5, <3>6 DEF Screen!Forward, Screen!Nothing
    <3> QED
      BY <3>7 DEF ScreenStep, Screen!ScreenNext
  <2> QED
    BY <2>3, <2>4
<1> QED
  BY <1>2, <1>3

LEMMA StartsOrContinues ==
    ASSUME NEW s \in Stream,
           StartRead(s) \/ stream' = s \/ \E w \in waiting, debt \in SUBSET owed : Continue(w, s, debt)
    PROVE  stream'.thread = s.thread /\ stream'.applied = s.applied
BY DEF StartRead, Continue, Stream

\* Starting a read changes nothing on screen.
LEMMA AskingScreen ==
    ASSUME PageInv, TimerFires \/ ReadUnprompted \/ ReadFresh
    PROVE  ScreenStep
<1>1. stream \in Stream /\ shown' = shown /\ torn' = torn
  BY DEF PageInv, Told, StreamOK, TimerFires, ReadUnprompted, ReadFresh
<1>2. PICK s \in {stream, [stream EXCEPT !.timer = FALSE], [stream EXCEPT !.again = TRUE]} :
         StartRead(s) \/ stream' = s
  BY DEF TimerFires, ReadUnprompted, ReadFresh
<1>3. s \in Stream /\ s.thread = stream.thread /\ s.applied = stream.applied
  BY <1>1 DEF Stream
<1>4. stream'.thread = stream.thread /\ stream'.applied = stream.applied
  BY <1>2, <1>3, StartsOrContinues
<1> QED
  BY <1>1, <1>4, ScreenStays

LEMMA StreamReplyScreen ==
    ASSUME PageInv, NEW r \in owed, StreamReply(r)
    PROVE  ScreenStep
<1>1. PICK w \in Settles(r) :
        /\ w.by = "stream"
        /\ \/ \E n \in Readable : ReadAnswered(r, w, n)
           \/ ReadFoundNone(r, w)
           \/ ReadFailed(r, w)
  BY DEF StreamReply
<1>2. w = r /\ w \in waiting /\ StreamOK
  BY Settled DEF PageInv, Told
<1>3. w.about \in Thread /\ w.about = stream.thread
  BY <1>1, <1>2 DEF PageInv, Bridge, BridgeOK, OneRead, Request
<1>4. owed \ {r} \in SUBSET owed
  OBVIOUS
<1>5. ASSUME NEW n \in Readable, ReadAnswered(r, w, n)
      PROVE  ScreenStep
  <2>1. n \in 1..MaxSeq
    BY StreamAssumption
  <2> DEFINE a == ApplySnapshot(ReadOver, n)
  <2>2. a \in Stream /\ a.thread = stream.thread /\ a.applied # Unread
    BY <1>2, <2>1, Over, Applied
  <2>3. Continue(w, a, owed \ {r}) /\ Shows(n, stream.thread)
    BY <1>2, <1>3, <1>5 DEF ReadAnswered
  <2> HIDE DEF a
  <2>4. stream'.thread = stream.thread /\ stream'.applied # Unread
    BY <1>2, <1>4, <2>2, <2>3, StartsOrContinues
  <2> QED
    BY <1>3, <2>1, <2>3, <2>4, SnapshotScreen
<1>6. CASE ReadFoundNone(r, w)
  <2> DEFINE d == Drain(ReadOver)
  <2>1. Continue(w, d, owed \ {r}) /\ shown' = shown /\ torn' = torn
    BY <1>6 DEF ReadFoundNone
  <2>2. /\ d \in Stream /\ d.thread = stream.thread
        /\ d.applied = Unread <=> stream.applied = Unread
    <3>1. CASE stream.applied = Unread
      <4>1. d = ReadOver
        BY <1>2, <3>1, Over DEF Drain
      <4> QED
        BY <1>2, <3>1, <4>1, Over
    <3>2. CASE stream.applied # Unread
      <4>1. d \in Stream /\ d.thread = stream.thread /\ d.applied \in stream.applied..MaxSeq
        BY <1>2, <3>2, Over, Drained
      <4>2. stream.applied \in 0..MaxSeq /\ MaxSeq \in Nat
        BY <1>2, <3>2, BridgeAssumption DEF StreamOK, Stream, Unread
      <4>3. d.applied # Unread
        BY <4>1, <4>2 DEF Unread
      <4> QED
        BY <3>2, <4>1, <4>3
    <3> QED
      BY <3>1, <3>2
  <2> HIDE DEF d
  <2>3. stream'.thread = d.thread /\ stream'.applied = d.applied
    BY <1>2, <1>4, <2>1, <2>2, StartsOrContinues
  <2> QED
    BY <2>1, <2>2, <2>3, ScreenStays
<1>7. CASE ReadFailed(r, w)
  <2> DEFINE s == IF stream.pending = {} THEN ReadOver ELSE ScheduleRefresh(ReadOver)
  <2>1. Continue(w, s, owed \ {r}) /\ shown' = shown /\ torn' = torn
    BY <1>7 DEF ReadFailed
  <2>2. s \in Stream /\ s.thread = stream.thread /\ s.applied = stream.applied
    BY <1>2, Over, Scheduled
  <2> HIDE DEF s
  <2>3. stream'.thread = s.thread /\ stream'.applied = s.applied
    BY <1>2, <1>4, <2>1, <2>2, StartsOrContinues
  <2> QED
    BY <2>1, <2>2, <2>3, ScreenStays
<1> QED
  BY <1>1, <1>5, <1>6, <1>7

LEMMA ReadTimesOutScreen ==
    ASSUME PageInv, NEW w \in waiting, ReadTimesOut(w)
    PROVE  ScreenStep
<1> DEFINE s == ScheduleRefresh(ReadOver)
<1>1. PICK debt \in Debts(waiting \ {w}) : Continue(w, s, debt)
  BY DEF ReadTimesOut
<1>2. debt \in SUBSET owed /\ shown' = shown /\ torn' = torn
  BY DEF Debts, ReadTimesOut
<1>3. s \in Stream /\ s.thread = stream.thread /\ s.applied = stream.applied
  BY Over, Scheduled DEF PageInv, Told
<1> HIDE DEF s
<1>4. stream'.thread = s.thread /\ stream'.applied = s.applied
  BY <1>1, <1>2, <1>3, StartsOrContinues
<1> QED
  BY <1>2, <1>3, <1>4, ScreenStays

LEMMA StreamScreen ==
    ASSUME PageInv, StreamNext
    PROVE  ScreenStep
<1>1. ASSUME NEW t \in Thread, NEW n \in Readable, PushSnapshot(t, n)
      PROVE  ScreenStep
  <2>1. n \in 1..MaxSeq
    BY StreamAssumption
  <2> QED
    BY <1>1, <2>1, PushSnapshotScreen
<1>2. ASSUME NEW r \in owed, LateReply(r)
      PROVE  ScreenStep
  BY <1>2, ScreenStays DEF LateReply, streamVars
<1> QED
  BY <1>1, <1>2, PushEventScreen, FlushScreen, AskingScreen, StreamReplyScreen,
     ReadTimesOutScreen
  DEF StreamNext

\* A card's read of the thread on screen may take events off it: the promise ends
\* until the next snapshot (relatedThreads.ts and the page's one store).
LEMMA RelatedReplyScreen ==
    ASSUME PageInv, NEW r \in owed, RelatedReply(r)
    PROVE  ScreenStep
<1>0. /\ shown \in [Thread -> SUBSET (1..MaxSeq)] /\ torn \in BOOLEAN /\ stream \in Stream
      /\ stream.thread = NoThread => stream.applied = Unread
  BY DEF PageInv, Told, StreamOK, OnAThread
<1>1. \/ UNCHANGED streamVars
      \/ \E n \in Readable : /\ shown' = [shown EXCEPT ![r.about] = 1..n]
                             /\ torn' = (torn \/ r.about = stream.thread)
                             /\ stream' = stream
  BY DEF RelatedReply, RelatedFailed, RelatedAnswered, Synced, streamVars
<1>2. CASE UNCHANGED streamVars
  BY <1>2, ScreenStays DEF streamVars
<1>3. ASSUME NEW n \in Readable, shown' = [shown EXCEPT ![r.about] = 1..n],
             torn' = (torn \/ r.about = stream.thread), stream' = stream
      PROVE  ScreenStep
  <2>1. CASE stream.applied = Unread \/ torn
    <3>1. OnScreen = -1 /\ OnScreen' = -1
      BY <1>3, <2>1 DEF OnScreen
    <3> QED
      BY <1>3, <3>1 DEF ScreenStep, ScreenSame
  <2>2. CASE r.about = stream.thread
    <3>1. OnScreen' = -1
      BY <1>3, <2>2 DEF OnScreen
    <3> QED
      BY <1>3, <3>1 DEF ScreenStep, Screen!ScreenNext, Screen!Lose, Screen!Nothing
  <2>3. CASE r.about # stream.thread /\ stream.applied # Unread /\ ~torn
    <3>1. stream.thread \in Thread
      BY <1>0, <2>3 DEF Stream
    <3>2. shown'[stream'.thread] = shown[stream.thread] /\ torn' = torn
      BY <1>0, <1>3, <2>3, <3>1
    <3>3. OnScreen' = OnScreen
      BY <1>3, <3>2 DEF OnScreen
    <3> QED
      BY <1>3, <3>3 DEF ScreenStep, ScreenSame
  <2> QED
    BY <2>1, <2>2, <2>3
<1> QED
  BY <1>1, <1>2, <1>3

\* Coming to a thread, or loading the page again, shows something else.
LEMMA ComesScreen ==
    ASSUME PageInv, NEW t \in Thread \cup {NoThread}, stream' \in Stream,
           stream'.thread = t, stream'.applied = Unread
    PROVE  ScreenStep
<1>1. OnScreen' = -1
  BY DEF OnScreen
<1>2. Screen!Visit
  BY <1>1 DEF Screen!Visit, Screen!Nothing
<1> QED
  BY <1>2 DEF ScreenStep, Screen!ScreenNext

LEMMA NextScreen ==
    ASSUME PageInv, [Next]_pageVars
    PROVE  ScreenStep
<1>1. ASSUME NEW t \in Thread \cup {NoThread}, ShowThread(t)
      PROVE  ScreenStep
  <2>1. stream' = OnThread(t)
    BY <1>1 DEF ShowThread, SetStreamThread
  <2>2. stream' \in Stream /\ stream'.thread = t /\ stream'.applied = Unread
    BY <2>1, EmptyStream DEF PageInv, Told
  <2> QED
    BY <2>2, ComesScreen
<1>2. CASE ReloadPage
  <2>1. stream' \in Stream /\ stream'.thread = NoThread /\ stream'.applied = Unread
    BY <1>2, FirstLoads DEF ReloadPage, Reload
  <2> QED
    BY <2>1, ComesScreen
<1>3. CASE \/ RelatedEffect \/ RelatedFire
           \/ \E w \in waiting : RelatedTimesOut(w)
           \/ UNCHANGED pageVars
  <2>1. UNCHANGED streamVars
    BY <1>3 DEF RelatedEffect, RelatedFire, RelatedTimesOut, RelatedFailed, pageVars, vars,
                streamVars
  <2> QED
    BY <2>1, ScreenStays DEF streamVars
<1> QED
  BY <1>1, <1>2, <1>3, StreamScreen, RelatedReplyScreen DEF Next

\* The page implements ThreadScreen: while it stays on a thread what it shows of
\* it only goes forward, and it never shows anything but a beginning of the
\* thread, whatever is lost, reordered, answered late or never.
THEOREM PageKeepsPromise == Spec => ScreenPromise
<1>1. Init => Screen!ScreenInit
  <2> SUFFICES ASSUME Init PROVE Screen!ScreenInit
    OBVIOUS
  <2>1. stream.thread = NoThread /\ stream.applied = Unread
    BY FirstLoads DEF Init, StreamInit
  <2>2. OnScreen = -1
    BY <2>1, ScreenUnknown
  <2> QED
    BY <2>1, <2>2 DEF Screen!ScreenInit, Screen!Nothing
<1>2. PageInv /\ [Next]_pageVars => [Screen!ScreenNext]_<<stream.thread, OnScreen>>
  BY NextScreen DEF ScreenStep, ScreenSame
<1> QED
  BY <1>1, <1>2, AlwaysPageInv, PTL DEF Spec, ScreenPromise, Screen!ScreenSpec
-----------------------------------------------------------------------------
(* The threads off screen.                                                 *)

\* A thread the screen is not on changes only by a card's answer, which is no
\* older than the last one of that thread, or as the page goes elsewhere.
LEMMA OffScreen ==
    ASSUME PageInv, NEW t \in Thread, t # stream.thread, stream' = stream, load' = load,
           [Next]_pageVars
    PROVE  \/ shown'[t] = shown[t]
           \/ \E n \in Readable : n >= related.applied[t] /\ shown'[t] = 1..n
<1>0. /\ shown \in [Thread -> SUBSET (1..MaxSeq)] /\ stream \in Stream /\ Bridge /\ OneRead
      /\ related \in Related /\ load \in Nat
  BY DEF PageInv, Told, StreamOK, Bridge, BridgeOK
<1>1. ASSUME NEW u \in Thread, NEW n \in Readable, PushSnapshot(u, n)
      PROVE  shown'[t] = shown[t]
  <2>1. n \in 1..MaxSeq
    BY StreamAssumption
  <2>2. CASE stream.thread = u
    BY <1>0, <1>1, <2>2 DEF PushSnapshot, Shows, Synced
  <2>3. CASE stream.thread = NoThread /\ stream' = ApplySnapshot(OnThread(u), n)
    <3>1. OnThread(u) \in Stream /\ OnThread(u).thread = u
      BY EmptyStream DEF PageInv, Told
    <3>2. stream'.thread = u
      BY <2>1, <2>3, <3>1, Applied
    <3> QED
      BY <2>3, <3>2, BridgeAssumption
  <2> QED
    BY <1>1, <2>2, <2>3 DEF PushSnapshot
<1>2. CASE Flush
  BY <1>0, <1>2 DEF Flush
<1>3. ASSUME NEW r \in owed, StreamReply(r)
      PROVE  shown'[t] = shown[t]
  <2>1. PICK w \in Settles(r) : /\ w.by = "stream"
                                /\ \/ \E n \in Readable : ReadAnswered(r, w, n)
                                   \/ UNCHANGED shown
    BY <1>3 DEF StreamReply, ReadFoundNone, ReadFailed
  <2>2. w = r /\ w \in waiting
    BY <1>0, Settled
  <2>3. r.about = stream.thread
    BY <1>0, <2>1, <2>2 DEF OneRead
  <2> QED
    BY <1>0, <2>1, <2>3 DEF ReadAnswered, Shows, Synced
<1>4. ASSUME NEW r \in owed, RelatedReply(r)
      PROVE  \/ shown'[t] = shown[t]
             \/ \E n \in Readable : n >= related.applied[t] /\ shown'[t] = 1..n
  <2>1. PICK w \in Settles(r) : \/ UNCHANGED shown
                                \/ \E n \in Readable : RelatedAnswered(r, w, n)
    BY <1>4 DEF RelatedReply, RelatedFailed, streamVars
  <2>2. w = r
    BY <1>0, Settled
  <2>3. ASSUME NEW n \in Readable, RelatedAnswered(r, w, n)
        PROVE  \/ shown'[t] = shown[t]
               \/ n >= related.applied[t] /\ shown'[t] = 1..n
    <3>1. CASE RelatedIsLate(r.about, n)
      BY <2>2, <2>3, <3>1 DEF RelatedAnswered
    <3>2. CASE ~RelatedIsLate(r.about, n)
      <4>1. shown' = [shown EXCEPT ![r.about] = 1..n]
        BY <2>2, <2>3, <3>2 DEF RelatedAnswered, Synced
      <4>2. CASE r.about = t
        <5>1. ~(related.applied[t] > n)
          BY <3>2, <4>2 DEF RelatedIsLate
        <5>2. n \in Int /\ related.applied[t] \in Int
          BY <1>0, StreamAssumption, BridgeAssumption DEF Related, Never
        <5> QED
          BY <1>0, <4>1, <4>2, <5>1, <5>2
      <4>3. CASE r.about # t
        BY <1>0, <4>1, <4>3
      <4> QED
        BY <4>2, <4>3
    <3> QED
      BY <3>1, <3>2
  <2> QED
    BY <2>1, <2>3
<1>5. CASE \/ \E u \in Thread, n \in 1..MaxSeq : PushEvent(u, n)
           \/ TimerFires \/ ReadUnprompted \/ ReadFresh
           \/ \E r \in owed : LateReply(r)
           \/ \E w \in waiting : ReadTimesOut(w) \/ RelatedTimesOut(w)
           \/ \E u \in Thread \cup {NoThread} : ShowThread(u)
           \/ RelatedEffect \/ RelatedFire \/ UNCHANGED pageVars
  BY <1>5 DEF PushEvent, TimerFires, ReadUnprompted, ReadFresh, LateReply, ReadTimesOut,
              RelatedTimesOut, RelatedFailed, ShowThread, SetStreamThread, RelatedEffect,
              RelatedFire, pageVars, vars, streamVars
<1>6. ~ReloadPage
  BY <1>0 DEF ReloadPage, Reload, Reloaded
<1> QED
  BY <1>1, <1>2, <1>3, <1>4, <1>5, <1>6 DEF Next, StreamNext

\* While only the cards have read a thread, none of their answers takes an event
\* away that an earlier one brought (relatedThreads.ts appliedSequences), in
\* whatever order the app answers.
THEOREM CardsOnlyForward == Spec => CardsForward
<1> DEFINE Forwards ==
        \A t \in Thread \ {stream.thread} :
            stream' = stream /\ load' = load /\ shown[t] = 1..related.applied[t]
                => shown[t] \subseteq shown'[t]
<1>1. PageInv /\ [Next]_pageVars => Forwards
  <2> SUFFICES ASSUME PageInv, [Next]_pageVars, NEW t \in Thread \ {stream.thread},
                      stream' = stream, load' = load, shown[t] = 1..related.applied[t]
               PROVE  shown[t] \subseteq shown'[t]
    OBVIOUS
  <2>1. CASE shown'[t] = shown[t]
    BY <2>1
  <2>2. ASSUME NEW n \in Readable, n >= related.applied[t], shown'[t] = 1..n
        PROVE  shown[t] \subseteq shown'[t]
    <3>1. n \in Int /\ related.applied[t] \in Int
      BY StreamAssumption, BridgeAssumption DEF PageInv, Related, Never
    <3> QED
      BY <2>2, <3>1
  <2> QED
    BY <2>1, <2>2, OffScreen
<1>2. PageInv /\ [Next]_pageVars => [Forwards]_pageVars
  BY <1>1
<1> QED
  BY <1>2, AlwaysPageInv, PTL DEF Spec, CardsForward
=============================================================================
