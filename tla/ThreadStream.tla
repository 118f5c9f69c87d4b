----------------------------- MODULE ThreadStream -----------------------------
(***************************************************************************)
(* How the chat page folds a thread's events into what it shows             *)
(* (web/chat/src/threadStream.ts).  A snapshot replaces the thread, later    *)
(* events are taken in sequence order and shown a frame later; an event that *)
(* skips a number means one was lost, and the thread is read again.          *)
(*                                                                           *)
(* Nothing is assumed of the app's pushes: any event and any snapshot of a   *)
(* thread may arrive at any time, in any order, often, or never.  A thread's *)
(* events are numbered from 1; a snapshot of sequence n has the first n.      *)
(***************************************************************************)
EXTENDS ChatBridge

CONSTANTS
    Readable,      \* bound: the sequences at which the backend is read
    PendingLimit   \* PENDING_LIMIT

ASSUME StreamAssumption == Readable \subseteq 1..MaxSeq /\ PendingLimit \in Nat \ {0}

VARIABLES
    shown,     \* per thread, the events the page's store has the effects of
    stream,    \* the state of threadStream.ts
    torn,      \* history: someone else replaced the thread on screen in the store
    denied     \* history: the last read was answered null, with events held for a
               \* first snapshot, and nothing came since

streamVars == <<shown, stream, torn, denied>>
vars == <<bridgeVars, streamVars>>

Unread == -1

Stream == [thread  : Thread \cup {NoThread},      \* currentThreadId
           applied : -1..MaxSeq,                  \* appliedSequence
           pending : SUBSET (1..MaxSeq),          \* held until what precedes them
           batch   : SUBSET (1..MaxSeq),          \* taken, shown at the next flush
           frame   : BOOLEAN,                     \* flushScheduled
           timer   : BOOLEAN,                     \* refreshTimer
           reading : BOOLEAN,                     \* snapshotRequest
           again   : BOOLEAN]                     \* a fresh read chained to it

OnThread(t) == [thread |-> t, applied |-> Unread, pending |-> {}, batch |-> {},
                frame |-> stream.frame, timer |-> FALSE, reading |-> FALSE, again |-> FALSE]

FirstLoad == [thread |-> NoThread, applied |-> Unread, pending |-> {}, batch |-> {},
              frame |-> FALSE, timer |-> FALSE, reading |-> FALSE, again |-> FALSE]

StreamInit ==
    /\ shown = [t \in Thread |-> {}]
    /\ stream = FirstLoad
    /\ torn = FALSE /\ denied = FALSE

-----------------------------------------------------------------------------
(* The helpers, as functions of the stream's state.                        *)

\* scheduleRefresh; how long the timer waits is not modelled.
ScheduleRefresh(s) == [s EXCEPT !.timer = @ \/ ~s.reading]

\* Holds the event n, or drops it: the limit counts copies of an event, so that
\* any events held may be too many.
Hold(s, n, full) ==
    [s EXCEPT !.pending = IF full THEN @ ELSE @ \cup {n}]

MayBeFull(s) == {full \in BOOLEAN : /\ full => s.pending # {}
                                    /\ Cardinality(s.pending) >= PendingLimit => full}

\* The last event that follows what is applied without a gap.
Reach(s) == CHOOSE k \in s.applied..MaxSeq :
                /\ (s.applied + 1)..k \subseteq s.pending
                /\ k + 1 \notin s.pending

\* Mutant of TakeTo: the frame is asked for only when nothing is left behind.
TakeToUnframed(s, k) ==
    [s EXCEPT !.applied = k,
              !.batch = @ \cup ((s.applied + 1)..k),
              !.frame = @ \/ (k > s.applied /\ s.pending = {}),
              !.pending = {n \in @ : n > k}]

\* take, for each event up to k.
TakeTo(s, k) ==
    [s EXCEPT !.applied = k,
              !.batch = @ \cup ((s.applied + 1)..k),
              !.frame = @ \/ k > s.applied,
              !.pending = {n \in @ : n > k}]

\* drainPending
Drain(s) ==
    IF s.applied = Unread THEN s
    ELSE LET done == TakeTo(s, Reach(s))
         IN  IF done.pending = {} THEN done ELSE ScheduleRefresh(done)

\* Mutant of Replaces: an older snapshot is applied too.
ReplacesAlways(s, n) == TRUE

\* applySnapshot: one older than what is applied changes nothing.
Replaces(s, n) == n >= s.applied

ApplySnapshot(s, n) ==
    Drain(IF Replaces(s, n) THEN [s EXCEPT !.batch = {}, !.applied = n] ELSE s)

\* The store's copy of t becomes what the snapshot of sequence n says.
Synced(t, n) == [shown EXCEPT ![t] = 1..n]

\* What applySnapshot does to the screen.
Shows(n, t) ==
    IF Replaces(stream, n) THEN shown' = Synced(t, n) /\ torn' = FALSE
                           ELSE UNCHANGED <<shown, torn>>

\* The stream's read of its thread, under a free number.
ReadOf(t, free) == [load |-> load, n |-> CHOOSE n \in free : TRUE, by |-> "stream",
                    about |-> t, child |-> FALSE, mentions |-> 0]

\* refreshSnapshot with no read in flight.
StartRead(s) ==
    /\ Unused # {}
    /\ stream' = [s EXCEPT !.reading = TRUE, !.again = FALSE]
    /\ Post({ReadOf(s.thread, Unused)})

-----------------------------------------------------------------------------
(* What the app pushes.                                                    *)

\* Mutant of SetStreamThread: the read of the thread left is not cancelled.
SetStreamThreadUncancelled(t) ==
    /\ t # stream.thread
    /\ stream' = OnThread(t)
    /\ torn' = FALSE /\ denied' = FALSE
    /\ UNCHANGED <<bridgeVars, shown>>

\* setStreamThread, when the "context" push names another thread, or none.
SetStreamThread(t) ==
    /\ t # stream.thread
    /\ stream' = OnThread(t)
    /\ torn' = FALSE /\ denied' = FALSE
    /\ IF stream.reading THEN CancelPending ELSE UNCHANGED bridgeVars
    /\ UNCHANGED shown

\* A snapshot of another thread is dropped; with no thread, its own is taken.
PushSnapshot(t, n) ==
    /\ \/ /\ stream.thread = t
          /\ stream' = ApplySnapshot(stream, n)
       \/ /\ stream.thread = NoThread
          /\ stream' = ApplySnapshot(OnThread(t), n)
    /\ Shows(n, t)
    /\ denied' = FALSE
    /\ UNCHANGED bridgeVars

\* An event of another thread is dropped.
PushEvent(t, n) ==
    /\ stream.thread \in {t, NoThread}
    /\ \E full \in MayBeFull(stream) :
           LET held == Hold(stream, n, full)
           IN  \/ /\ stream.applied = Unread
                  /\ stream' = ScheduleRefresh(held)
               \/ /\ stream.applied # Unread /\ stream.reading
                  /\ stream' = held
               \/ /\ stream.applied # Unread /\ ~stream.reading
                  /\ n > stream.applied + 1
                  /\ stream' = ScheduleRefresh(held)
               \/ /\ stream.applied # Unread /\ ~stream.reading
                  /\ n = stream.applied + 1
                  /\ stream' = LET s == TakeTo(stream, n)
                               IN  IF s.pending = {} THEN s ELSE Drain(s)
    /\ denied' = FALSE
    /\ UNCHANGED <<bridgeVars, shown, torn>>

-----------------------------------------------------------------------------
(* The page's timers and its reads.                                        *)

\* flush, a frame after an event was taken.
Flush ==
    /\ stream.frame
    /\ stream' = [stream EXCEPT !.frame = FALSE, !.batch = {}]
    /\ shown' = IF stream.batch = {} THEN shown
                ELSE [shown EXCEPT ![stream.thread] = @ \cup stream.batch]
    /\ UNCHANGED <<bridgeVars, torn, denied>>

\* The timer of scheduleRefresh; a read in flight is shared.
TimerFires ==
    /\ stream.timer
    /\ LET s == [stream EXCEPT !.timer = FALSE]
       IN  IF s.thread = NoThread \/ s.reading
           THEN stream' = s /\ UNCHANGED bridgeVars
           ELSE StartRead(s)
    /\ UNCHANGED <<shown, torn, denied>>

\* A page that has no snapshot half a second after it was drawn reads it.
ReadUnprompted ==
    /\ stream.thread # NoThread /\ stream.applied = Unread /\ ~stream.reading
    /\ StartRead(stream)
    /\ UNCHANGED <<shown, torn, denied>>

\* refreshSnapshot({fresh}), after a command: a read made after now.
ReadFresh ==
    /\ stream.thread # NoThread
    /\ \/ /\ stream.reading /\ ~stream.again
          /\ stream' = [stream EXCEPT !.again = TRUE]
          /\ UNCHANGED bridgeVars
       \/ ~stream.reading /\ StartRead(stream)
    /\ UNCHANGED <<shown, torn, denied>>

\* The read w is over and left the stream at s; a fresh one chained to it starts.
Continue(w, s, debt) ==
    LET next == IF s.again THEN {ReadOf(s.thread, Free(debt))} ELSE {}
    IN  /\ Free(debt) # {}
        /\ stream' = [s EXCEPT !.reading = s.again, !.again = FALSE]
        /\ waiting' = (waiting \ {w}) \cup next
        /\ owed' = debt \cup next
        /\ UNCHANGED load

ReadOver == [stream EXCEPT !.reading = FALSE]

\* The app answers r, which is the request w to the page, with a snapshot.  The
\* page is still on the thread it asked for: leaving it cancels the read.
ReadAnswered(r, w, n) ==
    /\ Continue(w, ApplySnapshot(ReadOver, n), owed \ {r})
    /\ Shows(n, r.about)
    /\ denied' = FALSE

\* The answer is null: the backend has no such thread.  Before the first snapshot
\* there is nothing to drain onto, and what was held stays, with no read to come.
ReadFoundNone(r, w) ==
    /\ Continue(w, Drain(ReadOver), owed \ {r})
    /\ denied' = (stream.applied = Unread /\ stream.pending # {})
    /\ UNCHANGED <<shown, torn>>

\* Mutant of ReadFailed: a read that fails is not made again.
ReadFailedQuietly(r, w) ==
    /\ Continue(w, ReadOver, owed \ {r})
    /\ denied' = FALSE
    /\ UNCHANGED <<shown, torn>>

\* The answer is an error.
ReadFailed(r, w) ==
    /\ Continue(w, IF stream.pending = {} THEN ReadOver ELSE ScheduleRefresh(ReadOver),
                owed \ {r})
    /\ denied' = FALSE
    /\ UNCHANGED <<shown, torn>>

StreamReply(r) ==
    \E w \in Settles(r) :
        /\ w.by = "stream"
        /\ \/ \E n \in Readable : ReadAnswered(r, w, n)
           \/ ReadFoundNone(r, w)
           \/ ReadFailed(r, w)

\* A read that is not answered in time is made again, backing off.
ReadTimesOut(w) ==
    /\ w.by = "stream"
    /\ \E debt \in Debts(waiting \ {w}) : Continue(w, ScheduleRefresh(ReadOver), debt)
    /\ denied' = FALSE
    /\ UNCHANGED <<shown, torn>>

\* The reply of an abandoned request.
LateReply(r) == Ignored(r) /\ UNCHANGED streamVars

Reload ==
    /\ Reloaded
    /\ stream' = FirstLoad
    /\ shown' = [t \in Thread |-> {}]
    /\ torn' = FALSE /\ denied' = FALSE

\* The stream's steps but the switch of the thread and the reload, which the
\* rest of the page takes part in.
StreamNext ==
    \/ \E t \in Thread, n \in Readable : PushSnapshot(t, n)
    \/ \E t \in Thread, n \in 1..MaxSeq : PushEvent(t, n)
    \/ Flush \/ TimerFires \/ ReadUnprompted \/ ReadFresh
    \/ \E r \in owed : StreamReply(r) \/ LateReply(r)
    \/ \E w \in waiting : ReadTimesOut(w)
=============================================================================
