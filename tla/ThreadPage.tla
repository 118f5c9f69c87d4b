------------------------------ MODULE ThreadPage ------------------------------
(***************************************************************************)
(* The chat page's threads: the one on screen, which threadStream.ts keeps   *)
(* up to date, and the related ones its subagent cards draw, which           *)
(* relatedThreads.ts reads.  Both put what they read in the page's one store. *)
(***************************************************************************)
EXTENDS ThreadStream, FiniteSetsExt

CONSTANTS
    Parent,        \* per thread, the thread whose subagent it is, or NoThread
    Mentions,      \* per thread, the events of its parent that name it
    SettledIn,     \* per thread, the sequences at which it is not running
    MaxRelated     \* MAX_RELATED_THREADS

ASSUME RelatedAssumption ==
    /\ Parent \in [Thread -> Thread \cup {NoThread}]
    /\ Mentions \in [Thread -> SUBSET (1..MaxSeq)]
    /\ SettledIn \in [Thread -> SUBSET (1..MaxSeq)]
    /\ MaxRelated \in Nat /\ IsFiniteSet(Thread)

VARIABLE related   \* the state of relatedThreads.ts

pageVars == <<vars, related>>

Never == -1

Related == [applied : [Thread -> Never..MaxSeq],   \* appliedSequences
            settled : [Thread -> Never..MaxSeq],   \* settledAtMentions
            due     : BOOLEAN]                     \* the timer of the next reads

NothingRead == [applied |-> [t \in Thread |-> Never],
                settled |-> [t \in Thread |-> Never], due |-> FALSE]

Init == BridgeInit /\ StreamInit /\ related = NothingRead

-----------------------------------------------------------------------------
(* Which threads the cards on screen need.                                 *)

\* subagentMentions: what of the parent's events on screen names it.
Named(c) == shown[Parent[c]] \cap Mentions[c]

\* The children of source that it names, but the ones named before the last few.
Children(source) ==
    LET named == {c \in Thread : Parent[c] = source /\ Named(c) # {}}
        later(c) == {d \in named : Min(Named(d)) > Min(Named(c))}
    IN  {c \in named : Cardinality(later(c)) < MaxRelated}

\* relatedThreads
RelatedThreads ==
    LET t == stream.thread
        source == IF Parent[t] = NoThread THEN t ELSE Parent[t]
        above == IF Parent[t] = NoThread THEN {}
                  ELSE {[about |-> Parent[t], child |-> FALSE, mentions |-> 0]}
    IN  IF t = NoThread THEN {}
        ELSE above \cup {[about |-> c, child |-> TRUE, mentions |-> Cardinality(Named(c))]
                            : c \in Children(source) \ {t}}

NeedsRead(entry) == ~entry.child \/ related.settled[entry.about] # entry.mentions

Due == {entry \in RelatedThreads : NeedsRead(entry)}

-----------------------------------------------------------------------------
(* Their reads.                                                            *)

\* The effect of useRelatedThreadSnapshots, after the screen changed.
RelatedEffect ==
    /\ ~related.due /\ Due # {}
    /\ related' = [related EXCEPT !.due = TRUE]
    /\ UNCHANGED vars

\* Its timer, at most every READ_INTERVAL_MS.  Bound: a number is left for the stream.
RelatedFire ==
    /\ related.due
    /\ Cardinality(Unused) > Cardinality(Due)
    /\ related' = [related EXCEPT !.due = FALSE]
    /\ LET number == CHOOSE f \in [Due -> Unused] : \A e, d \in Due : f[e] = f[d] => e = d
       IN  Post({[load |-> load, n |-> number[e], by |-> "card", about |-> e.about,
                  child |-> e.child, mentions |-> e.mentions] : e \in Due})
    /\ UNCHANGED streamVars

\* Mutant of RelatedIsLate: whatever is answered is applied.
RelatedIsLateNever(t, n) == FALSE

\* A late answer is one older than what was last read of its thread.
RelatedIsLate(t, n) == related.applied[t] > n

\* A card's read w is answered by the reply to r, with a snapshot.
RelatedAnswered(r, w, n) ==
    LET t == w.about
    IN  /\ IF RelatedIsLate(t, n) THEN UNCHANGED <<related, shown, torn>>
           ELSE /\ related' = [related EXCEPT
                        !.applied[t] = n,
                        !.settled[t] = IF w.child /\ n \in SettledIn[t] THEN w.mentions
                                                                        ELSE Never]
                /\ shown' = Synced(r.about, n)
                /\ torn' = (torn \/ r.about = stream.thread)
        /\ UNCHANGED <<stream, denied>>

\* Its answer is null or an error: nothing happens.
RelatedFailed == UNCHANGED <<related, streamVars>>

RelatedReply(r) ==
    \E w \in Settles(r) :
        /\ w.by = "card"
        /\ waiting' = waiting \ {w} /\ owed' = owed \ {r} /\ UNCHANGED load
        /\ RelatedFailed \/ \E n \in Readable : RelatedAnswered(r, w, n)

RelatedTimesOut(w) == w.by = "card" /\ TimesOut(w) /\ RelatedFailed

-----------------------------------------------------------------------------
\* The page comes to a thread, or to none: the next reads are for its cards.
ShowThread(t) == SetStreamThread(t) /\ related' = [related EXCEPT !.due = FALSE]

ReloadPage == Reload /\ related' = NothingRead

Next ==
    \/ StreamNext /\ UNCHANGED related
    \/ \E t \in Thread \cup {NoThread} : ShowThread(t)
    \/ RelatedEffect \/ RelatedFire
    \/ \E r \in owed : RelatedReply(r)
    \/ \E w \in waiting : RelatedTimesOut(w)
    \/ ReloadPage

Spec == Init /\ [][Next]_pageVars

\* The app answers a read in time, with a snapshot as new as what it pushed.
UpToDate == \E r \in waiting, n \in Readable :
                /\ r.by = "stream" /\ \A p \in stream.pending : p <= n
                /\ ReadAnswered(r, r, n)
                /\ UNCHANGED related

Fairness ==
    /\ WF_pageVars(Flush /\ UNCHANGED related)
    /\ WF_pageVars(TimerFires /\ UNCHANGED related)
    /\ SF_pageVars(UpToDate)

FairSpec == Spec /\ Fairness

-----------------------------------------------------------------------------
TypeOK ==
    /\ BridgeOK
    /\ shown \in [Thread -> SUBSET (1..MaxSeq)]
    /\ stream \in Stream
    /\ torn \in BOOLEAN /\ denied \in BOOLEAN
    /\ related \in Related

\* The stream's flag and its request agree: the page waits for one read of the
\* thread on screen while it says so, and for none otherwise, so a thread's
\* answer is never taken for another's (threadStream.ts snapshotRequest, its
\* cancellation by setStreamThread, and the ids of bridge.ts).
OneRead ==
    LET reads == {w \in waiting : w.by = "stream"}
    IN  /\ stream.reading <=> reads # {}
        /\ \A w, v \in reads : w = v
        /\ \A w \in reads : w.about = stream.thread

\* The page has held events since it came to the thread, and no snapshot to put
\* them on; asked for one, the app said there is no such thread, and no event has
\* come since.
TurnedAway ==
    stream.thread # NoThread /\ stream.applied = Unread /\ denied

\* Events held back behind a lost one, or for a first snapshot, are never
\* forgotten: a read is in flight or scheduled, whatever failed before.  The one
\* page that leaves them is the one turned away, until an event, a push or the
\* reader asks again; a page with a snapshot pursues a gap a null answer left
\* (scheduleRefresh, drainPending and the three outcomes of refreshSnapshot).
GapPursued ==
    stream.thread # NoThread /\ stream.pending # {} =>
        stream.timer \/ stream.reading \/ TurnedAway

\* What the page shows of a thread is always a beginning of its events, with
\* the next ones waiting for the frame: no event lost, none shown twice over a
\* snapshot that had it (applySnapshot's batch, take and flush).
ScreenExact ==
    stream.applied # Unread /\ ~torn =>
        \E k \in 0..stream.applied :
            shown[stream.thread] = 1..k /\ stream.batch = (k + 1)..stream.applied

\* The page keeps the promise of ThreadScreen.
OnScreen ==
    IF stream.applied = Unread \/ torn THEN -1
    ELSE IF \E k \in 1..MaxSeq : shown[stream.thread] = 1..k
         THEN Cardinality(shown[stream.thread]) ELSE -2

Screen == INSTANCE ThreadScreen WITH on <- stream.thread, at <- OnScreen

ScreenPromise == Screen!ScreenSpec

\* The page keeps catching up: again and again nothing is held back and nothing
\* waits for the frame, so (ScreenExact) every event the page has taken in is
\* shown, unless it left the thread, whatever was lost or failed before; or it was
\* turned away for good, with nothing more to come.
CatchesUp ==
    \/ []<>(stream.thread # NoThread => stream.pending = {} /\ stream.batch = {})
    \/ <>[]TurnedAway

\* While only the cards have read a thread, none of their answers takes an event
\* away that an earlier one brought (relatedThreads.ts appliedSequences).
CardsForward ==
    [][\A t \in Thread \ {stream.thread} :
           stream' = stream /\ load' = load /\ shown[t] = 1..related.applied[t]
               => shown[t] \subseteq shown'[t]]_pageVars

\* relatedThreads.ts:82: "The snapshot sequence applied per related thread, so
\* a late answer cannot undo a newer one."  What is on screen included.
LateAnswerHarmless ==
    [][stream' = stream /\ load' = load /\ stream.thread # NoThread
           => shown[stream.thread] \subseteq shown'[stream.thread]]_pageVars
=============================================================================
