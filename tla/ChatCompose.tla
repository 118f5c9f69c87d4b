------------------------------ MODULE ChatCompose ------------------------------
(***************************************************************************)
(* Sending a message from the chat page (web/chat/src/ChatController.tsx):   *)
(* the composer, the queue of follow-ups, the sends in progress, Stop, and    *)
(* the three ways to go back (edit and resend, revert, undo files).  Each     *)
(* handler runs to its next await at once; between two of its steps anything  *)
(* else may happen, and what it read before the await it still goes by.       *)
(*                                                                            *)
(* The session, the app's answers and Synara's queue (vendor/synara) are      *)
(* external.  A text is the set of what the user wrote into it.               *)
(***************************************************************************)
EXTENDS Naturals, FiniteSets, SequencesExt

CONSTANTS
    Piece,      \* what the user may write, each once
    Command,    \* the pieces that are slash commands of their own
    MaxQueue,   \* bound: how many follow-ups wait at once
    MaxClicks   \* bound: how often the user does anything or is asked

ASSUME ComposeAssumption == Command \subseteq Piece /\ MaxQueue \in Nat /\ MaxClicks \in Nat

VARIABLES
    composer,   \* the text in the composer
    queue,      \* the follow-ups that wait for the turn to end, each with its id
    sends,      \* the calls of onSend that are at an await
    page,       \* the page's flags
    back,       \* the page's rollbacks
    session,    \* what the thread's session is seen to do
    past,       \* history: what was written, accepted, put at risk
    clicks,     \* history: how often the user did anything or was asked
    fell        \* history: a command went on to be sent, and ever since a start is under way

state == <<composer, queue, sends, page, back, session, past>>
vars == <<state, clicks, fell>>

Text == SUBSET Piece

\* The ids of the queue: as many as may be in use at once, and one more.
Id == 0..MaxQueue

Queued == [id : Id, text : Text]

Send == [n    : Nat,           \* which call it is
         text : Text,
         entry : SUBSET Id,    \* the id of the queue's entry it sends, if one
         from : {"composer", "queue", "continue"},
         mode : {"queue", "steer"},
         at   : {"images", "command", "previews", "dispatch"},
         live : BOOLEAN,       \* hasQueueableLiveTurn when it began
         asks : BOOLEAN,       \* a question was open when it began
         stop : BOOLEAN]       \* the queue was held by Stop when it began

Page == [preflight : BOOLEAN,   \* sendPreflightInFlightRef
         inFlight  : BOOLEAN,   \* sendInFlightRef
         locked    : BOOLEAN,   \* the queue's lock on its head
         gate      : BOOLEAN,   \* queuedSteerGate
         dispatch  : {"none", "unacknowledged", "awaiting"},   \* localDispatch
         stopped   : BOOLEAN,   \* queueStoppedTurnId
         resumed   : BOOLEAN,   \* queueResumedTurnId is the latest turn
         stopping  : {"no", "held", "again"}]   \* Stop's request in flight

Back == [asking    : {"none", "revert", "undo"},         \* the confirm dialog
         reverting : BOOLEAN,                            \* isRevertingCheckpoint
         undo      : BOOLEAN,                            \* pendingFileUndo
         left      : 0..2,                               \* undo commands to send
         requests  : SUBSET {"edit", "revert", "undo"},  \* at an await
         early     : BOOLEAN]   \* history: an undo failed before all was asked for

Session == [phase  : {"ready", "connecting", "running"},
            turn   : BOOLEAN,                       \* activeTurnId is known
            failed : BOOLEAN,                       \* the latest turn's state is error
            asks   : {"none", "review", "question"}]

Past == [written : Text, accepted : [Piece -> 0..2], doubted : Text,
         replaced : Text, ran : Text, wiped : Text]

Init ==
    /\ composer = {} /\ queue = <<>> /\ sends = {}
    /\ page = [preflight |-> FALSE, inFlight |-> FALSE, locked |-> FALSE, gate |-> FALSE,
               dispatch |-> "none", stopped |-> FALSE, resumed |-> FALSE, stopping |-> "no"]
    /\ back = [asking |-> "none", reverting |-> FALSE, undo |-> FALSE, left |-> 0,
               requests |-> {}, early |-> FALSE]
    /\ session = [phase |-> "ready", turn |-> FALSE, failed |-> FALSE, asks |-> "none"]
    /\ past = [written |-> {}, accepted |-> [p \in Piece |-> 0], doubted |-> {},
               replaced |-> {}, ran |-> {}, wiped |-> {}]
    /\ clicks = 0 /\ fell = FALSE

-----------------------------------------------------------------------------
(* Conditions the handlers share.                                          *)

HasLiveTurn == session.phase = "running"
HasQueueableLiveTurn == HasLiveTurn /\ session.turn
IsConnecting == session.phase = "connecting"
IsSendBusy == page.dispatch = "unacknowledged"

\* Mutant of MaySend: a press that waits for the images is forgotten.
MaySendTwice ==
    /\ ~back.reverting /\ session.asks # "review"
    /\ ~IsSendBusy /\ ~page.inFlight /\ ~IsConnecting

\* What onSend refuses at once.
MaySend ==
    /\ ~back.reverting /\ session.asks # "review"
    /\ ~IsSendBusy /\ ~page.inFlight /\ ~page.preflight /\ ~IsConnecting

\* deriveQueuedComposerPause
Paused == ~HasLiveTurn /\ (page.stopped \/ (session.failed /\ ~page.resumed))

\* What Synara's queue waits for.
QueueHeld ==
    \/ HasQueueableLiveTurn \/ IsConnecting \/ page.dispatch # "none"
    \/ page.gate \/ session.asks # "none" \/ Paused
    \/ page.inFlight \/ page.preflight \/ page.locked

\* A confirm dialog lies over the page.
Clickable == back.asking = "none"

New(text, entry, from, mode) ==
    [n |-> clicks, text |-> text, entry |-> entry, from |-> from, mode |-> mode,
     at |-> "dispatch", live |-> FALSE, asks |-> FALSE, stop |-> page.stopped]

Starts == {s \in sends : s.at = "dispatch"}

\* No entry of the queue has that id, and no send is of one that had it.
IsNew(id) == /\ \A i \in DOMAIN queue : queue[i].id # id
             /\ \A s \in sends : id \notin s.entry

\* What a text that is put into the composer replaces there.
Replacing(text) == [past EXCEPT !.replaced = @ \cup (composer \ text)]

-----------------------------------------------------------------------------
(* Writing and sending.                                                    *)

\* The user types, or picks a choice of a visual, which goes under a draft.
Write(p) ==
    /\ p \notin past.written
    /\ composer' = composer \cup {p}
    /\ past' = [past EXCEPT !.written = @ \cup {p}]
    /\ UNCHANGED <<queue, sends, page, back, session>>

\* onSend of what is in the composer, up to waitForPendingComposerImages.
PressSend(mode) ==
    /\ Clickable /\ MaySend
    /\ sends' = sends \cup {[New({}, {}, "composer", mode) EXCEPT
                                !.at = "images", !.live = HasQueueableLiveTurn,
                                !.asks = session.asks = "question"]}
    /\ page' = [page EXCEPT !.preflight = TRUE]
    /\ UNCHANGED <<composer, queue, back, session, past>>

\* sendInFlightRef, beginLocalDispatch: the turn's start is asked for.
Dispatching(pg) == [pg EXCEPT !.inFlight = TRUE, !.dispatch = "unacknowledged"]

\* clearComposerSlashDraft, for the command text: the whole composer, with what
\* was written there since.
Clears(text) ==
    /\ composer' = {}
    /\ past' = [past EXCEPT !.ran = @ \cup (composer \cap text),
                            !.wiped = @ \cup (composer \ text)]

\* onSend behind the commands: text is queued or sent, by what was so when Send
\* was pressed, and the composer is cleared.
GoesOn(s, text, pg) ==
    LET rest == sends \ {s}
        now(at) == [s EXCEPT !.text = text, !.at = at, !.live = FALSE, !.asks = FALSE,
                             !.stop = @ /\ at = "dispatch"]
    IN  /\ composer' = {}
        /\ \/ /\ s.live /\ s.mode = "queue"
              /\ sends' = rest \cup {now("previews")} /\ page' = pg
           \/ /\ ~(s.live /\ s.mode = "queue")
              /\ sends' = rest \cup {now("dispatch")} /\ page' = Dispatching(pg)

\* The images are ready: the composer's text as it is now is answered with, run,
\* refused, queued or sent.  A command may clear the composer before its await.
ImagesReady(s) ==
    LET rest == sends \ {s}
        command(text) == [s EXCEPT !.text = text, !.at = "command", !.asks = FALSE]
        ready == [page EXCEPT !.preflight = FALSE]
    IN  /\ s.at = "images"
        /\ \/ /\ s.asks \/ composer = {}
              /\ sends' = rest /\ page' = ready /\ UNCHANGED <<composer, past>>
           \/ /\ ~s.asks /\ composer # {} /\ composer \subseteq Command /\ page' = ready
              /\ \/ sends' = rest \cup {command(composer)} /\ UNCHANGED <<composer, past>>
                 \/ sends' = rest \cup {command({})} /\ Clears(composer)
           \/ /\ ~s.asks /\ composer # {}
              /\ GoesOn(s, composer, ready) /\ UNCHANGED past
        /\ UNCHANGED <<queue, back, session>>

\* A slash command is done, or was refused; one that did not clear the composer
\* before its await may do so now.
CommandDone(s) ==
    /\ s.at = "command"
    /\ sends' = sends \ {s}
    /\ UNCHANGED <<composer, past>> \/ (s.text # {} /\ Clears(s.text))
    /\ UNCHANGED <<queue, page, back, session>>

\* Behind its await the command turns out to be none (/fast, which Claude runs):
\* its text is sent after all, whatever began meanwhile.
CommandFalls(s) ==
    /\ s.at = "command" /\ s.text # {}
    /\ GoesOn(s, s.text, page)
    /\ past' = [past EXCEPT !.wiped = @ \cup (composer \ s.text),
                            !.doubted = @ \cup (s.text \ composer)]
    /\ UNCHANGED <<queue, back, session>>

\* The previews are read: the follow-up joins the queue, under an id nothing has.
Enqueue(s) ==
    /\ s.at = "previews" /\ Len(queue) < MaxQueue
    /\ \E id \in Id :
          /\ IsNew(id) /\ \A n \in 0..(id - 1) : ~IsNew(n)
          /\ queue' = Append(queue, [id |-> id, text |-> s.text])
    /\ sends' = sends \ {s}
    /\ UNCHANGED <<composer, page, back, session, past>>

\* Mutant of Dequeued: a follow-up that was sent stays in the queue.
DequeuedNever(s) == queue

\* The queue's entry goes once it is sent, if it is still there.
Dequeued(s) ==
    LET entries == {i \in DOMAIN queue : queue[i].id \in s.entry}
    IN  IF entries = {} THEN queue ELSE RemoveAt(queue, CHOOSE i \in entries : TRUE)

Accepted(s) == [past EXCEPT !.accepted =
                   [p \in Piece |-> IF p \in s.text /\ @[p] < 2 THEN @[p] + 1 ELSE @[p]]]

\* prepareQueuedComposerResumeAfterSend: a message sent by hand ends a Stop's
\* hold, unless the hold changed since.
Resumes(s, pg) ==
    IF (s.from = "composer" \/ s.mode = "steer") /\ pg.stopped = s.stop
    THEN [pg EXCEPT !.stopped = FALSE, !.resumed = FALSE] ELSE pg

\* The app accepts the turn.  A steer may have to wait for the turn it ends.
SendAccepted(s) ==
    /\ s.at = "dispatch"
    /\ sends' = sends \ {s}
    /\ queue' = Dequeued(s)
    /\ \E gate \in {page.gate, page.gate \/ s.mode = "steer"} :
          page' = Resumes(s, [page EXCEPT !.inFlight = FALSE, !.gate = gate,
                                          !.locked = @ /\ s.from # "queue"])
    /\ past' = Accepted(s)
    /\ UNCHANGED <<composer, back, session>>

\* Mutant of SendFailed: the text is not put back into the composer.
SendFailedLost(s, late) ==
    /\ s.at = "dispatch"
    /\ sends' = sends \ {s}
    /\ page' = [page EXCEPT !.inFlight = FALSE, !.dispatch = "none",
                            !.locked = @ /\ s.from # "queue"]
    /\ UNCHANGED <<composer, queue, back, session, past>>

\* Mutant of SendFailed: the queue keeps its head locked.
SendFailedLocked(s, late) ==
    /\ s.at = "dispatch"
    /\ sends' = sends \ {s}
    /\ page' = [page EXCEPT !.inFlight = FALSE, !.dispatch = "none"]
    /\ LET risk == IF late THEN [Accepted(s) EXCEPT !.doubted = @ \cup s.text] ELSE past
       IN  IF s.from = "composer"
           THEN /\ composer' = s.text
                /\ past' = [risk EXCEPT !.replaced = @ \cup (composer \ s.text)]
           ELSE UNCHANGED composer /\ past' = risk
    /\ UNCHANGED <<queue, back, session>>

\* The save of an attachment or the turn's start fails, or is not answered in
\* time, when the app may have accepted it.  The text goes back where it was.
SendFailed(s, late) ==
    /\ s.at = "dispatch"
    /\ sends' = sends \ {s}
    /\ page' = [page EXCEPT !.inFlight = FALSE, !.dispatch = "none",
                            !.locked = @ /\ s.from # "queue"]
    /\ LET risk == IF late THEN [Accepted(s) EXCEPT !.doubted = @ \cup s.text] ELSE past
       IN  IF s.from = "composer"
           THEN /\ composer' = s.text
                /\ past' = [risk EXCEPT !.replaced = @ \cup (composer \ s.text)]
           ELSE UNCHANGED composer /\ past' = risk
    /\ UNCHANGED <<queue, back, session>>

-----------------------------------------------------------------------------
(* The queue (Synara's useChatQueuedTurns, which calls onSend).            *)

SendQueued(i, mode) ==
    /\ page.locked = FALSE /\ MaySend
    /\ sends' = sends \cup {New(queue[i].text, {queue[i].id}, "queue", mode)}
    /\ page' = [Dispatching(page) EXCEPT !.locked = TRUE]
    /\ UNCHANGED <<composer, queue, back, session, past>>

Drain == queue # <<>> /\ ~QueueHeld /\ SendQueued(1, "queue")

SteerQueued(i) == Clickable /\ SendQueued(i, "steer")

\* The entry goes back into the composer, over what is there.
EditQueued(i) ==
    /\ Clickable
    /\ queue' = RemoveAt(queue, i)
    /\ composer' = queue[i].text
    /\ past' = [Replacing(queue[i].text) EXCEPT !.doubted =
                    IF \E s \in sends : queue[i].id \in s.entry
                    THEN @ \cup queue[i].text ELSE @]
    /\ UNCHANGED <<sends, page, back, session>>

RemoveQueued(i) ==
    /\ Clickable
    /\ queue' = RemoveAt(queue, i)
    /\ past' = [past EXCEPT !.replaced = @ \cup queue[i].text]
    /\ UNCHANGED <<composer, sends, page, back, session>>

\* onContinueFailedTurn: a prompt of its own, sent as a queued one is.
ContinueFailedTurn ==
    /\ Clickable /\ session.failed /\ ~HasLiveTurn /\ session.asks # "question" /\ MaySend
    /\ sends' = sends \cup {New({}, {}, "continue", "queue")}
    /\ page' = Dispatching(page)
    /\ UNCHANGED <<composer, queue, back, session, past>>

\* onInterrupt
Stop ==
    /\ Clickable /\ page.stopping = "no"
    /\ page' = [page EXCEPT !.stopping = IF page.stopped THEN "again" ELSE "held",
                            !.stopped = TRUE]
    /\ UNCHANGED <<composer, queue, sends, back, session, past>>

\* Its request fails: the hold this Stop put on the queue is released.
StopAnswered(ok) ==
    /\ page.stopping # "no"
    /\ page' = [page EXCEPT !.stopping = "no",
                            !.stopped = @ /\ (ok \/ page.stopping = "again")]
    /\ UNCHANGED <<composer, queue, sends, back, session, past>>

\* onResumeQueuedComposerTurns
Resume ==
    /\ Clickable /\ Paused /\ queue # <<>>
    /\ page' = [page EXCEPT !.stopped = FALSE, !.resumed = TRUE]
    /\ UNCHANGED <<composer, queue, sends, back, session, past>>

-----------------------------------------------------------------------------
(* Going back.                                                             *)

\* Mutant of MayGoBack: a rollback in progress is not looked at.
MayGoBackAgain == Clickable /\ ~IsSendBusy /\ ~IsConnecting

MayGoBack == Clickable /\ ~back.reverting /\ ~IsSendBusy /\ ~IsConnecting

\* onEditUserMessage: the settings are saved, then the message is sent again.
\* The message of a turn that runs may be edited too.
EditUserMessage ==
    /\ MayGoBack /\ ~page.inFlight
    /\ back' = [back EXCEPT !.reverting = TRUE, !.requests = @ \cup {"edit"}]
    /\ UNCHANGED <<composer, queue, sends, page, session, past>>

\* onRevertToTurnCount and onUndoTurnFiles, up to the confirm dialog.
AskFirst(what) ==
    /\ MayGoBack /\ ~HasLiveTurn
    /\ back' = [back EXCEPT !.asking = what]
    /\ UNCHANGED <<composer, queue, sends, page, session, past>>

Decline ==
    /\ back.asking # "none"
    /\ back' = [back EXCEPT !.asking = "none"]
    /\ UNCHANGED <<composer, queue, sends, page, session, past>>

\* What was so before the question is not looked at again.
Confirm ==
    /\ back.asking # "none"
    /\ back' = [back EXCEPT !.asking = "none", !.reverting = TRUE,
                            !.requests = @ \cup {back.asking},
                            !.undo = @ \/ back.asking = "undo",
                            !.left = IF back.asking = "undo" THEN 2 ELSE @]
    /\ UNCHANGED <<composer, queue, sends, page, session, past>>

\* Mutant of BackAnswered: the page is left locked.
BackAnsweredLocked(what) ==
    /\ what \in {"edit", "revert"} /\ what \in back.requests
    /\ back' = [back EXCEPT !.requests = @ \ {what}]
    /\ UNCHANGED <<composer, queue, sends, page, session, past>>

\* The answer to an edit or a revert, whatever it is.
BackAnswered(what) ==
    /\ what \in {"edit", "revert"} /\ what \in back.requests
    /\ back' = [back EXCEPT !.reverting = FALSE, !.requests = @ \ {what}]
    /\ UNCHANGED <<composer, queue, sends, page, session, past>>

\* The turns of an undo are asked for one by one, newest first.
UndoAccepted ==
    /\ "undo" \in back.requests
    /\ back' = [back EXCEPT !.left = @ - 1,
                            !.requests = IF back.left = 1 THEN @ \ {"undo"} ELSE @]
    /\ UNCHANGED <<composer, queue, sends, page, session, past>>

UndoRefused ==
    /\ "undo" \in back.requests
    /\ back' = [back EXCEPT !.left = 0, !.requests = @ \ {"undo"},
                            !.undo = FALSE, !.reverting = FALSE]
    /\ UNCHANGED <<composer, queue, sends, page, session, past>>

\* The thread shows every turn undone, or that one could not be.
UndoSettled(failed) ==
    /\ back.undo /\ IF failed THEN back.left < 2 ELSE back.left = 0
    /\ back' = [back EXCEPT !.undo = FALSE, !.reverting = FALSE,
                            !.early = @ \/ back.left > 0]
    /\ UNCHANGED <<composer, queue, sends, page, session, past>>

-----------------------------------------------------------------------------
(* What the page sees of the session, and the ends of its own waits.       *)

SessionChanges(s) ==
    /\ session' = s /\ s # session
    /\ page' = [page EXCEPT !.dispatch = IF s.phase = "running" /\ @ # "none" THEN "awaiting"
                                                                             ELSE @,
                            !.resumed = @ /\ s.phase # "running"]
    /\ UNCHANGED <<composer, queue, sends, back, past>>

TurnStarts ==
    /\ ~HasLiveTurn
    /\ \E turn \in BOOLEAN :
          SessionChanges([session EXCEPT !.phase = "running", !.turn = turn, !.failed = FALSE])

TurnKnown == HasLiveTurn /\ SessionChanges([session EXCEPT !.turn = TRUE])

TurnEnds ==
    /\ HasLiveTurn
    /\ \E failed \in BOOLEAN :
          SessionChanges([session EXCEPT !.phase = "ready", !.turn = FALSE, !.failed = failed])

Connects ==
    /\ ~HasLiveTurn
    /\ \E phase \in {"connecting", "ready"} : SessionChanges([session EXCEPT !.phase = phase])

\* The agent asks for a review or an answer, and gets it.
Asks(asks) == SessionChanges([session EXCEPT !.asks = asks])

\* The thread echoes the message, or the wait for it runs out.
Acknowledged ==
    /\ page.dispatch # "none" /\ ~page.inFlight
    /\ page' = [page EXCEPT !.dispatch = IF @ = "unacknowledged" THEN "awaiting" ELSE "none"]
    /\ UNCHANGED <<composer, queue, sends, back, session, past>>

GateOpens ==
    /\ page.gate
    /\ page' = [page EXCEPT !.gate = FALSE]
    /\ UNCHANGED <<composer, queue, sends, back, session, past>>

-----------------------------------------------------------------------------
Settles(s) == \/ ImagesReady(s) \/ CommandDone(s) \/ CommandFalls(s) \/ Enqueue(s)
              \/ SendAccepted(s) \/ SendFailed(s, FALSE) \/ SendFailed(s, TRUE)

\* What the page and the app do by themselves.
ByItself ==
    \/ \E s \in sends : Settles(s)
    \/ Drain \/ \E ok \in BOOLEAN : StopAnswered(ok)
    \/ \E what \in {"edit", "revert"} : BackAnswered(what)
    \/ UndoAccepted \/ UndoRefused \/ \E failed \in BOOLEAN : UndoSettled(failed)
    \/ TurnStarts \/ TurnKnown \/ TurnEnds \/ Connects \/ Asks("none") \/ Acknowledged \/ GateOpens

ByUser ==
    \/ \E p \in Piece : Write(p)
    \/ \E mode \in {"queue", "steer"} : PressSend(mode)
    \/ \E i \in DOMAIN queue : SteerQueued(i) \/ EditQueued(i) \/ RemoveQueued(i)
    \/ ContinueFailedTurn \/ Stop \/ Resume
    \/ EditUserMessage \/ \E what \in {"revert", "undo"} : AskFirst(what)
    \/ Decline \/ Confirm
    \/ \E what \in {"review", "question"} : Asks(what)

\* A command goes on to be sent at once.
Falls == Starts' # Starts /\ \E s \in sends : CommandFalls(s)

Next ==
    /\ \/ ByItself /\ UNCHANGED clicks
       \/ ByUser /\ clicks < MaxClicks /\ clicks' = clicks + 1
    /\ fell' = ((fell \/ Falls) /\ Starts' # {})

Spec == Init /\ [][Next]_vars

\* Requests are answered or run out of time, turns end, and of the tries to
\* send a queued text one is accepted.  An undo that was asked for may never show.
Fairness ==
    /\ WF_state(\E s \in sends : Settles(s))
    /\ SF_state(\E s \in sends : SendAccepted(s))
    /\ SF_state(Drain)
    /\ WF_state(TurnEnds) /\ SF_state(Acknowledged) /\ WF_state(GateOpens)
    /\ WF_state(Connects) /\ WF_state(\E what \in {"edit", "revert"} : BackAnswered(what))
    /\ WF_state(UndoAccepted \/ UndoRefused)

FairSpec == Spec /\ Fairness

-----------------------------------------------------------------------------
TypeOK ==
    /\ composer \in Text
    /\ queue \in Seq(Queued) /\ Len(queue) <= MaxQueue
    /\ sends \subseteq Send
    /\ page \in Page /\ back \in Back /\ session \in Session /\ past \in Past
    /\ clicks \in 0..MaxClicks /\ fell \in BOOLEAN

\* Nothing the user wrote vanishes: it is in the composer, waits in the queue,
\* is being queued or sent, was accepted or run, or was replaced in the composer by
\* a text that came back; or it was written over a command that cleared the whole
\* composer behind its await (onSend's clear, enqueue and catch; the queue's
\* removal; clearComposerSlashDraft).
NothingVanishes ==
    \A p \in past.written :
        \/ p \in composer \cup past.replaced \cup past.ran \cup past.wiped
        \/ \E i \in DOMAIN queue : p \in queue[i].text
        \/ \E s \in sends : s.at \in {"previews", "dispatch"} /\ p \in s.text
        \/ past.accepted[p] > 0

\* The backend starts no second turn with a text it has accepted, unless the
\* app's answer was late, the user took it back while it was being sent, or it was
\* a command's that had left the composer when the command went on to be sent.
SentOnce == \A p \in Piece \ past.doubted : past.accepted[p] <= 1

\* However presses, the queue and Continue interleave with the awaits of onSend,
\* the page asks for one turn at a time and knows that it does, unless a command
\* went on to be sent and the starts since then overlap; and once all are over it
\* knows that too (sendPreflightInFlightRef, sendInFlightRef, the queue's lock).
OneStart ==
    /\ fell \/ \A s \in Starts : page.inFlight /\ Starts = {s}
    /\ page.inFlight => Starts # {}

\* Two rollbacks never run at once, and the page knows that one runs, unless
\* part of an undo failed while the rest was still being asked for.
OneRollback ==
    back.early \/ /\ Cardinality(back.requests) <= 1
                  /\ back.requests # {} \/ back.undo => back.reverting

\* A rollback ends: again and again the page is unlocked (setIsRevertingCheckpoint),
\* or all of an undo was asked for and the page only waits for the thread to show
\* it, or that it could not be, which it does without a limit (pendingFileUndo).
RollbackEnds == []<>(~back.reverting \/ (back.undo /\ back.requests = {}))

\* The queue empties in the end, or something the reader can see holds it.
QueueDrains ==
    []<>(queue = <<>> \/ Paused \/ session.asks # "none" \/ back.reverting
         \/ ~Clickable \/ page.preflight)
=============================================================================
