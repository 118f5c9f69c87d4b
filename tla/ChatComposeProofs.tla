--------------------------- MODULE ChatComposeProofs ---------------------------
(***************************************************************************)
(* Proofs about ChatCompose, for any texts, queue and number of presses: the *)
(* page asks for one turn at a time, and for one rollback at a time unless    *)
(* part of an undo failed while the rest was still being asked for; and       *)
(* nothing the user wrote vanishes or, but for a late answer, is sent twice.  *)
(***************************************************************************)
EXTENDS ChatCompose, FiniteSetTheorems, SequenceTheorems, TLAPS

\* Every send in progress is a record that says where it is and whose.
Whole(s) == {"at", "from"} \subseteq DOMAIN s

Waiting(at) == \E s \in sends : s.at = at

\* One send at most waits for its images, and the flag says so; a turn's start that
\* the page knows of is under way; and one send at most is of the queue, with its
\* head locked.
Flagged ==
    /\ \A s \in sends : Whole(s)
    /\ page.preflight <=> Waiting("images")
    /\ \A s, q \in sends : s.at = "images" /\ q.at = "images" => s = q
    /\ page.inFlight => Waiting("dispatch")
    /\ \A s \in sends : s.from = "queue" => page.locked
    /\ \A s, q \in sends : s.from = "queue" /\ q.from = "queue" => s = q

\* While no command went on to be sent: one start at most is under way, the page
\* knows of it, and no send waits for its images beside it.
Sole ==
    /\ Waiting("dispatch") => page.inFlight
    /\ ~(page.preflight /\ page.inFlight)
    /\ \A s, q \in sends : s.at = "dispatch" /\ q.at = "dispatch" => s = q

FlagInv == page \in Page /\ Flagged

SendInv == FlagInv /\ (fell \/ Sole)

\* A step keeps both, unless a command goes on to be sent in it.
Keeps == FlagInv' /\ (Sole => Sole' \/ Falls)

\* While no part of an undo failed early: one request at most, the page knows of
\* it, a question is open only with none, and an undo is alone until it settles.
Single ==
    /\ \A a, b \in back.requests : a = b
    /\ back.requests # {} \/ back.undo => back.reverting
    /\ back.asking # "none" => ~back.reverting
    /\ "undo" \in back.requests => back.undo
    /\ back.undo => back.requests \subseteq {"undo"}

BackInv ==
    /\ back \in Back
    /\ "undo" \in back.requests <=> back.left > 0
    /\ back.early \/ Single

ComposeInv == SendInv /\ BackInv

-----------------------------------------------------------------------------
(* Sends that begin, end and move on.                                      *)

\* The sends and the flags about them stay.
SendsStay ==
    /\ sends' = sends /\ page' \in Page
    /\ page'.inFlight = page.inFlight /\ page'.preflight = page.preflight
    /\ page'.locked = page.locked

LEMMA StayStep ==
    ASSUME FlagInv, SendsStay
    PROVE  Keeps
BY DEF FlagInv, Keeps, Sole, SendsStay, Flagged, Waiting, Whole

\* The page was free when a send begins.
LEMMA BeginStep ==
    ASSUME FlagInv, ~page.inFlight, ~page.preflight, NEW s, Whole(s),
           sends' = sends \cup {s}, page' \in Page,
           \/ /\ s.at = "images" /\ s.from # "queue" /\ page'.preflight = TRUE
              /\ page'.inFlight = page.inFlight /\ page'.locked = page.locked
           \/ /\ s.at = "dispatch" /\ page'.inFlight = TRUE
              /\ page'.preflight = page.preflight
              /\ \/ s.from # "queue" /\ page'.locked = page.locked
                 \/ ~page.locked /\ page'.locked = TRUE
    PROVE  Keeps
<1>1. \A q \in sends : q.at # "images"
  BY DEF FlagInv, Flagged, Waiting
<1>2. \A q \in sends' : q \in sends \/ q = s
  OBVIOUS
<1>3. s \in sends' /\ \A q \in sends : q \in sends'
  OBVIOUS
<1>4. Flagged'
  <2>1. \A q \in sends' : Whole(q)
    BY <1>2 DEF FlagInv, Flagged
  <2>2. page'.preflight <=> Waiting("images")'
    BY <1>1, <1>2, <1>3 DEF FlagInv, Flagged, Waiting
  <2>3. \A r, q \in sends' : r.at = "images" /\ q.at = "images" => r = q
    BY <1>1, <1>2
  <2>4. page'.inFlight => Waiting("dispatch")'
    BY <1>3 DEF FlagInv, Flagged, Waiting
  <2>5. \A q \in sends' : q.from = "queue" => page'.locked
    BY <1>2 DEF FlagInv, Flagged
  <2>6. \A r, q \in sends' : r.from = "queue" /\ q.from = "queue" => r = q
    BY <1>2 DEF FlagInv, Flagged
  <2>7. (\A q \in sends : Whole(q))'
    BY <2>1 DEF Whole
  <2> QED
    BY <2>2, <2>3, <2>4, <2>5, <2>6, <2>7 DEF Flagged
<1>5. ASSUME Sole PROVE Sole'
  <2>1. \A q \in sends : q.at # "dispatch"
    BY <1>5 DEF Sole, Waiting
  <2>2. \A r, q \in sends' : r.at = "dispatch" /\ q.at = "dispatch" => r = q
    BY <1>2, <2>1
  <2>3. Waiting("dispatch")' => page'.inFlight
    BY <1>2, <2>1 DEF Waiting
  <2>4. ~(page'.preflight /\ page'.inFlight)
    OBVIOUS
  <2> QED
    BY <2>2, <2>3, <2>4 DEF Sole
<1> QED
  BY <1>4, <1>5 DEF Keeps, FlagInv

\* A send that is at an await of its own ends.
LEMMA AsideStep ==
    ASSUME FlagInv, NEW s \in sends, s.at \notin {"images", "dispatch"},
           sends' = sends \ {s}, page' = page
    PROVE  Keeps
<1>1. \A a \in {"images", "dispatch"} : Waiting(a) <=> Waiting(a)'
  BY DEF Waiting
<1> QED
  BY <1>1 DEF FlagInv, Keeps, Sole, Flagged, Whole

\* A start is over.
LEMMA EndStep ==
    ASSUME FlagInv, NEW s \in sends, s.at = "dispatch", sends' = sends \ {s},
           page' \in Page, page'.inFlight = FALSE, page'.preflight = page.preflight,
           s.from # "queue" => page'.locked = page.locked
    PROVE  Keeps
<1>1. Waiting("images") <=> Waiting("images")'
  BY DEF Waiting
<1>2. \A q \in sends' : q.from = "queue" => page'.locked
  BY DEF FlagInv, Flagged
<1>3. Flagged'
  BY <1>1, <1>2 DEF FlagInv, Flagged, Whole
<1>4. Sole => Sole'
  BY DEF Sole, Waiting
<1> QED
  BY <1>3, <1>4 DEF FlagInv, Keeps

\* A send behind its images or its command: it ends, or goes on as q.
Onward(s, q) ==
    /\ page' \in Page /\ page'.locked = page.locked
    /\ page'.preflight = (IF s.at = "images" THEN FALSE ELSE page.preflight)
    /\ \/ sends' = sends \ {s} /\ page'.inFlight = page.inFlight
       \/ /\ Whole(q) /\ q.from = s.from /\ sends' = (sends \ {s}) \cup {q}
          /\ \/ q.at \in {"command", "previews"} /\ page'.inFlight = page.inFlight
             \/ q.at = "dispatch" /\ page'.inFlight = TRUE

LEMMA OnwardStep ==
    ASSUME FlagInv, NEW s \in sends, NEW q, s.at \in {"images", "command"}, Onward(s, q)
    PROVE  /\ FlagInv'
           /\ Sole /\ (s.at = "images" \/ Starts' = Starts) => Sole'
<1>0. page' \in Page /\ page'.locked = page.locked
  BY DEF Onward
<1>1. \A r \in sends' : (r \in sends /\ r # s) \/ (Whole(q) /\ r = q /\ q.from = s.from
                                                 /\ q.at # "images")
  BY DEF Onward
<1>2. \A r \in sends : r # s => r \in sends'
  BY DEF Onward
<1>3. page'.preflight <=> Waiting("images")'
  <2>1. CASE s.at = "images"
    <3>1. \A r \in sends' : r.at # "images"
      BY <1>1, <2>1 DEF FlagInv, Flagged
    <3> QED
      BY <2>1, <3>1 DEF Onward, Waiting
  <2>2. CASE s.at # "images"
    <3>1. Waiting("images") <=> Waiting("images")'
      BY <1>1, <1>2, <2>2 DEF Waiting
    <3> QED
      BY <2>2, <3>1 DEF Onward, FlagInv, Flagged
  <2> QED
    BY <2>1, <2>2
<1>4. page'.inFlight => Waiting("dispatch")'
  <2>1. CASE page'.inFlight = page.inFlight
    BY <1>2, <2>1 DEF FlagInv, Flagged, Waiting
  <2>2. CASE page'.inFlight # page.inFlight
    BY <2>2 DEF Onward, Waiting
  <2> QED
    BY <2>1, <2>2
<1>5. Flagged'
  <2>1. (\A r \in sends : Whole(r))'
    BY <1>1 DEF FlagInv, Flagged, Whole
  <2>2. \A r, t \in sends' : r.at = "images" /\ t.at = "images" => r = t
    BY <1>1 DEF FlagInv, Flagged
  <2>3. \A r \in sends' : r.from = "queue" => page'.locked
    BY <1>0, <1>1 DEF FlagInv, Flagged
  <2>4. \A r, t \in sends' : r.from = "queue" /\ t.from = "queue" => r = t
    BY <1>1 DEF FlagInv, Flagged
  <2> QED
    BY <1>3, <1>4, <2>1, <2>2, <2>3, <2>4 DEF Flagged
<1>6. ASSUME Sole, s.at = "images" PROVE Sole'
  <2>1. \A r \in sends : r.at # "dispatch"
    BY <1>6 DEF FlagInv, Flagged, Sole, Waiting
  <2>2. \A r, t \in sends' : r.at = "dispatch" /\ t.at = "dispatch" => r = t
    BY <1>1, <2>1
  <2>3. Waiting("dispatch")' => page'.inFlight
    BY <1>6, <2>1 DEF Onward, Waiting
  <2>4. ~(page'.preflight /\ page'.inFlight)
    BY <1>6 DEF Onward
  <2> QED
    BY <2>2, <2>3, <2>4 DEF Sole
<1>7. ASSUME Sole, s.at = "command", Starts' = Starts PROVE Sole'
  <2>1. \A r : (r \in sends /\ r.at = "dispatch") <=> (r \in sends' /\ r.at = "dispatch")
    BY <1>7 DEF Starts
  <2>2. page'.inFlight => page.inFlight
    BY <1>4, <1>7, <2>1 DEF Sole, Waiting
  <2>3. page.inFlight => page'.inFlight
    BY DEF Onward, FlagInv, Page
  <2> QED
    BY <1>7, <2>1, <2>2, <2>3 DEF Sole, Onward, Waiting
<1> QED
  BY <1>0, <1>5, <1>6, <1>7 DEF FlagInv

LEMMA NewIsWhole ==
    ASSUME NEW text, NEW entry, NEW from, NEW mode
    PROVE  /\ Whole(New(text, entry, from, mode)) /\ New(text, entry, from, mode).at = "dispatch"
           /\ New(text, entry, from, mode).from = from
BY DEF Whole, New

-----------------------------------------------------------------------------
(* The steps of the sends.                                                 *)

LEMMA PressSendStep ==
    ASSUME FlagInv, NEW mode, PressSend(mode)
    PROVE  Keeps
<1> DEFINE q == [New({}, {}, "composer", mode) EXCEPT !.at = "images",
                    !.live = HasQueueableLiveTurn, !.asks = session.asks = "question"]
<1>1. Whole(q) /\ q.at = "images" /\ q.from = "composer"
  BY DEF New, Whole
<1>2. /\ ~page.inFlight /\ ~page.preflight /\ sends' = sends \cup {q}
      /\ page' = [page EXCEPT !.preflight = TRUE]
  BY DEF PressSend, MaySend
<1> HIDE DEF q
<1>3. /\ page' \in Page /\ page'.preflight = TRUE /\ page'.inFlight = page.inFlight
      /\ page'.locked = page.locked
  BY <1>2 DEF FlagInv, Page
<1> QED
  BY <1>1, <1>2, <1>3, BeginStep

LEMMA DispatchingPage ==
    ASSUME NEW pg \in Page
    PROVE  /\ Dispatching(pg) \in Page /\ Dispatching(pg).inFlight = TRUE
           /\ Dispatching(pg).preflight = pg.preflight /\ Dispatching(pg).locked = pg.locked
           /\ [Dispatching(pg) EXCEPT !.locked = TRUE] \in Page
           /\ [Dispatching(pg) EXCEPT !.locked = TRUE].inFlight = TRUE
           /\ [Dispatching(pg) EXCEPT !.locked = TRUE].preflight = pg.preflight
           /\ [Dispatching(pg) EXCEPT !.locked = TRUE].locked = TRUE
BY DEF Dispatching, Page

\* A send that goes on to be queued or sent.
Gone(s, text, at) ==
    [s EXCEPT !.text = text, !.at = at, !.live = FALSE, !.asks = FALSE,
              !.stop = @ /\ at = "dispatch"]

LEMMA GoneIs ==
    ASSUME NEW s, NEW text, NEW at, Whole(s)
    PROVE  Whole(Gone(s, text, at)) /\ Gone(s, text, at).at = at /\ Gone(s, text, at).from = s.from
BY DEF Whole, Gone

LEMMA GoesOnSends ==
    ASSUME NEW s, NEW text, NEW pg, GoesOn(s, text, pg)
    PROVE  \/ sends' = (sends \ {s}) \cup {Gone(s, text, "previews")} /\ page' = pg
           \/ sends' = (sends \ {s}) \cup {Gone(s, text, "dispatch")} /\ page' = Dispatching(pg)
BY DEF GoesOn, Gone

LEMMA ImagesReadyStep ==
    ASSUME FlagInv, NEW s \in sends, ImagesReady(s)
    PROVE  Keeps
<1> DEFINE command(text) == [s EXCEPT !.text = text, !.at = "command", !.asks = FALSE]
           ready == [page EXCEPT !.preflight = FALSE]
<1>1. /\ ready \in Page /\ ready.preflight = FALSE /\ ready.inFlight = page.inFlight
      /\ ready.locked = page.locked
  BY DEF FlagInv, Page
<1>2. Whole(s)
  BY DEF FlagInv, Flagged
<1>3. ASSUME NEW text
      PROVE  Whole(command(text)) /\ command(text).at = "command" /\ command(text).from = s.from
  BY <1>2 DEF Whole
<1>4. ASSUME NEW at
      PROVE  /\ Whole(Gone(s, composer, at)) /\ Gone(s, composer, at).at = at
             /\ Gone(s, composer, at).from = s.from
  BY <1>2, GoneIs
<1>5. s.at = "images"
  BY DEF ImagesReady
<1>6. \/ sends' = sends \ {s} /\ page' = ready
      \/ sends' = (sends \ {s}) \cup {command(composer)} /\ page' = ready
      \/ sends' = (sends \ {s}) \cup {command({})} /\ page' = ready
      \/ GoesOn(s, composer, ready)
  BY DEF ImagesReady
<1> HIDE DEF command, ready
<1>7. \E q : Onward(s, q)
  <2>1. CASE sends' = sends \ {s} /\ page' = ready
    BY <1>1, <1>5, <2>1 DEF Onward
  <2>2. CASE sends' = (sends \ {s}) \cup {command(composer)} /\ page' = ready
    BY <1>1, <1>3, <1>5, <2>2 DEF Onward
  <2>3. CASE sends' = (sends \ {s}) \cup {command({})} /\ page' = ready
    BY <1>1, <1>3, <1>5, <2>3 DEF Onward
  <2>4. CASE sends' = (sends \ {s}) \cup {Gone(s, composer, "previews")} /\ page' = ready
    BY <1>1, <1>4, <1>5, <2>4 DEF Onward
  <2>5. CASE sends' = (sends \ {s}) \cup {Gone(s, composer, "dispatch")}
             /\ page' = Dispatching(ready)
    <3>1. /\ page' \in Page /\ page'.inFlight = TRUE /\ page'.preflight = FALSE
          /\ page'.locked = page.locked
      BY <1>1, <2>5, DispatchingPage
    <3> QED
      BY <1>4, <1>5, <2>5, <3>1 DEF Onward
  <2> QED
    BY <1>6, <2>1, <2>2, <2>3, <2>4, <2>5, GoesOnSends
<1> QED
  BY <1>5, <1>7, OnwardStep DEF Keeps

LEMMA CommandFallsStep ==
    ASSUME FlagInv, NEW s \in sends, CommandFalls(s)
    PROVE  Keeps
<1>1. s.at = "command" /\ GoesOn(s, s.text, page) /\ Whole(s)
  BY DEF CommandFalls, FlagInv, Flagged
<1>2. \E q : Onward(s, q)
  <2>1. CASE sends' = (sends \ {s}) \cup {Gone(s, s.text, "previews")} /\ page' = page
    BY <1>1, <2>1, GoneIs DEF Onward, FlagInv
  <2>2. CASE sends' = (sends \ {s}) \cup {Gone(s, s.text, "dispatch")}
             /\ page' = Dispatching(page)
    <3>1. /\ page' \in Page /\ page'.inFlight = TRUE /\ page'.preflight = page.preflight
          /\ page'.locked = page.locked
      BY <2>2, DispatchingPage DEF FlagInv
    <3> QED
      BY <1>1, <2>2, <3>1, GoneIs DEF Onward
  <2> QED
    BY <1>1, <2>1, <2>2, GoesOnSends
<1>3. FlagInv' /\ (Sole /\ Starts' = Starts => Sole')
  BY <1>1, <1>2, OnwardStep
<1>4. Starts' # Starts => Falls
  BY DEF Falls
<1> QED
  BY <1>3, <1>4 DEF Keeps

LEMMA SendAcceptedStep ==
    ASSUME FlagInv, NEW s \in sends, SendAccepted(s)
    PROVE  Keeps
<1>1. PICK gate \in {page.gate, page.gate \/ s.mode = "steer"} :
        page' = Resumes(s, [page EXCEPT !.inFlight = FALSE, !.gate = gate,
                                        !.locked = @ /\ s.from # "queue"])
  BY DEF SendAccepted
<1> DEFINE locked == page.locked /\ s.from # "queue"
           pg == [page EXCEPT !.inFlight = FALSE, !.gate = gate, !.locked = locked]
<1>2. gate \in BOOLEAN /\ locked \in BOOLEAN /\ (s.from # "queue" => locked = page.locked)
  BY DEF FlagInv, Page
<1>3. page' = Resumes(s, pg)
  BY <1>1
<1> HIDE DEF locked
<1>4. /\ pg \in Page /\ pg.inFlight = FALSE /\ pg.preflight = page.preflight
      /\ pg.locked = locked
  BY <1>2 DEF FlagInv, Page
<1> HIDE DEF pg
<1>5. /\ Resumes(s, pg) \in Page /\ Resumes(s, pg).inFlight = FALSE
      /\ Resumes(s, pg).preflight = page.preflight /\ Resumes(s, pg).locked = locked
  BY <1>4 DEF Resumes, Page
<1>6. s.at = "dispatch" /\ sends' = sends \ {s}
  BY DEF SendAccepted
<1> QED
  BY <1>2, <1>3, <1>5, <1>6, EndStep

LEMMA SendFailedStep ==
    ASSUME FlagInv, NEW s \in sends, NEW late, SendFailed(s, late)
    PROVE  Keeps
<1> DEFINE locked == page.locked /\ s.from # "queue"
<1>1. locked \in BOOLEAN /\ (s.from # "queue" => locked = page.locked)
  BY DEF FlagInv, Page
<1>2. /\ s.at = "dispatch" /\ sends' = sends \ {s}
      /\ page' = [page EXCEPT !.inFlight = FALSE, !.dispatch = "none", !.locked = locked]
  BY DEF SendFailed
<1> HIDE DEF locked
<1>3. /\ page' \in Page /\ page'.inFlight = FALSE /\ page'.preflight = page.preflight
      /\ page'.locked = locked
  BY <1>1, <1>2 DEF FlagInv, Page
<1> QED
  BY <1>1, <1>2, <1>3, EndStep

LEMMA SettlesStep ==
    ASSUME FlagInv, NEW s \in sends, Settles(s)
    PROVE  Keeps
<1>1. CASE CommandDone(s) \/ Enqueue(s)
  <2>1. s.at \notin {"images", "dispatch"} /\ sends' = sends \ {s} /\ page' = page
    BY <1>1 DEF CommandDone, Enqueue
  <2> QED
    BY <2>1, AsideStep
<1> QED
  BY <1>1, ImagesReadyStep, CommandFallsStep, SendAcceptedStep, SendFailedStep DEF Settles

LEMMA SendQueuedStep ==
    ASSUME FlagInv, NEW i, NEW mode, SendQueued(i, mode)
    PROVE  Keeps
<1>1. /\ ~page.inFlight /\ ~page.preflight /\ ~page.locked
      /\ sends' = sends \cup {New(queue[i].text, {queue[i].id}, "queue", mode)}
      /\ page' = [Dispatching(page) EXCEPT !.locked = TRUE]
  BY DEF SendQueued, MaySend
<1>2. /\ page' \in Page /\ page'.inFlight = TRUE /\ page'.preflight = page.preflight
      /\ page'.locked = TRUE
  BY <1>1, DispatchingPage DEF FlagInv
<1> QED
  BY <1>1, <1>2, NewIsWhole, BeginStep

LEMMA ContinueStep ==
    ASSUME FlagInv, ContinueFailedTurn
    PROVE  Keeps
<1>1. /\ ~page.inFlight /\ ~page.preflight
      /\ sends' = sends \cup {New({}, {}, "continue", "queue")} /\ page' = Dispatching(page)
  BY DEF ContinueFailedTurn, MaySend
<1>2. /\ page' \in Page /\ page'.inFlight = TRUE /\ page'.preflight = page.preflight
      /\ page'.locked = page.locked
  BY <1>1, DispatchingPage DEF FlagInv
<1> QED
  BY <1>1, <1>2, NewIsWhole, BeginStep

\* Stop, its answer, Resume, the acknowledgement and the gate leave the sends.
LEMMA FlagsStep ==
    ASSUME FlagInv,
           \/ Stop \/ Resume \/ Acknowledged \/ GateOpens
           \/ \E ok \in BOOLEAN : StopAnswered(ok)
    PROVE  Keeps
<1>1. CASE Stop
  BY <1>1, StayStep DEF Stop, SendsStay, FlagInv, Page
<1>2. CASE Resume
  BY <1>2, StayStep DEF Resume, SendsStay, FlagInv, Page
<1>3. CASE Acknowledged
  BY <1>3, StayStep DEF Acknowledged, SendsStay, FlagInv, Page
<1>4. CASE GateOpens
  BY <1>4, StayStep DEF GateOpens, SendsStay, FlagInv, Page
<1>5. ASSUME NEW ok \in BOOLEAN, StopAnswered(ok) PROVE Keeps
  <2> DEFINE stopped == page.stopped /\ (ok \/ page.stopping = "again")
  <2>1. stopped \in BOOLEAN
    BY DEF FlagInv, Page
  <2>2. /\ page' = [page EXCEPT !.stopping = "no", !.stopped = stopped] /\ sends' = sends
    BY <1>5 DEF StopAnswered
  <2> HIDE DEF stopped
  <2> QED
    BY <2>1, <2>2, StayStep DEF SendsStay, FlagInv, Page
<1> QED
  BY <1>1, <1>2, <1>3, <1>4, <1>5

LEMMA SessionStep ==
    ASSUME FlagInv, NEW s, SessionChanges(s)
    PROVE  Keeps
<1> DEFINE dispatch == IF s.phase = "running" /\ page.dispatch # "none" THEN "awaiting"
                                                                       ELSE page.dispatch
           resumed == page.resumed /\ s.phase # "running"
<1>1. dispatch \in {"none", "unacknowledged", "awaiting"} /\ resumed \in BOOLEAN
  BY DEF FlagInv, Page
<1>2. page' = [page EXCEPT !.dispatch = dispatch, !.resumed = resumed] /\ sends' = sends
  BY DEF SessionChanges
<1> HIDE DEF dispatch, resumed
<1> QED
  BY <1>1, <1>2, StayStep DEF SendsStay, FlagInv, Page

LEMMA NextKeeps ==
    ASSUME FlagInv, [Next]_vars
    PROVE  Keeps
<1>1. CASE \/ TurnStarts \/ TurnKnown \/ TurnEnds \/ Connects
           \/ \E asks \in {"none", "review", "question"} : Asks(asks)
  BY <1>1, SessionStep DEF TurnStarts, TurnKnown, TurnEnds, Connects, Asks
<1>2. CASE \/ \E what \in {"edit", "revert"} : BackAnswered(what)
           \/ UndoAccepted \/ UndoRefused \/ \E failed \in BOOLEAN : UndoSettled(failed)
           \/ EditUserMessage \/ \E what \in {"revert", "undo"} : AskFirst(what)
           \/ Decline \/ Confirm
  <2>1. UNCHANGED <<sends, page>>
    BY <1>2 DEF BackAnswered, UndoAccepted, UndoRefused, UndoSettled, EditUserMessage,
                AskFirst, Decline, Confirm
  <2> QED
    BY <2>1, StayStep DEF SendsStay, FlagInv
<1>3. CASE \/ \E p \in Piece : Write(p)
           \/ \E i \in DOMAIN queue : EditQueued(i) \/ RemoveQueued(i)
           \/ UNCHANGED vars
  <2>1. UNCHANGED <<sends, page>>
    BY <1>3 DEF Write, EditQueued, RemoveQueued, vars, state
  <2> QED
    BY <2>1, StayStep DEF SendsStay, FlagInv
<1>4. CASE Drain \/ \E i \in DOMAIN queue : SteerQueued(i)
  BY <1>4, SendQueuedStep DEF Drain, SteerQueued
<1>5. CASE \E s \in sends : Settles(s)
  BY <1>5, SettlesStep
<1>6. CASE \/ ContinueFailedTurn \/ \E mode \in {"queue", "steer"} : PressSend(mode)
  BY <1>6, ContinueStep, PressSendStep
<1> QED
  BY <1>1, <1>2, <1>3, <1>4, <1>5, <1>6, FlagsStep DEF Next, ByItself, ByUser

\* A command that goes on to be sent is forgiven until the starts since it are over.
LEMMA NextSendInv ==
    ASSUME SendInv, [Next]_vars
    PROVE  SendInv'
<1>1. FlagInv' /\ (Sole => Sole' \/ Falls)
  BY NextKeeps DEF SendInv, Keeps
<1>2. CASE UNCHANGED vars
  BY <1>1, <1>2 DEF SendInv, Sole, Waiting, vars, state
<1>3. CASE ~UNCHANGED vars
  <2>1. fell' = ((fell \/ Falls) /\ Starts' # {})
    BY <1>3 DEF Next
  <2>2. CASE Starts' = {}
    <3>1. ~Waiting("dispatch")' /\ ~page'.inFlight
      BY <1>1, <2>2 DEF Starts, Waiting, FlagInv, Flagged
    <3> QED
      BY <1>1, <3>1 DEF SendInv, Sole, Waiting
  <2>3. CASE Starts' # {}
    <3>1. fell \/ Falls => fell'
      BY <2>1, <2>3
    <3> QED
      BY <1>1, <3>1 DEF SendInv
  <2> QED
    BY <2>2, <2>3
<1> QED
  BY <1>2, <1>3

-----------------------------------------------------------------------------
(* The steps of the rollbacks.                                             *)

LEMMA EditBack ==
    ASSUME BackInv, EditUserMessage
    PROVE  BackInv'
<1>1. /\ back.asking = "none" /\ ~back.reverting
      /\ back' = [back EXCEPT !.reverting = TRUE, !.requests = back.requests \cup {"edit"}]
  BY DEF EditUserMessage, MayGoBack, Clickable
<1>2. /\ back' \in Back /\ back'.reverting = TRUE /\ back'.asking = "none"
      /\ back'.requests = back.requests \cup {"edit"} /\ back'.undo = back.undo
      /\ back'.left = back.left /\ back'.early = back.early
  BY <1>1 DEF BackInv, Back
<1>3. Single => Single'
  BY <1>1, <1>2 DEF Single
<1> QED
  BY <1>2, <1>3 DEF BackInv

LEMMA AskBack ==
    ASSUME BackInv, NEW what \in {"revert", "undo"}, AskFirst(what)
    PROVE  BackInv'
<1>1. ~back.reverting /\ back' = [back EXCEPT !.asking = what]
  BY DEF AskFirst, MayGoBack
<1>2. /\ back' \in Back /\ back'.asking = what /\ back'.reverting = back.reverting
      /\ back'.requests = back.requests /\ back'.undo = back.undo
      /\ back'.left = back.left /\ back'.early = back.early
  BY <1>1 DEF BackInv, Back
<1> QED
  BY <1>1, <1>2 DEF BackInv, Single

LEMMA DeclineBack ==
    ASSUME BackInv, Decline
    PROVE  BackInv'
<1>1. back' = [back EXCEPT !.asking = "none"]
  BY DEF Decline
<1>2. /\ back' \in Back /\ back'.asking = "none" /\ back'.reverting = back.reverting
      /\ back'.requests = back.requests /\ back'.undo = back.undo
      /\ back'.left = back.left /\ back'.early = back.early
  BY <1>1 DEF BackInv, Back
<1> QED
  BY <1>1, <1>2 DEF BackInv, Single

\* What was so when the question was asked is so still: nothing begins under it.
LEMMA ConfirmBack ==
    ASSUME BackInv, Confirm
    PROVE  BackInv'
<1> DEFINE undo == back.undo \/ back.asking = "undo"
           left == IF back.asking = "undo" THEN 2 ELSE back.left
<1>0. back \in Back
  BY DEF BackInv
<1>1. undo \in BOOLEAN /\ left \in 0..2
  BY <1>0 DEF Back
<1>2. /\ back.asking \in {"revert", "undo"}
      /\ back' = [back EXCEPT !.asking = "none", !.reverting = TRUE,
                              !.requests = back.requests \cup {back.asking},
                              !.undo = undo, !.left = left]
  BY <1>0 DEF Confirm, Back
<1> HIDE DEF undo, left
<1>3. /\ back' \in Back /\ back'.asking = "none" /\ back'.reverting = TRUE
      /\ back'.requests = back.requests \cup {back.asking} /\ back'.undo = undo
      /\ back'.left = left /\ back'.early = back.early
  BY <1>0, <1>1, <1>2 DEF Back
<1>4. "undo" \in back'.requests <=> back'.left > 0
  BY <1>0, <1>2, <1>3 DEF BackInv, Back, left
<1>5. Single => Single'
  <2>1. Single => back.requests = {} /\ ~back.undo
    BY <1>2 DEF Single
  <2>2. Single => (undo <=> back.asking = "undo")
    BY <2>1 DEF undo
  <2> QED
    BY <1>2, <1>3, <2>1, <2>2 DEF Single
<1> QED
  BY <1>3, <1>4, <1>5 DEF BackInv

LEMMA AnsweredBack ==
    ASSUME BackInv, NEW what \in {"edit", "revert"}, BackAnswered(what)
    PROVE  BackInv'
<1>1. /\ what \in back.requests
      /\ back' = [back EXCEPT !.reverting = FALSE, !.requests = back.requests \ {what}]
  BY DEF BackAnswered
<1>2. /\ back' \in Back /\ back'.reverting = FALSE /\ back'.asking = back.asking
      /\ back'.requests = back.requests \ {what} /\ back'.undo = back.undo
      /\ back'.left = back.left /\ back'.early = back.early
  BY <1>1 DEF BackInv, Back
<1>3. Single => back'.requests = {} /\ ~back.undo
  BY <1>1, <1>2 DEF Single
<1>4. Single => Single'
  BY <1>2, <1>3 DEF Single
<1> QED
  BY <1>1, <1>2, <1>4 DEF BackInv

LEMMA AcceptedBack ==
    ASSUME BackInv, UndoAccepted
    PROVE  BackInv'
<1> DEFINE left == back.left - 1
           requests == IF back.left = 1 THEN back.requests \ {"undo"} ELSE back.requests
<1>0. back \in Back /\ back.left \in 1..2
  BY DEF BackInv, Back, UndoAccepted
<1>1. back' = [back EXCEPT !.left = left, !.requests = requests]
  BY DEF UndoAccepted
<1>2. requests \subseteq back.requests /\ requests \subseteq {"edit", "revert", "undo"}
  BY <1>0 DEF Back
<1>3. left \in 0..2 /\ ("undo" \in requests <=> left > 0)
  BY <1>0 DEF UndoAccepted
<1> HIDE DEF left, requests
<1>4. /\ back' \in Back /\ back'.reverting = back.reverting /\ back'.asking = back.asking
      /\ back'.requests = requests /\ back'.undo = back.undo
      /\ back'.left = left /\ back'.early = back.early
  BY <1>0, <1>1, <1>2, <1>3 DEF Back
<1>5. Single => Single'
  BY <1>2, <1>4 DEF Single, UndoAccepted
<1> QED
  BY <1>3, <1>4, <1>5 DEF BackInv

LEMMA RefusedBack ==
    ASSUME BackInv, UndoRefused
    PROVE  BackInv'
<1> DEFINE requests == back.requests \ {"undo"}
<1>0. back \in Back /\ requests \subseteq {"edit", "revert", "undo"} /\ 0 \in 0..2
  BY DEF BackInv, Back
<1>1. /\ "undo" \in back.requests
      /\ back' = [back EXCEPT !.left = 0, !.requests = requests,
                              !.undo = FALSE, !.reverting = FALSE]
  BY DEF UndoRefused
<1> HIDE DEF requests
<1>2. /\ back' \in Back /\ back'.reverting = FALSE /\ back'.asking = back.asking
      /\ back'.requests = requests /\ back'.undo = FALSE
      /\ back'.left = 0 /\ back'.early = back.early
  BY <1>0, <1>1 DEF Back
<1>3. Single => back'.requests = {}
  BY <1>1, <1>2 DEF Single, requests
<1>4. Single => Single'
  BY <1>2, <1>3 DEF Single
<1>5. ~("undo" \in back'.requests) /\ ~(back'.left > 0)
  BY <1>2 DEF requests
<1> QED
  BY <1>2, <1>4, <1>5 DEF BackInv

\* An undo that settles before all of it was asked for is the early one.
LEMMA SettledBack ==
    ASSUME BackInv, NEW failed \in BOOLEAN, UndoSettled(failed)
    PROVE  BackInv'
<1> DEFINE early == back.early \/ back.left > 0
<1>0. back \in Back /\ back.left \in 0..2 /\ back.undo
  BY DEF BackInv, Back, UndoSettled
<1>1. early \in BOOLEAN
  OBVIOUS
<1>2. back' = [back EXCEPT !.undo = FALSE, !.reverting = FALSE, !.early = early]
  BY DEF UndoSettled
<1> HIDE DEF early
<1>3. /\ back' \in Back /\ back'.reverting = FALSE /\ back'.asking = back.asking
      /\ back'.requests = back.requests /\ back'.undo = FALSE
      /\ back'.left = back.left /\ back'.early = early
  BY <1>0, <1>1, <1>2 DEF Back
<1>4. CASE early
  BY <1>3, <1>4 DEF BackInv
<1>5. CASE ~early
  <2>1. ~back.early /\ ~(back.left > 0)
    BY <1>5 DEF early
  <2>2. Single /\ back.requests = {}
    BY <1>0, <2>1 DEF BackInv, Single
  <2>3. Single'
    BY <1>3, <2>2 DEF Single
  <2> QED
    BY <1>3, <2>1, <2>2, <2>3 DEF BackInv
<1> QED
  BY <1>4, <1>5

LEMMA NextBackInv ==
    ASSUME BackInv, [Next]_vars
    PROVE  BackInv'
<1>1. CASE UNCHANGED back
  BY <1>1 DEF BackInv, Single
<1>2. CASE ~UNCHANGED back
  <2>1. \A s \in sends : ~Settles(s)
    BY <1>2 DEF Settles, ImagesReady, CommandDone, CommandFalls, Enqueue, SendAccepted,
                SendFailed
  <2>2. /\ ~(TurnStarts \/ TurnKnown \/ TurnEnds \/ Connects \/ Acknowledged \/ GateOpens)
        /\ \A asks \in {"none", "review", "question"} : ~Asks(asks)
    BY <1>2 DEF TurnStarts, TurnKnown, TurnEnds, Connects, Asks, SessionChanges,
                Acknowledged, GateOpens
  <2>3. /\ \A p \in Piece : ~Write(p)
        /\ \A mode \in {"queue", "steer"} : ~PressSend(mode)
        /\ ~Drain /\ \A i \in DOMAIN queue : ~(SteerQueued(i) \/ EditQueued(i) \/ RemoveQueued(i))
        /\ ~(ContinueFailedTurn \/ Stop \/ Resume) /\ \A ok \in BOOLEAN : ~StopAnswered(ok)
    BY <1>2 DEF Write, PressSend, Drain, SteerQueued, SendQueued, EditQueued, RemoveQueued,
                ContinueFailedTurn, Stop, Resume, StopAnswered
  <2>4. ~UNCHANGED vars
    BY <1>2 DEF vars, state
  <2> QED
    BY <2>1, <2>2, <2>3, <2>4, EditBack, AskBack, DeclineBack, ConfirmBack, AnsweredBack,
       AcceptedBack, RefusedBack, SettledBack
    DEF Next, ByItself, ByUser
<1> QED
  BY <1>1, <1>2

-----------------------------------------------------------------------------
(* The invariant and the theorems.                                         *)

LEMMA InitComposeInv == Init => ComposeInv
<1> SUFFICES ASSUME Init PROVE ComposeInv
  OBVIOUS
<1>1. SendInv
  BY DEF Init, SendInv, FlagInv, Sole, Page, Flagged, Waiting
<1>2. BackInv
  BY DEF Init, BackInv, Back, Single
<1> QED
  BY <1>1, <1>2 DEF ComposeInv

LEMMA AlwaysComposeInv == Spec => []ComposeInv
<1>1. ComposeInv /\ [Next]_vars => ComposeInv'
  BY NextSendInv, NextBackInv DEF ComposeInv
<1> QED
  BY <1>1, InitComposeInv, PTL DEF Spec

\* However presses, the queue and Continue interleave with the awaits of onSend,
\* the page asks for one turn at a time and its flag says so, unless a command went
\* on to be sent and the starts since overlap.
THEOREM AlwaysOneStart == Spec => []OneStart
<1>1. ASSUME ComposeInv PROVE OneStart
  <2>1. page.inFlight => Starts # {}
    BY <1>1 DEF ComposeInv, SendInv, FlagInv, Flagged, Waiting, Starts
  <2>2. fell \/ \A s \in Starts : page.inFlight /\ Starts = {s}
    BY <1>1 DEF ComposeInv, SendInv, Sole, Waiting, Starts
  <2> QED
    BY <2>1, <2>2 DEF OneStart
<1> QED
  BY <1>1, AlwaysComposeInv, PTL

\* Of the ways to go back one runs at a time and the page knows that it does,
\* unless part of an undo failed while the rest was still being asked for.
THEOREM AlwaysOneRollback == Spec => []OneRollback
<1>1. ASSUME ComposeInv, Single PROVE Cardinality(back.requests) <= 1
  <2>1. CASE back.requests = {}
    BY <2>1, FS_EmptySet
  <2>2. CASE back.requests # {}
    <3>1. PICK a \in back.requests : TRUE
      BY <2>2
    <3>2. back.requests = {a}
      BY <1>1, <3>1 DEF Single
    <3>3. Cardinality(back.requests) = 1
      BY <3>2, FS_Singleton
    <3> QED
      BY <3>3
  <2> QED
    BY <2>1, <2>2
<1>2. ComposeInv => OneRollback
  BY <1>1 DEF ComposeInv, BackInv, Single, OneRollback
<1> QED
  BY <1>2, AlwaysComposeInv, PTL

-----------------------------------------------------------------------------
(* What becomes of a text.                                                 *)

Entries == {queue[i] : i \in DOMAIN queue}

\* The send has taken its text, and may give it to the queue or to the backend.
Left(s) == s.at \in {"previews", "dispatch"}

TextTypes ==
    /\ composer \in Text /\ past \in Past
    /\ queue \in Seq(Queued) /\ sends \subseteq Send

\* An id is one entry's, and a send of the queue's has its entry's text.
EntryInv ==
    /\ \A i, j \in DOMAIN queue : queue[i].id = queue[j].id => i = j
    /\ \A s \in sends :
          /\ s.from # "composer" => s.at = "dispatch"
          /\ s.from = "queue" => \E id \in Id : s.entry = {id}
          /\ s.from # "queue" => s.entry = {}
          /\ s.from = "continue" \/ s.at = "images" => s.text = {}
          /\ \A e \in Entries : e.id \in s.entry => s.text = e.text

\* Where a text is kept: a send of the queue's is no such place, as it may fail
\* when its entry is gone.
Held(p) ==
    \/ p \in composer \cup past.replaced \cup past.ran \cup past.wiped
    \/ \E e \in Entries : p \in e.text
    \/ \E s \in sends : s.from = "composer" /\ Left(s) /\ p \in s.text
    \/ past.accepted[p] > 0

KeptInv == \A p \in past.written : Held(p)

\* A text that was not put at risk is in one place at a time, but for an entry
\* with the send that is of it, and in none once it was accepted.
InComposer(p) ==
    p \in composer => /\ past.accepted[p] = 0
                      /\ \A e \in Entries : p \notin e.text
                      /\ \A s \in sends : Left(s) => p \notin s.text
InQueue(p) ==
    \A e \in Entries : p \in e.text =>
        /\ past.accepted[p] = 0
        /\ \A f \in Entries : p \in f.text => f = e
        /\ \A s \in sends : Left(s) /\ p \in s.text => e.id \in s.entry
InSends(p) ==
    \A s \in sends : Left(s) /\ p \in s.text =>
        /\ past.accepted[p] = 0
        /\ \A q \in sends : Left(q) /\ p \in q.text => q = s
Once(p) == past.accepted[p] <= 1 /\ InComposer(p) /\ InQueue(p) /\ InSends(p)

Unwritten(p) ==
    /\ p \notin composer /\ past.accepted[p] = 0
    /\ \A e \in Entries : p \notin e.text
    /\ \A s \in sends : p \notin s.text

OnceInv ==
    /\ \A p \in Piece \ past.doubted : Once(p)
    /\ \A p \in Piece \ past.written : Unwritten(p)

Counted == clicks \in Nat

TextInv == TextTypes /\ EntryInv /\ KeptInv /\ OnceInv

\* A sequence without one of its elements.
LEMMA RemoveAtIs ==
    ASSUME NEW S, NEW q \in Seq(S), NEW i \in DOMAIN q
    PROVE  /\ RemoveAt(q, i) \in Seq(S)
           /\ Len(RemoveAt(q, i)) = Len(q) - 1
           /\ \A j \in 1..(Len(q) - 1) :
                 RemoveAt(q, i)[j] = IF j < i THEN q[j] ELSE q[j + 1]
<1> DEFINE before == SubSeq(q, 1, i - 1)
           after == SubSeq(q, i + 1, Len(q))
<1>1. i \in 1..Len(q) /\ Len(q) \in Nat /\ \A j \in 1..Len(q) : q[j] \in S
  OBVIOUS
<1>2. /\ before \in Seq(S) /\ Len(before) = i - 1
      /\ \A j \in 1..(i - 1) : before[j] = q[j]
  BY <1>1, SubSeqProperties
<1>3. /\ after \in Seq(S) /\ Len(after) = Len(q) - i
      /\ \A j \in 1..(Len(q) - i) : after[j] = q[i + j]
  BY <1>1, SubSeqProperties
<1>4. RemoveAt(q, i) = before \o after
  BY DEF RemoveAt
<1> HIDE DEF before, after
<1>5. /\ before \o after \in Seq(S) /\ Len(before \o after) = Len(q) - 1
      /\ \A j \in 1..(Len(q) - 1) :
            (before \o after)[j] = IF j <= i - 1 THEN before[j] ELSE after[j - (i - 1)]
  <2>1. /\ before \o after \in Seq(S) /\ Len(before \o after) = Len(before) + Len(after)
        /\ \A j \in 1..Len(before) + Len(after) :
              (before \o after)[j] = IF j <= Len(before) THEN before[j] ELSE after[j - Len(before)]
    BY <1>2, <1>3, ConcatProperties, Zenon
  <2>2. Len(before) = i - 1 /\ Len(before) + Len(after) = Len(q) - 1
    BY <1>1, <1>2, <1>3
  <2> QED
    BY <2>1, <2>2
<1>6. ASSUME NEW j \in 1..(Len(q) - 1)
      PROVE  (before \o after)[j] = IF j < i THEN q[j] ELSE q[j + 1]
  <2>1. CASE j < i
    BY <1>1, <1>2, <1>5, <2>1
  <2>2. CASE ~(j < i)
    <3>1. PICK k : k = j - (i - 1)
      OBVIOUS
    <3>2. k \in 1..(Len(q) - i) /\ i + k = j + 1 /\ ~(j <= i - 1)
      BY <1>1, <2>2, <3>1
    <3>3. after[k] = q[i + k] /\ (before \o after)[j] = after[k]
      BY <1>3, <1>5, <3>1, <3>2
    <3> QED
      BY <2>2, <3>2, <3>3
  <2> QED
    BY <2>1, <2>2
<1> QED
  BY <1>4, <1>5, <1>6

LEMMA AppendStep ==
    ASSUME TextTypes, EntryInv, NEW e \in Queued, \A f \in Entries : f.id # e.id,
           queue' = Append(queue, e)
    PROVE  /\ queue' \in Seq(Queued) /\ Entries' = Entries \cup {e}
           /\ \A i, j \in DOMAIN queue' : queue'[i].id = queue'[j].id => i = j
<1>1. queue \in Seq(Queued)
  BY DEF TextTypes
<1>2. /\ queue' \in Seq(Queued) /\ DOMAIN queue' = 1..(Len(queue) + 1)
      /\ queue'[Len(queue) + 1] = e /\ \A i \in DOMAIN queue : queue'[i] = queue[i]
      /\ DOMAIN queue = 1..Len(queue) /\ Len(queue) \in Nat
  BY <1>1
<1>3. Entries' = Entries \cup {e}
  BY <1>2 DEF Entries
<1>4. \A i \in DOMAIN queue : queue[i].id # e.id
  BY DEF Entries
<1> QED
  BY <1>2, <1>3, <1>4 DEF EntryInv

LEMMA RemoveStep ==
    ASSUME TextTypes, EntryInv, NEW i \in DOMAIN queue, queue' = RemoveAt(queue, i)
    PROVE  /\ queue' \in Seq(Queued) /\ Entries' = Entries \ {queue[i]}
           /\ \A j, k \in DOMAIN queue' : queue'[j].id = queue'[k].id => j = k
<1>1. queue \in Seq(Queued)
  BY DEF TextTypes
<1>2. /\ queue' \in Seq(Queued) /\ DOMAIN queue' = 1..(Len(queue) - 1)
      /\ \A j \in DOMAIN queue' : queue'[j] = IF j < i THEN queue[j] ELSE queue[j + 1]
      /\ DOMAIN queue = 1..Len(queue) /\ Len(queue) \in Nat /\ i \in 1..Len(queue)
  <2> DEFINE without == RemoveAt(queue, i)
  <2>1. /\ without \in Seq(Queued) /\ Len(without) = Len(queue) - 1
        /\ \A j \in 1..(Len(queue) - 1) : without[j] = IF j < i THEN queue[j] ELSE queue[j + 1]
    BY <1>1, RemoveAtIs
  <2>2. queue' = without
    OBVIOUS
  <2> HIDE DEF without
  <2>3. DOMAIN without = 1..(Len(queue) - 1)
    BY <1>1, <2>1
  <2> QED
    BY <1>1, <2>1, <2>2, <2>3
<1> DEFINE to(j) == IF j < i THEN j ELSE j + 1
<1>3. \A j \in DOMAIN queue' : /\ to(j) \in DOMAIN queue \ {i} /\ queue'[j] = queue[to(j)]
                              /\ \A k \in DOMAIN queue' : to(j) = to(k) => j = k
  BY <1>2
<1>4. \A k \in DOMAIN queue \ {i} : \E j \in DOMAIN queue' : to(j) = k
  <2> TAKE k \in DOMAIN queue \ {i}
  <2>1. CASE k < i
    BY <1>2, <2>1
  <2>2. CASE k > i
    <3>1. k - 1 \in DOMAIN queue' /\ to(k - 1) = k
      BY <1>2, <2>2
    <3> QED
      BY <3>1
  <2> QED
    BY <1>2, <2>1, <2>2
<1> HIDE DEF to
<1>5. \A j, k \in DOMAIN queue' : queue'[j].id = queue'[k].id => j = k
  BY <1>3 DEF EntryInv
<1>6. Entries' = Entries \ {queue[i]}
  <2>1. \A k \in DOMAIN queue \ {i} : queue[k] # queue[i]
    BY DEF EntryInv
  <2> QED
    BY <1>3, <1>4, <2>1 DEF Entries
<1> QED
  BY <1>2, <1>5, <1>6

LEMMA DequeuedStep ==
    ASSUME TextTypes, EntryInv, NEW s \in sends, queue' = Dequeued(s)
    PROVE  /\ queue' \in Seq(Queued)
           /\ Entries' = {e \in Entries : e.id \notin s.entry}
           /\ \A j, k \in DOMAIN queue' : queue'[j].id = queue'[k].id => j = k
<1> DEFINE entries == {i \in DOMAIN queue : queue[i].id \in s.entry}
<1>1. CASE entries = {}
  BY <1>1 DEF Dequeued, Entries, EntryInv, TextTypes
<1>2. CASE entries # {}
  <2> DEFINE i == CHOOSE i \in entries : TRUE
  <2>1. i \in entries /\ queue' = RemoveAt(queue, i)
    BY <1>2 DEF Dequeued
  <2> HIDE DEF i
  <2>2. i \in DOMAIN queue /\ s.entry = {queue[i].id}
    BY <2>1 DEF EntryInv
  <2>3. /\ queue' \in Seq(Queued) /\ Entries' = Entries \ {queue[i]}
        /\ \A j, k \in DOMAIN queue' : queue'[j].id = queue'[k].id => j = k
    BY <2>1, <2>2, RemoveStep
  <2>4. \A e \in Entries : e.id \in s.entry <=> e = queue[i]
    BY <2>2 DEF Entries, EntryInv
  <2> QED
    BY <2>3, <2>4
<1> QED
  BY <1>1, <1>2

LEMMA StillTexts ==
    ASSUME TextInv, UNCHANGED <<composer, queue, sends, past>>
    PROVE  TextInv'
BY DEF TextInv, TextTypes, EntryInv, Entries, KeptInv, Held, Left, OnceInv, Once, InComposer, InQueue,
       InSends, Unwritten, Left

LEMMA WriteTexts ==
    ASSUME TextInv, NEW p \in Piece, Write(p)
    PROVE  TextInv'
<1> DEFINE written == past.written \cup {p}
<1>1. /\ p \notin past.written /\ composer' = composer \cup {p}
      /\ past' = [past EXCEPT !.written = written] /\ queue' = queue /\ sends' = sends
  BY DEF Write
<1>2. past \in Past /\ written \in Text
  BY DEF TextInv, TextTypes, Past, Text
<1> HIDE DEF written
<1>3. /\ past' \in Past /\ past'.written = written /\ past'.accepted = past.accepted
      /\ past'.doubted = past.doubted /\ past'.replaced = past.replaced /\ past'.ran = past.ran /\ past'.wiped = past.wiped
  BY <1>1, <1>2 DEF Past
<1> USE DEF written
<1>4. TextTypes'
  BY <1>1, <1>3 DEF TextInv, TextTypes, Text
<1>5. Entries' = Entries /\ EntryInv'
  BY <1>1 DEF TextInv, EntryInv, Entries
<1>6. KeptInv'
  BY <1>1, <1>3, <1>5 DEF TextInv, KeptInv, Held, Left
<1>7. ASSUME NEW q \in Piece \ past'.doubted PROVE Once(q)'
  <2>1. Once(q) /\ (q = p => Unwritten(q))
    BY <1>1, <1>3, <1>7 DEF TextInv, OnceInv
  <2> QED
    BY <1>1, <1>3, <1>5, <2>1 DEF Once, InComposer, InQueue, InSends, Unwritten, Left
<1>8. ASSUME NEW q \in Piece \ past'.written PROVE Unwritten(q)'
  BY <1>1, <1>3, <1>5, <1>8 DEF TextInv, OnceInv, Unwritten
<1> QED
  BY <1>4, <1>5, <1>6, <1>7, <1>8 DEF TextInv, OnceInv

\* A send that holds no text begins.
LEMMA BeginTexts ==
    ASSUME TextInv, NEW q \in Send, q.text = {}, q.entry = {}, q.from # "queue",
           q.from = "continue" => q.at = "dispatch",
           sends' = sends \cup {q}, UNCHANGED <<composer, queue, past>>
    PROVE  TextInv'
<1>1. Entries' = Entries
  BY DEF Entries
<1>2. TextTypes' /\ EntryInv'
  <2>1. TextTypes'
    BY DEF TextInv, TextTypes
  <2>2. /\ q.from # "composer" => q.at = "dispatch"
        /\ q.from = "queue" => \E id \in Id : q.entry = {id}
        /\ \A e \in Entries : e.id \notin q.entry
    BY DEF Send
  <2>3. EntryInv'
    BY <1>1, <2>2 DEF TextInv, EntryInv
  <2> QED
    BY <2>1, <2>3
<1>3. KeptInv'
  BY <1>1 DEF TextInv, KeptInv, Held, Left
<1>4. ASSUME NEW p \in Piece \ past'.doubted PROVE Once(p)'
  BY <1>1, <1>4 DEF TextInv, OnceInv, Once, InComposer, InQueue, InSends, Left
<1>5. ASSUME NEW p \in Piece \ past'.written PROVE Unwritten(p)'
  BY <1>1, <1>5 DEF TextInv, OnceInv, Unwritten
<1> QED
  BY <1>2, <1>3, <1>4, <1>5 DEF TextInv, OnceInv

\* The queue's entry is sent: the send holds its text too.
LEMMA SendQueuedTexts ==
    ASSUME TextInv, SendInv, Counted, NEW i \in DOMAIN queue,
           NEW mode \in {"queue", "steer"}, SendQueued(i, mode)
    PROVE  TextInv'
<1> DEFINE e == queue[i]
           q == New(e.text, {e.id}, "queue", mode)
<1>1. e \in Entries /\ e \in Queued
  BY DEF TextInv, TextTypes, Entries
<1>2. q \in Send /\ q.text = e.text /\ q.entry = {e.id} /\ q.from = "queue" /\ q.at = "dispatch"
  BY <1>1 DEF New, Send, Queued, SendInv, FlagInv, Page, Counted
<1>3. sends' = sends \cup {q} /\ UNCHANGED <<composer, queue, past>> /\ ~page.locked
  BY DEF SendQueued, MaySend
<1>4. \A s \in sends : s.from # "queue"
  BY <1>3 DEF SendInv, FlagInv, Flagged
<1> HIDE DEF q
<1>5. Entries' = Entries
  BY <1>3 DEF Entries
<1>6. \A f \in Entries : f.id = e.id => f = e
  BY DEF TextInv, EntryInv, Entries
<1> HIDE DEF e
<1>7. TextTypes' /\ EntryInv'
  BY <1>1, <1>2, <1>3, <1>5, <1>6 DEF TextInv, TextTypes, EntryInv, Queued
<1>8. KeptInv'
  BY <1>2, <1>3, <1>5 DEF TextInv, KeptInv, Held, Left
<1>9. ASSUME NEW p \in Piece \ past'.doubted PROVE Once(p)'
  <2>1. Once(p)
    BY <1>3, <1>9 DEF TextInv, OnceInv
  <2>2. p \in e.text => \A s \in sends : Left(s) => p \notin s.text
    BY <1>1, <1>4, <2>1 DEF Once, InQueue, TextInv, EntryInv
  <2> QED
    BY <1>1, <1>2, <1>3, <1>5, <2>1, <2>2 DEF Once, InComposer, InQueue, InSends, Left
<1>10. ASSUME NEW p \in Piece \ past'.written PROVE Unwritten(p)'
  BY <1>1, <1>2, <1>3, <1>5, <1>10 DEF TextInv, OnceInv, Unwritten
<1> QED
  BY <1>7, <1>8, <1>9, <1>10 DEF TextInv, OnceInv

\* A send with the composer's text t goes on to be queued or sent: what it holds of
\* the composer leaves it.
LEMMA GoneTexts ==
    ASSUME TextInv, NEW s \in sends, ~Left(s), s.from = "composer", s.entry = {},
           NEW text \in Text, NEW at \in {"previews", "dispatch"},
           text \subseteq composer \cup s.text,
           sends' = (sends \ {s}) \cup {Gone(s, text, at)}, composer' = {}, queue' = queue,
           past' \in Past, past'.written = past.written, past'.accepted = past.accepted,
           past'.replaced = past.replaced, past'.ran = past.ran,
           past.wiped \cup (composer \ text) \subseteq past'.wiped,
           past.doubted \cup (text \ composer) \subseteq past'.doubted
    PROVE  TextInv'
<1> DEFINE q == Gone(s, text, at)
<1>1. s \in Send
  BY DEF TextInv, TextTypes
<1>2. /\ q \in Send /\ q.text = text /\ q.at = at /\ q.from = "composer" /\ q.entry = {}
  <2> DEFINE stop == s.stop /\ at = "dispatch"
  <2>1. stop \in BOOLEAN /\ q = [s EXCEPT !.text = text, !.at = at, !.live = FALSE,
                                          !.asks = FALSE, !.stop = stop]
    BY DEF Gone
  <2> HIDE DEF stop, q
  <2> QED
    BY <1>1, <2>1 DEF Send
<1> HIDE DEF q
<1>3. Left(q) /\ sends' = (sends \ {s}) \cup {q}
  BY <1>2 DEF Left, q
<1>4. Entries' = Entries
  BY DEF Entries
<1>5. TextTypes' /\ EntryInv'
  BY <1>2, <1>3, <1>4 DEF TextInv, TextTypes, EntryInv, Text
<1>6. ASSUME NEW p \in past.written PROVE Held(p)'
  <2>1. Held(p)
    BY <1>6 DEF TextInv, KeptInv
  <2>2. CASE p \in composer
    BY <1>2, <1>3, <2>2 DEF Held, Left
  <2>3. CASE p \in past.replaced \cup past.ran \cup past.wiped
    BY <2>3 DEF Held
  <2>4. CASE (\E e \in Entries : p \in e.text) \/ past.accepted[p] > 0
    BY <1>4, <2>4 DEF Held
  <2>5. CASE \E r \in sends : r.from = "composer" /\ Left(r) /\ p \in r.text
    BY <1>3, <2>5 DEF Held, Left
  <2> QED
    BY <2>1, <2>2, <2>3, <2>4, <2>5 DEF Held
<1>7. KeptInv'
  BY <1>6 DEF KeptInv
<1>8. ASSUME NEW p \in Piece \ past'.doubted PROVE Once(p)'
  <2>1. Once(p) /\ (p \in text => p \in composer)
    BY <1>8 DEF TextInv, OnceInv
  <2>2. p \in text => /\ past.accepted[p] = 0 /\ \A e \in Entries : p \notin e.text
                      /\ \A r \in sends : Left(r) => p \notin r.text
    BY <2>1 DEF Once, InComposer
  <2> QED
    BY <1>2, <1>3, <1>4, <2>1, <2>2 DEF Once, InComposer, InQueue, InSends, Left
<1>9. ASSUME NEW p \in Piece \ past'.written PROVE Unwritten(p)'
  <2>1. Unwritten(p)
    BY <1>9 DEF TextInv, OnceInv
  <2>2. p \notin text
    BY <2>1 DEF Unwritten
  <2> QED
    BY <1>2, <1>3, <1>4, <2>1, <2>2 DEF Unwritten
<1> QED
  BY <1>5, <1>7, <1>8, <1>9 DEF TextInv, OnceInv

LEMMA ClearsIs ==
    ASSUME TextTypes, NEW text \in Text, Clears(text)
    PROVE  /\ composer' = {} /\ past' \in Past /\ past'.written = past.written
           /\ past'.accepted = past.accepted /\ past'.replaced = past.replaced
           /\ past'.doubted = past.doubted
           /\ composer \cup past.ran \cup past.wiped \subseteq past'.ran \cup past'.wiped
<1> DEFINE ran == past.ran \cup (composer \cap text)
           wiped == past.wiped \cup (composer \ text)
<1>1. composer' = {} /\ past' = [past EXCEPT !.ran = ran, !.wiped = wiped]
  BY DEF Clears
<1>2. past \in Past /\ ran \in Text /\ wiped \in Text
  BY DEF TextTypes, Past, Text
<1>3. composer \cup past.ran \cup past.wiped \subseteq ran \cup wiped
  OBVIOUS
<1> HIDE DEF ran, wiped
<1>4. /\ past' \in Past /\ past'.written = past.written /\ past'.accepted = past.accepted
      /\ past'.replaced = past.replaced /\ past'.doubted = past.doubted
      /\ past'.ran = ran /\ past'.wiped = wiped
  BY <1>1, <1>2 DEF Past
<1> QED
  BY <1>1, <1>3, <1>4

\* A send is over, or waits for its command, and holds none of the composer's text
\* that left it: the composer stays, or a command cleared it.
LEMMA AsideTexts ==
    ASSUME TextInv, NEW s \in sends, ~Left(s), queue' = queue,
           \/ sends' = sends \ {s}
           \/ \E q \in Send : /\ sends' = (sends \ {s}) \cup {q}
                              /\ q.at = "command" /\ q.from = "composer" /\ q.entry = {}
                              /\ q.text \subseteq composer,
           \/ UNCHANGED <<composer, past>>
           \/ \E text \in Text : Clears(text)
    PROVE  TextInv'
<1>1. \A r \in sends' : \/ r \in sends /\ r # s
                        \/ /\ r \in Send /\ r.at = "command" /\ r.from = "composer"
                           /\ r.entry = {} /\ r.text \subseteq composer
  OBVIOUS
<1>2. \A r \in sends : r # s => r \in sends'
  OBVIOUS
<1>3. Entries' = Entries
  BY DEF Entries
<1>4. /\ composer' \in Text /\ composer' \subseteq composer
      /\ past' \in Past /\ past'.written = past.written /\ past'.accepted = past.accepted
      /\ past'.replaced = past.replaced /\ past'.doubted = past.doubted
      /\ composer \cup past.ran \cup past.wiped
            \subseteq composer' \cup past'.ran \cup past'.wiped
  <2>1. CASE UNCHANGED <<composer, past>>
    BY <2>1 DEF TextInv, TextTypes
  <2>2. ASSUME NEW text \in Text, Clears(text)
        PROVE  /\ composer' = {} /\ past' \in Past /\ past'.written = past.written
               /\ past'.accepted = past.accepted /\ past'.replaced = past.replaced
               /\ past'.doubted = past.doubted
               /\ composer \cup past.ran \cup past.wiped \subseteq past'.ran \cup past'.wiped
    BY <2>2, ClearsIs DEF TextInv
  <2>3. {} \in Text /\ {} \subseteq composer
    BY DEF Text
  <2> QED
    BY <2>1, <2>2, <2>3
<1>5. TextTypes' /\ EntryInv'
  <2>1. TextTypes'
    BY <1>1, <1>4 DEF TextInv, TextTypes
  <2>2. ASSUME NEW r \in sends'
        PROVE  /\ r.from # "composer" => r.at = "dispatch"
               /\ r.from = "queue" => \E id \in Id : r.entry = {id}
               /\ r.from # "queue" => r.entry = {}
               /\ r.from = "continue" \/ r.at = "images" => r.text = {}
               /\ \A e \in Entries : e.id \in r.entry => r.text = e.text
    BY <1>1 DEF TextInv, EntryInv
  <2>3. (\A i, j \in DOMAIN queue : queue[i].id = queue[j].id => i = j)'
    BY DEF TextInv, EntryInv
  <2> QED
    BY <1>3, <2>1, <2>2, <2>3 DEF EntryInv
<1>6. ASSUME NEW p \in past.written PROVE Held(p)'
  <2>1. Held(p)
    BY <1>6 DEF TextInv, KeptInv
  <2>2. CASE p \in composer \cup past.replaced \cup past.ran \cup past.wiped
    BY <1>4, <2>2 DEF Held
  <2>3. CASE (\E e \in Entries : p \in e.text) \/ past.accepted[p] > 0
    BY <1>3, <1>4, <2>3 DEF Held
  <2>4. CASE \E r \in sends : r.from = "composer" /\ Left(r) /\ p \in r.text
    BY <1>2, <2>4 DEF Held, Left
  <2> QED
    BY <2>1, <2>2, <2>3, <2>4 DEF Held
<1>7. KeptInv'
  BY <1>4, <1>6 DEF KeptInv
<1>8. \A r \in sends' : Left(r) => r \in sends
  BY <1>1 DEF Left
<1>9. ASSUME NEW p \in Piece \ past'.doubted PROVE Once(p)'
  <2>1. Once(p)
    BY <1>4, <1>9 DEF TextInv, OnceInv
  <2> QED
    BY <1>3, <1>4, <1>8, <2>1 DEF Once, InComposer, InQueue, InSends, Left
<1>10. ASSUME NEW p \in Piece \ past'.written PROVE Unwritten(p)'
  <2>1. Unwritten(p)
    BY <1>4, <1>10 DEF TextInv, OnceInv
  <2> QED
    BY <1>1, <1>3, <1>4, <2>1 DEF Unwritten
<1> QED
  BY <1>5, <1>7, <1>9, <1>10 DEF TextInv, OnceInv

\* The images are ready: the send is over, runs as a command, or has the composer's
\* text, which leaves the composer.
LEMMA ReadyTexts ==
    ASSUME TextInv, NEW s \in sends, ImagesReady(s)
    PROVE  TextInv'
<1> DEFINE command(text) == [s EXCEPT !.text = text, !.at = "command", !.asks = FALSE]
           ready == [page EXCEPT !.preflight = FALSE]
<1>1. /\ s.at = "images" /\ queue' = queue
      /\ \/ sends' = sends \ {s} /\ UNCHANGED <<composer, past>>
         \/ sends' = (sends \ {s}) \cup {command(composer)} /\ UNCHANGED <<composer, past>>
         \/ sends' = (sends \ {s}) \cup {command({})} /\ Clears(composer)
         \/ GoesOn(s, composer, ready) /\ UNCHANGED past
  BY DEF ImagesReady
<1>2. s \in Send /\ s.from = "composer" /\ s.entry = {} /\ ~Left(s) /\ composer \in Text
  BY <1>1 DEF TextInv, TextTypes, EntryInv, Left
<1>3. ASSUME NEW text \in Text
      PROVE  /\ command(text) \in Send /\ command(text).text = text
             /\ command(text).at = "command" /\ command(text).from = "composer"
             /\ command(text).entry = {}
  BY <1>2 DEF Send
<1>4. {} \in Text
  BY DEF Text
<1> HIDE DEF command, ready
<1>5. CASE sends' = sends \ {s} /\ UNCHANGED <<composer, past>>
  BY <1>1, <1>2, <1>5, AsideTexts
<1>6. CASE sends' = (sends \ {s}) \cup {command(composer)} /\ UNCHANGED <<composer, past>>
  BY <1>1, <1>2, <1>3, <1>6, AsideTexts
<1>7. CASE sends' = (sends \ {s}) \cup {command({})} /\ Clears(composer)
  BY <1>1, <1>2, <1>3, <1>4, <1>7, AsideTexts
<1>8. CASE GoesOn(s, composer, ready) /\ UNCHANGED past
  <2>1. /\ composer' = {} /\ past' \in Past
        /\ \E at \in {"previews", "dispatch"} :
              sends' = (sends \ {s}) \cup {Gone(s, composer, at)}
    BY <1>8, GoesOnSends DEF GoesOn, TextInv, TextTypes
  <2> QED
    BY <1>1, <1>2, <1>8, <2>1, GoneTexts
<1> QED
  BY <1>1, <1>5, <1>6, <1>7, <1>8

\* A command is done, and may clear the composer.
LEMMA CommandTexts ==
    ASSUME TextInv, NEW s \in sends, CommandDone(s)
    PROVE  TextInv'
<1>1. /\ ~Left(s) /\ sends' = sends \ {s} /\ queue' = queue /\ s.text \in Text
      /\ UNCHANGED <<composer, past>> \/ Clears(s.text)
  BY DEF CommandDone, Left, TextInv, TextTypes, Send
<1> QED
  BY <1>1, AsideTexts

\* A command goes on to be queued or sent: what of it had left the composer is at risk.
LEMMA FallsTexts ==
    ASSUME TextInv, NEW s \in sends, CommandFalls(s)
    PROVE  TextInv'
<1> DEFINE wiped == past.wiped \cup (composer \ s.text)
           doubted == past.doubted \cup (s.text \ composer)
<1>1. /\ s.at = "command" /\ GoesOn(s, s.text, page) /\ queue' = queue
      /\ past' = [past EXCEPT !.wiped = wiped, !.doubted = doubted]
  BY DEF CommandFalls
<1>2. s \in Send /\ s.from = "composer" /\ s.entry = {} /\ ~Left(s) /\ s.text \in Text
  BY <1>1 DEF TextInv, TextTypes, EntryInv, Left, Send
<1>3. past \in Past /\ wiped \in Text /\ doubted \in Text
  BY <1>2 DEF TextInv, TextTypes, Past, Text
<1>4. /\ past.wiped \cup (composer \ s.text) \subseteq wiped
      /\ past.doubted \cup (s.text \ composer) \subseteq doubted
  OBVIOUS
<1> HIDE DEF wiped, doubted
<1>5. /\ past' \in Past /\ past'.written = past.written /\ past'.accepted = past.accepted
      /\ past'.replaced = past.replaced /\ past'.ran = past.ran /\ past'.wiped = wiped
      /\ past'.doubted = doubted
  BY <1>1, <1>3 DEF Past
<1>6. /\ composer' = {}
      /\ \E at \in {"previews", "dispatch"} :
            sends' = (sends \ {s}) \cup {Gone(s, s.text, at)}
  BY <1>1, GoesOnSends DEF GoesOn
<1>7. s.text \subseteq composer \cup s.text
  OBVIOUS
<1> QED
  BY <1>1, <1>2, <1>4, <1>5, <1>6, <1>7, GoneTexts

LEMMA EnqueueTexts ==
    ASSUME TextInv, NEW s \in sends, Enqueue(s)
    PROVE  TextInv'
<1>1. PICK id \in Id : IsNew(id) /\ queue' = Append(queue, [id |-> id, text |-> s.text])
  BY DEF Enqueue
<1> DEFINE e == [id |-> id, text |-> s.text]
<1>2. s.at = "previews" /\ sends' = sends \ {s} /\ UNCHANGED <<composer, past>>
  BY DEF Enqueue
<1>3. e \in Queued /\ e.id = id /\ e.text = s.text /\ queue' = Append(queue, e)
  BY <1>1 DEF TextInv, TextTypes, Send, Queued
<1> HIDE DEF e
<1>4. (\A f \in Entries : f.id # e.id) /\ \A q \in sends : e.id \notin q.entry
  BY <1>1, <1>3 DEF IsNew, Entries
<1>5. /\ queue' \in Seq(Queued) /\ Entries' = Entries \cup {e}
      /\ \A i, j \in DOMAIN queue' : queue'[i].id = queue'[j].id => i = j
  BY <1>3, <1>4, AppendStep DEF TextInv
<1>6. TextTypes' /\ EntryInv'
  BY <1>2, <1>4, <1>5 DEF TextInv, TextTypes, EntryInv
<1>7. KeptInv'
  BY <1>2, <1>3, <1>5 DEF TextInv, KeptInv, Held, Left
<1>8. ASSUME NEW p \in Piece \ past'.doubted PROVE Once(p)'
  <2>1. Once(p)
    BY <1>2, <1>8 DEF TextInv, OnceInv
  <2>2. p \in e.text =>
          /\ past.accepted[p] = 0 /\ p \notin composer
          /\ \A q \in sends \ {s} : Left(q) => p \notin q.text
          /\ \A f \in Entries : p \notin f.text
    <3>1. Left(s) /\ s.entry = {}
      BY <1>2 DEF Left, TextInv, EntryInv
    <3> QED
      BY <1>3, <2>1, <3>1 DEF Once, InComposer, InQueue, InSends
  <2> QED
    BY <1>2, <1>5, <2>1, <2>2 DEF Once, InComposer, InQueue, InSends, Left
<1>9. ASSUME NEW p \in Piece \ past'.written PROVE Unwritten(p)'
  BY <1>2, <1>3, <1>5, <1>9 DEF TextInv, OnceInv, Unwritten
<1> QED
  BY <1>6, <1>7, <1>8, <1>9 DEF TextInv, OnceInv

LEMMA AcceptedIs ==
    ASSUME TextTypes, NEW s \in Send
    PROVE  /\ Accepted(s) \in Past
           /\ \A p \in Piece : /\ p \in s.text => Accepted(s).accepted[p] > 0
                               /\ p \notin s.text => Accepted(s).accepted[p] = past.accepted[p]
                               /\ past.accepted[p] = 0 => Accepted(s).accepted[p] <= 1
                               /\ past.accepted[p] > 0 => Accepted(s).accepted[p] > 0
           /\ Accepted(s).written = past.written /\ Accepted(s).doubted = past.doubted
           /\ Accepted(s).replaced = past.replaced /\ Accepted(s).ran = past.ran /\ Accepted(s).wiped = past.wiped
<1> DEFINE accepted == [p \in Piece |-> IF p \in s.text /\ past.accepted[p] < 2
                                        THEN past.accepted[p] + 1 ELSE past.accepted[p]]
<1>1. past \in Past /\ past.accepted \in [Piece -> 0..2]
  BY DEF TextTypes, Past
<1>2. accepted \in [Piece -> 0..2]
  BY <1>1
<1>3. \A p \in Piece : /\ p \in s.text => accepted[p] > 0
                       /\ p \notin s.text => accepted[p] = past.accepted[p]
                       /\ past.accepted[p] = 0 => accepted[p] <= 1
                       /\ past.accepted[p] > 0 => accepted[p] > 0
  BY <1>1
<1>4. Accepted(s) = [past EXCEPT !.accepted = accepted]
  BY DEF Accepted
<1> HIDE DEF accepted
<1> QED
  BY <1>1, <1>2, <1>3, <1>4 DEF Past

\* A turn is accepted: its text leaves the queue with it.
LEMMA SendAcceptedTexts ==
    ASSUME TextInv, NEW s \in sends, SendAccepted(s)
    PROVE  TextInv'
<1>1. /\ s.at = "dispatch" /\ sends' = sends \ {s} /\ queue' = Dequeued(s)
      /\ past' = Accepted(s) /\ UNCHANGED composer
  BY DEF SendAccepted
<1>2. s \in Send /\ TextTypes /\ EntryInv
  BY DEF TextInv, TextTypes
<1>3. /\ queue' \in Seq(Queued) /\ Entries' = {e \in Entries : e.id \notin s.entry}
      /\ \A i, j \in DOMAIN queue' : queue'[i].id = queue'[j].id => i = j
  BY <1>1, <1>2, DequeuedStep
<1>4. /\ past' \in Past
      /\ \A p \in Piece : /\ p \in s.text => past'.accepted[p] > 0
                          /\ p \notin s.text => past'.accepted[p] = past.accepted[p]
                          /\ past.accepted[p] = 0 => past'.accepted[p] <= 1
                          /\ past.accepted[p] > 0 => past'.accepted[p] > 0
      /\ past'.written = past.written /\ past'.doubted = past.doubted
      /\ past'.replaced = past.replaced /\ past'.ran = past.ran /\ past'.wiped = past.wiped
  BY <1>1, <1>2, AcceptedIs
<1>5. TextTypes' /\ EntryInv'
  BY <1>1, <1>2, <1>3, <1>4 DEF TextTypes, EntryInv
<1>6. ASSUME NEW p \in past.written PROVE Held(p)'
  <2>1. Held(p) /\ p \in Piece
    BY <1>2, <1>6 DEF TextInv, KeptInv, TextTypes, Past, Text
  <2>2. CASE p \in s.text
    BY <1>4, <2>1, <2>2 DEF Held, Left
  <2>3. CASE p \notin s.text
    <3>1. \A e \in Entries : p \in e.text => e \in Entries'
      BY <1>2, <1>3, <2>3 DEF EntryInv
    <3> QED
      BY <1>1, <1>4, <2>1, <2>3, <3>1 DEF Held, Left
  <2> QED
    BY <2>2, <2>3
<1>7. KeptInv'
  BY <1>4, <1>6 DEF KeptInv
<1>8. ASSUME NEW p \in Piece \ past'.doubted PROVE Once(p)'
  <2>1. Once(p)
    BY <1>4, <1>8 DEF TextInv, OnceInv
  <2>2. CASE p \in s.text
    <3>1. past.accepted[p] = 0 /\ \A q \in sends \ {s} : Left(q) => p \notin q.text
      BY <1>1, <2>1, <2>2 DEF Once, InSends, Left
    <3>2. \A e \in Entries' : p \notin e.text
      BY <1>1, <1>3, <2>1, <2>2 DEF Once, InQueue, Left
    <3>3. p \notin composer
      BY <1>1, <2>1, <2>2 DEF Once, InComposer, Left
    <3> QED
      BY <1>1, <1>4, <3>1, <3>2, <3>3 DEF Once, InComposer, InQueue, InSends, Left
  <2>3. CASE p \notin s.text
    BY <1>1, <1>3, <1>4, <2>1, <2>3 DEF Once, InComposer, InQueue, InSends, Left
  <2> QED
    BY <2>2, <2>3
<1>9. ASSUME NEW p \in Piece \ past'.written PROVE Unwritten(p)'
  BY <1>1, <1>3, <1>4, <1>9 DEF TextInv, OnceInv, Unwritten
<1> QED
  BY <1>5, <1>7, <1>8, <1>9 DEF TextInv, OnceInv

\* What a failed send leaves behind: its text is at risk when the answer was late,
\* and goes back into the composer when it came from there.
LEMMA FailedPast ==
    ASSUME TextInv, NEW s \in sends, NEW late \in BOOLEAN, SendFailed(s, late)
    PROVE  /\ past' \in Past /\ past'.written = past.written /\ past'.ran = past.ran /\ past'.wiped = past.wiped
           /\ past'.doubted = past.doubted \cup (IF late THEN s.text ELSE {})
           /\ past'.replaced = past.replaced \cup
                               (IF s.from = "composer" THEN composer \ s.text ELSE {})
           /\ composer' = (IF s.from = "composer" THEN s.text ELSE composer)
           /\ \A p \in Piece : /\ late /\ p \in s.text => past'.accepted[p] > 0
                               /\ ~late \/ p \notin s.text => past'.accepted[p] = past.accepted[p]
                               /\ past.accepted[p] > 0 => past'.accepted[p] > 0
<1> DEFINE doubted == Accepted(s).doubted \cup s.text
           risk == IF late THEN [Accepted(s) EXCEPT !.doubted = doubted] ELSE past
           replaced == risk.replaced \cup (composer \ s.text)
<1>1. s \in Send /\ past \in Past /\ composer \in Text /\ TextTypes
  BY DEF TextInv, TextTypes
<1>2. doubted = past.doubted \cup s.text /\ doubted \in Text
  BY <1>1, AcceptedIs DEF Past, Send, Text
<1>3. /\ risk \in Past /\ risk.written = past.written /\ risk.ran = past.ran /\ risk.wiped = past.wiped
      /\ risk.doubted = past.doubted \cup (IF late THEN s.text ELSE {})
      /\ risk.replaced = past.replaced
      /\ \A p \in Piece : /\ late /\ p \in s.text => risk.accepted[p] > 0
                          /\ ~late \/ p \notin s.text => risk.accepted[p] = past.accepted[p]
                          /\ past.accepted[p] > 0 => risk.accepted[p] > 0
  <2>1. CASE late
    <3> DEFINE next == Accepted(s)
    <3>1. /\ next \in Past
          /\ \A p \in Piece : /\ p \in s.text => next.accepted[p] > 0
                              /\ p \notin s.text => next.accepted[p] = past.accepted[p]
                              /\ past.accepted[p] > 0 => next.accepted[p] > 0
          /\ next.written = past.written /\ next.replaced = past.replaced
          /\ next.ran = past.ran /\ next.wiped = past.wiped
      BY <1>1, AcceptedIs
    <3>2. risk = [next EXCEPT !.doubted = doubted]
      BY <2>1
    <3> HIDE DEF next, risk
    <3>3. /\ risk \in Past /\ risk.written = next.written /\ risk.ran = next.ran /\ risk.wiped = next.wiped
          /\ risk.replaced = next.replaced /\ risk.accepted = next.accepted
          /\ risk.doubted = doubted
      BY <1>2, <3>1, <3>2 DEF Past
    <3> QED
      BY <1>2, <2>1, <3>1, <3>3
  <2>2. CASE ~late
    BY <1>1, <2>2
  <2> QED
    BY <2>1, <2>2
<1>4. /\ s.from = "composer" => /\ composer' = s.text
                               /\ past' = [risk EXCEPT !.replaced = replaced]
      /\ s.from # "composer" => composer' = composer /\ past' = risk
  <2>1. CASE late
    BY <2>1 DEF SendFailed
  <2>2. CASE ~late
    BY <2>2 DEF SendFailed
  <2> QED
    BY <2>1, <2>2
<1> HIDE DEF risk
<1>5. replaced \in Text
  BY <1>1, <1>3 DEF Past, Text
<1>6. replaced = past.replaced \cup (composer \ s.text)
  BY <1>3
<1> HIDE DEF replaced
<1>7. CASE s.from = "composer"
  <2>1. /\ past' \in Past /\ past'.written = risk.written /\ past'.ran = risk.ran
        /\ past'.wiped = risk.wiped
        /\ past'.doubted = risk.doubted /\ past'.accepted = risk.accepted
        /\ past'.replaced = replaced
    BY <1>3, <1>4, <1>5, <1>7 DEF Past
  <2> QED
    BY <1>3, <1>4, <1>6, <1>7, <2>1
<1> QED
  BY <1>3, <1>4, <1>7

LEMMA SendFailedTexts ==
    ASSUME TextInv, NEW s \in sends, NEW late \in BOOLEAN, SendFailed(s, late)
    PROVE  TextInv'
<1>1. s.at = "dispatch" /\ sends' = sends \ {s} /\ queue' = queue /\ s \in Send
  BY DEF SendFailed, TextInv, TextTypes
<1>2. /\ past' \in Past /\ past'.written = past.written /\ past'.ran = past.ran /\ past'.wiped = past.wiped
      /\ past'.doubted = past.doubted \cup (IF late THEN s.text ELSE {})
      /\ past'.replaced = past.replaced \cup
                          (IF s.from = "composer" THEN composer \ s.text ELSE {})
      /\ composer' = (IF s.from = "composer" THEN s.text ELSE composer)
      /\ \A p \in Piece : /\ late /\ p \in s.text => past'.accepted[p] > 0
                          /\ ~late \/ p \notin s.text => past'.accepted[p] = past.accepted[p]
                          /\ past.accepted[p] > 0 => past'.accepted[p] > 0
  BY FailedPast
<1>3. Entries' = Entries
  BY <1>1 DEF Entries
<1>4. TextTypes' /\ EntryInv'
  BY <1>1, <1>2, <1>3 DEF TextInv, TextTypes, EntryInv, Send
<1>5. ASSUME NEW p \in past.written PROVE Held(p)'
  <2>1. Held(p) /\ p \in Piece
    BY <1>5 DEF TextInv, KeptInv, TextTypes, Past, Text
  <2>2. CASE s.from = "composer"
    BY <1>1, <1>2, <1>3, <2>1, <2>2 DEF Held, Left
  <2>3. CASE s.from # "composer"
    BY <1>1, <1>2, <1>3, <2>1, <2>3 DEF Held, Left
  <2> QED
    BY <2>2, <2>3
<1>6. KeptInv'
  BY <1>2, <1>5 DEF KeptInv
<1>7. ASSUME NEW p \in Piece \ past'.doubted PROVE Once(p)'
  <2>1. Once(p) /\ past'.accepted[p] = past.accepted[p]
    BY <1>2, <1>7 DEF TextInv, OnceInv
  <2>2. CASE s.from = "composer" /\ p \in s.text
    <3>1. /\ past.accepted[p] = 0 /\ \A q \in sends \ {s} : Left(q) => p \notin q.text
          /\ \A e \in Entries : p \notin e.text
      <4>1. s.entry = {} /\ Left(s)
        BY <1>1, <2>2 DEF Left, TextInv, EntryInv
      <4> QED
        BY <2>1, <2>2, <4>1 DEF Once, InSends, InQueue
    <3> QED
      BY <1>1, <1>3, <2>1, <3>1 DEF Once, InComposer, InQueue, InSends, Left
  <2>3. CASE ~(s.from = "composer" /\ p \in s.text)
    <3>1. p \in composer' => p \in composer
      BY <1>2, <2>3
    <3> QED
      BY <1>1, <1>3, <2>1, <3>1 DEF Once, InComposer, InQueue, InSends, Left
  <2> QED
    BY <2>2, <2>3
<1>8. ASSUME NEW p \in Piece \ past'.written PROVE Unwritten(p)'
  <2>1. Unwritten(p)
    BY <1>2, <1>8 DEF TextInv, OnceInv
  <2> QED
    BY <1>1, <1>2, <1>3, <2>1 DEF Unwritten
<1> QED
  BY <1>4, <1>6, <1>7, <1>8 DEF TextInv, OnceInv

\* A text leaves the queue for good: the user replaces it.
LEMMA EditQueuedTexts ==
    ASSUME TextInv, NEW i \in DOMAIN queue, EditQueued(i)
    PROVE  TextInv'
<1> DEFINE e == queue[i]
           replaced == past.replaced \cup (composer \ e.text)
           doubted == IF \E s \in sends : e.id \in s.entry
                      THEN past.doubted \cup e.text ELSE past.doubted
           held == [past EXCEPT !.replaced = replaced]
<1>1. e \in Queued /\ e \in Entries /\ past \in Past /\ composer \in Text
  BY DEF TextInv, TextTypes, Entries
<1>2. replaced \in Text /\ doubted \in Text
  BY <1>1 DEF Past, Text, Queued
<1>3. /\ queue' = RemoveAt(queue, i) /\ composer' = e.text /\ sends' = sends
      /\ held = Replacing(e.text)
  BY DEF EditQueued, Replacing
<1>4. past' = [held EXCEPT !.doubted = doubted]
  <2>1. held.doubted = past.doubted
    BY <1>1 DEF Past
  <2> QED
    BY <1>3, <2>1 DEF EditQueued
<1>5. /\ \A s \in sends : e.id \in s.entry => doubted = past.doubted \cup e.text
      /\ past.doubted \subseteq doubted
  OBVIOUS
<1> HIDE DEF replaced, doubted
<1>6. /\ past' \in Past /\ past'.written = past.written /\ past'.ran = past.ran /\ past'.wiped = past.wiped
      /\ past'.accepted = past.accepted /\ past'.replaced = replaced
      /\ past'.doubted = doubted
  <2>1. /\ held \in Past /\ held.written = past.written /\ held.ran = past.ran /\ held.wiped = past.wiped
        /\ held.accepted = past.accepted /\ held.replaced = replaced
    BY <1>1, <1>2 DEF Past
  <2> HIDE DEF held
  <2> QED
    BY <1>2, <1>4, <2>1 DEF Past
<1>7. /\ queue' \in Seq(Queued) /\ Entries' = Entries \ {e}
      /\ \A j, k \in DOMAIN queue' : queue'[j].id = queue'[k].id => j = k
  BY <1>3, RemoveStep DEF TextInv
<1> HIDE DEF e, held
<1>8. TextTypes' /\ EntryInv'
  BY <1>1, <1>3, <1>6, <1>7 DEF TextInv, TextTypes, EntryInv, Queued
<1>9. KeptInv'
  BY <1>3, <1>6, <1>7 DEF TextInv, KeptInv, Held, Left, replaced
<1>10. ASSUME NEW p \in Piece \ past'.doubted PROVE Once(p)'
  <2>1. Once(p)
    BY <1>5, <1>6, <1>10 DEF TextInv, OnceInv
  <2>2. p \in e.text => /\ past.accepted[p] = 0 /\ \A f \in Entries' : p \notin f.text
                        /\ \A s \in sends : Left(s) => p \notin s.text
    BY <1>1, <1>5, <1>6, <1>7, <1>10, <2>1 DEF Once, InQueue
  <2> QED
    BY <1>3, <1>6, <1>7, <2>1, <2>2 DEF Once, InComposer, InQueue, InSends, Left
<1>11. ASSUME NEW p \in Piece \ past'.written PROVE Unwritten(p)'
  BY <1>1, <1>3, <1>6, <1>7, <1>11 DEF TextInv, OnceInv, Unwritten
<1> QED
  BY <1>8, <1>9, <1>10, <1>11 DEF TextInv, OnceInv

LEMMA RemoveQueuedTexts ==
    ASSUME TextInv, NEW i \in DOMAIN queue, RemoveQueued(i)
    PROVE  TextInv'
<1> DEFINE e == queue[i]
           replaced == past.replaced \cup e.text
<1>1. e \in Queued /\ e \in Entries /\ past \in Past
  BY DEF TextInv, TextTypes, Entries
<1>2. replaced \in Text
  BY <1>1 DEF Past, Text, Queued
<1>3. /\ queue' = RemoveAt(queue, i) /\ UNCHANGED <<composer, sends>>
      /\ past' = [past EXCEPT !.replaced = replaced]
  BY DEF RemoveQueued
<1> HIDE DEF replaced
<1>4. /\ past' \in Past /\ past'.written = past.written /\ past'.ran = past.ran /\ past'.wiped = past.wiped
      /\ past'.accepted = past.accepted /\ past'.replaced = replaced
      /\ past'.doubted = past.doubted
  BY <1>1, <1>2, <1>3 DEF Past
<1>5. /\ queue' \in Seq(Queued) /\ Entries' = Entries \ {e}
      /\ \A j, k \in DOMAIN queue' : queue'[j].id = queue'[k].id => j = k
  BY <1>3, RemoveStep DEF TextInv
<1> HIDE DEF e
<1>6. TextTypes' /\ EntryInv'
  BY <1>3, <1>4, <1>5 DEF TextInv, TextTypes, EntryInv
<1>7. KeptInv'
  BY <1>3, <1>4, <1>5 DEF TextInv, KeptInv, Held, Left, replaced
<1>8. ASSUME NEW p \in Piece \ past'.doubted PROVE Once(p)'
  BY <1>3, <1>4, <1>5, <1>8 DEF TextInv, OnceInv, Once, InComposer, InQueue, InSends, Left
<1>9. ASSUME NEW p \in Piece \ past'.written PROVE Unwritten(p)'
  BY <1>3, <1>4, <1>5, <1>9 DEF TextInv, OnceInv, Unwritten
<1> QED
  BY <1>6, <1>7, <1>8, <1>9 DEF TextInv, OnceInv

LEMMA InitTexts ==
    ASSUME Init
    PROVE  TextInv
<1>1. TextTypes
  BY DEF Init, TextTypes, Text, Past
<1>2. Entries = {} /\ sends = {} /\ past.written = {} /\ composer = {}
      /\ \A p \in Piece : past.accepted[p] = 0
  BY DEF Init, Entries
<1>3. DOMAIN queue = {}
  BY DEF Init
<1> QED
  BY <1>1, <1>2, <1>3 DEF TextInv, EntryInv, KeptInv, OnceInv, Once, InComposer, InQueue, InSends,
                          Unwritten

\* Every action keeps it: most have nothing to do with a text.
LEMMA NextTexts ==
    ASSUME TextInv, SendInv, Counted, [Next]_vars
    PROVE  TextInv'
<1>1. CASE UNCHANGED vars
  BY <1>1, StillTexts DEF vars, state
<1>2. CASE \E s \in sends : Settles(s)
  BY <1>2, ReadyTexts, CommandTexts, FallsTexts, EnqueueTexts, SendAcceptedTexts, SendFailedTexts DEF Settles
<1>3. CASE Drain \/ \E i \in DOMAIN queue : SteerQueued(i)
  <2>1. queue # <<>> => 1 \in DOMAIN queue
    BY DEF TextInv, TextTypes
  <2> QED
    BY <1>3, <2>1, SendQueuedTexts DEF Drain, SteerQueued
<1>4. CASE \E i \in DOMAIN queue : EditQueued(i) \/ RemoveQueued(i)
  BY <1>4, EditQueuedTexts, RemoveQueuedTexts
<1>5. CASE \E p \in Piece : Write(p)
  BY <1>5, WriteTexts
<1>6. ASSUME NEW mode \in {"queue", "steer"}, PressSend(mode) PROVE TextInv'
  <2> DEFINE live == HasQueueableLiveTurn
             asks == session.asks = "question"
             q == [New({}, {}, "composer", mode) EXCEPT
                      !.at = "images", !.live = live, !.asks = asks]
  <2>1. live \in BOOLEAN /\ asks \in BOOLEAN /\ page.stopped \in BOOLEAN
    BY DEF HasQueueableLiveTurn, HasLiveTurn, SendInv, FlagInv, Page
  <2>2. sends' = sends \cup {q} /\ UNCHANGED <<composer, queue, past>>
    BY <1>6 DEF PressSend
  <2> HIDE DEF live, asks
  <2>3. /\ q \in Send /\ q.text = {} /\ q.entry = {} /\ q.from = "composer"
    BY <2>1 DEF New, Send, Text, Counted
  <2> HIDE DEF q
  <2> QED
    BY <2>2, <2>3, BeginTexts
<1>7. CASE ContinueFailedTurn
  <2> DEFINE q == New({}, {}, "continue", "queue")
  <2>1. /\ q \in Send /\ q.text = {} /\ q.entry = {} /\ q.from = "continue"
        /\ q.at = "dispatch"
    BY DEF New, Send, Text, SendInv, FlagInv, Page, Counted
  <2>2. sends' = sends \cup {q} /\ UNCHANGED <<composer, queue, past>>
    BY <1>7 DEF ContinueFailedTurn
  <2> HIDE DEF q
  <2> QED
    BY <2>1, <2>2, BeginTexts
<1>8. CASE \/ \E ok \in BOOLEAN : StopAnswered(ok)
           \/ \E what \in {"edit", "revert"} : BackAnswered(what)
           \/ UndoAccepted \/ UndoRefused \/ \E failed \in BOOLEAN : UndoSettled(failed)
           \/ Acknowledged \/ GateOpens \/ Stop \/ Resume
           \/ EditUserMessage \/ (\E what \in {"revert", "undo"} : AskFirst(what))
           \/ Decline \/ Confirm
  <2>1. UNCHANGED <<composer, queue, sends, past>>
    BY <1>8 DEF StopAnswered, BackAnswered, UndoAccepted, UndoRefused, UndoSettled, Acknowledged,
                GateOpens, Stop, Resume, EditUserMessage, AskFirst, Decline, Confirm
  <2> QED
    BY <2>1, StillTexts
<1>9. CASE \/ TurnStarts \/ TurnKnown \/ TurnEnds \/ Connects
           \/ \E asks \in {"none", "review", "question"} : Asks(asks)
  <2>1. UNCHANGED <<composer, queue, sends, past>>
    BY <1>9 DEF TurnStarts, TurnKnown, TurnEnds, Connects, Asks, SessionChanges
  <2> QED
    BY <2>1, StillTexts
<1> QED
  BY <1>1, <1>2, <1>3, <1>4, <1>5, <1>6, <1>7, <1>8, <1>9 DEF Next, ByItself, ByUser

LEMMA AlwaysCounted == Spec => []Counted
<1>1. Init => Counted
  BY DEF Init, Counted
<1>2. Counted /\ [Next]_vars => Counted'
  BY DEF Next, vars, Counted
<1> QED
  BY <1>1, <1>2, PTL DEF Spec

LEMMA AlwaysTextInv == Spec => []TextInv
<1>1. Init => TextInv
  BY InitTexts
<1>2. SendInv /\ Counted /\ TextInv /\ [Next]_vars => TextInv'
  BY NextTexts
<1>3. Spec => []SendInv
  BY AlwaysComposeInv, PTL DEF ComposeInv
<1> QED
  BY <1>1, <1>2, <1>3, AlwaysCounted, PTL DEF Spec

\* Whatever the awaits of the sends, the queue and the user interleave: nothing
\* the user wrote vanishes (onSend's clear, its catch and its queue), but what was
\* written over a command that cleared the composer behind its await.
THEOREM TextNeverVanishes == Spec => []NothingVanishes
<1>1. TextInv => NothingVanishes
  BY DEF TextInv, KeptInv, Held, Left, Entries, NothingVanishes
<1> QED
  BY <1>1, AlwaysTextInv, PTL

\* The backend starts one turn at most with what the user wrote, as long as no
\* answer was late, nothing was taken back while it was being sent, and no command
\* went on to be sent after its text had left the composer.
THEOREM SentAtMostOnce == Spec => []SentOnce
<1>1. TextInv => SentOnce
  BY DEF TextInv, OnceInv, Once, SentOnce
<1> QED
  BY <1>1, AlwaysTextInv, PTL
================================================================================
