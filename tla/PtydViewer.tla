----------------------------- MODULE PtydViewer -----------------------------
(***************************************************************************)
(* The app's end of the terminal protocol, composed with the daemon: one   *)
(* connection per terminal view (TerminalSession, PtydClient), and the     *)
(* pipe that turns the daemon's lines into what the view shows             *)
(* (TerminalPipe).  A view says hello, perhaps creates its terminal, then  *)
(* opens it, by snapshot or by replay of the ring; events that arrive      *)
(* meanwhile are buffered, and later ones must follow without a gap.       *)
(***************************************************************************)
EXTENDS PtydDaemon

CONSTANTS
    Guest        \* the views of another Mac's terminal, which they only show

ASSUME GuestAssumption == Guest \subseteq Client

VARIABLES
    pipe         \* each connection's TerminalPipe

appVars == <<vars, pipe>>

\* `state` is the last state number, or NoState in a view opened by replay,
\* which follows output numbers only.
NoState == -1

\* `seq` is what the pipe has checked, `shown` the batches it has displayed.
NewPipe == [phase |-> "new", term |-> NoTerm, seq |-> 0, shown |-> 0, state |-> NoState,
            ended |-> FALSE, failed |-> FALSE, buffered |-> <<>>]

AppInit == Init /\ pipe = [c \in Client |-> NewPipe]

-----------------------------------------------------------------------------
(* TerminalPipe.                                                           *)

Fail(p) == [p EXCEPT !.failed = TRUE]

\* A batch goes to the screen.
Display(p, e) == [p EXCEPT !.seq = e.seq, !.shown = @ + 1]

\* Mutant of FollowOutput: output the replay already showed is shown again.
FollowOutputAgain(p, e) ==
    CASE e.kind = "data" /\ e.seq > p.seq + 1 -> Fail(p)
      [] e.kind = "data" /\ e.seq <= p.seq + 1 -> Display(p, e)
      [] e.kind = "exit" -> [p EXCEPT !.ended = TRUE]
      [] OTHER -> p

\* scheduleLocked, for a view opened by replay.
FollowOutput(p, e) ==
    CASE e.kind = "data" /\ e.seq > p.seq + 1 -> Fail(p)
      [] e.kind = "data" /\ e.seq = p.seq + 1 -> Display(p, e)
      [] e.kind = "exit" -> [p EXCEPT !.ended = TRUE]
      [] OTHER -> p

\* scheduleLocked, for a view opened by snapshot: every state number in turn,
\* and output numbers in step with them.
FollowState(p, e) ==
    LET next == e.state = p.state + 1
    IN  CASE e.kind = "exit" -> [p EXCEPT !.ended = TRUE]
          [] e.kind # "exit" /\ e.state <= p.state -> p
          [] next /\ e.kind = "state" /\ e.seq = p.seq -> [p EXCEPT !.state = e.state]
          [] next /\ e.kind = "data" /\ e.seq = p.seq + 1 -> [Display(p, e) EXCEPT !.state = e.state]
          [] OTHER -> Fail(p)

Schedule(p, e) ==
    IF p.failed THEN p
    ELSE IF p.state = NoState THEN FollowOutput(p, e) ELSE FollowState(p, e)

\* receive: events of other terminals are dropped, and those of this one wait
\* while the view is attaching.
ReceiveEvent(p, e) ==
    IF e.term # p.term \/ p.failed THEN p
    ELSE IF p.phase \in {"opening", "restoring"} THEN [p EXCEPT !.buffered = Append(@, e)]
    ELSE Schedule(p, e)

\* What was buffered, scheduled in order: the pipe after the first n events.
Scheduled(p) ==
    LET after[n \in 0..Len(p.buffered)] ==
            IF n = 0 THEN p ELSE Schedule(after[n - 1], p.buffered[n])
    IN  after

\* The end of either attach.
Opened(p) == [Scheduled(p)[Len(p.buffered)] EXCEPT !.phase = "live", !.buffered = <<>>]

\* A view whose request was refused, or whose replay is truncated, shows nothing more.
Closed == [NewPipe EXCEPT !.phase = "closed"]

\* The answer to the one request the view is waiting for.
ReceiveAnswer(p, a) ==
    CASE a.kind = "ok" /\ p.phase = "asking" -> [p EXCEPT !.phase = "greeted"]
      [] a.kind = "header" ->
            [p EXCEPT !.phase = "restoring", !.seq = a.seq, !.shown = a.seq, !.state = a.state]
      [] a.kind = "replay" /\ ~a.truncated -> Opened([p EXCEPT !.seq = a.seq, !.shown = a.seq])
      [] a.kind \in {"dead", "error"} \/ (a.kind = "replay" /\ a.truncated) -> Closed
      [] OTHER -> p

ReceiveLine(p, l) ==
    IF l.kind \in {"data", "state", "exit"} THEN ReceiveEvent(p, l) ELSE ReceiveAnswer(p, l)

-----------------------------------------------------------------------------
(* The connection.                                                         *)

\* A request is sent only once the last one has been answered, and only on a
\* connection the view has not closed.
Send(c, from, p) ==
    /\ conn[c] = "open" /\ pipe[c].phase = from /\ ~pipe[c].failed
    /\ pipe' = [pipe EXCEPT ![c] = p]

AppHello(c) ==
    /\ Send(c, "new", [pipe[c] EXCEPT !.phase = "asking"])
    /\ Hello(c, FALSE)

AppCreate(c, t) ==
    /\ c \notin Guest
    /\ Send(c, "greeted", [pipe[c] EXCEPT !.phase = "asking"])
    /\ Create(c, t)

\* The pipe is bound to the terminal before it is opened.
AppOpen(c, t) ==
    /\ io[t] # "unborn"
    /\ Send(c, "greeted", [pipe[c] EXCEPT !.phase = "opening", !.term = t])
    /\ SnapshotBegin(c, t) \/ Attach(c, t)

\* The view's size or colours: before it opens, and whenever they change.
AppChange(c, what) ==
    /\ c \notin Guest
    /\ \/ /\ Send(c, "live", pipe[c])
          /\ Change(c, pipe[c].term, what)
       \/ /\ Send(c, "greeted", [pipe[c] EXCEPT !.phase = "asking"])
          /\ \E t \in Term : io[t] # "unborn" /\ Change(c, t, what)

\* The socket has a line: a pipe that fails on it closes the connection.
Receive(c) ==
    /\ Deliver(c)
    /\ pipe' = [pipe EXCEPT ![c] = ReceiveLine(@, Head(outbox[c]))]

\* The snapshot has been downloaded and imported.
Restored(c) ==
    /\ Send(c, "restoring", Opened(pipe[c]))
    /\ UNCHANGED vars

\* The app gives a view up only once it has failed, was refused or had its history cut.
Close(c) ==
    /\ pipe[c].failed \/ pipe[c].phase = "closed"
    /\ Disconnect(c)
    /\ UNCHANGED pipe

AppStep(c) ==
    \/ AppHello(c)
    \/ \E t \in Term : AppCreate(c, t) \/ AppOpen(c, t)
    \/ \E what \in Changes : AppChange(c, what)
    \/ Receive(c) \/ Restored(c) \/ Close(c)

DaemonStep ==
    /\ \/ \E c \in Client : HandlerStep(c) \/ Connect(c) \/ StallElapses(c) \/ ReaderEnds(c)
       \/ Reap
       \/ \E t \in Term : IoThread(t)
    /\ UNCHANGED pipe

AppNext == DaemonStep \/ \E c \in Client : AppStep(c)

\* A view reads its socket, or STALL_DROP passes and it is dropped.
AppFairness ==
    /\ \A c \in Client : /\ WF_appVars(HandlerStep(c) /\ UNCHANGED pipe)
                         /\ WF_appVars(ReaderEnds(c) /\ UNCHANGED pipe)
                         /\ WF_appVars(Receive(c) \/ (StallElapses(c) /\ UNCHANGED pipe))
                         /\ WF_appVars(Restored(c))
    /\ WF_appVars(Reap /\ UNCHANGED pipe)
    /\ \A t \in Term : /\ WF_appVars(BroadcastOutput(t) /\ UNCHANGED pipe)
                       /\ WF_appVars(ApplyChange(t) /\ UNCHANGED pipe)
                       /\ WF_appVars(Teardown(t) /\ UNCHANGED pipe)

AppSpec == AppInit /\ [][AppNext]_appVars
FairAppSpec == AppSpec /\ AppFairness

-----------------------------------------------------------------------------
(* Properties.                                                             *)

Live(c) == pipe[c].phase = "live"

NotLive == [term |-> NoTerm, last |-> 0, ended |-> FALSE]

\* The views of the app as the abstract ones: open when the pipe is live.
Views == INSTANCE TerminalView WITH
    Viewer <- Client, Terminal <- Term, NotOpen <- NotLive,
    produced <- [t \in Term |-> ring[t].seq],
    finished <- {t \in Term : io[t] \notin {"unborn", "loop", "broadcast"}},
    shown <- [c \in Client |->
                IF Live(c)
                THEN [term |-> pipe[c].term, last |-> pipe[c].shown, ended |-> pipe[c].ended]
                ELSE NotLive]

\* The daemon and the pipe together keep the promise of TerminalView: replay
\* or snapshot, then every later batch exactly once, then the end.
ExactView == Views!Spec

\* An open view catches up with everything produced, unless it is dropped: it
\* never meets a gap in a terminal's numbers (TerminalPipe's "sequence gap;
\* reattachment required"), for a line that does not fit a client's budget costs
\* the client, never the line.  The exception is a terminal whose parser failed
\* during a resize, which took a number that was never announced.
CatchesUp ==
    \A c \in Client, t \in Term, n \in 1..MaxSeq :
        (Live(c) /\ pipe[c].term = t /\ ring[t].seq >= n)
            ~> \/ pipe[c].shown >= n \/ conn[c] # "open" \/ ~Live(c)
               \/ pipe[c].failed /\ ~ring[t].valid
=============================================================================
