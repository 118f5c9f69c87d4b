---------------------------- MODULE TerminalView ----------------------------
(***************************************************************************)
(* What the daemon promises those who view its terminals, without sockets, *)
(* rings or threads.  A terminal numbers its batches of output 1, 2, 3...  *)
(* until it finishes.  A view opens at some batch already produced, then   *)
(* shows every following one in turn, none missed and none twice; and it   *)
(* learns that the terminal ended only when it shows all the output.       *)
(***************************************************************************)
EXTENDS Integers

CONSTANTS Viewer, Terminal, NotOpen

VARIABLES
    produced,    \* the number of each terminal's last batch
    finished,    \* the terminals that produce no more
    shown        \* what each view shows: its terminal, the last batch, the end

view == <<produced, finished, shown>>

Showing(t, n, end) == [term |-> t, last |-> n, ended |-> end]

Init ==
    /\ produced = [t \in Terminal |-> 0]
    /\ finished = {}
    /\ shown = [v \in Viewer |-> NotOpen]

Produce(t) ==
    /\ t \notin finished
    /\ produced' = [produced EXCEPT ![t] = @ + 1]
    /\ UNCHANGED <<finished, shown>>

Finish(t) ==
    /\ finished' = finished \cup {t}
    /\ UNCHANGED <<produced, shown>>

Complete(t, n) == t \in finished /\ n = produced[t]

\* The view opens with the output so far, or all of it and the end.
Open(v, t) ==
    /\ shown[v] = NotOpen
    /\ \E n \in 0..produced[t], end \in {FALSE, TRUE} :
         /\ end => Complete(t, n)
         /\ shown' = [shown EXCEPT ![v] = Showing(t, n, end)]
    /\ UNCHANGED <<produced, finished>>

Show(v) ==
    /\ shown[v] # NotOpen
    /\ shown[v].last < produced[shown[v].term] /\ ~shown[v].ended
    /\ shown' = [shown EXCEPT ![v].last = @ + 1]
    /\ UNCHANGED <<produced, finished>>

End(v) ==
    /\ shown[v] # NotOpen
    /\ Complete(shown[v].term, shown[v].last)
    /\ shown' = [shown EXCEPT ![v].ended = TRUE]
    /\ UNCHANGED <<produced, finished>>

\* A view may be given up at any time.
Close(v) ==
    /\ shown[v] # NotOpen
    /\ shown' = [shown EXCEPT ![v] = NotOpen]
    /\ UNCHANGED <<produced, finished>>

Next ==
    \/ \E t \in Terminal : Produce(t) \/ Finish(t)
    \/ \E v \in Viewer : Show(v) \/ End(v) \/ Close(v) \/ \E t \in Terminal : Open(v, t)

Spec == Init /\ [][Next]_view
=============================================================================
