----------------------------- MODULE ThreadScreen -----------------------------
(***************************************************************************)
(* What the chat page promises of the thread it shows (the header of         *)
(* web/chat/src/threadStream.ts): the screen holds exactly a beginning of    *)
(* the thread's events, and while the page stays on the thread it only goes  *)
(* forward.  A page that has just come to a thread, or whose copy of it       *)
(* something else replaced, promises nothing until its next snapshot.         *)
(***************************************************************************)
EXTENDS Integers

CONSTANTS Thread, NoThread, MaxSeq

VARIABLES
    on,    \* the thread on screen
    at     \* how many of its events the screen shows; Nothing when unknown

Nothing == -1

ScreenInit == on = NoThread /\ at = Nothing

Visit == \E t \in Thread \cup {NoThread} :
             on' = t /\ at' = Nothing

\* The first snapshot of a visit, whatever was shown of the thread before.
Open == /\ at = Nothing
        /\ on' \in Thread /\ (on = NoThread \/ on' = on)
        /\ at' \in 1..MaxSeq

Forward == /\ on # NoThread /\ at # Nothing
           /\ at' \in (at + 1)..MaxSeq
           /\ UNCHANGED on

Lose == at' = Nothing /\ UNCHANGED on

ScreenNext == Visit \/ Open \/ Forward \/ Lose

ScreenSpec == ScreenInit /\ [][ScreenNext]_<<on, at>>
=============================================================================
