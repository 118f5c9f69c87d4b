-------------------------------- MODULE TurnDiff --------------------------------
(***************************************************************************)
(* The panel that draws a turn's diff over the chat (TurnDiffPanel.tsx), and *)
(* the checkpoint each of the user's messages goes back to                   *)
(* (ChatController.tsx, revertTurnCountByUserMessageId).  A checkpoint's     *)
(* number is used again once the thread went back before it, and a read      *)
(* patch is kept until a settled session makes it stale.                     *)
(*                                                                           *)
(* The patches themselves, the layout and the labels are left out.  What the *)
(* backend does to a thread and Synara's helpers under vendor/synara         *)
(* (DiffPanel.logic, session-logic, MessagesTimeline.logic,                  *)
(* providerReactQuery) are external.                                         *)
(***************************************************************************)
EXTENDS Naturals, SequencesExt

CONSTANTS
    MaxTurn,      \* bound: the turns of the thread
    MaxMessage,   \* bound: the messages it holds at once
    MaxRevision,  \* bound: the live revisions of a turn's patch
    MaxRead       \* bound: the patches kept or being read at once

ASSUME TurnDiffAssumption ==
    MaxTurn \in Nat /\ MaxMessage \in Nat /\ MaxRevision \in Nat /\ MaxRead \in Nat

VARIABLES
    messages,     \* the timeline's messages: whose each is
    turns,        \* how many turns have begun, and the one that runs
    checkpoints,  \* per summarised turn: its number and the revision of its patch
    panel,        \* what the panel shows, none when it is closed
    observed,     \* the query of the last render, which keeps its patch and reads it
    reads,        \* the patches read, by the query's key, and whether they are stale
    asked,        \* the keys the backend is to answer
    answers,      \* its answers on their way, by the key
    unsettled,    \* history: a checkpoint changed since a session was heard to settle
    missed        \* history: the keys of answers made before it and taken after it

readVars == <<reads, asked, answers, missed>>
turnDiffVars == <<messages, turns, checkpoints, panel, observed, readVars, unsettled>>

NoTurn == 0
Final == 0         \* the revision of a captured checkpoint
User == NoTurn     \* whose a message of the user is

TurnDiffInit ==
    /\ messages = <<>> /\ turns = [begun |-> 0, running |-> NoTurn]
    /\ checkpoints = <<>> /\ panel = {} /\ observed = {}
    /\ reads = {} /\ asked = {} /\ answers = {}
    /\ unsettled = FALSE /\ missed = {}

Counts(points) == {points[t].count : t \in DOMAIN points}
LatestCount(points) == Max(Counts(points) \cup {0})

-----------------------------------------------------------------------------
(* What a message goes back to.                                            *)

FromUser(i) == messages[i] = User

\* No message of the user between i and j, i excluded.
SameResponse(i, j) == \A k \in (i + 1)..j : ~FromUser(k)

AnswersOf(t) == {i \in DOMAIN messages : messages[i] = t}

\* buildTurnDiffSummaryByAssistantMessageId: a turn's summary is on the last
\* answer of the response its own last answer belongs to.
RowOf(t) == Max({j \in DOMAIN messages : j >= Max(AnswersOf(t)) /\ SameResponse(Max(AnswersOf(t)), j)})

SummarisedAt(j) == {t \in DOMAIN checkpoints : AnswersOf(t) # {} /\ RowOf(t) = j}

\* mergeTurnDiffSummaries: the number of the last captured one, or the last one's.
MergedCount(row) ==
    LET captured == {t \in row : checkpoints[t].revision = Final}
    IN  Max({checkpoints[t].count : t \in IF captured = {} THEN row ELSE captured})

\* revertTurnCountByUserMessageId: the count before the first summarised row of
\* the response to message i, if it has one.
RevertRows(i) == {j \in DOMAIN messages : j > i /\ SameResponse(i, j) /\ SummarisedAt(j) # {}}
\* Mutant of RevertTurnCount: the answering turn itself is kept.
RevertTurnCountIncluded(i) == MergedCount(SummarisedAt(Min(RevertRows(i))))

RevertTurnCount(i) == MergedCount(SummarisedAt(Min(RevertRows(i)))) - 1

Revertible == {i \in DOMAIN messages : FromUser(i) /\ RevertRows(i) # {}}

-----------------------------------------------------------------------------
(* The panel.                                                              *)

\* resolveSelectedTurnSummary: the selected turn, unless it is gone.
SelectedTurn(shows) == shows \cap DOMAIN checkpoints

\* Mutant of TurnQuery: the range alone is the key.
TurnQueryUnscoped(t) == [from |-> checkpoints[t].count - 1, to |-> checkpoints[t].count, scope |-> <<>>]

\* The query of the panel: the range of turn counts and the cache's scope; none
\* when there is nothing to read.
TurnQuery(t) == [from |-> checkpoints[t].count - 1, to |-> checkpoints[t].count,
                 scope |-> <<t, checkpoints[t].revision>>]
ThreadQuery == [from |-> 0, to |-> LatestCount(checkpoints), scope |-> <<>>]

Query ==
    IF panel = {} THEN {}
    ELSE IF SelectedTurn(panel) # {} THEN {TurnQuery(t) : t \in SelectedTurn(panel)}
    ELSE IF LatestCount(checkpoints) > 0 THEN {ThreadQuery} ELSE {}

\* What the backend answers: the patches of the turns of the range.
Patches(q) == {<<t, checkpoints[t].revision>> :
                  t \in {u \in DOMAIN checkpoints : checkpoints[u].count \in (q.from + 1)..q.to}}

\* The panel is opened on a turn's card, or its menu picks a turn or all of them.
Choose(t) ==
    /\ panel' = {t}
    /\ UNCHANGED <<messages, turns, checkpoints, observed, readVars, unsettled>>

OpenOrSelect == \E t \in DOMAIN checkpoints : Choose(t)
SelectAll == panel # {} /\ Choose(NoTurn)

ClosePanel ==
    /\ panel # {} /\ panel' = {}
    /\ UNCHANGED <<messages, turns, checkpoints, observed, readVars, unsettled>>

\* The panel is rendered for what it shows and what the checkpoints are by now.
Rendered ==
    /\ observed # Query /\ observed' = Query
    /\ UNCHANGED <<messages, turns, checkpoints, panel, readVars, unsettled>>

ReadKeys == {r.key : r \in reads}
UnderWay == asked \cup {a.key : a \in answers}

\* useQuery: a patch not read yet, or marked stale, is read, unless it is being.
Fetches ==
    /\ \E q \in observed \ UnderWay :
          /\ \A r \in reads : r.key = q => r.stale
          /\ Cardinality(UnderWay \cup ReadKeys \cup {q}) <= MaxRead
          /\ asked' = asked \cup {q} /\ missed' = missed \ {q}
    /\ UNCHANGED <<messages, turns, checkpoints, panel, observed, reads, answers, unsettled>>

\* The backend answers, of the checkpoints it has by then.
BackendAnswers(q) ==
    /\ asked' = asked \ {q}
    /\ answers' = answers \cup {[key |-> q, got |-> Patches(q)]}
    /\ UNCHANGED <<messages, turns, checkpoints, panel, observed, reads, unsettled, missed>>

\* The answer is taken: fresh, whatever was marked stale while it was under way.
\* With no turn in the range it is an error, which leaves what there was stale.
Fetched(a) ==
    /\ answers' = {b \in answers : b.key # a.key}
    /\ reads' =
          IF a.got = {}
          THEN {[r EXCEPT !.stale = r.stale \/ r.key = a.key] : r \in reads}
          ELSE {r \in reads : r.key # a.key} \cup {[key |-> a.key, got |-> a.got, stale |-> FALSE]}
    /\ missed' = IF a.got = {} THEN missed \ {a.key} ELSE missed
    /\ UNCHANGED <<messages, turns, checkpoints, panel, observed, asked, unsettled>>

\* A patch nobody draws or reads is dropped from the cache, a live one at once.
Collected ==
    /\ \E r \in reads :
          /\ r.key \notin observed \cup UnderWay
          /\ reads' = {s \in reads : s.key # r.key} /\ missed' = missed \ {r.key}
    /\ UNCHANGED <<messages, turns, checkpoints, panel, observed, asked, answers, unsettled>>

-----------------------------------------------------------------------------
(* What happens to the thread.                                             *)

Say(who) ==
    /\ Len(messages) < MaxMessage
    /\ messages' = Append(messages, who)
    /\ UNCHANGED <<turns, checkpoints, panel, observed, readVars, unsettled>>

UserSays == Say(User)
Answers == turns.running # NoTurn /\ Say(turns.running)

TurnBegins ==
    /\ turns.running = NoTurn /\ turns.begun < MaxTurn
    /\ turns' = [begun |-> turns.begun + 1, running |-> turns.begun + 1]
    /\ UNCHANGED <<messages, checkpoints, panel, observed, readVars, unsettled>>

\* The number of a turn's checkpoint: the one it has, or the next.
CountOf(t) == IF t \in DOMAIN checkpoints THEN checkpoints[t].count
                                          ELSE LatestCount(checkpoints) + 1

Summarise(t, revision) ==
    /\ checkpoints' = [u \in DOMAIN checkpoints \cup {t} |->
                          IF u = t THEN [count |-> CountOf(t), revision |-> revision]
                                   ELSE checkpoints[u]]
    /\ unsettled' = TRUE
    /\ UNCHANGED <<messages, panel, observed, readVars>>

\* The provider sends the running turn's patch so far.
LivePatch ==
    LET t == turns.running
    IN  /\ t # NoTurn
        /\ \E revision \in 1..MaxRevision :
              /\ t \in DOMAIN checkpoints => revision = checkpoints[t].revision + 1
              /\ t \notin DOMAIN checkpoints => revision = 1
              /\ Summarise(t, revision)
        /\ UNCHANGED turns

\* The turn is over and its checkpoint captured, before another begins.
TurnCaptured ==
    /\ turns.running # NoTurn
    /\ Summarise(turns.running, Final)
    /\ turns' = [turns EXCEPT !.running = NoTurn]

\* Mutant of SessionSettles: what was read stays.
SessionSettlesQuietly ==
    /\ unsettled' = FALSE
    /\ UNCHANGED <<messages, turns, checkpoints, panel, observed, readVars>>

\* flush of a session that does not run (threadStream.ts): what the provider was
\* asked for is stale, and the query drawn, once it has a patch, is read anew: of
\* a read under way the answer is dropped.  A first read goes on as it is.
SessionSettles ==
    /\ LET anew == observed \cap ReadKeys
       IN  /\ asked' = asked \cup anew
           /\ answers' = {a \in answers : a.key \notin anew}
           /\ missed' = (missed \cup {a.key : a \in answers}) \ anew
    /\ reads' = {[r EXCEPT !.stale = TRUE] : r \in reads}
    /\ unsettled' = FALSE
    /\ UNCHANGED <<messages, turns, checkpoints, panel, observed>>

\* The thread goes back to n checkpoints: the later ones and their answers go,
\* and of the user's messages the first n stay.
NthOfUser(i) == Cardinality({j \in 1..i : FromUser(j)})
Kept(i, kept, n) == IF FromUser(i) THEN NthOfUser(i) <= n ELSE messages[i] \in kept

\* The k-th of a set of places.
Nth(places, k) == CHOOSE i \in places : Cardinality({j \in places : j <= i}) = k

Retained(kept, n) ==
    LET stay == {i \in DOMAIN messages : Kept(i, kept, n)}
    IN  [k \in 1..Cardinality(stay) |-> messages[Nth(stay, k)]]

GoesBack ==
    /\ turns.running = NoTurn
    /\ \E i \in Revertible :
          LET n == RevertTurnCount(i)
              kept == {t \in DOMAIN checkpoints : checkpoints[t].count <= n}
          IN  /\ checkpoints' = [t \in kept |-> checkpoints[t]]
              /\ messages' = Retained(kept, n)
    /\ unsettled' = TRUE
    /\ UNCHANGED <<turns, panel, observed, readVars>>

TurnDiffNext ==
    \/ OpenOrSelect \/ SelectAll \/ ClosePanel
    \/ Rendered \/ Fetches \/ Collected
    \/ \E q \in asked : BackendAnswers(q)
    \/ \E a \in answers : Fetched(a)
    \/ UserSays \/ Answers \/ TurnBegins \/ LivePatch \/ TurnCaptured
    \/ SessionSettles \/ GoesBack

TurnDiffSpec == TurnDiffInit /\ [][TurnDiffNext]_turnDiffVars

-----------------------------------------------------------------------------
(* Properties                                                              *)

\* The patch drawn for a selected turn is that turn's and its latest revision,
\* though another turn of the same number may have been read before.
TurnDrawnItsOwn ==
    \A t \in SelectedTurn(panel) : \A r \in reads :
        r.key = TurnQuery(t) => r.got = {<<t, checkpoints[t].revision>>}

\* Once a session was heard to settle after the last change of the checkpoints,
\* a patch that is not stale is the one the backend has: the thread's own key,
\* which a thread that went back uses again, included.  The one read a settled
\* session does not reach is one whose answer was made before it and which was
\* then the key's first, or of a key not drawn: it is taken as fresh, and stays
\* so until that key is read again.
FreshOnceSettled ==
    ~unsettled =>
        \A q \in Query \ missed, r \in reads :
            r.key = q /\ ~r.stale => r.got = Patches(q)

\* Going back to a message undoes the turn that answered it and every later one,
\* and keeps those that were over before it, unless several turns answered it
\* in one row: the row then carries the last one's number.
RevertUndoesAnswers ==
    \A i \in Revertible :
        Cardinality(SummarisedAt(Min(RevertRows(i)))) = 1 =>
            \A t \in DOMAIN checkpoints : AnswersOf(t) # {} =>
                /\ Min(AnswersOf(t)) > i => checkpoints[t].count > RevertTurnCount(i)
                /\ RowOf(t) < i => checkpoints[t].count <= RevertTurnCount(i)

\* The panel draws, and the timeline takes back, what the turn chosen says.
TurnDiffHonest == TurnDrawnItsOwn /\ FreshOnceSettled /\ RevertUndoesAnswers
=============================================================================
