--------------------------- MODULE PtydFlowProofs ---------------------------
(***************************************************************************)
(* Proofs about PtydFlow, for any clients, terminals and limits: wakeups   *)
(* are not lost, pauses have owners, and a backlog of output is bounded.   *)
(***************************************************************************)
EXTENDS PtydFlow, FiniteSetTheorems, TLAPS

\* The terminals client c hears whose thread has been let past the backlog check
\* and has not yet sent the batch it may read.
Armed(c) == {t \in HeardBy(c) : io[t] \in {"poll", "read"} /\ interest[t]}

\* A thread reads because it asked for output or because of a hangup.
ReadWanted == \A t \in Term : io[t] = "read" => interest[t] \/ t \in hungUp

\* What a client is owed fits its budget, and what of it is output leaves room for a
\* batch of every thread armed for it.
InBudget == \A c \in Client : output[c] <= owed[c] /\ owed[c] <= OutboxMax

RoomLeft ==
    \A c \in clients :
        HeardBy(c) \cap hungUp = {} =>
            output[c] + BatchMax * Cardinality(Armed(c))
                <= High + BatchMax * Cardinality(HeardBy(c))

Steady == TypeOK /\ NoLostWakeup /\ PauseHasOwner /\ ReadWanted /\ InBudget /\ RoomLeft

-----------------------------------------------------------------------------
\* Fewer armed threads need less room.
LEMMA FewerNeedLess ==
    ASSUME NEW S, NEW T, T \subseteq S, IsFiniteSet(S)
    PROVE  /\ Cardinality(T) \in Nat /\ Cardinality(S) \in Nat
           /\ BatchMax * Cardinality(T) \in Nat
           /\ BatchMax * Cardinality(S) \in Nat
           /\ BatchMax * Cardinality(T) <= BatchMax * Cardinality(S)
  <1>1. /\ IsFiniteSet(T)
        /\ Cardinality(T) \in Nat /\ Cardinality(S) \in Nat
        /\ Cardinality(T) <= Cardinality(S)
    BY FS_Subset, FS_CardinalityType
  <1>2. \A a, b, k \in Nat : a <= b => k * a \in Nat /\ k * b \in Nat /\ k * a <= k * b
    OBVIOUS
  <1> QED
    BY <1>1, <1>2, LimitsAssumption

\* A thread that is done with its batch frees the room of one.
LEMMA OneLessFreesABatch ==
    ASSUME NEW S, NEW t \in S, IsFiniteSet(S)
    PROVE  BatchMax * Cardinality(S) = BatchMax * Cardinality(S \ {t}) + BatchMax
  <1>1. /\ Cardinality(S) \in Nat /\ Cardinality(S \ {t}) \in Nat
        /\ Cardinality(S \ {t}) = Cardinality(S) - 1
    BY FS_RemoveElement, FS_CardinalityType
  <1>2. \A a, k \in Nat : k * (a + 1) = k * a + k
    OBVIOUS
  <1> QED
    BY <1>1, <1>2, LimitsAssumption

\* A client hears finitely many terminals.
LEMMA HeardFinite == \A c : IsFiniteSet(HeardBy(c))
  BY FS_Subset, LimitsAssumption DEF HeardBy

\* Leaving the list keeps the types of what is kept of clients.
LEMMA DropTyped ==
    ASSUME TypeOK, NEW dropped \in SUBSET clients,
           NEW owing \in [Client -> Nat], NEW out \in [Client -> Nat],
           Drop(dropped, owing, out)
    PROVE  /\ clients' \subseteq Client
           /\ conn' \in [Client -> {"open", "shut", "leaving", "gone"}]
           /\ owed' \in [Client -> Nat] /\ output' \in [Client -> Nat]
           /\ stalled' \subseteq Client
           /\ \A c \in Client : conn[c] # "gone" => conn'[c] # "gone"
           /\ \A c \in clients' : /\ c \in clients \ dropped
                                 /\ owed'[c] = owing[c] /\ output'[c] = out[c]
           /\ \A c \in Client : \/ owed'[c] = 0 /\ output'[c] = 0
                                \/ owed'[c] = owing[c] /\ output'[c] = out[c]
  BY DEF TypeOK, Drop

\* A broadcast keeps them too, adds to those that hear t only, and only what fits.
LEMMA BroadcastTyped ==
    ASSUME TypeOK, InBudget, NEW t \in Term, NEW n \in Nat, NEW k \in Nat, k <= n,
           Broadcast(t, n, k)
    PROVE  /\ clients' \subseteq Client
           /\ conn' \in [Client -> {"open", "shut", "leaving", "gone"}]
           /\ owed' \in [Client -> Nat] /\ output' \in [Client -> Nat]
           /\ stalled' \subseteq Client
           /\ \A c \in Client : conn[c] # "gone" => conn'[c] # "gone"
           /\ clients' \subseteq clients
           /\ \A c \in clients' :
                output'[c] = IF Hears(c, t) THEN output[c] + k ELSE output[c]
           /\ InBudget'
  <1> DEFINE dropped == {c \in Hearers(t) : Refuses(c, n)}
             owing == More(owed, t, n)
             out == More(output, t, k)
  <1>1. Drop(dropped, owing, out)
    BY DEF Broadcast
  <1>2. dropped \in SUBSET clients
    BY DEF Hearers
  <1>3. owing \in [Client -> Nat] /\ out \in [Client -> Nat]
    BY DEF More, TypeOK
  <1>4. /\ clients' \subseteq Client
        /\ conn' \in [Client -> {"open", "shut", "leaving", "gone"}]
        /\ owed' \in [Client -> Nat] /\ output' \in [Client -> Nat]
        /\ stalled' \subseteq Client
        /\ \A c \in Client : conn[c] # "gone" => conn'[c] # "gone"
        /\ \A c \in clients' : c \in clients \ dropped /\ output'[c] = out[c]
    <2> HIDE DEF owing, out, dropped
    <2>1. /\ clients' \subseteq Client
          /\ conn' \in [Client -> {"open", "shut", "leaving", "gone"}]
          /\ owed' \in [Client -> Nat] /\ output' \in [Client -> Nat]
          /\ stalled' \subseteq Client
      BY <1>1, <1>2, <1>3, DropTyped
    <2>2. \A c \in Client : conn[c] # "gone" => conn'[c] # "gone"
      BY <1>1, <1>2, <1>3, DropTyped
    <2>3. \A c \in clients' : c \in clients \ dropped /\ output'[c] = out[c]
      BY <1>1 DEF Drop, TypeOK
    <2> QED
      BY <2>1, <2>2, <2>3
  <1>5. \A c \in clients' : output'[c] = IF Hears(c, t) THEN output[c] + k ELSE output[c]
    BY <1>4 DEF More, Hearers, TypeOK
  <1>6. ASSUME NEW c \in Client PROVE output'[c] <= owed'[c] /\ owed'[c] <= OutboxMax
    <2>1. CASE c \in dropped
      BY <2>1, <1>1, LimitsAssumption DEF Drop
    <2>2. CASE c \notin dropped /\ c \in Hearers(t)
      <3>1. owed'[c] = owed[c] + n /\ output'[c] = output[c] + k
        BY <2>2, <1>1 DEF Drop, More
      <3>2. owed[c] + n <= OutboxMax
        BY <2>2, LimitsAssumption DEF Refuses, TypeOK
      <3> QED
        BY <3>1, <3>2, LimitsAssumption DEF InBudget, TypeOK
    <2>3. CASE c \notin dropped /\ c \notin Hearers(t)
      BY <2>3, <1>1 DEF Drop, More, InBudget
    <2> QED
      BY <2>1, <2>2, <2>3
  <1> QED
    BY <1>4, <1>5, <1>6 DEF InBudget

-----------------------------------------------------------------------------
\* Every step keeps the types.
LEMMA NextTyped == TypeOK /\ InBudget /\ [Next]_vars => TypeOK'
  <1> SUFFICES ASSUME TypeOK, InBudget, [Next]_vars PROVE TypeOK'
    OBVIOUS
  <1>1. ASSUME NEW t \in Term, ShellWrites(t) PROVE TypeOK'
    BY <1>1, LimitsAssumption DEF ShellWrites, TypeOK, pauseVars, clientVars
  <1>2. ASSUME NEW t \in Term, HangsUp(t) PROVE TypeOK'
    BY <1>2 DEF HangsUp, TypeOK, pauseVars, clientVars
  <1>3. ASSUME NEW t \in Term, Arm(t) PROVE TypeOK'
    <2>1. Drop(clients \cap stalled, owed, output)
      BY <1>3 DEF Arm
    <2>2. /\ clients' \subseteq Client
          /\ conn' \in [Client -> {"open", "shut", "leaving", "gone"}]
          /\ owed' \in [Client -> Nat] /\ output' \in [Client -> Nat]
          /\ stalled' \subseteq Client
      BY <2>1, DropTyped DEF TypeOK
    <2> DEFINE owing == {owed[c] : c \in {d \in clients \ stalled : Hears(d, t)}}
               pausing == \E n \in owing : IF backlogPaused[t] THEN n >= Low ELSE n > High
    <2>3. /\ io' = [io EXCEPT ![t] = "poll"]
          /\ backlogPaused' = [backlogPaused EXCEPT ![t] = pausing]
          /\ interest' = [interest EXCEPT ![t] = ~paused[t] /\ ~pausing]
          /\ UNCHANGED <<unread, hungUp, pauseVars>>
      BY <1>3 DEF Arm
    <2>4. pausing \in BOOLEAN /\ (~paused[t] /\ ~pausing) \in BOOLEAN
      OBVIOUS
    <2> HIDE DEF pausing
    <2> QED
      BY <2>2, <2>3, <2>4 DEF TypeOK, pauseVars
  <1>4. ASSUME NEW t \in Term, PollReturns(t) PROVE TypeOK'
    BY <1>4 DEF PollReturns, GoesOn, TypeOK, clientVars
  <1>5. ASSUME NEW t \in Term, ReadBatch(t) PROVE TypeOK'
    <2>1. PICK n \in 1..BatchMax :
             /\ n <= unread[t]
             /\ unread' = [unread EXCEPT ![t] = @ - n]
             /\ Broadcast(t, n, n)
      BY <1>5 DEF ReadBatch
    <2>2. n \in Nat /\ BatchMax \in Nat
      BY LimitsAssumption
    <2>3. /\ clients' \subseteq Client
          /\ conn' \in [Client -> {"open", "shut", "leaving", "gone"}]
          /\ owed' \in [Client -> Nat] /\ output' \in [Client -> Nat]
          /\ stalled' \subseteq Client
      BY <2>1, <2>2, BroadcastTyped
    <2>4. unread' \in [Term -> 0..TtyMax]
      BY <2>1, <2>2, LimitsAssumption DEF TypeOK
    <2> QED
      BY <1>5, <2>3, <2>4 DEF ReadBatch, TypeOK, pauseVars
  <1>5a. ASSUME NEW t \in Term, Announces(t) \/ AnnounceExit(t) PROVE TypeOK'
    <2>1. PICK n \in 1..LineMax : Broadcast(t, n, 0)
      BY <1>5a DEF Announces, AnnounceExit
    <2>2. n \in Nat /\ 0 <= n
      BY LimitsAssumption
    <2>3. /\ clients' \subseteq Client
          /\ conn' \in [Client -> {"open", "shut", "leaving", "gone"}]
          /\ owed' \in [Client -> Nat] /\ output' \in [Client -> Nat]
          /\ stalled' \subseteq Client
      BY <2>1, <2>2, BroadcastTyped
    <2> QED
      BY <1>5a, <2>3 DEF Announces, AnnounceExit, TypeOK, termVars, pauseVars
  <1>6. ASSUME NEW t \in Term, Ends(t) PROVE TypeOK'
    BY <1>6 DEF Ends, TypeOK, clientVars
  <1>7. ASSUME NEW c \in Client, NEW t \in Term, Attach(c, t) PROVE TypeOK'
    BY <1>7 DEF Attach, SetOwners, TypeOK, termVars, clientVars
  <1>8. ASSUME NEW c \in Client, NEW t \in Term, NEW pause \in BOOLEAN, Flow(c, t, pause)
        PROVE  TypeOK'
    BY <1>8 DEF Flow, SetOwners, TypeOK, termVars, clientVars
  <1>9. ASSUME NEW c \in Client, Sent(c) PROVE TypeOK'
    BY <1>9 DEF Sent, TypeOK, termVars, pauseVars
  <1>9a. ASSUME NEW c \in Client, Reply(c) PROVE TypeOK'
    <2>1. \A n \in 1..LineMax : n \in Nat
      BY LimitsAssumption
    <2> QED
      BY <1>9a, <2>1 DEF Reply, TypeOK, termVars, pauseVars
  <1>10. ASSUME NEW c \in Client, StallElapses(c) PROVE TypeOK'
    BY <1>10 DEF StallElapses, TypeOK, termVars, pauseVars
  <1>11. ASSUME NEW c \in Client, Disconnect(c) PROVE TypeOK'
    BY <1>11 DEF Disconnect, TypeOK, termVars, pauseVars
  <1>12. ASSUME NEW c \in Client, ReaderEnds(c) PROVE TypeOK'
    BY <1>12 DEF ReaderEnds, TypeOK, termVars, pauseVars
  <1>13. ASSUME NEW c \in Client, PausesEnd(c) PROVE TypeOK'
    BY <1>13 DEF PausesEnd, TypeOK, termVars
  <1>14. ASSUME Reap PROVE TypeOK'
    <2>1. Drop(stalled, owed, output) /\ UNCHANGED <<termVars, pauseVars>>
      BY <1>14 DEF Reap
    <2> QED
      BY <2>1 DEF Drop, TypeOK, termVars, pauseVars
  <1>15. CASE UNCHANGED vars
    BY <1>15 DEF TypeOK, vars, termVars, pauseVars, clientVars
  <1> QED
    BY <1>1, <1>2, <1>3, <1>4, <1>5, <1>5a, <1>6, <1>7, <1>8, <1>9, <1>9a, <1>10, <1>11,
       <1>12, <1>13, <1>14, <1>15
    DEF Next, IoThread, ReaderLeaves

-----------------------------------------------------------------------------
\* No step loses a wakeup: what ends a pause pokes the thread, and what puts a
\* thread to sleep has just read the flag.
LEMMA NextKeepsWakeups ==
    TypeOK /\ NoLostWakeup /\ [Next]_vars => NoLostWakeup'
  <1> SUFFICES ASSUME TypeOK, NoLostWakeup, [Next]_vars PROVE NoLostWakeup'
    OBVIOUS
  <1> USE DEF NoLostWakeup, TypeOK
  <1>1. ASSUME NEW t \in Term, ShellWrites(t) \/ HangsUp(t) PROVE NoLostWakeup'
    BY <1>1 DEF ShellWrites, HangsUp, pauseVars
  <1>2. ASSUME NEW t \in Term, Arm(t) PROVE NoLostWakeup'
    <2> DEFINE owing == {owed[c] : c \in {d \in clients \ stalled : Hears(d, t)}}
               pausing == \E n \in owing : IF backlogPaused[t] THEN n >= Low ELSE n > High
    <2>1. /\ io' = [io EXCEPT ![t] = "poll"]
          /\ backlogPaused' = [backlogPaused EXCEPT ![t] = pausing]
          /\ interest' = [interest EXCEPT ![t] = ~paused[t] /\ ~pausing]
          /\ UNCHANGED pauseVars
      BY <1>2 DEF Arm
    <2> HIDE DEF pausing
    <2>2. ~interest'[t] /\ ~backlogPaused'[t] => paused[t]
      BY <2>1
    <2>3. \A u \in Term \ {t} : /\ io'[u] = io[u] /\ interest'[u] = interest[u]
                                /\ backlogPaused'[u] = backlogPaused[u]
      BY <2>1
    <2> QED
      BY <2>1, <2>2, <2>3 DEF pauseVars
  <1>3. ASSUME NEW t \in Term, 
               PollReturns(t) \/ ReadBatch(t) \/ Announces(t) \/ Ends(t) \/ AnnounceExit(t)
        PROVE  NoLostWakeup'
    BY <1>3 DEF PollReturns, GoesOn, ReadBatch, Announces, Ends, AnnounceExit, termVars, pauseVars
  <1>4. ASSUME NEW c \in Client, NEW t \in Term,
               Attach(c, t) \/ \E pause \in BOOLEAN : Flow(c, t, pause)
        PROVE  NoLostWakeup'
    BY <1>4 DEF Attach, Flow, SetOwners, termVars
  <1>5. ASSUME NEW c \in Client,
               Reply(c) \/ Sent(c) \/ StallElapses(c) \/ Disconnect(c) \/ ReaderEnds(c)
        PROVE  NoLostWakeup'
    BY <1>5 DEF Reply, Sent, StallElapses, Disconnect, ReaderEnds, termVars, pauseVars
  <1>6. ASSUME NEW c \in Client, PausesEnd(c) PROVE NoLostWakeup'
    BY <1>6 DEF PausesEnd, termVars
  <1>7. ASSUME Reap PROVE NoLostWakeup'
    BY <1>7 DEF Reap, termVars, pauseVars
  <1>8. CASE UNCHANGED vars
    BY <1>8 DEF vars, termVars, pauseVars
  <1> QED
    BY <1>1, <1>2, <1>3, <1>4, <1>5, <1>6, <1>7, <1>8 DEF Next, IoThread, ReaderLeaves

\* No step leaves a pause without an owner that can release it.
LEMMA NextKeepsOwners ==
    TypeOK /\ InBudget /\ PauseHasOwner /\ [Next]_vars => PauseHasOwner'
  <1> SUFFICES ASSUME TypeOK, InBudget, PauseHasOwner, [Next]_vars PROVE PauseHasOwner'
    OBVIOUS
  <1> USE DEF PauseHasOwner, TypeOK, Registered
  <1>1. ASSUME NEW t \in Term, ShellWrites(t) \/ HangsUp(t) \/ PollReturns(t) \/ Ends(t)
        PROVE  PauseHasOwner'
    BY <1>1 DEF ShellWrites, HangsUp, PollReturns, GoesOn, Ends, pauseVars, clientVars
  <1>2. ASSUME NEW t \in Term, Arm(t) PROVE PauseHasOwner'
    BY <1>2 DEF Arm, Drop, pauseVars
  <1>3. ASSUME NEW t \in Term, ReadBatch(t) \/ Announces(t) \/ AnnounceExit(t)
        PROVE  PauseHasOwner'
    BY <1>3 DEF ReadBatch, Announces, AnnounceExit, Broadcast, Drop, termVars, pauseVars
  <1>4. ASSUME NEW c \in Client, NEW t \in Term,
               Attach(c, t) \/ \E pause \in BOOLEAN : Flow(c, t, pause)
        PROVE  PauseHasOwner'
    <2>1. ASSUME NEW owners \in SUBSET Client, SetOwners(t, owners),
                 owners \subseteq pauseOwners[t] \cup {c},
                 conn[c] # "gone", Registered(t), UNCHANGED <<io, conn>>
          PROVE  PauseHasOwner'
      BY <2>1 DEF SetOwners
    <2>2. conn[c] # "gone" /\ Registered(t) /\ UNCHANGED <<io, conn>>
      BY <1>4 DEF Attach, Flow, Reading, termVars, clientVars
    <2>3. \/ SetOwners(t, pauseOwners[t] \cup {c})
          \/ SetOwners(t, pauseOwners[t] \ {c})
      BY <1>4 DEF Attach, Flow
    <2> QED
      BY <2>1, <2>2, <2>3
  <1>5. ASSUME NEW c \in Client,
               Reply(c) \/ Sent(c) \/ StallElapses(c) \/ Disconnect(c) \/ ReaderEnds(c)
        PROVE  PauseHasOwner'
    BY <1>5 DEF Reply, Reading, Sent, StallElapses, Disconnect, ReaderEnds, termVars, pauseVars
  <1>6. ASSUME NEW c \in Client, PausesEnd(c) PROVE PauseHasOwner'
    BY <1>6 DEF PausesEnd, termVars
  <1>7. ASSUME Reap PROVE PauseHasOwner'
    BY <1>7 DEF Reap, Drop, termVars, pauseVars
  <1>8. CASE UNCHANGED vars
    BY <1>8 DEF vars, termVars, pauseVars, clientVars
  <1> QED
    BY <1>1, <1>2, <1>3, <1>4, <1>5, <1>6, <1>7, <1>8 DEF Next, IoThread, ReaderLeaves

\* A thread reads for a reason.
LEMMA NextReadsWanted == TypeOK /\ ReadWanted /\ [Next]_vars => ReadWanted'
  <1> SUFFICES ASSUME TypeOK, ReadWanted, [Next]_vars PROVE ReadWanted'
    OBVIOUS
  <1> USE DEF ReadWanted, TypeOK
  <1>1. ASSUME NEW t \in Term, ShellWrites(t) \/ HangsUp(t) PROVE ReadWanted'
    BY <1>1 DEF ShellWrites, HangsUp
  <1>2. ASSUME NEW t \in Term, Arm(t) PROVE ReadWanted'
    BY <1>2 DEF Arm
  <1>3. ASSUME NEW t \in Term, PollReturns(t) PROVE ReadWanted'
    BY <1>3 DEF PollReturns, GoesOn, Readable
  <1>4. ASSUME NEW t \in Term, ReadBatch(t) \/ Ends(t) \/ AnnounceExit(t) PROVE ReadWanted'
    BY <1>4 DEF ReadBatch, Ends, AnnounceExit
  <1>5. ASSUME UNCHANGED termVars PROVE ReadWanted'
    BY <1>5 DEF termVars
  <1> QED
    BY <1>1, <1>2, <1>3, <1>4, <1>5
    DEF Next, IoThread, ReaderLeaves, Announces, Reply, Sent, StallElapses, Disconnect, ReaderEnds,
        PausesEnd, Attach, Flow, Reap, vars

-----------------------------------------------------------------------------
\* A client stays within its room when it is owed no more output, is still listed, and
\* no thread is newly armed for it.
LEMMA RoomKept ==
    ASSUME TypeOK, RoomLeft, NEW c \in clients,
           output'[c] \in Nat, output'[c] <= output[c],
           Armed(c)' \subseteq Armed(c), hungUp \subseteq hungUp'
    PROVE  HeardBy(c) \cap hungUp' = {} =>
               output'[c] + BatchMax * Cardinality(Armed(c)')
                   <= High + BatchMax * Cardinality(HeardBy(c))
  <1>1. /\ IsFiniteSet(HeardBy(c)) /\ IsFiniteSet(Armed(c))
        /\ Armed(c) \subseteq HeardBy(c)
    BY HeardFinite, FS_Subset DEF Armed
  <1>2. /\ BatchMax * Cardinality(Armed(c)') \in Nat
        /\ BatchMax * Cardinality(Armed(c)) \in Nat
        /\ BatchMax * Cardinality(Armed(c)') <= BatchMax * Cardinality(Armed(c))
    BY <1>1, FewerNeedLess
  <1>3. BatchMax * Cardinality(HeardBy(c)) \in Nat
    BY <1>1, FewerNeedLess
  <1>4. output[c] \in Nat /\ High \in Nat
    BY LimitsAssumption DEF TypeOK
  <1>5. HeardBy(c) \cap hungUp' = {} =>
            output[c] + BatchMax * Cardinality(Armed(c))
                <= High + BatchMax * Cardinality(HeardBy(c))
    BY DEF RoomLeft
  <1> HIDE DEF Armed
  <1> QED
    BY <1>2, <1>3, <1>4, <1>5

\* Arming a thread: only while every client that hears it owes High at most, and
\* then there is room for a batch of every terminal it hears.
LEMMA ArmKeepsRoom ==
    ASSUME TypeOK, InBudget, RoomLeft, NEW t \in Term, Arm(t)
    PROVE  RoomLeft'
  <1> DEFINE left == clients \ stalled
             owing == {owed[c] : c \in {d \in left : Hears(d, t)}}
             pausing == \E n \in owing : IF backlogPaused[t] THEN n >= Low ELSE n > High
  <1>1. /\ Drop(clients \cap stalled, owed, output)
        /\ io[t] = "top"
        /\ io' = [io EXCEPT ![t] = "poll"]
        /\ interest' = [interest EXCEPT ![t] = ~paused[t] /\ ~pausing]
        /\ hungUp' = hungUp
    BY DEF Arm
  <1>2. /\ owed \in [Client -> Nat] /\ output \in [Client -> Nat] /\ clients \subseteq Client
        /\ output' \in [Client -> Nat]
        /\ \A c \in clients' : c \in left /\ output'[c] = output[c]
    <2>1. owed \in [Client -> Nat] /\ output \in [Client -> Nat] /\ clients \subseteq Client
      BY DEF TypeOK
    <2>2. output' \in [Client -> Nat]
      BY <2>1, <1>1, DropTyped
    <2>3. \A c \in clients' : c \in left /\ output'[c] = output[c]
      BY <2>1, <1>1 DEF Drop
    <2> QED
      BY <2>1, <2>2, <2>3
  <1> SUFFICES ASSUME NEW c \in clients', HeardBy(c) \cap hungUp = {}
               PROVE  output'[c] + BatchMax * Cardinality(Armed(c)')
                          <= High + BatchMax * Cardinality(HeardBy(c))
    BY <1>1 DEF RoomLeft, HeardBy, Hears
  <1>3. /\ c \in clients /\ c \in left /\ output'[c] = output[c]
        /\ output[c] \in Nat /\ owed[c] \in Nat /\ output[c] <= owed[c]
    BY <1>2 DEF InBudget
  <1>4. CASE t \in HeardBy(c) /\ interest'[t]
    <2>1. ~pausing
      BY <1>1, <1>4 DEF TypeOK
    <2>2. owed[c] \in owing
      BY <1>3, <1>4 DEF HeardBy
    <2>3. output[c] <= High
      BY <2>1, <2>2, <1>3, LimitsAssumption
    <2>4. Armed(c)' \subseteq HeardBy(c) /\ IsFiniteSet(HeardBy(c))
      BY HeardFinite DEF Armed, HeardBy, Hears
    <2>5. /\ BatchMax * Cardinality(Armed(c)') \in Nat
          /\ BatchMax * Cardinality(HeardBy(c)) \in Nat
          /\ BatchMax * Cardinality(Armed(c)') <= BatchMax * Cardinality(HeardBy(c))
      BY <2>4, FewerNeedLess
    <2> QED
      BY <2>3, <2>5, <1>3, LimitsAssumption
  <1>5. CASE ~(t \in HeardBy(c) /\ interest'[t])
    <2>1. Armed(c)' \subseteq Armed(c)
      BY <1>1, <1>5 DEF Armed, HeardBy, Hears, TypeOK
    <2> QED
      BY <2>1, <1>1, <1>3, RoomKept
  <1> QED
    BY <1>4, <1>5

\* A batch takes the room its thread was armed for.
LEMMA BatchTakesItsRoom ==
    ASSUME TypeOK, InBudget, ReadWanted, RoomLeft, NEW t \in Term, ReadBatch(t)
    PROVE  RoomLeft'
  <1>1. PICK n \in 1..BatchMax : Broadcast(t, n, n)
    BY DEF ReadBatch
  <1>2. /\ io[t] = "read" /\ io' = [io EXCEPT ![t] = "top"]
        /\ interest' = [interest EXCEPT ![t] = FALSE]
        /\ UNCHANGED hungUp
    BY DEF ReadBatch
  <1>3. n \in Nat /\ BatchMax \in Nat /\ n <= BatchMax
    BY LimitsAssumption
  <1>4. /\ clients' \subseteq clients /\ clients \subseteq Client
        /\ output \in [Client -> Nat] /\ output' \in [Client -> Nat]
        /\ \A c \in clients' :
             output'[c] = IF Hears(c, t) THEN output[c] + n ELSE output[c]
    BY <1>1, <1>3, BroadcastTyped DEF TypeOK
  <1> SUFFICES ASSUME NEW c \in clients', HeardBy(c) \cap hungUp = {}
               PROVE  output'[c] + BatchMax * Cardinality(Armed(c)')
                          <= High + BatchMax * Cardinality(HeardBy(c))
    BY <1>2 DEF RoomLeft, HeardBy, Hears
  <1>5. Armed(c)' = Armed(c) \ {t}
    BY <1>2 DEF Armed, HeardBy, Hears, TypeOK
  <1>6. CASE t \in HeardBy(c)
    <2>1. t \in Armed(c)
      BY <1>2, <1>6 DEF Armed, ReadWanted
    <2>2. IsFiniteSet(Armed(c)) /\ IsFiniteSet(HeardBy(c))
      BY HeardFinite, FS_Subset DEF Armed
    <2>3. BatchMax * Cardinality(Armed(c)) = BatchMax * Cardinality(Armed(c)') + BatchMax
      BY <2>1, <2>2, <1>5, OneLessFreesABatch
    <2>4. /\ BatchMax * Cardinality(Armed(c)') \in Nat
          /\ BatchMax * Cardinality(HeardBy(c)) \in Nat
      BY <2>2, <1>5, FewerNeedLess
    <2>5. output'[c] = output[c] + n /\ output[c] \in Nat
      BY <1>4, <1>6 DEF HeardBy
    <2>6. output[c] + BatchMax * Cardinality(Armed(c))
              <= High + BatchMax * Cardinality(HeardBy(c))
      BY <1>4 DEF RoomLeft
    <2> HIDE DEF Armed
    <2> QED
      BY <1>3, <2>3, <2>4, <2>5, <2>6, LimitsAssumption
  <1>7. CASE t \notin HeardBy(c)
    <2>1. output'[c] = output[c] /\ output[c] \in Nat /\ c \in clients
      BY <1>4, <1>7 DEF HeardBy
    <2>2. Armed(c)' \subseteq Armed(c) /\ hungUp' = hungUp
      BY <1>5, <1>2
    <2> QED
      BY <2>1, <2>2, RoomKept
  <1> QED
    BY <1>6, <1>7

\* Another event of a terminal takes no room of output.
LEMMA EventTakesNoRoom ==
    ASSUME TypeOK, InBudget, RoomLeft, NEW t \in Term, NEW n \in Nat, Broadcast(t, n, 0),
           \A c \in clients : Armed(c)' \subseteq Armed(c), hungUp' = hungUp
    PROVE  RoomLeft'
  <1>1. 0 \in Nat /\ 0 <= n
    OBVIOUS
  <1>2. /\ clients' \subseteq clients /\ clients \subseteq Client
        /\ output \in [Client -> Nat]
        /\ \A c \in clients' :
             output'[c] = IF Hears(c, t) THEN output[c] + 0 ELSE output[c]
    BY <1>1, BroadcastTyped DEF TypeOK
  <1> SUFFICES ASSUME NEW c \in clients', HeardBy(c) \cap hungUp = {}
               PROVE  output'[c] + BatchMax * Cardinality(Armed(c)')
                          <= High + BatchMax * Cardinality(HeardBy(c))
    BY DEF RoomLeft, HeardBy, Hears
  <1>3. c \in clients /\ output'[c] \in Nat /\ output'[c] <= output[c]
    BY <1>2
  <1> QED
    BY <1>3, RoomKept

\* Every step leaves room for the batches it has let threads read.
LEMMA NextLeavesRoom ==
    TypeOK /\ InBudget /\ ReadWanted /\ RoomLeft /\ [Next]_vars => RoomLeft'
  <1> SUFFICES ASSUME TypeOK, InBudget, ReadWanted, RoomLeft, [Next]_vars PROVE RoomLeft'
    OBVIOUS
  <1>1. ASSUME NEW t \in Term, Arm(t) PROVE RoomLeft'
    BY <1>1, ArmKeepsRoom
  <1>2. ASSUME NEW t \in Term, ReadBatch(t) PROVE RoomLeft'
    BY <1>2, BatchTakesItsRoom
  <1>3. ASSUME /\ clients' \subseteq clients /\ hungUp \subseteq hungUp'
               /\ \A c \in clients' : output'[c] \in Nat /\ output'[c] <= output[c]
               /\ \A c \in clients : Armed(c)' \subseteq Armed(c)
        PROVE  RoomLeft'
    <2> SUFFICES ASSUME NEW c \in clients', HeardBy(c) \cap hungUp' = {}
                 PROVE  output'[c] + BatchMax * Cardinality(Armed(c)')
                            <= High + BatchMax * Cardinality(HeardBy(c))
      BY DEF RoomLeft, HeardBy, Hears
    <2> QED
      BY <1>3, RoomKept
  <1>4. output \in [Client -> Nat] /\ clients \subseteq Client
    BY DEF TypeOK
  <1>5. ASSUME UNCHANGED <<io, interest>> PROVE \A c \in clients : Armed(c)' \subseteq Armed(c)
    BY <1>5 DEF Armed, HeardBy, Hears
  <1>6. ASSUME NEW t \in Term, ShellWrites(t) \/ HangsUp(t) PROVE RoomLeft'
    BY <1>3, <1>4, <1>5, <1>6 DEF ShellWrites, HangsUp, clientVars
  <1>7. ASSUME NEW t \in Term, PollReturns(t) \/ Ends(t) PROVE RoomLeft'
    <2>1. \A c \in clients : Armed(c)' \subseteq Armed(c)
      BY <1>7 DEF PollReturns, GoesOn, Ends, Armed, HeardBy, Hears, TypeOK
    <2> QED
      BY <2>1, <1>3, <1>4, <1>7 DEF PollReturns, Ends, clientVars
  <1>7a. ASSUME NEW t \in Term, Announces(t) \/ AnnounceExit(t) PROVE RoomLeft'
    <2>1. PICK n \in 1..LineMax : Broadcast(t, n, 0)
      BY <1>7a DEF Announces, AnnounceExit
    <2>2. n \in Nat
      BY LimitsAssumption
    <2>3. \A c \in clients : Armed(c)' \subseteq Armed(c)
      BY <1>7a DEF Announces, AnnounceExit, termVars, Armed, HeardBy, Hears, TypeOK
    <2>4. hungUp' = hungUp
      BY <1>7a DEF Announces, AnnounceExit, termVars
    <2> QED
      BY <2>1, <2>2, <2>3, <2>4, EventTakesNoRoom
  <1>8. ASSUME NEW c \in Client, NEW t \in Term,
               Attach(c, t) \/ \E pause \in BOOLEAN : Flow(c, t, pause)
        PROVE  RoomLeft'
    BY <1>3, <1>4, <1>5, <1>8 DEF Attach, Flow, termVars, clientVars
  <1>9. ASSUME NEW c \in Client, Sent(c) PROVE RoomLeft'
    <2>1. \A d \in clients : output'[d] \in Nat /\ output'[d] <= output[d]
      BY <1>9, <1>4 DEF Sent
    <2> QED
      BY <2>1, <1>3, <1>5, <1>9 DEF Sent, termVars
  <1>10. ASSUME NEW c \in Client, StallElapses(c) \/ Disconnect(c) \/ Reply(c) PROVE RoomLeft'
    BY <1>3, <1>4, <1>5, <1>10 DEF StallElapses, Disconnect, Reply, termVars
  <1>11. ASSUME NEW c \in Client, ReaderEnds(c) PROVE RoomLeft'
    BY <1>3, <1>4, <1>5, <1>11 DEF ReaderEnds, termVars
  <1>12. ASSUME NEW c \in Client, PausesEnd(c) PROVE RoomLeft'
    BY <1>3, <1>4, <1>5, <1>12 DEF PausesEnd, termVars
  <1>13. ASSUME Reap PROVE RoomLeft'
    <2>1. Drop(stalled, owed, output) /\ UNCHANGED termVars
      BY <1>13 DEF Reap
    <2>2. \A c \in clients' : c \in clients /\ output'[c] = output[c]
      BY <2>1, <1>4 DEF Drop
    <2> QED
      BY <2>1, <2>2, <1>3, <1>4, <1>5 DEF termVars
  <1>14. CASE UNCHANGED vars
    BY <1>3, <1>4, <1>5, <1>14 DEF vars, termVars, clientVars
  <1> QED
    BY <1>1, <1>2, <1>6, <1>7, <1>7a, <1>8, <1>9, <1>10, <1>11, <1>12, <1>13, <1>14
    DEF Next, IoThread, ReaderLeaves

-----------------------------------------------------------------------------
\* No step puts a client over its budget, nor counts more output than it is owed.
LEMMA NextInBudget == TypeOK /\ InBudget /\ [Next]_vars => InBudget'
  <1> SUFFICES ASSUME TypeOK, InBudget, [Next]_vars PROVE InBudget'
    OBVIOUS
  <1>1. owed \in [Client -> Nat] /\ output \in [Client -> Nat] /\ OutboxMax \in Nat
    BY LimitsAssumption DEF TypeOK
  <1>2. ASSUME NEW dropped, Drop(dropped, owed, output) PROVE InBudget'
    BY <1>1, <1>2 DEF Drop, InBudget
  <1>3. ASSUME NEW t \in Term, NEW n \in Nat, NEW k \in {0, n}, Broadcast(t, n, k)
        PROVE  InBudget'
    <2>1. k \in Nat /\ k <= n
      OBVIOUS
    <2> QED
      BY <1>3, <2>1, BroadcastTyped
  <1>4. ASSUME UNCHANGED <<owed, output>> PROVE InBudget'
    BY <1>4 DEF InBudget
  <1>5. ASSUME NEW t \in Term, Arm(t) PROVE InBudget'
    BY <1>2, <1>5 DEF Arm
  <1>6. ASSUME NEW t \in Term, ReadBatch(t) PROVE InBudget'
    <2>1. PICK n \in 1..BatchMax : Broadcast(t, n, n)
      BY <1>6 DEF ReadBatch
    <2> QED
      BY <2>1, <1>3, LimitsAssumption
  <1>7. ASSUME NEW t \in Term, Announces(t) \/ AnnounceExit(t) PROVE InBudget'
    <2>1. PICK n \in 1..LineMax : Broadcast(t, n, 0)
      BY <1>7 DEF Announces, AnnounceExit
    <2> QED
      BY <2>1, <1>3, LimitsAssumption
  <1>8. ASSUME NEW t \in Term, ShellWrites(t) \/ HangsUp(t) \/ PollReturns(t) \/ Ends(t)
        PROVE  InBudget'
    BY <1>4, <1>8 DEF ShellWrites, HangsUp, PollReturns, Ends, clientVars
  <1>9. ASSUME NEW c \in Client, Reply(c) PROVE InBudget'
    <2>1. PICK n \in 1..LineMax :
             IF Refuses(c, n)
             THEN UNCHANGED owed
             ELSE owed' = [owed EXCEPT ![c] = @ + n]
      BY <1>9 DEF Reply
    <2>2. n \in Nat /\ UNCHANGED output
      BY <1>9, LimitsAssumption DEF Reply
    <2>3. CASE Refuses(c, n)
      BY <2>1, <2>2, <2>3, <1>4
    <2>4. CASE ~Refuses(c, n)
      BY <2>1, <2>2, <2>4, <1>1 DEF Refuses, InBudget
    <2> QED
      BY <2>3, <2>4
  <1>10. ASSUME NEW c \in Client, Sent(c) PROVE InBudget'
    BY <1>1, <1>10 DEF Sent, InBudget
  <1>11. ASSUME NEW c \in Client, ReaderEnds(c) PROVE InBudget'
    BY <1>1, <1>11 DEF ReaderEnds, InBudget
  <1>12. ASSUME NEW c \in Client, StallElapses(c) \/ Disconnect(c) \/ PausesEnd(c)
        PROVE  InBudget'
    BY <1>4, <1>12 DEF StallElapses, Disconnect, PausesEnd
  <1>13. ASSUME NEW c \in Client, NEW t \in Term,
                Attach(c, t) \/ \E pause \in BOOLEAN : Flow(c, t, pause)
         PROVE  InBudget'
    BY <1>4, <1>13 DEF Attach, Flow, clientVars
  <1>14. ASSUME Reap PROVE InBudget'
    BY <1>2, <1>14 DEF Reap
  <1>15. CASE UNCHANGED vars
    BY <1>4, <1>15 DEF vars, clientVars
  <1> QED
    BY <1>5, <1>6, <1>7, <1>8, <1>9, <1>10, <1>11, <1>12, <1>13, <1>14, <1>15
    DEF Next, IoThread, ReaderLeaves

-----------------------------------------------------------------------------
\* A daemon whose clients have just connected is steady.
LEMMA InitSteady == Init => Steady
  <1> SUFFICES ASSUME Init PROVE Steady
    OBVIOUS
  <1>1. TypeOK
    BY LimitsAssumption DEF Init, TypeOK
  <1>2. NoLostWakeup /\ PauseHasOwner /\ ReadWanted /\ InBudget
    BY LimitsAssumption DEF Init, NoLostWakeup, PauseHasOwner, ReadWanted, InBudget
  <1>3. ASSUME NEW c \in clients
        PROVE  output[c] + BatchMax * Cardinality(Armed(c))
                   <= High + BatchMax * Cardinality(HeardBy(c))
    <2>1. output[c] = 0 /\ Armed(c) = {}
      BY DEF Init, Armed, HeardBy, Hears
    <2>2. /\ BatchMax * Cardinality(Armed(c)) \in Nat
          /\ BatchMax * Cardinality(HeardBy(c)) \in Nat
          /\ BatchMax * Cardinality(Armed(c)) <= BatchMax * Cardinality(HeardBy(c))
      BY <2>1, HeardFinite, FewerNeedLess
    <2> QED
      BY <2>1, <2>2, LimitsAssumption
  <1> QED
    BY <1>1, <1>2, <1>3 DEF Steady, RoomLeft

\* The daemon is always steady.
LEMMA AlwaysSteady == Spec => []Steady
  <1>1. Steady /\ [Next]_vars => Steady'
    BY NextTyped, NextKeepsWakeups, NextKeepsOwners, NextReadsWanted, NextInBudget,
       NextLeavesRoom DEF Steady
  <1> QED
    BY <1>1, InitSteady, PTL DEF Spec

\* Every state is well typed.
THEOREM FlowTypeCorrect == Spec => []TypeOK
  <1>1. Steady => TypeOK
    BY DEF Steady
  <1> QED
    BY <1>1, AlwaysSteady, PTL

\* flow, attach and a leaving client never leave a thread asleep that nothing
\* pauses any more.
THEOREM NeverALostWakeup == Spec => []NoLostWakeup
  <1>1. Steady => NoLostWakeup
    BY DEF Steady
  <1> QED
    BY <1>1, AlwaysSteady, PTL

\* A terminal is never paused by a client that is gone (serve_client's end).
THEOREM PauseAlwaysHasOwner == Spec => []PauseHasOwner
  <1>1. Steady => PauseHasOwner
    BY DEF Steady
  <1> QED
    BY <1>1, AlwaysSteady, PTL

\* However many terminals a slow viewer hears, and whatever else it is sent, it is
\* never owed more of their output than BACKLOG_HIGH and one batch of each (the I/O
\* thread's backlog check), nor more in all than OUTBOX_MAX (offer).
THEOREM BacklogAlwaysBounded == Spec => []BacklogBounded
  <1>1. Steady => BacklogBounded
    <2> SUFFICES ASSUME Steady, NEW c \in clients
                 PROVE  /\ output[c] <= owed[c] /\ owed[c] <= OutboxMax
                        /\ HeardBy(c) \cap hungUp = {} =>
                               output[c] <= High + BatchMax * Cardinality(HeardBy(c))
      BY DEF BacklogBounded
    <2>1. HeardBy(c) \cap hungUp = {} =>
              output[c] + BatchMax * Cardinality(Armed(c))
                  <= High + BatchMax * Cardinality(HeardBy(c))
      BY DEF Steady, RoomLeft
    <2>2. /\ BatchMax * Cardinality(Armed(c)) \in Nat
          /\ BatchMax * Cardinality(HeardBy(c)) \in Nat
      BY HeardFinite, FewerNeedLess DEF Armed
    <2>3. /\ output[c] \in Nat /\ High \in Nat
          /\ output[c] <= owed[c] /\ owed[c] <= OutboxMax
      BY LimitsAssumption DEF Steady, TypeOK, InBudget
    <2> QED
      BY <2>1, <2>2, <2>3
  <1> QED
    BY <1>1, AlwaysSteady, PTL
=============================================================================
