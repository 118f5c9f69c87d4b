------------------------- MODULE PtydTeardownProofs -------------------------
(***************************************************************************)
(* Proofs about PtydTeardown, for any readers and terminals: kill works on *)
(* whole terminals only, and no shell runs outside the registry.           *)
(***************************************************************************)
EXTENDS PtydTeardown, TLAPS

\* A reader thread that is creating, writing to or killing its terminal: the one it
\* creates is its own until the I/O thread starts, the one it kills was flagged by
\* it and stays in the registry, which it has locked.
ReaderSound ==
    \A r \in Reader :
        /\ at[r] = "createRegister" => io[about[r]] = "spawned"
        /\ at[r] = "createManifest" => io[about[r]] = "unspawned"
        /\ at[r] = "writeManifest" => about[r] \in context
        /\ at[r] = "kill" => about[r] \in killed /\ Registered(about[r])

\* Two reader threads never create the same terminal.
CreatedOnce ==
    \A r, s \in Reader :
        /\ at[r] \in {"createRegister", "createManifest"}
        /\ at[s] \in {"createRegister", "createManifest"}
        /\ about[r] = about[s]
        => r = s

\* A registered terminal has its wake pipe; a shell is reaped before the entry
\* goes; nothing is known of a terminal that was never registered, and one whose
\* shell runs already has a create at work on it.
TerminalSound ==
    \A t \in Term :
        /\ Registered(t) => t \in wakeOpen
        /\ io[t] \in {"unborn", "remove", "manifest", "done"} => child[t] # "running"
        /\ io[t] \in {"unborn", "spawned", "abandoned"} =>
               t \notin killed \cup context \cup wakeOpen \cup manifests
        /\ io[t] = "spawned" => Creating(t)

Sound == TypeOK /\ ReaderSound /\ CreatedOnce /\ TerminalSound

\* A daemon that has just started is sound.
LEMMA InitSound == Init => Sound
  <1> SUFFICES ASSUME Init PROVE Sound
    OBVIOUS
  <1>1. (CHOOSE t \in Term : TRUE) \in Term
    BY TermAssumption
  <1>2. TypeOK
    BY <1>1 DEF Init, TypeOK
  <1> QED
    BY <1>2 DEF Init, Sound, ReaderSound, CreatedOnce, TerminalSound, Registered

\* Every step of a reader thread or of the teardown keeps the daemon sound.
LEMMA NextSound == Sound /\ [Next]_vars => Sound'
  <1> SUFFICES ASSUME Sound, [Next]_vars PROVE Sound'
    OBVIOUS
  <1> USE DEF Sound, TypeOK, ReaderSound, CreatedOnce, TerminalSound, Registered, Creating
  <1>1. ASSUME NEW r \in Reader, NEW t \in Term, Spawn(r, t) PROVE Sound'
    BY <1>1 DEF Spawn, Step
  <1>a. ASSUME NEW r \in Reader, CreateFails(r) PROVE Sound'
    BY <1>a DEF CreateFails, Step
  <1>b. ASSUME NEW r \in Reader, Register(r) PROVE Sound'
    BY <1>b DEF Register, Step
  <1>2. ASSUME NEW r \in Reader, CreateManifest(r) PROVE Sound'
    BY <1>2 DEF CreateManifest, Step
  <1>3. ASSUME NEW r \in Reader, NEW t \in Term, WriteLookup(r, t) PROVE Sound'
    BY <1>3 DEF WriteLookup
  <1>4. ASSUME NEW r \in Reader, WriteManifest(r) PROVE Sound'
    BY <1>4 DEF WriteManifest, Step
  <1>5. ASSUME NEW r \in Reader, WriteQueue(r) PROVE Sound'
    BY <1>5 DEF WriteQueue
  <1>6. ASSUME NEW r \in Reader, Poke(r) PROVE Sound'
    BY <1>6 DEF Poke, Step
  <1>7. ASSUME NEW r \in Reader, NEW t \in Term, Kill(r, t) PROVE Sound'
    BY <1>7 DEF Kill
  <1>8. ASSUME NEW r \in Reader, KillChild(r) PROVE Sound'
    BY <1>8 DEF KillChild, Step
  <1>9. ASSUME NEW t \in Term, ShellExits(t) PROVE Sound'
    BY <1>9 DEF ShellExits
  <1>10. ASSUME NEW t \in Term, HangsUp(t) PROVE Sound'
    BY <1>10 DEF HangsUp, Move
  <1>11. ASSUME NEW t \in Term, SeesKilled(t) PROVE Sound'
    BY <1>11 DEF SeesKilled, Move
  <1>12. ASSUME NEW t \in Term, Wait(t) PROVE Sound'
    BY <1>12 DEF Wait, Move
  <1>13. ASSUME NEW t \in Term, Reaped(t) PROVE Sound'
    BY <1>13 DEF Reaped, Move
  <1>14. ASSUME NEW t \in Term, Unregister(t) PROVE Sound'
    BY <1>14 DEF Unregister, Move, TermsFree
  <1>15. ASSUME NEW t \in Term, RemoveManifest(t) PROVE Sound'
    BY <1>15 DEF RemoveManifest, Move
  <1>16. CASE UNCHANGED vars
    BY <1>16 DEF vars
  <1> QED
    BY <1>1, <1>a, <1>b, <1>2, <1>3, <1>4, <1>5, <1>6, <1>7, <1>8, <1>9, <1>10, <1>11,
       <1>12, <1>13, <1>14, <1>15, <1>16
    DEF Next, Request, Handling, IoThread

\* The daemon is always sound.
LEMMA AlwaysSound == Spec => []Sound
  BY InitSound, NextSound, PTL DEF Spec

\* Every state is well typed.
THEOREM TeardownTypeCorrect == Spec => []TypeOK
  <1>1. Sound => TypeOK
    BY DEF Sound
  <1> QED
    BY <1>1, AlwaysSound, PTL

\* kill never works on a terminal half torn down (Daemon::kill, which keeps the
\* registry locked until the child is signalled and the thread poked).
THEOREM KillAlwaysSeesWhole == Spec => []KillSeesWhole
  <1>1. Sound => KillSeesWhole
    BY DEF Sound, TypeOK, ReaderSound, TerminalSound, KillSeesWhole
  <1> QED
    BY <1>1, AlwaysSound, PTL

\* A shell runs outside the registry only while its create is about to register it,
\* or after that create failed behind it (the I/O thread reaps, then unregisters).
THEOREM NeverAnOrphanShell == Spec => []NoOrphanShell
  <1>1. Sound => NoOrphanShell
    BY DEF Sound, TypeOK, TerminalSound, NoOrphanShell, Registered
  <1> QED
    BY <1>1, AlwaysSound, PTL
=============================================================================
