---------------------------- MODULE PtydTeardown ----------------------------
(***************************************************************************)
(* How a terminal of the PTY daemon comes down while requests still name   *)
(* it: kill and write from the clients' reader threads against the         *)
(* terminal's I/O thread, with the locks and descriptors they share.       *)
(*                                                                         *)
(* A step is one critical section, except that kill keeps the registry     *)
(* lock `terms` while it waits for the child's mutex, which the I/O thread *)
(* keeps while it waits for the child to exit.  write looks the terminal   *)
(* up under `terms` and does the rest without it.                          *)
(***************************************************************************)
EXTENDS Naturals, FiniteSets

CONSTANTS
    Reader,      \* the reader threads of the clients
    Term         \* terminal ids, never reused

ASSUME TermAssumption == Term # {}

VARIABLES
    io,          \* where each terminal's I/O thread is
    killed,      \* the terminals flagged by kill
    child,       \* each terminal's shell
    signalled,   \* the shells that were sent a signal
    context,     \* the terminals whose hasContext is set
    wakeOpen,    \* the terminals whose wake pipe is open for writing
    manifests,   \* the terminals with a manifest on disk
    at,          \* where each reader thread is in its request
    about        \* the terminal its request names

vars == <<io, killed, child, signalled, context, wakeOpen, manifests, at, about>>

Registered(t) == io[t] \in {"unspawned", "loop", "reap", "wait", "remove"}

\* kill holds `terms` until the child is signalled and the thread woken.
TermsFree == \A r \in Reader : at[r] # "kill"

\* The I/O thread holds the child's mutex while it waits for it.
ChildFree(t) == io[t] # "wait"

-----------------------------------------------------------------------------
Init ==
    /\ io = [t \in Term |-> "unborn"]
    /\ killed = {}
    /\ child = [t \in Term |-> "none"]
    /\ signalled = {}
    /\ context = {} /\ wakeOpen = {} /\ manifests = {}
    /\ at = [r \in Reader |-> "idle"]
    /\ about = [r \in Reader |-> CHOOSE t \in Term : TRUE]

\* A reader thread goes from one place of its request to the next.
Step(r, from, to) == at[r] = from /\ at' = [at EXCEPT ![r] = to]

\* create: the shell is started on a new tty before anything else can fail.  A
\* create refused earlier, or a shell that does not start, leaves nothing behind.
Spawn(r, t) ==
    /\ Step(r, "idle", "createRegister")
    /\ io[t] = "unborn"
    /\ io' = [io EXCEPT ![t] = "spawned"]
    /\ child' = [child EXCEPT ![t] = "running"]
    /\ about' = [about EXCEPT ![r] = t]
    /\ UNCHANGED <<killed, signalled, context, wakeOpen, manifests>>

\* The master's descriptors or the wake pipe cannot be had: the client is told
\* so, and the child is dropped as it is, its tty closed but nobody its parent.
CreateFails(r) ==
    /\ Step(r, "createRegister", "idle")
    /\ io' = [io EXCEPT ![about[r]] = "abandoned"]
    /\ UNCHANGED <<killed, child, signalled, context, wakeOpen, manifests, about>>

\* The entry, then (outside `terms`) the manifest, then the thread.
Register(r) ==
    /\ Step(r, "createRegister", "createManifest") /\ TermsFree
    /\ io' = [io EXCEPT ![about[r]] = "unspawned"]
    /\ wakeOpen' = wakeOpen \cup {about[r]}
    /\ UNCHANGED <<killed, child, signalled, context, manifests, about>>

CreateManifest(r) ==
    /\ Step(r, "createManifest", "idle")
    /\ manifests' = manifests \cup {about[r]}
    /\ io' = [io EXCEPT ![about[r]] = "loop"]
    /\ UNCHANGED <<killed, child, signalled, context, wakeOpen, about>>

\* write, under `terms`: the entry is found and its parts cloned.
WriteLookup(r, t) ==
    /\ at[r] = "idle" /\ TermsFree /\ Registered(t)
    /\ at' = [at EXCEPT ![r] = IF t \in context THEN "writeQueue" ELSE "writeManifest"]
    /\ context' = context \cup {t}
    /\ about' = [about EXCEPT ![r] = t]
    /\ UNCHANGED <<io, killed, child, signalled, wakeOpen, manifests>>

\* The first write saves the manifest again, with hasContext.
WriteManifest(r) ==
    /\ Step(r, "writeManifest", "writeQueue")
    /\ manifests' = manifests \cup {about[r]}
    /\ UNCHANGED <<io, killed, child, signalled, context, wakeOpen, about>>

\* The input is queued and pushed; what the terminal would not take yet is left
\* for the I/O thread, which is to be woken.
WriteQueue(r) ==
    /\ at[r] = "writeQueue"
    /\ \E still_queued \in BOOLEAN :
         at' = [at EXCEPT ![r] = IF still_queued THEN "poke" ELSE "idle"]
    /\ UNCHANGED <<io, killed, child, signalled, context, wakeOpen, manifests, about>>

Poke(r) ==
    /\ Step(r, "poke", "idle")
    /\ UNCHANGED <<io, killed, child, signalled, context, wakeOpen, manifests, about>>

\* kill: the first to flag a terminal goes on to its child, `terms` kept.
Kill(r, t) ==
    /\ at[r] = "idle" /\ TermsFree /\ Registered(t)
    /\ IF t \in killed
       THEN UNCHANGED <<killed, at, about>>
       ELSE /\ killed' = killed \cup {t}
            /\ at' = [at EXCEPT ![r] = "kill"]
            /\ about' = [about EXCEPT ![r] = t]
    /\ UNCHANGED <<io, child, signalled, context, wakeOpen, manifests>>

\* With the child's mutex: it is signalled, the thread woken, `terms` released.
KillChild(r) ==
    /\ ChildFree(about[r])
    /\ Step(r, "kill", "idle")
    /\ signalled' = signalled \cup {about[r]}
    /\ UNCHANGED <<io, killed, child, context, wakeOpen, manifests, about>>

-----------------------------------------------------------------------------
(* The shell, and the I/O thread.                                          *)

\* It ends by itself, or because it was signalled.
ShellExits(t) ==
    /\ child[t] = "running"
    /\ child' = [child EXCEPT ![t] = "exited"]
    /\ UNCHANGED <<io, killed, signalled, context, wakeOpen, manifests, at, about>>

Move(t, from, to) == io[t] = from /\ io' = [io EXCEPT ![t] = to]

\* End of output: nothing has the terminal open any more.  The shell itself may
\* run on, detached from it.
HangsUp(t) ==
    /\ Move(t, "loop", "reap")
    /\ UNCHANGED <<killed, child, signalled, context, wakeOpen, manifests, at, about>>

\* The flag is read at the top of the loop.
SeesKilled(t) ==
    /\ t \in killed
    /\ Move(t, "loop", "reap")
    /\ UNCHANGED <<killed, child, signalled, context, wakeOpen, manifests, at, about>>

\* Mutant of Wait: the child is not waited for.
WaitSkipped(t) ==
    /\ Move(t, "reap", "remove")
    /\ UNCHANGED <<killed, child, signalled, context, wakeOpen, manifests, at, about>>

\* The child's mutex is taken and wait() called.
Wait(t) ==
    /\ Move(t, "reap", "wait")
    /\ UNCHANGED <<killed, child, signalled, context, wakeOpen, manifests, at, about>>

\* Mutant of Reaped: it waits again for a child already reaped.
ReapedAgain(t) ==
    /\ child[t] = "exited"
    /\ Move(t, "wait", "reap")
    /\ UNCHANGED <<killed, child, signalled, context, wakeOpen, manifests, at, about>>

Reaped(t) ==
    /\ child[t] = "exited"
    /\ Move(t, "wait", "remove")
    /\ UNCHANGED <<killed, child, signalled, context, wakeOpen, manifests, at, about>>

\* The entry leaves the registry; dropping it closes the wake pipe.
Unregister(t) ==
    /\ TermsFree
    /\ Move(t, "remove", "manifest")
    /\ wakeOpen' = wakeOpen \ {t}
    /\ UNCHANGED <<killed, child, signalled, context, manifests, at, about>>

RemoveManifest(t) ==
    /\ Move(t, "manifest", "done")
    /\ manifests' = manifests \ {t}
    /\ UNCHANGED <<killed, child, signalled, context, wakeOpen, at, about>>

-----------------------------------------------------------------------------
Request(r) == \E t \in Term : Spawn(r, t) \/ WriteLookup(r, t) \/ Kill(r, t)

Handling(r) == CreateFails(r) \/ Register(r) \/ CreateManifest(r)
               \/ WriteManifest(r) \/ WriteQueue(r) \/ Poke(r) \/ KillChild(r)

IoThread(t) == Wait(t) \/ Reaped(t) \/ RemoveManifest(t)

Next ==
    \/ \E r \in Reader : Request(r) \/ Handling(r)
    \/ \E t \in Term : HangsUp(t) \/ SeesKilled(t) \/ ShellExits(t)
                       \/ Unregister(t) \/ IoThread(t)

\* Threads keep running, kill's poke makes the I/O thread read the flag, and a
\* signalled shell dies.  A shell left alone may run for ever.
Fairness ==
    /\ \A r \in Reader : WF_vars(Handling(r))
    /\ \A t \in Term : /\ WF_vars(SeesKilled(t)) /\ WF_vars(IoThread(t))
                       /\ SF_vars(Unregister(t))
                       /\ WF_vars(t \in signalled /\ ShellExits(t))

Spec == Init /\ [][Next]_vars
FairSpec == Spec /\ Fairness

-----------------------------------------------------------------------------
(* Properties.                                                             *)

TypeOK ==
    /\ io \in [Term -> {"unborn", "spawned", "abandoned", "unspawned", "loop", "reap",
                        "wait", "remove", "manifest", "done"}]
    /\ killed \subseteq Term
    /\ child \in [Term -> {"none", "running", "exited"}]
    /\ signalled \subseteq killed
    /\ context \subseteq Term /\ wakeOpen \subseteq Term /\ manifests \subseteq Term
    /\ at \in [Reader -> {"idle", "createRegister", "createManifest", "writeManifest",
                          "writeQueue", "poke", "kill"}]
    /\ about \in [Reader -> Term]

\* kill never works on a terminal half torn down: while it holds `terms` the
\* entry is there and its wake pipe open, so the poke reaches that terminal.
KillSeesWhole ==
    \A r \in Reader : at[r] = "kill" => Registered(about[r]) /\ about[r] \in wakeOpen

\* A create that is still at work on t.
Creating(t) == \E r \in Reader : at[r] = "createRegister" /\ about[r] = t

\* A shell that still runs is in the registry, where list shows it and kill finds
\* it, or its create is about to put it there: teardown reaps it before the entry
\* goes.  The one shell the daemon loses sight of is that of a create which failed
\* once the shell ran; no such terminal was ever listed, written to or on disk.
NoOrphanShell ==
    \A t \in Term :
        child[t] = "running" =>
            \/ Registered(t)
            \/ io[t] = "spawned" /\ Creating(t)
            \/ io[t] = "abandoned" /\ t \notin killed \cup context \cup wakeOpen \cup manifests

\* kill's comment: the entry stays "so a second kill/write can't race a
\* half-torn-down term".  A write's poke is for that terminal's own pipe.
WritePokesOwnPipe ==
    \A r \in Reader : at[r] = "poke" => about[r] \in wakeOpen

\* kill's comment: the I/O thread "owns teardown (reap, remove from the
\* registry, manifest, exit event)".  Nothing is left on disk of the dead.
ManifestTornDown == \A t \in Term : io[t] = "done" => t \notin manifests

\* write's comment: "a stuck program stalls nobody else".  Whoever has the
\* registry lock gives it back.
RegistryReleased == \A r \in Reader : at[r] = "kill" ~> at[r] # "kill"

\* A shell that was signalled has its terminal torn down, as long as the
\* registry lock is free again and again.
SignalledGoes ==
    []<>TermsFree => \A t \in Term : t \in signalled ~> io[t] = "done"
=============================================================================
