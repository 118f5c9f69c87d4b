----------------------------- MODULE SharedDrafts -----------------------------
(***************************************************************************)
(* The composer drafts of every chat, which the chat pages keep in one       *)
(* localStorage (web/chat/src/storage.ts, storageMerge.ts, main.tsx).  Each  *)
(* page holds all of them in memory and writes them whole, a moment after    *)
(* the last change; a write is merged, entry by entry, onto what the other   *)
(* pages have stored since.                                                  *)
(*                                                                           *)
(* Values are zustand's, of one version: any other is written as it is.      *)
(***************************************************************************)
EXTENDS Naturals, FiniteSets

CONSTANTS
    Page,      \* the pages that may be open
    Thread,    \* the chats, an entry of the shared value each
    Draft,     \* what a draft may hold
    NoDraft     \* no entry

ASSUME DraftsAssumption == NoDraft \notin Draft

VARIABLES
    stored,    \* the value of the shared key; NoValue when it was never written
    page,      \* per page, its half of the storage and its memory
    changed,   \* history: who changed a thread's draft last, and to what
    excused    \* history: threads whose last change may be gone

draftVars == <<stored, page, changed, excused>>

Value == [Thread -> Draft \cup {NoDraft}]
NoDrafts == [t \in Thread |-> NoDraft]
NoValue == [t \in {} |-> NoDraft]        \* null: no value

PageState == [up      : BOOLEAN,
              mem     : Value,                  \* the composer draft store
              seen    : Value \cup {NoValue},   \* what it last read or wrote
              pending : Value \cup {NoValue},   \* captured for the deferred write
              dirty   : SUBSET Thread,          \* history: changed since its last write
              reread  : BOOLEAN]                \* history: last read with a write to come

NoPage == [up |-> FALSE, mem |-> NoDrafts, seen |-> NoValue, pending |-> NoValue,
           dirty |-> {}, reread |-> FALSE]

DraftsInit ==
    /\ stored = NoValue
    /\ page = [p \in Page |-> NoPage]
    /\ changed = [t \in Thread |-> [by |-> {}, draft |-> NoDraft]]
    /\ excused = {}

-----------------------------------------------------------------------------
\* parse of a value that may not be there
Drafts(value) == IF value = NoValue THEN NoDrafts ELSE value

\* mergeField: what the page changed since base is its own, the rest as stored.
MergeField(base, next, current) ==
    [t \in Thread |-> IF next[t] = base[t] THEN current[t] ELSE next[t]]

\* mergeSharedValue
MergeSharedValue(base, next, current) ==
    IF current \in {NoValue, base} THEN next
    ELSE MergeField(Drafts(base), next, current)

\* SharedStorage.getItem, of a page whose state is s.
Read(s) == [s EXCEPT !.mem = Drafts(stored), !.seen = stored,
                     !.reread = s.pending # NoValue]

\* SharedStorage.setItem of what the page captured, if anything: the deferred
\* write and the flush before the page is left.
Merged(s) == IF s.pending = NoValue THEN stored
             ELSE MergeSharedValue(s.seen, s.pending, stored)

\* The page keeps as seen its own value, not the merged one.
AsWritten(s) == IF s.pending = NoValue THEN s
              ELSE [s EXCEPT !.seen = s.pending, !.pending = NoValue,
                             !.dirty = {}]

\* Threads whose last change a write of p may replace: those both pages changed,
\* and any once the page's memory is not what it has seen.
Overruled(p) == IF page[p].reread THEN Thread
                ELSE {t \in page[p].dirty : changed[t].by # {p}}

-----------------------------------------------------------------------------
\* A page loads: its store reads the key.
Load(p) ==
    /\ ~page[p].up
    /\ page' = [page EXCEPT ![p] = Read([NoPage EXCEPT !.up = TRUE])]
    /\ UNCHANGED <<stored, changed, excused>>

\* A chat comes into the page: before it is drawn the drafts are read again.
Rehydrate(p) ==
    /\ page[p].up
    /\ page' = [page EXCEPT ![p] = Read(page[p])]
    /\ excused' = excused \cup
         (IF page[p].pending = NoValue THEN {}
          ELSE {t \in Thread : page[p].pending[t] # Drafts(stored)[t]})
    /\ UNCHANGED <<stored, changed>>

\* The user types, a turn is queued, a message is sent or fails to be: the
\* draft of one thread changes, also of a thread the page has left since.
ChangeDraft(p, t, d) ==
    /\ page[p].up /\ page[p].mem[t] # d
    /\ LET mem == [page[p].mem EXCEPT ![t] = d]
       IN  page' = [page EXCEPT ![p].mem = mem, ![p].pending = mem, ![p].dirty = @ \cup {t}]
    /\ changed' = [changed EXCEPT ![t] = [by |-> {p}, draft |-> d]]
    /\ excused' = IF Drafts(page[p].seen)[t] = Drafts(stored)[t] THEN excused \ {t}
                                                                ELSE excused \cup {t}
    /\ UNCHANGED stored

\* The deferred write, or nativeChat.flush as a chat leaves the page.
Write(p) ==
    /\ page[p].up /\ page[p].pending # NoValue
    /\ stored' = Merged(page[p])
    /\ page' = [page EXCEPT ![p] = AsWritten(page[p])]
    /\ excused' = excused \cup Overruled(p)
    /\ UNCHANGED changed

\* Mutant of Close: the page is closed without the flush.
CloseUnflushed(p) ==
    /\ page[p].up
    /\ page' = [page EXCEPT ![p] = NoPage]
    /\ excused' = excused \cup Overruled(p)
    /\ UNCHANGED <<stored, changed>>

\* The app closes the page: it flushes first.
Close(p) ==
    /\ page[p].up
    /\ stored' = Merged(page[p])
    /\ page' = [page EXCEPT ![p] = NoPage]
    /\ excused' = excused \cup Overruled(p)
    /\ UNCHANGED changed

\* The page's process ends: what it had not written is gone.
Crash(p) ==
    /\ page[p].up
    /\ page' = [page EXCEPT ![p] = NoPage]
    /\ excused' = excused \cup page[p].dirty
    /\ UNCHANGED <<stored, changed>>

DraftsNext == \E p \in Page :
    \/ Load(p) \/ Rehydrate(p) \/ Write(p) \/ Close(p) \/ Crash(p)
    \/ \E t \in Thread, d \in Draft \cup {NoDraft} : ChangeDraft(p, t, d)

DraftsSpec == DraftsInit /\ [][DraftsNext]_draftVars

-----------------------------------------------------------------------------
DraftsOK ==
    /\ stored \in Value \cup {NoValue}
    /\ page \in [Page -> PageState]
    /\ changed \in [Thread -> [by : SUBSET Page, draft : Draft \cup {NoDraft}]]
    /\ excused \subseteq Thread

\* A page's write leaves every thread alone that the page did not change itself
\* since its last write, however old its copy of it is, unless the page last
\* read the drafts with a write still to come.
OthersKept ==
    [][\A p \in Page :
          page[p].up /\ stored' # stored /\ page'[p] # page[p] /\ ~page[p].reread
              => \A t \in Thread \ page[p].dirty : Drafts(stored')[t] = Drafts(stored)[t]]_draftVars

\* No draft is lost: the last change of each is stored, or is in the write its
\* page has still to make, but for the excused ones: a page that crashed with
\* it, two pages that changed the same thread before either knew of the other,
\* one that read again with a change still to be written.
NothingLost ==
    \A t \in Thread \ excused :
        \A p \in changed[t].by :
            \/ Drafts(stored)[t] = changed[t].draft
            \/ page[p].pending # NoValue /\ page[p].pending[t] = changed[t].draft
=============================================================================
