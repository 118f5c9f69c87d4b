---------------------------- MODULE PagePartsProofs ----------------------------
(***************************************************************************)
(* Proofs about the parts of the page that share no state with one another,  *)
(* one section a part, each for any values of its constants: the drafts the   *)
(* pages share, the files given, what is built, what a frame shows, the        *)
(* config a page was given, what a preset restores, a turn's patch, and what   *)
(* a click in the diff stands for.                                             *)
(***************************************************************************)
EXTENDS SharedDrafts, ComposerFiles, VendorTree, VisualFrame, PageCalls, ModelPicker, TurnDiff, DiffPage,
        FiniteSetTheorems, FunctionTheorems, SequenceTheorems,
        WellFoundedInduction, TLAPS
-----------------------------------------------------------------------------
(* Numbers.                                                                *)

\* The natural numbers are well founded.
LEMMA LeastNatural ==
    ASSUME NEW T \in SUBSET Nat, T # {}
    PROVE  \E x \in T : \A y \in T : x <= y
<1> DEFINE U == {0..k : k \in T}
<1>1. U \subseteq FiniteSubsetsOf(Nat) /\ U # {}
  <2>1. ASSUME NEW k \in T PROVE 0..k \in FiniteSubsetsOf(Nat)
    BY FS_Interval DEF FiniteSubsetsOf
  <2> QED
    BY <2>1
<1>2. IsWellFoundedOn(StrictSubsetOrdering(Nat), FiniteSubsetsOf(Nat))
  BY FS_StrictSubsetOrderingWellFounded
<1>3. PICK u \in U : \A v \in U : <<v, u>> \notin StrictSubsetOrdering(Nat)
  <2> HIDE DEF U
  <2> QED
    BY <1>1, <1>2, WFMin
<1>4. PICK x \in T : u = 0..x
  OBVIOUS
<1>5. ASSUME NEW y \in T, y < x PROVE FALSE
  <2>1. 0..y \in U /\ 0..y \subseteq 0..x /\ x \in 0..x /\ x \notin 0..y
    BY <1>5
  <2>2. <<0..y, 0..x>> \in StrictSubsetOrdering(Nat)
    BY <2>1 DEF StrictSubsetOrdering
  <2> QED
    BY <1>3, <1>4, <2>1, <2>2
<1> QED
  BY <1>5

\* What holds of 0, and of each number after one it holds of, holds up to n.
LEMMA CountingUp ==
    ASSUME NEW n \in Nat, NEW S, 0 \in S, \A k \in 0..(n - 1) : k \in S => k + 1 \in S
    PROVE  \A k \in 0..n : k \in S
<1> DEFINE Out == {k \in 0..n : k \notin S}
<1> SUFFICES ASSUME Out # {} PROVE FALSE
  OBVIOUS
<1>1. PICK x \in Out : \A y \in Out : x <= y
  <2>1. Out \in SUBSET Nat
    OBVIOUS
  <2> HIDE DEF Out
  <2> QED
    BY <2>1, LeastNatural
<1>2. x \in Nat /\ x # 0 /\ x <= n
  OBVIOUS
<1>3. x - 1 \in 0..(n - 1) /\ (x - 1) + 1 = x /\ x - 1 \notin Out
  BY <1>1, <1>2
<1> QED
  BY <1>3

-----------------------------------------------------------------------------
(* SharedDrafts: no draft is lost that is not excused.                      *)

\* What holds of a page by itself: closed, it holds nothing; its write has what
\* it changed; and unless it read the drafts with a write still to come, it
\* writes its memory, which is what it has seen but for what it changed.
PageSound(p) ==
    /\ ~page[p].up => page[p] = NoPage
    /\ page[p].dirty # {} => page[p].pending # NoValue
    /\ page[p].up /\ ~page[p].reread =>
         /\ page[p].pending # NoValue => page[p].pending = page[p].mem
         /\ \A t \in Thread \ page[p].dirty : page[p].mem[t] = Drafts(page[p].seen)[t]
    /\ \A t \in Thread : stored = NoValue => page[p].seen = NoValue

\* What holds of a page and a thread it was the last to change: its memory and
\* its write have the change, what is stored has it once it was written, and
\* nobody has stored anything else of the thread that the page has not seen.
Own(p, t) ==
    p \in changed[t].by /\ t \notin excused =>
        /\ page[p].pending # NoValue => page[p].pending[t] = changed[t].draft
        /\ t \notin page[p].dirty => Drafts(stored)[t] = changed[t].draft
        /\ page[p].up => /\ page[p].mem[t] = changed[t].draft
                         /\ Drafts(page[p].seen)[t] = Drafts(stored)[t]

OneOwner(t) == \A p, q \in changed[t].by : p = q

Safe ==
    /\ DraftsOK
    /\ \A p \in Page : PageSound(p)
    /\ \A t \in Thread : OneOwner(t)
    /\ \A p \in Page, t \in Thread : Own(p, t)

-----------------------------------------------------------------------------
\* Whatever was parsed is a value (parse, mergeField and mergeSharedValue).
LEMMA DraftsTyped ==
    ASSUME NEW v \in Value \cup {NoValue}
    PROVE  Drafts(v) \in Value
BY DEF Drafts, Value, NoDrafts

\* Where there is a thread, no value is the absent one.
LEMMA NotAbsent ==
    ASSUME NEW t \in Thread, NEW v \in Value
    PROVE  v # NoValue
<1>1. DOMAIN v = Thread
  BY DEF Value
<1>2. DOMAIN NoValue = {}
  BY DEF NoValue
<1> QED
  BY <1>1, <1>2

LEMMA MergedTyped ==
    ASSUME stored \in Value \cup {NoValue}, NEW s \in PageState
    PROVE  /\ Merged(s) \in Value \cup {NoValue}
           /\ s.pending # NoValue => Merged(s) \in Value
<1>1. s.seen \in Value \cup {NoValue} /\ s.pending \in Value \cup {NoValue}
  BY DEF PageState
<1>2. ASSUME stored \notin {NoValue, s.seen}, s.pending # NoValue
      PROVE  MergeField(Drafts(s.seen), s.pending, stored) \in Value
  BY <1>1, <1>2, DraftsTyped DEF MergeField, Value
<1> QED
  BY <1>1, <1>2 DEF Merged, MergeSharedValue

\* The closed page and the steps of a page's own state are well typed.
LEMMA PagesTyped ==
    ASSUME stored \in Value \cup {NoValue}, NEW s \in PageState
    PROVE  /\ NoPage \in PageState
           /\ Read(s) \in PageState
           /\ Read([NoPage EXCEPT !.up = TRUE]) \in PageState
           /\ AsWritten(s) \in PageState
<1>1. NoPage \in PageState
  BY DEF NoPage, PageState, NoDrafts, Value
<1>2. ASSUME NEW r \in PageState PROVE Read(r) \in PageState
  BY DraftsTyped DEF Read, PageState
<1>3. [NoPage EXCEPT !.up = TRUE] \in PageState
  BY <1>1 DEF PageState
<1>4. AsWritten(s) \in PageState
  BY DEF AsWritten, PageState
<1> QED
  BY <1>1, <1>2, <1>3, <1>4

LEMMA TypeStep == DraftsOK /\ [DraftsNext]_draftVars => DraftsOK'
<1> SUFFICES ASSUME DraftsOK, [DraftsNext]_draftVars
             PROVE  DraftsOK'
  OBVIOUS
<1>1. CASE UNCHANGED draftVars
  BY <1>1 DEF draftVars, DraftsOK
<1>2. ASSUME NEW p \in Page, Load(p) \/ Rehydrate(p) \/ Write(p) \/ Close(p) \/ Crash(p)
      PROVE  DraftsOK'
  <2> page[p] \in PageState /\ page[p].dirty \subseteq Thread
    BY DEF DraftsOK, PageState
  <2>1. /\ Merged(page[p]) \in Value \cup {NoValue}
        /\ NoPage \in PageState /\ Read(page[p]) \in PageState
        /\ Read([NoPage EXCEPT !.up = TRUE]) \in PageState /\ AsWritten(page[p]) \in PageState
    BY MergedTyped, PagesTyped DEF DraftsOK
  <2>2. CASE Load(p)
    BY <2>1, <2>2 DEF Load, DraftsOK
  <2>3. CASE Rehydrate(p)
    BY <2>1, <2>3 DEF Rehydrate, DraftsOK
  <2>4. Overruled(p) \subseteq Thread
    BY DEF Overruled
  <2>5. CASE Write(p)
    BY <2>1, <2>4, <2>5 DEF Write, DraftsOK
  <2>6. CASE Close(p)
    BY <2>1, <2>4, <2>6 DEF Close, DraftsOK
  <2>7. CASE Crash(p)
    BY <2>1, <2>7 DEF Crash, DraftsOK
  <2> QED
    BY <1>2, <2>2, <2>3, <2>5, <2>6, <2>7
<1>3. ASSUME NEW p \in Page, NEW t \in Thread, NEW d \in Draft \cup {NoDraft}, ChangeDraft(p, t, d)
      PROVE  DraftsOK'
  <2> DEFINE mem == [page[p].mem EXCEPT ![t] = d]
  <2>1. page[p] \in PageState
    BY DEF DraftsOK
  <2>2. mem \in Value
    BY <2>1 DEF PageState, Value
  <2>3. page' = [page EXCEPT ![p] = [page[p] EXCEPT !.mem = mem, !.pending = mem,
                                                    !.dirty = page[p].dirty \cup {t}]]
    BY <1>3 DEF ChangeDraft, DraftsOK
  <2>4. [page[p] EXCEPT !.mem = mem, !.pending = mem, !.dirty = page[p].dirty \cup {t}] \in PageState
    BY <2>1, <2>2 DEF PageState
  <2>5. page' \in [Page -> PageState]
    BY <2>3, <2>4 DEF DraftsOK
  <2>6. changed' \in [Thread -> [by : SUBSET Page, draft : Draft \cup {NoDraft}]]
    BY <1>3 DEF ChangeDraft, DraftsOK
  <2> QED
    BY <1>3, <2>5, <2>6 DEF ChangeDraft, DraftsOK
<1> QED
  BY <1>1, <1>2, <1>3 DEF DraftsNext

-----------------------------------------------------------------------------
\* A merge leaves alone what the page did not change.
LEMMA MergeKeeps ==
    ASSUME DraftsOK, NEW p \in Page, PageSound(p), page[p].up, ~page[p].reread,
           NEW t \in Thread \ page[p].dirty
    PROVE  Drafts(Merged(page[p]))[t] = Drafts(stored)[t]
<1> DEFINE s == page[p]
<1>1. s \in PageState /\ s.seen \in Value \cup {NoValue} /\ s.pending \in Value \cup {NoValue}
  BY DEF DraftsOK, PageState
<1>2. CASE s.pending = NoValue
  BY <1>2 DEF Merged
<1>3. CASE s.pending # NoValue
  <2>1. s.pending[t] = Drafts(s.seen)[t]
    BY <1>3 DEF PageSound
  <2>2. Drafts(s.pending) = s.pending
    BY <1>3 DEF Drafts
  <2>3. CASE stored \in {NoValue, s.seen}
    <3>1. Drafts(stored) = Drafts(s.seen)
      BY <2>3 DEF PageSound
    <3> QED
      BY <1>3, <2>1, <2>2, <2>3, <3>1 DEF Merged, MergeSharedValue
  <2>4. CASE stored \notin {NoValue, s.seen}
    <3> DEFINE m == MergeField(Drafts(s.seen), s.pending, stored)
    <3>1. Merged(s) = m
      BY <1>3, <2>4 DEF Merged, MergeSharedValue
    <3>2. m \in Value
      BY <3>1, <1>1, <1>3, MergedTyped DEF DraftsOK
    <3>3. m[t] = stored[t]
      BY <2>1 DEF MergeField
    <3> QED
      BY <2>4, <3>1, <3>2, <3>3, NotAbsent DEF Drafts
  <2> QED
    BY <2>3, <2>4
<1> QED
  BY <1>2, <1>3

\* A merge takes over what the page writes, where it has seen what is stored.
LEMMA MergeTakes ==
    ASSUME DraftsOK, NEW p \in Page, page[p].pending # NoValue,
           NEW t \in Thread, Drafts(page[p].seen)[t] = Drafts(stored)[t]
    PROVE  Drafts(Merged(page[p]))[t] = page[p].pending[t]
<1> DEFINE s == page[p]
<1>1. s \in PageState /\ s.seen \in Value \cup {NoValue} /\ s.pending \in Value \cup {NoValue}
  BY DEF DraftsOK, PageState
<1>2. CASE stored \in {NoValue, s.seen}
  BY <1>1, <1>2 DEF Merged, MergeSharedValue, Drafts
<1>3. CASE stored \notin {NoValue, s.seen}
  <2> DEFINE m == MergeField(Drafts(s.seen), s.pending, stored)
  <2>1. Merged(s) = m
    BY <1>3 DEF Merged, MergeSharedValue
  <2>2. m \in Value
    BY <2>1, <1>1, MergedTyped DEF DraftsOK
  <2>3. Drafts(stored) = stored
    BY <1>3 DEF Drafts
  <2>4. m[t] = s.pending[t]
    BY <2>3 DEF MergeField
  <2> QED
    BY <2>1, <2>2, <2>4, NotAbsent DEF Drafts
<1> QED
  BY <1>2, <1>3

\* What another page stores leaves a draft of this page's alone.
LEMMA MergeOfAnother ==
    ASSUME Safe, NEW r \in Page, page[r].up, NEW q \in Page, q # r,
           NEW t \in Thread, q \in changed[t].by, t \notin Overruled(r)
    PROVE  Drafts(Merged(page[r]))[t] = Drafts(stored)[t]
<1>1. ~page[r].reread /\ t \notin page[r].dirty
  BY DEF Overruled
<1> QED
  BY <1>1, MergeKeeps DEF Safe

\* What a page stores has its own last changes.
LEMMA MergeOfItsOwn ==
    ASSUME Safe, NEW r \in Page, page[r].up,
           NEW t \in Thread, r \in changed[t].by, t \notin excused
    PROVE  Drafts(Merged(page[r]))[t] = changed[t].draft
<1>1. PageSound(r) /\ Own(r, t)
  BY DEF Safe
<1>2. CASE page[r].pending = NoValue
  BY <1>1, <1>2 DEF Merged, PageSound, Own
<1>3. CASE page[r].pending # NoValue
  BY <1>1, <1>3, MergeTakes DEF Safe, Own
<1> QED
  BY <1>2, <1>3

LEMMA InitSafe == DraftsInit => Safe
<1> SUFFICES ASSUME DraftsInit PROVE Safe
  OBVIOUS
<1>1. DraftsOK
  <2>1. NoPage \in PageState
    BY DEF NoPage, PageState, NoDrafts, Value
  <2> QED
    BY <2>1 DEF DraftsInit, DraftsOK
<1> QED
  BY <1>1 DEF DraftsInit, Safe, PageSound, Own, OneOwner, NoPage

LEMMA LoadSafe ==
    ASSUME Safe, DraftsOK', NEW r \in Page, Load(r)
    PROVE  Safe'
<1>1. /\ page[r] = NoPage
      /\ UNCHANGED <<stored, changed, excused>>
      /\ page'[r] = Read([NoPage EXCEPT !.up = TRUE])
      /\ \A q \in Page \ {r} : page'[q] = page[q]
  BY DEF Load, Safe, PageSound, DraftsOK
<1>2. /\ page'[r].up /\ page'[r].mem = Drafts(stored) /\ page'[r].seen = stored
      /\ page'[r].pending = NoValue /\ page'[r].dirty = {} /\ ~page'[r].reread
  BY <1>1 DEF Read, NoPage
<1>3. ASSUME NEW q \in Page PROVE PageSound(q)'
  <2>1. CASE q = r
    BY <1>1, <1>2, <2>1 DEF PageSound, Drafts
  <2>2. CASE q # r
    BY <1>1, <2>2 DEF Safe, PageSound, Drafts
  <2> QED
    BY <2>1, <2>2
<1>4. ASSUME NEW q \in Page, NEW t \in Thread PROVE Own(q, t)'
  <2>1. CASE q = r
    <3>1. r \in changed[t].by /\ t \notin excused => Drafts(stored)[t] = changed[t].draft
      BY <1>1 DEF Safe, Own, NoPage
    <3> QED
      BY <1>1, <1>2, <2>1, <3>1 DEF Own, Drafts
  <2>2. CASE q # r
    BY <1>1, <2>2 DEF Safe, Own, Drafts
  <2> QED
    BY <2>1, <2>2
<1> QED
  BY <1>1, <1>3, <1>4 DEF Safe, OneOwner

LEMMA RehydrateSafe ==
    ASSUME Safe, DraftsOK', NEW r \in Page, Rehydrate(r)
    PROVE  Safe'
<1>1. /\ UNCHANGED <<stored, changed>> /\ excused \subseteq excused' /\ page[r].up
      /\ page'[r] = Read(page[r])
      /\ \A q \in Page \ {r} : page'[q] = page[q]
  BY DEF Rehydrate, Safe, DraftsOK
<1>2. page[r] \in PageState
  BY DEF Safe, DraftsOK
<1>3. /\ page'[r].up /\ page'[r].mem = Drafts(stored) /\ page'[r].seen = stored
      /\ page'[r].pending = page[r].pending /\ page'[r].dirty = page[r].dirty
      /\ page'[r].reread <=> page[r].pending # NoValue
  BY <1>1, <1>2 DEF Read, PageState
<1>4. ASSUME NEW q \in Page PROVE PageSound(q)'
  <2>1. CASE q = r
    BY <1>1, <1>3, <2>1 DEF Safe, PageSound, Drafts
  <2>2. CASE q # r
    BY <1>1, <2>2 DEF Safe, PageSound, Drafts
  <2> QED
    BY <2>1, <2>2
<1>5. ASSUME NEW q \in Page, NEW t \in Thread PROVE Own(q, t)'
  <2>1. CASE q = r
    <3> SUFFICES ASSUME r \in changed'[t].by, t \notin excused' PROVE Own(r, t)'
      BY <2>1 DEF Own
    <3>1. PageSound(r) /\ Own(r, t) /\ r \in changed[t].by /\ t \notin excused
      BY <1>1 DEF Safe
    <3>2. Drafts(stored)[t] = changed[t].draft
      <4>1. CASE page[r].pending = NoValue
        BY <3>1, <4>1 DEF PageSound, Own
      <4>2. CASE page[r].pending # NoValue
        <5>1. page[r].pending[t] = Drafts(stored)[t]
          BY <4>2 DEF Rehydrate
        <5> QED
          BY <3>1, <4>2, <5>1 DEF Own
      <4> QED
        BY <4>1, <4>2
    <3> QED
      BY <1>1, <1>3, <3>1, <3>2 DEF Own, Drafts
  <2>2. CASE q # r
    BY <1>1, <2>2 DEF Safe, Own, Drafts
  <2> QED
    BY <2>1, <2>2
<1> QED
  BY <1>1, <1>4, <1>5 DEF Safe, OneOwner

LEMMA ChangeSafe ==
    ASSUME Safe, DraftsOK', NEW r \in Page, NEW u \in Thread, NEW d \in Draft \cup {NoDraft},
           ChangeDraft(r, u, d)
    PROVE  Safe'
<1> DEFINE mem == [page[r].mem EXCEPT ![u] = d]
<1>1. page[r] \in PageState /\ mem \in Value /\ page[r].mem \in Value
  BY DEF Safe, DraftsOK, PageState, Value
<1>2. /\ stored' = stored /\ page[r].up
      /\ \A q \in Page \ {r} : page'[q] = page[q]
  BY DEF ChangeDraft, Safe, DraftsOK
<1>3. page'[r] = [page[r] EXCEPT !.mem = mem, !.pending = mem, !.dirty = page[r].dirty \cup {u}]
  BY DEF ChangeDraft, Safe, DraftsOK
<1>4. mem # NoValue /\ mem[u] = d /\ \A t \in Thread \ {u} : mem[t] = page[r].mem[t]
  <2>1. mem # NoValue
    BY <1>1, NotAbsent
  <2> QED
    BY <1>1, <2>1 DEF Value
<1>5. /\ changed'[u] = [by |-> {r}, draft |-> d]
      /\ \A t \in Thread \ {u} : changed'[t] = changed[t] /\ (t \in excused' <=> t \in excused)
      /\ u \notin excused' => Drafts(page[r].seen)[u] = Drafts(stored)[u]
  BY DEF ChangeDraft, Safe, DraftsOK
<1> HIDE DEF mem
<1>6. /\ page'[r].up /\ page'[r].mem = mem /\ page'[r].seen = page[r].seen
      /\ page'[r].pending = mem /\ page'[r].dirty = page[r].dirty \cup {u}
      /\ page'[r].reread = page[r].reread
  <2>1. ASSUME NEW s \in PageState, NEW m, NEW touched
        PROVE  LET next == [s EXCEPT !.mem = m, !.pending = m, !.dirty = touched]
               IN  /\ next.up = s.up /\ next.mem = m /\ next.seen = s.seen
                   /\ next.pending = m /\ next.dirty = touched /\ next.reread = s.reread
    BY DEF PageState
  <2> QED
    BY <1>1, <1>2, <1>3, <2>1
<1>7. ASSUME NEW q \in Page PROVE PageSound(q)'
  <2>1. CASE q = r
    <3>1. ASSUME ~page[r].reread, NEW t \in Thread \ (page[r].dirty \cup {u})
          PROVE  mem[t] = Drafts(page[r].seen)[t]
      BY <1>2, <1>4, <3>1 DEF Safe, PageSound
    <3>2. \A t \in Thread : stored = NoValue => page[r].seen = NoValue
      BY DEF Safe, PageSound
    <3>3. /\ page'[r].pending # NoValue /\ page'[r].pending = page'[r].mem
          /\ ~page'[r].reread => \A t \in Thread \ page'[r].dirty :
                                    page'[r].mem[t] = Drafts(page'[r].seen)[t]
      BY <1>6, <1>4, <3>1
    <3>4. \A t \in Thread : stored' = NoValue => page'[r].seen = NoValue
      BY <1>2, <1>6, <3>2
    <3> QED
      BY <1>6, <2>1, <3>3, <3>4 DEF PageSound, Drafts
  <2>2. CASE q # r
    BY <1>2, <2>2 DEF Safe, PageSound, Drafts
  <2> QED
    BY <2>1, <2>2
<1>8. ASSUME NEW q \in Page, NEW t \in Thread PROVE Own(q, t)'
  <2>1. CASE t = u
    BY <1>2, <1>6, <1>4, <1>5, <2>1 DEF Own, Drafts
  <2>2. CASE t # u /\ q = r
    <3>1. Own(r, t)
      BY DEF Safe
    <3>2. SUFFICES ASSUME r \in changed[t].by, t \notin excused PROVE Own(r, t)'
      BY <1>5, <2>2 DEF Own
    <3>3. /\ page[r].mem[t] = changed[t].draft
          /\ Drafts(page[r].seen)[t] = Drafts(stored)[t]
          /\ t \notin page[r].dirty => Drafts(stored)[t] = changed[t].draft
      BY <1>2, <3>1, <3>2 DEF Own
    <3>4. mem[t] = changed'[t].draft /\ changed'[t].draft = changed[t].draft
      BY <1>4, <1>5, <2>2, <3>3
    <3>5. Drafts(stored') = Drafts(stored) /\ Drafts(page'[r].seen) = Drafts(page[r].seen)
      BY <1>2, <1>6 DEF Drafts
    <3> QED
      BY <1>6, <3>3, <3>4, <3>5 DEF Own, Drafts
  <2>3. CASE t # u /\ q # r
    <3>1. Own(q, t)
      BY DEF Safe
    <3> QED
      BY <1>2, <1>5, <2>3, <3>1 DEF Own, Drafts
  <2> QED
    BY <2>1, <2>2, <2>3
<1>9. ASSUME NEW t \in Thread PROVE OneOwner(t)'
  BY <1>5 DEF Safe, OneOwner
<1> QED
  BY <1>7, <1>8, <1>9 DEF Safe

LEMMA WriteSafe ==
    ASSUME Safe, DraftsOK', NEW r \in Page, Write(r)
    PROVE  Safe'
<1>1. /\ page[r].up /\ page[r].pending # NoValue /\ page[r] \in PageState
      /\ stored' = Merged(page[r]) /\ changed' = changed
      /\ excused' = excused \cup Overruled(r)
      /\ page'[r] = AsWritten(page[r])
      /\ \A q \in Page \ {r} : page'[q] = page[q]
  BY DEF Write, Safe, DraftsOK
<1>2. /\ page'[r].up /\ page'[r].mem = page[r].mem /\ page'[r].seen = page[r].pending
      /\ page'[r].pending = NoValue /\ page'[r].dirty = {}
      /\ page'[r].reread = page[r].reread
  BY <1>1 DEF AsWritten, PageState
<1>3. \A t \in Thread : stored' # NoValue
  BY <1>1, MergedTyped, NotAbsent DEF Safe, DraftsOK
<1>4. ASSUME NEW q \in Page PROVE PageSound(q)'
  <2>1. CASE q = r
    BY <1>1, <1>2, <1>3, <2>1 DEF Safe, PageSound, Drafts
  <2>2. CASE q # r
    BY <1>1, <1>3, <2>2 DEF Safe, PageSound, Drafts
  <2> QED
    BY <2>1, <2>2
<1>5. ASSUME NEW q \in Page, NEW t \in Thread PROVE Own(q, t)'
  <2> SUFFICES ASSUME q \in changed[t].by, t \notin excused, t \notin Overruled(r)
               PROVE  Own(q, t)'
    BY <1>1 DEF Own
  <2>1. Own(q, t)
    BY DEF Safe
  <2>2. CASE q = r
    <3>1. Drafts(stored')[t] = changed[t].draft
      BY <1>1, <2>2, MergeOfItsOwn DEF Drafts
    <3>2. Drafts(page[r].pending)[t] = changed[t].draft
      BY <1>1, <2>1, <2>2 DEF Own, Drafts
    <3> QED
      BY <1>1, <1>2, <2>1, <2>2, <3>1, <3>2 DEF Own, Drafts
  <2>3. CASE q # r
    <3>1. Drafts(stored')[t] = Drafts(stored)[t]
      BY <1>1, <2>3, MergeOfAnother DEF Drafts
    <3> QED
      BY <1>1, <2>1, <2>3, <3>1 DEF Own, Drafts
  <2> QED
    BY <2>2, <2>3
<1> QED
  BY <1>1, <1>4, <1>5 DEF Safe, OneOwner

LEMMA CloseSafe ==
    ASSUME Safe, DraftsOK', NEW r \in Page, Close(r)
    PROVE  Safe'
<1>1. /\ page[r].up /\ page[r] \in PageState
      /\ stored' = Merged(page[r]) /\ changed' = changed
      /\ excused' = excused \cup Overruled(r)
      /\ page'[r] = NoPage
      /\ \A q \in Page \ {r} : page'[q] = page[q]
  BY DEF Close, Safe, DraftsOK
<1>2. ASSUME NEW t \in Thread, stored' = NoValue PROVE stored = NoValue
  BY <1>1, <1>2, MergedTyped, NotAbsent DEF Merged, Safe, DraftsOK
<1>3. ASSUME NEW q \in Page PROVE PageSound(q)'
  <2>1. CASE q = r
    BY <1>1, <2>1 DEF PageSound, NoPage
  <2>2. CASE q # r
    BY <1>1, <1>2, <2>2 DEF Safe, PageSound, Drafts
  <2> QED
    BY <2>1, <2>2
<1>4. ASSUME NEW q \in Page, NEW t \in Thread PROVE Own(q, t)'
  <2> SUFFICES ASSUME q \in changed[t].by, t \notin excused, t \notin Overruled(r)
               PROVE  Own(q, t)'
    BY <1>1 DEF Own
  <2>1. Own(q, t)
    BY DEF Safe
  <2>2. CASE q = r
    <3>1. Drafts(stored')[t] = changed[t].draft
      BY <1>1, <2>2, MergeOfItsOwn DEF Drafts
    <3> QED
      BY <1>1, <2>2, <3>1 DEF Own, NoPage
  <2>3. CASE q # r
    <3>1. Drafts(stored')[t] = Drafts(stored)[t]
      BY <1>1, <2>3, MergeOfAnother DEF Drafts
    <3> QED
      BY <1>1, <2>1, <2>3, <3>1 DEF Own, Drafts
  <2> QED
    BY <2>2, <2>3
<1> QED
  BY <1>1, <1>3, <1>4 DEF Safe, OneOwner

LEMMA CrashSafe ==
    ASSUME Safe, DraftsOK', NEW r \in Page, Crash(r)
    PROVE  Safe'
<1>1. /\ stored' = stored /\ changed' = changed /\ excused' = excused \cup page[r].dirty
      /\ page'[r] = NoPage
      /\ \A q \in Page \ {r} : page'[q] = page[q]
  BY DEF Crash, Safe, DraftsOK
<1>2. ASSUME NEW q \in Page PROVE PageSound(q)'
  <2>1. CASE q = r
    BY <1>1, <2>1 DEF PageSound, NoPage
  <2>2. CASE q # r
    BY <1>1, <2>2 DEF Safe, PageSound, Drafts
  <2> QED
    BY <2>1, <2>2
<1>3. ASSUME NEW q \in Page, NEW t \in Thread PROVE Own(q, t)'
  <2>1. CASE q = r
    BY <1>1, <2>1 DEF Safe, Own, NoPage, Drafts
  <2>2. CASE q # r
    BY <1>1, <2>2 DEF Safe, Own, Drafts
  <2> QED
    BY <2>1, <2>2
<1> QED
  BY <1>1, <1>2, <1>3 DEF Safe, OneOwner

LEMMA SafeStep == Safe /\ [DraftsNext]_draftVars => Safe'
<1> SUFFICES ASSUME Safe, [DraftsNext]_draftVars PROVE Safe'
  OBVIOUS
<1>1. DraftsOK'
  BY TypeStep DEF Safe
<1>2. CASE UNCHANGED draftVars
  BY <1>1, <1>2 DEF draftVars, Safe, PageSound, Own, OneOwner, Drafts
<1>3. CASE DraftsNext
  BY <1>1, <1>3, LoadSafe, RehydrateSafe, ChangeSafe, WriteSafe, CloseSafe, CrashSafe DEF DraftsNext
<1> QED
  BY <1>2, <1>3

LEMMA AlwaysSafe == DraftsSpec => []Safe
BY InitSafe, SafeStep, PTL DEF DraftsSpec

\* Whatever pages load, are drawn again, write, close and crash, the shared
\* value and every page's memory of it are well typed.
THEOREM DraftsTypeCorrect == DraftsSpec => []DraftsOK
<1>1. Safe => DraftsOK
  BY DEF Safe
<1> QED
  BY <1>1, AlwaysSafe, PTL

\* The last change of every draft is stored or on its way, unless excused
\* (SharedStorage and mergeSharedValue).
THEOREM NoDraftIsLost == DraftsSpec => []NothingLost
<1>1. Safe => NothingLost
  <2> SUFFICES ASSUME Safe, NEW t \in Thread \ excused, NEW p \in changed[t].by
               PROVE  \/ Drafts(stored)[t] = changed[t].draft
                      \/ page[p].pending # NoValue /\ page[p].pending[t] = changed[t].draft
    BY DEF NothingLost
  <2>1. p \in Page
    BY DEF Safe, DraftsOK
  <2>2. PageSound(p) /\ Own(p, t)
    BY <2>1 DEF Safe
  <2> QED
    BY <2>2 DEF PageSound, Own
<1> QED
  BY <1>1, AlwaysSafe, PTL

\* A page's write leaves the other pages' drafts alone (mergeSharedValue).
THEOREM OthersAlwaysKept == DraftsSpec => OthersKept
<1> DEFINE KeepsOthers == \A p \in Page :
          page[p].up /\ stored' # stored /\ page'[p] # page[p] /\ ~page[p].reread
              => \A t \in Thread \ page[p].dirty : Drafts(stored')[t] = Drafts(stored)[t]
<1>1. ASSUME Safe, [DraftsNext]_draftVars PROVE [KeepsOthers]_draftVars
  <2> SUFFICES ASSUME DraftsNext, NEW p \in Page, page[p].up, stored' # stored,
                      page'[p] # page[p], ~page[p].reread,
                      NEW t \in Thread \ page[p].dirty
               PROVE  Drafts(stored')[t] = Drafts(stored)[t]
    BY <1>1
  <2>1. Write(p) \/ Close(p)
    <3>1. PICK r \in Page : Write(r) \/ Close(r)
      BY DEF DraftsNext, Load, Rehydrate, Crash, ChangeDraft
    <3>2. r = p
      BY <1>1, <3>1 DEF Write, Close, Safe, DraftsOK
    <3> QED
      BY <3>1, <3>2
  <2>2. stored' = Merged(page[p])
    BY <2>1 DEF Write, Close
  <2>3. Drafts(Merged(page[p]))[t] = Drafts(stored)[t]
    BY <1>1, MergeKeeps DEF Safe
  <2> QED
    BY <2>2, <2>3 DEF Drafts
<1> QED
  BY <1>1, AlwaysSafe, PTL DEF DraftsSpec, OthersKept

-----------------------------------------------------------------------------
(* ComposerFiles: where a file is.                                         *)

Gesture == {"app", "editor", "page"}

FileTypes ==
    /\ intake \in Seq(SUBSET File) /\ given \in [File -> Gesture \cup {"no"}]
    /\ asking \in BOOLEAN /\ late \subseteq File
    /\ mentioned \subseteq File /\ attached \subseteq File
    /\ sending \in [at : {"no", "images", "command", "dispatch"},
                    mentions : SUBSET File, images : SUBSET File]

\* A file is in one job of the queue, and in one place.
OnePlace ==
    /\ \A i, j \in DOMAIN intake : \A f \in intake[i] \cap intake[j] : i = j
    /\ \A f \in mentioned : f \notin attached \cup Preparing \cup refused \cup Carried \cup sent
    /\ \A f \in attached : f \notin Preparing \cup refused \cup Carried \cup sent
    /\ \A f \in Preparing : f \notin refused \cup Carried \cup sent
    /\ \A f \in Carried : f \notin refused \cup sent
    /\ \A f \in sent : f \notin refused

Placed ==
    \A f \in File :
        IF given[f] = "no" THEN f \notin Accounted \cup late
        ELSE \/ f \in Accounted
             \/ given[f] = "editor" /\ ~HasPath(f)
             \/ f \in exposed

\* What a command, or a send that fails, may take away was given while it was
\* awaited; a command has the draft's mentions before it.
Awaited ==
    /\ sending.at = "command" =>
          /\ sending.mentions \subseteq mentioned /\ sending.images = {}
          /\ (mentioned \cup attached \cup Preparing) \ sending.mentions \subseteq exposed
    /\ sending.at = "dispatch" => mentioned \subseteq exposed

FileInv == FileTypes /\ OnePlace /\ Placed /\ QuestionShields /\ Awaited

LEMMA EnqueueStep ==
    ASSUME FileTypes, OnePlace, NEW images \in SUBSET File, images \cap Preparing = {},
           intake' = Enqueue(images)
    PROVE  /\ intake' \in Seq(SUBSET File) /\ Preparing' = Preparing \cup images
           /\ \A i, j \in DOMAIN intake' : \A f \in intake'[i] \cap intake'[j] : i = j
<1>1. CASE images = {}
  BY <1>1 DEF Enqueue, FileTypes, OnePlace, Preparing
<1>2. CASE images # {}
  <2>1. intake \in Seq(SUBSET File) /\ intake' = Append(intake, images)
    BY <1>2 DEF Enqueue, FileTypes
  <2>2. /\ intake' \in Seq(SUBSET File) /\ DOMAIN intake' = 1..(Len(intake) + 1)
        /\ intake'[Len(intake) + 1] = images
        /\ \A i \in DOMAIN intake : intake'[i] = intake[i]
        /\ DOMAIN intake = 1..Len(intake) /\ Len(intake) \in Nat
    BY <2>1
  <2>3. Preparing' = Preparing \cup images
    BY <2>2 DEF Preparing
  <2>4. \A i \in DOMAIN intake : intake[i] \cap images = {}
    BY DEF Preparing
  <2>5. ASSUME NEW i \in DOMAIN intake', NEW j \in DOMAIN intake', NEW f \in intake'[i] \cap intake'[j]
        PROVE  i = j
    BY <2>2, <2>4, <2>5 DEF OnePlace
  <2> QED
    BY <2>2, <2>3, <2>5
<1> QED
  BY <1>1, <1>2

LEMMA TailStep ==
    ASSUME FileTypes, OnePlace, intake # <<>>, intake' = Tail(intake)
    PROVE  /\ intake' \in Seq(SUBSET File) /\ Head(intake) \subseteq Preparing
           /\ Preparing' = Preparing \ Head(intake)
           /\ \A i, j \in DOMAIN intake' : \A f \in intake'[i] \cap intake'[j] : i = j
<1>1. intake \in Seq(SUBSET File)
  BY DEF FileTypes
<1>2. /\ intake' \in Seq(SUBSET File) /\ DOMAIN intake' = 1..(Len(intake) - 1)
      /\ \A i \in DOMAIN intake' : i + 1 \in DOMAIN intake /\ intake'[i] = intake[i + 1]
      /\ Head(intake) = intake[1] /\ 1 \in DOMAIN intake
      /\ DOMAIN intake = 1..Len(intake) /\ Len(intake) \in Nat \ {0}
  BY <1>1
<1>3. \A j \in DOMAIN intake \ {1} : \E i \in DOMAIN intake' : j = i + 1
  <2> TAKE j \in DOMAIN intake \ {1}
  <2>1. j - 1 \in DOMAIN intake' /\ j = (j - 1) + 1
    BY <1>2
  <2> QED
    BY <2>1
<1>4. Preparing' = Preparing \ Head(intake)
  <2>1. ASSUME NEW f \in Preparing' PROVE f \in Preparing \ Head(intake)
    <3>1. PICK i \in DOMAIN intake' : f \in intake'[i]
      BY DEF Preparing
    <3>2. f \in intake[i + 1] /\ i + 1 \in DOMAIN intake /\ i + 1 # 1
      BY <1>2, <3>1
    <3> QED
      BY <1>2, <3>2 DEF OnePlace, Preparing
  <2>2. ASSUME NEW f \in Preparing \ Head(intake) PROVE f \in Preparing'
    <3>1. PICK j \in DOMAIN intake : f \in intake[j]
      BY DEF Preparing
    <3>2. PICK i \in DOMAIN intake' : j = i + 1
      BY <1>2, <1>3, <3>1
    <3> QED
      BY <1>2, <3>1, <3>2 DEF Preparing
  <2> QED
    BY <2>1, <2>2
<1>5. ASSUME NEW i \in DOMAIN intake', NEW j \in DOMAIN intake', NEW f \in intake'[i] \cap intake'[j]
      PROVE  i = j
  <2>1. i + 1 = j + 1
    BY <1>2, <1>5 DEF OnePlace
  <2> QED
    BY <1>2, <2>1
<1>6. Head(intake) \subseteq Preparing
  BY <1>2 DEF Preparing
<1> QED
  BY <1>2, <1>4, <1>5, <1>6

\* A gesture gives some files to the prompt, some to the queue of images and
\* names some to the user.
Given(files, by, mention, prepare, tell) ==
    /\ Give(files, by) /\ by \in Gesture
    /\ mention \in SUBSET files /\ prepare \in SUBSET files /\ tell \in SUBSET files
    /\ \A f \in files : /\ f \in mention => f \notin prepare /\ f \notin tell
                        /\ f \in prepare => f \notin tell
                        /\ \/ f \in mention \/ f \in prepare \/ f \in tell
                           \/ by = "editor" /\ ~HasPath(f)
    /\ asking => prepare = {} /\ (mention = {} \/ by = "editor")
    /\ mentioned' = mentioned \cup mention /\ intake' = Enqueue(prepare)
    /\ refused' = refused \cup tell /\ attached' = attached

LEMMA GiveStep ==
    ASSUME FileInv, NEW files \in SUBSET File, NEW by, NEW mention, NEW prepare, NEW tell,
           Given(files, by, mention, prepare, tell)
    PROVE  FileInv'
<1> USE DEF Given
<1>1. /\ \A f \in files : given[f] = "no"
      /\ given' = [f \in File |-> IF f \in files THEN by ELSE given[f]]
      /\ late' = IF asking THEN late \cup files ELSE late
      /\ asking' = asking /\ sending' = sending /\ sent' = sent /\ Carried' = Carried
      /\ exposed' = IF sending.at \in {"command", "dispatch"} THEN exposed \cup files ELSE exposed
  BY DEF Give, sendVars, Carried
<1>2. FileTypes /\ OnePlace /\ Placed /\ QuestionShields /\ Awaited
  BY DEF FileInv
<1>3. \A f \in files : f \notin Accounted \cup late
  BY <1>1, <1>2 DEF Placed
<1>4. /\ intake' \in Seq(SUBSET File) /\ Preparing' = Preparing \cup prepare
      /\ \A i, j \in DOMAIN intake' : \A f \in intake'[i] \cap intake'[j] : i = j
  BY <1>2, <1>3, EnqueueStep DEF Accounted
<1>5. FileTypes'
  BY <1>1, <1>2, <1>4 DEF FileTypes
<1>6. OnePlace'
  BY <1>1, <1>2, <1>3, <1>4 DEF OnePlace, Accounted
<1>10. Accounted' = Accounted \cup mention \cup prepare \cup tell
  BY <1>1, <1>4 DEF Accounted
<1>7. Placed'
  <2> SUFFICES ASSUME NEW f \in File
               PROVE  IF given'[f] = "no"
                      THEN f \notin (Accounted \cup late)'
                      ELSE \/ f \in Accounted'
                           \/ given'[f] = "editor" /\ ~HasPath(f)
                           \/ f \in exposed'
    BY DEF Placed
  <2>1. CASE f \in files
    <3>1. given'[f] = by /\ by # "no"
      BY <1>1, <2>1 DEF Gesture
    <3> QED
      BY <1>10, <2>1, <3>1
  <2>2. CASE f \notin files
    <3>1. given'[f] = given[f]
      BY <1>1, <2>2
    <3> QED
      BY <1>1, <1>2, <1>10, <2>2, <3>1 DEF Placed
  <2> QED
    BY <2>1, <2>2
<1>8. QuestionShields'
  <2> SUFFICES ASSUME NEW f \in late'
               PROVE  /\ f \notin (attached \cup Preparing)'
                      /\ f \in (mentioned \cup Carried \cup sent)' => given'[f] = "editor"
    BY DEF QuestionShields
  <2>1. CASE f \in files
    <3>1. asking /\ f \in File /\ given'[f] = by
      BY <1>1, <1>2, <1>3, <2>1 DEF FileTypes
    <3> QED
      BY <1>1, <1>3, <1>4, <2>1, <3>1 DEF Accounted
  <2>2. CASE f \notin files
    <3>1. /\ f \in late /\ f \in File
          /\ f \in (mentioned \cup Carried \cup sent)' => f \in mentioned \cup Carried \cup sent
      BY <1>1, <1>2, <2>2 DEF FileTypes
    <3>2. f \in mentioned \cup Carried \cup sent => given[f] = "editor"
      BY <1>2, <3>1 DEF QuestionShields
    <3>3. given[f] = "editor" => given'[f] = "editor"
      BY <1>1, <1>2, <2>2, <3>1 DEF FileTypes
    <3>4. f \notin attached \cup Preparing
      BY <1>2, <3>1 DEF QuestionShields
    <3> QED
      BY <1>4, <2>2, <3>1, <3>2, <3>3, <3>4
  <2> QED
    BY <2>1, <2>2
<1>9. Awaited'
  BY <1>1, <1>2, <1>4 DEF Awaited
<1> QED
  BY <1>5, <1>6, <1>7, <1>8, <1>9 DEF FileInv

LEMMA AddStep ==
    ASSUME FileInv, NEW files \in SUBSET File, NEW by \in Gesture, Give(files, by),
           AddToComposer(files)
    PROVE  FileInv'
<1>1. CASE asking
  <2>1. Given(files, by, {}, {}, files)
    BY <1>1 DEF Given, AddToComposer, Refuse, Enqueue
  <2> QED
    BY <2>1, GiveStep
<1>2. CASE ~asking
  <2>1. Given(files, by, {}, Images(files), files \ Images(files))
    BY <1>2 DEF Given, AddToComposer, Images
  <2> QED
    BY <2>1, GiveStep
<1> QED
  BY <1>1, <1>2

\* A step of a message changes neither the queue nor what was given.
LEMMA SendStep ==
    ASSUME FileInv, SendPressed \/ ImagesWaited \/ CommandDone \/ Dispatched \/ DispatchFails
    PROVE  FileInv'
<1>1. FileTypes /\ OnePlace /\ Placed /\ QuestionShields /\ Awaited
  BY DEF FileInv
<1>2. /\ UNCHANGED <<asking, intake, refused, given, late>> /\ Preparing' = Preparing
      /\ exposed \subseteq exposed'
  BY DEF SendPressed, ImagesWaited, CommandDone, Dispatched, DispatchFails, Preparing
<1>3. CASE SendPressed
  <2>1. /\ UNCHANGED <<mentioned, attached, sent, exposed>> /\ sending.at = "no"
        /\ sending' = [at |-> "images", mentions |-> {}, images |-> {}]
    BY <1>3 DEF SendPressed, NoSend
  <2>2. Carried = {} /\ Carried' = {}
    BY <2>1 DEF Carried
  <2> QED
    BY <1>1, <1>2, <2>1, <2>2
       DEF FileInv, FileTypes, OnePlace, Placed, QuestionShields, Awaited, Accounted
<1>4. CASE ImagesWaited
  <2>1. Preparing = {} /\ Carried = {} /\ UNCHANGED <<sent, exposed>>
    BY <1>4 DEF ImagesWaited, Preparing, Carried
  <2>2. CASE /\ sending' = [at |-> "dispatch", mentions |-> mentioned, images |-> attached]
             /\ ClearDraft
    <3>1. mentioned' = {} /\ attached' = {} /\ Carried' = mentioned \cup attached
      BY <2>2 DEF ClearDraft, Carried
    <3>2. FileTypes' /\ OnePlace' /\ Accounted' = Accounted
      BY <1>1, <1>2, <2>1, <2>2, <3>1 DEF FileTypes, OnePlace, Accounted
    <3> QED
      BY <1>1, <1>2, <2>1, <2>2, <3>1, <3>2 DEF FileInv, Placed, QuestionShields, Awaited
  <2>3. CASE /\ attached = {}
             /\ sending' = [at |-> "command", mentions |-> mentioned, images |-> {}]
             /\ UNCHANGED <<mentioned, attached>>
    <3>1. Carried' = {}
      BY <2>3 DEF Carried
    <3>2. FileTypes' /\ OnePlace' /\ Accounted' = Accounted
      BY <1>1, <1>2, <2>1, <2>3, <3>1 DEF FileTypes, OnePlace, Accounted
    <3> QED
      BY <1>1, <1>2, <2>1, <2>3, <3>1, <3>2 DEF FileInv, Placed, QuestionShields, Awaited
  <2> QED
    BY <1>4, <2>2, <2>3 DEF ImagesWaited
<1>5. CASE CommandDone
  <2>1. /\ Carried = {} /\ exposed' = exposed
        /\ sending.mentions \subseteq mentioned /\ sending.images = {}
        /\ (mentioned \cup attached \cup Preparing) \ sending.mentions \subseteq exposed
    BY <1>1, <1>5 DEF CommandDone, Carried, Awaited
  <2>2. CASE sending' = NoSend /\ UNCHANGED <<mentioned, attached, sent>>
    <3>1. Carried' = {}
      BY <2>2 DEF Carried, NoSend
    <3> QED
      BY <1>1, <1>2, <2>1, <2>2, <3>1
         DEF FileInv, FileTypes, OnePlace, Placed, QuestionShields, Awaited, Accounted, NoSend
  <2>3. CASE sending' = NoSend /\ ClearDraft /\ sent' = sent \cup sending.mentions
    <3>1. mentioned' = {} /\ attached' = {} /\ Carried' = {}
      BY <2>3 DEF Carried, NoSend, ClearDraft
    <3>2. FileTypes' /\ OnePlace' /\ QuestionShields' /\ Awaited'
      BY <1>1, <1>2, <2>1, <2>3, <3>1
         DEF FileTypes, OnePlace, QuestionShields, Awaited, NoSend
    <3>3. Accounted' \subseteq Accounted /\ Accounted \subseteq Accounted' \cup exposed
      BY <1>2, <2>1, <2>3, <3>1 DEF Accounted
    <3>4. Placed'
      BY <1>1, <1>2, <2>1, <3>3 DEF Placed
    <3> QED
      BY <3>2, <3>4 DEF FileInv
  <2>4. CASE sending' = [sending EXCEPT !.at = "dispatch"] /\ ClearDraft /\ UNCHANGED sent
    <3>1. /\ mentioned' = {} /\ attached' = {} /\ Carried' = sending.mentions
          /\ sending'.at = "dispatch"
      BY <1>1, <2>1, <2>4 DEF Carried, ClearDraft, FileTypes
    <3>2. FileTypes' /\ OnePlace' /\ QuestionShields' /\ Awaited'
      BY <1>1, <1>2, <2>1, <2>4, <3>1 DEF FileTypes, OnePlace, QuestionShields, Awaited
    <3>3. Accounted' \subseteq Accounted /\ Accounted \subseteq Accounted' \cup exposed
      BY <1>2, <2>1, <2>4, <3>1 DEF Accounted
    <3>4. Placed'
      BY <1>1, <1>2, <2>1, <3>3 DEF Placed
    <3> QED
      BY <3>2, <3>4 DEF FileInv
  <2> QED
    BY <1>5, <2>2, <2>3, <2>4 DEF CommandDone
<1>6. CASE Dispatched
  <2>1. /\ Carried = sending.mentions \cup sending.images /\ sending' = NoSend
        /\ sent' = sent \cup Carried /\ Carried' = {}
        /\ UNCHANGED <<mentioned, attached, exposed>>
    BY <1>6 DEF Dispatched, Carried, NoSend
  <2>2. FileTypes' /\ OnePlace' /\ Accounted' = Accounted
    BY <1>1, <1>2, <2>1 DEF FileTypes, OnePlace, Accounted, NoSend
  <2> QED
    BY <1>1, <1>2, <2>1, <2>2 DEF FileInv, Placed, QuestionShields, Awaited, NoSend
<1>7. CASE DispatchFails
  <2>1. /\ Carried = sending.mentions \cup sending.images /\ sending' = NoSend
        /\ mentioned' = sending.mentions /\ exposed' = exposed \cup sending.images
        /\ Carried' = {} /\ UNCHANGED <<attached, sent>> /\ mentioned \subseteq exposed
    BY <1>1, <1>7 DEF DispatchFails, Carried, NoSend, Awaited
  <2>2. FileTypes' /\ OnePlace'
    BY <1>1, <1>2, <2>1 DEF FileTypes, OnePlace, NoSend
  <2>3. Accounted' \subseteq Accounted /\ Accounted \subseteq Accounted' \cup exposed'
    BY <1>2, <2>1 DEF Accounted
  <2>4. Placed'
    BY <1>1, <1>2, <2>3 DEF Placed
  <2>5. QuestionShields' /\ Awaited'
    BY <1>1, <1>2, <2>1 DEF QuestionShields, Awaited, NoSend
  <2> QED
    BY <2>2, <2>4, <2>5 DEF FileInv
<1> QED
  BY <1>3, <1>4, <1>5, <1>6, <1>7

LEMMA NextFileInv ==
    ASSUME FileInv, [ComposerFilesNext]_fileVars
    PROVE  FileInv'
<1>1. ASSUME NEW files \in SUBSET File, FilesPushed(files) PROVE FileInv'
  <2>1. CASE asking /\ Refuse(files)
    <3>1. Given(files, "app", {}, {}, files)
      BY <1>1, <2>1 DEF Given, FilesPushed, Gesture, Refuse, Enqueue
    <3> QED
      BY <3>1, GiveStep
  <2>2. CASE ~asking
    <3>1. Given(files, "app", files \ Images(files), Images(files), {})
      BY <1>1, <2>2 DEF Given, FilesPushed, Gesture, Images
    <3> QED
      BY <3>1, GiveStep
  <2> QED
    BY <1>1, <2>1, <2>2 DEF FilesPushed
<1>2. ASSUME NEW files \in SUBSET File, EditorDrop(files) PROVE FileInv'
  <2> DEFINE paths == ReadEditorDropPaths(files)
  <2>1. CASE AddToComposer(files)
    BY <1>2, <2>1, AddStep DEF EditorDrop, Gesture
  <2>2. CASE mentioned' = mentioned \cup paths /\ UNCHANGED <<attached, intake, refused>>
    <3>1. Given(files, "editor", paths, {}, {})
      BY <1>2, <2>2 DEF Given, EditorDrop, ReadEditorDropPaths, Gesture, Enqueue
    <3> QED
      BY <3>1, GiveStep
  <2> QED
    BY <1>2, <2>1, <2>2 DEF EditorDrop
<1>3. ASSUME NEW files \in SUBSET File, PageDrop(files) PROVE FileInv'
  BY <1>3, AddStep DEF PageDrop, Gesture
<1>4. CASE ImagePrepared
  <2>1. PICK good \in SUBSET Head(intake) :
            /\ attached' = attached \cup good
            /\ refused' = refused \cup (Head(intake) \ good)
    BY <1>4 DEF ImagePrepared
  <2>2. /\ intake # <<>> /\ intake' = Tail(intake)
        /\ UNCHANGED <<asking, mentioned, sendVars, given, late, exposed>>
    BY <1>4 DEF ImagePrepared
  <2>3. FileTypes /\ OnePlace /\ Placed /\ QuestionShields /\ Awaited
    BY DEF FileInv
  <2>4. /\ intake' \in Seq(SUBSET File) /\ Head(intake) \subseteq Preparing
        /\ Preparing' = Preparing \ Head(intake)
        /\ \A i, j \in DOMAIN intake' : \A f \in intake'[i] \cap intake'[j] : i = j
    BY <2>2, <2>3, TailStep
  <2>5. Carried' = Carried /\ sent' = sent
    BY <2>2 DEF Carried, sendVars
  <2>6. FileTypes' /\ OnePlace'
    BY <2>1, <2>2, <2>3, <2>4, <2>5 DEF FileTypes, OnePlace, sendVars
  <2>7. Accounted' = Accounted
    BY <2>1, <2>2, <2>4, <2>5 DEF Accounted
  <2>8. Placed'
    BY <2>2, <2>3, <2>7 DEF Placed
  <2>9. QuestionShields'
    BY <2>1, <2>2, <2>3, <2>4, <2>5 DEF QuestionShields
  <2>10. Awaited'
    BY <2>1, <2>2, <2>3, <2>4 DEF Awaited, sendVars
  <2> QED
    BY <2>6, <2>8, <2>9, <2>10 DEF FileInv
<1>5. CASE QuestionComes \/ QuestionAnswered \/ UNCHANGED fileVars
  <2>1. /\ UNCHANGED <<mentioned, attached, intake, sendVars, refused, given, late, exposed>>
        /\ asking' \in BOOLEAN
    BY <1>5 DEF QuestionComes, QuestionAnswered, fileVars, FileInv, FileTypes, sendVars
  <2>2. /\ FileTypes' /\ Preparing' = Preparing /\ Carried' = Carried
        /\ Accounted' = Accounted
    BY <2>1 DEF FileInv, FileTypes, Preparing, Carried, Accounted, sendVars
  <2>3. OnePlace' /\ Placed' /\ QuestionShields' /\ Awaited'
    BY <2>1, <2>2 DEF FileInv, OnePlace, Placed, QuestionShields, Awaited, sendVars
  <2> QED
    BY <2>2, <2>3 DEF FileInv
<1>6. CASE LeaveThread
  <2>1. /\ intake' = <<>> /\ exposed' = exposed \cup Preparing
        /\ UNCHANGED <<asking, mentioned, attached, sending, sent, refused, given, late>>
    BY <1>6 DEF LeaveThread, sendVars
  <2>2. FileTypes /\ OnePlace /\ Placed /\ QuestionShields /\ Awaited
    BY DEF FileInv
  <2>3. /\ DOMAIN intake' = {} /\ intake' \in Seq(SUBSET File) /\ Preparing' = {}
        /\ Carried' = Carried
    BY <2>1 DEF Preparing, Carried
  <2>4. FileTypes' /\ OnePlace'
    BY <2>1, <2>2, <2>3 DEF FileTypes, OnePlace
  <2>5. Accounted' = Accounted \ Preparing
    BY <2>1, <2>2, <2>3 DEF Accounted, OnePlace
  <2>6. Placed' /\ QuestionShields' /\ Awaited'
    BY <2>1, <2>2, <2>3, <2>5 DEF Placed, QuestionShields, Awaited
  <2> QED
    BY <2>4, <2>6 DEF FileInv
<1>7. CASE SendPressed \/ ImagesWaited \/ CommandDone \/ Dispatched \/ DispatchFails
  BY <1>7, SendStep
<1> QED
  BY <1>1, <1>2, <1>3, <1>4, <1>5, <1>6, <1>7 DEF ComposerFilesNext

LEMMA InitFileInv ==
    ASSUME ComposerFilesInit
    PROVE  FileInv
<1>1. DOMAIN intake = {} /\ sending = [at |-> "no", mentions |-> {}, images |-> {}]
  BY DEF ComposerFilesInit, NoSend
<1>2. intake \in Seq(SUBSET File)
  BY DEF ComposerFilesInit
<1>3. Preparing = {} /\ Carried = {}
  BY <1>1 DEF Preparing, Carried
<1>4. FileTypes
  <2>1. sending \in [at : {"no", "images", "command", "dispatch"},
                     mentions : SUBSET File, images : SUBSET File]
    BY <1>1
  <2>2. given \in [File -> Gesture \cup {"no"}]
    BY DEF ComposerFilesInit
  <2> QED
    BY <1>2, <2>1, <2>2 DEF ComposerFilesInit, FileTypes
<1>5. OnePlace /\ QuestionShields /\ Awaited
  BY <1>1, <1>3 DEF ComposerFilesInit, OnePlace, QuestionShields, Awaited
<1>6. Accounted \cup late = {} /\ \A f \in File : given[f] = "no"
  BY <1>3 DEF ComposerFilesInit, Accounted
<1>7. Placed
  BY <1>6 DEF Placed
<1> QED
  BY <1>4, <1>5, <1>7 DEF FileInv

\* Every file a push, a drop, a paste or a drag brought is in the draft, on its
\* way to it, with a message or named to the user, once, unless an editor's drag
\* brought it with no path, its thread was left while it was prepared, a command
\* or a dispatch was awaited when it came, or its message failed; and what came
\* while a question waited is kept out, but for an editor's paths
\* (onComposerDrop, addComposerImages, onSend, ComposerImageIntakeQueue).
THEOREM FilesAlwaysAccounted == FilesSpec => []FilesAccounted
<1>1. FileInv => FilesAccounted
  <2> SUFFICES ASSUME FileInv PROVE NothingUnsaid
    BY DEF FileInv, FilesAccounted
  <2> SUFFICES ASSUME NEW f \in File, given[f] # "no"
               PROVE  /\ Cardinality(PlacesOf(f)) <= 1
                      /\ \/ f \in Accounted
                         \/ given[f] = "editor" /\ ~HasPath(f)
                         \/ f \in exposed
    BY DEF NothingUnsaid
  <2>1. \A a, b \in PlacesOf(f) : a = b
    BY DEF FileInv, OnePlace, PlacesOf, FilePlaces
  <2>2. PlacesOf(f) = {} \/ \E a : PlacesOf(f) = {a}
    BY <2>1
  <2>3. Cardinality(PlacesOf(f)) <= 1
    <3>1. CASE PlacesOf(f) = {}
      BY <3>1, FS_EmptySet
    <3>2. ASSUME NEW a, PlacesOf(f) = {a} PROVE Cardinality(PlacesOf(f)) <= 1
      BY <3>2, FS_Singleton
    <3> QED
      BY <2>2, <3>1, <3>2
  <2> QED
    BY <2>3 DEF FileInv, Placed
<1> QED
  BY <1>1, InitFileInv, NextFileInv, PTL DEF FilesSpec

-----------------------------------------------------------------------------
(* VendorTree: what is built.                                              *)

LEMMA ClosureIs ==
    ASSUME NEW start \in SUBSET Module, NEW follows,
           \A m \in Module : follows[m] \subseteq Module
    PROVE  /\ Closure(start, follows) \subseteq Module
           /\ start \subseteq Closure(start, follows)
           /\ \A m \in Closure(start, follows) : follows[m] \subseteq Closure(start, follows)
           /\ \A ms \in SUBSET Module :
                 start \subseteq ms /\ (\A n \in ms : follows[n] \subseteq ms)
                     => Closure(start, follows) \subseteq ms
BY DEF Closure

LEMMA FollowsTyped ==
    ASSUME NEW files, IsFiles(files), NEW shims \in SUBSET DOMAIN ShimText, NEW m \in Module
    PROVE  /\ AtRunTime(files, shims, m) \subseteq Module
           /\ Imports(files, shims, m) \subseteq Module
<1>1. m \in shims => ShimText[m] \in Text
  BY VendorAssumption DEF IsFiles
<1>2. m \in DOMAIN files => files[m] \in Text
  BY DEF IsFiles
<1> QED
  BY <1>1, <1>2 DEF AtRunTime, Imports, Resolve, TextOf, RuntimeImports, Text

\* A walk finds what it starts from and the imports of all it finds, and no more.
LEMMA WalkedIs ==
    ASSUME NEW files, IsFiles(files), NEW shims \in SUBSET DOMAIN ShimText,
           NEW start \in SUBSET Module
    PROVE  LET walked == Walked(files, shims, start) IN
           /\ walked \subseteq Module /\ start \subseteq walked
           /\ \A m \in walked : AtRunTime(files, shims, m) \subseteq walked
<1> DEFINE follows == [m \in Module |-> AtRunTime(files, shims, m)]
<1>1. \A m \in Module : follows[m] \subseteq Module /\ follows[m] = AtRunTime(files, shims, m)
  BY FollowsTyped
<1>2. Walked(files, shims, start) = Closure(start, follows)
  BY DEF Walked
<1> HIDE DEF follows
<1> QED
  BY <1>1, <1>2, ClosureIs

LEMMA BundledIs ==
    ASSUME NEW files, IsFiles(files), NEW shims \in SUBSET DOMAIN ShimText,
           NEW start \in SUBSET Module
    PROVE  LET bundled == Bundled(files, shims, start) IN
           /\ bundled \subseteq Module /\ start \subseteq bundled
           /\ \A m \in bundled : Imports(files, shims, m) \subseteq bundled
           /\ \A ms \in SUBSET Module :
                 start \subseteq ms /\ (\A m \in ms : Imports(files, shims, m) \subseteq ms)
                     => bundled \subseteq ms
<1> DEFINE follows == [m \in Module |-> Imports(files, shims, m)]
<1>1. \A m \in Module : follows[m] \subseteq Module /\ follows[m] = Imports(files, shims, m)
  BY FollowsTyped
<1>2. Bundled(files, shims, start) = Closure(start, follows)
  BY DEF Bundled
<1> HIDE DEF follows
<1> QED
  BY <1>1, <1>2, ClosureIs

\* The files are as a commit has them.
OfCommit(c, files) ==
    /\ c \in Commit
    /\ \A m \in DOMAIN files : m \in DOMAIN Upstream[c] /\ files[m] = Upstream[c][m]

VendorInv ==
    /\ checkout.head \in Commit
    /\ sources.roots \subseteq Root /\ sources.shims \subseteq DOMAIN ShimText
    /\ IsFiles(tree)
    /\ manifest # NoManifest => OfCommit(manifest.commit, manifest.files)
    /\ DOMAIN copying = {"on", "files", "left", "pin"}
    /\ copying.on => /\ OfCommit(copying.pin, copying.files)
                     /\ copying.left \subseteq DOMAIN copying.files
                     /\ OfCommit(copying.pin, tree) /\ DOMAIN tree \subseteq DOMAIN copying.files
    /\ PageIsPinned

LEMMA CommitFiles ==
    ASSUME NEW c, NEW files, OfCommit(c, files)
    PROVE  IsFiles(files)
BY VendorAssumption DEF OfCommit, IsFiles

\* What a bundle of the build holds.
BundleFrom(b, start, shims) ==
    /\ b.shims = shims /\ start \subseteq b.modules /\ b.modules \subseteq Module
    /\ Files(b) = {m \in b.modules : m \notin shims /\ m \in DOMAIN tree}
    /\ \A m \in Files(b) : tree[m].imports \subseteq b.modules
    /\ Workers(b) \subseteq Module
    /\ \A ms \in SUBSET Module :
          start \subseteq ms /\ (\A m \in ms : Imports(tree, shims, m) \subseteq ms)
              => b.modules \subseteq ms

LEMMA BundleIs ==
    ASSUME VendorInv, NEW start \in SUBSET Module, NEW shims \in SUBSET DOMAIN ShimText
    PROVE  BundleFrom(BundleOf(start, shims), start, shims)
<1> DEFINE b == BundleOf(start, shims)
<1>1. b.shims = shims /\ b.modules = Bundled(tree, shims, start)
  BY DEF BundleOf
<1> HIDE DEF b
<1>2. IsFiles(tree)
  BY DEF VendorInv
<1>3. /\ b.modules \subseteq Module /\ start \subseteq b.modules
      /\ \A m \in b.modules : Imports(tree, shims, m) \subseteq b.modules
      /\ \A ms \in SUBSET Module :
            start \subseteq ms /\ (\A m \in ms : Imports(tree, shims, m) \subseteq ms)
                => b.modules \subseteq ms
  BY <1>1, <1>2, BundledIs
<1>4. Files(b) = {m \in b.modules : m \notin shims /\ m \in DOMAIN tree}
  BY <1>1 DEF Files, FilesOf, Resolve
<1>5. \A m \in Files(b) : Imports(tree, shims, m) = tree[m].imports
  BY <1>4 DEF Imports, Resolve, TextOf
<1>6. \A m \in Files(b) : tree[m].workers \subseteq Module
  BY <1>2, <1>4 DEF IsFiles, Text
<1>7. Workers(b) \subseteq Module
  BY <1>6 DEF Workers
<1>8. \A m \in Files(b) : tree[m].imports \subseteq b.modules
  BY <1>3, <1>4, <1>5
<1> QED
  BY <1>1, <1>3, <1>4, <1>7, <1>8 DEF b, BundleFrom

LEMMA MainIs ==
    ASSUME VendorInv
    PROVE  BundleFrom(Main, sources.roots, sources.shims)
<1>1. sources.roots \in SUBSET Module /\ sources.shims \in SUBSET DOMAIN ShimText
  BY VendorAssumption DEF VendorInv
<1> QED
  BY <1>1, BundleIs DEF Main

LEMMA WorkerBundleIs ==
    ASSUME VendorInv, NEW w \in Module
    PROVE  BundleFrom(WorkerBundle(w), {w}, sources.shims \ {w})
<1>1. {w} \in SUBSET Module /\ sources.shims \ {w} \in SUBSET DOMAIN ShimText
  BY DEF VendorInv
<1> QED
  BY <1>1, BundleIs DEF WorkerBundle

LEMMA FoundIs ==
    ASSUME VendorInv
    PROVE  /\ Found \subseteq Module /\ Workers(Main) \subseteq Found
           /\ \A w \in Found : Workers(WorkerBundle(w)) \subseteq Found
           /\ \A ms \in SUBSET Module :
                 Workers(Main) \subseteq ms /\ (\A w \in ms : Workers(WorkerBundle(w)) \subseteq ms)
                     => Found \subseteq ms
<1> DEFINE follows == [w \in Module |-> Workers(WorkerBundle(w))]
<1>1. sources.roots \in SUBSET Module /\ sources.shims \in SUBSET DOMAIN ShimText
  BY VendorAssumption DEF VendorInv
<1>2. Workers(Main) \subseteq Module
  BY <1>1, MainIs DEF BundleFrom
<1>3. \A w \in Module : Workers(WorkerBundle(w)) \subseteq Module
  BY <1>1, WorkerBundleIs DEF BundleFrom
<1>4. \A w \in Module : follows[w] \subseteq Module /\ follows[w] = Workers(WorkerBundle(w))
  BY <1>3
<1>5. Found = Closure(Workers(Main), follows)
  BY DEF Found
<1> HIDE DEF follows
<1> QED
  BY <1>2, <1>4, <1>5, ClosureIs

\* A build that finds every module leaves none out of the page.
LEMMA BuildStep ==
    ASSUME VendorInv, Build
    PROVE  PageIsPinned'
<1> DEFINE all == UNION {Files(b) : b \in Bundles}
<1>1. CASE ~Resolved
  BY <1>1 DEF Build, NoBundle, PageIsPinned
<1>2. CASE Resolved
  <2>1. /\ bundle' = [commit |-> manifest.commit, shims |-> sources.shims, files |-> Part(tree, all)]
        /\ manifest # NoManifest /\ Edited = {} /\ Unlisted = {}
    BY <1>2 DEF Build
  <2>2. \A m \in DOMAIN tree : /\ m \in DOMAIN Upstream[manifest.commit]
                               /\ tree[m] = Upstream[manifest.commit][m]
    BY <2>1 DEF VendorInv, OfCommit, Edited, Unlisted
  <2>3. /\ bundle'.commit = manifest.commit /\ bundle'.shims = sources.shims
        /\ DOMAIN bundle'.files = all /\ \A m \in all : bundle'.files[m] = tree[m]
    BY <2>1 DEF Part
  <2>5. ASSUME NEW b \in Bundles
        PROVE  /\ b.shims \subseteq sources.shims
               /\ Files(b) = {m \in b.modules : m \notin b.shims /\ m \in DOMAIN tree}
               /\ \A m \in Files(b) : tree[m].imports \subseteq b.modules
               /\ Workers(b) \subseteq Found
    <3>1. CASE b = Main
      BY <3>1, MainIs, FoundIs DEF BundleFrom
    <3>2. ASSUME NEW w \in Found, b = WorkerBundle(w)
          PROVE  /\ b.shims \subseteq sources.shims
                 /\ Files(b) = {m \in b.modules : m \notin b.shims /\ m \in DOMAIN tree}
                 /\ \A m \in Files(b) : tree[m].imports \subseteq b.modules
                 /\ Workers(b) \subseteq Found
      <4>1. w \in Module /\ Workers(b) \subseteq Found
        BY <3>2, FoundIs
      <4>2. BundleFrom(b, {w}, sources.shims \ {w})
        BY <3>2, <4>1, WorkerBundleIs
      <4> QED
        BY <4>1, <4>2 DEF BundleFrom
    <3> QED
      BY <3>1, <3>2 DEF Bundles
  <2>6. \A b \in Bundles : \A m \in b.modules : m \in b.shims \/ m \in DOMAIN tree
    BY <1>2 DEF Resolved, Missing, Resolve
  <2>7. ASSUME NEW w \in Found PROVE w \in all
    <3> DEFINE b == WorkerBundle(w)
    <3>1. b \in Bundles
      BY DEF Bundles
    <3>2. BundleFrom(b, {w}, sources.shims \ {w})
      BY FoundIs, WorkerBundleIs
    <3> HIDE DEF b
    <3>3. w \in Files(b)
      BY <2>5, <2>6, <3>1, <3>2 DEF BundleFrom
    <3> QED
      BY <3>1, <3>3
  <2>8. ASSUME NEW m \in all
        PROVE  /\ m \in DOMAIN tree
               /\ RuntimeImports(tree[m]) \subseteq all \cup sources.shims
    <3>1. PICK b \in Bundles : m \in Files(b)
      OBVIOUS
    <3>2. \A n \in tree[m].imports : n \in all \cup sources.shims
      BY <2>5, <2>6, <3>1
    <3>3. \A n \in tree[m].workers : n \in all
      BY <2>5, <2>7, <3>1 DEF Workers
    <3> QED
      BY <2>5, <3>1, <3>2, <3>3 DEF RuntimeImports
  <2> HIDE DEF all
  <2> QED
    BY <2>2, <2>3, <2>8 DEF PageIsPinned
<1> QED
  BY <1>1, <1>2

\* What the vendor script reaches holds what the build reaches, but for a
\* worker that has a shim.
LEMMA InStep ==
    ASSUME VendorInv
    PROVE  InStepBuilds
<1> SUFFICES ASSUME CheckPasses, \A b \in Bundles, w \in sources.shims : w \notin Workers(b)
             PROVE  Resolved
  BY DEF InStepBuilds
<1> DEFINE files == Upstream[checkout.head]
           shims == sources.shims
           texts == UNION {RuntimeImports(ShimText[m]) : m \in shims}
           start == sources.roots \cup texts
<1>1. /\ shims \in SUBSET DOMAIN ShimText /\ sources.roots \subseteq Module
      /\ IsFiles(files) /\ IsFiles(ShimText)
  BY VendorAssumption DEF VendorInv
<1>2. start \in SUBSET Module
  <2>1. \A m \in shims : RuntimeImports(ShimText[m]) \subseteq Module
    BY <1>1 DEF IsFiles, Text, RuntimeImports
  <2> QED
    BY <1>1, <2>1
<1>3. Wanted = Walked(files, shims, start)
  BY DEF Wanted
<1> HIDE DEF files, start
<1>4. /\ Wanted \subseteq Module /\ start \subseteq Wanted
      /\ \A m \in Wanted : AtRunTime(files, shims, m) \subseteq Wanted
  BY <1>1, <1>2, <1>3, WalkedIs
<1>5. /\ \A m \in Wanted : m \in shims \/ m \in DOMAIN files
      /\ DOMAIN tree = {m \in Wanted : m \notin shims /\ m \in DOMAIN files}
      /\ \A m \in DOMAIN tree : tree[m] = files[m]
  BY DEF CheckPasses, MayVendor, Missing, WantedFiles, FilesOf, Resolve, Part, files
<1>6. \A m \in Wanted : /\ m \in shims \/ m \in DOMAIN tree
                        /\ Imports(tree, shims, m) \subseteq Wanted
                        /\ m \in DOMAIN tree => tree[m].workers \subseteq Wanted
  BY <1>4, <1>5 DEF Imports, AtRunTime, Resolve, TextOf, RuntimeImports
<1>7. ASSUME NEW b, NEW from \in SUBSET Wanted, BundleFrom(b, from, shims)
      PROVE  b.modules \subseteq Wanted /\ Workers(b) \subseteq Wanted
  <2>1. b.modules \subseteq Wanted
    BY <1>4, <1>6, <1>7 DEF BundleFrom
  <2>2. \A m \in Files(b) : tree[m].workers \subseteq Wanted
    BY <1>6, <1>7, <2>1 DEF BundleFrom
  <2> QED
    BY <2>1, <2>2 DEF Workers
<1>8. Main.modules \subseteq Wanted /\ Workers(Main) \subseteq Wanted /\ Main.shims = shims
  <2>1. sources.roots \in SUBSET Wanted
    BY <1>4 DEF start
  <2>2. BundleFrom(Main, sources.roots, shims)
    BY MainIs
  <2> QED
    BY <1>7, <2>1, <2>2 DEF BundleFrom
<1>9. ASSUME NEW w \in Wanted, w \notin shims
      PROVE  /\ WorkerBundle(w).modules \subseteq Wanted /\ Workers(WorkerBundle(w)) \subseteq Wanted
             /\ WorkerBundle(w).shims = shims
  <2>1. shims \ {w} = shims /\ {w} \in SUBSET Wanted
    BY <1>9
  <2>2. BundleFrom(WorkerBundle(w), {w}, shims)
    BY <1>4, <2>1, WorkerBundleIs
  <2> QED
    BY <1>7, <2>1, <2>2 DEF BundleFrom
<1>10. Found \subseteq Wanted \ shims
  <2> DEFINE ms == {w \in Found : w \in Wanted /\ w \notin shims}
  <2>1. Workers(Main) \subseteq ms
    BY <1>8, FoundIs DEF Bundles
  <2>2. ASSUME NEW w \in ms PROVE Workers(WorkerBundle(w)) \subseteq ms
    <3>1. WorkerBundle(w) \in Bundles
      BY DEF Bundles
    <3>2. \A v \in Workers(WorkerBundle(w)) : v \notin shims
      BY <3>1
    <3> QED
      BY <1>9, <3>2, FoundIs
  <2>3. ms \in SUBSET Module
    BY FoundIs
  <2>4. Found \subseteq ms
    <3> HIDE DEF ms
    <3> QED
      BY <2>1, <2>2, <2>3, FoundIs
  <2> QED
    BY <2>4
<1>11. \A b \in Bundles : b.modules \subseteq Wanted /\ b.shims = shims
  BY <1>8, <1>9, <1>10 DEF Bundles
<1>12. \A b \in Bundles : Missing(tree, b.shims, b.modules) = {}
  BY <1>6, <1>11 DEF Missing, Resolve
<1> QED
  BY <1>12 DEF Resolved

LEMMA NextVendorInv ==
    ASSUME VendorInv, [VendorNext]_vendorVars
    PROVE  VendorInv'
<1>1. ASSUME NEW pin \in Commit, Vendor(pin) PROVE VendorInv'
  <2> DEFINE files == Part(Upstream[checkout.head], WantedFiles)
  <2>1. /\ tree' = NoFiles /\ manifest' = NoManifest
        /\ copying' = [on |-> TRUE, pin |-> pin, left |-> WantedFiles, files |-> files]
        /\ UNCHANGED <<checkout, sources, bundle>> /\ pin = checkout.head
    BY <1>1 DEF Vendor, MayVendor
  <2>2. OfCommit(pin, files) /\ WantedFiles \subseteq DOMAIN files
    BY <2>1 DEF OfCommit, WantedFiles, FilesOf, Resolve, Part
  <2>3. OfCommit(pin, NoFiles) /\ IsFiles(NoFiles) /\ DOMAIN NoFiles = {}
    BY DEF OfCommit, NoFiles, IsFiles
  <2> HIDE DEF files
  <2>4. /\ DOMAIN copying' = {"on", "files", "left", "pin"} /\ copying'.pin = pin
        /\ copying'.files = files /\ copying'.left = WantedFiles
    BY <2>1
  <2> QED
    BY <2>1, <2>2, <2>3, <2>4 DEF VendorInv, PageIsPinned
<1>2. ASSUME NEW m \in Module, CopyFile(m) PROVE VendorInv'
  <2> DEFINE left == copying.left \ {m}
  <2>1. /\ copying.on /\ m \in copying.left /\ tree' = Part(copying.files, DOMAIN tree \cup {m})
        /\ copying' = [copying EXCEPT !.left = left]
        /\ UNCHANGED <<checkout, sources, manifest, bundle>>
    BY <1>2 DEF CopyFile
  <2>2. /\ DOMAIN copying' = {"on", "files", "left", "pin"} /\ copying'.pin = copying.pin
        /\ copying'.files = copying.files /\ copying'.left \subseteq copying.left
    BY <2>1 DEF VendorInv
  <2>3. OfCommit(copying.pin, tree') /\ DOMAIN tree' \subseteq DOMAIN copying.files
    BY <2>1 DEF VendorInv, OfCommit, Part
  <2>4. IsFiles(tree)'
    BY <2>3, CommitFiles DEF IsFiles
  <2> QED
    BY <2>1, <2>2, <2>3, <2>4 DEF VendorInv, PageIsPinned
<1>3. CASE ListFiles
  <2>1. /\ copying.on /\ manifest' = [commit |-> copying.pin, files |-> tree] /\ copying' = Idle
        /\ UNCHANGED <<checkout, sources, tree, bundle>>
    BY <1>3 DEF ListFiles
  <2>2. OfCommit(manifest'.commit, manifest'.files)
    BY <2>1 DEF VendorInv
  <2> QED
    BY <2>1, <2>2 DEF VendorInv, PageIsPinned, Idle
<1>4. CASE Interrupt
  BY <1>4 DEF Interrupt, VendorInv, PageIsPinned, Idle
<1>5. CASE Build
  <2>1. PageIsPinned'
    BY <1>5, BuildStep
  <2> QED
    BY <1>5, <2>1 DEF Build, VendorInv
<1>6. ASSUME NEW m \in Module, EditVendored(m) PROVE VendorInv'
  <2> DEFINE local == [imports |-> {}, types |-> {}, workers |-> {}, version |-> "local"]
  <2>1. ~copying.on /\ UNCHANGED <<checkout, sources, manifest, copying, bundle>>
    BY <1>6 DEF EditVendored
  <2>2. \/ tree' = [n \in DOMAIN tree \cup {m} |-> IF n = m THEN local ELSE tree[n]]
        \/ tree' = Part(tree, DOMAIN tree \ {m})
    BY <1>6 DEF EditVendored
  <2>3. local \in Text
    BY DEF Text
  <2> HIDE DEF local
  <2>4. IsFiles(tree)'
    BY <2>2, <2>3 DEF VendorInv, IsFiles, Part
  <2> QED
    BY <2>1, <2>4 DEF VendorInv, PageIsPinned
<1>7. ASSUME NEW c \in Commit, NEW dirty \in BOOLEAN, CheckOut(c, dirty) PROVE VendorInv'
  BY <1>7 DEF CheckOut, VendorInv, PageIsPinned
<1>8. ASSUME NEW roots \in SUBSET Root, NEW shims \in SUBSET DOMAIN ShimText,
             EditSources(roots, shims)
      PROVE  VendorInv'
  BY <1>8 DEF EditSources, VendorInv, PageIsPinned
<1>9. CASE UNCHANGED vendorVars
  BY <1>9 DEF vendorVars, VendorInv, PageIsPinned
<1> QED
  BY <1>1, <1>2, <1>3, <1>4, <1>5, <1>6, <1>7, <1>8, <1>9 DEF VendorNext

LEMMA InitVendorInv ==
    ASSUME VendorInit
    PROVE  VendorInv
BY DEF VendorInit, VendorInv, NoFiles, Idle, IsFiles, NoBundle, PageIsPinned

\* Whatever is aborted, edited or moved between: a page is built whole and from
\* one commit (build.mjs), and what the vendor script's --check passes is built.
THEOREM BuildAlwaysHonest == VendorSpec => []BuildHonest
<1>1. VendorInv => BuildHonest
  BY InStep DEF VendorInv, BuildHonest
<1> QED
  BY <1>1, InitVendorInv, NextVendorInv, PTL DEF VendorSpec

-----------------------------------------------------------------------------
(* VisualFrame: what is on its way, to a window and from it.               *)

FrameEvent == [from : Nat, k : {"size", "stopped", "load"}, height : Height \cup {Reserved}]
Post == [to : Nat, theme : SUBSET Theme]

FrameTypes ==
    /\ theme \in Theme
    /\ visual \in [answer : {"loading", "ready", "failed", "refused"}, stopped : BOOLEAN]
    /\ frame \in [up : BOOLEAN, loads : {0, 1}, known : Nat, loaded : BOOLEAN, built : SUBSET Theme,
                  content : Height \cup {Reserved}, pending : Height \cup {Reserved},
                  timer : BOOLEAN, asked : Height \cup {Reserved}]
    /\ window \in [id : Nat, page : {"none", "parsing", "own", "elsewhere"}, theme : SUBSET Theme]
    /\ events \in Seq(FrameEvent) /\ posts \in Seq(Post) /\ grounds \subseteq Nat

\* Nothing is on its way from a window, or to one, that is still to come.
NoneFromLater ==
    /\ frame.known <= window.id
    /\ \A i \in DOMAIN events : events[i].from <= window.id
    /\ \A i \in DOMAIN posts : posts[i].to <= window.id

\* The load events of the frame's window that are still on their way.
LoadsDue == {i \in DOMAIN events : events[i].k = "load" /\ events[i].from = window.id}
Known == frame.known = window.id

\* A page has its one load counted or on its way; one that went elsewhere has
\* one more.
LoadsMatch ==
    /\ ~frame.up <=> window.page = "none"
    /\ frame.up /\ Known => frame.loads = 1
    /\ window.page = "parsing" => LoadsDue = {} /\ ~Known
    /\ window.page = "own" =>
        /\ Known => LoadsDue = {}
        /\ ~Known => \E i \in LoadsDue : LoadsDue = {i}
    /\ window.page = "elsewhere" =>
        /\ window.id \in grounds
        /\ \E i \in LoadsDue : Known \/ \E j \in LoadsDue : i # j

\* What a stop is on its way for is on record; only a visual that was ready is
\* drawn or stopped.
StopsGrounded ==
    /\ StoppedForCause
    /\ frame.up \/ visual.stopped => visual.answer = "ready"
    /\ \A i \in DOMAIN events :
        events[i].k = "stopped" /\ events[i].from = window.id => window.id \in grounds

\* The last theme on its way to the window is the app's; none is, and it has it.
ThemeFollows ==
    window.page = "own" /\ Known =>
        /\ \A i \in DOMAIN posts :
            posts[i].to = window.id /\ (\A j \in DOMAIN posts : j > i => posts[j].to # window.id)
                => posts[i].theme = {theme}
        /\ (\A i \in DOMAIN posts : posts[i].to # window.id) => window.theme = {theme}

HeightFollows ==
    /\ frame.pending = frame.asked
    /\ ~frame.timer => frame.content = frame.asked

FrameInv ==
    FrameTypes /\ NoneFromLater /\ LoadsMatch /\ StopsGrounded /\ ThemeFollows /\ HeightFollows

LEMMA FrameInitInv == ASSUME FrameInit PROVE FrameInv
<1>1. FrameTypes
  BY DEF FrameInit, FrameTypes, NoFrame, NoWindow
<1>2. NoneFromLater /\ LoadsMatch
  BY DEF FrameInit, NoneFromLater, LoadsMatch, LoadsDue, Known, NoFrame, NoWindow
<1>3. StopsGrounded /\ ThemeFollows /\ HeightFollows
  BY DEF FrameInit, StopsGrounded, StoppedForCause, ThemeFollows, Known, HeightFollows, NoFrame, NoWindow
<1> QED
  BY <1>1, <1>2, <1>3 DEF FrameInv

\* An event is put after the others.
LEMMA HeardStep ==
    ASSUME FrameTypes, NEW k \in {"size", "stopped", "load"}, NEW h \in Height \cup {Reserved},
           Heard(Event(k, h)), window'.id = window.id
    PROVE  LET n == Len(events) + 1
           IN  /\ events' \in Seq(FrameEvent) /\ DOMAIN events' = 1..n /\ n \notin LoadsDue
               /\ \A i \in DOMAIN events' :
                     \/ i \in DOMAIN events /\ events'[i] = events[i]
                     \/ i = n /\ events'[i].k = k /\ events'[i].from = window.id
               /\ k = "load" => LoadsDue' = LoadsDue \cup {n}
               /\ k # "load" => LoadsDue' = LoadsDue
<1> DEFINE n == Len(events) + 1
<1>1. Event(k, h) \in FrameEvent /\ Event(k, h).k = k /\ Event(k, h).from = window.id
  BY DEF FrameTypes, FrameEvent, Event
<1>2. /\ events' \in Seq(FrameEvent) /\ DOMAIN events' = 1..n /\ DOMAIN events = 1..(n - 1)
      /\ \A i \in DOMAIN events : events'[i] = events[i]
      /\ events'[n] = Event(k, h) /\ n \in Nat \ {0}
  BY <1>1 DEF FrameTypes, Heard
<1>3. n \notin LoadsDue
  BY <1>2 DEF LoadsDue
<1>4. \A i \in DOMAIN events' :
        \/ i \in DOMAIN events /\ events'[i] = events[i]
        \/ i = n /\ events'[i].k = k /\ events'[i].from = window.id
  BY <1>1, <1>2
<1>5. k = "load" => LoadsDue' = LoadsDue \cup {n}
  BY <1>1, <1>2 DEF LoadsDue
<1>6. k # "load" => LoadsDue' = LoadsDue
  BY <1>1, <1>2 DEF LoadsDue
<1> QED
  BY <1>2, <1>3, <1>4, <1>5, <1>6

\* The first event is taken off.
LEMMA EventTaken ==
    ASSUME FrameTypes, events # <<>>, events' = Tail(events), window'.id = window.id
    PROVE  /\ events' \in Seq(FrameEvent) /\ 1 \in DOMAIN events /\ Head(events) = events[1]
           /\ Head(events) \in FrameEvent
           /\ \A i \in DOMAIN events' : i + 1 \in DOMAIN events /\ events'[i] = events[i + 1]
           /\ LoadsDue \subseteq Nat /\ LoadsDue' = {i - 1 : i \in LoadsDue \ {1}}
<1>1. /\ events' \in Seq(FrameEvent) /\ DOMAIN events' = 1..(Len(events) - 1)
      /\ \A i \in DOMAIN events' : i + 1 \in DOMAIN events /\ events'[i] = events[i + 1]
      /\ Head(events) = events[1] /\ 1 \in DOMAIN events /\ Head(events) \in FrameEvent
      /\ DOMAIN events = 1..Len(events) /\ Len(events) \in Nat \ {0}
  BY DEF FrameTypes
<1>2. LoadsDue \subseteq Nat
  BY <1>1 DEF LoadsDue
<1>3. ASSUME NEW i \in LoadsDue' PROVE \E j \in LoadsDue \ {1} : i = j - 1
  <2>1. i \in DOMAIN events' /\ events'[i].k = "load" /\ events'[i].from = window.id
    BY DEF LoadsDue
  <2>2. i + 1 \in LoadsDue \ {1} /\ i = (i + 1) - 1
    BY <1>1, <2>1 DEF LoadsDue
  <2> QED
    BY <2>2
<1>4. ASSUME NEW j \in LoadsDue \ {1} PROVE j - 1 \in LoadsDue'
  <2>1. j - 1 \in DOMAIN events' /\ (j - 1) + 1 = j
    BY <1>1 DEF LoadsDue
  <2>2. events'[j - 1] = events[j]
    BY <1>1, <2>1
  <2> QED
    BY <2>1, <2>2 DEF LoadsDue
<1> QED
  BY <1>1, <1>2, <1>3, <1>4

\* A theme is put after the others on their way to the window.
LEMMA ThemePosted ==
    ASSUME FrameTypes, NEW t \in Theme, posts' = Append(posts, [to |-> window.id, theme |-> {t}]),
           window'.id = window.id, NoneFromLater
    PROVE  /\ posts' \in Seq(Post) /\ \A i \in DOMAIN posts' : posts'[i].to <= window.id
           /\ \E i \in DOMAIN posts' : posts'[i].to = window.id
           /\ \A i \in DOMAIN posts' :
                posts'[i].to = window.id /\ (\A j \in DOMAIN posts' : j > i => posts'[j].to # window.id)
                    => posts'[i].theme = {t}
<1> DEFINE post == [to |-> window.id, theme |-> {t}]
           n == Len(posts) + 1
<1>1. post \in Post /\ post.to = window.id /\ post.theme = {t} /\ window.id \in Nat
  BY DEF FrameTypes, Post
<1> HIDE DEF post
<1>2. /\ posts' \in Seq(Post) /\ DOMAIN posts' = 1..n /\ DOMAIN posts = 1..(n - 1)
      /\ \A i \in DOMAIN posts : posts'[i] = posts[i]
      /\ posts'[n] = post /\ n \in Nat \ {0}
  BY <1>1 DEF FrameTypes, post
<1>3. \A i \in DOMAIN posts' : i \in DOMAIN posts \/ i = n
  BY <1>2
<1>4. \A i \in DOMAIN posts' : posts'[i].to <= window.id
  BY <1>1, <1>2, <1>3 DEF NoneFromLater
<1>5. ASSUME NEW i \in DOMAIN posts', \A j \in DOMAIN posts' : j > i => posts'[j].to # window.id
      PROVE  posts'[i].theme = {t}
  <2>1. ~(n > i)
    BY <1>1, <1>2, <1>5
  <2> QED
    BY <1>1, <1>2, <2>1
<1>6. n \in DOMAIN posts' /\ posts'[n].to = window.id
  BY <1>1, <1>2
<1> QED
  BY <1>2, <1>4, <1>5, <1>6

\* A window that is new has had nothing and posted nothing.
LEMMA FreshStep ==
    ASSUME FrameInv, window' = NewWindow(window.id + 1, frame'.built), UNCHANGED <<theme, events, posts>>,
           frame'.up, frame'.known <= window.id, frame'.known \in Nat
    PROVE  NoneFromLater' /\ LoadsMatch' /\ ThemeFollows' /\ window'.id = window.id + 1
<1>1. FrameTypes /\ NoneFromLater
  BY DEF FrameInv
<1>2. window.id \in Nat /\ events \in Seq(FrameEvent) /\ posts \in Seq(Post)
  BY <1>1 DEF FrameTypes
<1>3. window'.id = window.id + 1 /\ window'.page = "parsing"
  BY DEF NewWindow
<1>4. /\ \A i \in DOMAIN events : events[i].from \in Nat /\ events[i].from <= window.id
      /\ \A i \in DOMAIN posts : posts[i].to \in Nat /\ posts[i].to <= window.id
  <2>1. /\ \A i \in DOMAIN events : events[i] \in FrameEvent
        /\ \A i \in DOMAIN posts : posts[i] \in Post
    BY <1>2
  <2> QED
    BY <1>1, <2>1 DEF NoneFromLater, FrameEvent, Post
<1>5. NoneFromLater'
  BY <1>2, <1>3, <1>4 DEF NoneFromLater
<1>6. LoadsDue' = {} /\ ~Known'
  <2>1. \A i \in DOMAIN events : events[i].from # window.id + 1
    BY <1>2, <1>4
  <2>2. LoadsDue' = {}
    BY <1>3, <2>1 DEF LoadsDue
  <2>3. ~Known'
    BY <1>2, <1>3 DEF Known
  <2> QED
    BY <2>2, <2>3
<1>7. LoadsMatch'
  BY <1>3, <1>6 DEF LoadsMatch
<1>8. ThemeFollows'
  BY <1>3 DEF ThemeFollows
<1> QED
  BY <1>3, <1>5, <1>7, <1>8

LEMMA MountStep ==
    ASSUME FrameInv, Mount, UNCHANGED <<theme, events, posts>>,
           visual' \in [answer : {"loading", "ready", "failed", "refused"}, stopped : BOOLEAN],
           visual'.answer = "ready", ~visual'.stopped
    PROVE  FrameInv'
<1>1. FrameTypes /\ NoneFromLater
  BY DEF FrameInv
<1>2. /\ frame' \in [up : BOOLEAN, loads : {0, 1}, known : Nat, loaded : BOOLEAN, built : SUBSET Theme,
                     content : Height \cup {Reserved}, pending : Height \cup {Reserved},
                     timer : BOOLEAN, asked : Height \cup {Reserved}]
      /\ frame'.up /\ frame'.known = 0 /\ frame'.built = {theme} /\ frame'.pending = Reserved
      /\ frame'.asked = Reserved /\ frame'.content = Reserved
  BY <1>1 DEF Mount, NoFrame, FrameTypes
<1>3. window.id \in Nat /\ window' = NewWindow(window.id + 1, frame'.built) /\ grounds' = {}
  BY <1>1, <1>2 DEF Mount, FrameTypes
<1>4. NoneFromLater' /\ LoadsMatch' /\ ThemeFollows' /\ window'.id = window.id + 1
  BY <1>2, <1>3, FreshStep
<1>5. FrameTypes'
  BY <1>1, <1>2, <1>3 DEF FrameTypes, NewWindow
<1>6. StopsGrounded'
  <2>1. \A i \in DOMAIN events : events[i].from # window.id + 1
    BY <1>1, <1>3 DEF NoneFromLater, FrameTypes, FrameEvent
  <2> QED
    BY <1>4, <2>1 DEF StopsGrounded, StoppedForCause
<1>7. HeightFollows'
  BY <1>2 DEF HeightFollows
<1> QED
  BY <1>4, <1>5, <1>6, <1>7 DEF FrameInv

LEMMA ReinsertedStep == ASSUME FrameInv, Reinserted PROVE FrameInv'
<1>1. FrameTypes /\ NoneFromLater /\ StopsGrounded /\ HeightFollows
  BY DEF FrameInv
<1>2. /\ UNCHANGED <<theme, visual, frame, events, posts, grounds>> /\ frame.up
      /\ window' = NewWindow(window.id + 1, frame'.built) /\ frame'.known \in Nat
      /\ frame'.known <= window.id
  BY <1>1 DEF Reinserted, FrameTypes, NoneFromLater
<1>3. NoneFromLater' /\ LoadsMatch' /\ ThemeFollows' /\ window'.id = window.id + 1
  BY <1>2, FreshStep
<1>4. FrameTypes'
  BY <1>1, <1>2 DEF FrameTypes, NewWindow
<1>5. StopsGrounded'
  <2>1. \A i \in DOMAIN events : events[i].from # window.id + 1
    BY <1>1 DEF NoneFromLater, FrameTypes, FrameEvent
  <2> QED
    BY <1>1, <1>2, <1>3, <2>1 DEF StopsGrounded, StoppedForCause
<1>6. HeightFollows'
  BY <1>1, <1>2 DEF HeightFollows
<1> QED
  BY <1>3, <1>4, <1>5, <1>6 DEF FrameInv

\* What touches the answer only.
LEMMA AnswerStep ==
    ASSUME FrameInv, NEW a \in {"loading", "failed", "refused"}, visual.answer # "ready",
           visual' = [visual EXCEPT !.answer = a],
           UNCHANGED <<theme, frame, window, events, posts, grounds>>
    PROVE  FrameInv'
<1>1. FrameTypes /\ StopsGrounded /\ ~frame.up /\ ~visual.stopped
  BY DEF FrameInv, StopsGrounded
<1>2. /\ visual' \in [answer : {"loading", "ready", "failed", "refused"}, stopped : BOOLEAN]
      /\ ~visual'.stopped
  BY <1>1 DEF FrameTypes
<1>3. FrameTypes'
  BY <1>1, <1>2 DEF FrameTypes
<1>4. NoneFromLater' /\ LoadsMatch' /\ ThemeFollows' /\ HeightFollows'
  BY DEF FrameInv, NoneFromLater, LoadsMatch, LoadsDue, Known, ThemeFollows, HeightFollows
<1>5. StopsGrounded'
  BY <1>1, <1>2 DEF StopsGrounded, StoppedForCause
<1> QED
  BY <1>3, <1>4, <1>5 DEF FrameInv

LEMMA ChangeThemeStep == ASSUME FrameInv, NEW t \in Theme, ChangeTheme(t) PROVE FrameInv'
<1>1. FrameTypes /\ NoneFromLater /\ LoadsMatch /\ StopsGrounded /\ HeightFollows
  BY DEF FrameInv
<1>2. UNCHANGED <<visual, frame, window, events, grounds>> /\ theme' = t
  BY DEF ChangeTheme
<1>3. StopsGrounded' /\ HeightFollows' /\ LoadsMatch'
  BY <1>1, <1>2 DEF StopsGrounded, StoppedForCause, HeightFollows, LoadsMatch, LoadsDue, Known
<1>4. CASE frame.up
  <2>1. posts' = Append(posts, [to |-> window.id, theme |-> {t}]) /\ window'.id = window.id
    BY <1>2, <1>4 DEF ChangeTheme
  <2>2. /\ posts' \in Seq(Post) /\ \A i \in DOMAIN posts' : posts'[i].to <= window.id
        /\ \E i \in DOMAIN posts' : posts'[i].to = window.id
        /\ \A i \in DOMAIN posts' :
             posts'[i].to = window.id /\ (\A j \in DOMAIN posts' : j > i => posts'[j].to # window.id)
                 => posts'[i].theme = {t}
    BY <1>1, <2>1, ThemePosted
  <2>3. FrameTypes' /\ NoneFromLater'
    BY <1>1, <1>2, <2>2 DEF FrameTypes, NoneFromLater
  <2>4. ThemeFollows'
    BY <1>2, <2>2 DEF ThemeFollows
  <2> QED
    BY <1>3, <2>3, <2>4 DEF FrameInv
<1>5. CASE ~frame.up
  <2>1. posts' = posts
    BY <1>5 DEF ChangeTheme
  <2>2. FrameTypes' /\ NoneFromLater'
    BY <1>1, <1>2, <2>1 DEF FrameTypes, NoneFromLater
  <2>3. ThemeFollows'
    BY <1>1, <1>2, <1>5 DEF LoadsMatch, ThemeFollows
  <2> QED
    BY <1>3, <2>2, <2>3 DEF FrameInv
<1> QED
  BY <1>4, <1>5

LEMMA TimerStep == ASSUME FrameInv, TimerFires PROVE FrameInv'
<1>1. FrameTypes /\ NoneFromLater /\ LoadsMatch /\ StopsGrounded /\ ThemeFollows /\ HeightFollows
  BY DEF FrameInv
<1>2. /\ frame' = [frame EXCEPT !.content = frame.pending, !.timer = FALSE]
      /\ UNCHANGED <<theme, visual, window, events, posts, grounds>>
  BY DEF TimerFires
<1>3. /\ frame' \in [up : BOOLEAN, loads : {0, 1}, known : Nat, loaded : BOOLEAN, built : SUBSET Theme,
                     content : Height \cup {Reserved}, pending : Height \cup {Reserved},
                     timer : BOOLEAN, asked : Height \cup {Reserved}]
      /\ frame'.up = frame.up /\ frame'.known = frame.known /\ frame'.loads = frame.loads
      /\ frame'.content = frame.pending /\ frame'.pending = frame.pending /\ frame'.asked = frame.asked
  BY <1>1, <1>2 DEF FrameTypes
<1>4. FrameTypes'
  BY <1>1, <1>2, <1>3 DEF FrameTypes
<1>5. NoneFromLater' /\ LoadsMatch' /\ StopsGrounded' /\ ThemeFollows'
  BY <1>1, <1>2, <1>3
  DEF NoneFromLater, LoadsMatch, LoadsDue, Known, StopsGrounded, StoppedForCause, ThemeFollows
<1>6. HeightFollows'
  BY <1>1, <1>3 DEF HeightFollows
<1> QED
  BY <1>4, <1>5, <1>6 DEF FrameInv

\* The first event is taken off: what is due after it, and what it is itself.
LEMMA TakenStep ==
    ASSUME FrameInv, events # <<>>, events' = Tail(events), window'.id = window.id, grounds' = grounds
    PROVE  /\ events' \in Seq(FrameEvent) /\ Head(events) \in FrameEvent
           /\ \A i \in DOMAIN events' : events'[i].from <= window.id
           /\ \A i \in DOMAIN events' :
                events'[i].k = "stopped" /\ events'[i].from = window.id => window.id \in grounds
           /\ Head(events).k = "stopped" /\ Head(events).from = window.id => window.id \in grounds
           /\ 1 \in LoadsDue <=> Head(events).k = "load" /\ Head(events).from = window.id
           /\ LoadsDue = {} => LoadsDue' = {}
           /\ LoadsDue = {1} => LoadsDue' = {}
           /\ \A i \in LoadsDue : LoadsDue = {i} /\ i # 1 => LoadsDue' = {i - 1}
           /\ \A i \in LoadsDue : i # 1 => i - 1 \in LoadsDue'
           /\ \A i, j \in LoadsDue : i # j => i - 1 # j - 1
<1>1. FrameTypes /\ NoneFromLater /\ StopsGrounded
  BY DEF FrameInv
<1>2. /\ events' \in Seq(FrameEvent) /\ 1 \in DOMAIN events /\ Head(events) = events[1]
      /\ Head(events) \in FrameEvent
      /\ \A i \in DOMAIN events' : i + 1 \in DOMAIN events /\ events'[i] = events[i + 1]
      /\ LoadsDue \subseteq Nat /\ LoadsDue' = {i - 1 : i \in LoadsDue \ {1}}
  BY <1>1, EventTaken
<1>3. /\ \A i \in DOMAIN events' : events'[i].from <= window.id
      /\ \A i \in DOMAIN events' :
           events'[i].k = "stopped" /\ events'[i].from = window.id => window.id \in grounds
  BY <1>1, <1>2 DEF NoneFromLater, StopsGrounded
<1>4. /\ Head(events).k = "stopped" /\ Head(events).from = window.id => window.id \in grounds
      /\ 1 \in LoadsDue <=> Head(events).k = "load" /\ Head(events).from = window.id
  BY <1>1, <1>2 DEF LoadsDue, StopsGrounded
<1>5. /\ LoadsDue = {} => LoadsDue' = {}
      /\ LoadsDue = {1} => LoadsDue' = {}
      /\ \A i \in LoadsDue : i # 1 => i - 1 \in LoadsDue'
  BY <1>2
<1>6. \A i \in LoadsDue : LoadsDue = {i} /\ i # 1 => LoadsDue' = {i - 1}
  BY <1>2
<1>7. \A i, j \in LoadsDue : i # j => i - 1 # j - 1
  BY <1>2
<1> QED
  BY <1>2, <1>3, <1>4, <1>5, <1>6, <1>7

\* The first event is no load of the frame's window: the loads still match.
LEMMA NoLoadTaken ==
    ASSUME FrameInv, events # <<>>, events' = Tail(events), UNCHANGED <<window, grounds>>,
           frame'.up = frame.up, frame'.known = frame.known, frame'.loads = frame.loads,
           1 \notin LoadsDue \/ ~frame.up
    PROVE  LoadsMatch'
<1>1. LoadsMatch
  BY DEF FrameInv
<1>2. /\ LoadsDue = {} => LoadsDue' = {}
      /\ \A i \in LoadsDue : LoadsDue = {i} /\ i # 1 => LoadsDue' = {i - 1}
      /\ \A i \in LoadsDue : i # 1 => i - 1 \in LoadsDue'
      /\ \A i, j \in LoadsDue : i # j => i - 1 # j - 1
  BY TakenStep
<1>3. Known' <=> Known
  BY DEF Known
<1>4. CASE ~frame.up
  BY <1>1, <1>4 DEF LoadsMatch
<1>5. CASE 1 \notin LoadsDue
  <2>1. window.page = "own" =>
          /\ Known => LoadsDue' = {}
          /\ ~Known => \E i \in LoadsDue' : LoadsDue' = {i}
    <3>1. ASSUME window.page = "own", Known PROVE LoadsDue' = {}
      BY <1>1, <1>2, <3>1 DEF LoadsMatch
    <3>2. ASSUME window.page = "own", ~Known PROVE \E i \in LoadsDue' : LoadsDue' = {i}
      <4>1. PICK i \in LoadsDue : LoadsDue = {i}
        BY <1>1, <3>2 DEF LoadsMatch
      <4> QED
        BY <1>2, <1>5, <4>1
    <3> QED
      BY <3>1, <3>2
  <2>2. window.page = "elsewhere" =>
          /\ window.id \in grounds
          /\ \E i \in LoadsDue' : Known \/ \E j \in LoadsDue' : i # j
    <3> HAVE window.page = "elsewhere"
    <3>1. window.id \in grounds /\ \E i \in LoadsDue : Known \/ \E j \in LoadsDue : i # j
      BY <1>1 DEF LoadsMatch
    <3>2. PICK i \in LoadsDue : Known \/ \E j \in LoadsDue : i # j
      BY <3>1
    <3>3. CASE Known
      BY <1>2, <1>5, <3>1, <3>3
    <3>4. CASE \E j \in LoadsDue : i # j
      <4>1. PICK j \in LoadsDue : i # j
        BY <3>4
      <4>2. i - 1 \in LoadsDue' /\ j - 1 \in LoadsDue' /\ i - 1 # j - 1
        BY <1>2, <1>5, <4>1
      <4> QED
        BY <3>1, <4>2
    <3> QED
      BY <3>2, <3>3, <3>4
  <2>3. window.page = "parsing" => LoadsDue' = {} /\ ~Known
    BY <1>1, <1>2 DEF LoadsMatch
  <2>4. (~frame.up <=> window.page = "none") /\ (frame.up /\ Known => frame.loads = 1)
    BY <1>1 DEF LoadsMatch
  <2> QED
    BY <1>3, <2>1, <2>2, <2>3, <2>4 DEF LoadsMatch
<1> QED
  BY <1>4, <1>5

\* A stop: the frame goes, and there are grounds for it.
LEMMA StoppedStep ==
    ASSUME FrameInv, events # <<>>, events' = Tail(events), UNCHANGED <<theme, grounds>>,
           Stopped, frame.up, window.id \in grounds
    PROVE  FrameInv'
<1>1. FrameTypes /\ NoneFromLater /\ StopsGrounded
  BY DEF FrameInv
<1>2. /\ visual' = [visual EXCEPT !.stopped = TRUE] /\ frame' = NoFrame
      /\ window' = [window EXCEPT !.page = "none"] /\ posts' = posts
  BY DEF Stopped, Unmount
<1>3. window'.id = window.id /\ window'.page = "none" /\ window.id \in Nat
      /\ window' \in [id : Nat, page : {"none", "parsing", "own", "elsewhere"}, theme : SUBSET Theme]
  BY <1>1, <1>2 DEF FrameTypes
<1>4. /\ events' \in Seq(FrameEvent) /\ \A i \in DOMAIN events' : events'[i].from <= window.id
      /\ \A i \in DOMAIN events' :
           events'[i].k = "stopped" /\ events'[i].from = window.id => window.id \in grounds
  BY <1>3, TakenStep
<1>5. /\ visual' \in [answer : {"loading", "ready", "failed", "refused"}, stopped : BOOLEAN]
      /\ visual'.answer = "ready"
  BY <1>1, <1>2 DEF FrameTypes, StopsGrounded
<1>6. FrameTypes'
  <2>1. frame' \in [up : BOOLEAN, loads : {0, 1}, known : Nat, loaded : BOOLEAN, built : SUBSET Theme,
                    content : Height \cup {Reserved}, pending : Height \cup {Reserved},
                    timer : BOOLEAN, asked : Height \cup {Reserved}]
    BY <1>2 DEF NoFrame
  <2> QED
    BY <1>1, <1>2, <1>3, <1>4, <1>5, <2>1 DEF FrameTypes
<1>7. NoneFromLater'
  BY <1>1, <1>2, <1>3, <1>4 DEF NoneFromLater, NoFrame
<1>8. LoadsMatch' /\ ThemeFollows' /\ HeightFollows'
  BY <1>2, <1>3 DEF LoadsMatch, ThemeFollows, HeightFollows, NoFrame
<1>9. StopsGrounded'
  BY <1>3, <1>4, <1>5 DEF StopsGrounded, StoppedForCause
<1> QED
  BY <1>6, <1>7, <1>8, <1>9 DEF FrameInv

\* A load is counted: of two, the page went elsewhere.
LEMMA LoadedStep ==
    ASSUME FrameInv, events # <<>>, events' = Tail(events), UNCHANGED <<theme, grounds>>,
           Loaded, frame.up, Head(events).k = "load", Head(events).from = window.id
    PROVE  FrameInv'
<1>1. FrameTypes /\ NoneFromLater /\ LoadsMatch /\ StopsGrounded /\ HeightFollows
  BY DEF FrameInv
<1>2. 1 \in LoadsDue
  BY <1>1, EventTaken DEF LoadsDue
<1>3. CASE Known
  <2>1. frame.loads = 1 /\ window.id = frame.known
    BY <1>1, <1>3 DEF LoadsMatch, Known
  <2>2. Stopped
    BY <2>1 DEF Loaded
  <2>3. window.page = "elsewhere" /\ window.id \in grounds
    <3>1. window.page \in {"none", "parsing", "own", "elsewhere"}
      BY <1>1 DEF FrameTypes
    <3> QED
      BY <1>1, <1>2, <1>3, <3>1 DEF LoadsMatch
  <2> QED
    BY <2>2, <2>3, StoppedStep
<1>4. CASE ~Known
  <2>1. /\ frame' = [frame EXCEPT !.known = window.id, !.loads = 1, !.loaded = TRUE]
        /\ posts' = Append(posts, [to |-> window.id, theme |-> {theme}])
        /\ UNCHANGED <<visual, window>>
    <3> DEFINE loads == (IF window.id = frame.known THEN frame.loads ELSE 0) + 1
    <3>1. IF loads > 1 THEN Stopped
          ELSE /\ frame' = [frame EXCEPT !.known = window.id, !.loads = loads, !.loaded = TRUE]
               /\ posts' = Append(posts, [to |-> window.id, theme |-> {theme}])
               /\ UNCHANGED <<visual, window>>
      BY DEF Loaded
    <3>2. loads = 1
      BY <1>4 DEF Known
    <3> HIDE DEF loads
    <3> QED
      BY <3>1, <3>2
  <2>2. /\ frame' \in [up : BOOLEAN, loads : {0, 1}, known : Nat, loaded : BOOLEAN, built : SUBSET Theme,
                       content : Height \cup {Reserved}, pending : Height \cup {Reserved},
                       timer : BOOLEAN, asked : Height \cup {Reserved}]
        /\ frame'.up = frame.up /\ frame'.known = window.id /\ frame'.loads = 1
        /\ frame'.content = frame.content /\ frame'.pending = frame.pending
        /\ frame'.asked = frame.asked /\ frame'.timer = frame.timer
    BY <1>1, <2>1 DEF FrameTypes
  <2>3. /\ posts' \in Seq(Post) /\ \A i \in DOMAIN posts' : posts'[i].to <= window.id
        /\ \E i \in DOMAIN posts' : posts'[i].to = window.id
        /\ \A i \in DOMAIN posts' :
             posts'[i].to = window.id /\ (\A j \in DOMAIN posts' : j > i => posts'[j].to # window.id)
                 => posts'[i].theme = {theme}
    BY <1>1, <2>1, ThemePosted DEF FrameTypes
  <2>4. /\ events' \in Seq(FrameEvent) /\ \A i \in DOMAIN events' : events'[i].from <= window.id
        /\ \A i \in DOMAIN events' :
             events'[i].k = "stopped" /\ events'[i].from = window.id => window.id \in grounds
        /\ LoadsDue = {1} => LoadsDue' = {}
        /\ \A i \in LoadsDue : i # 1 => i - 1 \in LoadsDue'
    BY <2>1, TakenStep
  <2>5. FrameTypes'
    BY <1>1, <2>1, <2>2, <2>3, <2>4 DEF FrameTypes
  <2>6. NoneFromLater'
    BY <1>1, <2>1, <2>2, <2>3, <2>4 DEF NoneFromLater, FrameTypes
  <2>7. StopsGrounded'
    BY <1>1, <2>1, <2>2, <2>4 DEF StopsGrounded, StoppedForCause
  <2>8. ThemeFollows'
    <3>1. window' = window /\ theme' = theme
      BY <2>1
    <3> QED
      BY <2>3, <3>1 DEF ThemeFollows
  <2>9. HeightFollows'
    BY <1>1, <2>2 DEF HeightFollows
  <2>10. LoadsMatch'
    <3>1. Known' /\ window' = window /\ grounds' = grounds
      BY <2>1, <2>2 DEF Known
    <3>2. window.page # "parsing" /\ (~frame.up <=> window.page = "none")
      BY <1>1, <1>2 DEF LoadsMatch
    <3>3. window.page = "own" => LoadsDue' = {}
      <4> HAVE window.page = "own"
      <4>1. PICK i \in LoadsDue : LoadsDue = {i}
        BY <1>1, <1>4 DEF LoadsMatch
      <4> QED
        BY <1>2, <2>4, <4>1
    <3>4. window.page = "elsewhere" => window.id \in grounds /\ \E i \in LoadsDue' : TRUE
      <4> HAVE window.page = "elsewhere"
      <4>1. window.id \in grounds /\ \E i \in LoadsDue : \E j \in LoadsDue : i # j
        BY <1>1, <1>4 DEF LoadsMatch
      <4>2. PICK i \in LoadsDue : i # 1
        BY <4>1
      <4> QED
        BY <2>4, <4>1, <4>2
    <3> QED
      BY <2>2, <3>1, <3>2, <3>3, <3>4 DEF LoadsMatch
  <2> QED
    BY <2>5, <2>6, <2>7, <2>8, <2>9, <2>10 DEF FrameInv
<1> QED
  BY <1>3, <1>4

LEMMA HostEventStep == ASSUME FrameInv, HostEvent PROVE FrameInv'
<1> DEFINE e == Head(events)
<1>1. FrameTypes /\ NoneFromLater /\ LoadsMatch /\ StopsGrounded /\ ThemeFollows /\ HeightFollows
  BY DEF FrameInv
<1>2. events # <<>> /\ events' = Tail(events) /\ UNCHANGED <<theme, grounds>>
  BY DEF HostEvent
<1>3. CASE (~frame.up \/ e.from # window.id) /\ UNCHANGED <<visual, frame, window, posts>>
  <2>1. /\ events' \in Seq(FrameEvent) /\ \A i \in DOMAIN events' : events'[i].from <= window.id
        /\ \A i \in DOMAIN events' :
             events'[i].k = "stopped" /\ events'[i].from = window.id => window.id \in grounds
        /\ 1 \in LoadsDue => e.from = window.id
    BY <1>2, <1>3, TakenStep
  <2>2. LoadsMatch'
    BY <1>2, <1>3, <2>1, NoLoadTaken
  <2>3. FrameTypes' /\ NoneFromLater'
    BY <1>1, <1>2, <1>3, <2>1 DEF FrameTypes, NoneFromLater
  <2>4. StopsGrounded' /\ ThemeFollows' /\ HeightFollows'
    BY <1>1, <1>2, <1>3, <2>1 DEF StopsGrounded, StoppedForCause, ThemeFollows, Known, HeightFollows
  <2> QED
    BY <2>2, <2>3, <2>4 DEF FrameInv
<1>4. CASE frame.up /\ e.from = window.id /\ e.k = "size" /\ Sized(e.height)
  <2>1. /\ frame' = [frame EXCEPT !.pending = e.height, !.timer = TRUE, !.asked = e.height]
        /\ UNCHANGED <<visual, window, posts>>
    BY <1>4 DEF Sized
  <2>2. /\ events' \in Seq(FrameEvent) /\ \A i \in DOMAIN events' : events'[i].from <= window.id
        /\ \A i \in DOMAIN events' :
             events'[i].k = "stopped" /\ events'[i].from = window.id => window.id \in grounds
        /\ 1 \notin LoadsDue /\ e \in FrameEvent
    BY <1>2, <1>4, <2>1, TakenStep
  <2>3. /\ frame' \in [up : BOOLEAN, loads : {0, 1}, known : Nat, loaded : BOOLEAN, built : SUBSET Theme,
                       content : Height \cup {Reserved}, pending : Height \cup {Reserved},
                       timer : BOOLEAN, asked : Height \cup {Reserved}]
        /\ frame'.up = frame.up /\ frame'.known = frame.known /\ frame'.loads = frame.loads
        /\ frame'.pending = frame'.asked /\ frame'.timer
    <3>1. e.height \in Height \cup {Reserved}
      BY <2>2 DEF FrameEvent
    <3> QED
      BY <1>1, <2>1, <3>1 DEF FrameTypes
  <2>4. LoadsMatch'
    BY <1>2, <2>1, <2>2, <2>3, NoLoadTaken
  <2>5. FrameTypes' /\ NoneFromLater'
    BY <1>1, <1>2, <2>1, <2>2, <2>3 DEF FrameTypes, NoneFromLater
  <2>6. StopsGrounded' /\ ThemeFollows' /\ HeightFollows'
    BY <1>1, <1>2, <2>1, <2>2, <2>3
    DEF StopsGrounded, StoppedForCause, ThemeFollows, Known, HeightFollows
  <2> QED
    BY <2>4, <2>5, <2>6 DEF FrameInv
<1>5. CASE frame.up /\ e.from = window.id /\ e.k = "stopped" /\ Stopped
  <2>1. window'.id = window.id
    BY <1>1, <1>5 DEF Stopped, Unmount, FrameTypes
  <2>2. window.id \in grounds
    BY <1>2, <1>5, <2>1, TakenStep
  <2> QED
    BY <1>2, <1>5, <2>2, StoppedStep
<1>6. CASE frame.up /\ e.from = window.id /\ e.k = "load" /\ Loaded
  BY <1>2, <1>6, LoadedStep
<1> QED
  BY <1>3, <1>4, <1>5, <1>6 DEF HostEvent

-----------------------------------------------------------------------------
\* The document is in: its load is on its way.
LEMMA ParsedStep == ASSUME FrameInv, Parsed PROVE FrameInv'
<1>1. FrameTypes /\ NoneFromLater /\ LoadsMatch /\ StopsGrounded /\ ThemeFollows /\ HeightFollows
  BY DEF FrameInv
<1>2. /\ window.page = "parsing" /\ Heard(Event("load", Reserved))
      /\ window' = [window EXCEPT !.page = "own"]
      /\ UNCHANGED <<theme, visual, frame, posts, grounds>>
  BY DEF Parsed
<1>3. /\ window' \in [id : Nat, page : {"none", "parsing", "own", "elsewhere"}, theme : SUBSET Theme]
      /\ window'.id = window.id /\ window'.page = "own" /\ window.id \in Nat
  BY <1>1, <1>2 DEF FrameTypes
<1> DEFINE n == Len(events) + 1
<1>4. /\ events' \in Seq(FrameEvent) /\ DOMAIN events' = 1..n /\ n \notin LoadsDue
      /\ \A i \in DOMAIN events' :
            \/ i \in DOMAIN events /\ events'[i] = events[i]
            \/ i = n /\ events'[i].k = "load" /\ events'[i].from = window.id
      /\ LoadsDue' = LoadsDue \cup {n}
  BY <1>1, <1>2, <1>3, HeardStep
<1>5. FrameTypes'
  BY <1>1, <1>2, <1>3, <1>4 DEF FrameTypes
<1>6. NoneFromLater'
  BY <1>1, <1>2, <1>3, <1>4 DEF NoneFromLater
<1>7. StopsGrounded'
  BY <1>1, <1>2, <1>3, <1>4 DEF StopsGrounded, StoppedForCause
<1>8. ~Known' /\ LoadsDue' = {n} /\ frame.up
  BY <1>1, <1>2, <1>3, <1>4 DEF LoadsMatch, Known
<1>9. LoadsMatch' /\ ThemeFollows' /\ HeightFollows'
  BY <1>1, <1>2, <1>3, <1>8 DEF LoadsMatch, ThemeFollows, HeightFollows
<1> QED
  BY <1>5, <1>6, <1>7, <1>9 DEF FrameInv

\* The page goes elsewhere: one load more is on its way.
LEMMA NavigatesStep == ASSUME FrameInv, Navigates PROVE FrameInv'
<1>1. FrameTypes /\ NoneFromLater /\ LoadsMatch /\ StopsGrounded /\ ThemeFollows /\ HeightFollows
  BY DEF FrameInv
<1>2. /\ window.page = "own" /\ Heard(Event("load", Reserved))
      /\ window' = [window EXCEPT !.page = "elsewhere"] /\ grounds' = grounds \cup {window.id}
      /\ UNCHANGED <<theme, visual, frame, posts>>
  BY DEF Navigates
<1>3. /\ window' \in [id : Nat, page : {"none", "parsing", "own", "elsewhere"}, theme : SUBSET Theme]
      /\ window'.id = window.id /\ window'.page = "elsewhere" /\ window.id \in Nat
  BY <1>1, <1>2 DEF FrameTypes
<1> DEFINE n == Len(events) + 1
<1>4. /\ events' \in Seq(FrameEvent) /\ DOMAIN events' = 1..n /\ n \notin LoadsDue
      /\ \A i \in DOMAIN events' :
            \/ i \in DOMAIN events /\ events'[i] = events[i]
            \/ i = n /\ events'[i].k = "load" /\ events'[i].from = window.id
      /\ LoadsDue' = LoadsDue \cup {n}
  BY <1>1, <1>2, <1>3, HeardStep
<1>5. FrameTypes'
  BY <1>1, <1>2, <1>3, <1>4 DEF FrameTypes
<1>6. NoneFromLater'
  BY <1>1, <1>2, <1>3, <1>4 DEF NoneFromLater
<1>7. StopsGrounded'
  BY <1>1, <1>2, <1>3, <1>4 DEF StopsGrounded, StoppedForCause
<1>8. /\ frame.up /\ (Known' <=> Known) /\ (Known => frame.loads = 1)
      /\ ~Known => \E i \in LoadsDue : i # n
  BY <1>1, <1>2, <1>3, <1>4 DEF LoadsMatch, Known
<1>9. \E i \in LoadsDue' : Known' \/ \E j \in LoadsDue' : i # j
  BY <1>4, <1>8
<1>10. LoadsMatch'
  BY <1>2, <1>3, <1>8, <1>9 DEF LoadsMatch
<1>11. ThemeFollows' /\ HeightFollows'
  BY <1>1, <1>2, <1>3 DEF ThemeFollows, HeightFollows
<1> QED
  BY <1>5, <1>6, <1>7, <1>10, <1>11 DEF FrameInv

\* A size or a stop is on its way: no load is.
LEMMA PagePostsStep == ASSUME FrameInv, PagePosts PROVE FrameInv'
<1>1. FrameTypes /\ NoneFromLater /\ LoadsMatch /\ StopsGrounded /\ ThemeFollows /\ HeightFollows
  BY DEF FrameInv
<1>2. PICK k \in {"size", "stopped"} :
        /\ \E h \in Height \cup {Reserved} : Heard(Event(k, h))
        /\ grounds' = IF k = "stopped" THEN grounds \cup {window.id} ELSE grounds
  BY DEF PagePosts
<1>3. PICK h \in Height \cup {Reserved} : Heard(Event(k, h))
  BY <1>2
<1>4. UNCHANGED <<theme, visual, frame, window, posts>> /\ window.id \in Nat
  BY <1>1 DEF PagePosts, FrameTypes
<1> DEFINE n == Len(events) + 1
<1>5. /\ events' \in Seq(FrameEvent) /\ DOMAIN events' = 1..n
      /\ \A i \in DOMAIN events' :
            \/ i \in DOMAIN events /\ events'[i] = events[i]
            \/ i = n /\ events'[i].k = k /\ events'[i].from = window.id
      /\ LoadsDue' = LoadsDue
  <2>1. k \in {"size", "stopped", "load"} /\ k # "load" /\ window'.id = window.id
    BY <1>4
  <2> QED
    BY <1>1, <1>3, <2>1, HeardStep
<1>6. FrameTypes'
  <2>1. grounds' \subseteq Nat
    BY <1>1, <1>2, <1>4 DEF FrameTypes
  <2> QED
    BY <1>1, <1>4, <1>5, <2>1 DEF FrameTypes
<1>7. NoneFromLater'
  BY <1>1, <1>4, <1>5 DEF NoneFromLater
<1>8. StopsGrounded'
  BY <1>1, <1>2, <1>4, <1>5 DEF StopsGrounded, StoppedForCause
<1>9. LoadsMatch'
  <2>1. grounds \subseteq grounds' /\ (Known' <=> Known)
    BY <1>2, <1>4 DEF Known
  <2> QED
    BY <1>1, <1>4, <1>5, <2>1 DEF LoadsMatch
<1>10. ThemeFollows' /\ HeightFollows'
  BY <1>1, <1>4 DEF ThemeFollows, Known, HeightFollows
<1> QED
  BY <1>6, <1>7, <1>8, <1>9, <1>10 DEF FrameInv

\* A theme arrives: the one after it, or the page's own, is the app's.
LEMMA ThemeArrivesStep == ASSUME FrameInv, ThemeArrives PROVE FrameInv'
<1>1. FrameTypes /\ NoneFromLater /\ LoadsMatch /\ StopsGrounded /\ ThemeFollows /\ HeightFollows
  BY DEF FrameInv
<1>2. posts # <<>> /\ posts' = Tail(posts) /\ UNCHANGED <<theme, visual, frame, events, grounds>>
  BY DEF ThemeArrives
<1>3. /\ posts' \in Seq(Post) /\ 1 \in DOMAIN posts /\ Head(posts) = posts[1]
      /\ Head(posts) \in Post /\ posts \in Seq(Post)
      /\ DOMAIN posts' = 1..(Len(posts) - 1) /\ DOMAIN posts = 1..Len(posts) /\ Len(posts) \in Nat \ {0}
      /\ \A i \in DOMAIN posts' : i + 1 \in DOMAIN posts /\ posts'[i] = posts[i + 1]
  BY <1>1, <1>2 DEF FrameTypes
<1>4. \A j \in DOMAIN posts : j = 1 \/ \E i \in DOMAIN posts' : j = i + 1
  <2> TAKE j \in DOMAIN posts
  <2>1. j # 1 => j - 1 \in DOMAIN posts' /\ j = (j - 1) + 1
    BY <1>3
  <2> QED
    BY <2>1
<1>5. /\ window' \in [id : Nat, page : {"none", "parsing", "own", "elsewhere"}, theme : SUBSET Theme]
      /\ window'.id = window.id /\ window'.page = window.page
      /\ window.page = "own" =>
            window'.theme = IF Head(posts).to = window.id THEN Head(posts).theme ELSE window.theme
  <2>1. Head(posts).theme \in SUBSET Theme /\ window \in [id : Nat, page : {"none", "parsing", "own", "elsewhere"}, theme : SUBSET Theme]
    BY <1>1, <1>3 DEF Post, FrameTypes
  <2>2. CASE window' = [window EXCEPT !.theme = Head(posts).theme] /\ Head(posts).to = window.id
    BY <2>1, <2>2
  <2>3. CASE UNCHANGED window /\ (Head(posts).to # window.id \/ window.page \in {"none", "elsewhere", "parsing"})
    BY <2>1, <2>3
  <2> QED
    BY <2>2, <2>3 DEF ThemeArrives
<1>6. FrameTypes'
  BY <1>1, <1>2, <1>3, <1>5 DEF FrameTypes
<1>7. NoneFromLater'
  BY <1>1, <1>2, <1>3, <1>5 DEF NoneFromLater
<1>8. StopsGrounded' /\ HeightFollows'
  BY <1>1, <1>2, <1>5 DEF StopsGrounded, StoppedForCause, HeightFollows
<1>9. LoadsMatch'
  <2>1. LoadsDue' = LoadsDue /\ (Known' <=> Known)
    BY <1>2, <1>5 DEF LoadsDue, Known
  <2> QED
    BY <1>1, <1>2, <1>5, <2>1 DEF LoadsMatch
<1>10. ThemeFollows'
  <2> SUFFICES ASSUME window.page = "own", Known
               PROVE  /\ \A i \in DOMAIN posts' :
                           posts'[i].to = window.id
                           /\ (\A j \in DOMAIN posts' : j > i => posts'[j].to # window.id)
                               => posts'[i].theme = {theme}
                      /\ (\A i \in DOMAIN posts' : posts'[i].to # window.id) => window'.theme = {theme}
    BY <1>2, <1>5 DEF ThemeFollows, Known
  <2>1. /\ \A i \in DOMAIN posts :
            posts[i].to = window.id /\ (\A j \in DOMAIN posts : j > i => posts[j].to # window.id)
                => posts[i].theme = {theme}
        /\ (\A i \in DOMAIN posts : posts[i].to # window.id) => window.theme = {theme}
    BY <1>1 DEF ThemeFollows
  <2>2. ASSUME NEW i \in DOMAIN posts', posts'[i].to = window.id,
               \A j \in DOMAIN posts' : j > i => posts'[j].to # window.id
        PROVE  posts'[i].theme = {theme}
    <3>1. ASSUME NEW j \in DOMAIN posts, j > i + 1 PROVE posts[j].to # window.id
      <4>1. PICK l \in DOMAIN posts' : j = l + 1
        BY <1>3, <1>4, <3>1
      <4> QED
        BY <1>3, <2>2, <3>1, <4>1
    <3>2. i + 1 \in DOMAIN posts /\ posts'[i] = posts[i + 1]
      BY <1>3
    <3> QED
      BY <2>1, <2>2, <3>1, <3>2
  <2>3. ASSUME \A i \in DOMAIN posts' : posts'[i].to # window.id PROVE window'.theme = {theme}
    <3>1. ASSUME NEW j \in DOMAIN posts, j # 1 PROVE posts[j].to # window.id
      <4>1. PICK l \in DOMAIN posts' : j = l + 1
        BY <1>4, <3>1
      <4> QED
        BY <1>3, <2>3, <4>1
    <3>2. CASE Head(posts).to = window.id
      <4>1. posts[1].to = window.id /\ \A j \in DOMAIN posts : j > 1 => posts[j].to # window.id
        BY <1>3, <3>1, <3>2
      <4>2. posts[1].theme = {theme}
        BY <1>3, <2>1, <4>1
      <4> QED
        BY <1>3, <1>5, <3>2, <4>2
    <3>3. CASE Head(posts).to # window.id
      BY <1>3, <1>5, <2>1, <3>1, <3>3
    <3> QED
      BY <3>2, <3>3
  <2> QED
    BY <2>2, <2>3
<1> QED
  BY <1>6, <1>7, <1>8, <1>9, <1>10 DEF FrameInv

-----------------------------------------------------------------------------
LEMMA FrameStep == ASSUME FrameInv, [FrameNext]_frameVars PROVE FrameInv'
<1>1. FrameTypes /\ StopsGrounded
  BY DEF FrameInv
<1>2. CASE Answered
  <2>1. visual.answer = "loading" /\ ~visual.stopped
    BY <1>1, <1>2 DEF Answered, StopsGrounded
  <2>2. CASE visual' = [visual EXCEPT !.answer = "ready"] /\ Mount
    BY <1>1, <1>2, <2>1, <2>2, MountStep DEF Answered, FrameTypes
  <2>3. CASE /\ \E a \in {"failed", "refused"} : visual' = [visual EXCEPT !.answer = a]
             /\ UNCHANGED <<frame, window, grounds>>
    BY <1>2, <2>1, <2>3, AnswerStep DEF Answered
  <2> QED
    BY <1>2, <2>2, <2>3 DEF Answered
<1>3. CASE Retry
  BY <1>3, AnswerStep DEF Retry
<1>4. CASE ReloadVisual
  BY <1>1, <1>4, MountStep DEF ReloadVisual, FrameTypes
<1>5. CASE UNCHANGED frameVars
  <2>1. /\ theme' = theme /\ visual' = visual /\ frame' = frame /\ window' = window
        /\ events' = events /\ posts' = posts /\ grounds' = grounds
    BY <1>5 DEF frameVars
  <2>2. FrameTypes' /\ NoneFromLater'
    BY <2>1 DEF FrameInv, FrameTypes, NoneFromLater
  <2>3. LoadsMatch'
    BY <2>1 DEF FrameInv, LoadsMatch, LoadsDue, Known
  <2>4. StopsGrounded' /\ ThemeFollows' /\ HeightFollows'
    BY <2>1 DEF FrameInv, StopsGrounded, StoppedForCause, ThemeFollows, Known, HeightFollows
  <2> QED
    BY <2>2, <2>3, <2>4 DEF FrameInv
<1> QED
  BY <1>2, <1>3, <1>4, <1>5, TimerStep, HostEventStep, ParsedStep, NavigatesStep, PagePostsStep,
     ThemeArrivesStep, ReinsertedStep, ChangeThemeStep DEF FrameNext

\* In every reachable state a visual is shown as the app and its page last
\* asked once all that is on its way has come, and it is stopped only for what
\* a window of this mount did (InlineVisualFrame.tsx onLoad, onMessage).
THEOREM VisualAlwaysHonest == FrameSpec => []FrameHonest
<1>1. FrameInit => FrameInv
  BY FrameInitInv
<1>2. FrameInv /\ [FrameNext]_frameVars => FrameInv'
  BY FrameStep
<1>3. FrameInv => FrameHonest
  <2> SUFFICES ASSUME FrameInv PROVE FrameHonest
    OBVIOUS
  <2>1. LoadsMatch /\ StopsGrounded /\ ThemeFollows /\ HeightFollows
    BY DEF FrameInv
  <2>2. ASSUME Settled, frame.up
        PROVE  /\ window.page # "elsewhere" /\ (window.page = "own" => window.theme = {theme})
               /\ (~frame.timer => frame.content = frame.asked)
    <3>1. DOMAIN events = {} /\ DOMAIN posts = {} /\ LoadsDue = {}
      BY <2>2 DEF Settled, LoadsDue
    <3>2. window.page # "elsewhere" /\ (window.page = "own" => Known)
      BY <2>1, <3>1 DEF LoadsMatch
    <3> QED
      BY <2>1, <3>1, <3>2 DEF ThemeFollows, HeightFollows
  <2> QED
    BY <2>1, <2>2 DEF FrameHonest, ShownAsAsked, StopsGrounded
<1> QED
  BY <1>1, <1>2, <1>3, PTL DEF FrameSpec

-----------------------------------------------------------------------------
(* PageCalls: the config and what is dispatched.                           *)

\* A decoded list is the list it was decoded from, and the cached config has the
\* last one; the folders are the context's once the page was drawn with it.
ConfigInv ==
    /\ decoded = [input |-> decoded.input, list |-> decoded.input]
    /\ config.list = providers
    /\ drawn = context => config.cwd = context.cwd /\ config.homeDir = context.homeDir
    /\ NoNullAnswer

\* The dispatch is the page's own, so that it drops the nulls.
LEMMA DispatchLocal == Route(Dispatch) = "local"
  BY PageCallsAssumption DEF Route, Local, Dispatch

LEMMA DecodeExact ==
    ASSUME ConfigInv, NEW list
    PROVE  Decode(list) = [input |-> list, list |-> list]
  BY DEF ConfigInv, Decode

LEMMA PutConfigStep ==
    ASSUME ConfigInv, NEW ctx, NEW list, PutConfig(ctx, list)
    PROVE  /\ decoded' = [input |-> list, list |-> list]
           /\ config' = [cwd |-> ctx.cwd, homeDir |-> ctx.homeDir, list |-> list]
<1>1. decoded' = [input |-> list, list |-> list]
  BY DecodeExact DEF PutConfig
<1> QED
  BY <1>1 DEF PutConfig, ServerConfigOf

LEMMA PageCallsStep == ASSUME ConfigInv, [PageCallsNext]_pageCallVars PROVE ConfigInv'
<1>1. ASSUME UNCHANGED <<context, drawn, providers, config>>, decoded' = decoded \/ decoded' = Decode(providers),
             NoNullAnswer'
      PROVE  ConfigInv'
  <2>1. decoded' = [input |-> decoded'.input, list |-> decoded'.input]
    BY <1>1, DecodeExact DEF ConfigInv
  <2> QED
    BY <1>1, <2>1 DEF ConfigInv
<1>2. ASSUME NEW method, CallServed(method) PROVE ConfigInv'
  <2>1. PICK nulls \in BOOLEAN : posted' = [kind |-> "request", method |-> method,
                                            nulls |-> nulls /\ Route(method) = "forwarded"]
    BY <1>2 DEF CallServed
  <2>2. NoNullAnswer'
    BY <2>1, DispatchLocal DEF NoNullAnswer
  <2> QED
    BY <1>1, <1>2, <2>2 DEF CallServed, Keeps
<1>3. ASSUME NEW method, CallNowhere(method) \/ CallUnserved(method) PROVE ConfigInv'
  <2>1. NoNullAnswer'
    BY <1>3 DEF CallNowhere, CallUnserved, NoNullAnswer, Nothing
  <2> QED
    BY <1>1, <1>3, <2>1 DEF CallNowhere, CallUnserved, Keeps
<1>4. ASSUME CallConfig PROVE ConfigInv'
  BY <1>1, <1>4 DEF CallConfig, NoNullAnswer, Nothing
<1>5. ASSUME NEW q, OpenPath(q) PROVE ConfigInv'
  <2>1. posted'.kind # "request"
    BY <1>5 DEF OpenPath
  <2> QED
    BY <1>1, <1>5, <2>1 DEF OpenPath, Keeps, NoNullAnswer
<1>6. ASSUME NEW scheme, OpenLink(scheme) PROVE ConfigInv'
  <2>1. posted'.kind # "request"
    BY <1>6 DEF OpenLink, Nothing
  <2> QED
    BY <1>1, <1>6, <2>1 DEF OpenLink, Keeps, NoNullAnswer
<1>7. ASSUME NEW ctx, PushContext(ctx) PROVE ConfigInv'
  <2>1. /\ drawn' # context' /\ UNCHANGED <<providers, decoded, config>> /\ posted'.kind # "request"
    BY <1>7 DEF PushContext, Nothing
  <2> QED
    BY <2>1 DEF ConfigInv, NoNullAnswer
<1>8. ASSUME NEW list, PushProviders(list) PROVE ConfigInv'
  <2>1. /\ PutConfig(context, list) /\ providers' = list /\ UNCHANGED <<context, drawn>>
        /\ posted'.kind # "request"
    BY <1>8 DEF PushProviders, Nothing
  <2>2. /\ decoded' = [input |-> list, list |-> list]
        /\ config' = [cwd |-> context.cwd, homeDir |-> context.homeDir, list |-> list]
    BY <2>1, PutConfigStep
  <2> QED
    BY <2>1, <2>2 DEF ConfigInv, NoNullAnswer
<1>9. ASSUME PageDrawn PROVE ConfigInv'
  <2>1. /\ PutConfig(context, providers) /\ UNCHANGED <<context, providers>> /\ posted'.kind # "request"
    BY <1>9 DEF PageDrawn, Nothing
  <2>2. /\ decoded' = [input |-> providers, list |-> providers]
        /\ config' = [cwd |-> context.cwd, homeDir |-> context.homeDir, list |-> providers]
    BY <2>1, PutConfigStep
  <2> QED
    BY <2>1, <2>2 DEF ConfigInv, NoNullAnswer
<1>10. CASE UNCHANGED pageCallVars
  BY <1>1, <1>10 DEF pageCallVars, NoNullAnswer, ConfigInv
<1> QED
  BY <1>2, <1>3, <1>4, <1>5, <1>6, <1>7, <1>8, <1>9, <1>10 DEF PageCallsNext

\* In every reachable state the server config the page answers from is of the
\* last providers pushed and of the folders it was last drawn with, and no
\* question was answered with a null (bridge.ts, main.tsx, nativeApi.ts).
THEOREM ConfigAlwaysCurrent == PageCallsSpec => [](ConfigCurrent /\ NoNullAnswer)
<1>1. PageCallsInit => ConfigInv
  BY DEF PageCallsInit, ConfigInv, NoNullAnswer, NoContext, Nothing
<1>2. ConfigInv /\ [PageCallsNext]_pageCallVars => ConfigInv'
  BY PageCallsStep
<1>3. ConfigInv => ConfigCurrent /\ NoNullAnswer
  BY DEF ConfigInv, ConfigCurrent
<1> QED
  BY <1>1, <1>2, <1>3, PTL DEF PageCallsSpec

-----------------------------------------------------------------------------
\* The paths after each of the first k segments.
Walk(f, parts, k) ==
    f = [n \in 0..k |-> IF n = 0 THEN {<<>>} ELSE NormalizeStep(f[n - 1], parts[n])]

\* Such paths exist.
LEMMA WalkExists ==
    ASSUME NEW parts, NEW n \in Nat
    PROVE  \E f : Walk(f, parts, n)
<1> DEFINE S == {k \in Nat : \E f : Walk(f, parts, k)}
<1>1. 0 \in S
  <2>1. Walk([n0 \in 0..0 |-> {<<>>}], parts, 0)
    BY DEF Walk
  <2> QED
    BY <2>1
<1>2. ASSUME NEW k \in 0..(n - 1), k \in S PROVE k + 1 \in S
  <2>1. PICK f : Walk(f, parts, k)
    BY <1>2
  <2> DEFINE g == [m \in 0..(k + 1) |->
                      IF m = k + 1 THEN NormalizeStep(f[k], parts[k + 1]) ELSE f[m]]
  <2>2. \A m \in 0..k : g[m] = f[m]
    OBVIOUS
  <2>3. \A m \in 0..(k + 1) : g[m] = IF m = 0 THEN {<<>>} ELSE NormalizeStep(g[m - 1], parts[m])
    <3> SUFFICES ASSUME NEW m \in 0..(k + 1)
                 PROVE  g[m] = IF m = 0 THEN {<<>>} ELSE NormalizeStep(g[m - 1], parts[m])
      OBVIOUS
    <3>1. CASE m = k + 1
      <4>1. m - 1 = k /\ g[m - 1] = f[k] /\ m # 0
        BY <2>2, <3>1
      <4> QED
        BY <3>1, <4>1
    <3>2. CASE m # k + 1
      <4>1. m \in 0..k /\ (m # 0 => m - 1 \in 0..k)
        BY <3>2
      <4>2. f[m] = IF m = 0 THEN {<<>>} ELSE NormalizeStep(f[m - 1], parts[m])
        BY <2>1, <4>1 DEF Walk
      <4> HIDE DEF g
      <4> QED
        BY <2>2, <4>1, <4>2
    <3> QED
      BY <3>1, <3>2
  <2>4. Walk(g, parts, k + 1)
    <3> HIDE DEF g
    <3>1. g = [m \in 0..(k + 1) |-> g[m]]
      BY DEF g
    <3> QED
      BY <2>3, <3>1, Zenon DEF Walk
  <2> QED
    BY <2>4
<1> HIDE DEF S
<1>3. \A k \in 0..n : k \in S
  BY <1>1, <1>2, CountingUp
<1>4. n \in S
  BY <1>3
<1> QED
  BY <1>4 DEF S

\* normalize, a segment at a time.
LEMMA NormalizeWalks ==
    ASSUME NEW parts, parts \in Seq(STRING)
    PROVE  \E f : /\ Normalize(parts) = f[Len(parts)] /\ f[0] = {<<>>}
                  /\ \A n \in 1..Len(parts) : f[n] = NormalizeStep(f[n - 1], parts[n])
<1> DEFINE L == Len(parts)
           f == CHOOSE g : Walk(g, parts, L)
<1>1. L \in Nat
  BY LenProperties
<1>2. Normalize(parts) = f[L]
  BY Zenon DEF Normalize, Walk
<1> HIDE DEF L
<1>3. Walk(f, parts, L)
  BY <1>1, WalkExists
<1> HIDE DEF f
<1>4. f = [n \in 0..L |-> IF n = 0 THEN {<<>>} ELSE NormalizeStep(f[n - 1], parts[n])]
  BY <1>3 DEF Walk
<1>5. ASSUME NEW n \in 0..L
      PROVE  f[n] = IF n = 0 THEN {<<>>} ELSE NormalizeStep(f[n - 1], parts[n])
  BY <1>4, Zenon
<1>6. f[0] = {<<>>} /\ \A n \in 1..L : f[n] = NormalizeStep(f[n - 1], parts[n])
  <2>1. 0 \in 0..L /\ \A n \in 1..L : n \in 0..L /\ n # 0
    BY <1>1
  <2> QED
    BY <1>5, <2>1, Zenon
<1> QED
  BY <1>2, <1>6 DEF L

Named(part) == part \notin {"", ".", ".."}

\* How much deeper a segment leads.
Slope(part) == IF Named(part) THEN 1 ELSE IF part = ".." THEN -1 ELSE 0

\* A segment leads one deeper, one up, or nowhere.
LEMMA DepthSteps ==
    ASSUME NEW parts, parts \in Seq(STRING), NEW i \in 1..(Len(parts) + 1)
    PROVE  /\ Depth(parts, i, i - 1) = 0
           /\ \A j \in i..Len(parts) : Depth(parts, i, j) = Depth(parts, i, j - 1) + Slope(parts[j])
           /\ \A j \in (i - 1)..Len(parts) : Depth(parts, i, j) \in Int
<1>0. Len(parts) \in Nat /\ i \in Nat /\ i # 0
  BY LenProperties
<1> DEFINE U(j) == {k \in i..j : parts[k] \notin {"", ".", ".."}}
           D(j) == {k \in i..j : parts[k] = ".."}
<1>1. ASSUME NEW j \in (i - 1)..Len(parts)
      PROVE  /\ IsFiniteSet(U(j)) /\ IsFiniteSet(D(j))
             /\ Cardinality(U(j)) \in Nat /\ Cardinality(D(j)) \in Nat
  <2>1. IsFiniteSet(i..j)
    BY <1>0, FS_Interval
  <2>2. U(j) \in SUBSET (i..j) /\ D(j) \in SUBSET (i..j)
    OBVIOUS
  <2> HIDE DEF U, D
  <2>3. IsFiniteSet(U(j)) /\ IsFiniteSet(D(j))
    BY <2>1, <2>2, FS_Subset
  <2> QED
    BY <2>3, FS_CardinalityType
<1>2. ASSUME NEW j
      PROVE  Depth(parts, i, j) = Cardinality(U(j)) - Cardinality(D(j))
  BY DEF Depth
<1>3. Depth(parts, i, i - 1) = 0
  <2>0. i..(i - 1) = {}
    BY <1>0
  <2>1. U(i - 1) = {} /\ D(i - 1) = {}
    BY <2>0
  <2> HIDE DEF U, D
  <2>2. Cardinality(U(i - 1)) = 0 /\ Cardinality(D(i - 1)) = 0
    BY <2>1, FS_EmptySet
  <2>3. Depth(parts, i, i - 1) = Cardinality(U(i - 1)) - Cardinality(D(i - 1))
    BY <1>2
  <2> QED
    BY <2>2, <2>3
<1>4. ASSUME NEW j \in i..Len(parts)
      PROVE  Depth(parts, i, j) = Depth(parts, i, j - 1) + Slope(parts[j])
  <2>0. j - 1 \in (i - 1)..Len(parts) /\ j \in Nat /\ j \notin i..(j - 1) /\ j \in (i - 1)..Len(parts)
    BY <1>0
  <2>a. i..j = (i..(j - 1)) \cup {j}
    BY <1>0
  <2>1. U(j) = IF Named(parts[j]) THEN U(j - 1) \cup {j} ELSE U(j - 1)
    BY <2>a DEF Named
  <2>2. D(j) = IF parts[j] = ".." THEN D(j - 1) \cup {j} ELSE D(j - 1)
    BY <2>a
  <2>3. j \notin U(j - 1) /\ j \notin D(j - 1)
    BY <2>0
  <2>4. parts[j] = ".." => ~Named(parts[j])
    BY DEF Named
  <2> HIDE DEF U, D
  <2>5. Cardinality(U(j)) = IF Named(parts[j]) THEN Cardinality(U(j - 1)) + 1 ELSE Cardinality(U(j - 1))
    BY <1>1, <2>0, <2>1, <2>3, FS_AddElement
  <2>6. Cardinality(D(j)) = IF parts[j] = ".." THEN Cardinality(D(j - 1)) + 1 ELSE Cardinality(D(j - 1))
    BY <1>1, <2>0, <2>2, <2>3, FS_AddElement
  <2>7. /\ Cardinality(U(j - 1)) \in Nat /\ Cardinality(D(j - 1)) \in Nat
    BY <1>1, <2>0
  <2> QED
    BY <1>2, <2>4, <2>5, <2>6, <2>7 DEF Slope
<1>5. ASSUME NEW j \in (i - 1)..Len(parts) PROVE Depth(parts, i, j) \in Int
  <2> HIDE DEF U, D
  <2> QED
    BY <1>1, <1>2
<1> QED
  BY <1>3, <1>4, <1>5

\* A segment whose name is not taken away up to segment n.
NameOpen(parts, i, n) == Named(parts[i]) /\ \A j \in i..n : Depth(parts, i, j) > 0

\* The segments whose names make up the path after n of them, in order: the
\* last but k is as far below the end as it has names after it.
NameStack(parts, n, m, g) ==
    /\ m \in Nat /\ g \in [1..m -> 1..n]
    /\ m = Depth(parts, 1, n)
    /\ \A a, b \in 1..m : a < b => g[a] < g[b]
    /\ \A a \in 1..m : Depth(parts, g[a], n) = m - a + 1
    /\ \A i \in 1..n : (\E a \in 1..m : g[a] = i) <=> NameOpen(parts, i, n)

Spelt(parts, m, g) == [k \in 1..m |-> parts[g[k]]]

Climbs(parts, n) == \E j \in 1..n : Depth(parts, 1, j) < 0

\* A name that is left after a segment was left before it, or is that segment.
LEMMA OpenSteps ==
    ASSUME NEW parts, parts \in Seq(STRING), NEW n \in 0..(Len(parts) - 1), NEW i \in 1..n
    PROVE  NameOpen(parts, i, n + 1) <=> NameOpen(parts, i, n) /\ Depth(parts, i, n + 1) > 0
<1>1. Len(parts) \in Nat /\ n \in Nat /\ i \in Nat
  BY LenProperties
<1>2. i..(n + 1) = (i..n) \cup {n + 1}
  BY <1>1
<1> QED
  BY <1>2 DEF NameOpen

\* One more segment changes the depth by its slope.
LEMMA StepDepth ==
    ASSUME NEW parts, parts \in Seq(STRING), NEW n \in 0..(Len(parts) - 1), NEW i \in 1..(n + 1)
    PROVE  /\ Depth(parts, i, n + 1) = Depth(parts, i, n) + Slope(parts[n + 1])
           /\ Depth(parts, i, n) \in Int
<1>1. /\ Len(parts) \in Nat /\ n \in Nat /\ i \in Nat /\ i \in 1..(Len(parts) + 1)
      /\ n + 1 \in i..Len(parts) /\ n \in (i - 1)..Len(parts) /\ (n + 1) - 1 = n
  BY LenProperties
<1>2. Depth(parts, i, n + 1) = Depth(parts, i, (n + 1) - 1) + Slope(parts[n + 1])
  BY <1>1, DepthSteps
<1> QED
  BY <1>1, <1>2, DepthSteps

\* An empty segment or "." leaves the names as they are.
LEMMA StackSame ==
    ASSUME NEW parts, parts \in Seq(STRING), NEW n \in 0..(Len(parts) - 1),
           NEW m, NEW g, NameStack(parts, n, m, g), ~Named(parts[n + 1]), parts[n + 1] # ".."
    PROVE  NameStack(parts, n + 1, m, g)
<1>1. Len(parts) \in Nat /\ n \in Nat /\ m \in Nat /\ g \in [1..m -> 1..n]
  BY LenProperties DEF NameStack
<1>2. ~Named(parts[n + 1]) /\ Slope(parts[n + 1]) = 0
  BY DEF Slope
<1>3. \A i \in 1..(n + 1) : Depth(parts, i, n + 1) = Depth(parts, i, n)
  BY <1>2, StepDepth
<1>4. g \in [1..m -> 1..(n + 1)]
  BY <1>1
<1>5. m = Depth(parts, 1, n + 1) /\ \A a \in 1..m : Depth(parts, g[a], n + 1) = m - a + 1
  <2>1. 1 \in 1..(n + 1) /\ \A a \in 1..m : g[a] \in 1..(n + 1)
    BY <1>1
  <2> QED
    BY <1>3, <2>1 DEF NameStack
<1>6. ASSUME NEW i \in 1..(n + 1)
      PROVE  (\E a \in 1..m : g[a] = i) <=> NameOpen(parts, i, n + 1)
  <2>1. CASE i = n + 1
    BY <1>1, <1>2, <2>1 DEF NameOpen
  <2>2. CASE i # n + 1
    <3>1. i \in 1..n
      BY <1>1, <2>2
    <3>2. NameOpen(parts, i, n) => Depth(parts, i, n) > 0
      BY <1>1, <3>1 DEF NameOpen
    <3>3. NameOpen(parts, i, n + 1) <=> NameOpen(parts, i, n)
      BY <1>3, <3>1, <3>2, OpenSteps
    <3> QED
      BY <3>1, <3>3 DEF NameStack
  <2> QED
    BY <2>1, <2>2
<1> QED
  BY <1>1, <1>4, <1>5, <1>6 DEF NameStack

\* A name is left on top of those before it.
LEMMA StackPush ==
    ASSUME NEW parts, parts \in Seq(STRING), NEW n \in 0..(Len(parts) - 1),
           NEW m, NEW g, NameStack(parts, n, m, g), Named(parts[n + 1])
    PROVE  LET h == [k \in 1..(m + 1) |-> IF k = m + 1 THEN n + 1 ELSE g[k]]
           IN  NameStack(parts, n + 1, m + 1, h) /\ Spelt(parts, m + 1, h) = Append(Spelt(parts, m, g), parts[n + 1])
<1> DEFINE h == [k \in 1..(m + 1) |-> IF k = m + 1 THEN n + 1 ELSE g[k]]
<1>1. Len(parts) \in Nat /\ n \in Nat /\ m \in Nat /\ g \in [1..m -> 1..n]
  BY LenProperties DEF NameStack
<1>2. Slope(parts[n + 1]) = 1
  BY DEF Slope
<1>3. \A i \in 1..(n + 1) : Depth(parts, i, n + 1) = Depth(parts, i, n) + 1 /\ Depth(parts, i, n) \in Int
  BY <1>2, StepDepth
<1>4. /\ h \in [1..(m + 1) -> 1..(n + 1)] /\ h[m + 1] = n + 1
      /\ \A k \in 1..m : h[k] = g[k] /\ g[k] \in 1..n
      /\ \A k \in 1..(m + 1) : k = m + 1 \/ k \in 1..m
  BY <1>1
<1>5. Depth(parts, n + 1, n) = 0
  <2>1. n + 1 \in 1..(Len(parts) + 1) /\ (n + 1) - 1 = n
    BY <1>1
  <2>2. Depth(parts, n + 1, (n + 1) - 1) = 0
    BY <2>1, DepthSteps
  <2> QED
    BY <2>1, <2>2
<1>6. Spelt(parts, m + 1, h) = Append(Spelt(parts, m, g), parts[n + 1])
  <2>1. Spelt(parts, m, g) \in Seq(STRING) /\ Len(Spelt(parts, m, g)) = m
    <3>1. \A k \in 1..m : parts[g[k]] \in STRING
      BY <1>1
    <3> QED
      BY <1>1, <3>1 DEF Spelt
  <2>2. DOMAIN Append(Spelt(parts, m, g), parts[n + 1]) = 1..(m + 1)
    BY <1>1, <2>1
  <2>3. ASSUME NEW k \in 1..(m + 1)
        PROVE  Spelt(parts, m + 1, h)[k] = Append(Spelt(parts, m, g), parts[n + 1])[k]
    <3>1. CASE k = m + 1
      BY <1>1, <1>4, <2>1, <3>1 DEF Spelt
    <3>2. CASE k \in 1..m
      BY <1>1, <1>4, <2>1, <3>2 DEF Spelt
    <3> QED
      BY <1>4, <3>1, <3>2
  <2>4. Append(Spelt(parts, m, g), parts[n + 1]) \in Seq(STRING)
        /\ Len(Append(Spelt(parts, m, g), parts[n + 1])) = m + 1
    BY <1>1, <2>1
  <2>5. Spelt(parts, m + 1, h) \in Seq(STRING) /\ Len(Spelt(parts, m + 1, h)) = m + 1
    <3>1. \A k \in 1..(m + 1) : parts[h[k]] \in STRING
      BY <1>1, <1>4
    <3> HIDE DEF h
    <3> QED
      BY <1>1, <3>1 DEF Spelt
  <2> HIDE DEF h
  <2> QED
    BY <2>3, <2>4, <2>5, SeqEqual
<1> HIDE DEF h
<1>7. m + 1 = Depth(parts, 1, n + 1)
  BY <1>1, <1>3 DEF NameStack
<1>8. \A a, b \in 1..(m + 1) : a < b => h[a] < h[b]
  <2> SUFFICES ASSUME NEW a \in 1..(m + 1), NEW b \in 1..(m + 1), a < b PROVE h[a] < h[b]
    OBVIOUS
  <2>1. a \in 1..m
    BY <1>1
  <2>2. CASE b = m + 1
    BY <1>1, <1>4, <2>1, <2>2
  <2>3. CASE b \in 1..m
    BY <1>4, <2>1, <2>3 DEF NameStack
  <2> QED
    BY <1>4, <2>2, <2>3
<1>9. ASSUME NEW a \in 1..(m + 1) PROVE Depth(parts, h[a], n + 1) = (m + 1) - a + 1
  <2>1. CASE a = m + 1
    <3>1. n + 1 \in 1..(n + 1)
      BY <1>1
    <3> QED
      BY <1>1, <1>3, <1>4, <1>5, <2>1, <3>1
  <2>2. CASE a \in 1..m
    <3>1. g[a] \in 1..(n + 1) /\ Depth(parts, g[a], n) = m - a + 1
      BY <1>1, <1>4, <2>2 DEF NameStack
    <3> QED
      BY <1>1, <1>3, <1>4, <2>2, <3>1
  <2> QED
    BY <1>4, <2>1, <2>2
<1>10. ASSUME NEW i \in 1..(n + 1)
      PROVE  (\E a \in 1..(m + 1) : h[a] = i) <=> NameOpen(parts, i, n + 1)
  <2>1. CASE i = n + 1
    <3>1. NameOpen(parts, i, n + 1)
      <4>1. i..(n + 1) = {n + 1} /\ Depth(parts, i, n + 1) = 1
        BY <1>1, <1>3, <1>5, <2>1
      <4> QED
        BY <2>1, <4>1 DEF NameOpen
    <3>2. m + 1 \in 1..(m + 1)
      BY <1>1
    <3> QED
      BY <1>4, <2>1, <3>1, <3>2
  <2>2. CASE i # n + 1
    <3>1. i \in 1..n
      BY <1>1, <2>2
    <3>2. NameOpen(parts, i, n) => Depth(parts, i, n) > 0
      BY <1>1, <3>1 DEF NameOpen
    <3>3. NameOpen(parts, i, n + 1) <=> NameOpen(parts, i, n)
      BY <1>3, <3>1, <3>2, OpenSteps
    <3>4. (\E a \in 1..(m + 1) : h[a] = i) <=> \E a \in 1..m : g[a] = i
      <4>1. \A a \in 1..m : a \in 1..(m + 1)
        BY <1>1
      <4> QED
        BY <1>4, <2>2, <4>1
    <3> QED
      BY <3>1, <3>3, <3>4 DEF NameStack
  <2> QED
    BY <2>1, <2>2
<1>11. NameStack(parts, n + 1, m + 1, h)
  BY <1>1, <1>4, <1>7, <1>8, <1>9, <1>10 DEF NameStack
<1> QED
  BY <1>6, <1>11 DEF h

\* ".." takes the topmost name away.
LEMMA StackPop ==
    ASSUME NEW parts, parts \in Seq(STRING), NEW n \in 0..(Len(parts) - 1),
           NEW m, NEW g, NameStack(parts, n, m, g), parts[n + 1] = "..", m # 0
    PROVE  LET h == [k \in 1..(m - 1) |-> g[k]]
           IN  NameStack(parts, n + 1, m - 1, h) /\ Spelt(parts, m - 1, h) = Front(Spelt(parts, m, g))
<1> DEFINE h == [k \in 1..(m - 1) |-> g[k]]
<1>1. Len(parts) \in Nat /\ n \in Nat /\ m \in Nat /\ m - 1 \in Nat /\ g \in [1..m -> 1..n]
  BY LenProperties DEF NameStack
<1>2. Slope(parts[n + 1]) = -1 /\ ~Named(parts[n + 1])
  BY DEF Slope, Named
<1>3. \A i \in 1..(n + 1) : Depth(parts, i, n + 1) = Depth(parts, i, n) - 1 /\ Depth(parts, i, n) \in Int
  BY <1>2, StepDepth
<1>4. /\ h \in [1..(m - 1) -> 1..(n + 1)]
      /\ \A k \in 1..(m - 1) : h[k] = g[k] /\ g[k] \in 1..n /\ k \in 1..m
  BY <1>1
<1>5. Spelt(parts, m - 1, h) = Front(Spelt(parts, m, g))
  <2>1. Spelt(parts, m, g) \in Seq(STRING) /\ Len(Spelt(parts, m, g)) = m
    <3>1. \A k \in 1..m : parts[g[k]] \in STRING
      BY <1>1
    <3> QED
      BY <1>1, <3>1 DEF Spelt
  <2>2. \A k \in 1..m : Spelt(parts, m, g)[k] = parts[g[k]]
    BY DEF Spelt
  <2>3. Front(Spelt(parts, m, g)) = [k \in 1..(m - 1) |-> Spelt(parts, m, g)[k]]
    BY <1>1, <2>1 DEF Front
  <2> QED
    BY <1>4, <2>2, <2>3 DEF Spelt
<1> HIDE DEF h
<1>6. m - 1 = Depth(parts, 1, n + 1)
  BY <1>1, <1>3 DEF NameStack
<1>7. \A a, b \in 1..(m - 1) : a < b => h[a] < h[b]
  BY <1>4 DEF NameStack
<1>8. ASSUME NEW a \in 1..(m - 1) PROVE Depth(parts, h[a], n + 1) = (m - 1) - a + 1
  <2>1. g[a] \in 1..(n + 1) /\ Depth(parts, g[a], n) = m - a + 1
    BY <1>1, <1>4 DEF NameStack
  <2> QED
    BY <1>1, <1>3, <1>4, <2>1
<1>9. ASSUME NEW i \in 1..(n + 1)
      PROVE  (\E a \in 1..(m - 1) : h[a] = i) <=> NameOpen(parts, i, n + 1)
  <2>1. CASE i = n + 1
    BY <1>1, <1>2, <1>4, <2>1 DEF NameOpen
  <2>2. CASE i # n + 1
    <3>1. i \in 1..n
      BY <1>1, <2>2
    <3>2. NameOpen(parts, i, n + 1) <=> NameOpen(parts, i, n) /\ Depth(parts, i, n) > 1
      BY <1>3, <3>1, OpenSteps
    <3>3. NameOpen(parts, i, n) <=> \E a \in 1..m : g[a] = i
      BY <3>1 DEF NameStack
    <3>4. \A a \in 1..m : Depth(parts, g[a], n) > 1 <=> a \in 1..(m - 1)
      <4> SUFFICES ASSUME NEW a \in 1..m PROVE Depth(parts, g[a], n) > 1 <=> a \in 1..(m - 1)
        OBVIOUS
      <4>1. Depth(parts, g[a], n) = m - a + 1
        BY DEF NameStack
      <4> QED
        BY <1>1, <4>1
    <3>5. ASSUME NEW a \in 1..(m - 1), h[a] = i PROVE NameOpen(parts, i, n + 1)
      BY <1>4, <3>2, <3>3, <3>4, <3>5
    <3>6. ASSUME NameOpen(parts, i, n + 1) PROVE \E a \in 1..(m - 1) : h[a] = i
      BY <1>4, <3>2, <3>3, <3>4, <3>6
    <3> QED
      BY <3>5, <3>6
  <2> QED
    BY <2>1, <2>2
<1>10. NameStack(parts, n + 1, m - 1, h)
  BY <1>1, <1>4, <1>6, <1>7, <1>8, <1>9 DEF NameStack
<1> QED
  BY <1>5, <1>10 DEF h

\* Numbers are put in order in one way only.
LEMMA NotBelow ==
    ASSUME NEW m \in Nat, NEW S \in SUBSET Nat, NEW f \in [1..m -> S], NEW g \in [1..m -> S],
           \A i, j \in 1..m : i < j => f[i] < f[j], \A i, j \in 1..m : i < j => g[i] < g[j],
           \A s \in S : \E i \in 1..m : g[i] = s,
           NEW a \in 1..m, \A b \in 1..m : b < a => f[b] = g[b]
    PROVE  f[a] >= g[a]
<1> SUFFICES ASSUME f[a] < g[a] PROVE FALSE
  <2>1. f[a] \in Nat /\ g[a] \in Nat
    OBVIOUS
  <2> QED
    BY <2>1
<1>1. PICK b \in 1..m : g[b] = f[a]
  OBVIOUS
<1>2. f[a] \in Nat /\ g[a] \in Nat /\ g[b] \in Nat
  OBVIOUS
<1>3. b < a
  <2>1. CASE b = a
    BY <1>1, <1>2, <2>1
  <2>2. CASE a < b
    <3>1. g[a] < g[b]
      BY <2>2
    <3> QED
      BY <1>1, <1>2, <3>1
  <2> QED
    BY <2>1, <2>2
<1>4. f[b] = g[b] /\ f[b] < f[a]
  BY <1>3
<1> QED
  BY <1>1, <1>2, <1>4

\* So two that list the same numbers in order are the same.
LEMMA OneOrder ==
    ASSUME NEW m \in Nat, NEW S \in SUBSET Nat, NEW f \in [1..m -> S], NEW g \in [1..m -> S],
           \A i, j \in 1..m : i < j => f[i] < f[j], \A i, j \in 1..m : i < j => g[i] < g[j],
           \A s \in S : \E i \in 1..m : g[i] = s, \A s \in S : \E i \in 1..m : f[i] = s
    PROVE  f = g
<1> DEFINE Out == {a \in 1..m : f[a] # g[a]}
<1>1. ASSUME Out # {} PROVE FALSE
  <2>1. PICK a \in Out : \A b \in Out : a <= b
    <3>1. Out \in SUBSET Nat
      OBVIOUS
    <3> HIDE DEF Out
    <3> QED
      BY <1>1, <3>1, LeastNatural
  <2>2. \A b \in 1..m : b < a => f[b] = g[b] /\ g[b] = f[b]
    BY <2>1
  <2>3. a \in 1..m /\ f[a] # g[a]
    OBVIOUS
  <2>4. f[a] >= g[a]
    BY <2>2, <2>3, NotBelow
  <2>5. g[a] >= f[a]
    BY <2>2, <2>3, NotBelow
  <2>6. f[a] \in Nat /\ g[a] \in Nat
    BY <2>3
  <2> QED
    BY <2>3, <2>4, <2>5, <2>6
<1> QED
  BY <1>1

\* The names left, in order, are what the property calls the names.
LEMMA NamesAreSpelt ==
    ASSUME NEW parts, parts \in Seq(STRING), NEW m, NEW g, NameStack(parts, Len(parts), m, g)
    PROVE  NamesOf(parts) = Spelt(parts, m, g)
<1> DEFINE L == Len(parts)
           S == Stays(parts)
           In(f) == f \in [1..m -> S] /\ \A i, j \in DOMAIN f : i < j => f[i] < f[j]
           at == CHOOSE f \in [1..Cardinality(Stays(parts)) -> Stays(parts)] :
                     \A i, j \in DOMAIN f : i < j => f[i] < f[j]
<1>1. L \in Nat /\ DOMAIN parts = 1..L /\ m \in Nat /\ g \in [1..m -> 1..L]
  BY LenProperties DEF NameStack
<1>2. S = {i \in 1..L : NameOpen(parts, i, L)}
  BY <1>1 DEF Stays, NameOpen, Named
<1>3. S \in SUBSET (1..L) /\ S \in SUBSET Nat /\ IsFiniteSet(S)
  <2>1. IsFiniteSet(1..L)
    BY <1>1, FS_Interval
  <2>2. S \in SUBSET (1..L)
    BY <1>2
  <2> QED
    BY <2>1, <2>2, FS_Subset
<1>4. \A i \in S : \E a \in 1..m : g[a] = i
  BY <1>2 DEF NameStack
<1>5. \A a \in 1..m : g[a] \in S
  BY <1>1, <1>2 DEF NameStack
<1>14. NamesOf(parts) = [k \in DOMAIN at |-> parts[at[k]]]
  BY Zenon DEF NamesOf
<1> HIDE DEF S
<1>6. \A i, j \in 1..m : i < j => g[i] < g[j]
  BY DEF NameStack
<1>7. g \in [1..m -> S] /\ In(g)
  BY <1>1, <1>5, <1>6
<1>8. \A f : In(f) => \A i, j \in 1..m : f[i] = f[j] => i = j
  <2> SUFFICES ASSUME NEW f, In(f), NEW i \in 1..m, NEW j \in 1..m, f[i] = f[j] PROVE i = j
    OBVIOUS
  <2>1. f[i] \in Nat /\ f[j] \in Nat /\ (i < j => f[i] < f[j]) /\ (j < i => f[j] < f[i])
    BY <1>3
  <2> QED
    BY <2>1
<1>9. \A f : In(f) => f \in Injection(1..m, S)
  BY <1>8 DEF Injection, IsInjective
<1>10. IsFiniteSet(1..m) /\ Cardinality(1..m) = m
  BY <1>1, FS_Interval
<1>11. Cardinality(S) = m
  <2>1. g \in Surjection(1..m, S)
    BY <1>4, <1>7 DEF Surjection
  <2>2. g \in Injection(1..m, S)
    BY <1>7, <1>9
  <2> QED
    BY <1>10, <2>1, <2>2, FS_Surjection
<1>12. In(at)
  <2>1. at = CHOOSE f : In(f)
    BY <1>11 DEF S
  <2> HIDE DEF In, at
  <2> QED
    BY <1>7, <2>1
<1>13. \A s \in S : \E i \in 1..m : at[i] = s
  <2>1. at \in Injection(1..m, S)
    <3> HIDE DEF at, In
    <3> QED
      BY <1>9, <1>12
  <2>2. at \in Surjection(1..m, S)
    <3> HIDE DEF at, In
    <3> QED
      BY <1>3, <1>10, <1>11, <2>1, FS_Injection
  <2> HIDE DEF at
  <2> QED
    BY <2>2 DEF Surjection
<1>15. at = g
  <2>1. at \in [1..m -> S] /\ \A i, j \in 1..m : i < j => at[i] < at[j]
    <3> HIDE DEF at
    <3> QED
      BY <1>12
  <2> HIDE DEF at
  <2> QED
    BY <1>1, <1>3, <1>4, <1>6, <1>7, <1>13, <2>1, OneOrder
<1> HIDE DEF at
<1> QED
  BY <1>7, <1>14, <1>15 DEF Spelt

\* Before the first segment nothing is left.
LEMMA StackStarts ==
    ASSUME NEW parts, parts \in Seq(STRING)
    PROVE  LET g == [k \in 1..0 |-> 0] IN NameStack(parts, 0, 0, g) /\ Spelt(parts, 0, g) = <<>>
<1> DEFINE g == [k \in 1..0 |-> 0]
<1>1. Depth(parts, 1, 0) = 0
  <2>1. 1 \in 1..(Len(parts) + 1)
    BY LenProperties
  <2>2. Depth(parts, 1, 1 - 1) = 0
    BY <2>1, DepthSteps
  <2> QED
    BY <2>2
<1>2. 1..0 = {}
  OBVIOUS
<1>3. g \in [1..0 -> 1..0]
  BY <1>2
<1>4. Spelt(parts, 0, g) = <<>>
  BY <1>2 DEF Spelt
<1> HIDE DEF g
<1>5. NameStack(parts, 0, 0, g)
  BY <1>1, <1>2, <1>3 DEF NameStack
<1> QED
  BY <1>4, <1>5 DEF g

\* A path that climbed above the root has done so ever after.
LEMMA ClimbSteps ==
    ASSUME NEW parts, NEW n \in Nat
    PROVE  Climbs(parts, n + 1) <=> Climbs(parts, n) \/ Depth(parts, 1, n + 1) < 0
<1>1. 1..(n + 1) = (1..n) \cup {n + 1}
  OBVIOUS
<1> QED
  BY <1>1 DEF Climbs

\* What normalize makes of a path: the names that no ".." took away, unless
\* there are more of those than names at some place.
LEMMA NormalizeIsPlain ==
    ASSUME NEW parts, parts \in Seq(STRING)
    PROVE  /\ Climbs(parts, Len(parts)) => Normalize(parts) = {}
           /\ ~Climbs(parts, Len(parts)) =>
                \E m, g : NameStack(parts, Len(parts), m, g) /\ Normalize(parts) = {Spelt(parts, m, g)}
<1> DEFINE L == Len(parts)
<1>1. L \in Nat
  BY LenProperties
<1>2. PICK f : /\ Normalize(parts) = f[L] /\ f[0] = {<<>>}
               /\ \A n \in 1..L : f[n] = NormalizeStep(f[n - 1], parts[n])
  BY NormalizeWalks
<1> DEFINE Fits(n) == /\ Climbs(parts, n) => f[n] = {}
                      /\ ~Climbs(parts, n) => \E m, g : NameStack(parts, n, m, g) /\ f[n] = {Spelt(parts, m, g)}
           S == {n \in 0..L : Fits(n)}
<1>3. 0 \in S
  <2>1. ~Climbs(parts, 0)
    BY DEF Climbs
  <2>2. Fits(0)
    BY <1>2, <2>1, StackStarts
  <2> HIDE DEF Fits
  <2> QED
    BY <1>1, <2>2
<1>4. ASSUME NEW n \in 0..(L - 1), n \in S PROVE n + 1 \in S
  <2>1. f[n + 1] = NormalizeStep(f[n], parts[n + 1])
    <3>1. n + 1 \in 1..L /\ (n + 1) - 1 = n
      BY <1>1
    <3>2. f[n + 1] = NormalizeStep(f[(n + 1) - 1], parts[n + 1])
      BY <1>2, <3>1
    <3> QED
      BY <3>1, <3>2
  <2>2. Fits(n)
    <3> HIDE DEF Fits
    <3> QED
      BY <1>4
  <2>3. Climbs(parts, n + 1) <=> Climbs(parts, n) \/ Depth(parts, 1, n + 1) < 0
    BY <1>1, ClimbSteps
  <2>4. CASE Climbs(parts, n)
    <3>1. f[n + 1] = {}
      BY <2>1, <2>2, <2>4 DEF NormalizeStep
    <3> QED
      BY <1>1, <2>3, <2>4, <3>1
  <2>5. CASE ~Climbs(parts, n)
    <3>1. PICK m, g : NameStack(parts, n, m, g) /\ f[n] = {Spelt(parts, m, g)}
      BY <2>2, <2>5
    <3>2. m \in Nat /\ m = Depth(parts, 1, n) /\ n \in Nat /\ n \in 0..(Len(parts) - 1)
      BY <1>1, <3>1 DEF NameStack
    <3>3. Depth(parts, 1, n + 1) = m + Slope(parts[n + 1])
      BY <3>2, StepDepth
    <3>4. CASE Named(parts[n + 1])
      <4>1. f[n + 1] = {Append(Spelt(parts, m, g), parts[n + 1])}
        <5>1. f[n + 1] = {Append(p, parts[n + 1]) : p \in f[n]}
          BY <2>1, <3>4, Zenon DEF NormalizeStep, Named
        <5> QED
          BY <3>1, <5>1
      <4>2. PICK h : /\ NameStack(parts, n + 1, m + 1, h)
                     /\ Spelt(parts, m + 1, h) = Append(Spelt(parts, m, g), parts[n + 1])
        BY <3>1, <3>2, <3>4, StackPush
      <4>3. ~Climbs(parts, n + 1)
        BY <2>3, <2>5, <3>2, <3>3, <3>4 DEF Slope
      <4>4. Fits(n + 1)
        BY <4>1, <4>2, <4>3
      <4> HIDE DEF Fits
      <4> QED
        BY <1>1, <4>4
    <3>5. CASE parts[n + 1] = ".."
      <4>1. f[n + 1] = {Front(p) : p \in f[n] \ {<<>>}}
        BY <2>1, <3>5, Zenon DEF NormalizeStep
      <4>2. Slope(parts[n + 1]) = -1
        BY <3>5 DEF Slope, Named
      <4>3. CASE m = 0
        <5>1. Spelt(parts, m, g) = <<>>
          BY <4>3 DEF Spelt
        <5>2. f[n + 1] = {}
          BY <3>1, <4>1, <5>1
        <5>3. Climbs(parts, n + 1)
          BY <2>3, <3>3, <4>2, <4>3
        <5>4. Fits(n + 1)
          BY <5>2, <5>3
        <5> HIDE DEF Fits
        <5> QED
          BY <1>1, <5>4
      <4>4. CASE m # 0
        <5>1. Spelt(parts, m, g) # <<>>
          <6>1. 1 \in DOMAIN Spelt(parts, m, g)
            BY <3>2, <4>4 DEF Spelt
          <6> QED
            BY <6>1
        <5>2. f[n + 1] = {Front(Spelt(parts, m, g))}
          BY <3>1, <4>1, <5>1
        <5>3. PICK h : /\ NameStack(parts, n + 1, m - 1, h)
                       /\ Spelt(parts, m - 1, h) = Front(Spelt(parts, m, g))
          BY <3>1, <3>2, <3>5, <4>4, StackPop
        <5>4. ~Climbs(parts, n + 1)
          BY <2>3, <2>5, <3>2, <3>3, <4>2, <4>4
        <5>5. Fits(n + 1)
          BY <5>2, <5>3, <5>4
        <5> HIDE DEF Fits
        <5> QED
          BY <1>1, <5>5
      <4> QED
        BY <4>3, <4>4
    <3>6. CASE ~Named(parts[n + 1]) /\ parts[n + 1] # ".."
      <4>1. f[n + 1] = f[n]
        BY <2>1, <3>6, Zenon DEF NormalizeStep, Named
      <4>2. NameStack(parts, n + 1, m, g)
        BY <3>1, <3>2, <3>6, StackSame
      <4>3. ~Climbs(parts, n + 1)
        BY <2>3, <2>5, <3>2, <3>3, <3>6 DEF Slope
      <4>4. Fits(n + 1)
        BY <3>1, <4>1, <4>2, <4>3
      <4> HIDE DEF Fits
      <4> QED
        BY <1>1, <4>4
    <3> QED
      BY <3>4, <3>5, <3>6
  <2> QED
    BY <2>4, <2>5
<1> HIDE DEF Fits
<1>5. L \in S
  <2> HIDE DEF S
  <2>1. \A k \in 0..L : k \in S
    BY <1>1, <1>3, <1>4, CountingUp
  <2> QED
    BY <1>1, <2>1
<1>6. Fits(L)
  BY <1>5
<1> QED
  BY <1>2, <1>6 DEF Fits

\* What normalize computes is the plain name.
LEMMA NormalizePlainName ==
    ASSUME NEW parts, parts \in Seq(STRING)
    PROVE  Normalize(parts) = PlainName(parts)
<1>1. Len(parts) \in Nat /\ DOMAIN parts = 1..Len(parts) /\ 1 \in 1..(Len(parts) + 1)
  BY LenProperties
<1>2. \A j \in DOMAIN parts : Depth(parts, 1, j) \in Int
  <2> SUFFICES ASSUME NEW j \in DOMAIN parts PROVE Depth(parts, 1, j) \in Int
    OBVIOUS
  <2>1. j \in (1 - 1)..Len(parts)
    BY <1>1
  <2> QED
    BY <1>1, <2>1, DepthSteps
<1>3. Climbs(parts, Len(parts)) <=> ~\A j \in DOMAIN parts : Depth(parts, 1, j) >= 0
  BY <1>1, <1>2 DEF Climbs
<1>4. CASE Climbs(parts, Len(parts))
  <2>1. PlainName(parts) = {}
    BY <1>3, <1>4 DEF PlainName
  <2> QED
    BY <1>4, <2>1, NormalizeIsPlain
<1>5. CASE ~Climbs(parts, Len(parts))
  <2>1. PICK m, g : NameStack(parts, Len(parts), m, g) /\ Normalize(parts) = {Spelt(parts, m, g)}
    BY <1>5, NormalizeIsPlain
  <2>2. NamesOf(parts) = Spelt(parts, m, g)
    BY <2>1, NamesAreSpelt
  <2>3. PlainName(parts) = {NamesOf(parts)}
    BY <1>3, <1>5 DEF PlainName
  <2> QED
    BY <2>1, <2>2, <2>3
<1> QED
  BY <1>4, <1>5

\* A plain name is of names only.
LEMMA PlainIsNamed ==
    ASSUME NEW parts, parts \in Seq(STRING), NEW b \in Normalize(parts)
    PROVE  b \in Seq(STRING) /\ (\A k \in 1..Len(b) : Named(b[k])) /\ Normalize(parts) = {b}
<1>1. ~Climbs(parts, Len(parts))
  BY NormalizeIsPlain
<1>2. PICK m, g : NameStack(parts, Len(parts), m, g) /\ Normalize(parts) = {Spelt(parts, m, g)}
  BY <1>1, NormalizeIsPlain
<1>3. b = Spelt(parts, m, g) /\ m \in Nat /\ g \in [1..m -> 1..Len(parts)]
  BY <1>2 DEF NameStack
<1>4. \A k \in 1..m : parts[g[k]] \in STRING /\ Named(parts[g[k]])
  <2> SUFFICES ASSUME NEW k \in 1..m PROVE parts[g[k]] \in STRING /\ Named(parts[g[k]])
    OBVIOUS
  <2>1. g[k] \in 1..Len(parts)
    BY <1>3
  <2>2. NameOpen(parts, g[k], Len(parts))
    BY <1>2, <2>1 DEF NameStack
  <2> QED
    BY <2>1, <2>2 DEF NameOpen
<1>5. b \in Seq(STRING) /\ Len(b) = m /\ \A k \in 1..m : b[k] = parts[g[k]]
  BY <1>3, <1>4 DEF Spelt
<1> QED
  BY <1>2, <1>3, <1>4, <1>5

\* A path may begin with a folder as it was written or with its plain name.
LEMMA FromPlainBase ==
    ASSUME NEW s, s \in Seq(STRING), NEW p, p \in Seq(STRING), NEW b \in Normalize(s)
    PROVE  Normalize(b \o p) = Normalize(s \o p)
<1>1. b \in Seq(STRING) /\ (\A k \in 1..Len(b) : Named(b[k])) /\ Normalize(s) = {b}
  BY PlainIsNamed
<1> DEFINE w == s \o p
           v == b \o p
<1>2. /\ w \in Seq(STRING) /\ v \in Seq(STRING)
      /\ Len(s) \in Nat /\ Len(p) \in Nat /\ Len(b) \in Nat
      /\ Len(w) = Len(s) + Len(p) /\ Len(v) = Len(b) + Len(p)
      /\ \A n \in 1..Len(s) : w[n] = s[n]
      /\ \A n \in 1..Len(b) : v[n] = b[n]
      /\ \A n \in 1..Len(p) : w[Len(s) + n] = p[n] /\ v[Len(b) + n] = p[n]
  BY <1>1
<1> HIDE DEF w, v
<1>3. PICK f : /\ Normalize(s) = f[Len(s)] /\ f[0] = {<<>>}
               /\ \A n \in 1..Len(s) : f[n] = NormalizeStep(f[n - 1], s[n])
  BY NormalizeWalks
<1>4. PICK g : /\ Normalize(w) = g[Len(w)] /\ g[0] = {<<>>}
               /\ \A n \in 1..Len(w) : g[n] = NormalizeStep(g[n - 1], w[n])
  BY <1>2, NormalizeWalks
<1>5. PICK h : /\ Normalize(v) = h[Len(v)] /\ h[0] = {<<>>}
               /\ \A n \in 1..Len(v) : h[n] = NormalizeStep(h[n - 1], v[n])
  BY <1>2, NormalizeWalks
<1>6. g[Len(s)] = {b}
  <2> DEFINE S == {n \in 0..Len(s) : g[n] = f[n]}
  <2>1. 0 \in S
    <3>1. 0 \in 0..Len(s)
      BY <1>2
    <3> QED
      BY <1>3, <1>4, <3>1, Zenon
  <2>2. ASSUME NEW n \in 0..(Len(s) - 1), n \in S PROVE n + 1 \in S
    <3>1. n + 1 \in 1..Len(s) /\ n + 1 \in 1..Len(w) /\ (n + 1) - 1 = n /\ n + 1 \in 0..Len(s)
      BY <1>2
    <3>2. f[n + 1] = NormalizeStep(f[(n + 1) - 1], s[n + 1]) /\ g[n + 1] = NormalizeStep(g[(n + 1) - 1], w[n + 1])
      BY <1>3, <1>4, <3>1
    <3>3. w[n + 1] = s[n + 1] /\ g[n] = f[n]
      BY <1>2, <2>2, <3>1
    <3> QED
      BY <3>1, <3>2, <3>3
  <2> HIDE DEF S
  <2>3. \A k \in 0..Len(s) : k \in S
    BY <1>2, <2>1, <2>2, CountingUp
  <2>4. Len(s) \in S
    BY <1>2, <2>3
  <2> QED
    BY <1>1, <1>3, <2>4 DEF S
<1>7. h[Len(b)] = {b}
  <2> DEFINE S == {n \in 0..Len(b) : h[n] = {SubSeq(b, 1, n)}}
  <2>1. 0 \in S
    <3>1. SubSeq(b, 1, 0) = <<>>
      BY <1>1, SubSeqEmpty
    <3>2. 0 \in 0..Len(b)
      BY <1>2
    <3> QED
      BY <1>5, <3>1, <3>2, Zenon
  <2>2. ASSUME NEW n \in 0..(Len(b) - 1), n \in S PROVE n + 1 \in S
    <3>1. n + 1 \in 1..Len(b) /\ n + 1 \in 1..Len(v) /\ (n + 1) - 1 = n /\ n + 1 \in 0..Len(b)
      BY <1>2
    <3>2. h[n + 1] = NormalizeStep(h[(n + 1) - 1], v[n + 1])
      BY <1>5, <3>1
    <3>3. v[n + 1] = b[n + 1] /\ h[n] = {SubSeq(b, 1, n)} /\ Named(b[n + 1])
      BY <1>1, <1>2, <2>2, <3>1
    <3>4. h[n + 1] = {Append(x, b[n + 1]) : x \in h[n]}
      BY <3>1, <3>2, <3>3, Zenon DEF NormalizeStep, Named
    <3>5. Append(SubSeq(b, 1, n), b[n + 1]) = SubSeq(b, 1, n + 1)
      <4>1. 1 \in 1..Len(b) /\ n + 1 \in 1..Len(b)
        BY <3>1, <1>2
      <4>2. SubSeq(b, 1, n + 1) = SubSeq(b, 1, (n + 1) - 1) \o <<b[n + 1]>>
        BY <1>1, <4>1, SubSeqRecursiveSecond
      <4>3. SubSeq(b, 1, n) \in Seq(STRING) /\ b[n + 1] \in STRING
        BY <1>1, <1>2, <4>1
      <4> QED
        BY <3>1, <4>2, <4>3, AppendIsConcat
    <3> QED
      BY <3>1, <3>3, <3>4, <3>5
  <2> HIDE DEF S
  <2>3. \A k \in 0..Len(b) : k \in S
    BY <1>2, <2>1, <2>2, CountingUp
  <2>4. Len(b) \in S
    BY <1>2, <2>3
  <2>5. SubSeq(b, 1, Len(b)) = b
    BY <1>1, SubSeqFull
  <2> QED
    BY <2>4, <2>5 DEF S
<1>8. h[Len(b) + Len(p)] = g[Len(s) + Len(p)]
  <2> DEFINE S == {n \in 0..Len(p) : h[Len(b) + n] = g[Len(s) + n]}
  <2>1. 0 \in S
    <3>1. 0 \in 0..Len(p) /\ Len(b) + 0 = Len(b) /\ Len(s) + 0 = Len(s)
      BY <1>2
    <3>2. h[Len(b) + 0] = g[Len(s) + 0]
      BY <1>6, <1>7, <3>1, Zenon
    <3> QED
      BY <3>1, <3>2
  <2>2. ASSUME NEW n \in 0..(Len(p) - 1), n \in S PROVE n + 1 \in S
    <3> DEFINE i == Len(b) + n
               j == Len(s) + n
    <3>0. /\ n \in Nat /\ n + 1 <= Len(p) /\ Len(b) \in Nat /\ Len(s) \in Nat /\ Len(p) \in Nat
          /\ Len(w) = Len(s) + Len(p) /\ Len(v) = Len(b) + Len(p)
      BY <1>2
    <3>a. i + 1 \in 1..Len(v) /\ (i + 1) - 1 = i /\ i + 1 = Len(b) + (n + 1)
      BY <3>0
    <3>b. j + 1 \in 1..Len(w) /\ (j + 1) - 1 = j /\ j + 1 = Len(s) + (n + 1)
      BY <3>0
    <3>c. n + 1 \in 1..Len(p) /\ n + 1 \in 0..Len(p)
      BY <3>0
    <3>1. /\ i + 1 \in 1..Len(v) /\ (i + 1) - 1 = i /\ i + 1 = Len(b) + (n + 1)
          /\ j + 1 \in 1..Len(w) /\ (j + 1) - 1 = j /\ j + 1 = Len(s) + (n + 1)
          /\ n + 1 \in 1..Len(p) /\ n + 1 \in 0..Len(p)
      BY <3>a, <3>b, <3>c
    <3>2. h[i] = g[j]
      BY <2>2
    <3>3. v[i + 1] = p[n + 1] /\ w[j + 1] = p[n + 1]
      BY <1>2, <3>1
    <3> HIDE DEF i, j
    <3>4. h[i + 1] = NormalizeStep(h[(i + 1) - 1], v[i + 1]) /\ g[j + 1] = NormalizeStep(g[(j + 1) - 1], w[j + 1])
      BY <1>4, <1>5, <3>1
    <3> QED
      BY <3>1, <3>2, <3>3, <3>4
  <2> HIDE DEF S
  <2>3. \A k \in 0..Len(p) : k \in S
    BY <1>2, <2>1, <2>2, CountingUp
  <2>4. Len(p) \in S
    BY <1>2, <2>3
  <2> QED
    BY <2>4 DEF S
<1> QED
  BY <1>2, <1>4, <1>5, <1>8 DEF w, v

\* The code's path is the name of the file that was asked for.
LEMMA ContainedIsAsked ==
    ASSUME NEW q, NEW ctx, q.form \in {"absolute", "home", "relative"}, q.parts \in Seq(STRING),
           ctx.cwd = Unknown \/ ctx.cwd \in Seq(STRING),
           ctx.homeDir = Unknown \/ ctx.homeDir \in Seq(STRING)
    PROVE  ContainedPath(q, ctx) = NamesAsked(q, ctx)
<1>1. \A folder : folder = Unknown \/ folder \in Seq(STRING) => RootOf(folder) = FolderName(folder)
  BY NormalizePlainName DEF RootOf, FolderName
<1>2. RootOf(ctx.cwd) = FolderName(ctx.cwd) /\ RootOf(ctx.homeDir) = FolderName(ctx.homeDir)
  BY <1>1
<1> DEFINE folder == IF q.form = "home" THEN ctx.homeDir ELSE ctx.cwd
           bases == Bases(q.form, RootOf(ctx.cwd), RootOf(ctx.homeDir))
           whole == IF q.form = "absolute" THEN {q.parts}
                    ELSE {folder \o q.parts : name \in FolderName(folder)}
           found == UNION {Normalize(base \o q.parts) : base \in bases}
           named == UNION {PlainName(parts) : parts \in whole}
<1>3. found = named
  <2>1. CASE q.form = "absolute"
    <3>1. bases = {<<>>} /\ whole = {q.parts}
      BY <2>1 DEF Bases
    <3>2. <<>> \o q.parts = q.parts
      BY ConcatEmptySeq
    <3>3. found = Normalize(q.parts) /\ named = PlainName(q.parts)
      BY <3>1, <3>2
    <3> QED
      BY <3>3, NormalizePlainName
  <2>2. CASE q.form # "absolute"
    <3>1. bases = RootOf(folder) /\ RootOf(folder) = FolderName(folder)
      BY <1>2, <2>2 DEF Bases
    <3>2. whole = {folder \o q.parts : name \in RootOf(folder)}
      BY <2>2, <3>1
    <3>3. ASSUME NEW base \in RootOf(folder)
          PROVE  Normalize(base \o q.parts) = PlainName(folder \o q.parts)
      <4>1. folder # Unknown /\ folder \in Seq(STRING) /\ base \in Normalize(folder)
        BY <3>3 DEF RootOf
      <4>2. Normalize(base \o q.parts) = Normalize(folder \o q.parts)
        BY <4>1, FromPlainBase
      <4>3. folder \o q.parts \in Seq(STRING)
        BY <4>1
      <4> QED
        BY <4>2, <4>3, NormalizePlainName
    <3> HIDE DEF bases, whole, folder
    <3>4. CASE RootOf(folder) = {}
      BY <3>1, <3>2, <3>4
    <3>5. CASE RootOf(folder) # {}
      <4>1. whole = {folder \o q.parts}
        BY <3>2, <3>5
      <4>2. named = PlainName(folder \o q.parts)
        BY <4>1
      <4>3. found = PlainName(folder \o q.parts)
        BY <3>1, <3>3, <3>5
      <4> QED
        BY <4>2, <4>3
    <3> QED
      BY <3>4, <3>5
  <2> QED
    BY <2>1, <2>2
<1>4. ContainedPath(q, ctx) =
        {path \in found : \E root \in RootOf(ctx.cwd) \cup RootOf(ctx.homeDir) : IsPrefix(root, path)}
  BY DEF ContainedPath
<1>5. NamesAsked(q, ctx) =
        {name \in named : \E root \in FolderName(ctx.cwd) \cup FolderName(ctx.homeDir) : IsPrefix(root, name)}
  BY DEF NamesAsked
<1> HIDE DEF found, named
<1> QED
  BY <1>2, <1>3, <1>4, <1>5

\* Why OpensContained holds: the context is one that was pushed.
OpensInv == context \in Context \cup {NoContext} /\ OpensContained

\* A step keeps it: a path opened is the name of the file asked for.
LEMMA OpensStep ==
    ASSUME PageCallsAssumption, OpensInv, [PageCallsNext]_pageCallVars
    PROVE  OpensInv'
<1>1. context' \in Context \cup {NoContext}
  BY DEF OpensInv, PageCallsNext, pageCallVars, CallServed, CallNowhere, CallUnserved, CallConfig,
     OpenPath, OpenLink, PushContext, PushProviders, PageDrawn, Keeps
<1>2. ASSUME NEW q \in PathRequest, OpenPath(q) PROVE OpensContained'
  <2>1. q.form \in {"absolute", "home", "relative"} /\ q.parts \in Seq(STRING)
    BY DEF PageCallsAssumption
  <2>2. /\ context.cwd = Unknown \/ context.cwd \in Seq(STRING)
        /\ context.homeDir = Unknown \/ context.homeDir \in Seq(STRING)
    <3>1. CASE context \in Context
      BY <3>1 DEF PageCallsAssumption
    <3>2. CASE context = NoContext
      BY <3>2 DEF NoContext
    <3> QED
      BY <3>1, <3>2 DEF OpensInv
  <2> DEFINE path == ContainedPath(q, context)
  <2>3. path = NamesAsked(q, context)
    BY <2>1, <2>2, ContainedIsAsked
  <2>4. posted' = IF path = {} THEN [kind |-> "refused", asked |-> q, in |-> context]
                  ELSE [kind |-> "file", asked |-> q, in |-> context,
                        path |-> CHOOSE p \in path : TRUE]
    BY <1>2 DEF OpenPath
  <2> HIDE DEF path
  <2>5. CASE path = {}
    <3>1. posted'.kind = "refused" /\ posted'.asked = q /\ posted'.in = context
      BY <2>4, <2>5
    <3>2. NamesAsked(posted'.asked, posted'.in) = {}
      BY <2>3, <2>5, <3>1
    <3> QED
      BY <3>1, <3>2 DEF OpensContained
  <2>6. CASE path # {}
    <3>1. /\ posted'.kind = "file" /\ posted'.asked = q /\ posted'.in = context
          /\ posted'.path = CHOOSE p \in path : TRUE
      BY <2>4, <2>6
    <3>2. posted'.path \in path
      BY <2>6, <3>1
    <3>3. posted'.path \in NamesAsked(posted'.asked, posted'.in)
      BY <2>3, <3>1, <3>2
    <3> QED
      BY <3>1, <3>3 DEF OpensContained
  <2> QED
    BY <2>5, <2>6
<1>3. ASSUME UNCHANGED pageCallVars PROVE OpensContained'
  BY <1>3 DEF OpensInv, pageCallVars, OpensContained
<1>4. ASSUME posted'.kind \notin {"file", "refused"} PROVE OpensContained'
  BY <1>4 DEF OpensContained
<1>5. \A method : CallServed(method) \/ CallNowhere(method) \/ CallUnserved(method)
                    => posted'.kind \notin {"file", "refused"}
  BY DEF CallServed, CallNowhere, CallUnserved, Nothing
<1>6. CallConfig \/ PageDrawn => posted'.kind \notin {"file", "refused"}
  BY DEF CallConfig, PageDrawn, Nothing
<1>7. \A scheme : OpenLink(scheme) => posted'.kind \notin {"file", "refused"}
  BY DEF OpenLink, Nothing
<1>8. \A x : PushContext(x) \/ PushProviders(x) => posted'.kind \notin {"file", "refused"}
  BY DEF PushContext, PushProviders, Nothing
<1> QED
  BY <1>1, <1>2, <1>3, <1>4, <1>5, <1>6, <1>7, <1>8 DEF PageCallsNext, OpensInv

\* In every reachable state the app was asked to open exactly the paths that name
\* a file in a folder of the context, under its plain name (paths.ts, nativeApi.ts).
THEOREM AlwaysContained == PageCallsSpec => []OpensContained
<1>1. PageCallsInit => OpensInv
  BY DEF PageCallsInit, OpensInv, OpensContained, Nothing
<1>2. OpensInv /\ [PageCallsNext]_pageCallVars => OpensInv'
  BY OpensStep, PageCallsAssumption
<1>3. OpensInv => OpensContained
  BY DEF OpensInv
<1> QED
  BY <1>1, <1>2, <1>3, PTL DEF PageCallsSpec

\* In every reachable state what the page was answered and what it opened are as
\* they should be: the config is current, no question was answered with a null,
\* and the file opened is the one whose name was asked for, in a folder the page
\* was given (bridge.ts, nativeApi.ts, paths.ts).
THEOREM CallsAlwaysHonest == PageCallsSpec => []CallsHonest
  BY ConfigAlwaysCurrent, AlwaysContained, PTL DEF CallsHonest

-----------------------------------------------------------------------------
(* ModelPicker: what a preset restores.                                    *)

\* The capabilities a model may have: the default effort is one that can be
\* chosen, and there is none without a ladder.
Sound(caps) ==
    /\ caps \in Caps
    /\ IF caps.effortLevels = {} THEN caps.defaultEffort = Unset
       ELSE caps.defaultEffort \in caps.effortLevels \ caps.promptInjected

\* What a star of a model with these capabilities may say.
Sayable(caps, star) ==
    /\ star \in Trait
    /\ star.effort # Unset => PlansEffort(caps, star.effort)
    /\ star.fastMode # Unset => SupportsFastMode(caps)
    /\ star.fastMode = TRUE => caps.fastDescriptor
    /\ star.thinking # Unset => caps.thinking

Preset == [model : Model, caps : Caps, star : Trait]
WellStarred(p) == p \in Preset /\ Sound(p.caps) /\ Sayable(p.caps, p.star)

Matches(p, options) == StarredTraitsMatch(p.star, ResolveStarredTraits(p.caps, options))

\* A pick that is made gives its preset's model the preset's traits, whatever
\* the options are then.
Restores(pick, preset) ==
    \A p \in preset :
        /\ p.model = pick.model
        /\ \A options \in Trait :
             Matches(p, IF pick.options = NoOptions THEN options ELSE pick.options)

Waiting == [to : {"auto", "approval-required"}, pick : [model : Model \cup {"none"}, options : Trait],
           preset : SUBSET Preset]

PickerTypes ==
    /\ reported \in Report /\ draft \in [model : Model, options : Trait]
    /\ mode \in {"auto", "approval-required"}
    /\ queue \in Seq(Waiting) /\ crossed \in BOOLEAN
    /\ \A i \in DOMAIN queue : queue[i].pick = NoPick \/ queue[i].pick.model \in Model

AppliedMatch == \A p \in applied : p.model = draft.model /\ Matches(p, draft.options)

QueueMatch ==
    \A i \in DOMAIN queue :
        /\ Restores(queue[i].pick, queue[i].preset)
        /\ queue[i].to = "auto" => queue[i].pick = NoPick

\* A mode change alone in the queue is to a mode the model has.
QueueFits ==
    /\ ModeFits
    /\ ~crossed => /\ Len(queue) <= 1
                   /\ \A i \in DOMAIN queue : queue[i].to = "auto" => CapsOf(draft.model).autoMode

PickerInv ==
    /\ PickerTypes /\ (\A p \in starred : WellStarred(p))
    /\ AppliedMatch /\ QueueMatch /\ QueueFits

LEMMA NoOptionsTrait == NoOptions \in Trait
  BY DEF NoOptions, Trait

\* A pinned effort is one the ladder has, a pinned speed or thought a control.
LEMMA ResolveSayable ==
    ASSUME NEW caps, Sound(caps), NEW options \in Trait
    PROVE  Sayable(caps, ResolveStarredTraits(caps, options))
<1> DEFINE e == IF caps.effortLevels # {} THEN EffortOf(caps, options) ELSE Unset
           f == IF SupportsFastMode(caps) THEN FastModeOf(caps, options) ELSE Unset
           t == ThinkingOf(caps, options)
<1>1. /\ caps.effortLevels \subseteq Effort /\ caps.fastDescriptor \in BOOLEAN
      /\ caps.thinking \in BOOLEAN /\ options.thinking \in BOOLEAN \cup {Unset}
      /\ caps.effortLevels # {} => caps.defaultEffort \in caps.effortLevels \ caps.promptInjected
  BY DEF Sound, Caps, Trait
<1>2. e \in Effort \cup {Unset} /\ (e # Unset => PlansEffort(caps, e))
  BY <1>1 DEF EffortOf, PlansEffort
<1>3. FastModeOf(caps, options) \in BOOLEAN
  BY DEF FastModeOf
<1>4. /\ f \in BOOLEAN \cup {Unset} /\ (f # Unset => SupportsFastMode(caps))
      /\ f = TRUE => caps.fastDescriptor
  <2>1. CASE SupportsFastMode(caps)
    BY <1>3, <2>1 DEF FastModeOf
  <2>2. CASE ~SupportsFastMode(caps)
    BY <2>2, PickerAssumption
  <2> QED
    BY <2>1, <2>2
<1>5. t \in BOOLEAN \cup {Unset} /\ (t # Unset => caps.thinking)
  BY <1>1 DEF ThinkingOf
<1>6. ResolveStarredTraits(caps, options) = [effort |-> e, fastMode |-> f, thinking |-> t]
  BY DEF ResolveStarredTraits
<1> HIDE DEF e, f, t
<1> QED
  BY <1>2, <1>4, <1>5, <1>6 DEF Sayable, Trait

LEMMA ThinksUnset ==
    ASSUME NEW caps, Sound(caps)
    PROVE  ThinkingOf(caps, NoOptions) # Unset <=> caps.thinking
  BY PickerAssumption DEF ThinkingOf, NoOptions

\* Of what a star may say, its patch sets all.
LEMMA PatchIsStar ==
    ASSUME NEW caps, NEW star, Sound(caps), Sayable(caps, star)
    PROVE  StarredPatch(caps, star) = star
<1>1. star = [effort |-> star.effort, fastMode |-> star.fastMode, thinking |-> star.thinking]
  BY DEF Sayable, Trait
<1>2. (IF star.effort # Unset /\ PlansEffort(caps, star.effort) THEN star.effort ELSE Unset) = star.effort
  BY DEF Sayable
<1>3. (IF star.fastMode # Unset /\ SupportsFastMode(caps) THEN star.fastMode ELSE Unset) = star.fastMode
  BY DEF Sayable
<1>4. (IF star.thinking # Unset /\ ThinkingOf(caps, NoOptions) # Unset THEN star.thinking ELSE Unset)
        = star.thinking
  BY ThinksUnset DEF Sayable
<1> QED
  BY <1>1, <1>2, <1>3, <1>4 DEF StarredPatch

LEMMA PatchedTrait ==
    ASSUME NEW options \in Trait, NEW patch \in Trait
    PROVE  /\ Patched(options, patch) \in Trait
           /\ Patched(options, patch).effort = IF patch.effort = Unset THEN options.effort ELSE patch.effort
           /\ Patched(options, patch).fastMode
                = IF patch.fastMode = Unset THEN options.fastMode ELSE patch.fastMode
           /\ Patched(options, patch).thinking
                = IF patch.thinking = Unset THEN options.thinking ELSE patch.thinking
<1> DEFINE e == IF patch.effort = Unset THEN options.effort ELSE patch.effort
           f == IF patch.fastMode = Unset THEN options.fastMode ELSE patch.fastMode
           t == IF patch.thinking = Unset THEN options.thinking ELSE patch.thinking
<1>1. DOMAIN options = {"effort", "fastMode", "thinking"}
  BY DEF Trait
<1>2. /\ Patched(options, patch)["effort"] = e /\ Patched(options, patch)["fastMode"] = f
      /\ Patched(options, patch)["thinking"] = t
  BY <1>1 DEF Patched
<1>3. Patched(options, patch) = [effort |-> e, fastMode |-> f, thinking |-> t]
  BY <1>1, <1>2 DEF Patched
<1>4. e \in Effort \cup {Unset} /\ f \in BOOLEAN \cup {Unset} /\ t \in BOOLEAN \cup {Unset}
  BY DEF Trait
<1> HIDE DEF e, f, t
<1>5. Patched(options, patch) \in Trait
  BY <1>3, <1>4 DEF Trait
<1> USE DEF e, f, t
<1> QED
  BY <1>2, <1>5

\* The options with a star's patch give the star back.
LEMMA PatchedMatches ==
    ASSUME NEW caps, NEW star, Sound(caps), Sayable(caps, star), NEW options \in Trait
    PROVE  StarredTraitsMatch(star, ResolveStarredTraits(caps, Patched(options, star)))
<1> DEFINE after == Patched(options, star)
           now == ResolveStarredTraits(caps, after)
<1>1. /\ after.effort = IF star.effort = Unset THEN options.effort ELSE star.effort
      /\ after.fastMode = IF star.fastMode = Unset THEN options.fastMode ELSE star.fastMode
      /\ after.thinking = IF star.thinking = Unset THEN options.thinking ELSE star.thinking
      /\ star \in Trait
  BY PatchedTrait DEF Sayable
<1> HIDE DEF after
<1>2. ASSUME star.effort # Unset PROVE now.effort = star.effort
  <2>1. after.effort = star.effort /\ PlansEffort(caps, star.effort)
    BY <1>1, <1>2 DEF Sayable
  <2> QED
    BY <2>1 DEF PlansEffort, EffortOf, ResolveStarredTraits
<1>3. ASSUME star.fastMode # Unset PROVE now.fastMode = star.fastMode
  <2>1. after.fastMode = star.fastMode /\ SupportsFastMode(caps) /\ star.fastMode \in BOOLEAN
    BY <1>1, <1>3 DEF Sayable, Trait
  <2>2. now.fastMode = FastModeOf(caps, after)
    BY <2>1 DEF ResolveStarredTraits
  <2>3. CASE star.fastMode = TRUE
    <3>1. FastModeOf(caps, after) = TRUE
      BY <2>1, <2>3 DEF FastModeOf, Sayable
    <3> QED
      BY <2>2, <2>3, <3>1
  <2>4. CASE star.fastMode = FALSE
    <3>1. FastModeOf(caps, after) = FALSE
      BY <2>1, <2>4 DEF FastModeOf
    <3> QED
      BY <2>2, <2>4, <3>1
  <2> QED
    BY <2>1, <2>3, <2>4
<1>4. ASSUME star.thinking # Unset PROVE now.thinking = star.thinking
  <2>1. after.thinking = star.thinking /\ caps.thinking
    BY <1>1, <1>4 DEF Sayable
  <2> QED
    BY <1>4, <2>1 DEF ThinkingOf, ResolveStarredTraits
<1> HIDE DEF now
<1>5. /\ star["effort"] \in {Unset, now["effort"]} /\ star["fastMode"] \in {Unset, now["fastMode"]}
      /\ star["thinking"] \in {Unset, now["thinking"]}
  BY <1>2, <1>3, <1>4
<1>6. StarredTraitsMatch(star, now)
  BY <1>5 DEF StarredTraitsMatch
<1> QED
  BY <1>6 DEF now, after

\* A pick of a preset restores it, whatever the options were.
LEMMA PickRestores ==
    ASSUME NEW p, WellStarred(p), NEW options \in Trait,
           NEW pick, pick.model = p.model,
           pick.options = IF StarredPatch(p.caps, p.star) = NoOptions THEN NoOptions
                          ELSE Patched(options, StarredPatch(p.caps, p.star))
    PROVE  Restores(pick, {p})
<1>1. /\ Sound(p.caps) /\ Sayable(p.caps, p.star) /\ p.star \in Trait
  BY DEF WellStarred, Sayable
<1>2. StarredPatch(p.caps, p.star) = p.star
  BY <1>1, PatchIsStar
<1>3. CASE p.star = NoOptions
  BY <1>3 DEF Restores, Matches, StarredTraitsMatch, NoOptions
<1>4. CASE p.star # NoOptions
  <2>1. pick.options = Patched(options, p.star)
    BY <1>2, <1>4
  <2>2. /\ Patched(options, p.star).effort = IF p.star.effort = Unset THEN options.effort ELSE p.star.effort
        /\ Patched(options, p.star).fastMode
             = IF p.star.fastMode = Unset THEN options.fastMode ELSE p.star.fastMode
        /\ Patched(options, p.star).thinking
             = IF p.star.thinking = Unset THEN options.thinking ELSE p.star.thinking
    BY <1>1, PatchedTrait
  <2>3. Patched(options, p.star) # NoOptions
    <3> SUFFICES ASSUME Patched(options, p.star) = NoOptions PROVE p.star = NoOptions
      BY <1>4
    <3>1. p.star.effort = Unset /\ p.star.fastMode = Unset /\ p.star.thinking = Unset
      BY <2>2 DEF NoOptions
    <3> QED
      BY <1>1, <3>1 DEF Trait, NoOptions
  <2>4. Matches(p, Patched(options, p.star))
    BY <1>1, PatchedMatches DEF Matches
  <2> QED
    BY <2>1, <2>3, <2>4 DEF Restores
<1> QED
  BY <1>3, <1>4

\* The form's reset shows the default effort and the standard speed.
LEMMA ResetHolds ==
    ASSUME NEW caps, Sound(caps), NEW options \in Trait
    PROVE  LET after == Reset(caps, options)
           IN  /\ EffortOf(caps, after) = caps.defaultEffort
               /\ ~FastModeOf(caps, after)
               /\ ThinkingOf(caps, after) = ThinkingOf(caps, options)
               /\ after \in Trait
<1> DEFINE after == Reset(caps, options)
           e == IF /\ EffortOf(caps, options) # caps.defaultEffort
                   /\ PlansEffort(caps, caps.defaultEffort)
                THEN caps.defaultEffort ELSE options.effort
           f == IF FastModeOf(caps, options) THEN FALSE ELSE options.fastMode
<1>1. /\ caps.effortLevels \subseteq Effort
      /\ caps.effortLevels # {} => caps.defaultEffort \in caps.effortLevels \ caps.promptInjected
      /\ caps.effortLevels = {} => caps.defaultEffort = Unset
  BY DEF Sound, Caps
<1>2. e \in Effort \cup {Unset} /\ EffortOf(caps, [options EXCEPT !.effort = e]) = caps.defaultEffort
  <2>1. CASE EffortOf(caps, options) # caps.defaultEffort
    <3>1. caps.effortLevels # {}
      BY <1>1, <2>1 DEF EffortOf
    <3>2. e = caps.defaultEffort /\ e \in caps.effortLevels
      BY <1>1, <2>1, <3>1 DEF PlansEffort
    <3> HIDE DEF e
    <3>3. [options EXCEPT !.effort = e].effort = e
      BY DEF Trait
    <3> QED
      BY <1>1, <3>2, <3>3 DEF EffortOf
  <2>2. CASE EffortOf(caps, options) = caps.defaultEffort
    <3>1. e = options.effort
      BY <2>2
    <3> HIDE DEF e
    <3>2. [options EXCEPT !.effort = e].effort = options.effort
      BY <3>1 DEF Trait
    <3> QED
      BY <2>2, <3>1, <3>2 DEF EffortOf, Trait
  <2> QED
    BY <2>1, <2>2
<1>3. f \in BOOLEAN \cup {Unset} /\ ~(caps.fastDescriptor /\ f = TRUE)
  BY DEF FastModeOf, Trait
<1>4. after = [options EXCEPT !.effort = e, !.fastMode = f]
  BY DEF Reset
<1> HIDE DEF e, f
<1>5. /\ after \in Trait /\ after.effort = e /\ after.fastMode = f
      /\ after.thinking = options.thinking /\ [options EXCEPT !.effort = e].effort = e
  BY <1>2, <1>3, <1>4 DEF Trait
<1> HIDE DEF after
<1>6. EffortOf(caps, after) = caps.defaultEffort
  BY <1>2, <1>5 DEF EffortOf
<1>7. ~FastModeOf(caps, after)
  BY <1>3, <1>5 DEF FastModeOf
<1>8. ThinkingOf(caps, after) = ThinkingOf(caps, options)
  BY <1>5 DEF ThinkingOf
<1> QED
  BY <1>5, <1>6, <1>7, <1>8 DEF after

-----------------------------------------------------------------------------
LEMMA SoundCaps ==
    ASSUME PickerTypes, NEW m
    PROVE  Sound(CapsOf(m))
<1>1. Sound(NoCaps)
  BY DEF Sound, NoCaps, Caps
<1>2. m \in DOMAIN reported => Sound(reported[m])
  BY PickerAssumption DEF PickerTypes, Sound
<1> QED
  BY <1>1, <1>2 DEF CapsOf

\* A pick is the composer's, or waits for the mode.
LEMMA SelectStep ==
    ASSUME PickerInv, NEW pick \in [model : Model, options : Trait], NEW preset \in SUBSET Preset,
           Restores(pick, preset), Select(pick, preset)
    PROVE  PickerInv'
<1>1. PickerTypes /\ AppliedMatch /\ QueueMatch /\ QueueFits
  BY DEF PickerInv
<1>2. /\ UNCHANGED <<reported, starred, mode>> /\ crossed' = (crossed \/ queue # <<>>)
      /\ queue \in Seq(Waiting) /\ crossed \in BOOLEAN
  BY <1>1 DEF Select, Cross, PickerTypes
<1>3. (\A p \in starred : WellStarred(p))'
  BY <1>2 DEF PickerInv
<1>6. ~crossed' => queue = <<>>
  BY <1>2, Zenon
<1>4. CASE mode = "auto" /\ ~CapsOf(pick.model).autoMode
  <2> DEFINE item == [to |-> "approval-required", pick |-> pick, preset |-> preset]
             n == Len(queue) + 1
  <2>1. queue' = Append(queue, item) /\ UNCHANGED <<draft, applied>>
    BY <1>4 DEF Select
  <2>2. /\ item \in Waiting /\ item.to = "approval-required" /\ item.pick = pick
        /\ item.preset = preset /\ pick.model \in Model
    BY DEF Waiting
  <2> HIDE DEF item
  <2>3. /\ queue' \in Seq(Waiting) /\ DOMAIN queue' = 1..n /\ DOMAIN queue = 1..(n - 1)
        /\ \A i \in DOMAIN queue : queue'[i] = queue[i]
        /\ queue'[n] = item /\ n \in Nat \ {0} /\ Len(queue') = n
    BY <1>2, <2>1, <2>2
  <2>4. \A i \in DOMAIN queue' : i \in DOMAIN queue \/ i = n
    BY <2>3
  <2>5. \A i \in DOMAIN queue' : queue'[i].pick = NoPick \/ queue'[i].pick.model \in Model
    BY <1>1, <2>2, <2>3, <2>4 DEF PickerTypes
  <2>6. PickerTypes'
    BY <1>1, <1>2, <2>1, <2>3, <2>5 DEF PickerTypes
  <2>7. AppliedMatch'
    BY <1>1, <2>1 DEF AppliedMatch
  <2>8. QueueMatch'
    BY <1>1, <2>2, <2>3, <2>4 DEF QueueMatch
  <2>9. QueueFits'
    <3>1. ModeFits'
      BY <1>1, <1>2, <2>1 DEF QueueFits, ModeFits, CapsOf
    <3>2. ASSUME ~crossed' PROVE n <= 1 /\ \A i \in DOMAIN queue' : queue'[i].to # "auto"
      <4>1. queue = <<>> /\ n = 1
        BY <1>6, <2>3, <3>2
      <4> QED
        BY <2>2, <2>3, <4>1
    <3> QED
      BY <2>3, <3>1, <3>2 DEF QueueFits
  <2> QED
    BY <1>3, <2>6, <2>7, <2>8, <2>9 DEF PickerInv
<1>5. CASE ~(mode = "auto" /\ ~CapsOf(pick.model).autoMode)
  <2> DEFINE now == IF pick.options = NoOptions THEN draft.options ELSE pick.options
  <2>1. draft' = [model |-> pick.model, options |-> now] /\ applied' = preset /\ queue' = queue
    BY <1>5 DEF Select, CommitPick
  <2>2. now \in Trait /\ draft.options \in Trait
    BY <1>1 DEF PickerTypes
  <2>3. AppliedMatch'
    BY <2>1, <2>2 DEF Restores, AppliedMatch
  <2> HIDE DEF now
  <2>4. PickerTypes'
    BY <1>1, <1>2, <2>1, <2>2 DEF PickerTypes
  <2>5. QueueMatch'
    BY <1>1, <2>1 DEF QueueMatch
  <2>6. QueueFits'
    <3>1. ModeFits'
      BY <1>2, <1>5, <2>1 DEF ModeFits, CapsOf
    <3>2. ASSUME ~crossed' PROVE Len(queue) <= 1 /\ DOMAIN queue = {}
      <4>1. queue = <<>>
        BY <1>6, <3>2
      <4> QED
        BY <4>1
    <3> QED
      BY <2>1, <3>1, <3>2 DEF QueueFits
  <2> QED
    BY <1>3, <2>3, <2>4, <2>5, <2>6 DEF PickerInv
<1> QED
  BY <1>4, <1>5

LEMMA PickModelStep == ASSUME PickerInv, PickModel PROVE PickerInv'
<1>1. PickerTypes
  BY DEF PickerInv
<1>2. PICK row \in ProviderRows : Select([model |-> row.model, options |-> NoOptions], {})
  BY DEF PickModel
<1>3. row.model \in Model
  BY <1>1, PickerAssumption DEF ProviderRows, PickerTypes
<1>4. [model |-> row.model, options |-> NoOptions] \in [model : Model, options : Trait]
  BY <1>3, NoOptionsTrait
<1>5. Restores([model |-> row.model, options |-> NoOptions], {}) /\ {} \in SUBSET Preset
  BY DEF Restores
<1> QED
  BY <1>2, <1>4, <1>5, SelectStep

LEMMA PickPresetStep == ASSUME PickerInv, PickPreset PROVE PickerInv'
<1>1. PickerTypes /\ \A p \in starred : WellStarred(p)
  BY DEF PickerInv
<1>2. PICK p \in starred :
        LET patch == StarredPatch(CapsOf(p.model), p.star)
        IN  Select([model |-> p.model,
                    options |-> IF patch = NoOptions THEN NoOptions
                                ELSE Patched(draft.options, patch)],
                   IF p.caps = CapsOf(p.model) THEN {p} ELSE {})
  BY DEF PickPreset
<1> DEFINE patch == StarredPatch(CapsOf(p.model), p.star)
           set == IF patch = NoOptions THEN NoOptions ELSE Patched(draft.options, patch)
           pick == [model |-> p.model, options |-> set]
           preset == IF p.caps = CapsOf(p.model) THEN {p} ELSE {}
<1>3. WellStarred(p) /\ Sound(CapsOf(p.model)) /\ p.star \in Trait /\ p \in Preset
  BY <1>1, SoundCaps DEF WellStarred, Preset
<1>4. patch \in Trait
  <2>1. /\ p.star.effort \in Effort \cup {Unset} /\ p.star.fastMode \in BOOLEAN \cup {Unset}
        /\ p.star.thinking \in BOOLEAN \cup {Unset}
    BY <1>3 DEF Trait
  <2> DEFINE e == IF p.star.effort # Unset /\ PlansEffort(CapsOf(p.model), p.star.effort)
                  THEN p.star.effort ELSE Unset
             f == IF p.star.fastMode # Unset /\ SupportsFastMode(CapsOf(p.model))
                  THEN p.star.fastMode ELSE Unset
             t == IF p.star.thinking # Unset /\ ThinkingOf(CapsOf(p.model), NoOptions) # Unset
                  THEN p.star.thinking ELSE Unset
  <2>2. e \in Effort \cup {Unset} /\ f \in BOOLEAN \cup {Unset} /\ t \in BOOLEAN \cup {Unset}
    BY <2>1
  <2>3. patch = [effort |-> e, fastMode |-> f, thinking |-> t]
    BY DEF StarredPatch
  <2> HIDE DEF e, f, t
  <2> QED
    BY <2>2, <2>3 DEF Trait
<1>5. set \in Trait
  <2>1. draft.options \in Trait
    BY <1>1 DEF PickerTypes
  <2> HIDE DEF patch
  <2> QED
    BY <1>4, <2>1, PatchedTrait, NoOptionsTrait
<1>6. pick \in [model : Model, options : Trait]
  <2>1. p.model \in Model
    BY <1>3 DEF Preset
  <2> HIDE DEF set
  <2> QED
    BY <1>5, <2>1
<1>7. Restores(pick, preset) /\ preset \in SUBSET Preset
  <2>1. CASE p.caps = CapsOf(p.model)
    <3>1. /\ pick.model = p.model /\ draft.options \in Trait
          /\ pick.options = IF StarredPatch(p.caps, p.star) = NoOptions THEN NoOptions
                            ELSE Patched(draft.options, StarredPatch(p.caps, p.star))
      BY <1>1, <2>1 DEF PickerTypes
    <3> HIDE DEF pick
    <3>2. Restores(pick, {p})
      BY <1>3, <3>1, PickRestores
    <3> QED
      BY <1>3, <2>1, <3>2
  <2>2. CASE p.caps # CapsOf(p.model)
    BY <2>2 DEF Restores
  <2> QED
    BY <2>1, <2>2
<1>8. Select(pick, preset)
  BY <1>2
<1> HIDE DEF pick, preset
<1> QED
  BY <1>6, <1>7, <1>8, SelectStep

LEMMA StarStep == ASSUME PickerInv, Star PROVE PickerInv'
<1>1. PickerTypes /\ AppliedMatch /\ QueueMatch /\ QueueFits /\ \A p \in starred : WellStarred(p)
  BY DEF PickerInv
<1> DEFINE caps == CapsOf(draft.model)
           p == [model |-> draft.model, caps |-> caps, star |-> ResolveStarredTraits(caps, draft.options)]
<1>2. starred' = starred \cup {p} /\ UNCHANGED <<reported, draft, mode, queue, applied, crossed>>
  BY DEF Star
<1>3. WellStarred(p)
  <2>1. Sound(caps) /\ draft.model \in Model /\ draft.options \in Trait
    BY <1>1, SoundCaps DEF PickerTypes
  <2> HIDE DEF caps
  <2>2. Sayable(caps, ResolveStarredTraits(caps, draft.options))
    BY <2>1, ResolveSayable
  <2> QED
    BY <2>1, <2>2 DEF WellStarred, Preset, Sound, Sayable
<1> HIDE DEF p
<1>4. \A r \in starred' : WellStarred(r)
  BY <1>1, <1>2, <1>3
<1>5. PickerTypes' /\ AppliedMatch' /\ QueueMatch' /\ QueueFits'
  BY <1>1, <1>2 DEF PickerTypes, AppliedMatch, QueueMatch, QueueFits, ModeFits, CapsOf
<1> QED
  BY <1>4, <1>5 DEF PickerInv

LEMMA UnstarStep == ASSUME PickerInv, Unstar PROVE PickerInv'
<1>1. PickerTypes /\ AppliedMatch /\ QueueMatch /\ QueueFits /\ \A p \in starred : WellStarred(p)
  BY DEF PickerInv
<1>2. UNCHANGED <<reported, draft, mode, queue, applied, crossed>> /\ starred' \subseteq starred
  BY DEF Unstar
<1>3. PickerTypes' /\ AppliedMatch' /\ QueueMatch' /\ QueueFits'
  BY <1>1, <1>2 DEF PickerTypes, AppliedMatch, QueueMatch, QueueFits, ModeFits, CapsOf
<1> QED
  BY <1>1, <1>2, <1>3 DEF PickerInv

\* What sets an option: nothing is applied any more.
LEMMA SetsStep ==
    ASSUME PickerInv, NEW options \in Trait, Sets(options)
    PROVE  PickerInv'
<1>1. PickerTypes /\ QueueMatch /\ QueueFits /\ \A p \in starred : WellStarred(p)
  BY DEF PickerInv
<1>2. /\ draft' = [draft EXCEPT !.options = options] /\ applied' = {}
      /\ UNCHANGED <<reported, starred, mode, queue, crossed>>
  BY DEF Sets
<1>3. draft' \in [model : Model, options : Trait] /\ draft'.model = draft.model
  BY <1>1, <1>2 DEF PickerTypes
<1>4. PickerTypes' /\ AppliedMatch' /\ QueueMatch'
  BY <1>1, <1>2, <1>3 DEF PickerTypes, AppliedMatch, QueueMatch
<1>5. QueueFits'
  BY <1>1, <1>2, <1>3 DEF QueueFits, ModeFits, CapsOf
<1> QED
  BY <1>1, <1>2, <1>4, <1>5 DEF PickerInv

LEMMA OptionStep ==
    ASSUME PickerInv, ToggleFastMode \/ SetEffort \/ SetTrait \/ ResetTraits
    PROVE  PickerInv'
<1>1. PickerTypes /\ draft.options \in Trait
  BY DEF PickerInv, PickerTypes
<1>2. CASE ToggleFastMode
  <2>1. PICK known \in BOOLEAN :
           Sets([draft.options EXCEPT !.fastMode = ~(known /\ draft.options.fastMode = TRUE)])
    BY <1>2 DEF ToggleFastMode
  <2> DEFINE b == ~(known /\ draft.options.fastMode = TRUE)
  <2>2. b \in BOOLEAN /\ Sets([draft.options EXCEPT !.fastMode = b])
    BY <2>1
  <2> HIDE DEF b
  <2>3. [draft.options EXCEPT !.fastMode = b] \in Trait
    BY <1>1, <2>2 DEF Trait
  <2> QED
    BY <2>2, <2>3, SetsStep
<1>3. CASE SetEffort
  <2>1. PICK level \in Effort : Sets([draft.options EXCEPT !.effort = level])
    BY <1>3 DEF SetEffort
  <2>2. [draft.options EXCEPT !.effort = level] \in Trait
    BY <1>1 DEF Trait
  <2> QED
    BY <2>1, <2>2, SetsStep
<1>4. CASE SetTrait
  <2>1. PICK b \in BOOLEAN : \/ Sets([draft.options EXCEPT !.fastMode = b])
                             \/ Sets([draft.options EXCEPT !.thinking = b])
    BY <1>4 DEF SetTrait
  <2>2. [draft.options EXCEPT !.fastMode = b] \in Trait /\ [draft.options EXCEPT !.thinking = b] \in Trait
    BY <1>1 DEF Trait
  <2> QED
    BY <2>1, <2>2, SetsStep
<1>5. CASE ResetTraits
  <2>1. Reset(CapsOf(draft.model), draft.options) \in Trait
    BY <1>1, SoundCaps, ResetHolds
  <2> QED
    BY <1>5, <2>1, SetsStep DEF ResetTraits
<1> QED
  BY <1>2, <1>3, <1>4, <1>5

LEMMA PickModeStep == ASSUME PickerInv, PickMode PROVE PickerInv'
<1>1. PickerTypes /\ AppliedMatch /\ QueueMatch /\ QueueFits /\ \A p \in starred : WellStarred(p)
  BY DEF PickerInv
<1>2. PICK to \in {"auto", "approval-required"} \ {mode} :
        /\ to = "auto" => CapsOf(draft.model).autoMode
        /\ queue' = Append(queue, [to |-> to, pick |-> NoPick, preset |-> {}])
  BY DEF PickMode
<1>3. /\ UNCHANGED <<reported, draft, starred, mode, applied>>
      /\ crossed' = (crossed \/ queue # <<>>) /\ queue \in Seq(Waiting) /\ crossed \in BOOLEAN
  BY <1>1 DEF PickMode, Cross, PickerTypes
<1>4. ~crossed' => queue = <<>>
  BY <1>3, Zenon
<1>5. crossed' \in BOOLEAN
  BY <1>3, Zenon
<1> DEFINE item == [to |-> to, pick |-> NoPick, preset |-> {}]
           n == Len(queue) + 1
<1>6. /\ item \in Waiting /\ item.to = to /\ item.pick = NoPick /\ item.preset = {}
  BY NoOptionsTrait DEF Waiting, NoPick
<1> HIDE DEF item
<1>7. /\ queue' \in Seq(Waiting) /\ DOMAIN queue' = 1..n /\ DOMAIN queue = 1..(n - 1)
      /\ \A i \in DOMAIN queue : queue'[i] = queue[i]
      /\ queue'[n] = item /\ n \in Nat \ {0} /\ Len(queue') = n
  BY <1>2, <1>3, <1>6 DEF item
<1>8. \A i \in DOMAIN queue' : i \in DOMAIN queue \/ i = n
  BY <1>7
<1>9. PickerTypes'
  <2>1. \A i \in DOMAIN queue' : queue'[i].pick = NoPick \/ queue'[i].pick.model \in Model
    BY <1>1, <1>6, <1>7, <1>8 DEF PickerTypes
  <2> QED
    BY <1>1, <1>3, <1>5, <1>7, <2>1 DEF PickerTypes
<1>10. QueueMatch'
  BY <1>1, <1>6, <1>7, <1>8 DEF QueueMatch, Restores
<1>11. QueueFits'
  <2>1. ~crossed' => ~crossed
    BY <1>3, Zenon
  <2>2. ModeFits'
    BY <1>1, <1>3, <2>1 DEF QueueFits, ModeFits, CapsOf
  <2>3. ASSUME ~crossed' PROVE n <= 1 /\ \A i \in DOMAIN queue' : queue'[i].to = "auto" => CapsOf(draft.model).autoMode
    <3>1. queue = <<>> /\ n = 1
      BY <1>4, <1>7, <2>3
    <3> QED
      BY <1>2, <1>6, <1>7, <3>1
  <2> QED
    BY <1>3, <1>7, <2>2, <2>3 DEF QueueFits, CapsOf
<1>12. AppliedMatch' /\ (\A p \in starred : WellStarred(p))'
  BY <1>1, <1>3 DEF AppliedMatch
<1> QED
  BY <1>9, <1>10, <1>11, <1>12 DEF PickerInv

\* The first mode change is over: a pick that waited is made with it, or not.
LEMMA PersistedStep == ASSUME PickerInv, Persisted PROVE PickerInv'
<1> DEFINE first == Head(queue)
<1>1. PickerTypes /\ AppliedMatch /\ QueueMatch /\ QueueFits /\ \A p \in starred : WellStarred(p)
  BY DEF PickerInv
<1>2. queue # <<>> /\ queue' = Tail(queue) /\ UNCHANGED <<reported, starred, crossed>>
  BY DEF Persisted
<1>3. /\ queue' \in Seq(Waiting) /\ first = queue[1] /\ 1 \in DOMAIN queue /\ first \in Waiting
      /\ \A i \in DOMAIN queue' : i + 1 \in DOMAIN queue /\ queue'[i] = queue[i + 1]
      /\ Len(queue') = Len(queue) - 1 /\ Len(queue) \in Nat \ {0}
      /\ DOMAIN queue' = 1..(Len(queue) - 1)
  BY <1>1, <1>2 DEF PickerTypes
<1>4. /\ Restores(first.pick, first.preset) /\ (first.to = "auto" => first.pick = NoPick)
      /\ first.pick = NoPick \/ first.pick.model \in Model
      /\ first.to \in {"auto", "approval-required"} /\ first.pick.options \in Trait
  BY <1>1, <1>3 DEF QueueMatch, PickerTypes, Waiting
<1>5. QueueMatch' /\ \A i \in DOMAIN queue' : queue'[i].pick = NoPick \/ queue'[i].pick.model \in Model
  BY <1>1, <1>3 DEF QueueMatch, PickerTypes
<1>6. ~crossed => Len(queue) = 1 /\ DOMAIN queue' = {} /\ Len(queue') = 0
                  /\ (first.to = "auto" => CapsOf(draft.model).autoMode)
  BY <1>1, <1>3 DEF QueueFits
<1> HIDE DEF first
<1>7. CASE UNCHANGED <<draft, applied>> /\ mode' \in {mode, first.to}
  <2>1. PickerTypes'
    BY <1>1, <1>2, <1>3, <1>4, <1>5, <1>7 DEF PickerTypes
  <2>2. AppliedMatch'
    BY <1>1, <1>7 DEF AppliedMatch
  <2>3. ModeFits'
    BY <1>1, <1>2, <1>6, <1>7 DEF QueueFits, ModeFits, CapsOf
  <2>4. QueueFits'
    BY <1>2, <1>6, <2>3 DEF QueueFits
  <2> QED
    BY <1>1, <1>2, <1>5, <2>1, <2>2, <2>4 DEF PickerInv
<1>8. CASE /\ mode' = first.to /\ first.pick # NoPick
           /\ CommitPick(first.pick) /\ applied' = first.preset
  <2> DEFINE now == IF first.pick.options = NoOptions THEN draft.options ELSE first.pick.options
  <2>1. draft' = [model |-> first.pick.model, options |-> now]
    BY <1>8 DEF CommitPick
  <2>2. now \in Trait /\ draft.options \in Trait
    BY <1>1, <1>4 DEF PickerTypes
  <2>3. AppliedMatch'
    BY <1>4, <1>8, <2>1, <2>2 DEF Restores, AppliedMatch
  <2> HIDE DEF now
  <2>4. PickerTypes'
    BY <1>1, <1>2, <1>3, <1>4, <1>5, <1>8, <2>1, <2>2 DEF PickerTypes
  <2>5. QueueFits'
    BY <1>2, <1>4, <1>6, <1>8 DEF QueueFits, ModeFits
  <2> QED
    BY <1>1, <1>2, <1>5, <2>3, <2>4, <2>5 DEF PickerInv
<1> QED
  BY <1>4, <1>7, <1>8 DEF Persisted, first

LEMMA ReportsStep == ASSUME PickerInv, Reports PROVE PickerInv'
<1>1. PickerTypes /\ AppliedMatch /\ QueueMatch /\ QueueFits /\ \A p \in starred : WellStarred(p)
  BY DEF PickerInv
<1>2. PICK r \in Report :
        /\ reported' = r
        /\ crossed' = \/ crossed \/ queue # <<>>
                      \/ mode = "auto" /\ ~(draft.model \in DOMAIN r /\ r[draft.model].autoMode)
  BY DEF Reports
<1>3. UNCHANGED <<draft, starred, mode, queue, applied>>
  BY DEF Reports
<1>4. crossed' \in BOOLEAN /\ (~crossed' => queue = <<>>)
      /\ (~crossed' /\ mode = "auto" => draft.model \in DOMAIN r /\ r[draft.model].autoMode)
  BY <1>2, Zenon
<1>5. PickerTypes' /\ AppliedMatch' /\ QueueMatch'
  BY <1>1, <1>2, <1>3, <1>4 DEF PickerTypes, AppliedMatch, QueueMatch
<1>6. QueueFits'
  <2>1. ModeFits'
    BY <1>2, <1>3, <1>4 DEF ModeFits, CapsOf
  <2>2. queue = <<>> => Len(queue) <= 1 /\ DOMAIN queue = {}
    OBVIOUS
  <2> QED
    BY <1>3, <1>4, <2>1, <2>2 DEF QueueFits
<1> QED
  BY <1>1, <1>3, <1>5, <1>6 DEF PickerInv

LEMMA PickerInitInv == ASSUME PickerInit PROVE PickerInv
<1>1. draft.model \in Model /\ draft.options = NoOptions /\ reported \in Report
  BY PickerAssumption DEF PickerInit
<1>2. PickerTypes
  <2>1. draft \in [model : Model, options : Trait]
    BY <1>1, NoOptionsTrait DEF PickerInit
  <2>2. queue \in Seq(Waiting) /\ DOMAIN queue = {} /\ mode = "approval-required"
    BY DEF PickerInit
  <2>3. crossed \in BOOLEAN
    BY DEF PickerInit
  <2> QED
    BY <1>1, <2>1, <2>2, <2>3 DEF PickerTypes
<1>3. AppliedMatch /\ QueueMatch /\ QueueFits
  BY DEF PickerInit, AppliedMatch, QueueMatch, QueueFits, ModeFits
<1> QED
  BY <1>2, <1>3 DEF PickerInit, PickerInv

LEMMA PickerStep == ASSUME PickerInv, [PickerNext]_pickerVars PROVE PickerInv'
<1>1. CASE UNCHANGED pickerVars
  <2>1. /\ reported' = reported /\ draft' = draft /\ starred' = starred /\ mode' = mode
        /\ queue' = queue /\ applied' = applied /\ crossed' = crossed
    BY <1>1 DEF pickerVars
  <2>2. PickerTypes' /\ AppliedMatch' /\ QueueMatch' /\ QueueFits'
    BY <2>1 DEF PickerInv, PickerTypes, AppliedMatch, QueueMatch, QueueFits, ModeFits, CapsOf
  <2> QED
    BY <2>1, <2>2 DEF PickerInv
<1> QED
  BY <1>1, PickModelStep, PickPresetStep, StarStep, UnstarStep, OptionStep, PickModeStep, PersistedStep,
     ReportsStep DEF PickerNext

\* In every reachable state the picker keeps its word: a preset that was picked
\* shows as selected while its model is what it was, no star sets what a model
\* lacks, the thread is in auto mode only where the model has it, and the form's
\* reset shows the defaults (ComposerModelPicker.logic.ts, modelCatalog.ts).
THEOREM PickerAlwaysHonest == PickerSpec => []PickerHonest
<1>1. PickerInit => PickerInv
  BY PickerInitInv
<1>2. PickerInv /\ [PickerNext]_pickerVars => PickerInv'
  BY PickerStep
<1>3. PickerInv => PickerHonest
  <2> SUFFICES ASSUME PickerInv PROVE PickerHonest
    OBVIOUS
  <2>1. PickerTypes /\ AppliedMatch /\ ModeFits
    BY DEF PickerInv, QueueFits
  <2>2. PresetRestores
    <3> SUFFICES ASSUME NEW p \in applied, p.model \in DOMAIN reported, p.caps = reported[p.model]
                 PROVE  StarredRow(p).selected
      BY DEF PresetRestores
    <3>1. /\ p.model = draft.model /\ p.caps = CapsOf(draft.model)
          /\ StarredTraitsMatch(p.star, ResolveStarredTraits(p.caps, draft.options))
      BY <2>1 DEF AppliedMatch, Matches, CapsOf
    <3>2. StarredTraitsMatch(p.star, ResolveStarredTraits(CapsOf(draft.model), draft.options))
      BY <3>1
    <3> QED
      BY <3>1, <3>2 DEF StarredRow
  <2>3. NothingInvented
    <3> SUFFICES ASSUME NEW p \in starred
                 PROVE  LET caps == CapsOf(p.model)
                            patch == StarredPatch(caps, p.star)
                        IN  /\ patch.effort \in caps.effortLevels \cup {Unset}
                            /\ patch.fastMode # Unset => SupportsFastMode(caps)
                            /\ patch.thinking # Unset => caps.thinking
      BY DEF NothingInvented
    <3> DEFINE caps == CapsOf(p.model)
    <3>1. Sound(caps)
      BY <2>1, SoundCaps
    <3>2. ThinkingOf(caps, NoOptions) # Unset <=> caps.thinking
      BY <3>1, ThinksUnset
    <3> HIDE DEF caps
    <3>3. /\ StarredPatch(caps, p.star).effort \in caps.effortLevels \cup {Unset}
          /\ StarredPatch(caps, p.star).fastMode # Unset => SupportsFastMode(caps)
          /\ StarredPatch(caps, p.star).thinking # Unset => caps.thinking
      BY <3>2 DEF StarredPatch, PlansEffort
    <3> QED
      BY <3>3 DEF caps
  <2>4. ResetRestores
    <3>1. Sound(CapsOf(draft.model)) /\ draft.options \in Trait
      BY <2>1, SoundCaps DEF PickerTypes
    <3> QED
      BY <3>1, ResetHolds DEF ResetRestores
  <2> QED
    BY <2>1, <2>2, <2>3, <2>4 DEF PickerHonest
<1> QED
  BY <1>1, <1>2, <1>3, PTL DEF PickerSpec

-----------------------------------------------------------------------------
(* TurnDiff: which patch a key stands for.                                 *)

TurnTypes ==
    /\ turns \in [begun : Nat, running : Nat] /\ turns.running \in {NoTurn, turns.begun}
    /\ unsettled \in BOOLEAN
    /\ DOMAIN checkpoints \subseteq 1..turns.begun
    /\ \A t \in DOMAIN checkpoints :
          checkpoints[t].count \in 1..t /\ checkpoints[t].revision \in Nat
    /\ \A r \in reads : r.stale \in BOOLEAN /\ r = [key |-> r.key, got |-> r.got, stale |-> r.stale]

\* The numbers of the checkpoints are told apart, and the running turn's patch
\* alone is not final.
CountsApart ==
    /\ \A t, u \in DOMAIN checkpoints : checkpoints[t].count = checkpoints[u].count => t = u
    /\ \A t \in DOMAIN checkpoints : checkpoints[t].revision # Final <=> t = turns.running

\* A key of a turn's patch: of a turn that has begun and, if it runs, of one with
\* a patch; an earlier revision's, or the very key of the turn now.
Revised(k) ==
    LET t == k.scope[1]
        revision == k.scope[2]
    IN  /\ t \in 1..turns.begun /\ revision \in Nat
        /\ t = turns.running => t \in DOMAIN checkpoints
        /\ t \in DOMAIN checkpoints =>
              /\ revision = checkpoints[t].revision => k = TurnQuery(t)
              /\ t = turns.running => revision \in 1..checkpoints[t].revision

\* What the backend answered, taken or on its way.
Got == reads \cup answers
Keys == observed \cup asked \cup {r.key : r \in Got}

KeysFit == \A k \in Keys : k.scope # <<>> => Revised(k)

\* What was answered for a turn's key of now is that turn's patch of now.
ReadsFit ==
    \A r \in Got : \A t \in DOMAIN checkpoints :
        r.key = TurnQuery(t) => r.got = {<<t, checkpoints[t].revision>>}

\* What was answered since a session was heard to settle is what the backend has.
FreshReads ==
    ~unsettled =>
        /\ \A r \in reads : r.key \notin missed /\ ~r.stale => r.got = Patches(r.key)
        /\ \A a \in answers : a.key \notin missed => a.got = Patches(a.key)

TurnInv == TurnTypes /\ CountsApart /\ KeysFit /\ ReadsFit /\ FreshReads

LEMMA LeastIsMin ==
    ASSUME NEW S \in SUBSET Nat, S # {}
    PROVE  Min(S) \in S /\ \A y \in S : Min(S) <= y
  BY LeastNatural DEF Min

LEMMA GreatestNatural ==
    ASSUME NEW S \in SUBSET Nat, NEW n \in Nat, S # {}, \A y \in S : y <= n
    PROVE  Max(S) \in S /\ \A y \in S : y <= Max(S)
<1> DEFINE T == {m \in Nat : \A y \in S : y <= m}
<1>1. PICK m \in T : \A l \in T : m <= l
  <2>1. T \in SUBSET Nat /\ n \in T
    OBVIOUS
  <2> HIDE DEF T
  <2> QED
    BY <2>1, LeastNatural
<1>2. m \in S
  <2> SUFFICES ASSUME m \notin S PROVE FALSE
    OBVIOUS
  <2>1. PICK y \in S : TRUE
    OBVIOUS
  <2>2. y <= m /\ y # m
    BY <1>1, <2>1
  <2>3. m - 1 \in T
    BY <1>1, <2>2
  <2> QED
    BY <1>1, <2>3
<1>3. \E x \in S : \A y \in S : x >= y
  BY <1>1, <1>2
<1> QED
  BY <1>3 DEF Max

\* The next checkpoint's number is one that none has, no more than the turns.
LEMMA NextCount ==
    ASSUME TurnInv, turns.running # NoTurn
    PROVE  /\ CountOf(turns.running) \in 1..turns.running
           /\ \A u \in DOMAIN checkpoints :
                checkpoints[u].count = CountOf(turns.running) => u = turns.running
<1> DEFINE t == turns.running
           S == Counts(checkpoints) \cup {0}
<1>1. TurnTypes /\ CountsApart
  BY DEF TurnInv
<1>2. t = turns.begun /\ t \in Nat \ {0} /\ DOMAIN checkpoints \subseteq 1..t
  BY <1>1 DEF TurnTypes, NoTurn
<1>3. CASE t \in DOMAIN checkpoints
  BY <1>1, <1>3 DEF CountOf, TurnTypes, CountsApart
<1>4. CASE t \notin DOMAIN checkpoints
  <2>1. \A c \in S : c \in Nat /\ c < t
    <3> TAKE c \in S
    <3>1. CASE c = 0
      BY <1>2, <3>1
    <3>2. ASSUME NEW u \in DOMAIN checkpoints, c = checkpoints[u].count PROVE c \in Nat /\ c < t
      BY <1>1, <1>2, <1>4, <3>2 DEF TurnTypes
    <3> QED
      BY <3>1, <3>2 DEF Counts
  <2>2. S \in SUBSET Nat /\ S # {} /\ \A y \in S : y <= t
    BY <1>2, <2>1
  <2>3. \A u \in DOMAIN checkpoints : checkpoints[u].count \in S
    BY DEF Counts
  <2> HIDE DEF S
  <2>4. Max(S) \in S /\ \A y \in S : y <= Max(S)
    BY <1>2, <2>2, GreatestNatural
  <2>5. CountOf(t) = Max(S) + 1
    BY <1>4 DEF CountOf, LatestCount, S
  <2>6. Max(S) \in Nat /\ Max(S) < t
    BY <2>1, <2>4
  <2>7. \A u \in DOMAIN checkpoints : checkpoints[u].count # CountOf(t)
    BY <2>2, <2>3, <2>4, <2>5, <2>6
  <2> QED
    BY <1>2, <2>5, <2>6, <2>7
<1> QED
  BY <1>3, <1>4

\* A turn's own key reads its own patch.
LEMMA OwnPatch ==
    ASSUME TurnTypes, CountsApart, NEW t \in DOMAIN checkpoints
    PROVE  Patches(TurnQuery(t)) = {<<t, checkpoints[t].revision>>}
<1> DEFINE c == checkpoints[t].count
           q == TurnQuery(t)
<1>1. c \in Nat \ {0} /\ q.from + 1 = c /\ q.to = c
  BY DEF TurnTypes, TurnQuery
<1>2. \A u \in DOMAIN checkpoints : checkpoints[u].count \in c..c <=> u = t
  BY <1>1 DEF TurnTypes, CountsApart
<1>3. {u \in DOMAIN checkpoints : checkpoints[u].count \in (q.from + 1)..q.to} = {t}
  BY <1>1, <1>2
<1> HIDE DEF q
<1> QED
  BY <1>3 DEF Patches, q

LEMMA QueryScope ==
    ASSUME NEW t
    PROVE  TurnQuery(t).scope = <<t, checkpoints[t].revision>> /\ ThreadQuery.scope = <<>>
  BY DEF TurnQuery, ThreadQuery

-----------------------------------------------------------------------------
\* The turn that runs has a patch it did not have, or is over with its last one.
LEMMA SummariseStep ==
    ASSUME TurnInv, turns.running # NoTurn, NEW revision \in Nat, Summarise(turns.running, revision),
           \/ /\ turns' = turns /\ revision # Final
              /\ turns.running \in DOMAIN checkpoints => revision = checkpoints[turns.running].revision + 1
           \/ turns' = [turns EXCEPT !.running = NoTurn] /\ revision = Final
    PROVE  TurnInv'
<1> DEFINE t == turns.running
<1>1. TurnTypes /\ CountsApart /\ KeysFit /\ ReadsFit
  BY DEF TurnInv
<1>2. t = turns.begun /\ t \in Nat \ {0} /\ DOMAIN checkpoints \subseteq 1..t
  BY <1>1 DEF TurnTypes, NoTurn
<1>3. /\ CountOf(t) \in 1..t
      /\ \A u \in DOMAIN checkpoints : checkpoints[u].count = CountOf(t) => u = t
  BY NextCount
<1>4. /\ DOMAIN checkpoints' = DOMAIN checkpoints \cup {t}
      /\ checkpoints'[t].count = CountOf(t) /\ checkpoints'[t].revision = revision
      /\ \A u \in DOMAIN checkpoints : u # t => checkpoints'[u] = checkpoints[u]
      /\ UNCHANGED <<observed, reads, asked, answers>> /\ unsettled'
  BY DEF Summarise, readVars
<1>13. Got' = Got /\ Keys' = Keys
  BY <1>4 DEF Got, Keys
<1>5. /\ turns' \in [begun : Nat, running : Nat] /\ turns'.begun = turns.begun
      /\ turns'.running \in {NoTurn, turns'.begun}
      /\ turns'.running = IF revision = Final THEN NoTurn ELSE t
  BY <1>1, <1>2 DEF TurnTypes, NoTurn
<1>6. t \in DOMAIN checkpoints => checkpoints'[t].count = checkpoints[t].count
  BY <1>4 DEF CountOf
<1>7. unsettled' \in BOOLEAN
  BY DEF Summarise
<1>8. TurnTypes'
  <2>1. \A u \in DOMAIN checkpoints' :
          checkpoints'[u].count \in 1..u /\ checkpoints'[u].revision \in Nat
    BY <1>1, <1>3, <1>4 DEF TurnTypes
  <2>2. DOMAIN checkpoints' \subseteq 1..turns'.begun
    BY <1>1, <1>2, <1>4, <1>5 DEF TurnTypes
  <2>3. \A r \in reads' : r.stale \in BOOLEAN /\ r = [key |-> r.key, got |-> r.got, stale |-> r.stale]
    BY <1>1, <1>4 DEF TurnTypes
  <2> QED
    BY <1>5, <1>7, <2>1, <2>2, <2>3 DEF TurnTypes
<1>9. CountsApart'
  <2>1. \A u, v \in DOMAIN checkpoints' : checkpoints'[u].count = checkpoints'[v].count => u = v
    <3> TAKE u, v \in DOMAIN checkpoints'
    <3>1. CASE u = t /\ v # t
      BY <1>3, <1>4, <3>1
    <3>2. CASE u # t /\ v = t
      BY <1>3, <1>4, <3>2
    <3>3. CASE u # t /\ v # t
      BY <1>1, <1>4, <3>3 DEF CountsApart
    <3> QED
      BY <3>1, <3>2, <3>3
  <2>2. \A u \in DOMAIN checkpoints' : checkpoints'[u].revision # Final <=> u = turns'.running
    <3> TAKE u \in DOMAIN checkpoints'
    <3>1. CASE u = t
      BY <1>2, <1>4, <1>5, <3>1 DEF NoTurn
    <3>2. CASE u # t
      <4>1. checkpoints'[u].revision = Final
        BY <1>1, <1>4, <3>2 DEF CountsApart
      <4>2. u # turns'.running
        BY <1>1, <1>4, <1>5, <3>2 DEF NoTurn, TurnTypes
      <4> QED
        BY <4>1, <4>2
    <3> QED
      BY <3>1, <3>2
  <2> QED
    BY <2>1, <2>2 DEF CountsApart
<1>10. ASSUME NEW k \in Keys, k.scope # <<>>
       PROVE  Revised(k)' /\ ~(k.scope[1] = t /\ k.scope[2] = revision)
  <2> DEFINE s == k.scope[1]
  <2>1. /\ s \in 1..turns.begun /\ k.scope[2] \in Nat
        /\ s = t => s \in DOMAIN checkpoints
        /\ s \in DOMAIN checkpoints =>
             /\ k.scope[2] = checkpoints[s].revision => k = TurnQuery(s)
             /\ s = t => k.scope[2] \in 1..checkpoints[s].revision
    BY <1>1, <1>10 DEF KeysFit, Revised
  <2>2. CASE s = t
    <3>1. /\ t \in DOMAIN checkpoints /\ k.scope[2] \in 1..checkpoints[t].revision
          /\ checkpoints[t].revision \in Nat
      BY <1>1, <2>1, <2>2 DEF TurnTypes
    <3>2. k.scope[2] # revision
      BY <3>1 DEF Final
    <3>3. turns'.running = t => k.scope[2] \in 1..checkpoints'[t].revision
      BY <1>2, <1>4, <1>5, <3>1 DEF NoTurn
    <3> QED
      BY <1>4, <1>5, <2>1, <2>2, <3>2, <3>3 DEF Revised
  <2>3. CASE s # t
    <3>1. s # turns'.running /\ (s \in DOMAIN checkpoints' => s \in DOMAIN checkpoints)
      BY <1>4, <1>5, <2>1, <2>3 DEF NoTurn
    <3>2. s \in DOMAIN checkpoints => checkpoints'[s] = checkpoints[s] /\ TurnQuery(s)' = TurnQuery(s)
      BY <1>4, <2>3 DEF TurnQuery
    <3> QED
      BY <1>5, <2>1, <2>3, <3>1, <3>2 DEF Revised
  <2> QED
    BY <2>2, <2>3
<1>11. KeysFit'
  BY <1>10, <1>13 DEF KeysFit
<1>12. ReadsFit'
  <2> SUFFICES ASSUME NEW r \in Got, NEW u \in DOMAIN checkpoints', r.key = TurnQuery(u)'
               PROVE  r.got = {<<u, checkpoints'[u].revision>>}
    BY <1>13 DEF ReadsFit
  <2>5. r.key \in Keys
    BY DEF Keys
  <2>1. r.key.scope = <<u, checkpoints'[u].revision>>
    BY DEF TurnQuery
  <2>2. r.key.scope # <<>> /\ r.key.scope[1] = u /\ r.key.scope[2] = checkpoints'[u].revision
    BY <2>1
  <2>3. u # t
    BY <1>4, <1>10, <2>2, <2>5
  <2>4. u \in DOMAIN checkpoints /\ checkpoints'[u] = checkpoints[u] /\ TurnQuery(u)' = TurnQuery(u)
    BY <1>4, <2>3 DEF TurnQuery
  <2> QED
    BY <1>1, <2>4 DEF ReadsFit
<1> QED
  BY <1>4, <1>8, <1>9, <1>11, <1>12 DEF TurnInv, FreshReads

\* What the keys are about has not changed.
LEMMA SameKeys ==
    ASSUME UNCHANGED <<turns, checkpoints>>, NEW k
    PROVE  /\ Revised(k)' <=> Revised(k)
           /\ TurnQuery(k)' = TurnQuery(k) /\ Patches(k)' = Patches(k)
<1>1. TurnQuery(k)' = TurnQuery(k) /\ Patches(k)' = Patches(k)
  BY DEF TurnQuery, Patches
<1>2. \A t : TurnQuery(t)' = TurnQuery(t)
  BY DEF TurnQuery
<1>3. Revised(k)' <=> Revised(k)
  BY <1>2 DEF Revised
<1> QED
  BY <1>1, <1>3

\* No other checkpoint, no key that is of no turn's, no patch that is not of its
\* turn's key.
LEMMA SameTurns ==
    ASSUME TurnInv, UNCHANGED <<turns, checkpoints>>, unsettled' \in BOOLEAN,
           \A r \in reads' : r.stale \in BOOLEAN /\ r = [key |-> r.key, got |-> r.got, stale |-> r.stale],
           \A k \in Keys' : k \in Keys \/ (k.scope # <<>> => Revised(k)),
           \A r \in Got' : \/ \E s \in Got : r.key = s.key /\ r.got = s.got
                           \/ r.got = Patches(r.key)
    PROVE  TurnTypes' /\ CountsApart' /\ KeysFit' /\ ReadsFit'
<1>1. TurnTypes /\ CountsApart /\ KeysFit /\ ReadsFit
  BY DEF TurnInv
<1>2. TurnTypes' /\ CountsApart'
  BY <1>1 DEF TurnTypes, CountsApart
<1>3. KeysFit'
  <2>1. ASSUME NEW k \in Keys', k.scope # <<>> PROVE Revised(k)'
    <3>1. Revised(k)
      BY <1>1, <2>1 DEF KeysFit
    <3> QED
      BY <3>1, SameKeys
  <2> QED
    BY <2>1 DEF KeysFit
<1>4. ReadsFit'
  <2> SUFFICES ASSUME NEW r \in Got', NEW t \in DOMAIN checkpoints, r.key = TurnQuery(t)
               PROVE  r.got = {<<t, checkpoints[t].revision>>}
    <3>1. \A t : TurnQuery(t)' = TurnQuery(t)
      BY SameKeys
    <3> QED
      BY <3>1 DEF ReadsFit
  <2>1. CASE \E s \in Got : r.key = s.key /\ r.got = s.got
    BY <1>1, <2>1 DEF ReadsFit
  <2>2. CASE r.got = Patches(r.key)
    BY <1>1, <2>2, OwnPatch
  <2> QED
    BY <2>1, <2>2
<1> QED
  BY <1>2, <1>3, <1>4

\* A query that is drawn is of a turn's key of now, or of no turn's.
LEMMA QueryFits ==
    ASSUME TurnInv, NEW q \in Query, q.scope # <<>>
    PROVE  Revised(q)
<1>1. TurnTypes
  BY DEF TurnInv
<1>2. PICK t \in DOMAIN checkpoints : q = TurnQuery(t)
  BY QueryScope DEF Query, SelectedTurn
<1>3. q.scope[1] = t /\ q.scope[2] = checkpoints[t].revision
  BY <1>2, QueryScope
<1>4. t = turns.running => checkpoints[t].revision \in 1..checkpoints[t].revision
  BY <1>1 DEF TurnInv, CountsApart, TurnTypes, Final
<1> QED
  BY <1>1, <1>2, <1>3, <1>4 DEF Revised, TurnTypes

LEMMA FetchesStep == ASSUME TurnInv, Fetches PROVE TurnInv'
<1>1. TurnTypes /\ FreshReads
  BY DEF TurnInv
<1>2. PICK q \in observed \ UnderWay : /\ \A r \in reads : r.key = q => r.stale
                                   /\ asked' = asked \cup {q} /\ missed' = missed \ {q}
  BY DEF Fetches
<1>3. UNCHANGED <<turns, checkpoints, observed, reads, answers, unsettled>>
  BY DEF Fetches
<1>4. Got' = Got /\ Keys' = Keys
  BY <1>2, <1>3 DEF Got, Keys
<1>5. TurnTypes' /\ CountsApart' /\ KeysFit' /\ ReadsFit'
  BY <1>1, <1>3, <1>4, SameTurns DEF TurnTypes
<1>6. FreshReads'
  <2>1. \A k : Patches(k)' = Patches(k)
    BY <1>3, SameKeys
  <2>2. \A a \in answers : a.key # q
    BY <1>2 DEF UnderWay
  <2> QED
    BY <1>1, <1>2, <1>3, <2>1, <2>2 DEF FreshReads
<1> QED
  BY <1>5, <1>6 DEF TurnInv

LEMMA AnswersStep == ASSUME TurnInv, NEW q \in asked, BackendAnswers(q) PROVE TurnInv'
<1> DEFINE new == [key |-> q, got |-> Patches(q)]
<1>1. TurnTypes /\ FreshReads
  BY DEF TurnInv
<1>2. /\ asked' = asked \ {q} /\ answers' = answers \cup {new}
      /\ UNCHANGED <<turns, checkpoints, observed, reads, unsettled, missed>>
  BY DEF BackendAnswers
<1>3. new.key = q /\ new.got = Patches(q)
  OBVIOUS
<1> HIDE DEF new
<1>4. \A r \in Got' : r \in Got \/ r = new
  BY <1>2 DEF Got
<1>5. \A k \in Keys' : k \in Keys
  <2>1. ASSUME NEW r \in Got' PROVE r.key \in Keys
    BY <1>3, <1>4, <2>1 DEF Keys
  <2> QED
    BY <1>2, <2>1 DEF Keys
<1>6. TurnTypes' /\ CountsApart' /\ KeysFit' /\ ReadsFit'
  BY <1>1, <1>2, <1>3, <1>4, <1>5, SameTurns DEF TurnTypes
<1>7. FreshReads'
  <2>1. \A k : Patches(k)' = Patches(k)
    BY <1>2, SameKeys
  <2> QED
    BY <1>1, <1>2, <1>3, <2>1 DEF FreshReads
<1> QED
  BY <1>6, <1>7 DEF TurnInv

LEMMA FetchedStep == ASSUME TurnInv, NEW a \in answers, Fetched(a) PROVE TurnInv'
<1> DEFINE new == [key |-> a.key, got |-> a.got, stale |-> FALSE]
<1>1. TurnTypes /\ FreshReads
  BY DEF TurnInv
<1>2. /\ answers' = {b \in answers : b.key # a.key}
      /\ UNCHANGED <<turns, checkpoints, observed, asked, unsettled>>
      /\ missed' = IF a.got = {} THEN missed \ {a.key} ELSE missed
  BY DEF Fetched
<1>3. /\ new.key = a.key /\ new.got = a.got /\ new.stale = FALSE
      /\ new = [key |-> new.key, got |-> new.got, stale |-> new.stale]
  OBVIOUS
<1>4. ASSUME NEW r \in reads', a.got = {}
      PROVE  \E s \in reads : /\ r.key = s.key /\ r.got = s.got
                              /\ r.stale = (s.stale \/ s.key = a.key)
                              /\ r = [key |-> r.key, got |-> r.got, stale |-> r.stale]
  <2>1. reads' = {[s EXCEPT !.stale = s.stale \/ s.key = a.key] : s \in reads}
    BY <1>4 DEF Fetched
  <2>2. PICK s \in reads : r = [s EXCEPT !.stale = s.stale \/ s.key = a.key]
    BY <1>4, <2>1
  <2>3. s = [key |-> s.key, got |-> s.got, stale |-> s.stale]
    BY <1>1 DEF TurnTypes
  <2> DEFINE old == s.stale \/ s.key = a.key
  <2>4. r = [s EXCEPT !.stale = old]
    BY <2>2
  <2> HIDE DEF old
  <2>5. r = [key |-> s.key, got |-> s.got, stale |-> old]
    BY <2>3, <2>4
  <2>6. r.key = s.key /\ r.got = s.got /\ r.stale = old
    BY <2>5
  <2> QED
    BY <2>5, <2>6 DEF old
<1>5. ASSUME NEW r \in reads', a.got # {}
      PROVE  (r \in reads /\ r.key # a.key) \/ r = new
  <2>1. reads' = {s \in reads : s.key # a.key} \cup {new}
    BY <1>5 DEF Fetched
  <2> HIDE DEF new
  <2> QED
    BY <1>5, <2>1
<1> HIDE DEF new
<1>6. \A r \in reads' : /\ \E s \in Got : r.key = s.key /\ r.got = s.got
                        /\ r.stale \in BOOLEAN /\ r = [key |-> r.key, got |-> r.got, stale |-> r.stale]
  <2> TAKE r \in reads'
  <2>1. CASE a.got = {}
    BY <1>4, <2>1 DEF Got
  <2>2. CASE a.got # {}
    BY <1>1, <1>3, <1>5, <2>2 DEF Got, TurnTypes
  <2> QED
    BY <2>1, <2>2
<1>7. \A r \in Got' : \E s \in Got : r.key = s.key /\ r.got = s.got
  BY <1>2, <1>6 DEF Got
<1>8. \A k \in Keys' : k \in Keys
  <2>1. ASSUME NEW r \in Got' PROVE r.key \in Keys
    BY <1>7, <2>1 DEF Keys
  <2> QED
    BY <1>2, <2>1 DEF Keys
<1>9. TurnTypes' /\ CountsApart' /\ KeysFit' /\ ReadsFit'
  BY <1>1, <1>2, <1>6, <1>7, <1>8, SameTurns DEF TurnTypes
<1>10. FreshReads'
  <2>1. \A k : Patches(k)' = Patches(k)
    BY <1>2, SameKeys
  <2>2. ASSUME ~unsettled, NEW r \in reads', r.key \notin missed', ~r.stale
        PROVE  r.got = Patches(r.key)
    <3>1. CASE a.got = {}
      <4>1. PICK s \in reads : /\ r.key = s.key /\ r.got = s.got
                              /\ r.stale = (s.stale \/ s.key = a.key)
        BY <1>4, <3>1
      <4>2. ~s.stale /\ s.key # a.key
        BY <2>2, <4>1
      <4>3. s.key \notin missed
        BY <1>2, <2>2, <3>1, <4>1, <4>2
      <4> QED
        BY <1>1, <2>2, <4>1, <4>2, <4>3 DEF FreshReads
    <3>2. CASE a.got # {}
      BY <1>1, <1>2, <1>3, <1>5, <2>2, <3>2 DEF FreshReads
    <3> QED
      BY <3>1, <3>2
  <2>3. ASSUME ~unsettled, NEW b \in answers', b.key \notin missed'
        PROVE  b.got = Patches(b.key)
    BY <1>1, <1>2, <2>3 DEF FreshReads
  <2> QED
    BY <1>2, <2>1, <2>2, <2>3 DEF FreshReads
<1> QED
  BY <1>9, <1>10 DEF TurnInv

LEMMA SettlesStep == ASSUME TurnInv, SessionSettles PROVE TurnInv'
<1> DEFINE anew == observed \cap ReadKeys
<1>1. TurnTypes
  BY DEF TurnInv
<1>2. /\ reads' = {[r EXCEPT !.stale = TRUE] : r \in reads} /\ unsettled' = FALSE
      /\ asked' = asked \cup anew /\ answers' = {a \in answers : a.key \notin anew}
      /\ missed' = (missed \cup {a.key : a \in answers}) \ anew
      /\ UNCHANGED <<turns, checkpoints, observed>>
  BY DEF SessionSettles
<1> HIDE DEF anew
<1>3. ASSUME NEW r \in reads'
      PROVE  \E s \in reads : /\ r.key = s.key /\ r.got = s.got /\ r.stale = TRUE
                              /\ r = [key |-> r.key, got |-> r.got, stale |-> r.stale]
  <2>1. PICK s \in reads : r = [s EXCEPT !.stale = TRUE]
    BY <1>2
  <2>2. s = [key |-> s.key, got |-> s.got, stale |-> s.stale]
    BY <1>1 DEF TurnTypes
  <2>3. r = [key |-> s.key, got |-> s.got, stale |-> TRUE]
    BY <2>1, <2>2
  <2> QED
    BY <2>3
<1>4. \A r \in Got' : \E s \in Got : r.key = s.key /\ r.got = s.got
  BY <1>2, <1>3 DEF Got
<1>5. \A k \in Keys' : k \in Keys
  <2>1. ASSUME NEW r \in Got' PROVE r.key \in Keys
    BY <1>4, <2>1 DEF Keys
  <2>2. anew \subseteq Keys
    BY DEF anew, Keys
  <2> QED
    BY <1>2, <2>1, <2>2 DEF Keys
<1>6. TurnTypes' /\ CountsApart' /\ KeysFit' /\ ReadsFit'
  <2>1. \A r \in reads' : r.stale \in BOOLEAN /\ r = [key |-> r.key, got |-> r.got, stale |-> r.stale]
    BY <1>3
  <2>2. unsettled' \in BOOLEAN
    BY <1>2
  <2> QED
    BY <1>2, <1>4, <1>5, <2>1, <2>2, SameTurns
<1>7. FreshReads'
  <2>1. \A r \in reads' : r.stale
    BY <1>3
  <2>2. \A a \in answers' : a.key \in missed'
    BY <1>2
  <2> QED
    BY <2>1, <2>2 DEF FreshReads
<1> QED
  BY <1>6, <1>7 DEF TurnInv

LEMMA CollectedStep == ASSUME TurnInv, Collected PROVE TurnInv'
<1>1. TurnTypes /\ FreshReads
  BY DEF TurnInv
<1>2. PICK r \in reads : /\ r.key \notin UnderWay
                        /\ reads' = {s \in reads : s.key # r.key} /\ missed' = missed \ {r.key}
  BY DEF Collected
<1>3. UNCHANGED <<turns, checkpoints, observed, asked, answers, unsettled>>
  BY DEF Collected
<1>4. \A s \in Got' : s \in Got
  BY <1>2, <1>3 DEF Got
<1>5. \A k \in Keys' : k \in Keys
  BY <1>3, <1>4 DEF Keys
<1>6. TurnTypes' /\ CountsApart' /\ KeysFit' /\ ReadsFit'
  BY <1>1, <1>2, <1>3, <1>4, <1>5, SameTurns DEF TurnTypes
<1>7. FreshReads'
  <2>1. \A k : Patches(k)' = Patches(k)
    BY <1>3, SameKeys
  <2>2. \A a \in answers : a.key # r.key
    BY <1>2 DEF UnderWay
  <2> QED
    BY <1>1, <1>2, <1>3, <2>1, <2>2 DEF FreshReads
<1> QED
  BY <1>6, <1>7 DEF TurnInv

LEMMA RenderedStep == ASSUME TurnInv, Rendered PROVE TurnInv'
<1>1. TurnTypes /\ FreshReads
  BY DEF TurnInv
<1>2. observed' = Query /\ UNCHANGED <<turns, checkpoints, reads, asked, answers, missed, unsettled>>
  BY DEF Rendered, readVars
<1>3. Got' = Got
  BY <1>2 DEF Got
<1>4. \A k \in Keys' : k \in Keys \/ (k.scope # <<>> => Revised(k))
  <2>1. ASSUME NEW k \in Keys' PROVE k \in Keys \/ k \in Query
    BY <1>2, <1>3, <2>1 DEF Keys
  <2> QED
    BY <2>1, QueryFits
<1>5. TurnTypes' /\ CountsApart' /\ KeysFit' /\ ReadsFit'
  BY <1>1, <1>2, <1>3, <1>4, SameTurns DEF TurnTypes
<1>6. FreshReads'
  <2>1. \A k : Patches(k)' = Patches(k)
    BY <1>2, SameKeys
  <2> QED
    BY <1>1, <1>2, <2>1 DEF FreshReads
<1> QED
  BY <1>5, <1>6 DEF TurnInv

LEMMA TurnBeginsStep == ASSUME TurnInv, TurnBegins PROVE TurnInv'
<1>1. TurnTypes /\ CountsApart /\ KeysFit /\ ReadsFit /\ FreshReads
  BY DEF TurnInv
<1>2. /\ turns.running = NoTurn /\ turns.begun \in Nat
      /\ turns' = [begun |-> turns.begun + 1, running |-> turns.begun + 1]
      /\ UNCHANGED <<messages, checkpoints, observed, reads, asked, answers, missed, unsettled>>
  BY <1>1 DEF TurnBegins, TurnTypes, readVars
<1>8. Got' = Got /\ Keys' = Keys
  BY <1>2 DEF Got, Keys
<1>3. /\ turns' \in [begun : Nat, running : Nat] /\ turns'.begun = turns.begun + 1
      /\ turns'.running = turns.begun + 1
  BY <1>2
<1>4. TurnTypes'
  <2>1. DOMAIN checkpoints \subseteq 1..turns'.begun
    BY <1>1, <1>2, <1>3 DEF TurnTypes
  <2> QED
    BY <1>1, <1>2, <1>3, <2>1 DEF TurnTypes
<1>5. CountsApart'
  <2>1. \A t \in DOMAIN checkpoints : t # turns'.running /\ t # turns.running
    BY <1>1, <1>2, <1>3 DEF TurnTypes, NoTurn
  <2> QED
    BY <1>1, <1>2, <2>1 DEF CountsApart
<1>6. KeysFit'
  <2>1. ASSUME NEW k, Revised(k) PROVE Revised(k)'
    <3>1. k.scope[1] \in 1..turns'.begun /\ k.scope[1] # turns'.running
      BY <1>2, <1>3, <2>1 DEF Revised
    <3> QED
      BY <1>2, <2>1, <3>1 DEF Revised, TurnQuery
  <2> QED
    BY <1>1, <1>8, <2>1 DEF KeysFit
<1>7. ReadsFit' /\ FreshReads'
  BY <1>1, <1>2, <1>8 DEF ReadsFit, FreshReads, TurnQuery, Patches
<1> QED
  BY <1>4, <1>5, <1>6, <1>7 DEF TurnInv

\* Going back takes checkpoints away: what a key of another turn is has not changed.
LEMMA GoesBackStep == ASSUME TurnInv, GoesBack PROVE TurnInv'
<1>1. TurnTypes /\ CountsApart /\ KeysFit /\ ReadsFit
  BY DEF TurnInv
<1>2. PICK kept \in SUBSET DOMAIN checkpoints : checkpoints' = [t \in kept |-> checkpoints[t]]
  BY DEF GoesBack
<1>3. /\ turns.running = NoTurn /\ unsettled' = TRUE
      /\ UNCHANGED <<turns, observed, reads, asked, answers>>
  BY DEF GoesBack, readVars
<1>10. Got' = Got /\ Keys' = Keys
  BY <1>3 DEF Got, Keys
<1>4. /\ DOMAIN checkpoints' = kept /\ kept \subseteq DOMAIN checkpoints
      /\ \A t \in kept : checkpoints'[t] = checkpoints[t]
  BY <1>2
<1>5. TurnTypes'
  BY <1>1, <1>3, <1>4 DEF TurnTypes
<1>6. CountsApart'
  BY <1>1, <1>3, <1>4 DEF CountsApart
<1>7. \A t \in kept : TurnQuery(t)' = TurnQuery(t)
  BY <1>4 DEF TurnQuery
<1>8. KeysFit'
  <2>1. ASSUME NEW k, Revised(k) PROVE Revised(k)'
    <3>1. k.scope[1] # turns.running
      BY <1>3, <2>1 DEF Revised, NoTurn
    <3> QED
      BY <1>3, <1>4, <1>7, <2>1, <3>1 DEF Revised
  <2> QED
    BY <1>1, <1>10, <2>1 DEF KeysFit
<1>9. ReadsFit'
  BY <1>1, <1>4, <1>7, <1>10 DEF ReadsFit
<1> QED
  BY <1>3, <1>5, <1>6, <1>8, <1>9 DEF TurnInv, FreshReads

LEMMA TurnDiffStep == ASSUME TurnInv, [TurnDiffNext]_turnDiffVars PROVE TurnInv'
<1>1. TurnTypes /\ CountsApart
  BY DEF TurnInv
<1>2. CASE \/ OpenOrSelect \/ SelectAll \/ ClosePanel \/ UserSays \/ Answers \/ UNCHANGED turnDiffVars
  <2>1. UNCHANGED <<turns, checkpoints, observed, reads, asked, answers, missed, unsettled>>
    BY <1>2 DEF OpenOrSelect, SelectAll, Choose, ClosePanel, UserSays, Answers, Say, turnDiffVars, readVars
  <2>2. Got' = Got /\ Keys' = Keys /\ \A k : Patches(k)' = Patches(k)
    BY <2>1, SameKeys DEF Got, Keys
  <2>3. TurnTypes' /\ CountsApart' /\ KeysFit' /\ ReadsFit'
    BY <1>1, <2>1, <2>2, SameTurns DEF TurnTypes
  <2>4. FreshReads'
    BY <2>1, <2>2 DEF TurnInv, FreshReads
  <2> QED
    BY <2>3, <2>4 DEF TurnInv
<1>4. CASE LivePatch
  <2>1. PICK revision \in 1..MaxRevision :
          /\ turns.running \in DOMAIN checkpoints => revision = checkpoints[turns.running].revision + 1
          /\ Summarise(turns.running, revision)
    BY <1>4 DEF LivePatch
  <2>2. turns.running # NoTurn /\ turns' = turns /\ revision \in Nat /\ revision # Final
    BY <1>4, TurnDiffAssumption DEF LivePatch, Final
  <2> QED
    BY <2>1, <2>2, SummariseStep
<1>5. CASE TurnCaptured
  BY <1>5, SummariseStep DEF TurnCaptured, Final
<1> QED
  BY <1>2, <1>4, <1>5, RenderedStep, FetchesStep, AnswersStep, FetchedStep, CollectedStep, SettlesStep,
     TurnBeginsStep, GoesBackStep DEF TurnDiffNext

-----------------------------------------------------------------------------
\* The turns answer one after another, and their checkpoints count as they do.
AnswersInOrder ==
    /\ messages \in Seq(Nat) /\ \A i \in DOMAIN messages : messages[i] <= turns.begun
    /\ \A i, j \in DOMAIN messages :
          i < j /\ ~FromUser(i) /\ ~FromUser(j) => messages[i] <= messages[j]
    /\ \A t, u \in DOMAIN checkpoints : t < u => checkpoints[t].count < checkpoints[u].count

\* The places of a set up to one of them.
UpTo(places, i) == {j \in places : j <= i}

\* The k-th of a bounded set of places is in it, with k - 1 before it.
LEMMA NthIs ==
    ASSUME NEW S \in SUBSET Nat, NEW n \in Nat, \A y \in S : y <= n, NEW k \in 1..Cardinality(S)
    PROVE  Nth(S, k) \in S /\ Cardinality(UpTo(S, Nth(S, k))) = k
<1> DEFINE T == {i \in S : k <= Cardinality(UpTo(S, i))}
<1>1. IsFiniteSet(S) /\ Cardinality(S) \in Nat
  BY FS_BoundedSetOfNaturals, FS_CardinalityType
<1>2. ASSUME NEW i PROVE IsFiniteSet(UpTo(S, i)) /\ Cardinality(UpTo(S, i)) \in Nat
  <2>1. UpTo(S, i) \in SUBSET S
    BY DEF UpTo
  <2> QED
    BY <1>1, <2>1, FS_Subset, FS_CardinalityType
<1>3. S # {}
  BY FS_EmptySet
<1>4. Max(S) \in S /\ \A y \in S : y <= Max(S)
  BY <1>3, GreatestNatural
<1>5. UpTo(S, Max(S)) = S
  BY <1>4 DEF UpTo
<1>6. T \in SUBSET Nat /\ T # {}
  <2>1. Max(S) \in T
    BY <1>1, <1>4, <1>5
  <2> QED
    BY <2>1
<1> HIDE DEF T
<1>7. PICK m \in T : \A y \in T : m <= y
  BY <1>6, LeastNatural
<1>8. m \in S /\ m \in Nat /\ k <= Cardinality(UpTo(S, m))
  BY <1>7 DEF T
<1>9. Cardinality(UpTo(S, m)) = k
  <2> SUFFICES ASSUME Cardinality(UpTo(S, m)) # k PROVE FALSE
    OBVIOUS
  <2> DEFINE R == UpTo(S, m) \ {m}
             c == Cardinality(UpTo(S, m))
  <2>1. c > k /\ c \in Nat
    BY <1>2, <1>8
  <2>2. m \in UpTo(S, m)
    BY <1>8 DEF UpTo
  <2>3. IsFiniteSet(R) /\ Cardinality(R) = c - 1
    BY <1>2, <2>2, FS_RemoveElement
  <2>4. R \subseteq S /\ \A y \in S : (y \in R <=> y < m)
    <3>1. \A y \in S : y \in Nat /\ (y <= m /\ y # m <=> y < m)
      BY <1>8
    <3>2. R \subseteq S /\ \A y \in S : (y \in R <=> y <= m /\ y # m)
      BY DEF UpTo
    <3> QED
      BY <3>1, <3>2
  <2> HIDE DEF R, c
  <2>5. Cardinality(R) >= k /\ Cardinality(R) # 0
    BY <2>1, <2>3
  <2>6. R # {}
    BY <2>5, FS_EmptySet
  <2>7. R \in SUBSET Nat /\ \A y \in R : y <= n /\ y < m /\ y \in S
    <3>1. \A y \in R : y \in S /\ y < m
      BY <2>4
    <3> QED
      BY <3>1
  <2>8. Max(R) \in R /\ \A y \in R : y <= Max(R)
    BY <2>6, <2>7, GreatestNatural
  <2>9. UpTo(S, Max(R)) = R
    <3>1. Max(R) \in Nat /\ Max(R) < m
      BY <2>7, <2>8
    <3>2. ASSUME NEW y \in S, y <= Max(R) PROVE y \in R
      <4>1. y \in Nat /\ y < m
        BY <1>8, <3>1, <3>2
      <4> QED
        BY <2>4, <4>1
    <3> QED
      BY <2>4, <2>8, <3>2 DEF UpTo
  <2>10. Max(R) \in S /\ Max(R) \in Nat /\ Max(R) < m
    BY <2>7, <2>8
  <2>11. Max(R) \in T
    BY <2>5, <2>9, <2>10 DEF T
  <2>12. m <= Max(R)
    BY <1>7, <2>11
  <2> QED
    BY <1>8, <2>10, <2>12
<1> QED
  BY <1>8, <1>9 DEF Nth, UpTo

LEMMA NthInOrder ==
    ASSUME NEW S \in SUBSET Nat, NEW n \in Nat, \A y \in S : y <= n,
           NEW k \in 1..Cardinality(S), NEW l \in 1..Cardinality(S), k < l
    PROVE  Nth(S, k) < Nth(S, l)
<1> DEFINE p == Nth(S, k)
           q == Nth(S, l)
<1>1. p \in S /\ Cardinality(UpTo(S, p)) = k
  BY NthIs
<1>2. q \in S /\ Cardinality(UpTo(S, q)) = l
  BY NthIs
<1> HIDE DEF p, q
<1>3. ASSUME q <= p PROVE FALSE
  <2>1. IsFiniteSet(S) /\ UpTo(S, p) \in SUBSET S
    BY FS_BoundedSetOfNaturals DEF UpTo
  <2>2. IsFiniteSet(UpTo(S, p))
    BY <2>1, FS_Subset
  <2>3. UpTo(S, q) \in SUBSET UpTo(S, p)
    <3>1. p \in Nat /\ q \in Nat
      BY <1>1, <1>2
    <3>2. \A y \in S : y <= q => y <= p
      BY <1>3, <3>1
    <3> QED
      BY <3>2 DEF UpTo
  <2>4. Cardinality(UpTo(S, q)) <= Cardinality(UpTo(S, p))
    BY <2>2, <2>3, FS_Subset
  <2> QED
    BY <1>1, <1>2, <2>4
<1>4. p \in Nat /\ q \in Nat /\ ~(q <= p)
  BY <1>1, <1>2, <1>3
<1> QED
  BY <1>4 DEF p, q

\* The messages that stay are in their order.
LEMMA RetainedInOrder ==
    ASSUME AnswersInOrder, NEW kept, NEW n
    PROVE  LET after == Retained(kept, n)
           IN  /\ after \in Seq(Nat)
               /\ \A i \in DOMAIN after : after[i] <= turns.begun
               /\ \A i, j \in DOMAIN after :
                     i < j /\ after[i] # User /\ after[j] # User => after[i] <= after[j]
<1> DEFINE S == {i \in DOMAIN messages : Kept(i, kept, n)}
           after == Retained(kept, n)
<1>1. messages \in Seq(Nat) /\ Len(messages) \in Nat /\ DOMAIN messages = 1..Len(messages)
  BY DEF AnswersInOrder
<1>2. S \in SUBSET Nat /\ (\A y \in S : y <= Len(messages)) /\ S \subseteq DOMAIN messages
  BY <1>1
<1>3. after = [k \in 1..Cardinality(S) |-> messages[Nth(S, k)]]
  BY DEF Retained
<1> HIDE DEF S, after
<1>4. Cardinality(S) \in Nat
  BY <1>1, <1>2, FS_BoundedSetOfNaturals, FS_CardinalityType
<1>5. \A k \in 1..Cardinality(S) : Nth(S, k) \in S
  BY <1>1, <1>2, NthIs
<1>6. \A k, l \in 1..Cardinality(S) : k < l => Nth(S, k) < Nth(S, l)
  BY <1>1, <1>2, NthInOrder
<1>7. DOMAIN after = 1..Cardinality(S) /\ \A k \in DOMAIN after : after[k] = messages[Nth(S, k)]
  BY <1>3
<1>8. ASSUME NEW k \in DOMAIN after PROVE after[k] \in Nat /\ after[k] <= turns.begun
  <2>1. after[k] = messages[Nth(S, k)] /\ Nth(S, k) \in DOMAIN messages
    BY <1>2, <1>5, <1>7
  <2> QED
    BY <1>1, <2>1 DEF AnswersInOrder
<1>9. after \in Seq(Nat)
  <2>1. after \in [1..Cardinality(S) -> Nat]
    BY <1>3, <1>7, <1>8
  <2> QED
    BY <1>4, <2>1
<1>10. ASSUME NEW i \in DOMAIN after, NEW j \in DOMAIN after, i < j, after[i] # User, after[j] # User
       PROVE  after[i] <= after[j]
  <2>1. /\ Nth(S, i) \in DOMAIN messages /\ Nth(S, j) \in DOMAIN messages /\ Nth(S, i) < Nth(S, j)
        /\ ~FromUser(Nth(S, i)) /\ ~FromUser(Nth(S, j))
    BY <1>2, <1>5, <1>6, <1>7, <1>10 DEF FromUser
  <2> QED
    BY <1>7, <2>1 DEF AnswersInOrder
<1> QED
  BY <1>8, <1>9, <1>10 DEF after

\* A checkpoint that is new counts more than the others.
LEMMA NewestCount ==
    ASSUME TurnInv, AnswersInOrder, turns.running # NoTurn
    PROVE  \A u \in DOMAIN checkpoints :
              u # turns.running => u < turns.running /\ checkpoints[u].count < CountOf(turns.running)
<1> DEFINE t == turns.running
           S == Counts(checkpoints) \cup {0}
<1>1. TurnTypes
  BY DEF TurnInv
<1>2. t = turns.begun /\ t \in Nat \ {0} /\ DOMAIN checkpoints \subseteq 1..t
  BY <1>1 DEF TurnTypes, NoTurn
<1>3. \A u \in DOMAIN checkpoints : u # t => u < t
  BY <1>2
<1>4. CASE t \in DOMAIN checkpoints
  BY <1>2, <1>3, <1>4 DEF CountOf, AnswersInOrder
<1>5. CASE t \notin DOMAIN checkpoints
  <2>1. \A c \in S : c \in Nat /\ c <= t
    <3> TAKE c \in S
    <3>1. CASE c = 0
      BY <1>2, <3>1
    <3>2. ASSUME NEW u \in DOMAIN checkpoints, c = checkpoints[u].count PROVE c \in Nat /\ c <= t
      BY <1>1, <1>2, <3>2 DEF TurnTypes
    <3> QED
      BY <3>1, <3>2 DEF Counts
  <2>2. S \in SUBSET Nat /\ S # {} /\ \A y \in S : y <= t
    BY <2>1
  <2>3. \A u \in DOMAIN checkpoints : checkpoints[u].count \in S
    BY DEF Counts
  <2>4. CountOf(t) = Max(S) + 1
    BY <1>5 DEF CountOf, LatestCount
  <2> HIDE DEF S
  <2>5. Max(S) \in S /\ \A y \in S : y <= Max(S)
    BY <1>2, <2>2, GreatestNatural
  <2>6. ASSUME NEW u \in DOMAIN checkpoints PROVE checkpoints[u].count < CountOf(t)
    <3>1. checkpoints[u].count \in Nat /\ Max(S) \in Nat /\ checkpoints[u].count <= Max(S)
      BY <2>2, <2>3, <2>5
    <3> QED
      BY <2>4, <3>1
  <2> QED
    BY <1>3, <2>6
<1> QED
  BY <1>4, <1>5

LEMMA OrderStep ==
    ASSUME TurnInv, AnswersInOrder, [TurnDiffNext]_turnDiffVars
    PROVE  AnswersInOrder'
<1>1. /\ TurnTypes /\ turns.begun \in Nat /\ turns.running \in {NoTurn, turns.begun}
      /\ turns.running \in Nat
  BY DEF TurnInv, TurnTypes
<1>2. CASE UNCHANGED <<messages, checkpoints>> /\ turns'.begun \in Nat /\ turns.begun <= turns'.begun
  <2>1. \A i \in DOMAIN messages : messages[i] \in Nat /\ messages[i] <= turns'.begun
    BY <1>1, <1>2 DEF AnswersInOrder
  <2> QED
    BY <1>2, <2>1 DEF AnswersInOrder, FromUser
<1>3. ASSUME NEW who \in {User, turns.running}, Say(who)
      PROVE  AnswersInOrder'
  <2> DEFINE n == Len(messages) + 1
  <2>1. who \in Nat /\ who <= turns.begun /\ (who # User => who = turns.begun)
    BY <1>1 DEF User, NoTurn
  <2>2. /\ messages \in Seq(Nat) /\ messages' = Append(messages, who)
        /\ UNCHANGED <<turns, checkpoints>>
    BY <1>3 DEF Say, AnswersInOrder
  <2>3. /\ messages' \in Seq(Nat) /\ DOMAIN messages' = 1..n /\ messages'[n] = who /\ n \in Nat
        /\ DOMAIN messages = 1..Len(messages)
        /\ \A i \in DOMAIN messages : messages'[i] = messages[i] /\ i < n
        /\ \A i \in DOMAIN messages' : i \in DOMAIN messages \/ i = n
    BY <2>1, <2>2
  <2>4. \A i \in DOMAIN messages' : messages'[i] <= turns.begun
    BY <2>1, <2>3 DEF AnswersInOrder
  <2>5. ASSUME NEW i \in DOMAIN messages', NEW j \in DOMAIN messages', i < j,
               messages'[i] # User, messages'[j] # User
        PROVE  messages'[i] <= messages'[j]
    <3>1. i \in DOMAIN messages /\ messages'[i] = messages[i]
      BY <2>3, <2>5
    <3>2. CASE j = n
      BY <2>1, <2>3, <2>4, <2>5, <3>2
    <3>3. CASE j \in DOMAIN messages
      BY <2>3, <2>5, <3>1, <3>3 DEF AnswersInOrder, FromUser
    <3> QED
      BY <2>3, <3>2, <3>3
  <2> QED
    BY <2>2, <2>3, <2>4, <2>5 DEF AnswersInOrder, FromUser
<1>4. ASSUME NEW revision, turns.running # NoTurn, Summarise(turns.running, revision),
             turns'.begun = turns.begun
      PROVE  AnswersInOrder'
  <2> DEFINE t == turns.running
  <2>1. /\ DOMAIN checkpoints' = DOMAIN checkpoints \cup {t}
        /\ checkpoints'[t].count = CountOf(t)
        /\ \A u \in DOMAIN checkpoints : u # t => checkpoints'[u] = checkpoints[u]
        /\ UNCHANGED messages
    BY <1>4 DEF Summarise
  <2>2. \A u \in DOMAIN checkpoints : u \in Nat /\ (u # t => u < t /\ checkpoints[u].count < CountOf(t))
    BY <1>1, <1>4, NewestCount DEF TurnTypes
  <2>3. ASSUME NEW u \in DOMAIN checkpoints', NEW v \in DOMAIN checkpoints', u < v
        PROVE  checkpoints'[u].count < checkpoints'[v].count
    <3>1. u # t /\ u \in DOMAIN checkpoints
      BY <1>1, <2>1, <2>2, <2>3
    <3>2. CASE v = t
      BY <2>1, <2>2, <3>1, <3>2
    <3>3. CASE v # t
      BY <2>1, <2>3, <3>1, <3>3 DEF AnswersInOrder
    <3> QED
      BY <3>2, <3>3
  <2> QED
    BY <1>4, <2>1, <2>3 DEF AnswersInOrder, FromUser
<1>5. CASE GoesBack
  <2>1. PICK kept \in SUBSET DOMAIN checkpoints, n \in {RevertTurnCount(i) : i \in Revertible} :
          checkpoints' = [t \in kept |-> checkpoints[t]] /\ messages' = Retained(kept, n)
    BY <1>5 DEF GoesBack
  <2>2. turns' = turns
    BY <1>5 DEF GoesBack
  <2>3. /\ messages' \in Seq(Nat) /\ \A i \in DOMAIN messages' : messages'[i] <= turns.begun
        /\ \A i, j \in DOMAIN messages' :
              i < j /\ messages'[i] # User /\ messages'[j] # User => messages'[i] <= messages'[j]
    BY <2>1, RetainedInOrder
  <2>4. DOMAIN checkpoints' \subseteq DOMAIN checkpoints
        /\ \A t \in DOMAIN checkpoints' : checkpoints'[t] = checkpoints[t]
    BY <2>1
  <2> QED
    BY <2>2, <2>3, <2>4 DEF AnswersInOrder, FromUser
<1>6. CASE LivePatch \/ TurnCaptured
  <2>1. turns'.begun = turns.begun
    BY <1>1, <1>6 DEF LivePatch, TurnCaptured, TurnTypes
  <2>2. turns.running # NoTurn /\ \E revision : Summarise(turns.running, revision)
    BY <1>6 DEF LivePatch, TurnCaptured
  <2> QED
    BY <1>4, <2>1, <2>2
<1>7. CASE UserSays \/ Answers
  BY <1>3, <1>7 DEF UserSays, Answers
<1>8. CASE TurnBegins
  <2>1. UNCHANGED <<messages, checkpoints>> /\ turns'.begun = turns.begun + 1
    BY <1>8 DEF TurnBegins
  <2> QED
    BY <1>1, <1>2, <2>1
<1>9. CASE \/ OpenOrSelect \/ SelectAll \/ ClosePanel \/ Rendered \/ Fetches \/ Collected
           \/ SessionSettles \/ (\E q \in asked : BackendAnswers(q))
           \/ (\E a \in answers : Fetched(a)) \/ UNCHANGED turnDiffVars
  <2>1. UNCHANGED <<messages, checkpoints, turns>>
    BY <1>9 DEF OpenOrSelect, SelectAll, Choose, ClosePanel, Rendered, Fetches, Collected, SessionSettles,
       BackendAnswers, Fetched, turnDiffVars
  <2> QED
    BY <1>1, <1>2, <2>1
<1> QED
  BY <1>5, <1>6, <1>7, <1>8, <1>9 DEF TurnDiffNext

\* A turn's row is the last place of the response its last answer is in.
LEMMA RowIs ==
    ASSUME TurnTypes, AnswersInOrder, NEW t \in DOMAIN checkpoints, AnswersOf(t) # {}
    PROVE  LET a == Max(AnswersOf(t))
               r == RowOf(t)
           IN  /\ a \in DOMAIN messages /\ messages[a] = t /\ ~FromUser(a)
               /\ \A y \in AnswersOf(t) : y <= a
               /\ r \in DOMAIN messages /\ a <= r /\ SameResponse(a, r)
               /\ \A j \in DOMAIN messages : j >= a /\ SameResponse(a, j) => j <= r
<1> DEFINE a == Max(AnswersOf(t))
           R == {j \in DOMAIN messages : j >= a /\ SameResponse(a, j)}
<1>1. messages \in Seq(Nat) /\ Len(messages) \in Nat /\ DOMAIN messages = 1..Len(messages)
  BY DEF AnswersInOrder
<1>2. AnswersOf(t) \in SUBSET Nat /\ \A y \in AnswersOf(t) : y <= Len(messages)
  BY <1>1 DEF AnswersOf
<1>3. a \in AnswersOf(t) /\ \A y \in AnswersOf(t) : y <= a
  BY <1>1, <1>2, GreatestNatural
<1> HIDE DEF a
<1>4. a \in DOMAIN messages /\ messages[a] = t /\ a \in Nat
  BY <1>1, <1>3 DEF AnswersOf
<1>5. ~FromUser(a)
  BY <1>4 DEF FromUser, TurnTypes, User, NoTurn
<1>6. a \in R
  <2>1. SameResponse(a, a)
    BY <1>4 DEF SameResponse
  <2> QED
    BY <1>4, <2>1
<1>7. R \in SUBSET Nat /\ \A y \in R : y <= Len(messages)
  BY <1>1
<1>8. RowOf(t) = Max(R)
  BY DEF RowOf, a
<1>9. Max(R) \in R /\ \A y \in R : y <= Max(R)
  <2> HIDE DEF R
  <2> QED
    BY <1>1, <1>6, <1>7, GreatestNatural
<1>10. /\ RowOf(t) \in DOMAIN messages /\ RowOf(t) >= a /\ SameResponse(a, RowOf(t))
       /\ \A j \in DOMAIN messages : j >= a /\ SameResponse(a, j) => j <= RowOf(t)
  BY <1>8, <1>9
<1>11. a <= RowOf(t)
  BY <1>1, <1>4, <1>10
<1> QED
  BY <1>3, <1>4, <1>5, <1>10, <1>11 DEF a

\* A row of one turn carries that turn's number.
LEMMA OneInRow ==
    ASSUME TurnTypes, NEW u \in DOMAIN checkpoints
    PROVE  MergedCount({u}) = checkpoints[u].count
<1> DEFINE captured == {t \in {u} : checkpoints[t].revision = Final}
           row == IF captured = {} THEN {u} ELSE captured
<1>1. row = {u}
  OBVIOUS
<1> HIDE DEF row
<1>2. {checkpoints[t].count : t \in row} = {checkpoints[u].count}
  BY <1>1
<1>3. checkpoints[u].count \in Nat
  BY DEF TurnTypes
<1>4. Max({checkpoints[u].count}) = checkpoints[u].count
  BY <1>3, GreatestNatural
<1> QED
  BY <1>2, <1>4 DEF MergedCount, row

LEMMA RevertExact ==
    ASSUME TurnInv, AnswersInOrder
    PROVE  RevertUndoesAnswers
<1> SUFFICES ASSUME NEW i \in Revertible, Cardinality(SummarisedAt(Min(RevertRows(i)))) = 1,
                    NEW t \in DOMAIN checkpoints, AnswersOf(t) # {}
             PROVE  /\ Min(AnswersOf(t)) > i => checkpoints[t].count > RevertTurnCount(i)
                    /\ RowOf(t) < i => checkpoints[t].count <= RevertTurnCount(i)
  BY DEF RevertUndoesAnswers
<1> DEFINE r == Min(RevertRows(i))
<1>1. TurnTypes /\ CountsApart
  BY DEF TurnInv
<1>2. messages \in Seq(Nat) /\ Len(messages) \in Nat /\ DOMAIN messages = 1..Len(messages)
  BY DEF AnswersInOrder
<1>3. i \in DOMAIN messages /\ FromUser(i) /\ RevertRows(i) # {} /\ i \in Nat
  BY <1>2 DEF Revertible
<1>4. r \in RevertRows(i)
  <2>1. RevertRows(i) \in SUBSET Nat
    BY <1>2 DEF RevertRows
  <2> QED
    BY <1>3, <2>1, LeastIsMin
<1> HIDE DEF r
<1>5. r \in DOMAIN messages /\ r > i /\ SameResponse(i, r)
  BY <1>4 DEF RevertRows
<1>6. IsFiniteSet(SummarisedAt(r))
  <2>1. IsFiniteSet(1..turns.begun)
    <3>1. turns.begun \in Int /\ 1 \in Int
      BY <1>1 DEF TurnTypes
    <3> QED
      BY <3>1, FS_Interval
  <2>2. SummarisedAt(r) \in SUBSET (1..turns.begun)
    BY <1>1 DEF SummarisedAt, TurnTypes
  <2> QED
    BY <2>1, <2>2, FS_Subset
<1>7. PICK u : SummarisedAt(r) = {u}
  BY <1>6, FS_Singleton DEF r
<1>8. u \in DOMAIN checkpoints /\ AnswersOf(u) # {} /\ RowOf(u) = r
  BY <1>7 DEF SummarisedAt
<1>9. RevertTurnCount(i) = checkpoints[u].count - 1
  BY <1>1, <1>7, <1>8, OneInRow DEF RevertTurnCount, r
<1>10. t \in Nat /\ u \in Nat /\ checkpoints[t].count \in Nat /\ checkpoints[u].count \in Nat
  BY <1>1, <1>8 DEF TurnTypes
<1> DEFINE a == Max(AnswersOf(t))
           b == Max(AnswersOf(u))
           s == RowOf(t)
<1>11. /\ a \in DOMAIN messages /\ messages[a] = t /\ ~FromUser(a)
       /\ \A y \in AnswersOf(t) : y <= a
       /\ s \in DOMAIN messages /\ a <= s /\ SameResponse(a, s)
       /\ \A j \in DOMAIN messages : j >= a /\ SameResponse(a, j) => j <= s
  BY <1>1, RowIs
<1>12. /\ b \in DOMAIN messages /\ messages[b] = u /\ ~FromUser(b)
       /\ b <= r /\ SameResponse(b, r)
       /\ \A j \in DOMAIN messages : j >= b /\ SameResponse(b, j) => j <= r
  BY <1>1, <1>8, RowIs
<1> HIDE DEF a, b, s
<1>13. a \in Nat /\ b \in Nat /\ s \in Nat /\ r \in Nat
  BY <1>2, <1>5, <1>11, <1>12
<1>14. b > i
  <2> SUFFICES ASSUME b <= i PROVE FALSE
    BY <1>3, <1>13
  <2>1. b # i
    BY <1>3, <1>12
  <2>2. i \in (b + 1)..r
    BY <1>3, <1>5, <1>13, <2>1
  <2> QED
    BY <1>3, <1>12, <2>2 DEF SameResponse
<1>15. ASSUME a < b PROVE t <= u
  BY <1>11, <1>12, <1>15 DEF AnswersInOrder
<1>16. ASSUME b < a PROVE u <= t
  BY <1>11, <1>12, <1>16 DEF AnswersInOrder
<1>17. ASSUME Min(AnswersOf(t)) > i PROVE checkpoints[t].count > RevertTurnCount(i)
  <2>1. a > i
    <3>1. AnswersOf(t) \in SUBSET Nat
      BY <1>2 DEF AnswersOf
    <3>2. Min(AnswersOf(t)) \in AnswersOf(t)
      BY <3>1, LeastIsMin
    <3>3. Min(AnswersOf(t)) <= a /\ Min(AnswersOf(t)) \in Nat
      BY <1>11, <3>1, <3>2
    <3> QED
      BY <1>3, <1>13, <1>17, <3>3
  <2>2. CASE t = u
    BY <1>9, <1>10, <2>2
  <2>3. CASE u < t
    BY <1>8, <1>9, <1>10, <2>3 DEF AnswersInOrder
  <2>4. CASE t < u
    <3>1. a < b
      BY <1>10, <1>11, <1>12, <1>13, <1>16, <2>4
    <3>2. SameResponse(a, r)
      BY <1>3, <1>5, <1>13, <2>1 DEF SameResponse
    <3>3. r <= s
      BY <1>5, <1>11, <1>12, <1>13, <3>1, <3>2
    <3>4. SameResponse(b, s)
      BY <1>11, <1>13, <3>1 DEF SameResponse
    <3>5. s <= r
      BY <1>11, <1>12, <1>13, <3>3, <3>4
    <3>6. t \in SummarisedAt(r)
      BY <1>13, <3>3, <3>5 DEF SummarisedAt, s
    <3> QED
      BY <1>7, <1>10, <2>4, <3>6
  <2> QED
    BY <1>10, <2>2, <2>3, <2>4
<1>18. ASSUME s < i PROVE checkpoints[t].count <= RevertTurnCount(i)
  <2>1. a < b
    BY <1>3, <1>11, <1>13, <1>14, <1>18
  <2>2. t # u
    <3>1. t = u => a = b
      BY DEF a, b
    <3> QED
      BY <1>13, <2>1, <3>1
  <2>3. t < u
    BY <1>10, <1>15, <2>1, <2>2
  <2>4. checkpoints[t].count < checkpoints[u].count
    BY <1>8, <2>3 DEF AnswersInOrder
  <2> QED
    BY <1>9, <1>10, <2>4
<1> QED
  BY <1>17, <1>18 DEF s

\* In every reachable state the patch drawn for a selected turn is that turn's
\* and its latest revision's; once a session settled, a fresh patch is what the
\* backend has, unless its answer was made before and taken after it for a query
\* the invalidation does not read again; and going back to a message undoes what
\* answered it and nothing before (TurnDiffPanel.tsx, threadStream.ts flush,
\* ChatController.tsx revertTurnCountByUserMessageId).
THEOREM TurnDiffAlwaysHonest == TurnDiffSpec => []TurnDiffHonest
<1>1. TurnDiffInit => TurnInv /\ AnswersInOrder
  <2> SUFFICES ASSUME TurnDiffInit PROVE TurnInv /\ AnswersInOrder
    OBVIOUS
  <2>1. DOMAIN checkpoints = {} /\ messages = <<>>
    BY DEF TurnDiffInit
  <2>2. turns \in [begun : Nat, running : Nat] /\ turns.running = NoTurn /\ turns.begun = 0
    BY DEF TurnDiffInit, NoTurn
  <2>3. unsettled \in BOOLEAN
    BY DEF TurnDiffInit
  <2>4. TurnInv
    <3>1. Got = {} /\ Keys = {}
      BY DEF TurnDiffInit, Got, Keys
    <3> QED
      BY <2>1, <2>2, <2>3, <3>1
         DEF TurnDiffInit, TurnInv, TurnTypes, CountsApart, KeysFit, ReadsFit, FreshReads
  <2>5. messages \in Seq(Nat) /\ DOMAIN messages = {}
    BY <2>1
  <2> QED
    BY <2>1, <2>4, <2>5 DEF AnswersInOrder
<1>2. TurnInv /\ AnswersInOrder /\ [TurnDiffNext]_turnDiffVars => TurnInv' /\ AnswersInOrder'
  BY TurnDiffStep, OrderStep
<1>3. TurnInv /\ AnswersInOrder => TurnDiffHonest
  <2>1. TurnInv => TurnDrawnItsOwn /\ FreshOnceSettled
    BY DEF TurnInv, ReadsFit, FreshReads, TurnDrawnItsOwn, SelectedTurn, FreshOnceSettled, Got
  <2> QED
    BY <2>1, RevertExact DEF TurnDiffHonest
<1> QED
  BY <1>1, <1>2, <1>3, PTL DEF TurnDiffSpec

-----------------------------------------------------------------------------
(* DiffPage: what the parser makes of the patch git prints.                 *)

IsSeq(s) == \E S : s \in Seq(S)

\* A sequence, of whatever elements, is on the numbers up to its length.
LEMMA SeqFacts ==
    ASSUME NEW s, IsSeq(s)
    PROVE  Len(s) \in Nat /\ DOMAIN s = 1..Len(s) /\ (Len(s) = 0 <=> s = <<>>)
BY DEF IsSeq

\* Of the empty one.
LEMMA EmptyFacts == IsSeq(<<>>) /\ Len(<<>>) = 0 /\ DOMAIN <<>> = {}
BY DEF IsSeq

\* One sequence after another.
LEMMA JoinFacts ==
    ASSUME NEW s, NEW t, IsSeq(s), IsSeq(t)
    PROVE  /\ IsSeq(s \o t) /\ Len(s \o t) = Len(s) + Len(t)
           /\ \A i \in 1..Len(s) : (s \o t)[i] = s[i]
           /\ \A i \in 1..Len(t) : (s \o t)[Len(s) + i] = t[i]
<1>1. PICK S, T : s \in Seq(S) /\ t \in Seq(T)
  BY DEF IsSeq
<1>2. s \in Seq(S \cup T) /\ t \in Seq(S \cup T)
  BY <1>1
<1>3. s \o t \in Seq(S \cup T)
  BY <1>2
<1> QED
  BY <1>2, <1>3 DEF IsSeq

\* A sequence and one more element.
LEMMA AppendFacts ==
    ASSUME NEW s, IsSeq(s), NEW e
    PROVE  /\ IsSeq(Append(s, e)) /\ Len(Append(s, e)) = Len(s) + 1
           /\ Append(s, e)[Len(s) + 1] = e
           /\ \A i \in 1..Len(s) : Append(s, e)[i] = s[i]
           /\ Append(s, e) # <<>>
<1>1. PICK S : s \in Seq(S)
  BY DEF IsSeq
<1>2. s \in Seq(S \cup {e}) /\ e \in S \cup {e}
  BY <1>1
<1>3. Append(s, e) \in Seq(S \cup {e})
  BY <1>2
<1>4. /\ Len(Append(s, e)) = Len(s) + 1 /\ Append(s, e)[Len(s) + 1] = e
      /\ \A i \in 1..Len(s) : Append(s, e)[i] = s[i]
  BY <1>2
<1>5. Append(s, e) # <<>>
  <2>1. Len(Append(s, e)) # 0 /\ Len(<<>>) = 0
    BY <1>2, <1>4
  <2> QED
    BY <2>1
<1> QED
  BY <1>3, <1>4, <1>5 DEF IsSeq

\* The last element is another one.
LEMMA LastSet ==
    ASSUME NEW s, IsSeq(s), NEW e, NEW x
    PROVE  [Append(s, e) EXCEPT ![Len(s) + 1] = x] = Append(s, x)
<1> DEFINE a == Append(s, e)
           b == Append(s, x)
<1>1. /\ IsSeq(a) /\ Len(a) = Len(s) + 1 /\ \A i \in 1..Len(s) : a[i] = s[i]
      /\ IsSeq(b) /\ Len(b) = Len(s) + 1 /\ \A i \in 1..Len(s) : b[i] = s[i]
      /\ b[Len(s) + 1] = x
  BY AppendFacts
<1> HIDE DEF a, b
<1>2. /\ DOMAIN a = 1..(Len(s) + 1) /\ DOMAIN b = 1..(Len(s) + 1) /\ Len(s) \in Nat
  BY <1>1, SeqFacts
<1>3. b = [i \in 1..(Len(s) + 1) |-> b[i]] /\ a = [i \in 1..(Len(s) + 1) |-> a[i]]
  BY <1>1, <1>2 DEF IsSeq
<1>4. [a EXCEPT ![Len(s) + 1] = x] = [i \in 1..(Len(s) + 1) |-> IF i = Len(s) + 1 THEN x ELSE a[i]]
  BY <1>2, <1>3
<1>5. \A i \in 1..(Len(s) + 1) : b[i] = IF i = Len(s) + 1 THEN x ELSE a[i]
  <2> SUFFICES ASSUME NEW i \in 1..(Len(s) + 1) PROVE b[i] = IF i = Len(s) + 1 THEN x ELSE a[i]
    OBVIOUS
  <2>1. i = Len(s) + 1 \/ i \in 1..Len(s)
    BY <1>2
  <2> QED
    BY <1>1, <2>1
<1>6. [a EXCEPT ![Len(s) + 1] = x] = b
  BY <1>3, <1>4, <1>5
<1> QED
  BY <1>6 DEF a, b

-----------------------------------------------------------------------------
(* A sequence of sequences, one after the other.                            *)

Joined(f, ss, k) == f = [i \in 1..k |-> IF i = 1 THEN ss[i] ELSE f[i - 1] \o ss[i]]

\* There are such sequences, however many are put together.
LEMMA JoinedExists ==
    ASSUME NEW ss, NEW n \in Nat
    PROVE  \E f : Joined(f, ss, n)
<1> DEFINE S == {k \in Nat : \E f : Joined(f, ss, k)}
<1>1. 0 \in S
  <2>1. Joined([i \in 1..0 |-> ss], ss, 0)
    BY DEF Joined
  <2> QED
    BY <2>1
<1>2. ASSUME NEW k \in 0..(n - 1), k \in S PROVE k + 1 \in S
  <2>1. PICK f : Joined(f, ss, k)
    BY <1>2
  <2> DEFINE g == [m \in 1..(k + 1) |->
                      IF m = k + 1 THEN (IF k = 0 THEN ss[m] ELSE f[k] \o ss[m]) ELSE f[m]]
  <2>2. \A m \in 1..k : g[m] = f[m]
    OBVIOUS
  <2>3. \A m \in 1..(k + 1) : g[m] = IF m = 1 THEN ss[m] ELSE g[m - 1] \o ss[m]
    <3> SUFFICES ASSUME NEW m \in 1..(k + 1)
                 PROVE  g[m] = IF m = 1 THEN ss[m] ELSE g[m - 1] \o ss[m]
      OBVIOUS
    <3>1. CASE m = k + 1
      <4>1. CASE k = 0
        BY <3>1, <4>1
      <4>2. CASE k # 0
        <5>1. m - 1 = k /\ g[m - 1] = f[k] /\ m # 1
          BY <2>2, <3>1, <4>2
        <5> QED
          BY <3>1, <4>2, <5>1
      <4> QED
        BY <4>1, <4>2
    <3>2. CASE m # k + 1
      <4>1. m \in 1..k /\ (m # 1 => m - 1 \in 1..k)
        BY <3>2
      <4>2. f[m] = IF m = 1 THEN ss[m] ELSE f[m - 1] \o ss[m]
        BY <2>1, <4>1 DEF Joined
      <4> HIDE DEF g
      <4> QED
        BY <2>2, <4>1, <4>2
    <3> QED
      BY <3>1, <3>2
  <2>4. Joined(g, ss, k + 1)
    <3> HIDE DEF g
    <3>1. g = [m \in 1..(k + 1) |-> g[m]]
      BY DEF g
    <3> QED
      BY <2>3, <3>1, Zenon DEF Joined
  <2> QED
    BY <2>4
<1> HIDE DEF S
<1>3. \A k \in 0..n : k \in S
  BY <1>1, <1>2, CountingUp
<1>4. n \in S
  BY <1>3
<1> QED
  BY <1>4 DEF S

\* FlattenSeq, a sequence at a time.
LEMMA FlattenSteps ==
    ASSUME NEW ss, IsSeq(ss), \A i \in 1..Len(ss) : IsSeq(ss[i])
    PROVE  \E g : /\ g[0] = <<>> /\ FlattenSeq(ss) = g[Len(ss)]
                  /\ \A i \in 0..Len(ss) : IsSeq(g[i])
                  /\ \A i \in 1..Len(ss) : g[i] = g[i - 1] \o ss[i]
<1> DEFINE L == Len(ss)
           f == CHOOSE h : Joined(h, ss, L)
           g == [i \in 0..L |-> IF i = 0 THEN <<>> ELSE f[i]]
<1>1. L \in Nat /\ (L = 0 => ss = <<>>)
  BY SeqFacts
<1>2. FlattenSeq(ss) = IF L = 0 THEN ss ELSE f[L]
  BY Zenon DEF FlattenSeq, Joined
<1> HIDE DEF L
<1>3. Joined(f, ss, L)
  BY <1>1, JoinedExists
<1> HIDE DEF f
<1>4. f = [i \in 1..L |-> IF i = 1 THEN ss[i] ELSE f[i - 1] \o ss[i]]
  BY <1>3 DEF Joined
<1>5. ASSUME NEW i \in 1..L PROVE f[i] = IF i = 1 THEN ss[i] ELSE f[i - 1] \o ss[i]
  BY <1>4, Zenon
<1>6. g[0] = <<>> /\ FlattenSeq(ss) = g[L]
  <2>1. 0 \in 0..L /\ L \in 0..L
    BY <1>1
  <2> QED
    BY <1>1, <1>2, <2>1
<1>7. \A i \in 1..L : IsSeq(ss[i])
  BY DEF L
<1>8. ASSUME NEW i \in 1..L PROVE g[i] = g[i - 1] \o ss[i]
  <2>1. i \in 0..L /\ i - 1 \in 0..L /\ i # 0
    BY <1>1
  <2>2. CASE i = 1
    <3>1. g[i - 1] = <<>> /\ g[i] = ss[i]
      BY <1>5, <2>1, <2>2
    <3>2. <<>> \o ss[i] = ss[i]
      BY <1>7, ConcatEmptySeq DEF IsSeq
    <3> QED
      BY <3>1, <3>2
  <2>3. CASE i # 1
    <3>1. i - 1 # 0
      BY <2>3
    <3>2. g[i - 1] = f[i - 1] /\ g[i] = f[i]
      BY <2>1, <3>1
    <3> QED
      BY <1>5, <2>3, <3>2
  <2> QED
    BY <2>2, <2>3
<1> HIDE DEF g
<1>9. \A i \in 0..L : IsSeq(g[i])
  <2> DEFINE S == {i \in 0..L : IsSeq(g[i])}
  <2>1. 0 \in S
    BY <1>1, <1>6, EmptyFacts
  <2>2. ASSUME NEW k \in 0..(L - 1), k \in S PROVE k + 1 \in S
    <3>1. k + 1 \in 1..L /\ (k + 1) - 1 = k /\ k + 1 \in 0..L
      BY <1>1
    <3>2. g[k + 1] = g[k] \o ss[k + 1] /\ IsSeq(g[k]) /\ IsSeq(ss[k + 1])
      BY <1>7, <1>8, <2>2, <3>1
    <3>3. IsSeq(g[k] \o ss[k + 1])
      BY <3>2, JoinFacts
    <3>4. IsSeq(g[k + 1])
      BY <3>2, <3>3, Zenon
    <3> QED
      BY <3>1, <3>4, Zenon
  <2> HIDE DEF S
  <2>3. \A k \in 0..L : k \in S
    BY <1>1, <2>1, <2>2, CountingUp
  <2> QED
    BY <2>3 DEF S
<1> QED
  BY <1>6, <1>8, <1>9 DEF L

ParseStart == [files |-> <<>>, open |-> FALSE, oldNo |-> 0, newNo |-> 0]

\* The parser after each of the first k lines.
Parsing(f, patch, k) == f = [n \in 0..k |-> IF n = 0 THEN ParseStart ELSE ParseLine(f[n - 1], patch[n])]

\* The parser has such states, however long the patch.
LEMMA ParsingExists ==
    ASSUME NEW patch, NEW n \in Nat
    PROVE  \E f : Parsing(f, patch, n)
<1> DEFINE S == {k \in Nat : \E f : Parsing(f, patch, k)}
<1>1. 0 \in S
  <2>1. Parsing([n0 \in 0..0 |-> ParseStart], patch, 0)
    BY DEF Parsing
  <2> QED
    BY <2>1
<1>2. ASSUME NEW k \in 0..(n - 1), k \in S PROVE k + 1 \in S
  <2>1. PICK f : Parsing(f, patch, k)
    BY <1>2
  <2> DEFINE g == [m \in 0..(k + 1) |-> IF m = k + 1 THEN ParseLine(f[k], patch[k + 1]) ELSE f[m]]
  <2>2. \A m \in 0..k : g[m] = f[m]
    OBVIOUS
  <2>3. \A m \in 0..(k + 1) : g[m] = IF m = 0 THEN ParseStart ELSE ParseLine(g[m - 1], patch[m])
    <3> SUFFICES ASSUME NEW m \in 0..(k + 1)
                 PROVE  g[m] = IF m = 0 THEN ParseStart ELSE ParseLine(g[m - 1], patch[m])
      OBVIOUS
    <3>1. CASE m = k + 1
      <4>1. m - 1 = k /\ g[m - 1] = f[k] /\ m # 0
        BY <2>2, <3>1
      <4> QED
        BY <3>1, <4>1
    <3>2. CASE m # k + 1
      <4>1. m \in 0..k /\ (m # 0 => m - 1 \in 0..k)
        BY <3>2
      <4>2. f[m] = IF m = 0 THEN ParseStart ELSE ParseLine(f[m - 1], patch[m])
        BY <2>1, <4>1 DEF Parsing
      <4> HIDE DEF g
      <4> QED
        BY <2>2, <4>1, <4>2
    <3> QED
      BY <3>1, <3>2
  <2>4. Parsing(g, patch, k + 1)
    <3> HIDE DEF g
    <3>1. g = [m \in 0..(k + 1) |-> g[m]]
      BY DEF g
    <3> QED
      BY <2>3, <3>1, Zenon DEF Parsing
  <2> QED
    BY <2>4
<1> HIDE DEF S
<1>3. \A k \in 0..n : k \in S
  BY <1>1, <1>2, CountingUp
<1>4. n \in S
  BY <1>3
<1> QED
  BY <1>4 DEF S

\* parseDiff, a line at a time.
LEMMA ParseSteps ==
    ASSUME NEW patch, IsSeq(patch)
    PROVE  \E f : /\ ParseDiff(patch) = f[Len(patch)].files /\ f[0] = ParseStart
                  /\ \A n \in 1..Len(patch) : f[n] = ParseLine(f[n - 1], patch[n])
<1> DEFINE L == Len(patch)
           f == CHOOSE g : Parsing(g, patch, L)
<1>1. L \in Nat
  BY SeqFacts
<1>2. ParseDiff(patch) = f[L].files
  BY Zenon DEF ParseDiff, Parsing, ParseStart
<1> HIDE DEF L
<1>3. Parsing(f, patch, L)
  BY <1>1, ParsingExists
<1> HIDE DEF f
<1>4. f = [n \in 0..L |-> IF n = 0 THEN ParseStart ELSE ParseLine(f[n - 1], patch[n])]
  BY <1>3 DEF Parsing
<1>5. ASSUME NEW n \in 0..L PROVE f[n] = IF n = 0 THEN ParseStart ELSE ParseLine(f[n - 1], patch[n])
  BY <1>4, Zenon
<1>6. f[0] = ParseStart /\ \A n \in 1..L : f[n] = ParseLine(f[n - 1], patch[n])
  <2>1. 0 \in 0..L /\ \A n \in 1..L : n \in 0..L /\ n # 0
    BY <1>1
  <2> QED
    BY <1>5, <2>1, Zenon
<1> QED
  BY <1>2, <1>6 DEF L

\* The blocks after each of the first k lines of a hunk.
Blocking(f, h, k) == f = [n \in 0..k |-> IF n = 0 THEN <<>> ELSE Extend(f[n - 1], n, h[n].t)]

\* There are such blocks, however long the hunk.
LEMMA BlockingExists ==
    ASSUME NEW h, NEW n \in Nat
    PROVE  \E f : Blocking(f, h, n)
<1> DEFINE S == {k \in Nat : \E f : Blocking(f, h, k)}
<1>1. 0 \in S
  <2>1. Blocking([n0 \in 0..0 |-> <<>>], h, 0)
    BY DEF Blocking
  <2> QED
    BY <2>1
<1>2. ASSUME NEW k \in 0..(n - 1), k \in S PROVE k + 1 \in S
  <2>1. PICK f : Blocking(f, h, k)
    BY <1>2
  <2> DEFINE g == [m \in 0..(k + 1) |-> IF m = k + 1 THEN Extend(f[k], k + 1, h[k + 1].t) ELSE f[m]]
  <2>2. \A m \in 0..k : g[m] = f[m]
    OBVIOUS
  <2>3. \A m \in 0..(k + 1) : g[m] = IF m = 0 THEN <<>> ELSE Extend(g[m - 1], m, h[m].t)
    <3> SUFFICES ASSUME NEW m \in 0..(k + 1)
                 PROVE  g[m] = IF m = 0 THEN <<>> ELSE Extend(g[m - 1], m, h[m].t)
      OBVIOUS
    <3>1. CASE m = k + 1
      <4>1. m - 1 = k /\ g[m - 1] = f[k] /\ m # 0
        BY <2>2, <3>1
      <4> QED
        BY <3>1, <4>1
    <3>2. CASE m # k + 1
      <4>1. m \in 0..k /\ (m # 0 => m - 1 \in 0..k)
        BY <3>2
      <4>2. f[m] = IF m = 0 THEN <<>> ELSE Extend(f[m - 1], m, h[m].t)
        BY <2>1, <4>1 DEF Blocking
      <4> HIDE DEF g
      <4> QED
        BY <2>2, <4>1, <4>2
    <3> QED
      BY <3>1, <3>2
  <2>4. Blocking(g, h, k + 1)
    <3> HIDE DEF g
    <3>1. g = [m \in 0..(k + 1) |-> g[m]]
      BY DEF g
    <3> QED
      BY <2>3, <3>1, Zenon DEF Blocking
  <2> QED
    BY <2>4
<1> HIDE DEF S
<1>3. \A k \in 0..n : k \in S
  BY <1>1, <1>2, CountingUp
<1>4. n \in S
  BY <1>3
<1> QED
  BY <1>4 DEF S

\* hunkBlocks, a line at a time.
LEMMA BlockSteps ==
    ASSUME NEW h, IsSeq(h)
    PROVE  \E f : /\ HunkBlocks(h) = f[Len(h)] /\ f[0] = <<>>
                  /\ \A n \in 1..Len(h) : f[n] = Extend(f[n - 1], n, h[n].t)
<1> DEFINE L == Len(h)
           f == CHOOSE g : Blocking(g, h, L)
<1>1. L \in Nat
  BY SeqFacts
<1>2. HunkBlocks(h) = f[L]
  BY Zenon DEF HunkBlocks, Blocking
<1> HIDE DEF L
<1>3. Blocking(f, h, L)
  BY <1>1, BlockingExists
<1> HIDE DEF f
<1>4. f = [n \in 0..L |-> IF n = 0 THEN <<>> ELSE Extend(f[n - 1], n, h[n].t)]
  BY <1>3 DEF Blocking
<1>5. ASSUME NEW n \in 0..L PROVE f[n] = IF n = 0 THEN <<>> ELSE Extend(f[n - 1], n, h[n].t)
  BY <1>4, Zenon
<1>6. f[0] = <<>> /\ \A n \in 1..L : f[n] = Extend(f[n - 1], n, h[n].t)
  <2>1. 0 \in 0..L /\ \A n \in 1..L : n \in 0..L /\ n # 0
    BY <1>1
  <2> QED
    BY <1>5, <2>1, Zenon
<1> QED
  BY <1>2, <1>6 DEF L

\* What is kept of the first k elements.
Keeping(f, s, T, k) == f = [n \in 0..k |-> IF n = 0 THEN <<>> ELSE (IF s[n] \in T THEN Append(f[n - 1], s[n]) ELSE f[n - 1])]

\* There are such selections, however long the sequence.
LEMMA KeepingExists ==
    ASSUME NEW s, NEW T, NEW n \in Nat
    PROVE  \E f : Keeping(f, s, T, n)
<1> DEFINE S == {k \in Nat : \E f : Keeping(f, s, T, k)}
<1>1. 0 \in S
  <2>1. Keeping([n0 \in 0..0 |-> <<>>], s, T, 0)
    BY DEF Keeping
  <2> QED
    BY <2>1
<1>2. ASSUME NEW k \in 0..(n - 1), k \in S PROVE k + 1 \in S
  <2>1. PICK f : Keeping(f, s, T, k)
    BY <1>2
  <2> DEFINE g == [m \in 0..(k + 1) |-> IF m = k + 1 THEN (IF s[k + 1] \in T THEN Append(f[k], s[k + 1]) ELSE f[k]) ELSE f[m]]
  <2>2. \A m \in 0..k : g[m] = f[m]
    OBVIOUS
  <2>3. \A m \in 0..(k + 1) : g[m] = IF m = 0 THEN <<>> ELSE (IF s[m] \in T THEN Append(g[m - 1], s[m]) ELSE g[m - 1])
    <3> SUFFICES ASSUME NEW m \in 0..(k + 1)
                 PROVE  g[m] = IF m = 0 THEN <<>> ELSE (IF s[m] \in T THEN Append(g[m - 1], s[m]) ELSE g[m - 1])
      OBVIOUS
    <3>1. CASE m = k + 1
      <4>1. m - 1 = k /\ g[m - 1] = f[k] /\ m # 0
        BY <2>2, <3>1
      <4> QED
        BY <3>1, <4>1
    <3>2. CASE m # k + 1
      <4>1. m \in 0..k /\ (m # 0 => m - 1 \in 0..k)
        BY <3>2
      <4>2. f[m] = IF m = 0 THEN <<>> ELSE (IF s[m] \in T THEN Append(f[m - 1], s[m]) ELSE f[m - 1])
        BY <2>1, <4>1 DEF Keeping
      <4> HIDE DEF g
      <4> QED
        BY <2>2, <4>1, <4>2
    <3> QED
      BY <3>1, <3>2
  <2>4. Keeping(g, s, T, k + 1)
    <3> HIDE DEF g
    <3>1. g = [m \in 0..(k + 1) |-> g[m]]
      BY DEF g
    <3> QED
      BY <2>3, <3>1, Zenon DEF Keeping
  <2> QED
    BY <2>4
<1> HIDE DEF S
<1>3. \A k \in 0..n : k \in S
  BY <1>1, <1>2, CountingUp
<1>4. n \in S
  BY <1>3
<1> QED
  BY <1>4 DEF S

\* Only, an element at a time.
LEMMA OnlySteps ==
    ASSUME NEW s, IsSeq(s), NEW T
    PROVE  \E f : /\ Only(s, T) = f[Len(s)] /\ f[0] = <<>>
                  /\ \A n \in 1..Len(s) : f[n] = (IF s[n] \in T THEN Append(f[n - 1], s[n]) ELSE f[n - 1])
<1> DEFINE L == Len(s)
           f == CHOOSE g : Keeping(g, s, T, L)
<1>1. L \in Nat
  BY SeqFacts
<1>2. Only(s, T) = f[L]
  BY Zenon DEF Only, Keeping
<1> HIDE DEF L
<1>3. Keeping(f, s, T, L)
  BY <1>1, KeepingExists
<1> HIDE DEF f
<1>4. f = [n \in 0..L |-> IF n = 0 THEN <<>> ELSE (IF s[n] \in T THEN Append(f[n - 1], s[n]) ELSE f[n - 1])]
  BY <1>3 DEF Keeping
<1>5. ASSUME NEW n \in 0..L PROVE f[n] = IF n = 0 THEN <<>> ELSE (IF s[n] \in T THEN Append(f[n - 1], s[n]) ELSE f[n - 1])
  BY <1>4, Zenon
<1>6. f[0] = <<>> /\ \A n \in 1..L : f[n] = (IF s[n] \in T THEN Append(f[n - 1], s[n]) ELSE f[n - 1])
  <2>1. 0 \in 0..L /\ \A n \in 1..L : n \in 0..L /\ n # 0
    BY <1>1
  <2> QED
    BY <1>5, <2>1, Zenon
<1> QED
  BY <1>2, <1>6 DEF L

\* What is kept of a sequence is in it and among what is kept.
LEMMA OnlyIn ==
    ASSUME NEW S, NEW s, s \in Seq(S), NEW T
    PROVE  Only(s, T) \in Seq(S \cap T)
<1> DEFINE L == Len(s)
<1>1. IsSeq(s) /\ L \in Nat /\ \A i \in 1..L : s[i] \in S
  BY DEF IsSeq
<1>2. PICK f : /\ Only(s, T) = f[L] /\ f[0] = <<>>
               /\ \A n \in 1..L : f[n] = IF s[n] \in T THEN Append(f[n - 1], s[n]) ELSE f[n - 1]
  BY <1>1, OnlySteps
<1> DEFINE K == {n \in 0..L : f[n] \in Seq(S \cap T)}
<1>3. 0 \in K
  <2>1. <<>> \in Seq(S \cap T) /\ 0 \in 0..L
    BY <1>1
  <2> QED
    BY <1>2, <2>1
<1>4. ASSUME NEW n \in 0..(L - 1), n \in K PROVE n + 1 \in K
  <2>1. n + 1 \in 1..L /\ (n + 1) - 1 = n /\ n + 1 \in 0..L
    BY <1>1
  <2>2. f[n + 1] = IF s[n + 1] \in T THEN Append(f[n], s[n + 1]) ELSE f[n]
    BY <1>2, <2>1
  <2>3. f[n] \in Seq(S \cap T) /\ s[n + 1] \in S
    BY <1>1, <1>4, <2>1
  <2>4. f[n + 1] \in Seq(S \cap T)
    <3>1. CASE s[n + 1] \in T
      BY <2>2, <2>3, <3>1
    <3>2. CASE s[n + 1] \notin T
      BY <2>2, <2>3, <3>2
    <3> QED
      BY <3>1, <3>2
  <2> QED
    BY <2>1, <2>4
<1> HIDE DEF K
<1>5. \A n \in 0..L : n \in K
  BY <1>1, <1>3, <1>4, CountingUp
<1>6. L \in K
  BY <1>1, <1>5
<1> QED
  BY <1>2, <1>6 DEF K

-----------------------------------------------------------------------------
\* The parser goes from p over these lines to q.
Run(p, s, q) ==
    \E f : /\ f[0] = p /\ f[Len(s)] = q
           /\ \A n \in 1..Len(s) : f[n] = ParseLine(f[n - 1], s[n])

\* Of no line, the parser stays as it is.
LEMMA RunNone == ASSUME NEW p, NEW q, Run(p, <<>>, q) PROVE q = p
BY DEF Run

\* Of one line, it does what parseDiff does for a line.
LEMMA RunOne == ASSUME NEW p, NEW x, NEW q, Run(p, <<x>>, q) PROVE q = ParseLine(p, x)
<1>1. PICK f : f[0] = p /\ f[1] = q /\ \A n \in 1..1 : f[n] = ParseLine(f[n - 1], <<x>>[n])
  BY DEF Run
<1>2. f[1] = ParseLine(f[1 - 1], <<x>>[1])
  BY <1>1
<1> QED
  BY <1>1, <1>2

\* Of two pieces, it runs over the second from where the first led.
LEMMA RunSplit ==
    ASSUME NEW p, NEW s, NEW t, NEW q, IsSeq(s), IsSeq(t), Run(p, s \o t, q)
    PROVE  \E r : Run(p, s, r) /\ Run(r, t, q)
<1> DEFINE u == s \o t
<1>1. /\ Len(u) = Len(s) + Len(t) /\ Len(s) \in Nat /\ Len(t) \in Nat
      /\ \A i \in 1..Len(s) : u[i] = s[i]
      /\ \A i \in 1..Len(t) : u[Len(s) + i] = t[i]
  BY JoinFacts, SeqFacts
<1>2. PICK f : f[0] = p /\ f[Len(u)] = q /\ \A n \in 1..Len(u) : f[n] = ParseLine(f[n - 1], u[n])
  BY DEF Run
<1> HIDE DEF u
<1> DEFINE r == f[Len(s)]
           g == [n \in 0..Len(t) |-> f[Len(s) + n]]
<1>3. Run(p, s, r)
  <2>1. \A n \in 1..Len(s) : f[n] = ParseLine(f[n - 1], s[n])
    <3> SUFFICES ASSUME NEW n \in 1..Len(s) PROVE f[n] = ParseLine(f[n - 1], s[n])
      OBVIOUS
    <3>1. n \in 1..Len(u) /\ u[n] = s[n]
      BY <1>1
    <3> QED
      BY <1>2, <3>1
  <2> QED
    BY <1>2, <2>1 DEF Run
<1>4. Run(r, t, q)
  <2>1. g[0] = r /\ g[Len(t)] = q
    BY <1>1, <1>2
  <2>2. \A n \in 1..Len(t) : g[n] = ParseLine(g[n - 1], t[n])
    <3> SUFFICES ASSUME NEW n \in 1..Len(t) PROVE g[n] = ParseLine(g[n - 1], t[n])
      OBVIOUS
    <3> DEFINE i == Len(s) + n
    <3>1. i \in 1..Len(u) /\ u[i] = t[n] /\ g[n] = f[i] /\ g[n - 1] = f[i - 1]
      BY <1>1
    <3> HIDE DEF i, g
    <3>2. f[i] = ParseLine(f[i - 1], u[i])
      BY <1>2, <3>1
    <3> QED
      BY <3>1, <3>2
  <2> HIDE DEF g, r
  <2> QED
    BY <2>1, <2>2 DEF Run
<1> QED
  BY <1>3, <1>4

\* ParseDiff is the parser run over the whole patch.
LEMMA ParseRuns ==
    ASSUME NEW patch, IsSeq(patch)
    PROVE  \E q : Run(ParseStart, patch, q) /\ ParseDiff(patch) = q.files
BY ParseSteps DEF Run

\* A line is added to those parsed.
LEMMA RunMore ==
    ASSUME NEW p, NEW s, NEW x, NEW q, IsSeq(s), Run(p, Append(s, x), q)
    PROVE  \E r : Run(p, s, r) /\ q = ParseLine(r, x)
<1>1. IsSeq(<<x>>) /\ Append(s, x) = s \o <<x>>
  <2>1. PICK S : s \in Seq(S)
    BY DEF IsSeq
  <2>2. s \in Seq(S \cup {x}) /\ x \in S \cup {x} /\ <<x>> \in Seq(S \cup {x})
    BY <2>1
  <2> QED
    BY <2>2, AppendIsConcat DEF IsSeq
<1>2. PICK r : Run(p, s, r) /\ Run(r, <<x>>, q)
  BY <1>1, RunSplit
<1> QED
  BY <1>2, RunOne

\* The characters a line of a hunk begins with, named for the provers.
Signs == {"+", "-", " "}
Unchanged == " "

\* No line of a hunk looks like one that begins a file or a hunk.
LEMMA SignsApart ==
    /\ "diff" \notin Signs /\ "@@" \notin Signs /\ "-" \in Signs /\ Unchanged \in Signs /\ Unchanged # "-"
    /\ "+" \in Signs /\ "+" # "-" /\ Unchanged # "+" /\ "diff" # "@@"
    /\ \A t \in Signs : t = "+" \/ t = "-" \/ t = Unchanged
BY Zenon DEF Signs, Unchanged

\* A "diff" line begins a file.
LEMMA ParseFile ==
    ASSUME NEW p, NEW x, x.k = "diff"
    PROVE  ParseLine(p, x) = [p EXCEPT !.files = Append(@, NewFile(x.path)), !.open = FALSE]
BY Zenon DEF ParseLine

\* A line of an open hunk is numbered and added to it.
LEMMA ParseContent ==
    ASSUME NEW p, NEW x, x.k \in Signs, p.open
    PROVE  ParseLine(p, x) =
             [p EXCEPT !.files[Len(p.files)].hunks[Len(p.files[Len(p.files)].hunks)] = Append(@, Numbered(p, x)),
                       !.oldNo = @ + (IF x.k = "+" THEN 0 ELSE 1),
                       !.newNo = @ + (IF x.k = "-" THEN 0 ELSE 1)]
BY SignsApart, Zenon DEF ParseLine, Signs

\* Any other line changes the file, and opens a hunk or closes it.
LEMMA ParseHeader ==
    ASSUME NEW p, NEW x, x.k # "diff", x.k \notin Signs
    PROVE  ParseLine(p, x) =
             [p EXCEPT !.files[Len(p.files)] = Header(@, x), !.open = x.k = "@@",
                       !.oldNo = IF x.k = "@@" THEN x.old ELSE @,
                       !.newNo = IF x.k = "@@" THEN x.new ELSE @]
BY Zenon DEF ParseLine, Signs

ParserFields == {"files", "open", "oldNo", "newNo"}
FileFields == {"oldPath", "newPath", "status", "binary", "hunks"}

\* The parser is in file f, after the others.
InFile(p, olds, f) ==
    /\ DOMAIN p = ParserFields /\ IsSeq(olds) /\ p.files = Append(olds, f)
    /\ DOMAIN f = FileFields

\* After it the parser is in the new file, with no hunk open.
LEMMA FileStarts ==
    ASSUME NEW p, NEW x, DOMAIN p = ParserFields, IsSeq(p.files), x.k = "diff"
    PROVE  InFile(ParseLine(p, x), p.files, NewFile(x.path)) /\ ~ParseLine(p, x).open
<1> DEFINE q == ParseLine(p, x)
           f == NewFile(x.path)
<1>1. q = [p EXCEPT !.files = Append(@, f), !.open = FALSE]
  BY ParseFile
<1>2. DOMAIN f = FileFields
  BY DEF NewFile, FileFields
<1> HIDE DEF f, q
<1>3. DOMAIN q = ParserFields /\ q.files = Append(p.files, f) /\ ~q.open
  BY <1>1 DEF ParserFields
<1> QED
  BY <1>2, <1>3 DEF InFile, q, f

\* After any other line it is in the file the line changed.
LEMMA HeaderRead ==
    ASSUME NEW p, NEW x, NEW olds, NEW f, InFile(p, olds, f), x.k # "diff", x.k \notin Signs
    PROVE  LET q == ParseLine(p, x)
           IN  /\ q.files = Append(olds, Header(f, x)) /\ DOMAIN q = ParserFields
               /\ q.open = (x.k = "@@") /\ (x.k = "@@" => q.newNo = x.new)
<1> DEFINE q == ParseLine(p, x)
           n == Len(p.files)
           g == Header(p.files[n], x)
<1>1. q = [p EXCEPT !.files[n] = g, !.open = x.k = "@@",
                    !.oldNo = IF x.k = "@@" THEN x.old ELSE @, !.newNo = IF x.k = "@@" THEN x.new ELSE @]
  BY ParseHeader
<1>2. DOMAIN p = ParserFields /\ IsSeq(olds) /\ p.files = Append(olds, f)
  BY DEF InFile
<1>3. n = Len(olds) + 1 /\ p.files[n] = f
  BY <1>2, AppendFacts
<1> HIDE DEF q, n
<1>4. g = Header(f, x)
  BY <1>3
<1> HIDE DEF g
<1>5. q.files = [p.files EXCEPT ![n] = g] /\ DOMAIN q = ParserFields
  BY <1>1, <1>2 DEF ParserFields
<1>6. q.open = (x.k = "@@")
  BY <1>1, <1>2, Zenon DEF ParserFields
<1>7. x.k = "@@" => q.newNo = x.new
  BY <1>1, <1>2 DEF ParserFields
<1>8. q.files = Append(olds, g)
  BY <1>2, <1>3, <1>5, LastSet
<1> QED
  BY <1>4, <1>5, <1>6, <1>7, <1>8 DEF q

\* After a line of a hunk it is in the same file, its last hunk longer by that line.
LEMMA ContentRead ==
    ASSUME NEW p, NEW x, NEW olds, NEW f, NEW hs, NEW h, InFile(p, olds, f), IsSeq(hs), IsSeq(h),
           f.hunks = Append(hs, h), x.k \in Signs, p.open
    PROVE  LET q == ParseLine(p, x)
               g == [f EXCEPT !.hunks = Append(hs, Append(h, Numbered(p, x)))]
           IN  /\ InFile(q, olds, g) /\ q.open
               /\ q.newNo = p.newNo + (IF x.k = "-" THEN 0 ELSE 1)
<1> DEFINE q == ParseLine(p, x)
           n == Len(p.files)
           k == Len(p.files[n].hunks)
           e == Numbered(p, x)
           v == p.oldNo + (IF x.k = "+" THEN 0 ELSE 1)
           w == p.newNo + (IF x.k = "-" THEN 0 ELSE 1)
           r == Append(p.files[n].hunks[k], e)
           g == [f EXCEPT !.hunks = Append(hs, Append(h, e))]
<1>1. q = [p EXCEPT !.files[n].hunks[k] = r, !.oldNo = v, !.newNo = w]
  BY ParseContent
<1>2. DOMAIN p = ParserFields /\ IsSeq(olds) /\ p.files = Append(olds, f) /\ DOMAIN f = FileFields
  BY DEF InFile
<1>3. n = Len(olds) + 1 /\ p.files[n] = f /\ n \in DOMAIN p.files
  <2>1. n = Len(olds) + 1 /\ p.files[n] = f /\ IsSeq(p.files)
    BY <1>2, AppendFacts
  <2> HIDE DEF n
  <2>2. Len(p.files) = n /\ n \in 1..n
    <3>1. Len(olds) \in Nat
      BY <1>2, SeqFacts
    <3> QED
      BY <2>1, <3>1 DEF n
  <2> QED
    BY <2>1, <2>2, SeqFacts
<1>4. k = Len(hs) + 1 /\ f.hunks[k] = h
  BY <1>3, AppendFacts
<1>5. r = Append(h, e)
  BY <1>3, <1>4
<1> HIDE DEF q, n, k, v, w, e, r
<1>6. q.files = [p.files EXCEPT ![n].hunks[k] = r] /\ DOMAIN q = ParserFields /\ q.newNo = w
  BY <1>1, <1>2 DEF ParserFields
<1>7. q.open = p.open
  BY <1>1, <1>2 DEF ParserFields
<1> DEFINE u == [f.hunks EXCEPT ![k] = r]
<1>8. q.files = [p.files EXCEPT ![n] = [f EXCEPT !.hunks = u]]
  BY <1>3, <1>6
<1>9. u = Append(hs, r)
  BY <1>4, LastSet
<1> HIDE DEF u
<1>10. q.files = [p.files EXCEPT ![n] = g]
  BY <1>5, <1>8, <1>9
<1>11. DOMAIN g = FileFields
  BY <1>2
<1> HIDE DEF g
<1>12. q.files = Append(olds, g)
  BY <1>2, <1>3, <1>10, LastSet
<1> QED
  BY <1>2, <1>6, <1>7, <1>11, <1>12 DEF InFile, q, g, e, w

\* A line before the hunks: it may name the file, and names no other.
HeadKinds == {"---", "+++", "rename from", "rename to", "new file mode", "deleted file mode", "Binary"}
HeadLine(x, path) ==
    /\ x.k \in HeadKinds
    /\ x.k \in {"+++", "rename to"} => x.path = path \/ (x.k = "+++" /\ x.path = NoPath)

\* The lines git prints before the hunks are such lines.
LEMMA HeadLines ==
    ASSUME NEW path, NEW other
    PROVE  /\ HeadLine(Row("new file mode", NoPath, 0, 0), path)
           /\ HeadLine(Row("deleted file mode", NoPath, 0, 0), path)
           /\ HeadLine(Row("rename from", other, 0, 0), path)
           /\ HeadLine(Row("rename to", path, 0, 0), path)
           /\ HeadLine(Row("Binary", NoPath, 0, 0), path)
           /\ HeadLine(Row("---", other, 0, 0), path)
           /\ HeadLine(Row("+++", path, 0, 0), path)
           /\ HeadLine(Row("+++", NoPath, 0, 0), path)
<1>1. ASSUME NEW k, NEW o, k \in HeadKinds,
             k \in {"+++", "rename to"} => o = path \/ (k = "+++" /\ o = NoPath)
      PROVE  HeadLine(Row(k, o, 0, 0), path)
  <2>1. Row(k, o, 0, 0).k = k /\ Row(k, o, 0, 0).path = o
    BY DEF Row
  <2> QED
    BY <1>1, <2>1, Zenon DEF HeadLine
<1>2. \A k \in {"new file mode", "deleted file mode", "rename from", "Binary", "---"} :
        k \in HeadKinds /\ k \notin {"+++", "rename to"}
  BY Zenon DEF HeadKinds
<1>3. "+++" \in HeadKinds /\ "rename to" \in HeadKinds
  BY Zenon DEF HeadKinds
<1>4. HeadLine(Row("new file mode", NoPath, 0, 0), path)
  BY <1>1, <1>2, Zenon
<1>5. HeadLine(Row("deleted file mode", NoPath, 0, 0), path)
  BY <1>1, <1>2, Zenon
<1>6. HeadLine(Row("rename from", other, 0, 0), path)
  BY <1>1, <1>2, Zenon
<1>7. HeadLine(Row("rename to", path, 0, 0), path)
  BY <1>1, <1>3, Zenon
<1>8. HeadLine(Row("Binary", NoPath, 0, 0), path)
  BY <1>1, <1>2, Zenon
<1>9. HeadLine(Row("---", other, 0, 0), path)
  BY <1>1, <1>2, Zenon
<1>10. HeadLine(Row("+++", path, 0, 0), path)
  BY <1>1, <1>3, Zenon
<1>11. HeadLine(Row("+++", NoPath, 0, 0), path)
  BY <1>1, <1>3, Zenon
<1> QED
  BY <1>4, <1>5, <1>6, <1>7, <1>8, <1>9, <1>10, <1>11, Zenon

\* None of them is of a hunk or begins a file.
LEMMA HeadApart == "diff" \notin HeadKinds /\ "@@" \notin HeadKinds /\ \A k \in HeadKinds : k \notin Signs
BY Zenon DEF HeadKinds, Signs

\* They leave the name and the hunks as they are.
LEMMA HeaderKeeps ==
    ASSUME NEW f, NEW x, DOMAIN f = FileFields, HeadLine(x, f.newPath)
    PROVE  LET g == Header(f, x)
           IN  DOMAIN g = FileFields /\ g.newPath = f.newPath /\ g.hunks = f.hunks
<1> DEFINE g == Header(f, x)
<1>1. \/ \E a, b : g = [f EXCEPT !.oldPath = a, !.status = b]
      \/ \E a : g = [f EXCEPT !.oldPath = a]
      \/ \E b : g = [f EXCEPT !.status = b]
      \/ g = [f EXCEPT !.newPath = f.newPath]
      \/ \E b : g = [f EXCEPT !.newPath = f.newPath, !.status = b]
      \/ \E b : g = [f EXCEPT !.binary = b]
  <2>1. CASE x.k = "---"
    BY <2>1, Zenon DEF Header
  <2>2. CASE x.k = "+++"
    <3>1. g = IF x.path # NoPath THEN [f EXCEPT !.newPath = x.path] ELSE [f EXCEPT !.status = "deleted"]
      BY <2>2, Zenon DEF Header
    <3>2. x.path = f.newPath \/ x.path = NoPath
      BY <2>2, Zenon DEF HeadLine
    <3> QED
      BY <3>1, <3>2, Zenon
  <2>3. CASE x.k = "rename from"
    BY <2>3, Zenon DEF Header
  <2>4. CASE x.k = "rename to"
    <3>1. g = [f EXCEPT !.newPath = x.path, !.status = "renamed"]
      BY <2>4, Zenon DEF Header
    <3>2. x.path = f.newPath
      BY <2>4, Zenon DEF HeadLine
    <3> QED
      BY <3>1, <3>2, Zenon
  <2>5. CASE x.k = "new file mode"
    BY <2>5, Zenon DEF Header
  <2>6. CASE x.k = "deleted file mode"
    BY <2>6, Zenon DEF Header
  <2>7. CASE x.k = "Binary"
    BY <2>7, Zenon DEF Header
  <2> QED
    BY <2>1, <2>2, <2>3, <2>4, <2>5, <2>6, <2>7, Zenon DEF HeadLine, HeadKinds
<1> HIDE DEF g
<1>2. DOMAIN g = FileFields /\ g.newPath = f.newPath /\ g.hunks = f.hunks
  BY <1>1 DEF FileFields
<1> QED
  BY <1>2 DEF g

\* A "@@" line adds an empty hunk.
LEMMA HunkStarts ==
    ASSUME NEW f, NEW x, DOMAIN f = FileFields, x.k = "@@"
    PROVE  LET g == Header(f, x)
           IN  DOMAIN g = FileFields /\ g.newPath = f.newPath /\ g.hunks = Append(f.hunks, <<>>)
<1> DEFINE g == Header(f, x)
<1>1. g = [f EXCEPT !.hunks = Append(f.hunks, <<>>)]
  BY Zenon DEF Header
<1> HIDE DEF g
<1>2. DOMAIN g = FileFields /\ g.newPath = f.newPath /\ g.hunks = Append(f.hunks, <<>>)
  BY <1>1 DEF FileFields
<1> QED
  BY <1>2 DEF g

\* How many lines of the new file are before a place of the script.
Before(script, i) == Cardinality({j \in Places(script, {"+", " "}) : j < i})

\* The new file has the lines that were not removed.
LEMMA NewSide ==
    ASSUME NEW script, script \in Seq(Signs), NEW i
    PROVE  i \in Places(script, {"+", " "}) <=> i \in DOMAIN script /\ script[i] # "-"
<1>1. i \in DOMAIN script => script[i] \in Signs
  <2> HIDE DEF Signs
  <2> QED
    OBVIOUS
<1>2. \A t \in Signs : t \in {"+", " "} <=> t # "-"
  BY SignsApart, Zenon DEF Unchanged
<1> QED
  BY <1>1, <1>2, Zenon DEF Places

\* One more line is before the next place unless it was removed.
LEMMA BeforeSteps ==
    ASSUME NEW script, script \in Seq(Signs), NEW i \in 1..Len(script)
    PROVE  /\ Before(script, i) \in Nat /\ LineOf(script, i) = Before(script, i + 1)
           /\ Before(script, i + 1) = Before(script, i) + (IF script[i] = "-" THEN 0 ELSE 1)
<1> DEFINE P == Places(script, {"+", " "})
           B(k) == {j \in P : j < k}
<1>1. \A j : j \in P <=> j \in DOMAIN script /\ script[j] # "-"
  BY NewSide
<1>2. DOMAIN script = 1..Len(script) /\ Len(script) \in Nat
  OBVIOUS
<1>3. Before(script, i) = Cardinality(B(i)) /\ Before(script, i + 1) = Cardinality(B(i + 1))
  BY DEF Before
<1>4. LineOf(script, i) = Cardinality({j \in P : j <= i})
  BY DEF LineOf
<1> HIDE DEF P
<1>5. P \subseteq Nat
  BY <1>1, <1>2
<1>6. {j \in P : j <= i} = B(i + 1)
  <2>1. \A j \in P : j <= i <=> j < i + 1
    BY <1>2, <1>5
  <2> QED
    BY <2>1
<1>7. IsFiniteSet(B(i)) /\ i \notin B(i)
  <2>1. IsFiniteSet(1..Len(script))
    BY <1>2, FS_Interval
  <2>2. B(i) \in SUBSET (1..Len(script))
    BY <1>1, <1>2
  <2> HIDE DEF B
  <2>3. IsFiniteSet(B(i))
    BY <2>1, <2>2, FS_Subset
  <2> QED
    BY <2>3 DEF B
<1>8. B(i + 1) = IF script[i] = "-" THEN B(i) ELSE B(i) \cup {i}
  <2>1. CASE script[i] = "-"
    <3>1. i \notin P
      BY <1>1, <2>1
    <3>2. \A j \in P : j < i + 1 <=> j < i
      BY <1>2, <1>5, <3>1
    <3> QED
      BY <2>1, <3>2
  <2>2. CASE script[i] # "-"
    <3>1. i \in P
      BY <1>1, <1>2, <2>2
    <3>2. \A j \in P : j < i + 1 <=> j < i \/ j = i
      BY <1>2, <1>5
    <3> QED
      BY <2>2, <3>1, <3>2
  <2> QED
    BY <2>1, <2>2
<1> HIDE DEF B
<1>9. Cardinality(B(i)) \in Nat
  BY <1>7, FS_CardinalityType
<1>10. Cardinality(B(i + 1)) = Cardinality(B(i)) + (IF script[i] = "-" THEN 0 ELSE 1)
  <2>1. CASE script[i] = "-"
    BY <1>8, <1>9, <2>1
  <2>2. CASE script[i] # "-"
    BY <1>7, <1>8, <2>2, FS_AddElement
  <2> QED
    BY <2>1, <2>2
<1> QED
  BY <1>3, <1>4, <1>6, <1>9, <1>10

-----------------------------------------------------------------------------
(* The hunks are runs of the script's places.                               *)

\* Every number up to its size is how many are before some element of a set.
LEMMA Ranked ==
    ASSUME NEW F \in SUBSET Nat, IsFiniteSet(F), NEW n \in 0..(Cardinality(F) - 1)
    PROVE  \E f \in F : Cardinality({g \in F : g < f}) = n
<1> DEFINE C == Cardinality(F)
           Lower(f) == {g \in F : g < f}
           S == {k \in 0..(C - 1) : \E f \in F : Cardinality(Lower(f)) = k}
<1>1. C \in Nat /\ C - 1 \in Nat /\ C # 0 /\ 0 \in 0..(C - 1)
  BY FS_CardinalityType
<1>2. \A f \in F : IsFiniteSet(Lower(f)) /\ f \notin Lower(f) /\ Lower(f) \in SUBSET F
  <2> SUFFICES ASSUME NEW f \in F PROVE IsFiniteSet(Lower(f)) /\ f \notin Lower(f) /\ Lower(f) \in SUBSET F
    OBVIOUS
  <2>1. Lower(f) \in SUBSET F /\ f \notin Lower(f)
    OBVIOUS
  <2> HIDE DEF Lower
  <2> QED
    BY <2>1, FS_Subset
<1>3. 0 \in S
  <2>1. F # {}
    BY <1>1, FS_EmptySet
  <2>2. PICK f \in F : \A g \in F : f <= g
    BY <2>1, LeastNatural
  <2>3. Lower(f) = {}
    <3>1. ASSUME NEW g \in F PROVE ~(g < f)
      <4>1. g \in Nat /\ f \in Nat /\ f <= g
        BY <2>2
      <4> QED
        BY <4>1
    <3> QED
      BY <3>1
  <2>4. Cardinality(Lower(f)) = 0
    BY <2>3, FS_EmptySet
  <2> HIDE DEF Lower
  <2> QED
    BY <1>1, <2>4
<1>4. ASSUME NEW k \in 0..(C - 2), k \in S PROVE k + 1 \in S
  <2>1. PICK f \in F : Cardinality(Lower(f)) = k
    BY <1>4
  <2> DEFINE D == Lower(f) \cup {f}
             U == F \ D
  <2>2. IsFiniteSet(D) /\ Cardinality(D) = k + 1 /\ D \in SUBSET F
    <3> HIDE DEF Lower
    <3> QED
      BY <1>2, <2>1, FS_AddElement
  <2>3. U # {}
    <3>1. k + 1 # C
      BY <1>1
    <3>2. D # F
      BY <2>2, <3>1
    <3> QED
      BY <2>2, <3>2
  <2>4. U \in SUBSET Nat
    OBVIOUS
  <2>5. PICK e \in U : \A g \in U : e <= g
    <3> HIDE DEF U
    <3> QED
      BY <2>3, <2>4, LeastNatural
  <2>6. Lower(e) = D
    <3>1. e \in F /\ e \in Nat /\ f \in Nat /\ ~(e < f) /\ e # f
      OBVIOUS
    <3>2. \A g \in F : g \in Nat /\ (g \notin D => e <= g)
      BY <2>5
    <3>3. ASSUME NEW g \in F PROVE g < e <=> g \in D
      <4>1. CASE g \in D
        <5>1. g = f \/ g < f
          BY <4>1
        <5>2. g \in Nat /\ f < e
          BY <3>1, <3>2
        <5> QED
          BY <3>1, <4>1, <5>1, <5>2
      <4>2. CASE g \notin D
        BY <3>1, <3>2, <4>2
      <4> QED
        BY <4>1, <4>2
    <3>4. \A g : g \in Lower(e) <=> g \in F /\ g < e
      OBVIOUS
    <3> HIDE DEF Lower
    <3>5. \A g : g \in Lower(e) <=> g \in D
      <4> HIDE DEF D
      <4> QED
        BY <2>2, <3>3, <3>4
    <3> QED
      BY <3>5
  <2>7. Cardinality(Lower(e)) = k + 1 /\ e \in F
    BY <2>2, <2>6
  <2> HIDE DEF Lower
  <2>8. k + 1 \in 0..(C - 1)
    BY <1>1
  <2> QED
    BY <2>7, <2>8
<1> HIDE DEF S
<1>5. (C - 1) - 1 = C - 2
  BY <1>1
<1>6. \A k \in 0..(C - 1) : k \in S
  BY <1>1, <1>3, <1>4, <1>5, CountingUp
<1> QED
  BY <1>6 DEF S

\* A run of a set of places has an end.
LEMMA RunEnds ==
    ASSUME NEW L \in Nat, NEW N \in SUBSET (1..L), NEW i \in N
    PROVE  \E j \in N : i <= j /\ i..j \subseteq N /\ j + 1 \notin N
<1> DEFINE T == {k \in 0..L : L - k \in N /\ i <= L - k /\ i..(L - k) \subseteq N}
<1>1. i \in 1..L
  OBVIOUS
<1>2. T # {}
  <2>1. L - i \in 0..L /\ L - (L - i) = i /\ i..i = {i}
    BY <1>1
  <2>2. L - i \in T
    BY <2>1
  <2> QED
    BY <2>2
<1>3. PICK k \in T : \A h \in T : k <= h
  <2>1. T \in SUBSET Nat
    OBVIOUS
  <2> HIDE DEF T
  <2> QED
    BY <1>2, <2>1, LeastNatural
<1> DEFINE j == L - k
<1>4. j \in N /\ i <= j /\ i..j \subseteq N /\ k \in 0..L
  OBVIOUS
<1>5. ASSUME j + 1 \in N PROVE FALSE
  <2>1. k # 0 /\ k - 1 \in 0..L /\ L - (k - 1) = j + 1
    BY <1>4, <1>5
  <2>2. i..(j + 1) = (i..j) \cup {j + 1} /\ i <= j + 1
    BY <1>1, <1>4
  <2>3. k - 1 \in T
    <3>1. L - (k - 1) \in N /\ i <= L - (k - 1) /\ i..(L - (k - 1)) \subseteq N
      BY <1>4, <1>5, <2>1, <2>2
    <3> QED
      BY <2>1, <3>1
  <2> HIDE DEF T
  <2> QED
    BY <1>3, <1>4, <2>3
<1> QED
  BY <1>4, <1>5

HunkGood(script, hunk) ==
    /\ IsSeq(hunk) /\ Len(hunk) # 0
    /\ \A m \in 1..Len(hunk) : hunk[m] = hunk[1] + m - 1 /\ hunk[m] \in 1..Len(script)

\* Each hunk git prints is such a run.
LEMMA HunksGood ==
    ASSUME NEW script, script \in Seq(Signs)
    PROVE  /\ IsSeq(Hunks(script))
           /\ \A n \in DOMAIN Hunks(script) : HunkGood(script, Hunks(script)[n])
<1> DEFINE L == Len(script)
           near == {i \in DOMAIN script : \E j \in Changed(script) : i - j \in -Around..Around}
           firsts == {i \in near : i - 1 \notin near}
           last(i) == CHOOSE j \in near : i <= j /\ i..j \subseteq near /\ j + 1 \notin near
           first(n) == CHOOSE f \in firsts : Cardinality({g \in firsts : g < f}) = n - 1
           C == Cardinality(firsts)
<1>1. Hunks(script) = [n \in 1..C |-> Interval(first(n), last(first(n)))]
  BY DEF Hunks
<1>2. L \in Nat /\ DOMAIN script = 1..L
  OBVIOUS
<1>3. near \in SUBSET (1..L)
  BY <1>2
<1>4. ASSUME NEW i \in near PROVE last(i) \in near /\ i <= last(i) /\ i..last(i) \subseteq near
  <2> HIDE DEF near, L
  <2>1. \E j \in near : i <= j /\ i..j \subseteq near /\ j + 1 \notin near
    BY <1>2, <1>3, RunEnds
  <2> QED
    BY <2>1
<1>5. firsts \in SUBSET near
  OBVIOUS
<1> HIDE DEF last, near, L
<1>6. IsFiniteSet(firsts) /\ firsts \in SUBSET Nat
  <2>1. IsFiniteSet(1..L)
    BY <1>2, FS_Interval
  <2> HIDE DEF firsts
  <2>2. firsts \in SUBSET (1..L)
    BY <1>3, <1>5
  <2>3. 1..L \subseteq Nat
    BY <1>2
  <2> QED
    BY <2>1, <2>2, <2>3, FS_Subset
<1> HIDE DEF firsts
<1>7. C \in Nat
  BY <1>6, FS_CardinalityType
<1>8. ASSUME NEW n \in 1..C PROVE first(n) \in firsts
  <2>1. n - 1 \in 0..(C - 1)
    BY <1>7
  <2>2. \E f \in firsts : Cardinality({g \in firsts : g < f}) = n - 1
    <3> HIDE DEF C
    <3>1. n - 1 \in 0..(Cardinality(firsts) - 1)
      BY <2>1 DEF C
    <3> QED
      BY <1>6, <3>1, Ranked
  <2> QED
    BY <2>2
<1> HIDE DEF first, C
<1>9. ASSUME NEW i \in near PROVE HunkGood(script, Interval(i, last(i)))
  <2> DEFINE j == last(i)
             h == Interval(i, j)
             m0 == j - i + 1
  <2>1. i \in 1..L /\ j \in 1..L /\ i <= j /\ i..j \subseteq near
    BY <1>3, <1>4
  <2>2. h = [m \in 1..m0 |-> i + m - 1]
    BY DEF Interval
  <2> HIDE DEF h, j
  <2>3. m0 \in Nat /\ m0 # 0
    BY <1>2, <2>1
  <2>4. \A m \in 1..m0 : i + m - 1 \in 1..L
    BY <1>2, <2>1
  <2> HIDE DEF m0
  <2>5. h \in Seq(1..L) /\ Len(h) = m0
    BY <2>2, <2>3, <2>4
  <2>6. 1 \in 1..m0 /\ h[1] = i
    BY <1>2, <2>1, <2>2, <2>3
  <2>7. \A m \in 1..m0 : h[m] = i + m - 1
    BY <2>2
  <2> QED
    BY <2>3, <2>4, <2>5, <2>6, <2>7 DEF HunkGood, IsSeq, h, j, L
<1>10. \A n \in 1..C : HunkGood(script, Interval(first(n), last(first(n))))
  BY <1>5, <1>8, <1>9
<1>11. IsSeq(Hunks(script)) /\ DOMAIN Hunks(script) = 1..C
  <2> DEFINE I == {Interval(first(n), last(first(n))) : n \in 1..C}
  <2>1. Hunks(script) \in Seq(I) /\ DOMAIN Hunks(script) = 1..C
    BY <1>1, <1>7
  <2> QED
    BY <2>1 DEF IsSeq
<1> QED
  BY <1>1, <1>10, <1>11

\* A function on the numbers up to n is a sequence.
LEMMA Tabulated ==
    ASSUME NEW n \in Nat, NEW s, s = [i \in 1..n |-> s[i]]
    PROVE  IsSeq(s) /\ Len(s) = n /\ DOMAIN s = 1..n
<1> DEFINE S == {s[i] : i \in 1..n}
<1>1. s \in Seq(S) /\ Len(s) = n /\ DOMAIN s = 1..n
  OBVIOUS
<1> QED
  BY <1>1 DEF IsSeq

\* Of one element.
LEMMA JustOne == ASSUME NEW x PROVE IsSeq(<<x>>) /\ Len(<<x>>) = 1 /\ <<x>>[1] = x
<1>1. <<x>> \in Seq({x})
  OBVIOUS
<1> QED
  BY <1>1 DEF IsSeq

\* The first m lines of a hunk, as parsed: each is numbered as in the new file.
HunkIs(h, script, hunk, m) ==
    /\ IsSeq(h) /\ Len(h) = m
    /\ \A n \in 1..m :
          /\ h[n].t = script[hunk[n]] /\ h[n].text = hunk[n]
          /\ h[n].newNo = IF script[hunk[n]] = "-" THEN 0 ELSE LineOf(script, hunk[n])

\* The parser after m lines of a hunk, of the file at path whose earlier hunks
\* are hs.
AtLine(p, olds, path, hs, script, hunk, m) ==
    /\ p.open /\ p.newNo = Before(script, hunk[1] + m) + 1
    /\ \E f, h : /\ InFile(p, olds, f) /\ f.newPath = path /\ f.hunks = Append(hs, h)
                 /\ HunkIs(h, script, hunk, m)

LineRow(script, hunk, n) == Row(script[hunk[n]], NoPath, hunk[n], 0)

\* One more line of the hunk is numbered as in the new file.
LEMMA LineParsed ==
    ASSUME NEW script, script \in Seq(Signs), NEW hunk, HunkGood(script, hunk), NEW m \in 0..(Len(hunk) - 1),
           NEW p, NEW olds, NEW path, NEW hs, IsSeq(hs), AtLine(p, olds, path, hs, script, hunk, m)
    PROVE  AtLine(ParseLine(p, LineRow(script, hunk, m + 1)), olds, path, hs, script, hunk, m + 1)
<1> DEFINE x == LineRow(script, hunk, m + 1)
           q == ParseLine(p, x)
           i == hunk[m + 1]
<1>1. PICK f, h : /\ InFile(p, olds, f) /\ f.newPath = path /\ f.hunks = Append(hs, h)
                  /\ HunkIs(h, script, hunk, m)
  BY DEF AtLine
<1>2. p.open /\ p.newNo = Before(script, hunk[1] + m) + 1
  BY DEF AtLine
<1>3. x.k = script[i] /\ x.old = i
  BY DEF LineRow, Row
<1>4. Len(hunk) \in Nat /\ m + 1 \in 1..Len(hunk) /\ 1 \in 1..Len(hunk) /\ m \in Nat
  BY SeqFacts DEF HunkGood
<1>5. i = hunk[1] + (m + 1) - 1 /\ i \in 1..Len(script) /\ hunk[1] \in 1..Len(script) /\ Len(script) \in Nat
  BY <1>4 DEF HunkGood
<1>6. hunk[1] + m = i /\ hunk[1] + (m + 1) = i + 1
  BY <1>4, <1>5
<1> HIDE DEF i
<1>7. script[i] \in Signs
  <2> HIDE DEF Signs
  <2> QED
    BY <1>5
<1>8. /\ Before(script, i) \in Nat /\ LineOf(script, i) = Before(script, i + 1)
      /\ Before(script, i + 1) = Before(script, i) + (IF script[i] = "-" THEN 0 ELSE 1)
  BY <1>5, BeforeSteps
<1> DEFINE e == Numbered(p, x)
           g == [f EXCEPT !.hunks = Append(hs, Append(h, e))]
           k == Append(h, e)
<1> HIDE DEF x
<1>9. IsSeq(h) /\ Len(h) = m
  BY <1>1 DEF HunkIs
<1>10. InFile(q, olds, g) /\ q.open /\ q.newNo = p.newNo + (IF x.k = "-" THEN 0 ELSE 1)
  BY <1>1, <1>2, <1>3, <1>7, <1>9, ContentRead
<1>11. DOMAIN f = FileFields
  BY <1>1 DEF InFile
<1>12. e.t = script[i] /\ e.text = i /\ e.newNo = IF script[i] = "-" THEN 0 ELSE p.newNo
  BY <1>3 DEF Numbered
<1> HIDE DEF q, e
<1>13. g.newPath = path /\ g.hunks = Append(hs, k)
  BY <1>1, <1>11 DEF FileFields
<1> HIDE DEF g
<1>14. q.newNo = Before(script, i + 1) + 1
  BY <1>2, <1>3, <1>6, <1>8, <1>10
<1>15. /\ IsSeq(k) /\ Len(k) = m + 1 /\ k[m + 1] = e /\ \A n \in 1..m : k[n] = h[n]
  BY <1>9, AppendFacts
<1>16. e.newNo = IF script[i] = "-" THEN 0 ELSE LineOf(script, i)
  BY <1>2, <1>6, <1>8, <1>12
<1> HIDE DEF k
<1>17. ASSUME NEW n \in 1..(m + 1)
       PROVE  /\ k[n].t = script[hunk[n]] /\ k[n].text = hunk[n]
              /\ k[n].newNo = IF script[hunk[n]] = "-" THEN 0 ELSE LineOf(script, hunk[n])
  <2>1. n = m + 1 \/ n \in 1..m
    BY <1>4
  <2>2. CASE n = m + 1
    BY <1>12, <1>15, <1>16, <2>2 DEF i
  <2>3. CASE n \in 1..m
    BY <1>1, <1>15, <2>3 DEF HunkIs
  <2> QED
    BY <2>1, <2>2, <2>3
<1>18. HunkIs(k, script, hunk, m + 1)
  BY <1>15, <1>17 DEF HunkIs
<1> QED
  BY <1>6, <1>10, <1>13, <1>14, <1>18 DEF AtLine, q, x

\* A whole hunk is parsed into the lines it was printed from.
LEMMA HunkParsed ==
    ASSUME NEW script, script \in Seq(Signs), NEW hunk, HunkGood(script, hunk),
           NEW p, NEW olds, NEW f, InFile(p, olds, f), IsSeq(f.hunks), NEW q, Run(p, HunkLines(script, hunk), q)
    PROVE  \E g, h : /\ InFile(q, olds, g) /\ g.newPath = f.newPath /\ g.hunks = Append(f.hunks, h)
                     /\ HunkIs(h, script, hunk, Len(hunk))
<1> DEFINE old == Cardinality({j \in Places(script, {"-", " "}) : j < hunk[1]}) + 1
           x == Row("@@", NoPath, old, Before(script, hunk[1]) + 1)
           lines == [n \in DOMAIN hunk |-> LineRow(script, hunk, n)]
           M == Len(hunk)
<1>1. HunkLines(script, hunk) = <<x>> \o lines
  BY Zenon DEF HunkLines, Before, LineRow
<1>2. x.k = "@@" /\ x.new = Before(script, hunk[1]) + 1
  BY DEF Row
<1> HIDE DEF x
<1>3. IsSeq(hunk) /\ M \in Nat /\ M # 0 /\ DOMAIN hunk = 1..M
  BY SeqFacts DEF HunkGood
<1>4. hunk[1] \in Nat
  <2>1. 1 \in 1..M /\ Len(script) \in Nat
    BY <1>3
  <2>2. hunk[1] \in 1..Len(script)
    BY <2>1 DEF HunkGood
  <2> QED
    BY <2>1, <2>2
<1>5. IsSeq(lines) /\ Len(lines) = M /\ \A n \in 1..M : lines[n] = LineRow(script, hunk, n)
  <2>1. lines = [n \in 1..M |-> lines[n]] /\ \A n \in 1..M : lines[n] = LineRow(script, hunk, n)
    BY <1>3
  <2> HIDE DEF lines
  <2> QED
    BY <1>3, <2>1, Tabulated
<1> HIDE DEF lines, M
<1>6. IsSeq(<<x>>)
  BY JustOne
<1>7. PICK r : Run(p, <<x>>, r) /\ Run(r, lines, q)
  BY <1>1, <1>5, <1>6, RunSplit
<1>8. r = ParseLine(p, x)
  BY <1>7, RunOne
<1> DEFINE g == Header(f, x)
<1>9. "@@" # "diff" /\ "@@" \notin Signs
  BY SignsApart
<1>10. r.files = Append(olds, g) /\ DOMAIN r = ParserFields /\ r.open = (x.k = "@@") /\ r.newNo = x.new
  BY <1>2, <1>8, <1>9, HeaderRead
<1>11. DOMAIN f = FileFields /\ IsSeq(olds)
  BY DEF InFile
<1>12. DOMAIN g = FileFields /\ g.newPath = f.newPath /\ g.hunks = Append(f.hunks, <<>>)
  BY <1>2, <1>11, HunkStarts
<1> HIDE DEF g
<1>13. InFile(r, olds, g) /\ r.open
  BY <1>2, <1>10, <1>11, <1>12 DEF InFile
<1>14. HunkIs(<<>>, script, hunk, 0)
  BY EmptyFacts DEF HunkIs
<1>15. AtLine(r, olds, f.newPath, f.hunks, script, hunk, 0)
  <2>1. hunk[1] + 0 = hunk[1]
    BY <1>4
  <2> QED
    BY <1>2, <1>10, <1>12, <1>13, <1>14, <2>1 DEF AtLine
<1>16. PICK at : at[0] = r /\ at[M] = q /\ \A n \in 1..M : at[n] = ParseLine(at[n - 1], lines[n])
  BY <1>5, <1>7 DEF Run
<1> DEFINE S == {n \in 0..M : AtLine(at[n], olds, f.newPath, f.hunks, script, hunk, n)}
<1>17. 0 \in S
  BY <1>3, <1>15, <1>16
<1>18. ASSUME NEW n \in 0..(M - 1), n \in S PROVE n + 1 \in S
  <2>1. n + 1 \in 1..M /\ (n + 1) - 1 = n /\ n + 1 \in 0..M
    BY <1>3
  <2>2. at[n + 1] = ParseLine(at[n], LineRow(script, hunk, n + 1))
    BY <1>5, <1>16, <2>1
  <2>3. AtLine(at[n], olds, f.newPath, f.hunks, script, hunk, n)
    BY <1>18
  <2>4. n \in 0..(Len(hunk) - 1)
    BY DEF M
  <2>5. AtLine(at[n + 1], olds, f.newPath, f.hunks, script, hunk, n + 1)
    BY <2>2, <2>3, <2>4, LineParsed
  <2> QED
    BY <2>1, <2>5
<1> HIDE DEF S
<1>19. \A n \in 0..M : n \in S
  BY <1>3, <1>17, <1>18, CountingUp
<1>20. M \in S
  BY <1>3, <1>19
<1>21. AtLine(q, olds, f.newPath, f.hunks, script, hunk, M)
  BY <1>16, <1>20 DEF S
<1> QED
  BY <1>21 DEF AtLine, M

\* The first k hunks of a script, as parsed.
HunksAre(hs, script, k) ==
    /\ IsSeq(hs) /\ Len(hs) = k
    /\ \A n \in 1..k : HunkIs(hs[n], script, Hunks(script)[n], Len(Hunks(script)[n]))

AllHunkLines(script) ==
    FlattenSeq([n \in DOMAIN Hunks(script) |-> HunkLines(script, Hunks(script)[n])])

\* A hunk is printed as a sequence of lines.
LEMMA HunkLinesSeq ==
    ASSUME NEW script, NEW hunk, IsSeq(hunk)
    PROVE  IsSeq(HunkLines(script, hunk))
<1> DEFINE x == HunkLines(script, hunk)[1]
           lines == [n \in DOMAIN hunk |-> LineRow(script, hunk, n)]
<1>1. PICK e : HunkLines(script, hunk) = <<e>> \o lines
  BY Zenon DEF HunkLines, LineRow
<1>2. IsSeq(<<e>>)
  BY JustOne
<1>3. IsSeq(lines)
  <2>1. Len(hunk) \in Nat /\ DOMAIN hunk = 1..Len(hunk)
    BY SeqFacts
  <2>2. lines = [n \in 1..Len(hunk) |-> lines[n]]
    BY <2>1
  <2> HIDE DEF lines
  <2> QED
    BY <2>1, <2>2, Tabulated
<1> HIDE DEF lines
<1> QED
  BY <1>1, <1>2, <1>3, JoinFacts

\* All of a file's hunks are, in order.
LEMMA HunksParsed ==
    ASSUME NEW script, script \in Seq(Signs), NEW p, NEW olds, NEW f, InFile(p, olds, f), f.hunks = <<>>,
           NEW q, Run(p, AllHunkLines(script), q)
    PROVE  \E g : /\ InFile(q, olds, g) /\ g.newPath = f.newPath
                  /\ HunksAre(g.hunks, script, Len(Hunks(script)))
<1> DEFINE K == Len(Hunks(script))
           ss == [n \in DOMAIN Hunks(script) |-> HunkLines(script, Hunks(script)[n])]
<1>1. /\ IsSeq(Hunks(script)) /\ K \in Nat /\ DOMAIN Hunks(script) = 1..K
      /\ \A n \in 1..K : HunkGood(script, Hunks(script)[n])
  BY HunksGood, SeqFacts
<1>2. IsSeq(ss) /\ Len(ss) = K /\ \A n \in 1..K : ss[n] = HunkLines(script, Hunks(script)[n])
  <2>1. ss = [n \in 1..K |-> ss[n]] /\ \A n \in 1..K : ss[n] = HunkLines(script, Hunks(script)[n])
    BY <1>1
  <2> HIDE DEF ss, K
  <2> QED
    BY <1>1, <2>1, Tabulated
<1>3. AllHunkLines(script) = FlattenSeq(ss)
  BY Zenon DEF AllHunkLines
<1> HIDE DEF ss, K
<1>4. \A n \in 1..K : IsSeq(ss[n])
  BY <1>1, <1>2, HunkLinesSeq DEF HunkGood
<1>5. PICK flat : /\ flat[0] = <<>> /\ FlattenSeq(ss) = flat[K] /\ \A n \in 0..K : IsSeq(flat[n])
                  /\ \A n \in 1..K : flat[n] = flat[n - 1] \o ss[n]
  BY <1>2, <1>4, FlattenSteps
<1> DEFINE At(r, n) == \E g : InFile(r, olds, g) /\ g.newPath = f.newPath /\ HunksAre(g.hunks, script, n)
           S == {n \in 0..K : \A r : Run(p, flat[n], r) => At(r, n)}
<1>6. 0 \in S
  <2>1. ASSUME NEW r, Run(p, flat[0], r) PROVE At(r, 0)
    <3>1. r = p
      BY <1>5, <2>1, RunNone
    <3>2. HunksAre(f.hunks, script, 0)
      BY EmptyFacts DEF HunksAre
    <3> QED
      BY <3>1, <3>2
  <2> HIDE DEF At
  <2> QED
    BY <1>1, <2>1
<1>7. ASSUME NEW n \in 0..(K - 1), n \in S PROVE n + 1 \in S
  <2>1. n + 1 \in 1..K /\ (n + 1) - 1 = n /\ n + 1 \in 0..K /\ n \in 0..K
    BY <1>1
  <2>2. ASSUME NEW r, Run(p, flat[n + 1], r) PROVE At(r, n + 1)
    <3>1. flat[n + 1] = flat[n] \o ss[n + 1] /\ IsSeq(flat[n]) /\ IsSeq(ss[n + 1])
      BY <1>4, <1>5, <2>1
    <3>2. PICK o : Run(p, flat[n], o) /\ Run(o, ss[n + 1], r)
      BY <2>2, <3>1, RunSplit
    <3>3. At(o, n)
      <4> HIDE DEF At
      <4> QED
        BY <1>7, <3>2
    <3>4. PICK g : InFile(o, olds, g) /\ g.newPath = f.newPath /\ HunksAre(g.hunks, script, n)
      BY <3>3
    <3> DEFINE hunk == Hunks(script)[n + 1]
    <3>5. HunkGood(script, hunk) /\ Run(o, HunkLines(script, hunk), r)
      BY <1>1, <1>2, <2>1, <3>2
    <3>6. IsSeq(g.hunks) /\ Len(g.hunks) = n
      BY <3>4 DEF HunksAre
    <3> HIDE DEF hunk
    <3>7. PICK e, h : /\ InFile(r, olds, e) /\ e.newPath = g.newPath /\ e.hunks = Append(g.hunks, h)
                      /\ HunkIs(h, script, hunk, Len(hunk))
      BY <3>4, <3>5, <3>6, HunkParsed
    <3>8. /\ IsSeq(e.hunks) /\ Len(e.hunks) = n + 1 /\ e.hunks[n + 1] = h
          /\ \A i \in 1..n : e.hunks[i] = g.hunks[i]
      BY <3>6, <3>7, AppendFacts
    <3>9. ASSUME NEW i \in 1..(n + 1)
          PROVE  HunkIs(e.hunks[i], script, Hunks(script)[i], Len(Hunks(script)[i]))
      <4>1. i = n + 1 \/ i \in 1..n
        BY <2>1
      <4>2. CASE i = n + 1
        BY <3>7, <3>8, <4>2 DEF hunk
      <4>3. CASE i \in 1..n
        BY <3>4, <3>8, <4>3 DEF HunksAre
      <4> QED
        BY <4>1, <4>2, <4>3
    <3>10. HunksAre(e.hunks, script, n + 1)
      BY <3>8, <3>9 DEF HunksAre
    <3> QED
      BY <3>4, <3>7, <3>10
  <2> HIDE DEF At
  <2> QED
    BY <2>1, <2>2
<1> HIDE DEF S
<1>8. \A n \in 0..K : n \in S
  BY <1>1, <1>6, <1>7, CountingUp
<1>9. K \in S
  BY <1>1, <1>8
<1>10. Run(p, flat[K], q)
  BY <1>3, <1>5
<1>11. At(q, K)
  <2> HIDE DEF At
  <2> QED
    BY <1>9, <1>10 DEF S
<1> QED
  BY <1>11 DEF K

\* A file's lines before its hunks, in their two parts.
StatusLines(path, c) ==
    CASE c.status = "added"   -> <<Row("new file mode", NoPath, 0, 0)>>
      [] c.status = "deleted" -> <<Row("deleted file mode", NoPath, 0, 0)>>
      [] c.status = "renamed" -> <<Row("rename from", c.from, 0, 0), Row("rename to", path, 0, 0)>>
      [] OTHER -> <<>>

NameLines(path, c) ==
    <<Row("---", IF c.status = "added" THEN NoPath
                 ELSE IF c.status = "renamed" THEN c.from ELSE path, 0, 0),
      Row("+++", IF c.status = "deleted" THEN NoPath ELSE path, 0, 0)>>

BodyLines(path, c) ==
    IF c.binary THEN <<Row("Binary", NoPath, 0, 0)>>
    ELSE IF c.script = <<>> THEN <<>>
    ELSE NameLines(path, c) \o AllHunkLines(c.script)

\* A file is printed as its first line, those of its status and its body.
LEMMA FileLinesAre ==
    ASSUME NEW path, NEW c
    PROVE  FileLines(path, c) = <<Row("diff", path, 0, 0)>> \o StatusLines(path, c) \o BodyLines(path, c)
BY Zenon DEF FileLines, StatusLines, BodyLines, NameLines, AllHunkLines

\* Lines that leave a file's name and hunks as they are.
Heads(s, path) == IsSeq(s) /\ \A i \in 1..Len(s) : HeadLine(s[i], path)

\* Lines by ones and twos.
LEMMA FewHeads ==
    ASSUME NEW path
    PROVE  /\ Heads(<<>>, path)
           /\ \A x : HeadLine(x, path) => Heads(<<x>>, path)
           /\ \A x, y : HeadLine(x, path) /\ HeadLine(y, path) => Heads(<<x, y>>, path)
<1>1. Heads(<<>>, path)
  BY EmptyFacts DEF Heads
<1>2. ASSUME NEW x, HeadLine(x, path) PROVE Heads(<<x>>, path)
  <2>1. \A i \in 1..1 : i = 1
    OBVIOUS
  <2> QED
    BY <1>2, <2>1, JustOne DEF Heads
<1>3. ASSUME NEW x, NEW y, HeadLine(x, path), HeadLine(y, path) PROVE Heads(<<x, y>>, path)
  <2>1. <<x, y>> \in Seq({x, y}) /\ Len(<<x, y>>) = 2 /\ <<x, y>>[1] = x /\ <<x, y>>[2] = y
    OBVIOUS
  <2>2. \A i \in 1..2 : i = 1 \/ i = 2
    OBVIOUS
  <2> QED
    BY <1>3, <2>1, <2>2 DEF Heads, IsSeq
<1> QED
  BY <1>1, <1>2, <1>3

\* Those of the status leave the file as it is.
LEMMA StatusHeads ==
    ASSUME NEW path, NEW c
    PROVE  Heads(StatusLines(path, c), path)
<1>1. CASE c.status = "added"
  <2>1. StatusLines(path, c) = <<Row("new file mode", NoPath, 0, 0)>>
    BY <1>1, Zenon DEF StatusLines
  <2> QED
    BY <2>1, FewHeads, HeadLines, Zenon
<1>2. CASE c.status = "deleted"
  <2>1. StatusLines(path, c) = <<Row("deleted file mode", NoPath, 0, 0)>>
    BY <1>2, Zenon DEF StatusLines
  <2> QED
    BY <2>1, FewHeads, HeadLines, Zenon
<1>3. CASE c.status = "renamed"
  <2>1. StatusLines(path, c) = <<Row("rename from", c.from, 0, 0), Row("rename to", path, 0, 0)>>
    BY <1>3, Zenon DEF StatusLines
  <2> QED
    BY <2>1, FewHeads, HeadLines, Zenon
<1>4. CASE c.status \notin {"added", "deleted", "renamed"}
  <2>1. StatusLines(path, c) = <<>>
    BY <1>4, Zenon DEF StatusLines
  <2> QED
    BY <2>1, FewHeads, Zenon
<1> QED
  BY <1>1, <1>2, <1>3, <1>4

\* So do those that name it.
LEMMA NameHeads ==
    ASSUME NEW path, NEW c
    PROVE  Heads(NameLines(path, c), path)
<1> DEFINE a == Row("---", IF c.status = "added" THEN NoPath
                           ELSE IF c.status = "renamed" THEN c.from ELSE path, 0, 0)
           b == Row("+++", IF c.status = "deleted" THEN NoPath ELSE path, 0, 0)
<1>1. HeadLine(a, path) /\ HeadLine(b, path)
  BY HeadLines, Zenon
<1>2. NameLines(path, c) = <<a, b>>
  BY Zenon DEF NameLines
<1> HIDE DEF a, b
<1> QED
  BY <1>1, <1>2, FewHeads

\* However many there are, the file has its name and no hunk yet.
LEMMA HeadsParsed ==
    ASSUME NEW path, NEW s, Heads(s, path), NEW p, NEW olds, NEW f, InFile(p, olds, f), f.newPath = path,
           f.hunks = <<>>, NEW q, Run(p, s, q)
    PROVE  \E g : InFile(q, olds, g) /\ g.newPath = path /\ g.hunks = <<>>
<1> DEFINE L == Len(s)
           At(r) == \E g : InFile(r, olds, g) /\ g.newPath = path /\ g.hunks = <<>>
<1>1. L \in Nat /\ \A i \in 1..L : HeadLine(s[i], path)
  BY SeqFacts DEF Heads
<1>2. PICK at : at[0] = p /\ at[L] = q /\ \A n \in 1..L : at[n] = ParseLine(at[n - 1], s[n])
  BY DEF Run
<1> HIDE DEF L
<1>3. ASSUME NEW r, At(r), NEW x, HeadLine(x, path) PROVE At(ParseLine(r, x))
  <2>1. PICK g : InFile(r, olds, g) /\ g.newPath = path /\ g.hunks = <<>>
    BY <1>3
  <2> DEFINE e == Header(g, x)
             o == ParseLine(r, x)
  <2>2. x.k # "diff" /\ x.k \notin Signs
    BY <1>3, HeadApart, Zenon DEF HeadLine
  <2>3. o.files = Append(olds, e) /\ DOMAIN o = ParserFields
    BY <2>1, <2>2, HeaderRead
  <2>4. DOMAIN g = FileFields /\ IsSeq(olds)
    BY <2>1 DEF InFile
  <2>5. DOMAIN e = FileFields /\ e.newPath = path /\ e.hunks = <<>>
    BY <1>3, <2>1, <2>4, HeaderKeeps
  <2> HIDE DEF e, o
  <2>6. InFile(o, olds, e)
    BY <2>3, <2>4, <2>5 DEF InFile
  <2> QED
    BY <2>5, <2>6 DEF o
<1>4. At(p)
  OBVIOUS
<1> HIDE DEF At
<1> DEFINE S == {n \in 0..L : At(at[n])}
<1>5. 0 \in S
  BY <1>1, <1>2, <1>4
<1>6. ASSUME NEW n \in 0..(L - 1), n \in S PROVE n + 1 \in S
  <2>1. n + 1 \in 1..L /\ (n + 1) - 1 = n /\ n + 1 \in 0..L
    BY <1>1
  <2>2. at[n + 1] = ParseLine(at[n], s[n + 1]) /\ HeadLine(s[n + 1], path) /\ At(at[n])
    BY <1>1, <1>2, <1>6, <2>1
  <2>3. At(at[n + 1])
    BY <1>3, <2>2
  <2> QED
    BY <2>1, <2>3
<1> HIDE DEF S
<1>7. \A n \in 0..L : n \in S
  BY <1>1, <1>5, <1>6, CountingUp
<1>8. L \in S
  BY <1>1, <1>7
<1>9. At(q)
  BY <1>2, <1>8 DEF S
<1> QED
  BY <1>9 DEF At

\* What a change's file is parsed as.
FileIs(g, path, c) ==
    g.newPath = path /\ (g.hunks = <<>> \/ HunksAre(g.hunks, c.script, Len(Hunks(c.script))))

\* A file is printed as a sequence of lines.
LEMMA LinesSeq ==
    ASSUME NEW path, NEW c, c.script \in Seq(Signs)
    PROVE  /\ IsSeq(<<Row("diff", path, 0, 0)>>) /\ IsSeq(StatusLines(path, c)) /\ IsSeq(NameLines(path, c))
           /\ IsSeq(AllHunkLines(c.script)) /\ IsSeq(BodyLines(path, c)) /\ IsSeq(FileLines(path, c))
<1>1. IsSeq(<<Row("diff", path, 0, 0)>>)
  <2> DEFINE x == Row("diff", path, 0, 0)
  <2> HIDE DEF x
  <2>1. IsSeq(<<x>>)
    BY JustOne
  <2> QED
    BY <2>1 DEF x
<1>2. IsSeq(StatusLines(path, c)) /\ IsSeq(NameLines(path, c))
  BY StatusHeads, NameHeads DEF Heads
<1>3. IsSeq(AllHunkLines(c.script))
  <2> DEFINE script == c.script
             K == Len(Hunks(script))
             ss == [n \in DOMAIN Hunks(script) |-> HunkLines(script, Hunks(script)[n])]
  <2>1. /\ IsSeq(Hunks(script)) /\ K \in Nat /\ DOMAIN Hunks(script) = 1..K
        /\ \A n \in 1..K : HunkGood(script, Hunks(script)[n])
    BY HunksGood, SeqFacts
  <2>2. ss = [n \in 1..K |-> ss[n]] /\ \A n \in 1..K : ss[n] = HunkLines(script, Hunks(script)[n])
    BY <2>1
  <2>3. AllHunkLines(script) = FlattenSeq(ss)
    BY Zenon DEF AllHunkLines
  <2> HIDE DEF ss, K
  <2>4. IsSeq(ss) /\ Len(ss) = K
    BY <2>1, <2>2, Tabulated
  <2>5. \A n \in 1..K : IsSeq(ss[n])
    BY <2>1, <2>2, HunkLinesSeq DEF HunkGood
  <2>6. PICK flat : FlattenSeq(ss) = flat[K] /\ \A n \in 0..K : IsSeq(flat[n])
    BY <2>4, <2>5, FlattenSteps
  <2>7. K \in 0..K
    BY <2>1
  <2> QED
    BY <2>3, <2>6, <2>7
<1>4. IsSeq(BodyLines(path, c))
  <2>1. BodyLines(path, c) = <<Row("Binary", NoPath, 0, 0)>> \/ BodyLines(path, c) = <<>>
          \/ BodyLines(path, c) = NameLines(path, c) \o AllHunkLines(c.script)
    BY Zenon DEF BodyLines
  <2>2. IsSeq(<<Row("Binary", NoPath, 0, 0)>>)
    BY FewHeads, HeadLines, Zenon DEF Heads
  <2> QED
    BY <1>2, <1>3, <2>1, <2>2, EmptyFacts, JoinFacts
<1>5. IsSeq(FileLines(path, c))
  BY <1>1, <1>2, <1>4, FileLinesAre, JoinFacts, Zenon
<1> QED
  BY <1>1, <1>2, <1>3, <1>4, <1>5

\* A printed file is parsed into one file, with its name and its hunks.
LEMMA FileParsed ==
    ASSUME NEW path, NEW c, c.script \in Seq(Signs), NEW p, DOMAIN p = ParserFields, IsSeq(p.files),
           NEW q, Run(p, FileLines(path, c), q)
    PROVE  DOMAIN q = ParserFields /\ \E g : q.files = Append(p.files, g) /\ FileIs(g, path, c)
<1> DEFINE x == Row("diff", path, 0, 0)
           olds == p.files
<1>1. /\ IsSeq(<<x>>) /\ IsSeq(StatusLines(path, c)) /\ IsSeq(NameLines(path, c))
      /\ IsSeq(AllHunkLines(c.script)) /\ IsSeq(BodyLines(path, c))
  BY LinesSeq, Zenon
<1>2. FileLines(path, c) = <<x>> \o StatusLines(path, c) \o BodyLines(path, c)
  BY FileLinesAre, Zenon
<1>3. x.k = "diff" /\ x.path = path
  BY DEF Row
<1> HIDE DEF x
<1>4. IsSeq(<<x>> \o StatusLines(path, c))
  BY <1>1, JoinFacts
<1>5. PICK r1 : Run(p, <<x>> \o StatusLines(path, c), r1) /\ Run(r1, BodyLines(path, c), q)
  BY <1>1, <1>2, <1>4, RunSplit, Zenon
<1>6. PICK r0 : Run(p, <<x>>, r0) /\ Run(r0, StatusLines(path, c), r1)
  BY <1>1, <1>5, RunSplit
<1>7. r0 = ParseLine(p, x)
  BY <1>6, RunOne
<1>8. InFile(r0, olds, NewFile(path))
  BY <1>3, <1>7, FileStarts
<1>9. NewFile(path).newPath = path /\ NewFile(path).hunks = <<>>
  BY DEF NewFile
<1>10. PICK g1 : InFile(r1, olds, g1) /\ g1.newPath = path /\ g1.hunks = <<>>
  BY <1>6, <1>8, <1>9, StatusHeads, HeadsParsed
<1>11. \E g : InFile(q, olds, g) /\ FileIs(g, path, c)
  <2>1. CASE c.binary
    <3>1. BodyLines(path, c) = <<Row("Binary", NoPath, 0, 0)>>
      BY <2>1, Zenon DEF BodyLines
    <3>2. Heads(BodyLines(path, c), path)
      BY <3>1, FewHeads, HeadLines, Zenon
    <3>3. PICK g : InFile(q, olds, g) /\ g.newPath = path /\ g.hunks = <<>>
      BY <1>5, <1>10, <3>2, HeadsParsed
    <3> QED
      BY <3>3 DEF FileIs
  <2>2. CASE ~c.binary /\ c.script = <<>>
    <3>1. BodyLines(path, c) = <<>>
      BY <2>2, Zenon DEF BodyLines
    <3>2. q = r1
      BY <1>5, <3>1, RunNone
    <3> QED
      BY <1>10, <3>2 DEF FileIs
  <2>3. CASE ~c.binary /\ c.script # <<>>
    <3>1. BodyLines(path, c) = NameLines(path, c) \o AllHunkLines(c.script)
      BY <2>3, Zenon DEF BodyLines
    <3>2. PICK r2 : Run(r1, NameLines(path, c), r2) /\ Run(r2, AllHunkLines(c.script), q)
      BY <1>1, <1>5, <3>1, RunSplit
    <3>3. PICK g2 : InFile(r2, olds, g2) /\ g2.newPath = path /\ g2.hunks = <<>>
      BY <1>10, <3>2, NameHeads, HeadsParsed
    <3>4. PICK g : /\ InFile(q, olds, g) /\ g.newPath = path
                   /\ HunksAre(g.hunks, c.script, Len(Hunks(c.script)))
      BY <3>2, <3>3, HunksParsed
    <3> QED
      BY <3>4 DEF FileIs
  <2> QED
    BY <2>1, <2>2, <2>3
<1> QED
  BY <1>11 DEF InFile

-----------------------------------------------------------------------------
\* A diff of the worktree: what may be said of a file, of every path.
SaneDiff(d) ==
    /\ d = [p \in Path |-> d[p]]
    /\ \A p \in Path : "script" \in DOMAIN d[p] /\ d[p].script \in Seq(Signs)

\* The first k files of a diff, as parsed.
FilesAre(files, d, k) ==
    /\ IsSeq(files) /\ Len(files) = k
    /\ \A i \in 1..k : FileIs(files[i], InDiff(d)[i], d[InDiff(d)[i]])

\* The paths are in a sequence.
LEMMA PathsAre == PathOrder \in Seq(STRING)
BY DiffAssumption, Zenon

\* The files of a patch are of paths there are.
LEMMA InDiffPaths ==
    ASSUME NEW d, SaneDiff(d)
    PROVE  /\ IsSeq(InDiff(d)) /\ Len(InDiff(d)) \in Nat /\ DOMAIN InDiff(d) = 1..Len(InDiff(d))
           /\ \A i \in 1..Len(InDiff(d)) : InDiff(d)[i] \in Path
<1> DEFINE T == Tracked(d)
<1>1. PathOrder \in Seq(Path)
  <2>1. \A i \in DOMAIN PathOrder : PathOrder[i] \in Path
    BY DEF Path
  <2> HIDE DEF Path
  <2> QED
    BY <2>1, PathsAre
<1> HIDE DEF T
<1>2. Only(PathOrder, T) \in Seq(Path \cap T)
  BY <1>1, OnlyIn
<1>3. InDiff(d) = Only(PathOrder, T)
  BY DEF InDiff, T
<1> QED
  BY <1>2, <1>3 DEF IsSeq

\* The patch is of the tracked changes alone: a revision has the diff's own.
LEMMA RevisionPatch ==
    ASSUME NEW d
    PROVE  Patch(Revision(d)) = Patch(d)
<1> DEFINE e == Revision(d)
           L == [i \in DOMAIN InDiff(d) |-> FileLines(InDiff(d)[i], d[InDiff(d)[i]])]
           M == [i \in DOMAIN InDiff(d) |-> FileLines(InDiff(d)[i], e[InDiff(d)[i]])]
<1>1. Tracked(e) = Tracked(d) /\ \A p \in Tracked(d) : e[p] = d[p]
  BY DEF Revision, Tracked
<1>2. PathOrder \in Seq(Path)
  <2>1. \A i \in DOMAIN PathOrder : PathOrder[i] \in Path
    BY DEF Path
  <2> HIDE DEF Path
  <2> QED
    BY <2>1, PathsAre
<1>3. InDiff(d) \in Seq(Path \cap Tracked(d))
  BY <1>2, OnlyIn DEF InDiff
<1> HIDE DEF e
<1>4. InDiff(e) = InDiff(d)
  BY <1>1 DEF InDiff
<1>5. \A i \in DOMAIN InDiff(d) : InDiff(d)[i] \in Tracked(d)
  BY <1>3
<1>6. \A i \in DOMAIN InDiff(d) : e[InDiff(d)[i]] = d[InDiff(d)[i]]
  BY <1>1, <1>5
<1>7. L = M
  BY <1>6
<1>8. Patch(d) = FlattenSeq(L) /\ Patch(e) = FlattenSeq(M)
  BY <1>4, Zenon DEF Patch
<1> HIDE DEF L, M
<1>9. Patch(e) = Patch(d)
  BY <1>7, <1>8
<1> QED
  BY <1>9 DEF e

\* A patch is parsed into its files, in order, each with its name and its hunks.
LEMMA PatchParsed ==
    ASSUME NEW d, SaneDiff(d)
    PROVE  FilesAre(ParseDiff(Patch(d)), d, Len(InDiff(d)))
<1> DEFINE paths == InDiff(d)
           K == Len(paths)
           ss == [i \in DOMAIN paths |-> FileLines(paths[i], d[paths[i]])]
<1>1. K \in Nat /\ DOMAIN paths = 1..K /\ \A i \in 1..K : paths[i] \in Path
  BY InDiffPaths
<1>2. Patch(d) = FlattenSeq(ss)
  BY Zenon DEF Patch
<1> HIDE DEF paths, K
<1>3. IsSeq(ss) /\ Len(ss) = K /\ \A i \in 1..K : ss[i] = FileLines(paths[i], d[paths[i]])
  <2>1. ss = [i \in 1..K |-> ss[i]] /\ \A i \in 1..K : ss[i] = FileLines(paths[i], d[paths[i]])
    BY <1>1
  <2> HIDE DEF ss
  <2> QED
    BY <1>1, <2>1, Tabulated
<1> HIDE DEF ss
<1>4. \A i \in 1..K : IsSeq(ss[i]) /\ d[paths[i]].script \in Seq(Signs)
  <2>1. \A i \in 1..K : d[paths[i]].script \in Seq(Signs)
    BY <1>1 DEF SaneDiff
  <2>2. ASSUME NEW i \in 1..K PROVE IsSeq(ss[i])
    <3>1. IsSeq(FileLines(paths[i], d[paths[i]]))
      BY <2>1, LinesSeq
    <3> QED
      BY <1>3, <3>1
  <2> QED
    BY <2>1, <2>2
<1>5. PICK flat : /\ flat[0] = <<>> /\ FlattenSeq(ss) = flat[K] /\ \A i \in 0..K : IsSeq(flat[i])
                  /\ \A i \in 1..K : flat[i] = flat[i - 1] \o ss[i]
  BY <1>3, <1>4, FlattenSteps
<1> DEFINE At(r, n) == DOMAIN r = ParserFields /\ FilesAre(r.files, d, n)
           S == {n \in 0..K : \A r : Run(ParseStart, flat[n], r) => At(r, n)}
<1>6. 0 \in S
  <2>1. ASSUME NEW r, Run(ParseStart, flat[0], r) PROVE At(r, 0)
    <3>1. r = ParseStart
      BY <1>5, <2>1, RunNone
    <3>2. DOMAIN ParseStart = ParserFields /\ ParseStart.files = <<>>
      BY DEF ParseStart, ParserFields
    <3>3. FilesAre(<<>>, d, 0)
      BY EmptyFacts DEF FilesAre
    <3> QED
      BY <3>1, <3>2, <3>3
  <2> HIDE DEF At
  <2> QED
    BY <1>1, <2>1
<1>7. ASSUME NEW n \in 0..(K - 1), n \in S PROVE n + 1 \in S
  <2>1. n + 1 \in 1..K /\ (n + 1) - 1 = n /\ n + 1 \in 0..K /\ n \in 0..K
    BY <1>1
  <2>2. ASSUME NEW r, Run(ParseStart, flat[n + 1], r) PROVE At(r, n + 1)
    <3>1. flat[n + 1] = flat[n] \o ss[n + 1] /\ IsSeq(flat[n]) /\ IsSeq(ss[n + 1])
      BY <1>4, <1>5, <2>1
    <3>2. PICK o : Run(ParseStart, flat[n], o) /\ Run(o, ss[n + 1], r)
      BY <2>2, <3>1, RunSplit
    <3>3. At(o, n)
      <4> HIDE DEF At
      <4> QED
        BY <1>7, <3>2
    <3> DEFINE path == paths[n + 1]
               c == d[path]
    <3>4. c.script \in Seq(Signs) /\ Run(o, FileLines(path, c), r)
      BY <1>3, <1>4, <2>1, <3>2
    <3>5. DOMAIN o = ParserFields /\ IsSeq(o.files) /\ Len(o.files) = n
      BY <3>3 DEF FilesAre
    <3> HIDE DEF path, c
    <3>6. DOMAIN r = ParserFields
      BY <3>4, <3>5, FileParsed
    <3>7. PICK g : r.files = Append(o.files, g) /\ FileIs(g, path, c)
      BY <3>4, <3>5, FileParsed
    <3>8. /\ IsSeq(r.files) /\ Len(r.files) = n + 1 /\ r.files[n + 1] = g
          /\ \A i \in 1..n : r.files[i] = o.files[i]
      BY <3>5, <3>7, AppendFacts
    <3>9. ASSUME NEW i \in 1..(n + 1) PROVE FileIs(r.files[i], InDiff(d)[i], d[InDiff(d)[i]])
      <4>1. i = n + 1 \/ i \in 1..n
        BY <2>1
      <4>2. CASE i = n + 1
        BY <3>7, <3>8, <4>2 DEF path, c, paths
      <4>3. CASE i \in 1..n
        BY <3>3, <3>8, <4>3 DEF FilesAre
      <4> QED
        BY <4>1, <4>2, <4>3
    <3>10. FilesAre(r.files, d, n + 1)
      BY <3>8, <3>9 DEF FilesAre
    <3> QED
      BY <3>6, <3>10
  <2> HIDE DEF At
  <2> QED
    BY <2>1, <2>2
<1> HIDE DEF S
<1>8. \A n \in 0..K : n \in S
  BY <1>1, <1>6, <1>7, CountingUp
<1>9. K \in S
  BY <1>1, <1>8
<1>10. IsSeq(Patch(d))
  <2>1. K \in 0..K
    BY <1>1
  <2> QED
    BY <1>2, <1>5, <2>1
<1>11. PICK q : Run(ParseStart, Patch(d), q) /\ ParseDiff(Patch(d)) = q.files
  BY <1>10, ParseRuns
<1>12. At(q, K)
  <2> HIDE DEF At
  <2>1. Run(ParseStart, flat[K], q)
    BY <1>2, <1>5, <1>11
  <2> QED
    BY <1>9, <2>1 DEF S
<1> QED
  BY <1>11, <1>12 DEF K, paths

-----------------------------------------------------------------------------
(* DiffPage: what is named, and what it is a name of.                      *)

\* The list the page has now, and what a button of a diff stands for.
OwnList == Listed(document.files, Untracked(document.diff))
OfButton(revision, selection, saw) ==
    \E b \in Buttons(ParseDiff(Patch(revision))) : b.selection = selection /\ b.saw = saw

Whole(d) == d = [p \in Path |-> d[p]]

DiffTypes ==
    /\ toPage \in Seq(ToSet(toPage)) /\ toOwner \in Seq(ToSet(toOwner))
    /\ DOMAIN owner = {"snapshot", "loading", "reading", "loaded", "list", "pending"}
    /\ DOMAIN document = {"diff", "files", "shown"}
    /\ DOMAIN discard = {"at", "revision", "selection", "saw", "patch"}
    /\ owner.loaded \in BOOLEAN /\ owner.loading \in BOOLEAN
    /\ Whole(disk) /\ (owner.snapshot = NoDiff \/ Whole(owner.snapshot))
    /\ owner.loading => Whole(owner.reading)
    /\ \A i \in DOMAIN toPage : toPage[i].k \in {"render", "reveal"}
    /\ \A i \in DOMAIN toOwner : toOwner[i].type \in {"ready", "files", "discard"}

Renders == {i \in DOMAIN toPage : toPage[i].k = "render"}
FileLists == {i \in DOMAIN toOwner : toOwner[i].type = "files"}

\* The page that is not ready has had no script; its last word is that it is.
ReadyLast ==
    /\ ~owner.loaded =>
        /\ toPage = <<>> /\ document = Fresh /\ toOwner # <<>>
        /\ \A i \in DOMAIN toOwner : toOwner[i].type = "ready" <=> i = Len(toOwner)
    /\ owner.loaded => \A i \in DOMAIN toOwner : toOwner[i].type # "ready"

\* Nothing is drawn, sent or listed of no diff.
DrawnOfDiff ==
    /\ \A i \in Renders : toPage[i].diff # NoDiff
    /\ owner.snapshot = NoDiff =>
        owner.list = <<>> /\ FileLists = {} /\ Renders = {} /\ document.diff = NoDiff

\* The list the app has, or the last on its way to it, is the page's own, unless
\* the page is still to be drawn.
ListFollows ==
    /\ document.diff # NoDiff =>
        /\ document.files = ParseDiff(Patch(document.diff))
        /\ FileLists = {} => owner.list = OwnList
        /\ \A i \in FileLists : (\A j \in FileLists : j <= i) => toOwner[i].list = OwnList
    /\ owner.loaded /\ document.diff = NoDiff =>
        FileLists = {} /\ (owner.list = <<>> \/ Renders # {})

\* A row on its way that is current is a row of the page as it is drawn now.
RevealsOwn ==
    /\ \A i \in DOMAIN toPage : toPage[i].k = "reveal" /\ toPage[i].current =>
        /\ \A j \in Renders : j > i
        /\ \E n \in DOMAIN OwnList : toPage[i].row = OwnList[n]
    /\ document.shown.current => \E n \in DOMAIN OwnList :
        /\ document.shown.wanted = OwnList[n].path
        /\ document.shown.target = Target(document.files, Untracked(document.diff),
                                          OwnList[n].kind, OwnList[n].index)

\* What is to be discarded is what a button of its revision stood for.
DiscardsNamed ==
    /\ \A i \in DOMAIN toOwner : toOwner[i].type = "discard" =>
        OfButton(toOwner[i].revision, toOwner[i].selection, toOwner[i].saw)
    /\ discard.at # "none" => OfButton(discard.revision, discard.selection, discard.saw)

DiffInv == DiffTypes /\ ReadyLast /\ DrawnOfDiff /\ ListFollows /\ RevealsOwn /\ DiscardsNamed

\* What is on its way, and one thing more.
LEMMA AppendAny ==
    ASSUME NEW s, s \in Seq(ToSet(s)), NEW e
    PROVE  LET n == Len(s) + 1
               a == Append(s, e)
           IN  /\ a \in Seq(ToSet(a)) /\ Len(a) = n /\ DOMAIN a = 1..n /\ n \in Nat \ {0} /\ a # <<>>
               /\ DOMAIN s = 1..Len(s) /\ Len(s) \in Nat /\ \A i \in DOMAIN s : a[i] = s[i] /\ i < n
               /\ a[n] = e /\ \A i \in DOMAIN a : i \in DOMAIN s \/ i = n
<1> DEFINE S == ToSet(s) \cup {e}
           n == Len(s) + 1
           a == Append(s, e)
<1>1. s \in Seq(S)
  BY DEF ToSet
<1> HIDE DEF S
<1>2. e \in S
  BY DEF S
<1>3. /\ a \in Seq(S) /\ Len(a) = n /\ DOMAIN a = 1..n /\ n \in Nat \ {0} /\ DOMAIN s = 1..Len(s)
      /\ Len(s) \in Nat /\ \A i \in DOMAIN s : a[i] = s[i] /\ i < n
      /\ a[n] = e /\ \A i \in DOMAIN a : i \in DOMAIN s \/ i = n
  BY <1>1, <1>2
<1> HIDE DEF a
<1>4. a \in Seq(ToSet(a)) /\ a # <<>>
  BY <1>3 DEF ToSet
<1> QED
  BY <1>3, <1>4 DEF a

\* What is on its way, without the first.
LEMMA TailAny ==
    ASSUME NEW s, s \in Seq(ToSet(s)), s # <<>>
    PROVE  LET a == Tail(s)
           IN  /\ a \in Seq(ToSet(a)) /\ Len(a) = Len(s) - 1 /\ DOMAIN a = 1..(Len(s) - 1)
               /\ DOMAIN s = 1..Len(s) /\ Len(s) \in Nat \ {0} /\ Head(s) = s[1] /\ 1 \in DOMAIN s
               /\ \A i \in DOMAIN a : i + 1 \in DOMAIN s /\ a[i] = s[i + 1]
               /\ \A j \in DOMAIN s : j # 1 => j - 1 \in DOMAIN a /\ a[j - 1] = s[j]
<1> DEFINE a == Tail(s)
<1>1. /\ a \in Seq(ToSet(s)) /\ Len(a) = Len(s) - 1 /\ DOMAIN a = 1..(Len(s) - 1)
      /\ DOMAIN s = 1..Len(s) /\ Len(s) \in Nat \ {0} /\ Head(s) = s[1] /\ 1 \in DOMAIN s
      /\ \A i \in DOMAIN a : i + 1 \in DOMAIN s /\ a[i] = s[i + 1]
  OBVIOUS
<1> HIDE DEF a
<1>2. \A j \in DOMAIN s : j # 1 => j - 1 \in DOMAIN a /\ a[j - 1] = s[j]
  <2> TAKE j \in DOMAIN s
  <2> HAVE j # 1
  <2>1. j - 1 \in DOMAIN a /\ (j - 1) + 1 = j
    BY <1>1
  <2> QED
    BY <1>1, <2>1
<1>3. a \in Seq(ToSet(a))
  <2>1. \A i \in DOMAIN a : a[i] \in ToSet(a)
    BY DEF ToSet
  <2> QED
    BY <1>1, <2>1
<1> QED
  BY <1>1, <1>2, <1>3 DEF a

\* The page, its list and what is on its way are as they were.
LEMMA SamePage ==
    ASSUME ReadyLast, DrawnOfDiff, ListFollows, RevealsOwn, UNCHANGED <<document, toPage, toOwner>>,
           owner'.loaded = owner.loaded, owner'.list = owner.list,
           owner'.snapshot = NoDiff => owner.snapshot = NoDiff
    PROVE  ReadyLast' /\ DrawnOfDiff' /\ ListFollows' /\ RevealsOwn'
<1>1. ReadyLast' /\ DrawnOfDiff'
  BY DEF ReadyLast, DrawnOfDiff, Renders, FileLists
<1>2. ListFollows' /\ RevealsOwn'
  BY DEF ListFollows, RevealsOwn, Renders, FileLists, OwnList
<1> QED
  BY <1>1, <1>2

\* A row of the page's own list is sent to be revealed, or one that is not
\* current.
LEMMA RevealPosted ==
    ASSUME DiffTypes, RevealsOwn, UNCHANGED document, NEW e, toPage' = Append(toPage, e), e.k = "reveal",
           e.current => Renders = {} /\ \E n \in DOMAIN OwnList : e.row = OwnList[n]
    PROVE  /\ toPage' \in Seq(ToSet(toPage')) /\ RevealsOwn' /\ Renders' = Renders
           /\ \A i \in Renders : toPage'[i] = toPage[i]
           /\ \A i \in DOMAIN toPage' : toPage'[i].k \in {"render", "reveal"}
<1> DEFINE n == Len(toPage) + 1
<1>1. /\ toPage' \in Seq(ToSet(toPage')) /\ DOMAIN toPage' = 1..n /\ toPage'[n] = e /\ n \in Nat
      /\ DOMAIN toPage = 1..Len(toPage) /\ Len(toPage) \in Nat
      /\ \A i \in DOMAIN toPage : toPage'[i] = toPage[i] /\ i < n
      /\ \A i \in DOMAIN toPage' : i \in DOMAIN toPage \/ i = n
  BY AppendAny DEF DiffTypes
<1>2. DOMAIN toPage \subseteq DOMAIN toPage' /\ OwnList' = OwnList
  BY <1>1 DEF OwnList
<1>3. Renders' = Renders
  BY <1>1, <1>2 DEF Renders
<1>4. \A i \in DOMAIN toPage' : toPage'[i].k \in {"render", "reveal"}
  BY <1>1 DEF DiffTypes
<1>5. ASSUME NEW i \in DOMAIN toPage', toPage'[i].k = "reveal", toPage'[i].current
      PROVE  (\A j \in Renders : j > i) /\ \E m \in DOMAIN OwnList : toPage'[i].row = OwnList[m]
  BY <1>1, <1>5 DEF RevealsOwn
<1>6. RevealsOwn'
  BY <1>2, <1>3, <1>5 DEF RevealsOwn
<1> QED
  BY <1>1, <1>3, <1>4, <1>6 DEF Renders

\* A diff is sent to be drawn.
LEMMA RenderPosted ==
    ASSUME DiffTypes, RevealsOwn, UNCHANGED document, NEW d, d # NoDiff,
           toPage' = Append(toPage, RenderScript(d)), \A i \in Renders : toPage[i].diff # NoDiff
    PROVE  /\ toPage' \in Seq(ToSet(toPage')) /\ RevealsOwn' /\ Renders' # {}
           /\ \A i \in Renders' : toPage'[i].diff # NoDiff
           /\ \A i \in DOMAIN toPage' : toPage'[i].k \in {"render", "reveal"}
<1> DEFINE n == Len(toPage) + 1
           e == RenderScript(d)
<1>1. e.k = "render" /\ e.diff = d
  BY DEF RenderScript
<1> HIDE DEF e
<1>2. /\ toPage' \in Seq(ToSet(toPage')) /\ DOMAIN toPage' = 1..n /\ toPage'[n] = e /\ n \in Nat
      /\ DOMAIN toPage = 1..Len(toPage) /\ Len(toPage) \in Nat /\ n \in DOMAIN toPage'
      /\ \A i \in DOMAIN toPage : toPage'[i] = toPage[i] /\ i < n
      /\ \A i \in DOMAIN toPage' : i \in DOMAIN toPage \/ i = n
  BY AppendAny DEF DiffTypes, e
<1>3. OwnList' = OwnList
  BY DEF OwnList
<1>4. \A i \in Renders' : i \in Renders \/ i = n
  BY <1>2 DEF Renders
<1>5. \A i \in DOMAIN toPage' : toPage'[i].k \in {"render", "reveal"}
  BY <1>1, <1>2 DEF DiffTypes
<1>6. ASSUME NEW i \in DOMAIN toPage', toPage'[i].k = "reveal", toPage'[i].current
      PROVE  (\A j \in Renders' : j > i) /\ \E m \in DOMAIN OwnList : toPage'[i].row = OwnList[m]
  <2>1. i \in DOMAIN toPage /\ toPage'[i] = toPage[i] /\ i < n
    BY <1>1, <1>2, <1>6
  <2> QED
    BY <1>4, <1>6, <2>1 DEF RevealsOwn
<1>7. RevealsOwn'
  BY <1>3, <1>6 DEF RevealsOwn
<1>8. n \in Renders'
  BY <1>1, <1>2 DEF Renders
<1>9. \A i \in Renders' : toPage'[i].diff # NoDiff
  BY <1>1, <1>2, <1>4 DEF Renders
<1> QED
  BY <1>2, <1>5, <1>7, <1>8, <1>9

\* The page's first message is taken off.
LEMMA MessageTaken ==
    ASSUME DiffTypes, toOwner # <<>>, toOwner' = Tail(toOwner)
    PROVE  /\ toOwner' \in Seq(ToSet(toOwner')) /\ 1 \in DOMAIN toOwner /\ Head(toOwner) = toOwner[1]
           /\ DOMAIN toOwner = 1..Len(toOwner) /\ Len(toOwner) \in Nat \ {0}
           /\ Len(toOwner') = Len(toOwner) - 1 /\ DOMAIN toOwner' = 1..(Len(toOwner) - 1)
           /\ \A i \in DOMAIN toOwner' : i + 1 \in DOMAIN toOwner /\ toOwner'[i] = toOwner[i + 1]
           /\ \A i \in FileLists' : i + 1 \in FileLists /\ i \in Nat
           /\ \A j \in FileLists : j \in Nat /\ (j # 1 => j - 1 \in FileLists')
<1>1. /\ toOwner' \in Seq(ToSet(toOwner')) /\ 1 \in DOMAIN toOwner /\ Head(toOwner) = toOwner[1]
      /\ DOMAIN toOwner = 1..Len(toOwner) /\ Len(toOwner) \in Nat \ {0}
      /\ Len(toOwner') = Len(toOwner) - 1 /\ DOMAIN toOwner' = 1..(Len(toOwner) - 1)
      /\ \A i \in DOMAIN toOwner' : i + 1 \in DOMAIN toOwner /\ toOwner'[i] = toOwner[i + 1]
      /\ \A j \in DOMAIN toOwner : j # 1 => j - 1 \in DOMAIN toOwner' /\ toOwner'[j - 1] = toOwner[j]
  BY TailAny DEF DiffTypes
<1>2. \A i \in FileLists' : i + 1 \in FileLists /\ i \in Nat
  BY <1>1 DEF FileLists
<1>3. \A j \in FileLists : j \in Nat /\ (j # 1 => j - 1 \in FileLists')
  BY <1>1 DEF FileLists
<1> QED
  BY <1>1, <1>2, <1>3

-----------------------------------------------------------------------------
\* The page draws a diff: its list goes after the others.
LEMMA DrawStep ==
    ASSUME DiffInv, RunScript, Head(toPage).k = "render", Head(toPage).diff # document.diff
    PROVE  DiffInv'
<1> DEFINE d == Head(toPage).diff
           files == ParseDiff(Patch(d))
           list == Listed(files, Untracked(d))
           n == Len(toOwner) + 1
<1>1. DiffTypes /\ ReadyLast /\ DrawnOfDiff /\ ListFollows /\ RevealsOwn /\ DiscardsNamed
  BY DEF DiffInv
<1>2. /\ toPage # <<>> /\ toPage' = Tail(toPage) /\ UNCHANGED <<disk, owner, discard>>
      /\ document' = [diff |-> d, files |-> files, shown |-> Nowhere]
      /\ toOwner' = Append(toOwner, [type |-> "files", list |-> list])
  BY DEF RunScript, Render
<1>3. /\ document'.diff = d /\ document'.files = files /\ document'.shown = Nowhere
      /\ DOMAIN document' = {"diff", "files", "shown"}
  BY <1>2
<1>4. /\ toPage' \in Seq(ToSet(toPage')) /\ Head(toPage) = toPage[1] /\ 1 \in DOMAIN toPage
      /\ \A i \in DOMAIN toPage' : i + 1 \in DOMAIN toPage /\ toPage'[i] = toPage[i + 1]
      /\ DOMAIN toPage' = 1..(Len(toPage) - 1) /\ Len(toPage) \in Nat
  BY <1>1, <1>2, TailAny DEF DiffTypes
<1>5. 1 \in Renders /\ d # NoDiff
  BY <1>1, <1>4 DEF Renders, DrawnOfDiff
<1>6. owner.loaded /\ owner.snapshot # NoDiff
  BY <1>1, <1>2, <1>5 DEF ReadyLast, DrawnOfDiff
<1>7. OwnList' = list
  BY <1>3 DEF OwnList
<1> DEFINE e == [type |-> "files", list |-> list]
<1>8. e.type = "files" /\ e.list = list
  OBVIOUS
<1> HIDE DEF e, list, files, d
<1>9. /\ toOwner' \in Seq(ToSet(toOwner')) /\ DOMAIN toOwner' = 1..n /\ toOwner'[n] = e /\ n \in Nat
      /\ DOMAIN toOwner = 1..Len(toOwner) /\ Len(toOwner) \in Nat /\ n \in DOMAIN toOwner'
      /\ \A i \in DOMAIN toOwner : toOwner'[i] = toOwner[i] /\ i < n
      /\ \A i \in DOMAIN toOwner' : i \in DOMAIN toOwner \/ i = n
  BY <1>1, <1>2, AppendAny DEF DiffTypes, e
<1>10. DiffTypes'
  <2>1. \A i \in DOMAIN toPage' : toPage'[i].k \in {"render", "reveal"}
    BY <1>1, <1>4 DEF DiffTypes
  <2>2. \A i \in DOMAIN toOwner' : toOwner'[i].type \in {"ready", "files", "discard"}
    BY <1>1, <1>8, <1>9 DEF DiffTypes
  <2> QED
    BY <1>1, <1>2, <1>3, <1>4, <1>9, <2>1, <2>2 DEF DiffTypes
<1>11. ReadyLast'
  BY <1>1, <1>2, <1>6, <1>8, <1>9 DEF ReadyLast
<1>12. \A i \in Renders' : i + 1 \in Renders /\ toPage'[i] = toPage[i + 1]
  BY <1>4 DEF Renders
<1>13. DrawnOfDiff'
  BY <1>1, <1>2, <1>6, <1>12 DEF DrawnOfDiff
<1>14. ListFollows'
  <2>1. n \in FileLists' /\ \A i \in FileLists' : i <= n
    BY <1>8, <1>9 DEF FileLists
  <2>2. ASSUME NEW i \in FileLists', \A j \in FileLists' : j <= i PROVE toOwner'[i].list = OwnList'
    <3>1. i = n
      <4>1. i \in Nat /\ n <= i /\ i <= n
        BY <1>9, <2>1, <2>2 DEF FileLists
      <4> QED
        BY <1>9, <4>1
    <3> QED
      BY <1>7, <1>8, <1>9, <3>1
  <2>3. document'.files = ParseDiff(Patch(document'.diff)) /\ document'.diff # NoDiff
    BY <1>3, <1>5 DEF files
  <2> QED
    BY <2>1, <2>2, <2>3 DEF ListFollows
<1>15. RevealsOwn'
  <2>1. ~document'.shown.current
    BY <1>3 DEF Nowhere
  <2>2. ASSUME NEW i \in DOMAIN toPage', toPage'[i].k = "reveal", toPage'[i].current PROVE FALSE
    <3>1. i + 1 \in DOMAIN toPage /\ toPage[i + 1].k = "reveal" /\ toPage[i + 1].current /\ i \in Nat
      BY <1>4, <2>2
    <3>2. 1 > i + 1
      BY <1>1, <1>5, <3>1 DEF RevealsOwn
    <3> QED
      BY <3>1, <3>2
  <2> QED
    BY <2>1, <2>2 DEF RevealsOwn
<1>16. DiscardsNamed'
  BY <1>1, <1>2, <1>8, <1>9 DEF DiscardsNamed
<1> QED
  BY <1>10, <1>11, <1>13, <1>14, <1>15, <1>16 DEF DiffInv

\* The page has nothing to draw, or reveals a row.
LEMMA ShowStep ==
    ASSUME DiffInv, RunScript, ~(Head(toPage).k = "render" /\ Head(toPage).diff # document.diff)
    PROVE  DiffInv'
<1> DEFINE e == Head(toPage)
<1>1. DiffTypes /\ ReadyLast /\ DrawnOfDiff /\ ListFollows /\ RevealsOwn /\ DiscardsNamed
  BY DEF DiffInv
<1>2. /\ toPage # <<>> /\ toPage' = Tail(toPage) /\ UNCHANGED <<disk, owner, discard, toOwner>>
  BY DEF RunScript, Render, Reveal
<1>3. /\ toPage' \in Seq(ToSet(toPage')) /\ e = toPage[1] /\ 1 \in DOMAIN toPage
      /\ \A i \in DOMAIN toPage' : i + 1 \in DOMAIN toPage /\ toPage'[i] = toPage[i + 1]
      /\ \A j \in DOMAIN toPage : j # 1 => j - 1 \in DOMAIN toPage' /\ toPage'[j - 1] = toPage[j]
      /\ DOMAIN toPage' = 1..(Len(toPage) - 1) /\ Len(toPage) \in Nat
  BY <1>1, <1>2, TailAny DEF DiffTypes
<1>4. owner.loaded
  BY <1>1, <1>2 DEF ReadyLast
<1>5. /\ document'.diff = document.diff /\ document'.files = document.files
      /\ DOMAIN document' = {"diff", "files", "shown"} /\ OwnList' = OwnList
  <2>1. document' = document \/ \E x : document' = [document EXCEPT !.shown = x]
    BY DEF RunScript, Render, Reveal
  <2>2. document'.diff = document.diff /\ document'.files = document.files
        /\ DOMAIN document' = {"diff", "files", "shown"}
    BY <1>1, <2>1 DEF DiffTypes
  <2> QED
    BY <2>2 DEF OwnList
<1>6. DiffTypes'
  <2>1. \A i \in DOMAIN toPage' : toPage'[i].k \in {"render", "reveal"}
    BY <1>1, <1>3 DEF DiffTypes
  <2> QED
    BY <1>1, <1>2, <1>3, <1>5, <2>1 DEF DiffTypes
<1>7. ReadyLast' /\ DiscardsNamed'
  BY <1>1, <1>2, <1>4 DEF ReadyLast, DiscardsNamed
<1>8. /\ \A i \in Renders' : i + 1 \in Renders /\ toPage'[i] = toPage[i + 1] /\ i \in Nat
      /\ \A j \in Renders : j # 1 => j - 1 \in Renders'
  BY <1>3 DEF Renders
<1>9. FileLists' = FileLists
  BY <1>2 DEF FileLists
<1>10. DrawnOfDiff'
  BY <1>1, <1>2, <1>5, <1>8, <1>9 DEF DrawnOfDiff
<1>11. ListFollows'
  <2>1. document.diff = NoDiff /\ Renders # {} => Renders' # {}
    <3> SUFFICES ASSUME document.diff = NoDiff, Renders # {} PROVE Renders' # {}
      OBVIOUS
    <3>1. 1 \notin Renders
      BY <1>1, <1>3 DEF DrawnOfDiff, Renders
    <3> QED
      BY <1>8, <3>1
  <2> QED
    BY <1>1, <1>2, <1>5, <1>9, <2>1 DEF ListFollows
<1>12. RevealsOwn'
  <2>1. ASSUME NEW i \in DOMAIN toPage', toPage'[i].k = "reveal", toPage'[i].current
        PROVE  (\A j \in Renders' : j > i) /\ \E m \in DOMAIN OwnList : toPage'[i].row = OwnList[m]
    <3>1. /\ \A j \in Renders : j > i + 1
          /\ \E m \in DOMAIN OwnList : toPage[i + 1].row = OwnList[m]
      BY <1>1, <1>3, <2>1 DEF RevealsOwn
    <3>2. i \in Nat
      BY <1>3
    <3> QED
      BY <1>3, <1>8, <3>1, <3>2
  <2>2. ASSUME document'.shown.current
        PROVE  \E n \in DOMAIN OwnList :
                  /\ document'.shown.wanted = OwnList[n].path
                  /\ document'.shown.target = Target(document.files, Untracked(document.diff),
                                                     OwnList[n].kind, OwnList[n].index)
    <3>1. CASE document' = document
      BY <1>1, <2>2, <3>1 DEF RevealsOwn
    <3>2. CASE Reveal(e) /\ e.k = "reveal"
      <4> DEFINE x == [target |-> Target(document.files, Untracked(document.diff), e.row.kind, e.row.index),
                       wanted |-> e.row.path, current |-> e.current]
      <4>1. document'.shown = x
        BY <1>1, <3>2 DEF Reveal, DiffTypes
      <4>2. e.current
        BY <2>2, <4>1
      <4>3. PICK n \in DOMAIN OwnList : e.row = OwnList[n]
        BY <1>1, <1>3, <3>2, <4>2 DEF RevealsOwn
      <4> QED
        BY <4>1, <4>3
    <3> QED
      BY <1>1, <1>3, <3>1, <3>2 DEF RunScript, Render, DiffTypes
  <2> QED
    BY <1>5, <2>1, <2>2 DEF RevealsOwn
<1> QED
  BY <1>6, <1>7, <1>10, <1>11, <1>12 DEF DiffInv

\* A load that has no file finds what a load without files found before.
LEMMA NoneFound ==
    ASSUME NEW d, NEW s, Whole(d), d = NoDiff, s = NoDiff \/ Whole(s)
    PROVE  s = NoDiff
<1>1. DOMAIN d = Path /\ DOMAIN NoDiff = {}
  BY DEF Whole, NoDiff
<1>2. Path = {}
  BY <1>1
<1>3. CASE Whole(s)
  <2>1. s = [p \in {} |-> s[p]]
    BY <1>2, <1>3 DEF Whole
  <2>2. s = [p \in {} |-> {}]
    BY <2>1
  <2> QED
    BY <2>2 DEF NoDiff
<1> QED
  BY <1>3

\* A button is pressed.
LEMMA ClickStep ==
    ASSUME DiffInv, ClickDiscard
    PROVE  DiffInv'
<1>1. DiffTypes /\ ReadyLast /\ DrawnOfDiff /\ ListFollows /\ RevealsOwn /\ DiscardsNamed
  BY DEF DiffInv
<1>2. PICK b \in Buttons(document.files) :
        toOwner' = Append(toOwner, [type |-> "discard", selection |-> b.selection,
                                    saw |-> b.saw, revision |-> Revision(document.diff)])
  BY DEF ClickDiscard
<1>3. document.diff # NoDiff /\ UNCHANGED <<disk, owner, document, toPage, discard>>
  BY DEF ClickDiscard
<1> DEFINE n == Len(toOwner) + 1
           e == [type |-> "discard", selection |-> b.selection, saw |-> b.saw,
                 revision |-> Revision(document.diff)]
<1>4. e.type = "discard" /\ e.selection = b.selection /\ e.saw = b.saw /\ e.revision = Revision(document.diff)
  OBVIOUS
<1>5. toOwner' = Append(toOwner, e)
  BY <1>2
<1> HIDE DEF e
<1>6. /\ toOwner' \in Seq(ToSet(toOwner')) /\ DOMAIN toOwner' = 1..n /\ toOwner'[n] = e /\ n \in Nat
      /\ DOMAIN toOwner = 1..Len(toOwner) /\ Len(toOwner) \in Nat /\ n \in DOMAIN toOwner'
      /\ \A i \in DOMAIN toOwner : toOwner'[i] = toOwner[i] /\ i < n
      /\ \A i \in DOMAIN toOwner' : i \in DOMAIN toOwner \/ i = n
  BY <1>1, <1>5, AppendAny DEF DiffTypes
<1>7. owner.loaded
  <2>1. document # Fresh
    BY <1>3 DEF Fresh
  <2> QED
    BY <1>1, <2>1 DEF ReadyLast
<1>8. /\ FileLists' = FileLists /\ \A i \in FileLists : toOwner'[i] = toOwner[i]
      /\ Renders' = Renders /\ OwnList' = OwnList
  BY <1>3, <1>4, <1>6 DEF FileLists, Renders, OwnList
<1>9. DiffTypes'
  <2>1. \A i \in DOMAIN toOwner' : toOwner'[i].type \in {"ready", "files", "discard"}
    BY <1>1, <1>4, <1>6 DEF DiffTypes
  <2> QED
    BY <1>1, <1>3, <1>6, <2>1 DEF DiffTypes
<1>10. ReadyLast'
  BY <1>1, <1>3, <1>4, <1>6, <1>7 DEF ReadyLast
<1>11. DrawnOfDiff'
  BY <1>1, <1>3, <1>8 DEF DrawnOfDiff
<1>12. ListFollows'
  BY <1>1, <1>3, <1>8 DEF ListFollows
<1>13. RevealsOwn'
  BY <1>1, <1>3, <1>8 DEF RevealsOwn
<1>14. DiscardsNamed'
  <2>1. OfButton(e.revision, e.selection, e.saw)
    BY <1>1, <1>3, <1>4, RevisionPatch DEF OfButton, ListFollows
  <2>2. \A i \in DOMAIN toOwner' : toOwner'[i].type = "discard" =>
            OfButton(toOwner'[i].revision, toOwner'[i].selection, toOwner'[i].saw)
    BY <1>1, <1>6, <2>1 DEF DiscardsNamed
  <2> QED
    BY <1>1, <1>3, <2>2 DEF DiscardsNamed
<1> QED
  BY <1>9, <1>10, <1>11, <1>12, <1>13, <1>14 DEF DiffInv

\* A load begins, or the worktree is written to.
LEMMA DiskStep ==
    ASSUME DiffInv, StartLoad \/ \E p \in Path, c \in Change : EditDisk(p, c)
    PROVE  DiffInv'
<1>1. DiffTypes /\ ReadyLast /\ DrawnOfDiff /\ ListFollows /\ RevealsOwn /\ DiscardsNamed
  BY DEF DiffInv
<1>2. UNCHANGED <<document, toPage, toOwner, discard>>
  BY DEF StartLoad, EditDisk
<1>3. /\ owner'.loaded = owner.loaded /\ owner'.list = owner.list /\ owner'.snapshot = owner.snapshot
      /\ DOMAIN owner' = DOMAIN owner /\ owner'.loading \in BOOLEAN
      /\ Whole(disk') /\ (owner'.loading => Whole(owner'.reading))
  <2>1. CASE StartLoad
    <3>1. owner' = [owner EXCEPT !.loading = TRUE, !.reading = disk] /\ disk' = disk
      BY <2>1 DEF StartLoad
    <3>2. /\ owner'.loaded = owner.loaded /\ owner'.list = owner.list /\ owner'.snapshot = owner.snapshot
          /\ DOMAIN owner' = DOMAIN owner /\ owner'.loading = TRUE /\ owner'.reading = disk
      BY <1>1, <3>1 DEF DiffTypes
    <3> QED
      BY <1>1, <3>1, <3>2 DEF DiffTypes
  <2>2. ASSUME NEW p \in Path, NEW c \in Change, EditDisk(p, c)
        PROVE  Whole(disk') /\ owner' = owner
    BY <1>1, <2>2 DEF EditDisk, DiffTypes, Whole
  <2> QED
    BY <1>1, <2>1, <2>2 DEF DiffTypes
<1>4. ReadyLast' /\ DrawnOfDiff' /\ ListFollows' /\ RevealsOwn'
  BY <1>1, <1>2, <1>3, SamePage
<1>5. DiffTypes' /\ DiscardsNamed'
  BY <1>1, <1>2, <1>3 DEF DiffTypes, DiscardsNamed
<1> QED
  BY <1>4, <1>5 DEF DiffInv

\* A proposal is looked up, answered, checked or applied.
LEMMA DiscardStep ==
    ASSUME DiffInv, Previewed \/ Answer \/ RevisionChecked \/ GitApplies
    PROVE  DiffInv'
<1>1. DiffTypes /\ ReadyLast /\ DrawnOfDiff /\ ListFollows /\ RevealsOwn /\ DiscardsNamed
  BY DEF DiffInv
<1>2. UNCHANGED <<document, toPage, toOwner>>
  BY DEF Previewed, Answer, RevisionChecked, GitApplies, Refused
<1>3. DOMAIN discard' = {"at", "revision", "selection", "saw", "patch"} /\ DiscardsNamed'
  <2>1. \/ discard' = NoDiscard
        \/ \E a : discard' = [discard EXCEPT !.at = a] /\ discard.at # "none"
        \/ \E a, x : discard' = [discard EXCEPT !.at = a, !.patch = x] /\ discard.at # "none"
    BY DEF Previewed, Answer, RevisionChecked, GitApplies, Refused
  <2>2. CASE discard' = NoDiscard
    BY <1>1, <1>2, <2>2 DEF NoDiscard, DiscardsNamed
  <2>3. ASSUME discard.at # "none", NEW a, NEW x,
               \/ discard' = [discard EXCEPT !.at = a]
               \/ discard' = [discard EXCEPT !.at = a, !.patch = x]
        PROVE  DOMAIN discard' = {"at", "revision", "selection", "saw", "patch"} /\ DiscardsNamed'
    <3>1. /\ DOMAIN discard' = {"at", "revision", "selection", "saw", "patch"}
          /\ discard'.revision = discard.revision /\ discard'.selection = discard.selection
          /\ discard'.saw = discard.saw
      BY <1>1, <2>3 DEF DiffTypes
    <3> QED
      BY <1>1, <1>2, <2>3, <3>1 DEF DiscardsNamed
  <2> QED
    BY <2>1, <2>2, <2>3
<1>4. /\ owner'.loaded = owner.loaded /\ owner'.list = owner.list /\ owner'.snapshot = owner.snapshot
      /\ DOMAIN owner' = DOMAIN owner /\ owner'.loading \in BOOLEAN
      /\ Whole(disk') /\ (owner'.loading => Whole(owner'.reading))
  <2>1. CASE Refused \/ \E q, v : disk' = [disk EXCEPT ![q] = v]
                                  /\ owner' = [owner EXCEPT !.loading = TRUE, !.reading = disk']
    <3>1. Whole(disk')
      <4>1. disk' = disk \/ \E q, v : disk' = [disk EXCEPT ![q] = v]
        BY <2>1 DEF Refused
      <4> QED
        BY <1>1, <4>1 DEF DiffTypes, Whole
    <3>2. owner' = [owner EXCEPT !.loading = TRUE, !.reading = disk']
      BY <2>1 DEF Refused
    <3>3. /\ owner'.loaded = owner.loaded /\ owner'.list = owner.list /\ owner'.snapshot = owner.snapshot
          /\ DOMAIN owner' = DOMAIN owner /\ owner'.loading = TRUE /\ owner'.reading = disk'
      BY <1>1, <3>2 DEF DiffTypes
    <3> QED
      BY <3>1, <3>3
  <2>2. CASE UNCHANGED <<owner, disk>>
    BY <1>1, <2>2 DEF DiffTypes
  <2>3. \/ UNCHANGED <<owner, disk>> \/ Refused
        \/ \E q, v : disk' = [disk EXCEPT ![q] = v]
                     /\ owner' = [owner EXCEPT !.loading = TRUE, !.reading = disk']
    BY DEF Previewed, Answer, RevisionChecked, GitApplies
  <2> QED
    BY <2>1, <2>2, <2>3
<1>5. ReadyLast' /\ DrawnOfDiff' /\ ListFollows' /\ RevealsOwn'
  BY <1>1, <1>2, <1>4, SamePage
<1>6. DiffTypes'
  BY <1>1, <1>2, <1>3, <1>4 DEF DiffTypes
<1> QED
  BY <1>3, <1>5, <1>6 DEF DiffInv

\* A load ends, and the page may be told to draw.
LEMMA LoadStep ==
    ASSUME DiffInv, LoadEnds
    PROVE  DiffInv'
<1>1. DiffTypes /\ ReadyLast /\ DrawnOfDiff /\ ListFollows /\ RevealsOwn /\ DiscardsNamed
  BY DEF DiffInv
<1>2. owner.loading /\ UNCHANGED <<disk, document, toOwner, discard>>
  BY DEF LoadEnds
<1>3. DiscardsNamed'
  BY <1>1, <1>2 DEF DiscardsNamed
<1>4. CASE owner' = [owner EXCEPT !.loading = FALSE, !.reading = NoDiff] /\ UNCHANGED toPage
  <2>1. /\ owner'.loaded = owner.loaded /\ owner'.list = owner.list /\ owner'.snapshot = owner.snapshot
        /\ DOMAIN owner' = DOMAIN owner /\ owner'.loading = FALSE
    BY <1>1, <1>4 DEF DiffTypes
  <2>2. ReadyLast' /\ DrawnOfDiff' /\ ListFollows' /\ RevealsOwn'
    BY <1>1, <1>2, <1>4, <2>1, SamePage
  <2>3. DiffTypes'
    BY <1>1, <1>2, <1>4, <2>1 DEF DiffTypes
  <2> QED
    BY <1>3, <2>2, <2>3 DEF DiffInv
<1> DEFINE d == owner.reading
<1>5. CASE /\ owner' = [owner EXCEPT !.loading = FALSE, !.reading = NoDiff, !.snapshot = d]
           /\ toPage' = IF owner.loaded /\ d # owner.snapshot
                        THEN Append(toPage, RenderScript(d)) ELSE toPage
  <2>1. /\ owner'.loaded = owner.loaded /\ owner'.list = owner.list /\ owner'.snapshot = d
        /\ DOMAIN owner' = DOMAIN owner /\ owner'.loading = FALSE
    BY <1>1, <1>5 DEF DiffTypes
  <2>2. Whole(d)
    BY <1>1, <1>2 DEF DiffTypes
  <2> HIDE DEF d
  <2>3. d = NoDiff => owner.snapshot = NoDiff
    BY <1>1, <2>2, NoneFound DEF DiffTypes
  <2>4. CASE owner.loaded /\ d # owner.snapshot
    <3>1. d # NoDiff /\ toPage' = Append(toPage, RenderScript(d))
      BY <1>5, <2>3, <2>4
    <3>2. \A i \in Renders : toPage[i].diff # NoDiff
      BY <1>1 DEF DrawnOfDiff
    <3>3. /\ toPage' \in Seq(ToSet(toPage')) /\ RevealsOwn' /\ Renders' # {}
          /\ \A i \in Renders' : toPage'[i].diff # NoDiff
          /\ \A i \in DOMAIN toPage' : toPage'[i].k \in {"render", "reveal"}
      BY <1>1, <1>2, <3>1, <3>2, RenderPosted
    <3>4. DiffTypes'
      BY <1>1, <1>2, <2>1, <2>2, <3>3 DEF DiffTypes
    <3>5. ReadyLast'
      BY <1>1, <1>2, <2>1, <2>4 DEF ReadyLast
    <3>6. DrawnOfDiff'
      BY <2>1, <3>1, <3>3 DEF DrawnOfDiff
    <3>7. ListFollows'
      BY <1>1, <1>2, <2>1, <2>4, <3>3 DEF ListFollows, FileLists, OwnList
    <3> QED
      BY <1>3, <3>3, <3>4, <3>5, <3>6, <3>7 DEF DiffInv
  <2>5. CASE ~(owner.loaded /\ d # owner.snapshot)
    <3>1. UNCHANGED toPage
      BY <1>5, <2>5
    <3>2. ReadyLast' /\ DrawnOfDiff' /\ ListFollows' /\ RevealsOwn'
      BY <1>1, <1>2, <2>1, <2>3, <3>1, SamePage
    <3>3. DiffTypes'
      BY <1>1, <1>2, <2>1, <2>2, <3>1 DEF DiffTypes
    <3> QED
      BY <1>3, <3>2, <3>3 DEF DiffInv
  <2> QED
    BY <2>4, <2>5
<1> QED
  BY <1>4, <1>5 DEF LoadEnds

\* A row of the app's list is sent to the page.
LEMMA RowStep ==
    ASSUME DiffInv, UNCHANGED <<disk, document, toOwner, discard>>, owner.loaded,
           owner'.loaded = owner.loaded, owner'.list = owner.list, owner'.snapshot = owner.snapshot,
           owner'.loading = owner.loading, owner'.reading = owner.reading, DOMAIN owner' = DOMAIN owner,
           NEW i \in DOMAIN owner.list, toPage' = Append(toPage, RevealScript(owner.list[i]))
    PROVE  DiffInv'
<1> DEFINE e == RevealScript(owner.list[i])
<1>1. DiffTypes /\ ReadyLast /\ DrawnOfDiff /\ ListFollows /\ RevealsOwn /\ DiscardsNamed
  BY DEF DiffInv
<1>2. /\ e.k = "reveal" /\ e.row = owner.list[i]
      /\ e.current => /\ \A j \in DOMAIN toPage : toPage[j].k # "render"
                      /\ \A j \in DOMAIN toOwner : toOwner[j].type # "files"
  BY DEF RevealScript
<1>3. toPage' = Append(toPage, e)
  OBVIOUS
<1> HIDE DEF e
<1>4. e.current => Renders = {} /\ FileLists = {}
  BY <1>2 DEF Renders, FileLists
<1>5. e.current => \E n \in DOMAIN OwnList : e.row = OwnList[n]
  <2> SUFFICES ASSUME e.current PROVE \E n \in DOMAIN OwnList : e.row = OwnList[n]
    OBVIOUS
  <2>1. owner.list # <<>>
    OBVIOUS
  <2>2. document.diff # NoDiff
    BY <1>1, <1>4, <2>1 DEF ListFollows
  <2>3. owner.list = OwnList
    BY <1>1, <1>4, <2>2 DEF ListFollows
  <2> QED
    BY <1>2, <2>3
<1>6. /\ toPage' \in Seq(ToSet(toPage')) /\ RevealsOwn' /\ Renders' = Renders
      /\ \A j \in Renders : toPage'[j] = toPage[j]
      /\ \A j \in DOMAIN toPage' : toPage'[j].k \in {"render", "reveal"}
  BY <1>1, <1>2, <1>3, <1>4, <1>5, RevealPosted
<1>7. DiffTypes'
  BY <1>1, <1>6 DEF DiffTypes
<1>8. ReadyLast' /\ DiscardsNamed'
  BY <1>1 DEF ReadyLast, DiscardsNamed
<1>9. FileLists' = FileLists /\ OwnList' = OwnList
  BY DEF FileLists, OwnList
<1>10. DrawnOfDiff' /\ ListFollows'
  BY <1>1, <1>6, <1>9 DEF DrawnOfDiff, ListFollows
<1> QED
  BY <1>6, <1>7, <1>8, <1>10 DEF DiffInv

\* A row is pressed, or a path is asked for.
LEMMA PressStep ==
    ASSUME DiffInv, PressRow \/ \E p \in Path : RevealPath(p)
    PROVE  DiffInv'
<1>1. DiffTypes /\ ReadyLast /\ DrawnOfDiff /\ ListFollows /\ RevealsOwn /\ DiscardsNamed
  BY DEF DiffInv
<1>2. CASE PressRow
  BY <1>1, <1>2, RowStep DEF PressRow
<1>3. ASSUME NEW p \in Path, RevealPath(p) PROVE DiffInv'
  <2>1. UNCHANGED <<disk, document, toOwner, discard>>
    BY <1>3 DEF RevealPath
  <2>2. /\ owner'.loaded = owner.loaded /\ owner'.list = owner.list /\ owner'.snapshot = owner.snapshot
        /\ owner'.loading = owner.loading /\ owner'.reading = owner.reading
        /\ DOMAIN owner' = DOMAIN owner
    <3>1. \E v : owner' = [owner EXCEPT !.pending = v]
      BY <1>3 DEF RevealPath
    <3> QED
      BY <1>1, <3>1 DEF DiffTypes
  <2>3. CASE owner.loaded /\ RowsOf(owner.list, p) # {}
    <3>1. PICK row \in RowsOf(owner.list, p) : toPage' = Append(toPage, RevealScript(row))
      BY <1>3, <2>3 DEF RevealPath
    <3>2. PICK i \in DOMAIN owner.list : row = owner.list[i]
      BY <3>1 DEF RowsOf
    <3> QED
      BY <2>1, <2>2, <2>3, <3>1, <3>2, RowStep
  <2>4. CASE ~(owner.loaded /\ RowsOf(owner.list, p) # {})
    <3>1. UNCHANGED toPage
      BY <1>3, <2>4 DEF RevealPath
    <3>2. ReadyLast' /\ DrawnOfDiff' /\ ListFollows' /\ RevealsOwn'
      BY <1>1, <2>1, <2>2, <3>1, SamePage
    <3>3. DiffTypes' /\ DiscardsNamed'
      BY <1>1, <2>1, <2>2, <3>1 DEF DiffTypes, DiscardsNamed
    <3> QED
      BY <3>2, <3>3 DEF DiffInv
  <2> QED
    BY <2>3, <2>4
<1> QED
  BY <1>2, <1>3

\* The page is ready: it was its last message, and what is drawn first is sent.
LEMMA ReadyStep ==
    ASSUME DiffInv, Receive, Head(toOwner).type = "ready"
    PROVE  DiffInv'
<1>1. DiffTypes /\ ReadyLast /\ DrawnOfDiff /\ ListFollows /\ RevealsOwn /\ DiscardsNamed
  BY DEF DiffInv
<1>2. toOwner # <<>> /\ toOwner' = Tail(toOwner) /\ ReadyArrives /\ UNCHANGED <<disk, document>>
  BY DEF Receive
<1>3. UNCHANGED discard
  BY <1>2 DEF ReadyArrives
<1>4. /\ owner'.loaded = TRUE /\ owner'.list = owner.list /\ owner'.snapshot = owner.snapshot
      /\ owner'.loading = owner.loading /\ owner'.reading = owner.reading /\ DOMAIN owner' = DOMAIN owner
  BY <1>1, <1>2 DEF ReadyArrives, DiffTypes
<1>5. /\ toOwner' \in Seq(ToSet(toOwner')) /\ 1 \in DOMAIN toOwner /\ Head(toOwner) = toOwner[1]
      /\ DOMAIN toOwner = 1..Len(toOwner) /\ Len(toOwner) \in Nat \ {0}
      /\ DOMAIN toOwner' = 1..(Len(toOwner) - 1)
  BY <1>1, <1>2, MessageTaken
<1>6. ~owner.loaded
  BY <1>1, <1>5 DEF ReadyLast
<1>7. /\ toPage = <<>> /\ document = Fresh /\ Len(toOwner) = 1
  BY <1>1, <1>5, <1>6 DEF ReadyLast
<1>8. DOMAIN toOwner' = {}
  BY <1>5, <1>7
<1>9. FileLists' = {} /\ document.diff = NoDiff /\ ~document.shown.current
  BY <1>7, <1>8 DEF FileLists, Fresh, Nowhere
<1>10. Renders = {}
  BY <1>7 DEF Renders
<1>11. DiscardsNamed'
  BY <1>1, <1>3, <1>8 DEF DiscardsNamed
<1>12. ReadyLast'
  BY <1>4, <1>8 DEF ReadyLast
<1>13. CASE owner.snapshot = NoDiff
  <2>1. UNCHANGED toPage
    BY <1>2, <1>13 DEF ReadyArrives
  <2>2. Renders' = {} /\ \A i \in DOMAIN toPage' : FALSE
    BY <1>7, <2>1 DEF Renders
  <2>3. DiffTypes'
    BY <1>1, <1>2, <1>3, <1>4, <1>5, <1>8, <2>1 DEF DiffTypes
  <2>4. owner.list = <<>>
    BY <1>1, <1>13 DEF DrawnOfDiff
  <2>5. DrawnOfDiff'
    BY <1>2, <1>4, <1>9, <2>2, <2>4 DEF DrawnOfDiff
  <2>6. ListFollows'
    BY <1>2, <1>4, <1>9, <2>4 DEF ListFollows
  <2>7. RevealsOwn'
    BY <1>2, <1>9, <2>2 DEF RevealsOwn
  <2> QED
    BY <1>11, <1>12, <2>3, <2>5, <2>6, <2>7 DEF DiffInv
<1>14. CASE owner.snapshot # NoDiff
  <2>1. toPage' = Append(toPage, RenderScript(owner.snapshot))
    BY <1>2, <1>14 DEF ReadyArrives
  <2>2. /\ toPage' \in Seq(ToSet(toPage')) /\ RevealsOwn' /\ Renders' # {}
        /\ \A i \in Renders' : toPage'[i].diff # NoDiff
        /\ \A i \in DOMAIN toPage' : toPage'[i].k \in {"render", "reveal"}
    BY <1>1, <1>2, <1>10, <1>14, <2>1, RenderPosted
  <2>3. DiffTypes'
    BY <1>1, <1>2, <1>3, <1>4, <1>5, <1>8, <2>2 DEF DiffTypes
  <2>4. DrawnOfDiff'
    BY <1>4, <1>14, <2>2 DEF DrawnOfDiff
  <2>5. ListFollows'
    BY <1>2, <1>9, <2>2 DEF ListFollows
  <2> QED
    BY <1>11, <1>12, <2>2, <2>3, <2>4, <2>5 DEF DiffInv
<1> QED
  BY <1>13, <1>14

\* A list arrives, and with it the row that was waited for.
LEMMA FilesStep ==
    ASSUME DiffInv, Receive, Head(toOwner).type = "files"
    PROVE  DiffInv'
<1> DEFINE list == Head(toOwner).list
           rows == RowsOf(list, owner.pending)
<1>1. DiffTypes /\ ReadyLast /\ DrawnOfDiff /\ ListFollows /\ RevealsOwn /\ DiscardsNamed
  BY DEF DiffInv
<1>2. /\ toOwner # <<>> /\ toOwner' = Tail(toOwner) /\ FilesArrive(list)
      /\ UNCHANGED <<disk, document>>
  BY DEF Receive
<1>3. UNCHANGED discard
  BY <1>2 DEF FilesArrive
<1>4. /\ owner'.loaded = owner.loaded /\ owner'.list = list /\ owner'.snapshot = owner.snapshot
      /\ owner'.loading = owner.loading /\ owner'.reading = owner.reading /\ DOMAIN owner' = DOMAIN owner
  <2>1. \E v : owner' = [owner EXCEPT !.list = list, !.pending = v]
    BY <1>2 DEF FilesArrive
  <2> QED
    BY <1>1, <2>1 DEF DiffTypes
<1>5. /\ toOwner' \in Seq(ToSet(toOwner')) /\ 1 \in DOMAIN toOwner /\ Head(toOwner) = toOwner[1]
      /\ DOMAIN toOwner = 1..Len(toOwner) /\ Len(toOwner) \in Nat \ {0}
      /\ Len(toOwner') = Len(toOwner) - 1 /\ DOMAIN toOwner' = 1..(Len(toOwner) - 1)
      /\ \A i \in DOMAIN toOwner' : i + 1 \in DOMAIN toOwner /\ toOwner'[i] = toOwner[i + 1]
      /\ \A i \in FileLists' : i + 1 \in FileLists /\ i \in Nat
      /\ \A j \in FileLists : j \in Nat /\ (j # 1 => j - 1 \in FileLists')
  BY <1>1, <1>2, MessageTaken
<1>6. 1 \in FileLists /\ owner.snapshot # NoDiff
  <2>1. 1 \in FileLists
    BY <1>5 DEF FileLists
  <2> QED
    BY <1>1, <2>1 DEF DrawnOfDiff
<1>7. owner.loaded => document.diff # NoDiff
  BY <1>1, <1>6 DEF ListFollows
<1>8. FileLists' = {} => \A j \in FileLists : j = 1
  BY <1>5
<1>9. owner.loaded /\ FileLists' = {} => list = OwnList
  <2> SUFFICES ASSUME owner.loaded, FileLists' = {} PROVE list = OwnList
    OBVIOUS
  <2>1. \A j \in FileLists : j <= 1
    BY <1>5, <1>8
  <2> QED
    BY <1>1, <1>5, <1>6, <1>7, <2>1 DEF ListFollows
<1>10. /\ toPage' \in Seq(ToSet(toPage')) /\ RevealsOwn' /\ Renders' = Renders
       /\ \A i \in Renders : toPage'[i] = toPage[i]
       /\ \A i \in DOMAIN toPage' : toPage'[i].k \in {"render", "reveal"}
       /\ (~owner.loaded => UNCHANGED toPage)
  <2>1. CASE rows # {} /\ owner.loaded
    <3>1. PICK row \in rows :
            toPage' = Append(toPage, [RevealScript(row) EXCEPT
                       !.current = /\ \A i \in DOMAIN toPage : toPage[i].k # "render"
                                   /\ \A i \in 2..Len(toOwner) : toOwner[i].type # "files"])
      BY <1>2, <2>1 DEF FilesArrive
    <3> DEFINE now == /\ \A i \in DOMAIN toPage : toPage[i].k # "render"
                      /\ \A i \in 2..Len(toOwner) : toOwner[i].type # "files"
               e == [RevealScript(row) EXCEPT !.current = now]
    <3>2. now => Renders = {} /\ FileLists' = {}
      <4> SUFFICES ASSUME now PROVE Renders = {} /\ FileLists' = {}
        OBVIOUS
      <4>1. ASSUME NEW i \in FileLists' PROVE FALSE
        <5>1. i + 1 \in 2..Len(toOwner) /\ toOwner[i + 1].type = "files"
          <6>1. i \in DOMAIN toOwner' /\ toOwner'[i].type = "files"
            BY DEF FileLists
          <6> QED
            BY <1>5, <6>1
        <5> QED
          BY <5>1
      <4> QED
        BY <4>1 DEF Renders
    <3>3. now \in BOOLEAN
      OBVIOUS
    <3> HIDE DEF now
    <3>4. e.k = "reveal" /\ e.row = row /\ e.current = now
      BY DEF RevealScript
    <3>5. toPage' = Append(toPage, e)
      BY <3>1 DEF now
    <3> HIDE DEF e
    <3>6. PICK i \in DOMAIN list : row = list[i]
      BY <3>1 DEF RowsOf
    <3>7. e.current => Renders = {} /\ \E n \in DOMAIN OwnList : e.row = OwnList[n]
      <4> SUFFICES ASSUME now PROVE Renders = {} /\ \E n \in DOMAIN OwnList : e.row = OwnList[n]
        BY <3>3, <3>4
      <4>1. list = OwnList
        BY <1>9, <2>1, <3>2
      <4> QED
        BY <3>2, <3>4, <3>6, <4>1
    <3> QED
      BY <1>1, <1>2, <2>1, <3>4, <3>5, <3>7, RevealPosted
  <2>2. CASE ~(rows # {} /\ owner.loaded)
    <3>1. UNCHANGED toPage
      BY <1>2, <2>2 DEF FilesArrive
    <3> QED
      BY <1>1, <1>2, <3>1 DEF RevealsOwn, Renders, OwnList, DiffTypes
  <2> QED
    BY <2>1, <2>2
<1> HIDE DEF list
<1>11. DiffTypes'
  <2>1. \A i \in DOMAIN toOwner' : toOwner'[i].type \in {"ready", "files", "discard"}
    BY <1>1, <1>5 DEF DiffTypes
  <2> QED
    BY <1>1, <1>2, <1>3, <1>4, <1>5, <1>10, <2>1 DEF DiffTypes
<1>12. ReadyLast'
  <2>1. CASE owner.loaded
    BY <1>1, <1>4, <1>5, <2>1 DEF ReadyLast
  <2>2. CASE ~owner.loaded
    <3>1. UNCHANGED <<toPage, document>> /\ toPage = <<>> /\ document = Fresh
      BY <1>1, <1>2, <1>10, <2>2 DEF ReadyLast
    <3>2. \A i \in DOMAIN toOwner : toOwner[i].type = "ready" <=> i = Len(toOwner)
      BY <1>1, <2>2 DEF ReadyLast
    <3>3. Len(toOwner) # 1
      BY <1>5, <3>2
    <3>4. toOwner' # <<>> /\ \A i \in DOMAIN toOwner' : toOwner'[i].type = "ready" <=> i = Len(toOwner')
      <4>1. 1 \in DOMAIN toOwner'
        BY <1>5, <3>3
      <4>2. \A i \in DOMAIN toOwner' : toOwner'[i].type = "ready" <=> i + 1 = Len(toOwner)
        BY <1>5, <3>2
      <4> QED
        BY <1>5, <4>1, <4>2
    <3> QED
      BY <1>4, <2>2, <3>1, <3>4 DEF ReadyLast
  <2> QED
    BY <2>1, <2>2
<1>13. DrawnOfDiff'
  BY <1>1, <1>4, <1>6, <1>10 DEF DrawnOfDiff
<1>14. ListFollows'
  <2>1. OwnList' = OwnList
    BY <1>2 DEF OwnList
  <2>2. document.diff # NoDiff => owner.loaded
    BY <1>1 DEF ReadyLast, Fresh
  <2>3. ASSUME document.diff # NoDiff, NEW i \in FileLists', \A j \in FileLists' : j <= i
        PROVE  toOwner'[i].list = OwnList
    <3>1. i + 1 \in FileLists /\ toOwner'[i] = toOwner[i + 1]
      BY <1>5 DEF FileLists
    <3>2. \A j \in FileLists : j <= i + 1
      <4> TAKE j \in FileLists
      <4>1. CASE j = 1
        BY <1>5, <4>1
      <4>2. CASE j # 1
        <5>1. j - 1 \in FileLists' /\ j \in Nat /\ i \in Nat
          BY <1>5, <4>2
        <5>2. j - 1 <= i
          BY <2>3, <5>1
        <5> QED
          BY <5>1, <5>2
      <4> QED
        BY <4>1, <4>2
    <3> QED
      BY <1>1, <2>3, <3>1, <3>2 DEF ListFollows
  <2> QED
    BY <1>1, <1>2, <1>4, <1>7, <1>9, <2>1, <2>2, <2>3 DEF ListFollows
<1>15. DiscardsNamed'
  BY <1>1, <1>3, <1>5 DEF DiscardsNamed
<1> QED
  BY <1>10, <1>11, <1>12, <1>13, <1>14, <1>15 DEF DiffInv

\* A click arrives: it becomes a proposal, or nothing.
LEMMA ProposalStep ==
    ASSUME DiffInv, Receive, Head(toOwner).type = "discard"
    PROVE  DiffInv'
<1> DEFINE m == Head(toOwner)
<1>1. DiffTypes /\ ReadyLast /\ DrawnOfDiff /\ ListFollows /\ RevealsOwn /\ DiscardsNamed
  BY DEF DiffInv
<1>2. /\ toOwner # <<>> /\ toOwner' = Tail(toOwner) /\ DiscardArrives(m)
      /\ UNCHANGED <<disk, document, owner, toPage>>
  BY DEF Receive, DiscardArrives
<1>3. /\ toOwner' \in Seq(ToSet(toOwner')) /\ 1 \in DOMAIN toOwner /\ m = toOwner[1]
      /\ DOMAIN toOwner = 1..Len(toOwner) /\ Len(toOwner) \in Nat \ {0}
      /\ Len(toOwner') = Len(toOwner) - 1 /\ DOMAIN toOwner' = 1..(Len(toOwner) - 1)
      /\ \A i \in DOMAIN toOwner' : i + 1 \in DOMAIN toOwner /\ toOwner'[i] = toOwner[i + 1]
      /\ \A i \in FileLists' : i + 1 \in FileLists /\ i \in Nat
      /\ \A j \in FileLists : j \in Nat /\ (j # 1 => j - 1 \in FileLists')
  BY <1>1, <1>2, MessageTaken
<1> HIDE DEF m
<1>4. 1 \notin FileLists
  BY <1>3 DEF FileLists, m
<1>5. FileLists' = {} => FileLists = {}
  BY <1>3, <1>4
<1>6. /\ DOMAIN discard' = {"at", "revision", "selection", "saw", "patch"}
      /\ discard'.at # "none" => OfButton(discard'.revision, discard'.selection, discard'.saw)
  <2>1. OfButton(m.revision, m.selection, m.saw)
    BY <1>1, <1>3 DEF DiscardsNamed, m
  <2>2. discard' = discard \/ discard' = [at |-> "asked", revision |-> m.revision,
                                          selection |-> m.selection, saw |-> m.saw,
                                          patch |-> NoPatch]
    BY <1>2 DEF DiscardArrives
  <2> QED
    BY <1>1, <2>1, <2>2 DEF DiffTypes, DiscardsNamed
<1>7. DiffTypes'
  <2>1. \A i \in DOMAIN toOwner' : toOwner'[i].type \in {"ready", "files", "discard"}
    BY <1>1, <1>3 DEF DiffTypes
  <2> QED
    BY <1>1, <1>2, <1>3, <1>6, <2>1 DEF DiffTypes
<1>8. ReadyLast'
  <2>1. CASE owner.loaded
    BY <1>1, <1>2, <1>3, <2>1 DEF ReadyLast
  <2>2. CASE ~owner.loaded
    <3>1. \A i \in DOMAIN toOwner : toOwner[i].type = "ready" <=> i = Len(toOwner)
      BY <1>1, <2>2 DEF ReadyLast
    <3>2. Len(toOwner) # 1
      BY <1>3, <3>1 DEF m
    <3>3. 1 \in DOMAIN toOwner'
      BY <1>3, <3>2
    <3>4. \A i \in DOMAIN toOwner' : toOwner'[i].type = "ready" <=> i + 1 = Len(toOwner)
      BY <1>3, <3>1
    <3>5. toOwner' # <<>> /\ \A i \in DOMAIN toOwner' : toOwner'[i].type = "ready" <=> i = Len(toOwner')
      BY <1>3, <3>3, <3>4
    <3> QED
      BY <1>1, <1>2, <2>2, <3>5 DEF ReadyLast
  <2> QED
    BY <2>1, <2>2
<1>9. Renders' = Renders /\ OwnList' = OwnList
  BY <1>2 DEF Renders, OwnList
<1>10. DrawnOfDiff'
  <2>1. FileLists = {} => FileLists' = {}
    BY <1>3
  <2> QED
    BY <1>1, <1>2, <1>9, <2>1 DEF DrawnOfDiff
<1>11. ListFollows'
  <2>1. ASSUME document.diff # NoDiff, NEW i \in FileLists', \A j \in FileLists' : j <= i
        PROVE  toOwner'[i].list = OwnList
    <3>1. i + 1 \in FileLists /\ toOwner'[i] = toOwner[i + 1]
      BY <1>3 DEF FileLists
    <3>2. \A j \in FileLists : j <= i + 1
      <4> TAKE j \in FileLists
      <4>1. j - 1 \in FileLists' /\ j \in Nat /\ i \in Nat
        BY <1>3, <1>4
      <4>2. j - 1 <= i
        BY <2>1, <4>1
      <4> QED
        BY <4>1, <4>2
    <3> QED
      BY <1>1, <2>1, <3>1, <3>2 DEF ListFollows
  <2>2. FileLists = {} => FileLists' = {}
    BY <1>3
  <2> QED
    BY <1>1, <1>2, <1>5, <1>9, <2>1, <2>2 DEF ListFollows
<1>12. RevealsOwn'
  BY <1>1, <1>2, <1>9 DEF RevealsOwn
<1>13. DiscardsNamed'
  BY <1>1, <1>3, <1>6 DEF DiscardsNamed
<1> QED
  BY <1>7, <1>8, <1>10, <1>11, <1>12, <1>13 DEF DiffInv

\* The page ends, and what was on its way with it.
LEMMA PageStep ==
    ASSUME DiffInv, PageEnds
    PROVE  DiffInv'
<1> DEFINE n == Len(toOwner) + 1
           e == [type |-> "ready"]
<1>1. DiffTypes /\ ReadyLast /\ DrawnOfDiff /\ ListFollows /\ RevealsOwn /\ DiscardsNamed
  BY DEF DiffInv
<1>2. /\ owner.loaded /\ document' = Fresh /\ toPage' = <<>> /\ toOwner' = Append(toOwner, e)
      /\ UNCHANGED <<disk, discard>>
  BY DEF PageEnds
<1>3. /\ owner'.loaded = FALSE /\ owner'.list = <<>> /\ owner'.snapshot = owner.snapshot
      /\ owner'.loading = owner.loading /\ owner'.reading = owner.reading /\ DOMAIN owner' = DOMAIN owner
  BY <1>1 DEF PageEnds, DiffTypes
<1>4. e.type = "ready"
  OBVIOUS
<1> HIDE DEF e
<1>5. /\ toOwner' \in Seq(ToSet(toOwner')) /\ DOMAIN toOwner' = 1..n /\ toOwner'[n] = e /\ n \in Nat
      /\ DOMAIN toOwner = 1..Len(toOwner) /\ Len(toOwner) \in Nat /\ n \in DOMAIN toOwner'
      /\ \A i \in DOMAIN toOwner : toOwner'[i] = toOwner[i] /\ i < n
      /\ \A i \in DOMAIN toOwner' : i \in DOMAIN toOwner \/ i = n
      /\ Len(toOwner') = n /\ toOwner' # <<>>
  BY <1>1, <1>2, AppendAny DEF DiffTypes
<1>6. /\ \A i \in DOMAIN toPage' : FALSE
      /\ toPage' \in Seq(ToSet(toPage')) /\ Renders' = {}
  <2>1. \A i \in DOMAIN toPage' : FALSE
    BY <1>2
  <2> QED
    BY <1>2, <2>1 DEF Renders
<1>7. document'.diff = NoDiff /\ ~document'.shown.current /\ DOMAIN document' = {"diff", "files", "shown"}
  BY <1>2 DEF Fresh, Nowhere
<1>8. \A i \in FileLists' : i \in FileLists
  BY <1>4, <1>5 DEF FileLists
<1>9. DiffTypes'
  <2>1. \A i \in DOMAIN toOwner' : toOwner'[i].type \in {"ready", "files", "discard"}
    BY <1>1, <1>4, <1>5 DEF DiffTypes
  <2> QED
    BY <1>1, <1>2, <1>3, <1>5, <1>6, <1>7, <2>1 DEF DiffTypes
<1>10. ReadyLast'
  <2>1. \A i \in DOMAIN toOwner' : toOwner'[i].type = "ready" <=> i = Len(toOwner')
    BY <1>1, <1>2, <1>4, <1>5 DEF ReadyLast
  <2> QED
    BY <1>2, <1>3, <1>5, <2>1 DEF ReadyLast
<1>11. DrawnOfDiff'
  BY <1>1, <1>3, <1>6, <1>7, <1>8 DEF DrawnOfDiff
<1>12. ListFollows'
  BY <1>3, <1>7 DEF ListFollows
<1>13. RevealsOwn'
  BY <1>6, <1>7 DEF RevealsOwn
<1>14. DiscardsNamed'
  BY <1>1, <1>2, <1>4, <1>5 DEF DiscardsNamed
<1> QED
  BY <1>9, <1>10, <1>11, <1>12, <1>13, <1>14 DEF DiffInv

\* Of one message.
LEMMA OnlyOne ==
    ASSUME NEW e
    PROVE  LET s == <<e>>
           IN  s \in Seq(ToSet(s)) /\ DOMAIN s = {1} /\ Len(s) = 1 /\ s[1] = e /\ s # <<>>
<1> DEFINE s == <<e>>
<1>1. s \in Seq({e}) /\ Len(s) = 1 /\ s[1] = e
  OBVIOUS
<1>2. DOMAIN s = {1}
  OBVIOUS
<1> HIDE DEF s
<1>3. s \in Seq(ToSet(s)) /\ s # <<>>
  BY <1>1, <1>2 DEF ToSet
<1> QED
  BY <1>1, <1>2, <1>3 DEF s

\* Of none.
LEMMA NoneAtAll ==
    ASSUME NEW s, s = <<>>
    PROVE  DOMAIN s = {} /\ s \in Seq(ToSet(s))
<1>1. s \in Seq(ToSet(s))
  OBVIOUS
<1>2. DOMAIN s = {}
  OBVIOUS
<1> QED
  BY <1>1, <1>2

\* It holds at the start.
LEMMA InitDiff ==
    ASSUME DiffAssumption, DiffInit
    PROVE  DiffInv
<1>1. /\ toPage = <<>> /\ toOwner = <<[type |-> "ready"]>> /\ document = Fresh /\ discard = NoDiscard
      /\ disk \in Diff
      /\ owner = [snapshot |-> NoDiff, loading |-> FALSE, reading |-> NoDiff, loaded |-> FALSE,
                  list |-> <<>>, pending |-> NoPath]
  BY DEF DiffInit
<1>2. /\ DOMAIN owner = {"snapshot", "loading", "reading", "loaded", "list", "pending"}
      /\ owner.snapshot = NoDiff /\ owner.loading = FALSE /\ owner.loaded = FALSE /\ owner.list = <<>>
  BY <1>1
<1> DEFINE e == [type |-> "ready"]
<1>3. /\ DOMAIN toOwner = {1} /\ Len(toOwner) = 1 /\ toOwner[1].type = "ready" /\ toOwner # <<>>
      /\ DOMAIN toPage = {} /\ toPage \in Seq(ToSet(toPage)) /\ toOwner \in Seq(ToSet(toOwner))
  <2>1. e.type = "ready" /\ toOwner = <<e>>
    BY <1>1
  <2> HIDE DEF e
  <2>2. /\ toOwner \in Seq(ToSet(toOwner)) /\ DOMAIN toOwner = {1} /\ Len(toOwner) = 1
        /\ toOwner[1] = e /\ toOwner # <<>>
    BY <2>1, OnlyOne
  <2>3. DOMAIN toPage = {} /\ toPage \in Seq(ToSet(toPage))
    BY <1>1, NoneAtAll
  <2> QED
    BY <2>1, <2>2, <2>3
<1>5. /\ document.diff = NoDiff /\ ~document.shown.current /\ DOMAIN document = {"diff", "files", "shown"}
      /\ discard.at = "none" /\ DOMAIN discard = {"at", "revision", "selection", "saw", "patch"}
  BY <1>1 DEF Fresh, Nowhere, NoDiscard
<1>6. Whole(disk)
  BY <1>1 DEF Diff, Whole
<1>7. Renders = {} /\ FileLists = {}
  BY <1>3 DEF Renders, FileLists
<1>8. DiffTypes
  BY <1>2, <1>3, <1>5, <1>6 DEF DiffTypes
<1>9. ReadyLast /\ DrawnOfDiff
  BY <1>1, <1>2, <1>3, <1>5, <1>7 DEF ReadyLast, DrawnOfDiff
<1>10. ListFollows /\ RevealsOwn /\ DiscardsNamed
  BY <1>2, <1>3, <1>5, <1>7 DEF ListFollows, RevealsOwn, DiscardsNamed
<1> QED
  BY <1>8, <1>9, <1>10 DEF DiffInv

\* Every step keeps it.
LEMMA NextDiff ==
    ASSUME DiffInv, [DiffNext]_diffVars
    PROVE  DiffInv'
<1>1. CASE RunScript
  BY <1>1, DrawStep, ShowStep
<1>2. CASE Receive
  <2>1. Head(toOwner).type \in {"ready", "files", "discard"}
    BY <1>2, TailAny DEF Receive, DiffInv, DiffTypes
  <2> QED
    BY <1>2, <2>1, ReadyStep, FilesStep, ProposalStep
<1>3. CASE ClickDiscard \/ PressRow \/ \E p \in Path : RevealPath(p)
  BY <1>3, ClickStep, PressStep
<1>4. CASE StartLoad \/ LoadEnds \/ \E p \in Path, c \in Change : EditDisk(p, c)
  BY <1>4, DiskStep, LoadStep
<1>5. CASE PageEnds \/ Previewed \/ Answer \/ RevisionChecked \/ GitApplies
  BY <1>5, PageStep, DiscardStep
<1>6. CASE UNCHANGED diffVars
  <2>1. UNCHANGED <<disk, owner, document, toPage, toOwner, discard>>
    BY <1>6 DEF diffVars, diffState
  <2>2. DiffTypes' /\ DiscardsNamed'
    BY <2>1 DEF DiffInv, DiffTypes, DiscardsNamed
  <2>3. ReadyLast' /\ DrawnOfDiff' /\ ListFollows' /\ RevealsOwn'
    BY <2>1, SamePage DEF DiffInv
  <2> QED
    BY <2>2, <2>3 DEF DiffInv
<1> QED
  BY <1>1, <1>2, <1>3, <1>4, <1>5, <1>6 DEF DiffNext, Asked, Written, Moves

\* What may have happened to a file is a script of lines; the bounds are numbers.
LEMMA ChangesSane ==
    /\ \A c \in Change : "script" \in DOMAIN c /\ c.script \in Seq(Signs)
    /\ {Gap, Around, MaxFiles, MaxUntracked, MaxFileLines, MaxTotalLines} \subseteq Nat
BY DiffAssumption, Zenon DEF Signs

\* Every diff of the disk, of the app and of the page is one of a worktree.
RendersSane(s) == \A i \in DOMAIN s : s[i].k = "render" => SaneDiff(s[i].diff)
DiffsSane ==
    /\ SaneDiff(disk) /\ (owner.snapshot = NoDiff \/ SaneDiff(owner.snapshot))
    /\ owner.loading => SaneDiff(owner.reading)
    /\ RendersSane(toPage)
    /\ IF document.diff = NoDiff THEN document.files = <<>> ELSE SaneDiff(document.diff)

\* What is on its way to the page stays of the worktree.
LEMMA RendersStay ==
    ASSUME DiffTypes, RendersSane(toPage)
    PROVE  /\ \A e : (e.k = "render" => SaneDiff(e.diff)) => RendersSane(Append(toPage, e))
           /\ toPage # <<>> => RendersSane(Tail(toPage))
           /\ RendersSane(<<>>)
<1>0. toPage \in Seq(ToSet(toPage))
  BY DEF DiffTypes
<1>1. ASSUME NEW e, e.k = "render" => SaneDiff(e.diff) PROVE RendersSane(Append(toPage, e))
  <2>1. \A i \in DOMAIN Append(toPage, e) :
          \/ i \in DOMAIN toPage /\ Append(toPage, e)[i] = toPage[i]
          \/ Append(toPage, e)[i] = e
    BY <1>0, AppendAny
  <2> QED
    BY <1>1, <2>1 DEF RendersSane
<1>2. ASSUME toPage # <<>> PROVE RendersSane(Tail(toPage))
  <2>1. \A i \in DOMAIN Tail(toPage) : i + 1 \in DOMAIN toPage /\ Tail(toPage)[i] = toPage[i + 1]
    BY <1>0, <1>2, TailAny
  <2> QED
    BY <2>1 DEF RendersSane
<1>3. RendersSane(<<>>)
  BY EmptyFacts DEF RendersSane
<1> QED
  BY <1>1, <1>2, <1>3

\* A file with changes taken back is a script of lines.
LEMMA RevertedSane ==
    ASSUME NEW c, "script" \in DOMAIN c, c.script \in Seq(Signs), NEW places
    PROVE  "script" \in DOMAIN Reverted(c, places) /\ Reverted(c, places).script \in Seq(Signs)
<1> DEFINE all == [i \in DOMAIN c.script |-> i]
           T == {i \in DOMAIN c.script : ~(i \in places /\ c.script[i] = "+")}
           kept == Only(all, T)
           script == [n \in DOMAIN kept |-> IF kept[n] \in places THEN Unchanged ELSE c.script[kept[n]]]
<1>1. kept \in Seq(DOMAIN c.script)
  <2>1. all \in Seq(DOMAIN c.script)
    OBVIOUS
  <2> HIDE DEF all, T
  <2>2. kept \in Seq((DOMAIN c.script) \cap T)
    BY <2>1, OnlyIn
  <2> QED
    BY <2>2
<1>2. \/ Reverted(c, places) = [status |-> "clean", binary |-> FALSE, from |-> NoPath, script |-> <<>>]
      \/ Reverted(c, places) = [c EXCEPT !.script = <<>>]
      \/ Reverted(c, places) = [c EXCEPT !.script = script]
  BY Zenon DEF Reverted, Unchanged
<1> HIDE DEF kept
<1>3. script \in Seq(Signs)
  <2>1. \A n \in DOMAIN kept : kept[n] \in DOMAIN c.script /\ c.script[kept[n]] \in Signs /\ Unchanged \in Signs
    <3>1. Unchanged \in Signs
      BY SignsApart
    <3> HIDE DEF Signs, Unchanged
    <3> QED
      BY <1>1, <3>1
  <2> HIDE DEF Signs, Unchanged
  <2>2. \A n \in DOMAIN kept : script[n] \in Signs
    BY <2>1
  <2>3. Len(kept) \in Nat /\ DOMAIN kept = 1..Len(kept)
    BY <1>1
  <2>4. script = [n \in 1..Len(kept) |-> script[n]]
    BY <2>3
  <2> HIDE DEF script
  <2> QED
    BY <2>2, <2>3, <2>4
<1> HIDE DEF script
<1>4. <<>> \in Seq(Signs)
  OBVIOUS
<1>5. CASE Reverted(c, places) = [status |-> "clean", binary |-> FALSE, from |-> NoPath, script |-> <<>>]
  BY <1>4, <1>5
<1>6. ASSUME NEW s \in Seq(Signs), Reverted(c, places) = [c EXCEPT !.script = s]
      PROVE  "script" \in DOMAIN Reverted(c, places) /\ Reverted(c, places).script \in Seq(Signs)
  BY <1>6
<1> QED
  BY <1>2, <1>3, <1>4, <1>5, <1>6

\* A diff with one file changed is one of the worktree.
LEMMA ChangedSane ==
    ASSUME NEW d, SaneDiff(d), NEW x, NEW c, "script" \in DOMAIN c, c.script \in Seq(Signs)
    PROVE  SaneDiff([d EXCEPT ![x] = c])
<1> DEFINE e == [d EXCEPT ![x] = c]
<1>1. d = [p \in Path |-> d[p]] /\ \A p \in Path : "script" \in DOMAIN d[p] /\ d[p].script \in Seq(Signs)
  BY DEF SaneDiff
<1>2. e = [p \in Path |-> e[p]] /\ \A p \in Path : e[p] = c \/ e[p] = d[p]
  BY <1>1
<1> HIDE DEF e
<1>3. SaneDiff(e)
  BY <1>1, <1>2 DEF SaneDiff
<1> QED
  BY <1>3 DEF e

\* They are at the start.
LEMMA SaneInit == DiffInit => DiffsSane
<1> SUFFICES ASSUME DiffInit PROVE DiffsSane
  OBVIOUS
<1>1. SaneDiff(disk)
  BY ChangesSane DEF DiffInit, Diff, SaneDiff
<1>2. owner.snapshot = NoDiff /\ owner.loading = FALSE /\ document = Fresh /\ toPage = <<>>
  BY DEF DiffInit
<1>3. document.diff = NoDiff /\ document.files = <<>>
  BY <1>2 DEF Fresh
<1>4. RendersSane(toPage)
  BY <1>2, EmptyFacts DEF RendersSane
<1> QED
  BY <1>1, <1>2, <1>3, <1>4 DEF DiffsSane

\* Every step keeps them so.
LEMMA SaneStep ==
    ASSUME DiffInv, DiffsSane, [DiffNext]_diffVars
    PROVE  DiffsSane'
<1>0. /\ DiffTypes /\ DrawnOfDiff /\ SaneDiff(disk) /\ (owner.snapshot = NoDiff \/ SaneDiff(owner.snapshot))
      /\ owner.loading => SaneDiff(owner.reading)
      /\ RendersSane(toPage)
      /\ IF document.diff = NoDiff THEN document.files = <<>> ELSE SaneDiff(document.diff)
  BY DEF DiffInv, DiffsSane
<1>1. CASE RunScript
  <2>1. toPage # <<>> /\ toPage' = Tail(toPage) /\ UNCHANGED <<disk, owner>>
    BY <1>1 DEF RunScript
  <2>2. RendersSane(toPage')
    BY <1>0, <2>1, RendersStay
  <2>3. IF document'.diff = NoDiff THEN document'.files = <<>> ELSE SaneDiff(document'.diff)
    <3>1. CASE Head(toPage).k = "render"
      <4> DEFINE d == Head(toPage).diff
                 files == ParseDiff(Patch(d))
      <4>1. document' = document \/ document' = [diff |-> d, files |-> files, shown |-> Nowhere]
        BY <1>1, <3>1 DEF RunScript, Render
      <4>2. SaneDiff(d) /\ d # NoDiff
        <5>1. Head(toPage) = toPage[1] /\ 1 \in DOMAIN toPage
          BY <1>0, <2>1, TailAny DEF DiffTypes
        <5> QED
          BY <1>0, <3>1, <5>1 DEF RendersSane, DrawnOfDiff, Renders
      <4> HIDE DEF d, files
      <4>3. CASE document' = document
        BY <1>0, <4>3
      <4>4. CASE document' = [diff |-> d, files |-> files, shown |-> Nowhere]
        BY <4>2, <4>4
      <4> QED
        BY <4>1, <4>3, <4>4
    <3>2. CASE Head(toPage).k # "render"
      <4>1. \E s : document' = [document EXCEPT !.shown = s]
        BY <1>1, <3>2 DEF RunScript, Reveal
      <4>2. document'.diff = document.diff /\ document'.files = document.files
        BY <1>0, <4>1 DEF DiffTypes
      <4> QED
        BY <1>0, <4>2
    <3> QED
      BY <3>1, <3>2
  <2> QED
    BY <1>0, <2>1, <2>2, <2>3 DEF DiffsSane
<1>2. CASE UNCHANGED <<disk, owner, document, toPage>>
  BY <1>0, <1>2 DEF DiffsSane
<1>3. CASE StartLoad
  <2>1. UNCHANGED <<disk, document, toPage>> /\ owner' = [owner EXCEPT !.loading = TRUE, !.reading = disk]
    BY <1>3 DEF StartLoad
  <2>2. owner'.snapshot = owner.snapshot /\ owner'.reading = disk
    BY <1>0, <2>1 DEF DiffTypes
  <2> QED
    BY <1>0, <2>1, <2>2 DEF DiffsSane
<1>4. CASE LoadEnds
  <2> DEFINE d == owner.reading
  <2>1. UNCHANGED <<disk, document>> /\ SaneDiff(d)
    BY <1>0, <1>4 DEF LoadEnds
  <2>2. \/ owner' = [owner EXCEPT !.loading = FALSE, !.reading = NoDiff] /\ UNCHANGED toPage
        \/ /\ owner' = [owner EXCEPT !.loading = FALSE, !.reading = NoDiff, !.snapshot = d]
           /\ (UNCHANGED toPage \/ toPage' = Append(toPage, RenderScript(d)))
    BY <1>4 DEF LoadEnds
  <2> HIDE DEF d
  <2>3. owner'.loading = FALSE /\ (owner'.snapshot = owner.snapshot \/ owner'.snapshot = d)
    BY <1>0, <2>2 DEF DiffTypes
  <2>4. RendersSane(toPage')
    <3>1. RenderScript(d).diff = d
      BY DEF RenderScript
    <3> HIDE DEF RenderScript
    <3> QED
      BY <1>0, <2>1, <2>2, <3>1, RendersStay
  <2> QED
    BY <1>0, <2>1, <2>3, <2>4 DEF DiffsSane
<1>5. ASSUME UNCHANGED <<disk, document>>, owner'.snapshot = owner.snapshot, owner'.loading = owner.loading,
             owner'.reading = owner.reading, NEW e, e.k = "reveal" \/ SaneDiff(e.diff),
             UNCHANGED toPage \/ toPage' = Append(toPage, e)
      PROVE  DiffsSane'
  <2>1. e.k = "render" => SaneDiff(e.diff)
    BY <1>5
  <2>2. RendersSane(toPage')
    BY <1>0, <1>5, <2>1, RendersStay
  <2> QED
    BY <1>0, <1>5, <2>2 DEF DiffsSane
<1>6. \A row : RevealScript(row).k = "reveal"
  BY DEF RevealScript
<1>7. CASE PressRow
  <2>1. UNCHANGED <<disk, owner, document>> /\ \E row : toPage' = Append(toPage, RevealScript(row))
    BY <1>7 DEF PressRow
  <2> QED
    BY <1>5, <1>6, <2>1
<1>8. ASSUME NEW p \in Path, RevealPath(p) PROVE DiffsSane'
  <2>1. /\ UNCHANGED <<disk, document>>
        /\ owner' = [owner EXCEPT !.pending = NoPath] \/ owner' = [owner EXCEPT !.pending = p]
        /\ (UNCHANGED toPage \/ \E row : toPage' = Append(toPage, RevealScript(row)))
    BY <1>8 DEF RevealPath
  <2>2. owner'.snapshot = owner.snapshot /\ owner'.loading = owner.loading /\ owner'.reading = owner.reading
    BY <1>0, <2>1 DEF DiffTypes
  <2>3. \E row : UNCHANGED toPage \/ toPage' = Append(toPage, RevealScript(row))
    BY <2>1
  <2> QED
    BY <1>5, <1>6, <2>1, <2>2, <2>3
<1>9. CASE Receive
  <2> DEFINE m == Head(toOwner)
  <2>1. UNCHANGED <<disk, document>> /\ m.type \in {"ready", "files", "discard"}
    BY <1>0, <1>9, TailAny DEF Receive, DiffTypes
  <2>2. CASE m.type = "ready"
    <3>1. ReadyArrives
      BY <1>9, <2>2 DEF Receive
    <3>2. owner'.snapshot = owner.snapshot /\ owner'.loading = owner.loading /\ owner'.reading = owner.reading
      BY <1>0, <3>1 DEF DiffTypes, ReadyArrives
    <3>3. UNCHANGED toPage \/ (owner.snapshot # NoDiff /\ toPage' = Append(toPage, RenderScript(owner.snapshot)))
      BY <3>1 DEF ReadyArrives
    <3>4. RenderScript(owner.snapshot).diff = owner.snapshot
      BY DEF RenderScript
    <3>5. CASE UNCHANGED toPage
      BY <1>0, <2>1, <3>2, <3>5 DEF DiffsSane
    <3>6. CASE owner.snapshot # NoDiff /\ toPage' = Append(toPage, RenderScript(owner.snapshot))
      BY <1>0, <1>5, <2>1, <3>2, <3>4, <3>6
    <3> QED
      BY <3>3, <3>5, <3>6
  <2>3. CASE m.type = "files"
    <3>1. FilesArrive(m.list)
      BY <1>9, <2>3 DEF Receive
    <3>2. owner'.snapshot = owner.snapshot /\ owner'.loading = owner.loading /\ owner'.reading = owner.reading
      <4>1. \E list, p : owner' = [owner EXCEPT !.list = list, !.pending = p]
        BY <3>1 DEF FilesArrive
      <4> QED
        BY <1>0, <4>1 DEF DiffTypes
    <3>3. UNCHANGED toPage \/ \E row, b : toPage' = Append(toPage, [RevealScript(row) EXCEPT !.current = b])
      BY <3>1 DEF FilesArrive
    <3>4. \A row, b : [RevealScript(row) EXCEPT !.current = b].k = "reveal"
      BY DEF RevealScript
    <3>5. CASE UNCHANGED toPage
      BY <1>0, <2>1, <3>2, <3>5 DEF DiffsSane
    <3>6. ASSUME NEW row, NEW b, toPage' = Append(toPage, [RevealScript(row) EXCEPT !.current = b])
          PROVE  DiffsSane'
      BY <1>5, <2>1, <3>2, <3>4, <3>6
    <3> QED
      BY <3>3, <3>5, <3>6
  <2>4. CASE m.type = "discard"
    <3>1. UNCHANGED <<owner, toPage>>
      BY <1>9, <2>4 DEF Receive, DiscardArrives
    <3> QED
      BY <1>2, <2>1, <3>1
  <2> QED
    BY <2>1, <2>2, <2>3, <2>4
<1>10. CASE PageEnds
  <2>1. /\ owner' = [owner EXCEPT !.loaded = FALSE, !.list = <<>>] /\ document' = Fresh /\ toPage' = <<>>
        /\ UNCHANGED disk
    BY <1>10 DEF PageEnds
  <2>2. owner'.snapshot = owner.snapshot /\ owner'.loading = owner.loading /\ owner'.reading = owner.reading
    BY <1>0, <2>1 DEF DiffTypes
  <2>3. document'.diff = NoDiff /\ document'.files = <<>>
    BY <2>1 DEF Fresh
  <2>4. RendersSane(toPage')
    BY <1>0, <2>1, RendersStay
  <2> QED
    BY <1>0, <2>1, <2>2, <2>3, <2>4 DEF DiffsSane
<1>11. CASE Refused
  <2>1. UNCHANGED <<disk, document, toPage>> /\ owner' = [owner EXCEPT !.loading = TRUE, !.reading = disk]
    BY <1>11 DEF Refused
  <2>2. owner'.snapshot = owner.snapshot /\ owner'.reading = disk
    BY <1>0, <2>1 DEF DiffTypes
  <2> QED
    BY <1>0, <2>1, <2>2 DEF DiffsSane
<1>14. CASE GitApplies /\ ~Refused
  <2> DEFINE x == discard.patch.path
             places == discard.patch.places
  <2>1. UNCHANGED <<document, toPage>> /\ owner' = [owner EXCEPT !.loading = TRUE, !.reading = disk']
    BY <1>14 DEF GitApplies
  <2>2. owner'.snapshot = owner.snapshot /\ owner'.reading = disk'
    BY <1>0, <2>1 DEF DiffTypes
  <2>3. SaneDiff(disk')
    <3>1. PICK c : (c = Reverted(disk[x], places) \/ c \in Change) /\ disk' = [disk EXCEPT ![x] = c]
      BY <1>14 DEF GitApplies
    <3>2. CASE x \in Path
      <4>1. "script" \in DOMAIN disk[x] /\ disk[x].script \in Seq(Signs)
        BY <1>0, <3>2 DEF SaneDiff
      <4>2. "script" \in DOMAIN c /\ c.script \in Seq(Signs)
        BY <3>1, <4>1, RevertedSane, ChangesSane
      <4> QED
        BY <1>0, <3>1, <4>2, ChangedSane
    <3>3. CASE x \notin Path
      <4>1. disk' = disk
        BY <1>0, <3>1, <3>3 DEF SaneDiff
      <4> QED
        BY <1>0, <4>1
    <3> QED
      BY <3>2, <3>3
  <2> QED
    BY <1>0, <2>1, <2>2, <2>3 DEF DiffsSane
<1>12. ASSUME NEW p \in Path, NEW c \in Change, EditDisk(p, c) PROVE DiffsSane'
  <2>1. UNCHANGED <<owner, document, toPage>> /\ disk' = [disk EXCEPT ![p] = c]
    BY <1>12 DEF EditDisk
  <2>2. SaneDiff(disk')
    BY <1>0, <2>1, ChangesSane, ChangedSane
  <2> QED
    BY <1>0, <2>1, <2>2 DEF DiffsSane
<1>13. ClickDiscard \/ Answer \/ Previewed \/ (RevisionChecked /\ ~Refused) \/ UNCHANGED diffVars =>
          UNCHANGED <<disk, owner, document, toPage>>
  BY DEF ClickDiscard, Answer, Previewed, RevisionChecked, diffVars, diffState
<1> QED
  BY <1>1, <1>2, <1>3, <1>4, <1>7, <1>8, <1>9, <1>10, <1>11, <1>12, <1>13, <1>14 DEF DiffNext, Asked, Written, Moves

\* The files drawn are the first of the patch.
LEMMA DrawnFiles ==
    ASSUME NEW files, IsSeq(files)
    PROVE  /\ IsSeq(Drawn(files)) /\ DOMAIN Drawn(files) = 1..Len(Drawn(files))
           /\ Len(Drawn(files)) \in Nat /\ Len(Drawn(files)) <= Len(files)
           /\ DOMAIN Drawn(files) \subseteq 1..Len(files)
<1> DEFINE n == IF Len(files) < MaxFiles THEN Len(files) ELSE MaxFiles
<1>1. PICK S : files \in Seq(S)
  BY DEF IsSeq
<1>2. MaxFiles \in Nat /\ Len(files) \in Nat
  BY <1>1, ChangesSane
<1>3. n \in Nat /\ n <= Len(files)
  BY <1>2
<1> HIDE DEF n
<1>4. SubSeq(files, 1, n) \in Seq(S) /\ Len(SubSeq(files, 1, n)) = n
  BY <1>1, <1>2, <1>3
<1>5. Drawn(files) = SubSeq(files, 1, n)
  BY DEF Drawn, n
<1>6. IsSeq(Drawn(files)) /\ Len(Drawn(files)) = n
  BY <1>4, <1>5 DEF IsSeq
<1>7. DOMAIN Drawn(files) = 1..n
  BY <1>6, SeqFacts
<1>8. 1..n \subseteq 1..Len(files)
  BY <1>2, <1>3
<1> QED
  BY <1>3, <1>6, <1>7, <1>8

\* The untracked files are in a sequence.
LEMMA UntrackedSeq == ASSUME NEW d PROVE IsSeq(Untracked(d))
<1> DEFINE T == {p \in DOMAIN d : d[p].status = "untracked"}
<1> HIDE DEF T
<1>1. Only(PathOrder, T) \in Seq(STRING \cap T)
  BY PathsAre, OnlyIn
<1> QED
  BY <1>1 DEF IsSeq, Untracked, T

\* The last path of a file is its name in the new tree.
LEMMA PathLast ==
    ASSUME NEW f, f.newPath # NoPath
    PROVE  DiffPath(f)[Len(DiffPath(f))] = f.newPath
<1> DEFINE a == f.oldPath
           b == f.newPath
<1>1. DiffPath(f) = <<a, b>> \/ DiffPath(f) = <<b>>
  BY DEF DiffPath
<1> HIDE DEF a, b
<1>2. Len(<<a, b>>) = 2 /\ <<a, b>>[2] = b /\ Len(<<b>>) = 1 /\ <<b>>[1] = b
  OBVIOUS
<1>3. DiffPath(f)[Len(DiffPath(f))] = b
  <2>1. CASE DiffPath(f) = <<a, b>>
    BY <1>2, <2>1, Zenon
  <2>2. CASE DiffPath(f) = <<b>>
    BY <1>2, <2>2, Zenon
  <2> QED
    BY <1>1, <2>1, <2>2
<1> QED
  BY <1>3 DEF b

\* A row of the list leads to the file it is of.
LEMMA RowLeads ==
    ASSUME NEW files, IsSeq(files), \A i \in 1..Len(files) : files[i].newPath # NoPath,
           NEW untracked, IsSeq(untracked), NEW n \in DOMAIN Listed(files, untracked)
    PROVE  LET row == Listed(files, untracked)[n]
           IN  Target(files, untracked, row.kind, row.index) = row.path
<1> DEFINE PathOf(f) == IF f.newPath # NoPath THEN f.newPath ELSE f.oldPath
           A == [i \in DOMAIN Drawn(files) |-> [kind |-> "file", index |-> i, path |-> PathOf(files[i])]]
           m0 == IF Len(untracked) < MaxUntracked THEN Len(untracked) ELSE MaxUntracked
           B == [i \in 1..m0 |-> [kind |-> "untracked", index |-> i, path |-> untracked[i]]]
           L == Len(Drawn(files))
           list == Listed(files, untracked)
<1>1. list = A \o B
  BY DEF Listed
<1>2. L \in Nat /\ DOMAIN Drawn(files) = 1..L /\ 1..L \subseteq 1..Len(files)
  BY DrawnFiles
<1>3. m0 \in Nat /\ m0 <= MaxUntracked /\ 1..m0 \subseteq DOMAIN untracked
  <2>1. Len(untracked) \in Nat /\ DOMAIN untracked = 1..Len(untracked) /\ MaxUntracked \in Nat
    BY SeqFacts, ChangesSane
  <2> QED
    BY <2>1
<1> HIDE DEF L, m0
<1>4. IsSeq(A) /\ Len(A) = L /\ \A i \in 1..L : A[i] = [kind |-> "file", index |-> i, path |-> PathOf(files[i])]
  <2>1. A = [i \in 1..L |-> A[i]] /\ \A i \in 1..L : A[i] = [kind |-> "file", index |-> i, path |-> PathOf(files[i])]
    BY <1>2
  <2> HIDE DEF A, PathOf
  <2> QED
    BY <1>2, <2>1, Tabulated
<1>5. IsSeq(B) /\ Len(B) = m0 /\ \A i \in 1..m0 : B[i] = [kind |-> "untracked", index |-> i, path |-> untracked[i]]
  <2>1. B = [i \in 1..m0 |-> B[i]] /\ \A i \in 1..m0 : B[i] = [kind |-> "untracked", index |-> i, path |-> untracked[i]]
    OBVIOUS
  <2> HIDE DEF B
  <2> QED
    BY <1>3, <2>1, Tabulated
<1> HIDE DEF A, B, list
<1>6. /\ DOMAIN list = 1..(L + m0) /\ \A i \in 1..L : list[i] = A[i]
      /\ \A i \in 1..m0 : list[L + i] = B[i]
  <2>1. IsSeq(list) /\ Len(list) = L + m0
    BY <1>1, <1>4, <1>5, JoinFacts
  <2> QED
    BY <1>1, <1>4, <1>5, <2>1, JoinFacts, SeqFacts
<1>7. CASE n \in 1..L
  <2>1. list[n].kind = "file" /\ list[n].index = n /\ list[n].path = files[n].newPath
    <3>1. files[n].newPath # NoPath
      BY <1>2, <1>7
    <3> QED
      BY <1>4, <1>6, <1>7, <3>1
  <2>2. n \in DOMAIN Drawn(files)
    BY <1>2, <1>7
  <2>3. DiffPath(files[n])[Len(DiffPath(files[n]))] = files[n].newPath
    BY <1>2, <1>7, PathLast
  <2> QED
    BY <2>1, <2>2, <2>3 DEF Target, list
<1>8. CASE n \notin 1..L
  <2> DEFINE m == n - L
  <2>1. n \in 1..(L + m0)
    BY <1>6 DEF list
  <2>2. m \in 1..m0 /\ n = L + m
    BY <1>2, <1>3, <1>8, <2>1
  <2> HIDE DEF m
  <2>3. list[n].kind = "untracked" /\ list[n].index = m /\ list[n].path = untracked[m]
    BY <1>5, <1>6, <2>2
  <2>4. m \in DOMAIN untracked /\ m <= MaxUntracked
    <3>1. m <= m0 /\ m \in Nat /\ MaxUntracked \in Nat
      BY <2>2, ChangesSane
    <3> QED
      BY <1>3, <2>2, <3>1
  <2> QED
    BY <2>3, <2>4 DEF Target, list
<1> QED
  BY <1>7, <1>8

\* The page holds the files of its diff, as git printed them.
LEMMA PageParsed ==
    ASSUME DiffInv, DiffsSane
    PROVE  /\ IsSeq(document.files)
           /\ \A i \in 1..Len(document.files) :
                 LET path == InDiff(document.diff)[i]
                 IN  /\ path \in Path /\ SaneDiff(document.diff)
                     /\ FileIs(document.files[i], path, document.diff[path])
<1>1. CASE document.diff = NoDiff
  <2>1. document.files = <<>>
    BY <1>1 DEF DiffsSane
  <2>2. IsSeq(document.files) /\ Len(document.files) = 0
    BY <2>1, EmptyFacts
  <2> QED
    BY <2>2
<1>2. CASE document.diff # NoDiff
  <2>1. document.files = ParseDiff(Patch(document.diff)) /\ SaneDiff(document.diff)
    BY <1>2 DEF DiffInv, ListFollows, DiffsSane
  <2>2. FilesAre(document.files, document.diff, Len(InDiff(document.diff)))
    BY <2>1, PatchParsed
  <2>3. \A i \in 1..Len(InDiff(document.diff)) : InDiff(document.diff)[i] \in Path
    BY <2>1, InDiffPaths
  <2> QED
    BY <2>1, <2>2, <2>3 DEF FilesAre
<1> QED
  BY <1>1, <1>2

\* So its rows lead to the file and to the line they show.
LEMMA AllRowsLead ==
    ASSUME DiffInv, DiffsSane
    PROVE  RowsLead
<1> DEFINE files == document.files
           d == document.diff
<1>1. /\ IsSeq(files)
      /\ \A i \in 1..Len(files) : /\ InDiff(d)[i] \in Path /\ SaneDiff(d)
                                  /\ FileIs(files[i], InDiff(d)[i], d[InDiff(d)[i]])
  BY PageParsed
<1>2. RevealHits
  <2> SUFFICES ASSUME document.shown.current PROVE document.shown.target = document.shown.wanted
    BY DEF RevealHits
  <2>1. PICK n \in DOMAIN OwnList :
          /\ document.shown.wanted = OwnList[n].path
          /\ document.shown.target = Target(files, Untracked(d), OwnList[n].kind, OwnList[n].index)
    BY DEF DiffInv, RevealsOwn
  <2>2. \A i \in 1..Len(files) : files[i].newPath # NoPath
    <3>1. NoPath \notin Path
      BY DiffAssumption, Zenon
    <3> QED
      BY <1>1, <3>1 DEF FileIs
  <2>3. Target(files, Untracked(d), OwnList[n].kind, OwnList[n].index) = OwnList[n].path
    BY <1>1, <2>2, RowLeads, UntrackedSeq DEF OwnList
  <2> QED
    BY <2>1, <2>3
<1>3. OpensSeenLine
  <2> SUFFICES ASSUME NEW i \in DOMAIN Drawn(files),
                      NEW k \in DOMAIN files[i].hunks, NEW n \in DOMAIN files[i].hunks[k]
               PROVE  LET script == d[files[i].newPath].script
                          row == files[i].hunks[k][n]
                      IN  IF row.t = "-" THEN row.newNo = 0 ELSE row.newNo = LineOf(script, row.text)
    BY DEF OpensSeenLine
  <2> DEFINE f == files[i]
             path == InDiff(d)[i]
             script == d[path].script
             hunk == Hunks(script)[k]
             row == f.hunks[k][n]
  <2>1. FileIs(f, path, d[path])
    BY <1>1, DrawnFiles
  <2>2. f.newPath = path /\ f.hunks # <<>>
    BY <2>1, EmptyFacts DEF FileIs
  <2>3. HunksAre(f.hunks, script, Len(Hunks(script)))
    BY <2>1, <2>2 DEF FileIs
  <2>4. k \in 1..Len(Hunks(script))
    BY <2>3, SeqFacts DEF HunksAre
  <2>5. HunkIs(f.hunks[k], script, hunk, Len(hunk))
    BY <2>3, <2>4 DEF HunksAre
  <2>6. n \in 1..Len(hunk)
    BY <2>5, SeqFacts DEF HunkIs
  <2>7. /\ row.t = script[hunk[n]] /\ row.text = hunk[n]
        /\ row.newNo = IF script[hunk[n]] = "-" THEN 0 ELSE LineOf(script, hunk[n])
    BY <2>5, <2>6 DEF HunkIs
  <2> HIDE DEF hunk, row
  <2>8. IF row.t = "-" THEN row.newNo = 0 ELSE row.newNo = LineOf(script, row.text)
    BY <2>7
  <2> QED
    BY <2>2, <2>8 DEF row
<1> QED
  BY <1>2, <1>3 DEF RowsLead

\* In every reachable state a row pressed in the app's list has scrolled the page
\* to the file the row is of, and every row of the page is numbered with the
\* line its text has in the file (reveal, renderFile and parseDiff; DiffPage.js,
\* DiffParse.mjs).
THEOREM RowsAlwaysLead == DiffSpec => []RowsLead
<1>1. DiffInit => DiffInv /\ DiffsSane
  BY InitDiff, SaneInit, DiffAssumption
<1>2. DiffInv /\ DiffsSane /\ [DiffNext]_diffVars => (DiffInv /\ DiffsSane)'
  BY NextDiff, SaneStep
<1>3. DiffInv /\ DiffsSane => RowsLead
  BY AllRowsLead
<1> QED
  BY <1>1, <1>2, <1>3, PTL DEF DiffSpec

-----------------------------------------------------------------------------
(* The page's blocks are the backend's.                                     *)

\* The changed lines of a hunk as parsed, those a block begins with, and the
\* number of the block a line is in, counted as the backend counts.
Altered(h) == {n \in 1..Len(h) : h[n].t # Unchanged}
BlockHeads(h) == {n \in Altered(h) : \A k \in Altered(h) : k < n => n - k - 1 > Gap}
BlockNo(h, m) == Cardinality({n \in BlockHeads(h) : n <= m})

\* The number grows by one at a line that begins a block.
LEMMA BlockNoFacts ==
    ASSUME NEW h, IsSeq(h)
    PROVE  /\ BlockHeads(h) \subseteq 1..Len(h) /\ Altered(h) \subseteq 1..Len(h)
           /\ \A m \in Nat : BlockNo(h, m) \in Nat /\ IsFiniteSet({n \in BlockHeads(h) : n <= m})
           /\ BlockNo(h, 0) = 0
           /\ \A m \in Nat : BlockNo(h, m + 1) = BlockNo(h, m) + (IF m + 1 \in BlockHeads(h) THEN 1 ELSE 0)
           /\ \A m, n \in Nat : m <= n => BlockNo(h, m) <= BlockNo(h, n)
<1> DEFINE L == Len(h)
           B == BlockHeads(h)
           Upto(m) == {n \in B : n <= m}
<1>1. L \in Nat
  BY SeqFacts
<1>2. B \subseteq 1..L /\ Altered(h) \subseteq 1..L
  BY DEF BlockHeads, Altered
<1>3. \A m : BlockNo(h, m) = Cardinality(Upto(m))
  BY DEF BlockNo
<1> HIDE DEF B, L
<1>4. IsFiniteSet(B)
  <2>1. IsFiniteSet(1..L)
    BY <1>1, FS_Interval
  <2> QED
    BY <1>2, <2>1, FS_Subset
<1>5. ASSUME NEW m \in Nat PROVE IsFiniteSet(Upto(m)) /\ Cardinality(Upto(m)) \in Nat
  <2>1. Upto(m) \in SUBSET B
    OBVIOUS
  <2> HIDE DEF Upto
  <2> QED
    BY <1>4, <2>1, FS_Subset, FS_CardinalityType
<1>6. Cardinality(Upto(0)) = 0
  <2>1. \A n \in B : ~(n <= 0)
    BY <1>1, <1>2
  <2>2. Upto(0) = {}
    BY <2>1
  <2> HIDE DEF Upto
  <2> QED
    BY <2>2, FS_EmptySet
<1>7. ASSUME NEW m \in Nat
      PROVE  Cardinality(Upto(m + 1)) = Cardinality(Upto(m)) + (IF m + 1 \in B THEN 1 ELSE 0)
  <2>1. \A n \in B : n <= m + 1 <=> n <= m \/ n = m + 1
    BY <1>1, <1>2
  <2>2. m + 1 \notin Upto(m)
    OBVIOUS
  <2>3. Upto(m + 1) = IF m + 1 \in B THEN Upto(m) \cup {m + 1} ELSE Upto(m)
    BY <2>1
  <2> HIDE DEF Upto
  <2>4. CASE m + 1 \in B
    BY <1>5, <2>2, <2>3, <2>4, FS_AddElement
  <2>5. CASE m + 1 \notin B
    BY <1>5, <2>3, <2>5
  <2> QED
    BY <2>4, <2>5
<1>8. ASSUME NEW m \in Nat, NEW n \in Nat, m <= n PROVE Cardinality(Upto(m)) <= Cardinality(Upto(n))
  <2>1. \A k \in B : k \in Nat
    BY <1>1, <1>2
  <2>2. \A k \in B : k <= m => k <= n
    BY <1>8, <2>1
  <2>3. Upto(m) \in SUBSET Upto(n)
    BY <2>2
  <2> HIDE DEF Upto
  <2> QED
    BY <1>5, <2>3, FS_Subset
<1> QED
  BY <1>2, <1>3, <1>5, <1>6, <1>7, <1>8 DEF B, L

\* The blocks after n lines: a changed line is within the block of its number.
BlocksAre(runs, h, n) ==
    /\ IsSeq(runs) /\ Len(runs) = BlockNo(h, n)
    /\ \A r \in 1..Len(runs) : /\ DOMAIN runs[r] = {"start", "end"}
                               /\ runs[r].start \in 1..n /\ runs[r].end \in 1..n
    /\ \A m \in Altered(h) : m <= n =>
          /\ \A r \in 1..Len(runs) : m \in runs[r].start..runs[r].end <=> BlockNo(h, m) = r
          /\ Len(runs) # 0 /\ m <= runs[Len(runs)].end
    /\ Len(runs) # 0 => runs[Len(runs)].end \in Altered(h)

\* hunkBlocks at a line that did not change, one that goes on a block, and one
\* that begins a block.
LEMMA ExtendIs ==
    ASSUME NEW runs, NEW i, NEW t
    PROVE  /\ t = Unchanged => Extend(runs, i, t) = runs
           /\ t # Unchanged /\ runs # <<>> /\ i - runs[Len(runs)].end - 1 <= Gap =>
                Extend(runs, i, t) = [runs EXCEPT ![Len(runs)].end = i]
           /\ t # Unchanged /\ ~(runs # <<>> /\ i - runs[Len(runs)].end - 1 <= Gap) =>
                Extend(runs, i, t) = Append(runs, [start |-> i, end |-> i])
BY Zenon DEF Extend, Unchanged

\* A block goes on.
LEMMA BlockGoesOn ==
    ASSUME NEW runs, IsSeq(runs), NEW R, R = Len(runs), R # 0, DOMAIN runs[R] = {"start", "end"}, NEW i,
           NEW t, t # Unchanged, i - runs[R].end - 1 <= Gap, NEW next, next = Extend(runs, i, t)
    PROVE  /\ IsSeq(next) /\ Len(next) = R /\ DOMAIN next[R] = {"start", "end"}
           /\ next[R].start = runs[R].start /\ next[R].end = i
           /\ \A r \in 1..R : r # R => next[r] = runs[r]
<1> DEFINE e == [runs[R] EXCEPT !.end = i]
<1>1. PICK S : runs \in Seq(S)
  BY DEF IsSeq
<1>2. R \in Nat /\ DOMAIN runs = 1..R /\ R \in 1..R
  BY <1>1
<1>3. next = [runs EXCEPT ![R] = e]
  <2>1. runs # <<>>
    BY <1>1
  <2>2. next = [runs EXCEPT ![Len(runs)].end = i]
    BY <2>1, ExtendIs
  <2> QED
    BY <2>2
<1>4. DOMAIN e = {"start", "end"} /\ e.start = runs[R].start /\ e.end = i
  OBVIOUS
<1> HIDE DEF e
<1>5. runs \in Seq(S \cup {e}) /\ e \in S \cup {e}
  BY <1>1
<1>6. next \in Seq(S \cup {e}) /\ Len(next) = R
  BY <1>2, <1>3, <1>5
<1>7. next[R] = e /\ \A r \in 1..R : r # R => next[r] = runs[r]
  BY <1>2, <1>3
<1> QED
  BY <1>4, <1>6, <1>7 DEF IsSeq

\* A line of the hunk keeps the blocks so.
LEMMA BlockStep ==
    ASSUME NEW h, IsSeq(h), NEW n \in 0..(Len(h) - 1), NEW runs, BlocksAre(runs, h, n)
    PROVE  BlocksAre(Extend(runs, n + 1, h[n + 1].t), h, n + 1)
<1> DEFINE i == n + 1
           t == h[i].t
           next == Extend(runs, i, t)
           R == Len(runs)
           A == Altered(h)
           No(m) == BlockNo(h, m)
<1>1. Len(h) \in Nat /\ n \in Nat /\ i \in 1..Len(h) /\ i \in Nat
  BY SeqFacts
<1>2. /\ A \subseteq 1..Len(h) /\ R = No(n)
      /\ No(i) = No(n) + (IF i \in BlockHeads(h) THEN 1 ELSE 0)
      /\ \A m \in A : No(m) \in Nat /\ (m <= n => No(m) <= R)
  <2>1. A \subseteq Nat
    BY <1>1, BlockNoFacts
  <2>2. R = No(n)
    BY DEF BlocksAre
  <2> HIDE DEF A
  <2> QED
    BY <1>1, <2>1, <2>2, BlockNoFacts DEF A
<1>3. i \in A <=> t # Unchanged
  BY <1>1 DEF Altered
<1>4. /\ IsSeq(runs) /\ R \in Nat /\ (R = 0 <=> runs = <<>>)
      /\ \A r \in 1..R : /\ DOMAIN runs[r] = {"start", "end"}
                         /\ runs[r].start \in 1..n /\ runs[r].end \in 1..n
      /\ \A m \in A : m <= n =>
            /\ \A r \in 1..R : m \in runs[r].start..runs[r].end <=> No(m) = r
            /\ R # 0 /\ m <= runs[R].end
      /\ R # 0 => runs[R].end \in A
  BY SeqFacts DEF BlocksAre
<1>5. i \in BlockHeads(h) <=> i \in A /\ \A k \in A : k < i => i - k - 1 > Gap
  BY DEF BlockHeads
<1>6. Gap \in Nat
  BY ChangesSane
<1>7. 1..n \subseteq 1..i /\ \A m \in A : m \in Nat /\ (m <= i <=> m <= n \/ m = i)
  BY <1>1, <1>2
<1> HIDE DEF i, A, No, R
<1>8. i = n + 1
  BY DEF i
<1> HIDE DEF t, next
<1>9. CASE t = Unchanged
  <2>1. next = runs
    BY <1>9, ExtendIs DEF next
  <2>2. No(i) = R /\ Len(runs) = R
    BY <1>1, <1>2, <1>3, <1>4, <1>5, <1>9 DEF R
  <2>3. \A m \in A : m <= i => m <= n
    BY <1>3, <1>7, <1>9
  <2>4. BlocksAre(runs, h, i)
    BY <1>4, <1>7, <2>2, <2>3 DEF BlocksAre, No, A
  <2> QED
    BY <2>1, <2>4 DEF next, i, t
<1>10. CASE t # Unchanged /\ R # 0 /\ i - runs[R].end - 1 <= Gap
  <2>1. next = Extend(runs, i, t)
    BY DEF next
  <2>2. R \in 1..R
    BY <1>4, <1>10
  <2>3. /\ IsSeq(next) /\ Len(next) = R /\ DOMAIN next[R] = {"start", "end"}
        /\ next[R].start = runs[R].start /\ next[R].end = i
        /\ \A r \in 1..R : r # R => next[r] = runs[r]
    <3>1. IsSeq(runs) /\ R = Len(runs) /\ R # 0 /\ DOMAIN runs[R] = {"start", "end"}
      BY <1>4, <1>10, <2>2 DEF R
    <3> QED
      BY <1>10, <2>1, <3>1, BlockGoesOn
  <2>4. i \notin BlockHeads(h)
    <3>1. runs[R].end \in A /\ runs[R].end < i /\ runs[R].end \in 1..n
      BY <1>1, <1>4, <1>8, <1>10, <2>2
    <3>2. ~(i - runs[R].end - 1 > Gap)
      BY <1>1, <1>6, <1>10, <3>1
    <3> QED
      BY <1>5, <3>1, <3>2
  <2>5. No(i) = R
    BY <1>1, <1>2, <1>4, <2>4
  <2> HIDE DEF next
  <2>6. ASSUME NEW r \in 1..R
        PROVE  /\ DOMAIN next[r] = {"start", "end"} /\ next[r].start \in 1..i /\ next[r].end \in 1..i
    <3>1. CASE r = R
      BY <1>1, <1>4, <1>7, <1>8, <2>2, <2>3, <3>1
    <3>2. CASE r # R
      BY <1>4, <1>7, <2>3, <3>2
    <3> QED
      BY <3>1, <3>2
  <2>7. ASSUME NEW m \in A, m <= i, NEW r \in 1..R
        PROVE  m \in next[r].start..next[r].end <=> No(m) = r
    <3>1. CASE m <= n /\ r # R
      BY <1>4, <2>3, <3>1
    <3>2. CASE m <= n /\ r = R
      <4>1. m \in runs[R].start..runs[R].end <=> No(m) = R
        BY <1>4, <2>2, <3>2
      <4>2. m <= runs[R].end /\ runs[R].start \in Nat /\ runs[R].end \in Nat /\ m \in Nat
        BY <1>1, <1>4, <1>7, <2>2, <3>2
      <4>3. m <= i /\ i \in Nat
        BY <1>1, <2>7
      <4>4. m \in runs[R].start..runs[R].end <=> m \in runs[R].start..i
        BY <4>2, <4>3
      <4> QED
        BY <2>3, <3>2, <4>1, <4>4
    <3>3. CASE m = i /\ r # R
      <4>1. next[r].end \in 1..n
        BY <1>4, <2>3, <3>3
      <4>2. ~(i \in next[r].start..next[r].end)
        <5>1. next[r].end < i /\ next[r].end \in Nat /\ i \in Nat
          BY <1>1, <1>8, <4>1
        <5> QED
          BY <5>1
      <4> QED
        BY <2>5, <3>3, <4>2
    <3>4. CASE m = i /\ r = R
      <4>1. next[R].start \in 1..n /\ next[R].end = i
        BY <1>4, <2>2, <2>3
      <4>2. i \in next[R].start..next[R].end
        BY <1>1, <1>8, <4>1
      <4> QED
        BY <2>5, <3>4, <4>2
    <3> QED
      BY <1>7, <2>7, <3>1, <3>2, <3>3, <3>4
  <2>8. \A m \in A : m <= i => m <= next[R].end
    BY <2>3
  <2>9. i \in A
    BY <1>3, <1>10
  <2>10. BlocksAre(next, h, i)
    BY <1>10, <2>3, <2>5, <2>6, <2>7, <2>8, <2>9 DEF BlocksAre, A, No
  <2> QED
    BY <2>10 DEF next, i, t
<1>11. CASE t # Unchanged /\ ~(R # 0 /\ i - runs[R].end - 1 <= Gap)
  <2> DEFINE e == [start |-> i, end |-> i]
  <2>1. next = Append(runs, e)
    BY <1>4, <1>11, ExtendIs DEF next, R
  <2>2. DOMAIN e = {"start", "end"} /\ e.start = i /\ e.end = i
    OBVIOUS
  <2> HIDE DEF e
  <2>3. /\ IsSeq(next) /\ Len(next) = R + 1 /\ next[R + 1] = e
        /\ \A r \in 1..R : next[r] = runs[r]
    BY <1>4, <2>1, AppendFacts DEF R
  <2>4. i \in A
    BY <1>3, <1>11
  <2>5. i \in BlockHeads(h)
    <3>1. ASSUME NEW k \in A, k < i PROVE i - k - 1 > Gap
      <4>1. k <= n /\ k \in Nat
        BY <1>1, <1>7, <1>8, <3>1
      <4>2. R # 0 /\ k <= runs[R].end
        BY <1>4, <4>1
      <4>3. runs[R].end \in 1..n
        BY <1>4, <4>2
      <4>4. i - runs[R].end - 1 > Gap
        BY <1>1, <1>6, <1>11, <4>2, <4>3
      <4> QED
        BY <1>1, <1>6, <4>1, <4>2, <4>3, <4>4
    <3> QED
      BY <1>5, <2>4, <3>1
  <2>6. No(i) = R + 1
    BY <1>1, <1>2, <1>4, <2>5
  <2> HIDE DEF next
  <2>7. \A r \in 1..(R + 1) : r = R + 1 \/ r \in 1..R
    BY <1>4
  <2>8. ASSUME NEW r \in 1..(R + 1)
        PROVE  /\ DOMAIN next[r] = {"start", "end"} /\ next[r].start \in 1..i /\ next[r].end \in 1..i
    <3>1. CASE r = R + 1
      BY <1>1, <1>8, <2>2, <2>3, <3>1
    <3>2. CASE r \in 1..R
      BY <1>4, <1>7, <2>3, <3>2
    <3> QED
      BY <2>7, <3>1, <3>2
  <2>9. ASSUME NEW m \in A, m <= i, NEW r \in 1..(R + 1)
        PROVE  m \in next[r].start..next[r].end <=> No(m) = r
    <3>1. CASE m <= n /\ r \in 1..R
      BY <1>4, <2>3, <3>1
    <3>2. CASE m <= n /\ r = R + 1
      <4>1. No(m) # r
        BY <1>2, <1>4, <3>2
      <4>2. ~(i <= m) /\ m \in Nat
        BY <1>1, <1>7, <1>8, <3>2
      <4> QED
        BY <1>1, <2>2, <2>3, <3>2, <4>1, <4>2
    <3>3. CASE m = i /\ r \in 1..R
      <4>1. next[r].end \in 1..n
        BY <1>4, <2>3, <3>3
      <4>2. next[r].end < i /\ next[r].end \in Nat /\ i \in Nat
        BY <1>1, <1>8, <4>1
      <4>3. ~(i \in next[r].start..next[r].end)
        BY <4>2
      <4>4. r # R + 1
        BY <1>4, <3>3
      <4> QED
        BY <2>6, <3>3, <4>3, <4>4
    <3>4. CASE m = i /\ r = R + 1
      <4>1. i \in i..i
        BY <1>1
      <4> QED
        BY <2>2, <2>3, <2>6, <3>4, <4>1
    <3> QED
      BY <1>7, <2>7, <2>9, <3>1, <3>2, <3>3, <3>4
  <2>10. R + 1 # 0
    BY <1>4
  <2>11. BlocksAre(next, h, i)
    BY <2>2, <2>3, <2>4, <2>6, <2>8, <2>9, <2>10 DEF BlocksAre, A, No
  <2> QED
    BY <2>11 DEF next, i, t
<1> QED
  BY <1>9, <1>10, <1>11

\* The page's blocks of a hunk hold the lines of their number.
LEMMA PageBlocks ==
    ASSUME NEW h, IsSeq(h)
    PROVE  /\ IsSeq(HunkBlocks(h))
           /\ \A b \in 1..Len(HunkBlocks(h)) :
                 LET run == HunkBlocks(h)[b]
                 IN  {m \in run.start..run.end : h[m].t # Unchanged} = {m \in Altered(h) : BlockNo(h, m) = b}
<1> DEFINE L == Len(h)
<1>1. L \in Nat
  BY SeqFacts
<1>2. PICK f : /\ HunkBlocks(h) = f[L] /\ f[0] = <<>>
               /\ \A n \in 1..L : f[n] = Extend(f[n - 1], n, h[n].t)
  BY BlockSteps
<1> DEFINE S == {n \in 0..L : BlocksAre(f[n], h, n)}
<1>3. 0 \in S
  <2>1. BlocksAre(<<>>, h, 0)
    <3>1. \A m \in Altered(h) : ~(m <= 0)
      BY <1>1, BlockNoFacts
    <3>2. \A r \in 1..0 : FALSE
      OBVIOUS
    <3> QED
      BY <3>1, <3>2, BlockNoFacts, EmptyFacts DEF BlocksAre
  <2> QED
    BY <1>1, <1>2, <2>1
<1>4. ASSUME NEW n \in 0..(L - 1), n \in S PROVE n + 1 \in S
  <2>1. n + 1 \in 1..L /\ (n + 1) - 1 = n /\ n + 1 \in 0..L
    BY <1>1
  <2>2. f[n + 1] = Extend(f[n], n + 1, h[n + 1].t) /\ BlocksAre(f[n], h, n)
    BY <1>2, <1>4, <2>1
  <2>3. BlocksAre(f[n + 1], h, n + 1)
    BY <2>2, BlockStep
  <2> QED
    BY <2>1, <2>3
<1> HIDE DEF S
<1>5. \A n \in 0..L : n \in S
  BY <1>1, <1>3, <1>4, CountingUp
<1>6. L \in S
  BY <1>1, <1>5
<1>7. BlocksAre(HunkBlocks(h), h, L)
  BY <1>2, <1>6 DEF S
<1> DEFINE runs == HunkBlocks(h)
<1> HIDE DEF runs
<1>8. ASSUME NEW b \in 1..Len(runs)
      PROVE  {m \in runs[b].start..runs[b].end : h[m].t # Unchanged} = {m \in Altered(h) : BlockNo(h, m) = b}
  <2>1. runs[b].start \in 1..L /\ runs[b].end \in 1..L
    BY <1>7 DEF BlocksAre, runs
  <2>2. runs[b].start..runs[b].end \subseteq 1..L
    BY <1>1, <2>1
  <2>3. \A m : m \in Altered(h) <=> m \in 1..L /\ h[m].t # Unchanged
    BY DEF Altered
  <2>4. ASSUME NEW m \in Altered(h) PROVE m \in runs[b].start..runs[b].end <=> BlockNo(h, m) = b
    <3>1. m <= L
      BY <1>1, <2>3
    <3> QED
      BY <1>7, <3>1 DEF BlocksAre, runs
  <2> QED
    BY <2>2, <2>3, <2>4
<1> QED
  BY <1>7, <1>8 DEF BlocksAre, runs

\* The changes of a hunk that a block holds, by the page's count and by the
\* backend's.
OfPageBlock(h, b) == {h[m].text : m \in {n \in Altered(h) : BlockNo(h, n) = b}}
OfBlock(script, hunk, b) ==
    {i \in Changed(script) \cap {hunk[n] : n \in DOMAIN hunk} : BlockOf(script, hunk, i) = b}

\* The backend's blocks of a hunk are the page's: they hold the same changes.
LEMMA BackendBlocks ==
    ASSUME NEW script, script \in Seq(Signs), NEW hunk, HunkGood(script, hunk),
           NEW h, HunkIs(h, script, hunk, Len(hunk)), NEW b
    PROVE  OfPageBlock(h, b) = OfBlock(script, hunk, b)
<1> DEFINE M == Len(hunk)
           A == Altered(h)
           B == BlockHeads(h)
           changes == Changed(script) \cap {hunk[n] : n \in DOMAIN hunk}
           J(i) == {j \in changes : j <= i /\ \A k \in changes : k < j => j - k - 1 > Gap}
           Upto(m) == {n \in B : n <= m}
<1>1. M \in Nat /\ M # 0 /\ DOMAIN hunk = 1..M /\ 1 \in 1..M
  <2>1. M \in Nat /\ M # 0 /\ DOMAIN hunk = 1..M
    BY SeqFacts DEF HunkGood
  <2> HIDE DEF M
  <2> QED
    BY <2>1
<1>2. \A m \in 1..M : hunk[m] = hunk[1] + m - 1 /\ hunk[m] \in 1..Len(script)
  BY DEF HunkGood
<1>3. Len(script) \in Nat /\ DOMAIN script = 1..Len(script) /\ \A i \in 1..Len(script) : script[i] \in Signs
  <2> HIDE DEF Signs
  <2> QED
    OBVIOUS
<1>4. \A m \in 1..M : hunk[m] \in Nat
  <2> HIDE DEF M
  <2> QED
    BY <1>2, <1>3
<1>5. /\ IsSeq(h) /\ Len(h) = M
      /\ \A m \in 1..M : h[m].t = script[hunk[m]] /\ h[m].text = hunk[m]
  BY DEF HunkIs
<1>6. A \subseteq 1..M /\ B \subseteq A
  BY <1>5 DEF Altered, BlockHeads
<1>7. \A n \in 1..M : hunk[n] \in changes <=> n \in A
  <2>1. ASSUME NEW n \in 1..M PROVE hunk[n] \in Changed(script) <=> n \in A
    <3>1. hunk[n] \in Changed(script) <=> script[hunk[n]] \in {"+", "-"}
      BY <1>2, <1>3 DEF Changed, Places
    <3>2. script[hunk[n]] \in Signs
      BY <1>2, <1>3
    <3>3. n \in A <=> script[hunk[n]] # Unchanged
      BY <1>5 DEF Altered
    <3> QED
      BY <3>1, <3>2, <3>3, SignsApart
  <2> QED
    BY <1>1, <2>1
<1>8. \A i \in changes : \E n \in A : i = hunk[n]
  BY <1>1, <1>7
<1> HIDE DEF changes, M
<1>9. \A i : BlockOf(script, hunk, i) = Cardinality(J(i))
  BY DEF BlockOf, changes
<1>10. \A m, n \in 1..M : (hunk[m] < hunk[n] <=> m < n) /\ (hunk[m] <= hunk[n] <=> m <= n)
                          /\ hunk[n] - hunk[m] = n - m /\ (hunk[m] = hunk[n] => m = n)
  <2> SUFFICES ASSUME NEW m \in 1..M, NEW n \in 1..M
               PROVE  (hunk[m] < hunk[n] <=> m < n) /\ (hunk[m] <= hunk[n] <=> m <= n)
                      /\ hunk[n] - hunk[m] = n - m /\ (hunk[m] = hunk[n] => m = n)
    OBVIOUS
  <2>1. hunk[m] = hunk[1] + m - 1 /\ hunk[n] = hunk[1] + n - 1 /\ hunk[1] \in Nat
    BY <1>1, <1>2, <1>4
  <2> QED
    BY <1>1, <2>1
<1>11. ASSUME NEW m \in 1..M PROVE \A n \in 1..M : hunk[n] \in J(hunk[m]) <=> n \in Upto(m)
  <2> SUFFICES ASSUME NEW n \in 1..M PROVE hunk[n] \in J(hunk[m]) <=> n \in Upto(m)
    OBVIOUS
  <2>1. n \in A => ((\A k \in changes : k < hunk[n] => hunk[n] - k - 1 > Gap) <=> n \in B)
    <3>1. n \in B <=> n \in A /\ \A k \in A : k < n => n - k - 1 > Gap
      BY DEF BlockHeads
    <3>2. \A k \in A : hunk[k] \in changes /\ (hunk[k] < hunk[n] <=> k < n) /\ hunk[n] - hunk[k] - 1 = n - k - 1
      BY <1>6, <1>7, <1>10
    <3> HIDE DEF A, B
    <3> QED
      BY <1>8, <3>1, <3>2
  <2>2. hunk[n] <= hunk[m] <=> n <= m
    BY <1>10
  <2>3. n \in B => n \in A
    BY <1>6
  <2> HIDE DEF A, B
  <2> QED
    BY <1>7, <2>1, <2>2, <2>3
<1>12. ASSUME NEW m \in 1..M PROVE BlockOf(script, hunk, hunk[m]) = BlockNo(h, m)
  <2> DEFINE S == Upto(m)
             T == J(hunk[m])
             f == [n \in S |-> hunk[n]]
  <2>1. S \subseteq 1..M /\ \A n \in 1..M : hunk[n] \in T <=> n \in S
    BY <1>6, <1>11
  <2>2. \A t \in T : \E n \in 1..M : t = hunk[n]
    BY <1>6, <1>8
  <2>3. m \in Nat
    BY <1>1
  <2>4. IsFiniteSet(S) /\ BlockNo(h, m) = Cardinality(S)
    BY <1>5, <2>3, BlockNoFacts DEF BlockNo
  <2> HIDE DEF S, T
  <2>5. f \in [S -> T]
    BY <2>1
  <2>6. \A x, y \in S : f[x] = f[y] => x = y
    BY <1>10, <2>1
  <2>7. \A t \in T : \E x \in S : f[x] = t
    BY <2>1, <2>2
  <2> HIDE DEF f
  <2>8. f \in Bijection(S, T)
    BY <2>5, <2>6, <2>7, Fun_IsBij
  <2>9. ExistsBijection(S, T)
    BY <2>8, Fun_ExistsBij
  <2>10. Cardinality(T) = Cardinality(S)
    BY <2>4, <2>9, FS_Bijection
  <2> QED
    BY <1>9, <2>4, <2>10 DEF T
<1> DEFINE L == {h[m].text : m \in {n \in A : BlockNo(h, n) = b}}
           R == {i \in changes : BlockOf(script, hunk, i) = b}
<1>13. \A m \in A : h[m].text = hunk[m] /\ hunk[m] \in changes /\ BlockOf(script, hunk, hunk[m]) = BlockNo(h, m)
  BY <1>5, <1>6, <1>7, <1>12
<1> HIDE DEF A
<1>14. L = R
  BY <1>8, <1>13
<1> QED
  BY <1>14 DEF A, changes, OfPageBlock, OfBlock

\* A Discard button, by its place.
ButtonAt(x, f, i, k, b) ==
    LET h == f.hunks[k]
        run == HunkBlocks(h)[b]
    IN  /\ x.selection = <<i, k, b>> /\ x.saw.path = DiffPath(f)[Len(DiffPath(f))]
        /\ x.saw.places = {h[n].text : n \in {m \in run.start..run.end : h[m].t # Unchanged}}
        /\ x.saw = [path |-> x.saw.path, places |-> x.saw.places]

\* Every button is at such a place.
LEMMA ButtonIs ==
    ASSUME NEW files, NEW x \in Buttons(files)
    PROVE  \E i \in DOMAIN Drawn(files) : \E k \in DOMAIN files[i].hunks :
             \E b \in DOMAIN HunkBlocks(files[i].hunks[k]) : ButtonAt(x, files[i], i, k, b)
<1> DEFINE Path1(f) == DiffPath(f)[Len(DiffPath(f))]
           Places1(h, run) == {h[n].text : n \in {m \in run.start..run.end : h[m].t # Unchanged}}
           Button(f, h, i, k, b) == [selection |-> <<i, k, b>>,
                                     saw |-> [path |-> Path1(f), places |-> Places1(h, HunkBlocks(h)[b])]]
<1>1. Buttons(files) = UNION {UNION {
          {Button(files[i], files[i].hunks[k], i, k, b) : b \in DOMAIN HunkBlocks(files[i].hunks[k])} :
             k \in DOMAIN files[i].hunks} : i \in {j \in DOMAIN Drawn(files) : HasRows(files, j)}}
  BY Zenon DEF Buttons, Unchanged
<1> HIDE DEF Button
<1>2. PICK i \in DOMAIN Drawn(files) : \E k \in DOMAIN files[i].hunks :
         \E b \in DOMAIN HunkBlocks(files[i].hunks[k]) : x = Button(files[i], files[i].hunks[k], i, k, b)
  <2> DEFINE InFile1(i) == UNION {
               {Button(files[i], files[i].hunks[k], i, k, b) : b \in DOMAIN HunkBlocks(files[i].hunks[k])} :
                  k \in DOMAIN files[i].hunks}
  <2>1. Buttons(files) = UNION {InFile1(i) : i \in {j \in DOMAIN Drawn(files) : HasRows(files, j)}}
    BY <1>1
  <2> HIDE DEF InFile1
  <2>2. PICK i \in DOMAIN Drawn(files) : x \in InFile1(i)
    BY <2>1
  <2>3. \E k \in DOMAIN files[i].hunks : \E b \in DOMAIN HunkBlocks(files[i].hunks[k]) :
           x = Button(files[i], files[i].hunks[k], i, k, b)
    BY <2>2 DEF InFile1
  <2> QED
    BY <2>3
<1>3. PICK k \in DOMAIN files[i].hunks :
         \E b \in DOMAIN HunkBlocks(files[i].hunks[k]) : x = Button(files[i], files[i].hunks[k], i, k, b)
  BY <1>2
<1> DEFINE h == files[i].hunks[k]
<1>4. PICK b \in DOMAIN HunkBlocks(h) : x = Button(files[i], h, i, k, b)
  BY <1>3
<1> HIDE DEF Path1, Places1
<1>5. /\ x.selection = <<i, k, b>> /\ x.saw.path = Path1(files[i])
      /\ x.saw.places = Places1(h, HunkBlocks(h)[b])
      /\ x.saw = [path |-> x.saw.path, places |-> x.saw.places]
  BY <1>4 DEF Button
<1>6. ButtonAt(x, files[i], i, k, b)
  BY <1>5, Zenon DEF Path1, Places1, ButtonAt
<1> QED
  BY <1>6

\* What a button shows is what the backend discards when it is pressed.
LEMMA ButtonSees ==
    ASSUME NEW d, SaneDiff(d), NEW selection, NEW saw, OfButton(d, selection, saw)
    PROVE  /\ saw.path = InDiff(d)[selection[1]] /\ saw.places = Selected(d, selection)
           /\ saw = [path |-> saw.path, places |-> saw.places] /\ saw.path \in Path
<1> DEFINE files == ParseDiff(Patch(d))
<1>1. PICK x \in Buttons(files) : x.selection = selection /\ x.saw = saw
  BY DEF OfButton
<1>2. FilesAre(files, d, Len(InDiff(d)))
  BY PatchParsed
<1>3. \A i \in 1..Len(InDiff(d)) : InDiff(d)[i] \in Path
  BY InDiffPaths
<1> HIDE DEF files
<1>4. PICK i \in DOMAIN Drawn(files) : \E k \in DOMAIN files[i].hunks :
         \E b \in DOMAIN HunkBlocks(files[i].hunks[k]) : ButtonAt(x, files[i], i, k, b)
  BY ButtonIs
<1> DEFINE f == files[i]
<1>5. PICK k \in DOMAIN f.hunks : \E b \in DOMAIN HunkBlocks(f.hunks[k]) : ButtonAt(x, f, i, k, b)
  BY <1>4
<1>6. PICK b \in DOMAIN HunkBlocks(f.hunks[k]) : ButtonAt(x, f, i, k, b)
  BY <1>5
<1> DEFINE path == InDiff(d)[i]
           script == d[path].script
           hunk == Hunks(script)[k]
           h == f.hunks[k]
           run == HunkBlocks(h)[b]
<1>7. IsSeq(files) /\ Len(files) = Len(InDiff(d)) /\ i \in 1..Len(InDiff(d))
  BY <1>2, DrawnFiles DEF FilesAre
<1>8. FileIs(f, path, d[path]) /\ path \in Path
  BY <1>2, <1>3, <1>7 DEF FilesAre
<1>9. f.hunks # <<>> /\ f.newPath = path /\ path # NoPath
  <2>1. NoPath \notin Path
    BY DiffAssumption, Zenon
  <2> QED
    BY <1>6, <1>8, <2>1, EmptyFacts DEF FileIs
<1>10. saw.path = path
  BY <1>1, <1>6, <1>9, PathLast DEF ButtonAt
<1>11. script \in Seq(Signs)
  BY <1>8 DEF SaneDiff
<1>12. HunksAre(f.hunks, script, Len(Hunks(script)))
  BY <1>8, <1>9 DEF FileIs
<1>13. k \in 1..Len(Hunks(script)) /\ k \in DOMAIN Hunks(script)
  <2>1. k \in 1..Len(Hunks(script))
    BY <1>12, SeqFacts DEF HunksAre
  <2> QED
    BY <1>11, <2>1, HunksGood, SeqFacts
<1>14. HunkIs(h, script, hunk, Len(hunk)) /\ HunkGood(script, hunk)
  BY <1>11, <1>12, <1>13, HunksGood DEF HunksAre
<1>15. IsSeq(h)
  BY <1>14 DEF HunkIs
<1>16. b \in 1..Len(HunkBlocks(h))
  BY <1>15, PageBlocks, SeqFacts
<1> HIDE DEF f, h, hunk
<1>17. {m \in run.start..run.end : h[m].t # Unchanged} = {m \in Altered(h) : BlockNo(h, m) = b}
  BY <1>15, <1>16, PageBlocks
<1>18. saw.places = {h[n].text : n \in {m \in run.start..run.end : h[m].t # Unchanged}}
  BY <1>1, <1>6, Zenon DEF ButtonAt, h, run
<1>19. saw.places = OfPageBlock(h, b)
  BY <1>17, <1>18 DEF OfPageBlock
<1> HIDE DEF script, path, run
<1>20. saw.places = OfBlock(script, hunk, b)
  BY <1>11, <1>14, <1>19, BackendBlocks
<1>21. selection[1] = i /\ selection[2] = k /\ selection[3] = b
  <2>1. selection = <<i, k, b>>
    BY <1>1, <1>6 DEF ButtonAt
  <2> QED
    BY <2>1
<1>22. Selected(d, selection) = OfBlock(script, hunk, b)
  BY <1>21, Zenon DEF Selected, OfBlock, script, path, hunk
<1>23. saw = [path |-> saw.path, places |-> saw.places]
  BY <1>1, <1>6 DEF ButtonAt
<1> QED
  BY <1>8, <1>10, <1>20, <1>21, <1>22, <1>23 DEF path

\* What git is handed is what the user saw.
Handed == discard.at = "checked" => discard.patch = discard.saw /\ discard.saw.path \in Path

\* The patch is made of the diff just read, which is of the revision the user
\* saw: what a button of the one stands for, one of the other does.
LEMMA HandedStep ==
    ASSUME DiffInv, DiffsSane, Handed, [DiffNext]_diffVars
    PROVE  Handed'
<1>1. CASE RevisionChecked /\ discard'.at = "checked"
  <2> DEFINE path == InDiff(disk)[discard.selection[1]]
             places == Selected(disk, discard.selection)
  <2>1. DiffTypes /\ DiscardsNamed /\ SaneDiff(disk)
    BY DEF DiffInv, DiffsSane
  <2>2. discard' = [discard EXCEPT !.at = "proposed", !.patch = NoPatch]
           => discard'.at = "proposed"
    BY <2>1 DEF DiffTypes
  <2>3. /\ discard.at = "applying" /\ Revision(disk) = discard.revision
        /\ discard' = [discard EXCEPT !.at = "checked", !.patch = [path |-> path, places |-> places]]
    BY <1>1, <2>2 DEF RevisionChecked, Refused
  <2>4. OfButton(disk, discard.selection, discard.saw)
    <3>1. OfButton(discard.revision, discard.selection, discard.saw)
      BY <2>1, <2>3 DEF DiscardsNamed
    <3>2. Patch(discard.revision) = Patch(disk)
      BY <2>3, RevisionPatch
    <3> QED
      BY <3>1, <3>2 DEF OfButton
  <2> HIDE DEF path, places
  <2>5. /\ discard.saw.path = path /\ discard.saw.places = places /\ path \in Path
        /\ discard.saw = [path |-> path, places |-> places]
    BY <2>1, <2>4, ButtonSees DEF path, places
  <2>6. discard'.patch = [path |-> path, places |-> places] /\ discard'.saw = discard.saw
    BY <2>1, <2>3 DEF DiffTypes
  <2> QED
    BY <2>5, <2>6 DEF Handed
<1>2. CASE discard' = discard
  BY <1>2 DEF Handed
<1>3. CASE discard'.at # "checked"
  BY <1>3 DEF Handed
<1>4. \/ discard' = discard \/ RevisionChecked \/ discard' = NoDiscard
      \/ \E a \in {"proposed", "applying"} : \E x :
            \/ discard' = [discard EXCEPT !.at = a]
            \/ discard' = [discard EXCEPT !.at = a, !.patch = x]
      \/ \E x : discard' = [at |-> "asked", revision |-> x.revision, selection |-> x.selection,
                            saw |-> x.saw, patch |-> NoPatch]
  <2>1. CASE UNCHANGED diffVars
    BY <2>1 DEF diffVars, diffState
  <2>2. CASE Asked
    BY <2>2 DEF Asked, ClickDiscard, PressRow, Answer, RevealPath
  <2>3. CASE Written
    BY <2>3 DEF Written, EditDisk
  <2>4. CASE RunScript \/ StartLoad \/ LoadEnds \/ PageEnds
    BY <2>4 DEF RunScript, StartLoad, LoadEnds, PageEnds
  <2>5. CASE Previewed \/ GitApplies
    BY <2>5 DEF Previewed, GitApplies, Refused
  <2>6. CASE Receive
    <3>1. /\ Head(toOwner).type \in {"ready", "files", "discard"}
      BY <2>6, TailAny DEF Receive, DiffInv, DiffTypes
    <3>2. ReadyArrives \/ FilesArrive(Head(toOwner).list) \/ DiscardArrives(Head(toOwner))
      BY <2>6, <3>1 DEF Receive
    <3> QED
      BY <3>2 DEF ReadyArrives, FilesArrive, DiscardArrives
  <2> QED
    BY <2>1, <2>2, <2>3, <2>4, <2>5, <2>6 DEF DiffNext, Moves
<1>5. (discard' = discard \/ RevisionChecked) \/ discard'.at # "checked"
  <2>1. DiffTypes
    BY DEF DiffInv
  <2>2. discard' = NoDiscard => discard'.at # "checked"
    BY DEF NoDiscard
  <2>3. \A a \in {"proposed", "applying"} : \A x :
           \/ discard' = [discard EXCEPT !.at = a]
           \/ discard' = [discard EXCEPT !.at = a, !.patch = x]
           => discard'.at # "checked"
    BY <2>1 DEF DiffTypes
  <2>4. ASSUME NEW x, discard' = [at |-> "asked", revision |-> x.revision, selection |-> x.selection,
                                  saw |-> x.saw, patch |-> NoPatch]
        PROVE  discard'.at # "checked"
    BY <2>4
  <2>5. ASSUME NEW a \in {"proposed", "applying"}, NEW x,
               \/ discard' = [discard EXCEPT !.at = a]
               \/ discard' = [discard EXCEPT !.at = a, !.patch = x]
        PROVE  discard'.at # "checked"
    BY <2>3, <2>5
  <2> QED
    BY <1>4, <2>2, <2>4, <2>5
<1> QED
  BY <1>1, <1>2, <1>3, <1>5

\* What git is told to take back is the block the user saw when they asked for
\* it, of the file they saw it in: the page (hunkBlocks, DiffParse.mjs) and the
\* backend (block_ids and git_discard, local/patch.rs) count blocks apart, and
\* come to the same ones, whatever was written, loaded or drawn in between.  The
\* file that still reads as they saw it loses that block and no more, and no
\* other file is touched.
THEOREM DiscardIsExact == DiffSpec => DiscardExact
<1>1. DiffInit => DiffInv /\ DiffsSane /\ Handed
  <2>1. DiffInit => discard.at = "none"
    BY DEF DiffInit, NoDiscard
  <2>2. DiffInit => Handed
    BY <2>1 DEF Handed
  <2> QED
    BY <2>2, InitDiff, SaneInit, DiffAssumption
<1>2. DiffInv /\ DiffsSane /\ Handed /\ [DiffNext]_diffVars => (DiffInv /\ DiffsSane /\ Handed)'
  BY NextDiff, SaneStep, HandedStep
<1>3. ASSUME DiffInv, DiffsSane, Handed, [DiffNext]_diffVars, discard.at = "checked", discard' = NoDiscard
      PROVE  /\ discard.patch = discard.saw
             /\ \A p \in Path \ {discard.saw.path} : disk'[p] = disk[p]
             /\ disk[discard.saw.path] = discard.revision[discard.saw.path] =>
                   disk'[discard.saw.path] = Reverted(disk[discard.saw.path], discard.saw.places)
  <2> DEFINE path == discard.saw.path
  <2>1. discard.patch = discard.saw /\ path \in Path /\ Whole(disk) /\ DiffTypes
    BY <1>3 DEF Handed, DiffInv, DiffTypes
  <2>2. discard' # discard /\ discard'.at = "none"
    BY <1>3 DEF NoDiscard
  <2>3. GitApplies /\ ~Refused
    <3>1. ~Refused
      BY <2>1, <2>2 DEF Refused, DiffTypes
    <3>2. ~UNCHANGED diffVars /\ ~UNCHANGED discard
      BY <2>2 DEF diffVars, diffState
    <3>3. ~Receive
      <4>1. ASSUME Receive PROVE FALSE
        <5>1. Head(toOwner).type \in {"ready", "files", "discard"}
          BY <4>1, <2>1, TailAny DEF Receive, DiffTypes
        <5>2. ReadyArrives \/ FilesArrive(Head(toOwner).list) \/ DiscardArrives(Head(toOwner))
          BY <4>1, <5>1 DEF Receive
        <5> QED
          BY <1>3, <3>2, <5>2 DEF ReadyArrives, FilesArrive, DiscardArrives
      <4> QED
        BY <4>1
    <3> QED
      BY <1>3, <3>1, <3>2, <3>3 DEF DiffNext, Asked, Written, Moves, RunScript, ClickDiscard, PressRow,
         Answer, RevealPath, StartLoad, LoadEnds, PageEnds, Previewed, RevisionChecked, EditDisk
  <2>4. PICK c \in IF disk[path] = discard.revision[path]
                    THEN {Reverted(disk[path], discard.saw.places)} ELSE Change :
           disk' = [disk EXCEPT ![path] = c]
    BY <2>1, <2>3 DEF GitApplies
  <2>5. disk'[path] = c /\ \A p \in Path \ {path} : disk'[p] = disk[p]
    BY <2>1, <2>4 DEF Whole
  <2> QED
    BY <2>1, <2>4, <2>5
<1>4. DiffInv /\ DiffsSane /\ Handed /\ [DiffNext]_diffVars =>
        [discard.at = "checked" /\ discard' = NoDiscard =>
            /\ discard.patch = discard.saw
            /\ \A p \in Path \ {discard.saw.path} : disk'[p] = disk[p]
            /\ disk[discard.saw.path] = discard.revision[discard.saw.path] =>
                  disk'[discard.saw.path] = Reverted(disk[discard.saw.path], discard.saw.places)
        ]_diffVars
  BY <1>3
<1> QED
  BY <1>1, <1>2, <1>4, PTL DEF DiffSpec, DiscardExact
=============================================================================
