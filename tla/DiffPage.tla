------------------------------- MODULE DiffPage -------------------------------
(***************************************************************************)
(* The page that shows the working changes (Resources/DiffPage) with its     *)
(* owner in the app (DiffViewModel.swift, GitChangesActions.swift) and the   *)
(* backend's discard (local/patch.rs).  The page parses the patch, draws it,  *)
(* names a block by its place in it and a file by its row; what is named may  *)
(* have changed on disk, in the app or in the page by the time it arrives.    *)
(*                                                                            *)
(* A changed file is an edit script: the lines kept, added and removed, each  *)
(* with its place as its text.  A revision is a hash of the patch, so of the  *)
(* tracked changes: it stands for those.                                      *)
(* Labels, fonts, colours and which files are collapsed are left out.         *)
(***************************************************************************)
EXTENDS Integers, FiniteSets, SequencesExt

CONSTANTS
    PathOrder,      \* the paths, in the order git lists them
    Change,         \* what may have happened to a file
    Gap,            \* unchanged lines that keep two runs in one block
    Around,        \* unchanged lines git shows around a change
    MaxFiles,       \* MAX_FILES
    MaxUntracked,   \* MAX_UNTRACKED
    MaxFileLines,   \* MAX_FILE_LINES
    MaxTotalLines,  \* MAX_TOTAL_LINES
    MaxSent,        \* bound: scripts and messages on their way when another is sent unasked
    MaxEdits,       \* bound: how often the worktree is written to by others
    MaxAsks         \* bound: how often the user clicks

Path == {PathOrder[i] : i \in DOMAIN PathOrder}
NoPath == ""

ASSUME DiffAssumption ==
    /\ PathOrder \in Seq(STRING) /\ NoPath \notin Path
    /\ \A c \in Change :
          /\ DOMAIN c = {"status", "binary", "from", "script"}
          /\ c.status \in {"clean", "modified", "added", "deleted", "renamed", "untracked"}
          /\ c.binary \in BOOLEAN /\ c.script \in Seq({"+", "-", " "})
    /\ {Gap, Around, MaxFiles, MaxUntracked, MaxFileLines, MaxTotalLines, MaxSent,
        MaxEdits, MaxAsks} \subseteq Nat

VARIABLES
    disk,       \* per path, how the worktree differs from HEAD
    owner,      \* the app's DiffViewModel
    document,   \* the page
    toPage,     \* scripts the app has the page run, in order
    toOwner,    \* messages the page posted, in order
    discard,    \* the app's proposal to discard a block
    edits,      \* history: how often the worktree was written to
    asks        \* history: how often the user clicked

diffState == <<disk, owner, document, toPage, toOwner, discard>>
diffVars == <<diffState, edits, asks>>

-----------------------------------------------------------------------------
(* git diff, external.                                                      *)

Places(script, t) == {i \in DOMAIN script : script[i] \in t}
Changed(script) == Places(script, {"+", "-"})

\* The line a place of the script has in the new file.
LineOf(script, i) == Cardinality({j \in Places(script, {"+", " "}) : j <= i})

Interval(from, to) == [i \in 1..(to - from + 1) |-> from + i - 1]

\* The hunks: the maximal runs of places at most Around from a change.
Hunks(script) ==
    LET near == {i \in DOMAIN script : \E j \in Changed(script) : i - j \in -Around..Around}
        firsts == {i \in near : i - 1 \notin near}
        last(i) == CHOOSE j \in near : i <= j /\ i..j \subseteq near /\ j + 1 \notin near
    IN  [n \in 1..Cardinality(firsts) |->
            LET i == CHOOSE f \in firsts : Cardinality({g \in firsts : g < f}) = n - 1
            IN  Interval(i, last(i))]

Row(k, path, old, new) == [k |-> k, path |-> path, old |-> old, new |-> new]

HunkLines(script, hunk) ==
    <<Row("@@", NoPath, Cardinality({j \in Places(script, {"-", " "}) : j < hunk[1]}) + 1,
                        Cardinality({j \in Places(script, {"+", " "}) : j < hunk[1]}) + 1)>>
    \o [n \in DOMAIN hunk |-> Row(script[hunk[n]], NoPath, hunk[n], 0)]

\* A patch's lines for one file.
FileLines(path, c) ==
    <<Row("diff", path, 0, 0)>>
    \o (CASE c.status = "added"   -> <<Row("new file mode", NoPath, 0, 0)>>
          [] c.status = "deleted" -> <<Row("deleted file mode", NoPath, 0, 0)>>
          [] c.status = "renamed" -> <<Row("rename from", c.from, 0, 0),
                                       Row("rename to", path, 0, 0)>>
          [] OTHER -> <<>>)
    \o (IF c.binary THEN <<Row("Binary", NoPath, 0, 0)>>
        ELSE IF c.script = <<>> THEN <<>>
        ELSE <<Row("---", IF c.status = "added" THEN NoPath
                          ELSE IF c.status = "renamed" THEN c.from ELSE path, 0, 0),
               Row("+++", IF c.status = "deleted" THEN NoPath ELSE path, 0, 0)>>
             \o FlattenSeq([n \in DOMAIN Hunks(c.script) |->
                               HunkLines(c.script, Hunks(c.script)[n])]))

\* The elements of s in T, in order.
Only(s, T) ==
    LET kept[n \in 0..Len(s)] ==
            IF n = 0 THEN <<>>
            ELSE IF s[n] \in T THEN Append(kept[n - 1], s[n]) ELSE kept[n - 1]
    IN  kept[Len(s)]

Tracked(d) == {p \in DOMAIN d : d[p].status \notin {"clean", "untracked"}}
InDiff(d) == Only(PathOrder, Tracked(d))
Untracked(d) == Only(PathOrder, {p \in DOMAIN d : d[p].status = "untracked"})
Patch(d) == FlattenSeq([i \in DOMAIN InDiff(d) |-> FileLines(InDiff(d)[i], d[InDiff(d)[i]])])

\* The hash of the patch: untracked files are not in it.
Revision(d) == [p \in Tracked(d) |-> d[p]]

-----------------------------------------------------------------------------
(* DiffParse.mjs                                                           *)

NewFile(path) == [oldPath |-> path, newPath |-> path, status |-> "modified",
                  binary |-> FALSE, hunks |-> <<>>]

\* A header line changes the file it belongs to.
Header(f, ln) ==
    CASE ln.k = "---" -> IF ln.path # NoPath THEN [f EXCEPT !.oldPath = ln.path]
                                             ELSE [f EXCEPT !.status = "added"]
      [] ln.k = "+++" -> IF ln.path # NoPath THEN [f EXCEPT !.newPath = ln.path]
                                             ELSE [f EXCEPT !.status = "deleted"]
      [] ln.k = "rename from" -> [f EXCEPT !.oldPath = ln.path, !.status = "renamed"]
      [] ln.k = "rename to" -> [f EXCEPT !.newPath = ln.path, !.status = "renamed"]
      [] ln.k = "new file mode" -> [f EXCEPT !.status = "added"]
      [] ln.k = "deleted file mode" -> [f EXCEPT !.status = "deleted"]
      [] ln.k = "Binary" -> [f EXCEPT !.binary = TRUE]
      [] ln.k = "@@" -> [f EXCEPT !.hunks = Append(@, <<>>)]

\* Mutant of Numbered: a removed line is numbered in the new file.
NumberedOnBothSides(p, ln) == [t |-> ln.k, text |-> ln.old,
                               oldNo |-> IF ln.k = "+" THEN 0 ELSE p.oldNo, newNo |-> p.newNo]

\* A line of a hunk, numbered on the sides it is on.
Numbered(p, ln) == [t |-> ln.k, text |-> ln.old,
                    oldNo |-> IF ln.k = "+" THEN 0 ELSE p.oldNo,
                    newNo |-> IF ln.k = "-" THEN 0 ELSE p.newNo]

\* parseDiff, one line of it: p holds the files, whether a hunk is open, and
\* the numbers of the next line.
ParseLine(p, ln) ==
    LET n == Len(p.files)
    IN  CASE ln.k = "diff" -> [p EXCEPT !.files = Append(@, NewFile(ln.path)), !.open = FALSE]
          [] ln.k # "diff" /\ p.open /\ ln.k \in {"+", "-", " "} ->
                [p EXCEPT !.files[n].hunks[Len(p.files[n].hunks)] = Append(@, Numbered(p, ln)),
                          !.oldNo = @ + (IF ln.k = "+" THEN 0 ELSE 1),
                          !.newNo = @ + (IF ln.k = "-" THEN 0 ELSE 1)]
          [] OTHER -> [p EXCEPT !.files[n] = Header(@, ln), !.open = ln.k = "@@",
                                !.oldNo = IF ln.k = "@@" THEN ln.old ELSE @,
                                !.newNo = IF ln.k = "@@" THEN ln.new ELSE @]

ParseDiff(patch) ==
    LET parsed[n \in 0..Len(patch)] ==
            IF n = 0 THEN [files |-> <<>>, open |-> FALSE, oldNo |-> 0, newNo |-> 0]
            ELSE ParseLine(parsed[n - 1], patch[n])
    IN  parsed[Len(patch)].files

\* diffPath
DiffPath(f) == IF f.status = "renamed" /\ f.oldPath # f.newPath
               THEN <<f.oldPath, f.newPath>>
               ELSE <<IF f.newPath # NoPath THEN f.newPath ELSE f.oldPath>>

\* Mutant of Extend: a block ends one unchanged line too early.
ExtendShort(runs, i, t) ==
    IF t = " " THEN runs
    ELSE IF runs # <<>> /\ i - runs[Len(runs)].end - 1 < Gap
         THEN [runs EXCEPT ![Len(runs)].end = i]
         ELSE Append(runs, [start |-> i, end |-> i])

\* The blocks so far, when line i of the hunk is seen.
Extend(runs, i, t) ==
    IF t = " " THEN runs
    ELSE IF runs # <<>> /\ i - runs[Len(runs)].end - 1 <= Gap
         THEN [runs EXCEPT ![Len(runs)].end = i]
         ELSE Append(runs, [start |-> i, end |-> i])

\* hunkBlocks: the places where each block begins and ends, in order.
HunkBlocks(h) ==
    LET runs[n \in 0..Len(h)] == IF n = 0 THEN <<>> ELSE Extend(runs[n - 1], n, h[n].t)
    IN  runs[Len(h)]

-----------------------------------------------------------------------------
(* DiffPage.js                                                             *)

Total(f) == FoldLeft(LAMBDA n, h : n + Len(h), 0, f.hunks)

\* render: the budget left when file i of the list is drawn.
BudgetAt(files, i) == MaxTotalLines - FoldLeft(LAMBDA n, f : n + Total(f), 0, SubSeq(files, 1, i - 1))

Drawn(files) == SubSeq(files, 1, IF Len(files) < MaxFiles THEN Len(files) ELSE MaxFiles)

\* renderFile: whether the file's rows are drawn.
HasRows(files, i) ==
    /\ ~files[i].binary /\ Total(files[i]) \in 1..MaxFileLines
    /\ BudgetAt(files, i) > 0

\* The rows drawn, those of every file whose rows are.
DrawnRows(files) ==
    FoldLeft(LAMBDA n, i : n + (IF HasRows(files, i) THEN Total(files[i]) ELSE 0), 0,
             [i \in DOMAIN Drawn(files) |-> i])

\* canOpen: the file's lines open in the editor.
CanOpen(f) == f.status # "deleted" /\ ~f.binary /\ f.newPath # NoPath

\* The Discard buttons: where each is, and the changes its block shows.
Buttons(files) ==
    LET Saw(f, h, b) ==
            [path |-> DiffPath(f)[Len(DiffPath(f))],
             places |-> {h[n].text : n \in {m \in b.start..b.end : h[m].t # " "}}]
        InFile(i) == UNION {
            LET h == files[i].hunks[k]
            IN  {[selection |-> <<i, k, b>>, saw |-> Saw(files[i], h, HunkBlocks(h)[b])] :
                    b \in DOMAIN HunkBlocks(h)} : k \in DOMAIN files[i].hunks}
    IN  UNION {InFile(i) : i \in {j \in DOMAIN Drawn(files) : HasRows(files, j)}}

\* Mutant of Listed: the list goes on where the page's rows stop.
ListedUncut(files, untracked) ==
    [n \in DOMAIN Drawn(files) |->
        [kind |-> "file", index |-> n,
         path |-> IF files[n].newPath # NoPath THEN files[n].newPath ELSE files[n].oldPath]]
    \o [n \in DOMAIN untracked |-> [kind |-> "untracked", index |-> n, path |-> untracked[n]]]

\* listed: the rows of the app's file list, by what reveal scrolls to.
Listed(files, untracked) ==
    [n \in DOMAIN Drawn(files) |->
        [kind |-> "file", index |-> n,
         path |-> IF files[n].newPath # NoPath THEN files[n].newPath ELSE files[n].oldPath]]
    \o [n \in 1..(IF Len(untracked) < MaxUntracked THEN Len(untracked) ELSE MaxUntracked) |->
        [kind |-> "untracked", index |-> n, path |-> untracked[n]]]

\* What the page has at that place, if anything.
Target(files, untracked, kind, index) ==
    IF kind = "file" /\ index \in DOMAIN Drawn(files) THEN DiffPath(files[index])[Len(DiffPath(files[index]))]
    ELSE IF kind = "untracked" /\ index \in DOMAIN untracked /\ index <= MaxUntracked THEN untracked[index]
    ELSE NoPath

Diff == [Path -> Change]
NoDiff == [p \in {} |-> {}]
Nowhere == [target |-> NoPath, wanted |-> NoPath, current |-> FALSE]
NoPatch == [path |-> NoPath, places |-> {}]
NoDiscard == [at |-> "none", revision |-> NoDiff, selection |-> <<>>, saw |-> NoPatch,
              patch |-> NoPatch]
Fresh == [diff |-> NoDiff, files |-> <<>>, shown |-> Nowhere]

DiffInit ==
    /\ disk \in Diff
    /\ owner = [snapshot |-> NoDiff, loading |-> FALSE, reading |-> NoDiff, loaded |-> FALSE,
                list |-> <<>>, pending |-> NoPath]
    /\ document = Fresh
    /\ toPage = <<>> /\ toOwner = <<[type |-> "ready"]>>
    /\ discard = NoDiscard
    /\ edits = 0 /\ asks = 0

Room == Len(toPage) < MaxSent /\ Len(toOwner) < MaxSent

\* window.nativeDiff.render: nothing for the snapshot it drew last; otherwise
\* the pane is drawn anew, and the list goes to the app.
Render(d) ==
    IF d = document.diff THEN UNCHANGED <<document, toOwner>>
    ELSE LET files == ParseDiff(Patch(d))
         IN  /\ document' = [diff |-> d, files |-> files, shown |-> Nowhere]
             /\ toOwner' = Append(toOwner, [type |-> "files",
                                            list |-> Listed(files, Untracked(d))])

\* window.nativeDiff.reveal
Reveal(ask) ==
    /\ document' = [document EXCEPT !.shown =
          [target |-> Target(document.files, Untracked(document.diff), ask.row.kind, ask.row.index),
           wanted |-> ask.row.path, current |-> ask.current]]
    /\ UNCHANGED toOwner

\* The page runs the next script.
RunScript ==
    /\ toPage # <<>>
    /\ IF Head(toPage).k = "render" THEN Render(Head(toPage).diff) ELSE Reveal(Head(toPage))
    /\ toPage' = Tail(toPage)
    /\ UNCHANGED <<disk, owner, discard>>

\* A click on a Discard button.
ClickDiscard ==
    /\ Room /\ document.diff # NoDiff
    /\ \E b \in Buttons(document.files) :
          toOwner' = Append(toOwner, [type |-> "discard", selection |-> b.selection,
                                      saw |-> b.saw, revision |-> Revision(document.diff)])
    /\ UNCHANGED <<disk, owner, document, toPage, discard>>

-----------------------------------------------------------------------------
(* DiffViewModel.swift                                                      *)

RenderScript(d) == [k |-> "render", diff |-> d]

\* A row is current when the list is the page's: nothing on its way changes either.
RevealScript(row) ==
    [k |-> "reveal", row |-> row,
     current |-> /\ \A i \in DOMAIN toPage : toPage[i].k # "render"
                 /\ \A i \in DOMAIN toOwner : toOwner[i].type # "files"]

\* refresh(): one load at a time.  The files are read some time before it ends.
StartLoad ==
    /\ ~owner.loading
    /\ owner' = [owner EXCEPT !.loading = TRUE, !.reading = disk]
    /\ UNCHANGED <<disk, document, toPage, toOwner, discard>>

LoadEnds ==
    /\ owner.loading /\ Len(toPage) < MaxSent
    /\ \/ owner' = [owner EXCEPT !.loading = FALSE, !.reading = NoDiff]   \* it failed
          /\ UNCHANGED toPage
       \/ LET d == owner.reading
          IN  /\ owner' = [owner EXCEPT !.loading = FALSE, !.reading = NoDiff, !.snapshot = d]
              /\ toPage' = IF owner.loaded /\ d # owner.snapshot
                           THEN Append(toPage, RenderScript(d)) ELSE toPage
    /\ UNCHANGED <<disk, document, toOwner, discard>>

\* reveal(_:) of a row of the list.
PressRow ==
    /\ owner.loaded /\ Len(toPage) < MaxSent
    /\ \E i \in DOMAIN owner.list : toPage' = Append(toPage, RevealScript(owner.list[i]))
    /\ UNCHANGED <<disk, owner, document, toOwner, discard>>

RowsOf(list, p) == {list[i] : i \in {j \in DOMAIN list : list[j].path = p}}

\* reveal(path:): now if the list has the file, else when a list does.
RevealPath(p) ==
    /\ Len(toPage) < MaxSent
    /\ IF owner.loaded /\ RowsOf(owner.list, p) # {}
       THEN /\ owner' = [owner EXCEPT !.pending = NoPath]
            /\ \E row \in RowsOf(owner.list, p) : toPage' = Append(toPage, RevealScript(row))
       ELSE owner' = [owner EXCEPT !.pending = p] /\ UNCHANGED toPage
    /\ UNCHANGED <<disk, document, toOwner, discard>>

ReadyArrives ==
    /\ owner' = [owner EXCEPT !.loaded = TRUE]
    /\ toPage' = IF owner.snapshot = NoDiff THEN toPage
                 ELSE Append(toPage, RenderScript(owner.snapshot))
    /\ UNCHANGED discard

FilesArrive(list) ==
    LET rows == RowsOf(list, owner.pending)
    IN  /\ owner' = [owner EXCEPT !.list = list, !.pending = IF rows = {} THEN @ ELSE NoPath]
        /\ IF rows # {} /\ owner.loaded
           THEN \E row \in rows :
                   toPage' = Append(toPage, [RevealScript(row) EXCEPT
                       !.current = /\ \A i \in DOMAIN toPage : toPage[i].k # "render"
                                   /\ \A i \in 2..Len(toOwner) : toOwner[i].type # "files"])
           ELSE UNCHANGED toPage
        /\ UNCHANGED discard

\* Only for the revision the app holds now, while none is being loaded, and not
\* over another proposal.
DiscardArrives(m) ==
    /\ discard' = IF /\ owner.loaded /\ ~owner.loading /\ m.revision = Revision(owner.snapshot)
                     /\ discard.at = "none"
                  THEN [at |-> "asked", revision |-> m.revision, selection |-> m.selection,
                        saw |-> m.saw, patch |-> NoPatch]
                  ELSE discard
    /\ UNCHANGED <<owner, toPage>>

\* receive(_:) of the page's next message.
Receive ==
    /\ toOwner # <<>>
    /\ LET m == Head(toOwner)
       IN  CASE m.type = "ready" -> ReadyArrives
             [] m.type = "files" -> FilesArrive(m.list)
             [] m.type = "discard" -> DiscardArrives(m)
    /\ toOwner' = Tail(toOwner)
    /\ UNCHANGED <<disk, document>>

\* The page's process ends, or it is loaded again.
PageEnds ==
    /\ owner.loaded /\ Room
    /\ owner' = [owner EXCEPT !.loaded = FALSE, !.list = <<>>]
    /\ document' = Fresh /\ toPage' = <<>>
    /\ toOwner' = Append(toOwner, [type |-> "ready"])
    /\ UNCHANGED <<disk, discard>>

-----------------------------------------------------------------------------
(* GitChangesActions.swift and local/patch.rs                              *)

\* block_ids: the number of the block a changed place of a hunk is in.
BlockOf(script, hunk, i) ==
    LET changes == Changed(script) \cap {hunk[n] : n \in DOMAIN hunk}
    IN  Cardinality({j \in changes : j <= i /\ \A k \in changes : k < j => j - k - 1 > Gap})

\* git_discard: what a selection stands for in the diff of the disk as it is.
Selected(d, selection) ==
    LET c == d[InDiff(d)[selection[1]]]
        hunk == Hunks(c.script)[selection[2]]
    IN  {i \in Changed(c.script) \cap {hunk[n] : n \in DOMAIN hunk} :
            BlockOf(c.script, hunk, i) = selection[3]}

\* A file with those changes taken back.
Reverted(c, places) ==
    LET kept == Only([i \in DOMAIN c.script |-> i],
                     {i \in DOMAIN c.script : ~(i \in places /\ c.script[i] = "+")})
        script == [n \in DOMAIN kept |-> IF kept[n] \in places THEN " " ELSE c.script[kept[n]]]
    IN  IF Changed(script) = {} /\ c.status # "renamed"
        THEN [status |-> "clean", binary |-> FALSE, from |-> NoPath, script |-> <<>>]
        ELSE [c EXCEPT !.script = IF Changed(script) = {} THEN <<>> ELSE script]

\* previewDiscard answers: the backend read the disk again, and refuses when
\* it is not at the proposal's revision.
Previewed ==
    /\ discard.at = "asked"
    /\ discard' = IF Revision(disk) = discard.revision THEN [discard EXCEPT !.at = "proposed"] ELSE NoDiscard
    /\ UNCHANGED <<disk, owner, document, toPage, toOwner>>

\* The user's answer to it.
Answer ==
    /\ discard.at = "proposed"
    /\ \/ discard' = [discard EXCEPT !.at = "applying"]
       \/ discard' = NoDiscard
    /\ UNCHANGED <<disk, owner, document, toPage, toOwner>>

\* The call ended without writing: the proposal stays up, and the diff is loaded
\* again (didChange).
Refused ==
    /\ discard' = [discard EXCEPT !.at = "proposed", !.patch = NoPatch]
    /\ owner' = [owner EXCEPT !.loading = TRUE, !.reading = disk]
    /\ UNCHANGED <<disk, document, toPage, toOwner>>

\* To apply it the backend reads the diff once more, and refuses when it is of
\* another revision; of the block it makes a patch, for git.
RevisionChecked ==
    /\ discard.at = "applying"
    /\ IF Revision(disk) # discard.revision THEN Refused
       ELSE /\ discard' = [discard EXCEPT !.at = "checked",
                  !.patch = [path |-> InDiff(disk)[discard.selection[1]],
                             places |-> Selected(disk, discard.selection)]]
            /\ UNCHANGED <<disk, owner, document, toPage, toOwner>>

\* git apply -R takes the block back from a file that is as it was read.  One
\* that was written to since goes by its lines, wherever they stand now: it may
\* become any other change.  And git may refuse.
GitApplies ==
    /\ discard.at = "checked"
    /\ \/ Refused
       \/ LET path == discard.patch.path
          IN  /\ \E c \in IF disk[path] = discard.revision[path]
                          THEN {Reverted(disk[path], discard.patch.places)} ELSE Change :
                    disk' = [disk EXCEPT ![path] = c]
              /\ discard' = NoDiscard
              /\ owner' = [owner EXCEPT !.loading = TRUE, !.reading = disk']
              /\ UNCHANGED <<document, toPage, toOwner>>

\* Anything else that writes to the worktree.
EditDisk(p, c) ==
    /\ disk[p] # c
    /\ disk' = [disk EXCEPT ![p] = c]
    /\ UNCHANGED <<owner, document, toPage, toOwner, discard>>

Asked ==
    /\ asks < MaxAsks /\ asks' = asks + 1 /\ UNCHANGED edits
    /\ ClickDiscard \/ PressRow \/ Answer \/ \E p \in Path : RevealPath(p)

Written ==
    /\ edits < MaxEdits /\ edits' = edits + 1 /\ UNCHANGED asks
    /\ \E p \in Path, c \in Change : EditDisk(p, c)

Moves ==
    /\ RunScript \/ StartLoad \/ LoadEnds \/ Receive \/ PageEnds \/ Previewed
       \/ RevisionChecked \/ GitApplies
    /\ UNCHANGED <<edits, asks>>

DiffNext == Asked \/ Written \/ Moves

DiffSpec == DiffInit /\ [][DiffNext]_diffVars

-----------------------------------------------------------------------------
\* What git is told to take back is the block the user saw when they asked for
\* it, of the file they saw it in, whatever was written, loaded or drawn in
\* between: the page and the backend count blocks apart.  The file that still
\* reads as they saw it loses that block and no more, and every other file is
\* left as it now is, one written to between the check and git included.
DiscardExact ==
    [][discard.at = "checked" /\ discard' = NoDiscard =>
          /\ discard.patch = discard.saw
          /\ \A p \in Path \ {discard.saw.path} : disk'[p] = disk[p]
          /\ disk[discard.saw.path] = discard.revision[discard.saw.path] =>
                disk'[discard.saw.path] = Reverted(disk[discard.saw.path], discard.saw.places)
      ]_diffVars

\* A row of the app's file list scrolls to its own file, as long as the list
\* is the one of the page's last drawing.
RevealHits == document.shown.current => document.shown.target = document.shown.wanted

\* Every row opens the line it shows: its number is that of its text in the
\* file.
OpensSeenLine ==
    \A i \in DOMAIN Drawn(document.files) :
        HasRows(document.files, i) /\ CanOpen(document.files[i]) =>
        LET f == document.files[i]
            script == document.diff[f.newPath].script
        IN  \A k \in DOMAIN f.hunks : \A n \in DOMAIN f.hunks[k] :
               LET row == f.hunks[k][n]
               IN  IF row.t = "-" THEN row.newNo = 0 ELSE row.newNo = LineOf(script, row.text)

\* A click leads where the row says, in the app's list and in the page.
RowsLead == RevealHits /\ OpensSeenLine
=============================================================================
