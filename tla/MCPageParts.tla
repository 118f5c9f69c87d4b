------------------------------ MODULE MCPageParts ------------------------------
(* The parts of the page that share no state with one another, checked side by *)
(* side: a behaviour is one of one part, the others as they begin.             *)
EXTENDS SharedDrafts, VendorTree, DiffPage, VisualFrame, ModelPicker, PageCalls, ComposerFiles, TurnDiff

VARIABLE part   \* the one that moves

vars == <<part, draftVars, vendorVars, diffVars, frameVars, pickerVars, pageCallVars, fileVars,
          turnDiffVars>>

\* Two revisions of the pinned checkout: what a module imports at run time, for
\* its types only, and as a worker.  The page's own "b" and "w" replace theirs.
Source(imports, types, workers, version) ==
    [imports |-> imports, types |-> types, workers |-> workers, version |-> version]
MCUpstream ==
    "c1" :> ("a" :> Source({"b"}, {}, {"w"}, "c1") @@ "b" :> Source({}, {"a"}, {}, "c1")
             @@ "w" :> Source({"b"}, {}, {}, "c1"))
    @@ "c2" :> ("a" :> Source({"b"}, {"w"}, {}, "c2") @@ "w" :> Source({}, {}, {}, "c2"))
MCShimText == "b" :> Source({"a"}, {}, {}, "local") @@ "w" :> Source({}, {"a"}, {}, "local")

\* Changes that draw no row, one, a rename's two and more than the budget.
Changes(status, script) ==
    [status |-> status, binary |-> FALSE, script |-> script,
     from |-> IF status = "renamed" THEN "q" ELSE ""]
MCPathOrder == <<"a", "b">>
MCChange == {Changes("clean", <<>>), Changes("added", <<"+">>), Changes("untracked", <<>>),
             Changes("renamed", <<"-", " ">>),
             Changes("modified", <<"-", " ", " ", "+", " ", "+">>)}

\* A model with every control, one with none, and two with some.
Offers(levels, injected, default, flag, descriptor, thinks, auto) ==
    [effortLevels |-> levels, promptInjected |-> injected, defaultEffort |-> default,
     fastFlag |-> flag, fastDescriptor |-> descriptor, thinking |-> thinks, autoMode |-> auto]
EveryControl == Offers({"low", "high", "ultra"}, {"ultra"}, "low", TRUE, TRUE, TRUE, TRUE)
NoControl == Offers({}, {}, Unset, FALSE, FALSE, FALSE, FALSE)
MCReport == {"m" :> EveryControl @@ "n" :> NoControl, "m" :> EveryControl, "n" :> NoControl,
             "m" :> Offers({"low", "ultra"}, {"low"}, "ultra", TRUE, FALSE, FALSE, TRUE)
               @@ "n" :> Offers({"low", "high"}, {}, "high", FALSE, TRUE, FALSE, FALSE)}

\* A home folder, with a workspace inside it, beside it, "/" or none; one alone;
\* and folders that are written in a roundabout way.
MCContext ==
    {[cwd |-> w, homeDir |-> <<"u">>] : w \in {Unknown, <<>>, <<"u", "w">>, <<"w">>}}
        \cup {[cwd |-> <<"w">>, homeDir |-> Unknown],
               [cwd |-> <<"u", ".", "..", "w">>, homeDir |-> <<"u", "..">>],
               [cwd |-> <<"..", "w">>, homeDir |-> <<"", "u">>]}
MCPathRequest ==
    [form : {"absolute", "home", "relative"},
     parts : SeqOf({"..", "u", "w"}, 2)
               \cup {<<"u", "..", "w">>, <<"..", "u", "w">>, <<"u", "..", "..">>}]

MCIsImage(f) == f \in {"photo", "paste"}
MCHasPath(f) == f \in {"photo", "folder"}

Init ==
    /\ part \in {"drafts", "vendor", "diff", "frame", "picker", "calls", "files", "turns"}
    /\ DraftsInit /\ VendorInit /\ DiffInit /\ FrameInit
    /\ PickerInit /\ PageCallsInit /\ ComposerFilesInit /\ TurnDiffInit
    /\ part # "vendor" => checkout.head = "c1"
    /\ part # "diff" => disk = [p \in Path |-> Changes("clean", <<>>)]
    /\ part # "frame" => theme = "light"
    /\ part # "picker" => reported = "n" :> NoControl

Still(p, v) == part # p => UNCHANGED v

Next ==
    /\ UNCHANGED part
    /\ Still("drafts", draftVars) /\ Still("vendor", vendorVars) /\ Still("diff", diffVars)
    /\ Still("frame", frameVars) /\ Still("picker", pickerVars) /\ Still("calls", pageCallVars)
    /\ Still("files", fileVars) /\ Still("turns", turnDiffVars)
    /\ \/ part = "drafts" /\ DraftsNext
       \/ part = "vendor" /\ VendorNext
       \/ part = "diff" /\ DiffNext
       \/ part = "frame" /\ FrameNext
       \/ part = "picker" /\ PickerNext
       \/ part = "calls" /\ PageCallsNext
       \/ part = "files" /\ ComposerFilesNext
       \/ part = "turns" /\ TurnDiffNext

Spec == Init /\ [][Next]_vars
=============================================================================
