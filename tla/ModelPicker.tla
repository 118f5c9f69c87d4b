------------------------------ MODULE ModelPicker ------------------------------
(***************************************************************************)
(* The composer's model and its traits (ComposerModelPicker.logic.ts, the    *)
(* controller's onProviderModelSelect and toggleFastMode), and the same      *)
(* traits in the app's own forms (modelCatalog.ts): starred presets, the     *)
(* patches they apply, and a pick that waits for the access mode to change.  *)
(* What the CLI reports of its models may change at any time.                 *)
(*                                                                            *)
(* One provider and one account; names, groups and the search are left out.  *)
(* Synara's trait resolution (composerTraits.ts, shared/model.ts) and its     *)
(* draft store, under vendor/synara, are external.                            *)
(***************************************************************************)
EXTENDS Naturals, Sequences, FiniteSets

CONSTANTS
    Model,      \* the provider's models
    Effort,     \* the levels of an effort ladder
    Unset,      \* no value: a trait that is not pinned, an option not set
    Report,     \* what the CLI may report: per listed model its capabilities
    MaxStars,   \* bound: how many presets are starred
    MaxWaiting  \* bound: mode changes in the queue

Trait == [effort : Effort \cup {Unset}, fastMode : BOOLEAN \cup {Unset},
          thinking : BOOLEAN \cup {Unset}]

Caps == [effortLevels : SUBSET Effort, promptInjected : SUBSET Effort,
         defaultEffort : Effort \cup {Unset},
         fastFlag : BOOLEAN,         \* supportsFastMode
         fastDescriptor : BOOLEAN,   \* a fastMode control of its own
         thinking : BOOLEAN, autoMode : BOOLEAN]

ASSUME PickerAssumption ==
    /\ Unset \notin Effort /\ Unset \notin BOOLEAN
    /\ \A r \in Report : DOMAIN r \subseteq Model /\ \A m \in DOMAIN r :
          /\ r[m] \in Caps
          /\ IF r[m].effortLevels = {} THEN r[m].defaultEffort = Unset
             ELSE r[m].defaultEffort \in r[m].effortLevels \ r[m].promptInjected
    /\ MaxStars \in Nat /\ MaxWaiting \in Nat

VARIABLES
    reported,   \* what the CLI last reported
    draft,      \* the composer's model and the provider's options
    starred,    \* the starred presets, each with what its model was then (history)
    mode,       \* the thread's access mode
    queue,      \* the mode changes to persist, each with the pick that waits for it
    applied,    \* history: the preset picked last, of a model as it was starred, while
                \* nothing else has changed the draft
    crossed     \* history: something was chosen or reported while a pick waited

pickerVars == <<reported, draft, starred, mode, queue, applied, crossed>>

NoOptions == [effort |-> Unset, fastMode |-> Unset, thinking |-> Unset]

PickerInit ==
    /\ reported \in Report
    /\ draft \in [model : DOMAIN reported, options : {NoOptions}]
    /\ starred = {} /\ mode = "approval-required" /\ queue = <<>>
    /\ applied = {} /\ crossed = FALSE

NoCaps == [effortLevels |-> {}, promptInjected |-> {}, defaultEffort |-> Unset,
           fastFlag |-> FALSE, fastDescriptor |-> FALSE, thinking |-> FALSE, autoMode |-> FALSE]
CapsOf(m) == IF m \in DOMAIN reported THEN reported[m] ELSE NoCaps

-----------------------------------------------------------------------------
(* Synara's traits, external.                                              *)

\* getComposerTraitSelection: an option the model does not have, and a level
\* that belongs to the prompt, count as the default.
EffortOf(caps, options) ==
    IF options.effort \in caps.effortLevels \ caps.promptInjected THEN options.effort
                                                                  ELSE caps.defaultEffort
FastModeOf(caps, options) == caps.fastDescriptor /\ options.fastMode = TRUE
ThinkingOf(caps, options) ==
    IF ~caps.thinking THEN Unset ELSE IF options.thinking = Unset THEN TRUE ELSE options.thinking

SupportsFastMode(caps) == caps.fastDescriptor \/ caps.fastFlag

\* planComposerEffortChange: the patch for a level, none when the ladder has no
\* such level or the prompt carries it.
PlansEffort(caps, level) == level \in caps.effortLevels \ caps.promptInjected

\* buildNextProviderOptions: a patch over the options.
Patched(options, patch) ==
    [t \in DOMAIN options |-> IF patch[t] = Unset THEN options[t] ELSE patch[t]]

-----------------------------------------------------------------------------
(* ComposerModelPicker.logic.ts                                            *)

\* resolveStarredTraits: what a star pins; a control the model lacks stays unset.
ResolveStarredTraits(caps, options) ==
    [effort   |-> IF caps.effortLevels # {} THEN EffortOf(caps, options) ELSE Unset,
     fastMode |-> IF SupportsFastMode(caps) THEN FastModeOf(caps, options) ELSE Unset,
     thinking |-> ThinkingOf(caps, options)]

\* Mutant of StarredPatch: whether the model thinks is not brought back.
StarredPatchUnthinking(caps, star) ==
    [effort   |-> IF star.effort # Unset /\ PlansEffort(caps, star.effort)
                  THEN star.effort ELSE Unset,
     fastMode |-> IF star.fastMode # Unset /\ SupportsFastMode(caps)
                  THEN star.fastMode ELSE Unset,
     thinking |-> Unset]

\* Mutant of StarredPatch: the star's speed is set on whatever model.
StarredPatchUnchecked(caps, star) ==
    [effort   |-> IF star.effort # Unset /\ PlansEffort(caps, star.effort)
                  THEN star.effort ELSE Unset,
     fastMode |-> star.fastMode,
     thinking |-> IF star.thinking # Unset /\ ThinkingOf(caps, NoOptions) # Unset
                  THEN star.thinking ELSE Unset]

\* buildStarredModelOptionsPatch
StarredPatch(caps, star) ==
    [effort   |-> IF star.effort # Unset /\ PlansEffort(caps, star.effort)
                  THEN star.effort ELSE Unset,
     fastMode |-> IF star.fastMode # Unset /\ SupportsFastMode(caps)
                  THEN star.fastMode ELSE Unset,
     thinking |-> IF star.thinking # Unset /\ ThinkingOf(caps, NoOptions) # Unset
                  THEN star.thinking ELSE Unset]

\* starredTraitsMatch
StarredTraitsMatch(star, current) ==
    \A t \in {"effort", "fastMode", "thinking"} : star[t] \in {Unset, current[t]}

\* buildProviderTabRows: the row of each model the catalogue lists.
ProviderRows == {[model |-> m, selected |-> m = draft.model] : m \in DOMAIN reported}

\* buildStarredTabRows: the row of a preset, unavailable when its model is not
\* listed, selected when the composer is as it says.
StarredRow(p) ==
    [available |-> p.model \in DOMAIN reported,
     selected  |-> /\ p.model \in DOMAIN reported /\ p.model = draft.model
                   /\ StarredTraitsMatch(p.star, ResolveStarredTraits(CapsOf(draft.model), draft.options))]

-----------------------------------------------------------------------------
(* The page.                                                               *)

NoPick == [model |-> "none", options |-> NoOptions]

\* The draft store: a selection that names no option keeps the provider's.
CommitPick(pick) ==
    draft' = [model |-> pick.model,
              options |-> IF pick.options = NoOptions THEN draft.options ELSE pick.options]

Cross == crossed' = (crossed \/ queue # <<>>)

\* onProviderModelSelect: in auto mode a model that has none waits until the
\* thread's mode is no longer auto; any other is the composer's at once.
Select(pick, preset) ==
    LET downgrades == mode = "auto" /\ ~CapsOf(pick.model).autoMode
    IN  /\ IF downgrades
           THEN /\ Len(queue) < MaxWaiting
                /\ queue' = Append(queue, [to |-> "approval-required", pick |-> pick, preset |-> preset])
                /\ UNCHANGED <<draft, applied>>
           ELSE CommitPick(pick) /\ applied' = preset /\ UNCHANGED queue
        /\ Cross
        /\ UNCHANGED <<reported, starred, mode>>

\* A row of the provider's tab.
PickModel ==
    \E row \in ProviderRows : Select([model |-> row.model, options |-> NoOptions], {})

\* A row of the starred tab: the preset's traits over the provider's options.
PickPreset ==
    \E p \in starred : StarredRow(p).available /\
        LET patch == StarredPatch(CapsOf(p.model), p.star)
        IN  Select([model |-> p.model,
                    options |-> IF patch = NoOptions THEN NoOptions
                                ELSE Patched(draft.options, patch)],
                   IF p.caps = CapsOf(p.model) THEN {p} ELSE {})

Star ==
    /\ Cardinality(starred) < MaxStars
    /\ starred' = starred \cup
         {[model |-> draft.model, caps |-> CapsOf(draft.model),
           star |-> ResolveStarredTraits(CapsOf(draft.model), draft.options)]}
    /\ UNCHANGED <<reported, draft, mode, queue, applied, crossed>>

Unstar ==
    /\ \E p \in starred : starred' = starred \ {p}
    /\ UNCHANGED <<reported, draft, mode, queue, applied, crossed>>

Sets(options) ==
    /\ draft' = [draft EXCEPT !.options = options]
    /\ applied' = {}
    /\ UNCHANGED <<reported, starred, mode, queue, crossed>>

\* toggleFastMode goes by the page's own catalogue (external), which may know
\* of a fast mode or not, whatever the CLI has reported.
ToggleFastMode ==
    \E known \in BOOLEAN :
        Sets([draft.options EXCEPT !.fastMode = ~(known /\ draft.options.fastMode = TRUE)])

\* An access mode the user picks: auto only where the composer's model has it.
PickMode ==
    /\ Len(queue) < MaxWaiting
    /\ \E to \in {"auto", "approval-required"} \ {mode} :
          /\ to = "auto" => CapsOf(draft.model).autoMode
          /\ queue' = Append(queue, [to |-> to, pick |-> NoPick, preset |-> {}])
    /\ Cross
    /\ UNCHANGED <<reported, draft, starred, mode, applied>>

\* Mutant of Persisted: the pick is made though the mode's change failed.
PersistedAnyway ==
    /\ queue # <<>> /\ queue' = Tail(queue)
    /\ LET first == Head(queue)
       IN  /\ mode' \in {first.to, mode}
           /\ IF first.pick = NoPick THEN UNCHANGED <<draft, applied>>
              ELSE CommitPick(first.pick) /\ applied' = first.preset
    /\ UNCHANGED <<reported, starred, crossed>>

\* The first mode change is persisted, and the pick that waited for it is made;
\* or it fails, and the pick is not.
Persisted ==
    /\ queue # <<>> /\ queue' = Tail(queue)
    /\ LET first == Head(queue)
       IN  \/ /\ mode' = first.to
              /\ IF first.pick = NoPick THEN UNCHANGED <<draft, applied>>
                 ELSE CommitPick(first.pick) /\ applied' = first.preset
           \/ UNCHANGED <<mode, draft, applied>>
    /\ UNCHANGED <<reported, starred, crossed>>

\* The CLI reports its models anew.
Reports ==
    /\ \E r \in Report \ {reported} :
          /\ reported' = r
          /\ crossed' = \/ crossed \/ queue # <<>>
                        \/ mode = "auto" /\ ~(draft.model \in DOMAIN r /\ r[draft.model].autoMode)
    /\ UNCHANGED <<draft, starred, mode, queue, applied>>

-----------------------------------------------------------------------------
(* modelCatalog.ts: the same options in a form of the app's.               *)

\* setEffort: nothing for a level that is the prompt's.
SetEffort ==
    \E level \in Effort :
        /\ PlansEffort(CapsOf(draft.model), level)
        /\ Sets([draft.options EXCEPT !.effort = level])

\* setTrait: speed or thinking, where traits() says the form shows it.
SetTrait ==
    \/ /\ SupportsFastMode(CapsOf(draft.model))
       /\ \E b \in BOOLEAN : Sets([draft.options EXCEPT !.fastMode = b])
    \/ /\ CapsOf(draft.model).thinking
       /\ \E b \in BOOLEAN : Sets([draft.options EXCEPT !.thinking = b])

\* Mutant of Reset: the speed stays.
ResetEffortOnly(caps, options) ==
    [options EXCEPT
        !.effort = IF /\ EffortOf(caps, options) # caps.defaultEffort
                      /\ PlansEffort(caps, caps.defaultEffort)
                   THEN caps.defaultEffort ELSE @]

\* resetTraits
Reset(caps, options) ==
    [options EXCEPT
        !.effort = IF /\ EffortOf(caps, options) # caps.defaultEffort
                      /\ PlansEffort(caps, caps.defaultEffort)
                   THEN caps.defaultEffort ELSE @,
        !.fastMode = IF FastModeOf(caps, options) THEN FALSE ELSE @]

ResetTraits == Sets(Reset(CapsOf(draft.model), draft.options))

PickerNext ==
    \/ PickModel \/ PickPreset \/ Star \/ Unstar \/ ToggleFastMode \/ PickMode
    \/ Persisted \/ Reports \/ SetEffort \/ SetTrait \/ ResetTraits

PickerSpec == PickerInit /\ [][PickerNext]_pickerVars

-----------------------------------------------------------------------------
\* A preset brings back what was starred: once it is picked and nothing was
\* changed since, its row is the selected one, if the model is still listed as
\* what it was; whatever was picked in between and whatever the options were.
PresetRestores ==
    \A p \in applied :
        p.model \in DOMAIN reported /\ p.caps = reported[p.model] => StarredRow(p).selected

\* A preset applied to a model that has lost a control never sets it: the
\* provider would reject the option.
NothingInvented ==
    \A p \in starred :
        LET caps == CapsOf(p.model)
            patch == StarredPatch(caps, p.star)
        IN  /\ patch.effort \in caps.effortLevels \cup {Unset}
            /\ patch.fastMode # Unset => SupportsFastMode(caps)
            /\ patch.thinking # Unset => caps.thinking

\* While one thing is chosen at a time, the thread is never in auto mode with a
\* model that has none, also when the change of mode fails.
ModeFits == mode = "auto" /\ ~crossed => CapsOf(draft.model).autoMode

\* The form's reset leaves the model at its default effort and standard speed,
\* as the form itself then shows, and touches nothing else.
ResetRestores ==
    LET caps == CapsOf(draft.model)
        after == Reset(caps, draft.options)
    IN  /\ EffortOf(caps, after) = caps.defaultEffort
        /\ ~FastModeOf(caps, after)
        /\ ThinkingOf(caps, after) = ThinkingOf(caps, draft.options)

\* What the picker, its presets and the app's form promise of a choice, together.
PickerHonest == PresetRestores /\ NothingInvented /\ ModeFits /\ ResetRestores
=============================================================================
