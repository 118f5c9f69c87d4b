------------------------------ MODULE VendorTree ------------------------------
(***************************************************************************)
(* How the chat page is built from its vendored sources (web/chat/build.mjs, *)
(* scripts/vendor-synara.mjs, scripts/synara-paths.mjs).  The vendor script   *)
(* copies out of a Synara checkout the modules the page reaches, and lists    *)
(* them with their hashes; the build takes imports from the copy, after it    *)
(* has compared it with the list.  A shim replaces a module in both.          *)
(*                                                                            *)
(* A module is a name; packages, icons, styles and the generated modules are  *)
(* left out.  The developer waits for a script to end before the next step.   *)
(***************************************************************************)
EXTENDS Naturals, FiniteSets

CONSTANTS
    Module,     \* Synara's modules
    Root,       \* those the page's own source may import
    Commit,     \* Synara's commits
    Upstream,   \* per commit, its files
    ShimText,   \* per module that may be shimmed, the shim
    MaxTouched  \* bound: how many files differ by hand at once

Text == [imports : SUBSET Module,     \* imports of values
         types   : SUBSET Module,     \* imports of types alone
         workers : SUBSET Module,     \* new URL("./x.worker.ts", import.meta.url)
         version : Commit \cup {"local"}]

\* Files: a text for each of the modules that are there.
IsFiles(files) == DOMAIN files \subseteq Module /\ \A m \in DOMAIN files : files[m] \in Text

ASSUME VendorAssumption ==
    /\ Root \subseteq Module
    /\ \A c \in Commit : IsFiles(Upstream[c])
    /\ IsFiles(ShimText)
    /\ MaxTouched \in Nat

NoFiles == [m \in {} |-> {}]
NoManifest == [commit |-> "none", files |-> NoFiles]
Idle == [on |-> FALSE, files |-> NoFiles, left |-> {}, pin |-> "none"]
NoBundle == [commit |-> "none", files |-> NoFiles, shims |-> {}]

VARIABLES
    checkout,   \* Synara's checkout: its HEAD, and whether it has local changes
    sources,    \* the page's own: what it imports, the modules it shims
    tree,       \* vendor/synara
    manifest,   \* vendor/synara/MANIFEST.json
    copying,    \* the files the vendor script has still to copy, while it runs
    bundle      \* Resources/ChatPage as last built

vendorVars == <<checkout, sources, tree, manifest, copying, bundle>>

VendorInit ==
    /\ checkout \in [head : Commit, dirty : {FALSE}]
    /\ sources = [roots |-> {}, shims |-> {}]
    /\ tree = NoFiles /\ manifest = NoManifest
    /\ copying = Idle
    /\ bundle = NoBundle

-----------------------------------------------------------------------------
(* The resolution both scripts share.                                      *)

\* Mutant of RuntimeImports: a worker is not an import.
RuntimeImportsOnly(text) == text.imports

\* runtimeImports: a type import is erased.
RuntimeImports(text) == text.imports \cup text.workers

\* resolveSpec: a shim first, then the file.
Resolve(files, shims, m) == IF m \in shims THEN "shim"
                            ELSE IF m \in DOMAIN files THEN "file" ELSE "missing"

\* What a module found at that resolution reads.
TextOf(files, shims, m) == IF m \in shims THEN ShimText[m] ELSE files[m]

\* The least set of modules that holds start and what follows its modules: what
\* a walk from start finds.
Closure(start, follows) ==
    {m \in Module : \A ms \in SUBSET Module :
                        start \subseteq ms /\ (\A n \in ms : follows[n] \subseteq ms) => m \in ms}

\* What is imported by a module that is found, and with the workers it loads.
Imports(files, shims, m) ==
    IF Resolve(files, shims, m) = "missing" THEN {} ELSE TextOf(files, shims, m).imports
AtRunTime(files, shims, m) ==
    IF Resolve(files, shims, m) = "missing" THEN {} ELSE RuntimeImports(TextOf(files, shims, m))

\* The modules the vendor script's walk reaches, and those the bundler does,
\* missing ones included.
Walked(files, shims, start) == Closure(start, [m \in Module |-> AtRunTime(files, shims, m)])
Bundled(files, shims, start) == Closure(start, [m \in Module |-> Imports(files, shims, m)])

Missing(files, shims, ms) == {m \in ms : Resolve(files, shims, m) = "missing"}
FilesOf(files, shims, ms) == {m \in ms : Resolve(files, shims, m) = "file"}

Part(files, ms) == [m \in ms |-> files[m]]

-----------------------------------------------------------------------------
(* scripts/vendor-synara.mjs                                               *)

\* The closure of all of src/, where every shim lies, in use or not.
Wanted == Walked(Upstream[checkout.head], sources.shims,
                 sources.roots \cup UNION {RuntimeImports(ShimText[m]) : m \in sources.shims})

WantedFiles == FilesOf(Upstream[checkout.head], sources.shims, Wanted)

\* The commit the run is for (--commit, or the manifest's) is the checkout's,
\* the checkout is clean, and every import resolves.
MayVendor(pin) ==
    /\ pin = checkout.head /\ ~checkout.dirty
    /\ Missing(Upstream[checkout.head], sources.shims, Wanted) = {}

\* The script: the old tree goes, its manifest with it; the copies follow.
Vendor(pin) ==
    /\ ~copying.on /\ MayVendor(pin)
    /\ tree' = NoFiles /\ manifest' = NoManifest
    /\ copying' = [on |-> TRUE, pin |-> pin, left |-> WantedFiles,
                   files |-> Part(Upstream[checkout.head], WantedFiles)]
    /\ UNCHANGED <<checkout, sources, bundle>>

\* One file is copied.
CopyFile(m) ==
    /\ copying.on /\ m \in copying.left
    /\ tree' = Part(copying.files, DOMAIN tree \cup {m})
    /\ copying' = [copying EXCEPT !.left = @ \ {m}]
    /\ UNCHANGED <<checkout, sources, manifest, bundle>>

\* The manifest is the last thing written.
ListFiles ==
    /\ copying.on /\ copying.left = {}
    /\ manifest' = [commit |-> copying.pin, files |-> tree]
    /\ copying' = Idle
    /\ UNCHANGED <<checkout, sources, tree, bundle>>

\* The script is interrupted.
Interrupt ==
    /\ copying.on
    /\ copying' = Idle
    /\ UNCHANGED <<checkout, sources, tree, manifest, bundle>>

\* --check finds the tree as the script would leave it.
CheckPasses ==
    /\ manifest # NoManifest /\ MayVendor(manifest.commit)
    /\ tree = Part(Upstream[checkout.head], WantedFiles)

-----------------------------------------------------------------------------
(* build.mjs                                                               *)

\* Mutant of Edited: what a file says is not compared.
EditedIfGone == {m \in DOMAIN manifest.files : m \notin DOMAIN tree}

Edited == {m \in DOMAIN manifest.files : m \notin DOMAIN tree \/ tree[m] # manifest.files[m]}
Unlisted == DOMAIN tree \ DOMAIN manifest.files

\* A bundle: what it starts from, what it reaches and the shims in use.  A worker
\* starts from the vendored file itself, a shim of it or not.
BundleOf(start, shims) ==
    [modules |-> Bundled(tree, shims, start), shims |-> shims]
WorkerBundle(w) == BundleOf({w}, sources.shims \ {w})

Files(b) == FilesOf(tree, b.shims, b.modules)

\* The workers its vendored modules load.
Workers(b) == UNION {tree[m].workers : m \in Files(b)}

\* The workers found while loading the page's bundle, and theirs.
Main == BundleOf(sources.roots, sources.shims)
Found == Closure(Workers(Main), [w \in Module |-> Workers(WorkerBundle(w))])

\* The page's bundle, and those of the workers.
Bundles == {Main} \cup {WorkerBundle(w) : w \in Found}

Resolved == \A b \in Bundles : Missing(tree, b.shims, b.modules) = {}

\* A build that is allowed to start removes the old page; it leaves a new one
\* only when every import is found.
Build ==
    /\ ~copying.on
    /\ manifest # NoManifest /\ Edited = {} /\ Unlisted = {}
    /\ bundle' = IF Resolved
                 THEN [commit |-> manifest.commit, shims |-> sources.shims,
                       files |-> Part(tree, UNION {Files(b) : b \in Bundles})]
                 ELSE NoBundle
    /\ UNCHANGED <<checkout, sources, tree, manifest, copying>>

-----------------------------------------------------------------------------
(* The developer, external.                                                *)

CheckOut(c, dirty) ==
    /\ ~copying.on /\ checkout # [head |-> c, dirty |-> dirty]
    /\ checkout' = [head |-> c, dirty |-> dirty]
    /\ UNCHANGED <<sources, tree, manifest, copying, bundle>>

EditSources(roots, shims) ==
    /\ ~copying.on /\ sources # [roots |-> roots, shims |-> shims]
    /\ sources' = [roots |-> roots, shims |-> shims]
    /\ UNCHANGED <<checkout, tree, manifest, copying, bundle>>

\* A vendored file is edited or added by hand, or deleted.
EditVendored(m) ==
    /\ ~copying.on /\ Cardinality(Edited \cup Unlisted) < MaxTouched
    /\ \/ tree' = [n \in DOMAIN tree \cup {m} |->
                      IF n = m THEN [imports |-> {}, types |-> {}, workers |-> {},
                                     version |-> "local"] ELSE tree[n]]
       \/ m \in DOMAIN tree /\ tree' = Part(tree, DOMAIN tree \ {m})
    /\ UNCHANGED <<checkout, sources, manifest, copying, bundle>>

VendorNext ==
    \/ \E pin \in Commit : Vendor(pin)
    \/ \E m \in Module : CopyFile(m) \/ EditVendored(m)
    \/ ListFiles \/ Interrupt \/ Build
    \/ \E c \in Commit, dirty \in BOOLEAN : CheckOut(c, dirty)
    \/ \E roots \in SUBSET Root, shims \in SUBSET DOMAIN ShimText : EditSources(roots, shims)

VendorSpec == VendorInit /\ [][VendorNext]_vendorVars

-----------------------------------------------------------------------------
\* A page is built from Synara's files as one commit has them, and holds every
\* one it reads: not from a tree whose copying was cut short, nor from one that
\* was changed by hand.
PageIsPinned ==
    bundle.commit # "none" =>
        \A m \in DOMAIN bundle.files :
            /\ m \in DOMAIN Upstream[bundle.commit]
            /\ bundle.files[m] = Upstream[bundle.commit][m]
            /\ RuntimeImports(bundle.files[m]) \subseteq
                 DOMAIN bundle.files \cup bundle.shims

\* Both scripts resolve alike: while --check finds the tree in step with the
\* sources and nothing was done to it by hand, the build finds every module.
\* But for a worker that has a shim: the vendor script copies the shim's
\* imports, the build goes for the file.
InStepBuilds ==
    CheckPasses /\ Edited = {} /\ Unlisted = {}
        => Resolved \/ \E b \in Bundles, w \in sources.shims : w \in Workers(b)

\* What is built can be trusted: it is of one commit, and what --check passes
\* does build.
BuildHonest == PageIsPinned /\ InStepBuilds
=============================================================================
