-------------------------------- MODULE PageCalls --------------------------------
(***************************************************************************)
(* What the chat page asks of the app besides its reads: Synara's calls      *)
(* (shims/web/nativeApi.ts), the files they may open (filePaths.ts), the     *)
(* links that are clicked and what the app pushes (bridge.ts), and the       *)
(* server config the page answers from the pushes (main.tsx, decode.ts).     *)
(*                                                                           *)
(* A path is the sequence of its segments.  Decoding a file: URL, the text   *)
(* of errors and Synara's schemas are left out; a payload that does not fit  *)
(* its schema is used as it was sent.                                        *)
(***************************************************************************)
EXTENDS Integers, SequencesExt

CONSTANTS
    Context,      \* what the app pushes of the folders: [cwd, homeDir]
    PathRequest,  \* the paths asked for: [form, parts]
    Providers,    \* the provider lists the app pushes
    Unknown,       \* a context without the folder, a list not pushed yet
    Forwarded,    \* FORWARDED: the methods the app serves
    Absent,       \* ABSENT_OPTIONAL
    Subscription, \* methods named onX
    Unserved      \* methods nothing serves

\* LOCAL, but for those that reach a dialog of the page's own.
Local == {"server.getConfig", "orchestration.dispatchCommand", "shell.openExternal",
          "shell.openInEditor", "shell.showInFolder", "server.getSettings"}

Dispatch == "orchestration.dispatchCommand"

ASSUME PageCallsAssumption ==
    /\ Unknown \notin Providers
    /\ \A ctx \in Context :
          /\ DOMAIN ctx = {"cwd", "homeDir"}
          /\ {ctx.cwd, ctx.homeDir} \ {Unknown} \subseteq Seq(STRING)
    /\ Dispatch \in Forwarded
    /\ (Absent \cup Subscription) \cap (Forwarded \cup Local) = {}
    /\ \A q \in PathRequest :
          q.form \in {"absolute", "home", "relative"} /\ q.parts \in Seq(STRING)

VARIABLES
    context,   \* the latest context push
    drawn,     \* the context the page was last drawn with, its effects run
    providers, \* the latest push of the providers
    decoded,   \* decodeProviderStatuses: the list decoded last, and the result
    config,    \* the server config in the query cache
    posted,    \* the last message to the app
    logged     \* the methods logged as not served (loggedOnce)

pageCallVars == <<context, drawn, providers, decoded, config, posted, logged>>

Nothing == [kind |-> "nothing"]
NoContext == [cwd |-> Unknown, homeDir |-> Unknown]

PageCallsInit ==
    /\ context = NoContext /\ drawn = NoContext
    /\ providers = Unknown /\ decoded = [input |-> Unknown, list |-> Unknown]
    /\ config = [cwd |-> Unknown, homeDir |-> Unknown, list |-> Unknown]
    /\ posted = Nothing /\ logged = {}

-----------------------------------------------------------------------------
(* filePaths.ts                                                            *)

\* Mutant of NormalizeStep: a path that climbs above the root stays at it.
NormalizeStepClamped(resolved, part) ==
    IF part \in {"", "."} THEN resolved
    ELSE IF part = ".." THEN {IF p = <<>> THEN p ELSE Front(p) : p \in resolved}
    ELSE {Append(p, part) : p \in resolved}

\* normalize: none when the path climbs above the root.
NormalizeStep(resolved, part) ==
    IF part \in {"", "."} THEN resolved
    ELSE IF part = ".." THEN {Front(p) : p \in resolved \ {<<>>}}
    ELSE {Append(p, part) : p \in resolved}

Normalize(parts) ==
    LET after[n \in 0..Len(parts)] ==
            IF n = 0 THEN {<<>>} ELSE NormalizeStep(after[n - 1], parts[n])
    IN  after[Len(parts)]

\* rootOf: "/" would admit every file.
RootOf(folder) == IF folder = Unknown THEN {} ELSE Normalize(folder) \ {<<>>}

\* What a path of this form is relative to.
Bases(form, cwd, home) ==
    IF form = "absolute" THEN {<<>>} ELSE IF form = "home" THEN home ELSE cwd

\* containedPath
ContainedPath(q, ctx) ==
    LET cwd == RootOf(ctx.cwd)
        home == RootOf(ctx.homeDir)
    IN  {path \in UNION {Normalize(base \o q.parts) : base \in Bases(q.form, cwd, home)} :
            \E root \in cwd \cup home : IsPrefix(root, path)}

-----------------------------------------------------------------------------
(* nativeApi.ts                                                            *)

\* Mutant of Route: what the app serves is forwarded before the page's own.
RouteForwardsFirst(method) ==
    IF method \in Absent THEN "absent"
    ELSE IF method \in Forwarded THEN "forwarded"
    ELSE IF method \in Local THEN "local"
    ELSE IF method \in Subscription THEN "subscription"
    ELSE "unavailable"

\* group and methodOf: where a call of a method lands.
Route(method) ==
    IF method \in Absent THEN "absent"
    ELSE IF method \in Local THEN "local"
    ELSE IF method \in Subscription THEN "subscription"
    ELSE IF method \in Forwarded THEN "forwarded"
    ELSE "unavailable"

\* Mutant of Decode: the first list decoded is kept.
DecodeOnce(list) == IF decoded.input # Unknown THEN decoded ELSE [input |-> list, list |-> list]

\* decodeProviderStatuses: the list decoded last is kept, by identity.
Decode(list) == IF list = decoded.input THEN decoded ELSE [input |-> list, list |-> list]

\* currentServerConfig, of the latest pushes.
ServerConfigOf(ctx, list) == [cwd |-> ctx.cwd, homeDir |-> ctx.homeDir, list |-> list]

\* The config is put in the query cache.
PutConfig(ctx, list) ==
    /\ decoded' = Decode(list)
    /\ config' = ServerConfigOf(ctx, decoded'.list)

Keeps == UNCHANGED <<context, drawn, providers, decoded, config>>

\* A call the app answers.  An answer to a question leaves without its nulls
\* when it is dispatched here, as it came when it is forwarded.
CallServed(method) ==
    /\ Route(method) = "forwarded" \/ method = Dispatch
    /\ \E nulls \in BOOLEAN :
          posted' = [kind |-> "request", method |-> method,
                     nulls |-> nulls /\ Route(method) = "forwarded"]
    /\ UNCHANGED logged /\ Keeps

CallConfig ==
    /\ Route("server.getConfig") = "local"
    /\ decoded' = Decode(providers)
    /\ posted' = Nothing
    /\ UNCHANGED <<context, drawn, providers, config, logged>>

\* A method read as absent, a subscription that never fires and the settings the
\* app does not keep reach nobody.
CallNowhere(method) ==
    /\ Route(method) \in {"absent", "subscription"} \/ method = "server.getSettings"
    /\ posted' = Nothing
    /\ UNCHANGED logged /\ Keeps

\* unavailable: rejected, and logged the first time.
CallUnserved(method) ==
    /\ Route(method) = "unavailable"
    /\ posted' = IF method \in logged THEN Nothing ELSE [kind |-> "log", method |-> method]
    /\ logged' = logged \cup {method}
    /\ Keeps

\* openInEditor and showInFolder
OpenPath(q) ==
    /\ posted' = LET path == ContainedPath(q, context)
                 IN  IF path = {} THEN [kind |-> "refused", asked |-> q, in |-> context]
                     ELSE [kind |-> "file", asked |-> q, in |-> context,
                           path |-> CHOOSE p \in path : TRUE]
    /\ UNCHANGED logged /\ Keeps

\* openExternal, and interceptLink for a link that is clicked: the click goes no
\* further, and only a web or mail link to the app.
OpenLink(scheme) ==
    /\ posted' = IF scheme \in {"http", "https", "mailto"}
                 THEN [kind |-> "link", scheme |-> scheme] ELSE Nothing
    /\ UNCHANGED logged /\ Keeps

-----------------------------------------------------------------------------
(* What the app pushes, each push a task of its own: the page is drawn again *)
(* before the next one.                                                      *)

\* nativeChat.push: the latest first, then every listener, though one throws.
PushContext(ctx) ==
    /\ drawn = context /\ ctx # context
    /\ context' = ctx
    /\ posted' \in {Nothing, [kind |-> "error"]}
    /\ UNCHANGED <<drawn, providers, decoded, config, logged>>

\* A list like the one before is another object, and is decoded again.
PushProviders(list) ==
    /\ drawn = context
    /\ providers' = list
    /\ PutConfig(context, list)
    /\ posted' \in {Nothing, [kind |-> "error"]}
    /\ UNCHANGED <<context, drawn, logged>>

\* The page is drawn: its effect runs when the folders are others.
PageDrawn ==
    /\ drawn # context /\ drawn' = context
    /\ PutConfig(context, providers)
    /\ posted' = Nothing
    /\ UNCHANGED <<context, providers, logged>>

PageCallsNext ==
    \/ \E method \in Forwarded \cup Absent \cup Subscription \cup Unserved \cup Local :
          CallServed(method) \/ CallNowhere(method) \/ CallUnserved(method)
    \/ CallConfig
    \/ \E q \in PathRequest : OpenPath(q)
    \/ \E scheme \in {"https", "file"} : OpenLink(scheme)
    \/ \E ctx \in Context : PushContext(ctx)
    \/ \E list \in Providers : PushProviders(list)
    \/ PageDrawn

PageCallsSpec == PageCallsInit /\ [][PageCallsNext]_pageCallVars

-----------------------------------------------------------------------------
(* Properties                                                              *)

\* How far below where it began a path is after its segments from i to j.
Depth(parts, i, j) ==
    Cardinality({k \in i..j : parts[k] \notin {"", ".", ".."}})
      - Cardinality({k \in i..j : parts[k] = ".."})

\* The segments that are left once each ".." has taken away the name before it.
Stays(parts) == {i \in DOMAIN parts : /\ parts[i] \notin {"", ".", ".."}
                                      /\ \A j \in i..Len(parts) : Depth(parts, i, j) > 0}

NamesOf(parts) ==
    LET at == CHOOSE f \in [1..Cardinality(Stays(parts)) -> Stays(parts)] :
                  \A i, j \in DOMAIN f : i < j => f[i] < f[j]
    IN  [k \in DOMAIN at |-> parts[at[k]]]

\* The plain name of a path, unless it climbs above the root on its way, and
\* of a folder, unless that is the root.
PlainName(parts) == {name \in {NamesOf(parts)} : \A j \in DOMAIN parts : Depth(parts, 1, j) >= 0}
FolderName(folder) == IF folder = Unknown THEN {} ELSE PlainName(folder) \ {<<>>}

\* The names of the files in the context's folders that are asked for, each path
\* taken from the folder as it was written.
NamesAsked(q, ctx) ==
    LET folder == IF q.form = "home" THEN ctx.homeDir ELSE ctx.cwd
        whole == IF q.form = "absolute" THEN {q.parts}
                 ELSE {folder \o q.parts : name \in FolderName(folder)}
    IN  {name \in UNION {PlainName(parts) : parts \in whole} :
            \E root \in FolderName(ctx.cwd) \cup FolderName(ctx.homeDir) : IsPrefix(root, name)}

\* The app is asked to open exactly the paths that name a file in the workspace
\* or the home folder, under their plain name; a path that climbs above the root
\* on its way, or out of both folders, reaches nobody.
OpensContained ==
    /\ posted.kind = "file" => posted.path \in NamesAsked(posted.asked, posted.in)
    /\ posted.kind = "refused" => NamesAsked(posted.asked, posted.in) = {}

\* Whichever way an answer to a question leaves the page, no question is answered
\* with a null, which the backend would take for an answer.
NoNullAnswer == posted.kind = "request" /\ posted.method = Dispatch => ~posted.nulls

\* The config in the query cache is of the last providers pushed and, once the
\* page was drawn with it, of the last context.
ConfigCurrent ==
    /\ providers # Unknown => config.list = providers
    /\ drawn = context =>
          config.cwd = context.cwd /\ config.homeDir = context.homeDir

\* What leaves the page, and what it keeps of what came, together.
CallsHonest == OpensContained /\ NoNullAnswer /\ ConfigCurrent
=============================================================================
