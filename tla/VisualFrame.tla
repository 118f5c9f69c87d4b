------------------------------ MODULE VisualFrame ------------------------------
(***************************************************************************)
(* An inline visual of the transcript: a page of the agent's in a frame of   *)
(* its own (web/chat/src/shims/web/components/chat/InlineVisualFrame.tsx).   *)
(* The frame's window changes under the component when the list re-inserts    *)
(* it, and the page may go elsewhere, stop, or post what it likes; messages   *)
(* and load events come in order, some of them from windows that are gone.   *)
(***************************************************************************)
EXTENDS Naturals, Sequences

CONSTANTS
    Theme,       \* the app's themes
    Height,      \* the heights a page may ask for
    Reserved,    \* the height the agent expected
    MaxWindow,   \* bound: how many windows the frame has in all
    MaxEvent     \* bound: events and messages on their way, each

ASSUME FrameAssumption == MaxWindow \in Nat /\ MaxEvent \in Nat /\ Reserved \notin Height

VARIABLES
    theme,    \* the app's theme
    visual,   \* the figure: the answer to its query, and whether it was stopped
    frame,    \* its frame, if one is drawn
    window,   \* what the frame's window holds
    events,   \* to the component: load events and messages
    posts,    \* to the windows: themes
    grounds   \* history: windows of this mount that left their page or stopped

frameVars == <<theme, visual, frame, window, events, posts, grounds>>

NoFrame == [up |-> FALSE, loads |-> 0, known |-> 0, loaded |-> FALSE, built |-> {},
            content |-> Reserved, pending |-> Reserved, timer |-> FALSE, asked |-> Reserved]
NoWindow == [id |-> 0, page |-> "none", theme |-> {}]

FrameInit ==
    /\ theme \in Theme
    /\ visual = [answer |-> "loading", stopped |-> FALSE]
    /\ frame = NoFrame /\ window = NoWindow
    /\ events = <<>> /\ posts = <<>> /\ grounds = {}

Event(k, h) == [from |-> window.id, k |-> k, height |-> h]

\* A frame's window begins to load the document that was built for it.
NewWindow(id, built) == [id |-> id, page |-> "parsing", theme |-> built]

\* InlineVisualDocument mounts: its document is built once, with the theme now.
Mount ==
    /\ window.id < MaxWindow
    /\ frame' = [NoFrame EXCEPT !.up = TRUE, !.built = {theme}]
    /\ window' = NewWindow(window.id + 1, {theme})
    /\ grounds' = {}

\* It unmounts, as the figure shows something else: its timer goes with it.
Unmount == frame' = NoFrame /\ window' = [window EXCEPT !.page = "none"]

-----------------------------------------------------------------------------
\* The query for the document is answered, or fails for good or for now.
Answered ==
    /\ visual.answer = "loading"
    /\ \/ visual' = [visual EXCEPT !.answer = "ready"] /\ Mount
       \/ /\ \E a \in {"failed", "refused"} : visual' = [visual EXCEPT !.answer = a]
          /\ UNCHANGED <<frame, window, grounds>>
    /\ UNCHANGED <<theme, events, posts>>

\* Retry: only of a failure that may pass (isRetryable).
Retry ==
    /\ visual.answer = "failed"
    /\ visual' = [visual EXCEPT !.answer = "loading"]
    /\ UNCHANGED <<theme, frame, window, events, posts, grounds>>

\* Reload: a fresh frame, of a stopped visual too, without another query.
ReloadVisual ==
    /\ visual.answer = "ready"
    /\ visual' = [visual EXCEPT !.stopped = FALSE]
    /\ Mount
    /\ UNCHANGED <<theme, events, posts>>

\* The theme's effect: it goes to the window there is.
ChangeTheme(t) ==
    /\ t # theme /\ Len(posts) < MaxEvent
    /\ theme' = t
    /\ posts' = IF frame.up THEN Append(posts, [to |-> window.id, theme |-> {t}]) ELSE posts
    /\ UNCHANGED <<visual, frame, window, events, grounds>>

\* onMessage, a size: kept until the timer, which the first one starts.
Sized(h) ==
    /\ frame' = [frame EXCEPT !.pending = h, !.timer = TRUE, !.asked = h]
    /\ UNCHANGED <<visual, window, posts>>

TimerFires ==
    /\ frame.timer
    /\ frame' = [frame EXCEPT !.content = frame.pending, !.timer = FALSE]
    /\ UNCHANGED <<theme, visual, window, events, posts, grounds>>

Stopped ==
    /\ visual' = [visual EXCEPT !.stopped = TRUE]
    /\ Unmount
    /\ UNCHANGED posts

\* Mutant of Loaded: the loads of the windows before count too.
LoadedOfAll ==
    IF frame.loads > 0 THEN Stopped
    ELSE /\ frame' = [frame EXCEPT !.known = window.id, !.loads = 1, !.loaded = TRUE]
         /\ posts' = Append(posts, [to |-> window.id, theme |-> {theme}])
         /\ UNCHANGED <<visual, window>>

\* Mutant of Loaded: the theme is not sent again.
LoadedUnthemed ==
    LET loads == (IF window.id = frame.known THEN frame.loads ELSE 0) + 1
    IN  IF loads > 1 THEN Stopped
        ELSE /\ frame' = [frame EXCEPT !.known = window.id, !.loads = loads, !.loaded = TRUE]
             /\ UNCHANGED <<visual, window, posts>>

\* onLoad: the first of a window is its document's; a second is the page gone
\* elsewhere.
Loaded ==
    LET loads == (IF window.id = frame.known THEN frame.loads ELSE 0) + 1
    IN  IF loads > 1 THEN Stopped
        ELSE /\ frame' = [frame EXCEPT !.known = window.id, !.loads = loads, !.loaded = TRUE]
             /\ posts' = Append(posts, [to |-> window.id, theme |-> {theme}])
             /\ UNCHANGED <<visual, window>>

\* The component's next event: nothing when it is from a window it has no more.
HostEvent ==
    /\ events # <<>>
    /\ LET e == Head(events)
       IN  IF ~frame.up \/ e.from # window.id THEN UNCHANGED <<visual, frame, window, posts>>
           ELSE \/ e.k = "size" /\ Sized(e.height)
                \/ e.k = "stopped" /\ Stopped
                \/ e.k = "load" /\ Loaded
    /\ events' = Tail(events)
    /\ UNCHANGED <<theme, grounds>>

-----------------------------------------------------------------------------
(* The frame's window and the list, external.                              *)

Heard(e) == Len(events) < MaxEvent /\ events' = Append(events, e)

\* The document is in.
Parsed ==
    /\ window.page = "parsing" /\ Heard(Event("load", Reserved))
    /\ window' = [window EXCEPT !.page = "own"]
    /\ UNCHANGED <<theme, visual, frame, posts, grounds>>

\* The page goes elsewhere, and that loads.
Navigates ==
    /\ window.page = "own" /\ Heard(Event("load", Reserved))
    /\ window' = [window EXCEPT !.page = "elsewhere"]
    /\ grounds' = grounds \cup {window.id}
    /\ UNCHANGED <<theme, visual, frame, posts>>

\* The page posts a size, or that it has stopped itself.
PagePosts ==
    /\ window.page # "none"
    /\ \/ \E h \in Height : Heard(Event("size", h)) /\ UNCHANGED grounds
       \/ Heard(Event("stopped", Reserved)) /\ grounds' = grounds \cup {window.id}
    /\ UNCHANGED <<theme, visual, frame, window, posts>>

\* A theme arrives: lost on a window that is gone or a page that does not
\* listen, and while the page is being parsed it may be.
ThemeArrives ==
    /\ posts # <<>>
    /\ LET post == Head(posts)
           taken == window' = [window EXCEPT !.theme = post.theme]
       IN  IF post.to # window.id \/ window.page \in {"none", "elsewhere"} THEN UNCHANGED window
           ELSE \/ taken
                \/ window.page = "parsing" /\ UNCHANGED window
    /\ posts' = Tail(posts)
    /\ UNCHANGED <<theme, visual, frame, events, grounds>>

\* The list takes the frame out and puts it in again: a new window, with the
\* document of the mount.
Reinserted ==
    /\ frame.up /\ window.id < MaxWindow
    /\ window' = NewWindow(window.id + 1, frame.built)
    /\ UNCHANGED <<theme, visual, frame, events, posts, grounds>>

FrameNext ==
    \/ Answered \/ Retry \/ ReloadVisual \/ TimerFires \/ HostEvent
    \/ Parsed \/ Navigates \/ PagePosts \/ ThemeArrives \/ Reinserted
    \/ \E t \in Theme : ChangeTheme(t)

FrameSpec == FrameInit /\ [][FrameNext]_frameVars

-----------------------------------------------------------------------------
Settled == events = <<>> /\ posts = <<>>

\* Once all that is on its way has come: a page that went elsewhere is not
\* shown, and one that is shown has the theme the app has and, once the timer
\* has run, the height it asked for last, whatever windows it had before.
ShownAsAsked ==
    Settled /\ frame.up =>
        /\ window.page # "elsewhere"
        /\ window.page = "own" => window.theme = {theme}
        /\ ~frame.timer => frame.content = frame.asked

\* A visual is stopped for what a window of this mount did: never for the list
\* having moved its frame, nor for what a frame did before a reload.
StoppedForCause == visual.stopped => grounds # {}

\* A visual is shown as the app and its page last asked, or stopped, each for
\* what happened in this mount.
FrameHonest == ShownAsAsked /\ StoppedForCause
=============================================================================
