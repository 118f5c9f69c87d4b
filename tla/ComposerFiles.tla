----------------------------- MODULE ComposerFiles -----------------------------
(***************************************************************************)
(* How files get into the composer (ChatController.tsx, attachments;         *)
(* nativeFiles.ts; editorDropPaths.ts): pushed by the app, dropped or pasted  *)
(* on the page, or dragged from an editor's tree.  An image is prepared and   *)
(* attached, any other file is mentioned by its path, and while the agent's   *)
(* question waits for its answer the composer takes neither.  A message takes  *)
(* with it what the draft holds once its images are prepared, and a thread    *)
(* that is left disposes of the images in preparation.                        *)
(*                                                                            *)
(* A file is a name with what it is; its bytes and its path's text are left   *)
(* out, and one message is sent at a time (ChatCompose has sends that cross). *)
(* The draft store, under vendor/synara, is external.                         *)
(***************************************************************************)
EXTENDS Naturals, Sequences, FiniteSets

CONSTANTS
    File,        \* the files a gesture may carry, each once
    IsImage(_),  \* an image the agents take
    HasPath(_),  \* a local absolute path names it
    Limit        \* PROVIDER_SEND_TURN_MAX_ATTACHMENTS

ASSUME ComposerFilesAssumption == Limit \in Nat

VARIABLES
    asking,     \* a question of the agent waits (pendingUserInputs)
    mentioned,  \* the files mentioned in the draft's prompt
    attached,   \* the images attached to the draft
    intake,     \* the images being prepared, one job after the other
    sending,    \* how far a message is, and the mentions and images it carries
    sent,       \* history: the files that left with a message
    refused,    \* history: the files the user was told of
    given,      \* history: the files given, and by what
    late,       \* history: those given while a question waited
    exposed     \* history: those a thread left, a command or a failed send may lose

sendVars == <<sending, sent>>
fileVars == <<asking, mentioned, attached, intake, sending, sent, refused, given, late, exposed>>

NoSend == [at |-> "no", mentions |-> {}, images |-> {}]

ComposerFilesInit ==
    /\ asking = FALSE
    /\ mentioned = {} /\ attached = {} /\ intake = <<>>
    /\ sending = NoSend /\ sent = {}
    /\ refused = {} /\ given = [f \in File |-> "no"] /\ late = {} /\ exposed = {}

Images(files) == {f \in files : IsImage(f)}

Give(files, by) ==
    /\ files # {} /\ \A f \in files : given[f] = "no"
    /\ given' = [f \in File |-> IF f \in files THEN by ELSE given[f]]
    /\ late' = IF asking THEN late \cup files ELSE late
    /\ exposed' = IF sending.at \in {"command", "dispatch"} THEN exposed \cup files ELSE exposed
    /\ UNCHANGED <<asking, sendVars>>

\* useComposerImageIntake, addImages: a job of its own, after those before it.
Enqueue(images) == IF images = {} THEN intake ELSE Append(intake, images)

\* The user is told, by a toast or under the composer.
Refuse(files) ==
    /\ refused' = refused \cup files
    /\ UNCHANGED <<mentioned, attached, intake>>

\* readNativeFiles: an absolute path, or an image that decodes.
ReadNativeFiles(files) == {f \in files : IsImage(f) \/ HasPath(f)}

\* Mutant of FilesPushed: the question is not looked at.
FilesPushedAnyway(files) ==
    /\ files = ReadNativeFiles(files)
    /\ Give(files, "app")
    /\ mentioned' = mentioned \cup (files \ Images(files))
    /\ intake' = Enqueue(Images(files))
    /\ UNCHANGED <<attached, refused>>

\* The app pushes "files", picked in its panel or dropped or pasted from Finder.
FilesPushed(files) ==
    /\ files = ReadNativeFiles(files)
    /\ Give(files, "app")
    /\ \/ asking /\ Refuse(files)
       \/ /\ ~asking
          /\ mentioned' = mentioned \cup (files \ Images(files))
          /\ intake' = Enqueue(Images(files))
          /\ UNCHANGED <<attached, refused>>

\* Mutant of AddToComposer: a file with no path is dropped in silence.
AddToComposerSilently(files) ==
    IF asking THEN Refuse(files)
    ELSE /\ intake' = Enqueue(Images(files))
         /\ UNCHANGED <<mentioned, attached, refused>>

\* addComposerImages and addComposerFiles: an image is prepared; a file with no
\* path cannot be mentioned.
AddToComposer(files) ==
    IF asking THEN Refuse(files)
    ELSE /\ intake' = Enqueue(Images(files))
         /\ refused' = refused \cup (files \ Images(files))
         /\ UNCHANGED <<mentioned, attached>>

\* readEditorDropPaths: the paths of a drag from an editor's tree.
ReadEditorDropPaths(files) == {f \in files : HasPath(f)}

\* onComposerDrop, of a drag from an editor: its paths stand for its files.
EditorDrop(files) ==
    /\ Give(files, "editor")
    /\ LET paths == ReadEditorDropPaths(files)
       IN  \/ /\ paths # {}
              /\ mentioned' = mentioned \cup paths
              /\ UNCHANGED <<attached, intake, refused>>
           \/ paths = {} /\ AddToComposer(files)

\* Any other drop, a paste and the open panel's files.
PageDrop(files) == Give(files, "page") /\ AddToComposer(files)

\* ComposerImageIntakeQueue: the first job is prepared and committed as far as
\* there is room; of an image that failed or had none the user is told.
ImagePrepared ==
    /\ intake # <<>>
    /\ \E good \in SUBSET Head(intake) :
          /\ Cardinality(attached \cup good) <= Limit
          /\ attached' = attached \cup good
          /\ refused' = refused \cup (Head(intake) \ good)
    /\ intake' = Tail(intake)
    /\ UNCHANGED <<asking, mentioned, sendVars, given, late, exposed>>

Preparing == UNION {intake[i] : i \in DOMAIN intake}

\* Another thread is opened: the queue is disposed of, and an image that was in
\* it is neither attached nor told of.  The draft stays.
LeaveThread ==
    /\ intake # <<>> /\ intake' = <<>>
    /\ exposed' = exposed \cup Preparing
    /\ UNCHANGED <<asking, mentioned, attached, sendVars, refused, given, late>>

QuestionComes ==
    /\ ~asking /\ asking' = TRUE
    /\ UNCHANGED <<mentioned, attached, intake, sendVars, refused, given, late, exposed>>

QuestionAnswered ==
    /\ asking /\ asking' = FALSE
    /\ UNCHANGED <<mentioned, attached, intake, sendVars, refused, given, late, exposed>>

-----------------------------------------------------------------------------
(* A message takes the files with it.                                      *)

\* onSend, by hand: it waits for the images, which a thread left ends too.
SendPressed ==
    /\ ~asking /\ sending.at = "no"
    /\ sending' = [NoSend EXCEPT !.at = "images"]
    /\ UNCHANGED <<asking, mentioned, attached, intake, sent, refused, given, late, exposed>>

\* clearComposerDraftContent: nothing stays in the draft.
ClearDraft == mentioned' = {} /\ attached' = {}

\* The draft is read anew: it goes with the message, or, with no image, its text
\* may be a command, which is awaited with the draft as it is.
ImagesWaited ==
    /\ sending.at = "images" /\ intake = <<>>
    /\ \/ /\ sending' = [at |-> "dispatch", mentions |-> mentioned, images |-> attached]
          /\ ClearDraft
       \/ /\ attached = {}
          /\ sending' = [at |-> "command", mentions |-> mentioned, images |-> {}]
          /\ UNCHANGED <<mentioned, attached>>
    /\ UNCHANGED <<asking, intake, sent, refused, given, late, exposed>>

\* The command leaves the draft, clears it, or lets the send go on with what was
\* read before it, which clears it all the same.
CommandDone ==
    /\ sending.at = "command"
    /\ \/ sending' = NoSend /\ UNCHANGED <<mentioned, attached, sent>>
       \/ sending' = NoSend /\ ClearDraft /\ sent' = sent \cup sending.mentions
       \/ sending' = [sending EXCEPT !.at = "dispatch"] /\ ClearDraft /\ UNCHANGED sent
    /\ UNCHANGED <<asking, intake, refused, given, late, exposed>>

Dispatched ==
    /\ sending.at = "dispatch" /\ sending' = NoSend
    /\ sent' = sent \cup sending.mentions \cup sending.images
    /\ UNCHANGED <<asking, mentioned, attached, intake, refused, given, late, exposed>>

\* The send failed: its text comes back over the one there is, not its images.
DispatchFails ==
    /\ sending.at = "dispatch" /\ sending' = NoSend
    /\ mentioned' = sending.mentions
    /\ exposed' = exposed \cup sending.images
    /\ UNCHANGED <<asking, attached, intake, sent, refused, given, late>>

ComposerFilesNext ==
    \/ \E files \in SUBSET File : FilesPushed(files) \/ EditorDrop(files) \/ PageDrop(files)
    \/ ImagePrepared \/ LeaveThread \/ QuestionComes \/ QuestionAnswered
    \/ SendPressed \/ ImagesWaited \/ CommandDone \/ Dispatched \/ DispatchFails

FilesSpec == ComposerFilesInit /\ [][ComposerFilesNext]_fileVars

-----------------------------------------------------------------------------
(* Properties                                                              *)

\* What a message under way holds, its command done or none.
Carried == IF sending.at = "dispatch" THEN sending.mentions \cup sending.images ELSE {}

FilePlaces == {"mentioned", "attached", "preparing", "carried", "sent", "refused"}
PlacesOf(f) ==
    {place \in FilePlaces :
        \/ place = "mentioned" /\ f \in mentioned
        \/ place = "attached" /\ f \in attached
        \/ place = "preparing" /\ f \in Preparing
        \/ place = "carried" /\ f \in Carried
        \/ place = "sent" /\ f \in sent
        \/ place = "refused" /\ f \in refused}

Accounted == mentioned \cup attached \cup Preparing \cup Carried \cup sent \cup refused

\* A file that was given is in the composer, on its way to it, with a message or
\* named to the user, and never in two of these ways.  Silence swallows only what
\* an editor's drag brings with no local path, beside another that has one; an
\* image in preparation when its thread was left; a file given while a command or
\* a dispatch was awaited; and the images of a message that failed.
NothingUnsaid ==
    \A f \in File : given[f] # "no" =>
        /\ Cardinality(PlacesOf(f)) <= 1
        /\ \/ f \in Accounted
           \/ given[f] = "editor" /\ ~HasPath(f)
           \/ f \in exposed

\* Nothing given while a question waits gets into the draft or a message, then or
\* later, but the paths of an editor's drag, which no question stops.
QuestionShields ==
    \A f \in late : /\ f \notin attached \cup Preparing
                    /\ f \in mentioned \cup Carried \cup sent => given[f] = "editor"

\* Every file that was given is accounted for, a question's included.
FilesAccounted == NothingUnsaid /\ QuestionShields
=============================================================================
