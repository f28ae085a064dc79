------------------------------- MODULE Upload -------------------------------
(***************************************************************************)
(* The upload dialogs: UploadFileDialog as DragAndDropHandler renders it   *)
(* (a drop anywhere on the page opens it with the dropped files; the       *)
(* instance of the card view's menu is the same code without the dropped   *)
(* files), and TextFileDialog.  A file is a model value; a file picked     *)
(* through "Add folder" has a relative path whose parent folders           *)
(* FileDir gives.  A path is a sequence of names, as in Filer.  The calls  *)
(* made are recorded in ghost variables: the call of the last step, the    *)
(* folders created, and the submits that had a call fail.                  *)
(***************************************************************************)
EXTENDS Naturals, Sequences, SequencesExt, FiniteSets

CONSTANTS
    Files,          \* the files the user can pick or drop
    FileDir,        \* FileDir[f]: parent folders of f's relative path (<<>> if none)
    Locations,      \* folders the user can be in
    Names,          \* names that can be typed as a subfolder or a text file's name
    STasks,         \* submit() calls that may await at once
    FilesLimit,     \* the dropzone's slice(0, 500), scaled down
    MaxBatch,       \* most files one drop or pick brings (a bound of the model)
    MaxFolderFiles, \* most files the "Add folder" list holds (a bound of the model)
    MaxSubmits,     \* submits started in a behaviour (a bound of the model)
    RemoteFaults    \* "reject", "error", as in Filer

VARIABLES
    loc,            \* currentLocation
    open,           \* DragAndDropHandler's open
    dndFiles,       \* DragAndDropHandler's files, the dialog's propsFiles
    zone,           \* filesFromZone
    folderFiles,    \* filesFromFolder
    folder,         \* the subfolder field
    subs,           \* subs[t]: a submit() awaiting
    text,           \* the text-file dialog: open and its form
    pending,        \* paths of the text-file submits awaiting their upload
    submits,        \* submits started (bounded by MaxSubmits)
    call,           \* ghost: the createFolder / uploadFile call of the last step
    made,           \* ghost: the folders createFolder was called on
    failed          \* ghost: the submits (by number) with a call that failed

vars == <<loc, open, dndFiles, zone, folderFiles, folder, subs, text, pending, submits, call, made, failed>>

Faulty(kind) == kind \in RemoteFaults

IdleSub == [pc |-> "idle", run |-> 0, at |-> <<>>, base |-> <<>>, dirs |-> <<>>,
            ff |-> <<>>, zf |-> <<>>, idx |-> 1]

BlankForm == [open |-> FALSE, name |-> <<>>, content |-> ""]

Typed == {<<>>} \cup {<<n>> : n \in Names}

\* getFullPath(folder, currentLocation) for a plain name or ""
BasePath(at, sub) == at \o sub

NoCall == [run |-> 0, at |-> <<>>, base |-> <<>>, kind |-> "none", target |-> <<>>, ok |-> TRUE]

\* getParentDirs of each relative path, as a set, sorted by depth
ParentDirs(fs) == UNION {{SubSeq(FileDir[f], 1, k) : k \in 1..Len(FileDir[f])} : f \in Range(fs)}

\* mutant: the comparator sorts the deepest folders first
SortedDirsDeepestFirst(fs) == SetToSortSeq(ParentDirs(fs), LAMBDA a, b : Len(a) > Len(b))

SortedDirs(fs) == SetToSortSeq(ParentDirs(fs), LAMBDA a, b : Len(a) < Len(b))

Listed == Range(zone) \cup Range(folderFiles)

Init ==
    /\ loc \in Locations
    /\ open = FALSE /\ dndFiles = <<>>
    /\ zone = <<>> /\ folderFiles = <<>> /\ folder = <<>>
    /\ subs = [t \in STasks |-> IdleSub]
    /\ text = BlankForm /\ pending = <<>>
    /\ submits = 0 /\ call = NoCall /\ made = {} /\ failed = {}

(***************************************************************************)
(* The user.                                                               *)
(***************************************************************************)
Navigate(p) ==
    /\ p # loc /\ loc' = p
    /\ UNCHANGED <<open, dndFiles, zone, folderFiles, folder, subs, text, pending, submits, made, failed>>
    /\ call' = NoCall

\* handleDrop: setFiles(dropped), setOpen(true); the dialog's effect on the
\* new propsFiles then sets filesFromZone to them
Drop(fs) ==
    /\ fs # <<>>
    /\ dndFiles' = fs /\ open' = TRUE /\ zone' = fs
    /\ UNCHANGED <<loc, folderFiles, folder, subs, text, pending, submits, made, failed>>
    /\ call' = NoCall

\* onDropzoneAdd: files with a folder in their path go to filesFromFolder,
\* the others to filesFromZone, of which the first FilesLimit are kept
DropzoneAdd(fs) ==
    /\ open
    /\ LET dirOnes == SelectSeq(fs, LAMBDA f : FileDir[f] # <<>>)
           plain == SelectSeq(fs, LAMBDA f : FileDir[f] = <<>>)
       IN /\ Len(folderFiles \o dirOnes) <= MaxFolderFiles
          /\ folderFiles' = folderFiles \o dirOnes
          /\ zone' = SubSeq(zone \o plain, 1, Min({Len(zone \o plain), FilesLimit}))
    /\ UNCHANGED <<loc, open, dndFiles, folder, subs, text, pending, submits, made, failed>>
    /\ call' = NoCall

\* onDropzoneDelete(index)
DropzoneDelete(i) ==
    /\ open /\ i \in DOMAIN zone /\ zone' = RemoveAt(zone, i)
    /\ UNCHANGED <<loc, open, dndFiles, folderFiles, folder, subs, text, pending, submits, made, failed>>
    /\ call' = NoCall

\* onFolderSelect: the files of a picked folder are appended
FolderSelect(fs) ==
    /\ open /\ Len(folderFiles \o fs) <= MaxFolderFiles
    /\ folderFiles' = folderFiles \o fs
    /\ UNCHANGED <<loc, open, dndFiles, zone, folder, subs, text, pending, submits, made, failed>>
    /\ call' = NoCall

TypeFolder(s) ==
    /\ open /\ s # folder /\ folder' = s
    /\ UNCHANGED <<loc, open, dndFiles, zone, folderFiles, subs, text, pending, submits, made, failed>>
    /\ call' = NoCall

\* handleClose: the dialog's lists and field are cleared, then close()
\* clears DragAndDropHandler's files and open
HandleClose ==
    /\ folder' = <<>> /\ zone' = <<>> /\ folderFiles' = <<>>
    /\ dndFiles' = <<>> /\ open' = FALSE

Close ==
    /\ open /\ HandleClose
    /\ UNCHANGED <<loc, subs, text, pending, submits, made, failed>>
    /\ call' = NoCall

\* isValid(): Submit is enabled while totalCount, the files of the dropzone
\* and of the picked folders, is not zero
UploadIsValid == Len(zone) + Len(folderFiles) > 0

\* Submit: basePath is computed from the current location before the
\* first await
Submit(t) ==
    /\ open /\ UploadIsValid
    /\ subs[t].pc = "idle" /\ submits < MaxSubmits
    /\ subs' = [subs EXCEPT ![t] = [pc |-> "dirs", run |-> submits + 1, at |-> loc,
                   base |-> BasePath(loc, folder), dirs |-> SortedDirs(folderFiles),
                   ff |-> folderFiles, zf |-> zone, idx |-> 1]]
    /\ submits' = submits + 1
    /\ UNCHANGED <<loc, open, dndFiles, zone, folderFiles, folder, text, pending, made, failed>>
    /\ call' = NoCall

(***************************************************************************)
(* submit() awaits each createFolder, then each uploadFile of the folder   *)
(* files, then of the zone files, over the lists of its render.  An HTTP   *)
(* error is a response and the loop goes on; a rejected fetch throws out   *)
(* of submit, which leaves the dialog as it is.  After the last call:      *)
(* context.refresh(), then handleClose.                                     *)
(***************************************************************************)
\* a call made by submit number run, started in folder at, and whether its
\* response was ok
Call(s, kind, target, ok) == [run |-> s.run, at |-> s.at, base |-> s.base,
                              kind |-> kind, target |-> target, ok |-> ok]

\* the step makes call c
Sent(c) ==
    /\ call' = c
    /\ made' = IF c.kind = "createFolder" THEN made \cup {c.target} ELSE made
    /\ failed' = IF c.ok THEN failed ELSE failed \cup {c.run}

\* the target of the idx-th call of a submit in phase pc
Target(s) ==
    CASE s.pc = "dirs" -> s.base \o s.dirs[s.idx]
      [] s.pc = "folder" -> s.base \o FileDir[s.ff[s.idx]] \o <<s.ff[s.idx]>>
      [] s.pc = "zone" -> s.base \o <<s.zf[s.idx]>>

List(s) == CASE s.pc = "dirs" -> s.dirs [] s.pc = "folder" -> s.ff [] s.pc = "zone" -> s.zf

\* the loop of phase pc has no call left: go on to the next phase
NextPhase(t) ==
    /\ subs[t].pc \in {"dirs", "folder"} /\ subs[t].idx > Len(List(subs[t]))
    /\ subs' = [subs EXCEPT ![t].pc = IF @ = "dirs" THEN "folder" ELSE "zone",
                            ![t].idx = 1]
    /\ UNCHANGED <<loc, open, dndFiles, zone, folderFiles, folder, text, pending, submits, made, failed>>
    /\ call' = NoCall

\* one awaited createFolder / uploadFile
SubmitCall(t) ==
    /\ subs[t].pc \in {"dirs", "folder", "zone"} /\ subs[t].idx <= Len(List(subs[t]))
    /\ LET kind == IF subs[t].pc = "dirs" THEN "createFolder" ELSE "uploadFile"
       IN \/ Sent(Call(subs[t], kind, Target(subs[t]), TRUE))
             /\ subs' = [subs EXCEPT ![t].idx = @ + 1]
          \/ Faulty("error") /\ Sent(Call(subs[t], kind, Target(subs[t]), FALSE))
             /\ subs' = [subs EXCEPT ![t].idx = @ + 1]
          \/ Faulty("reject") /\ Sent(Call(subs[t], kind, Target(subs[t]), FALSE))
             /\ subs' = [subs EXCEPT ![t] = IdleSub]
    /\ UNCHANGED <<loc, open, dndFiles, zone, folderFiles, folder, text, pending, submits>>

\* the zone loop is done: refresh (the listing is not modelled), handleClose
SubmitEnd(t) ==
    /\ subs[t].pc = "zone" /\ subs[t].idx > Len(subs[t].zf)
    /\ HandleClose
    /\ subs' = [subs EXCEPT ![t] = IdleSub]
    /\ UNCHANGED <<loc, text, pending, submits, made, failed>>
    /\ call' = NoCall

(***************************************************************************)
(* TextFileDialog: a name and a content are typed, and Submit is enabled   *)
(* while both are filled; submit computes the path, awaits one uploadFile, *)
(* then refresh and handleClose.  Submit stays enabled while it awaits.    *)
(***************************************************************************)
TextOpen ==
    /\ ~text.open /\ text' = [text EXCEPT !.open = TRUE]
    /\ UNCHANGED <<loc, open, dndFiles, zone, folderFiles, folder, subs, pending, submits, made, failed>>
    /\ call' = NoCall

TypeName(n) ==
    /\ text.open /\ n # text.name /\ text' = [text EXCEPT !.name = n]
    /\ UNCHANGED <<loc, open, dndFiles, zone, folderFiles, folder, subs, pending, submits, made, failed>>
    /\ call' = NoCall

\* the content field: only whether it is empty matters
TypeContent(c) ==
    /\ text.open /\ c # text.content /\ text' = [text EXCEPT !.content = c]
    /\ UNCHANGED <<loc, open, dndFiles, zone, folderFiles, folder, subs, pending, submits, made, failed>>
    /\ call' = NoCall

\* isValid(): Submit is disabled unless both fields are filled
IsValid == text.name # <<>> /\ text.content # ""

\* Close: handleClose, whatever awaits
TextClose ==
    /\ text.open /\ text' = BlankForm
    /\ UNCHANGED <<loc, open, dndFiles, zone, folderFiles, folder, subs, pending, submits, made, failed>>
    /\ call' = NoCall

\* submit: fullPath = getFullPath(form.name, currentLocation), before the await
TextSubmit ==
    /\ text.open /\ IsValid /\ submits < MaxSubmits
    /\ pending' = Append(pending, [run |-> submits + 1, at |-> loc, base |-> loc,
                                   path |-> loc \o text.name])
    /\ submits' = submits + 1
    /\ UNCHANGED <<loc, open, dndFiles, zone, folderFiles, folder, subs, text, made, failed>>
    /\ call' = NoCall

\* the i-th pending upload is sent and answered, in any order; then refresh
\* and handleClose, unless the fetch rejected
TextDone(i) ==
    /\ i \in DOMAIN pending
    /\ pending' = RemoveAt(pending, i)
    /\ \/ Sent(Call(pending[i], "uploadFile", pending[i].path, TRUE))
          /\ text' = BlankForm
       \/ Faulty("error") /\ Sent(Call(pending[i], "uploadFile", pending[i].path, FALSE))
          /\ text' = BlankForm
       \/ Faulty("reject") /\ Sent(Call(pending[i], "uploadFile", pending[i].path, FALSE))
          /\ UNCHANGED text
    /\ UNCHANGED <<loc, open, dndFiles, zone, folderFiles, folder, subs, submits>>

Next ==
    \/ \E p \in Locations : Navigate(p)
    \/ \E n \in 1..MaxBatch : \E fs \in [1..n -> Files] : Drop(fs) \/ DropzoneAdd(fs) \/ FolderSelect(fs)
    \/ \E i \in 1..FilesLimit : DropzoneDelete(i)
    \/ \E s \in Typed : TypeFolder(s)
    \/ Close
    \/ \E t \in STasks : Submit(t) \/ NextPhase(t) \/ SubmitCall(t) \/ SubmitEnd(t)
    \/ TextOpen \/ \E n \in Typed : TypeName(n)
    \/ \E c \in {"", "text"} : TypeContent(c)
    \/ TextClose \/ TextSubmit \/ \E i \in 1..MaxSubmits : TextDone(i)

\* each awaited call is answered: the network steps are weakly fair
Spec == Init /\ [][Next]_vars
        /\ \A t \in STasks : WF_vars(NextPhase(t) \/ SubmitCall(t) \/ SubmitEnd(t))
        /\ WF_vars(\E i \in 1..MaxSubmits : TextDone(i))

TypeOK ==
    /\ loc \in Locations /\ open \in BOOLEAN
    /\ dndFiles \in Seq(Files) /\ zone \in Seq(Files) /\ folderFiles \in Seq(Files)
    /\ folder \in Typed /\ text.name \in Typed /\ text.open \in BOOLEAN
    /\ text.content \in {"", "text"}
    /\ \A t \in STasks : subs[t].pc \in {"idle", "dirs", "folder", "zone"}
    /\ submits \in 0..MaxSubmits /\ Len(pending) <= MaxSubmits

(***************************************************************************)
(* Properties.                                                             *)
(***************************************************************************)

(* A folder is created only after its parent below basePath was: the      *)
(* parent folders of the "Add folder" files are created shortest first,    *)
(* before any of the files is uploaded.                                    *)
DirsCreatedFirst ==
    call # NoCall =>
        \A k \in Len(call.base) + 1 .. Len(call.target) - 1 : SubSeq(call.target, 1, k) \in made

(* When a submit ends, the dialog it clears lists only files that submit  *)
(* uploaded.  handleClose runs after the last await and clears whatever    *)
(* the lists hold then, files added (or dropped) while it awaited too.     *)
SubmitEndKeepsUnsent ==
    [][\A t \in STasks :
         SubmitEnd(t) => Listed \subseteq Range(subs[t].ff) \cup Range(subs[t].zf)]_vars

(* A drop adds files to the upload dialog: files already listed stay.     *)
(* The drop sets DragAndDropHandler's files, and the dialog's effect on    *)
(* propsFiles replaces filesFromZone by them.                              *)
DropKeepsListed ==
    [][open /\ dndFiles' # <<>> /\ dndFiles' # dndFiles => Range(zone) \subseteq Range(zone')]_vars

(* A failed upload aborts the remaining steps of that operation (spec 7):  *)
(* no call of a submit follows one of its calls that failed.  A fetch      *)
(* answered with an HTTP error does not throw, and the loop goes on.      *)
UploadStopsAtFailure ==
    [][call' # NoCall => call'.run \notin failed]_vars

=============================================================================
