---------------------------- MODULE FileManager ----------------------------
(***************************************************************************)
(* The file manager's shared state and the tasks that change it:           *)
(*  - LocationContextWrapper: currentLocation, history and the path kept   *)
(*    in localStorage (refreshCount only re-triggers the listing load,     *)
(*    so a refresh is modelled as that load);                              *)
(*  - FileExplorer: the listing shown and its loads in flight;             *)
(*  - SelectionContextWrapper: selection, clipboard, success alert, bulk    *)
(*    delete dialog, and the async paste and del tasks;                    *)
(*  - the card views' gestures that call into them.                        *)
(* Every await of a task is one step.  The code between two awaits runs    *)
(* without interruption: a task in such a stretch (InSync) excludes every  *)
(* other step.                                                             *)
(***************************************************************************)
EXTENDS CopyDirectory

CONSTANTS
    DelTasks,     \* del() calls that may be running at once
    Locations,    \* paths the user can type, bookmark or reach with "home"
    MaxHistory,   \* bound on the length of the back history
    MaxFetches,   \* bound on the listing loads in flight at once
    MaxPastes,    \* bound on the paste() calls made in a behaviour
    MaxSelection, \* bound on the items the user selects at once
    InitFs        \* the filer's namespace when the page opens

VARIABLES
    loc,          \* locationState.currentLocation
    hist,         \* locationState.history
    stored,       \* localStorage "seaweedfs-ui-currentPath"
    files,        \* FileExplorer files (also CurrentFilesContext)
    filesDir,     \* the directory the shown listing was loaded for (ghost)
    fetches,      \* loadFiles() calls in flight
    selected,     \* selected / selectedRef
    clipboard,    \* clipboard / clipboardRef
    alertOpen,    \* success alert shown
    deleteDialogOpen,
    paste,        \* paste[t]: the paste() call run by task t
    dels,         \* dels[d]: the del() call run by task d
    pastes        \* paste() calls made so far (bounded by MaxPastes)

vars == <<fs, cstack, cresult, loc, hist, stored, files, filesDir, fetches,
          selected, clipboard, alertOpen, deleteDialogOpen, paste, dels, pastes>>

Entry == [path : Paths, isFile : BOOLEAN]

EmptyClipboard == [content |-> <<>>, method |-> "copy"]

IdlePaste == [pc |-> "idle", content |-> <<>>, method |-> "copy", idx |-> 1,
              dest |-> Root, dests |-> {}]

IdleDel == [pc |-> "idle", items |-> <<>>, idx |-> 1, bulk |-> FALSE]

SelectedPaths == {selected[i].path : i \in DOMAIN selected}

(***************************************************************************)
(* Atomic stretches: copyDirectory's loop body, and paste's loop body      *)
(* from the return of one copy to the next await.                          *)
(***************************************************************************)
InSync(t) ==
    \/ paste[t].pc = "item"
    \/ paste[t].pc = "copying" /\ cstack[t] = <<>>
    \/ cstack[t] # <<>> /\ Top(t).pc = "loop"

Quiet == \A t \in Tasks : ~InSync(t)

(***************************************************************************)
(* FileExplorer's effect on [currentLocation, refreshCount]: loadFiles().  *)
(***************************************************************************)
Load(dir) == fetches' = fetches \cup {[dir |-> dir, phase |-> "sent", entries |-> <<>>]}

\* the user's navigation and refreshes wait while MaxFetches loads are in
\* flight (a bound of the model); the tasks' refreshes never wait
RoomToLoad == Cardinality(fetches) < MaxFetches

\* the fetch of getFiles(dir) is answered: the filer's listing at this moment
ServeFetch(r) ==
    /\ Quiet /\ r \in fetches /\ r.phase = "sent"
    /\ \/ \E answered \in IF Faulty("error") THEN BOOLEAN ELSE {TRUE} :
             fetches' = (fetches \ {r}) \cup
                 {[r EXCEPT !.phase = "answered", !.entries = Listing(fs, r.dir, FALSE, answered)]}
       \/ Faulty("reject") /\ fetches' = fetches \ {r}
    /\ UNCHANGED <<fs, cstack, cresult, loc, hist, stored, files, filesDir, selected,
                   clipboard, alertOpen, deleteDialogOpen, paste, dels, pastes>>

\* response.text() resolves: setFiles(output), whichever load this was
ApplyFetch(r) ==
    /\ Quiet /\ r \in fetches /\ r.phase = "answered"
    /\ files' = r.entries
    /\ filesDir' = r.dir
    /\ fetches' = fetches \ {r}
    /\ UNCHANGED <<fs, cstack, cresult, loc, hist, stored, selected, clipboard,
                   alertOpen, deleteDialogOpen, paste, dels, pastes>>

(***************************************************************************)
(* LocationContextWrapper.  A change of currentLocation also runs          *)
(* SelectionContextWrapper's effect (selection cleared) and FileExplorer's *)
(* (a load).                                                               *)
(***************************************************************************)
\* mutant: the selection is kept when the location changes
MoveToKeepSelection(p) ==
    /\ loc' = p
    /\ IF p # loc THEN Load(p) ELSE UNCHANGED fetches
    /\ UNCHANGED selected

MoveTo(p) ==
    /\ loc' = p
    /\ IF p # loc THEN selected' = <<>> /\ Load(p)
                  ELSE UNCHANGED <<selected, fetches>>

UpdateLocation(p) ==
    /\ Quiet /\ Len(hist) < MaxHistory /\ RoomToLoad
    /\ stored' = p
    /\ hist' = Append(hist, loc)
    /\ MoveTo(p)
    /\ UNCHANGED <<fs, cstack, cresult, files, filesDir, clipboard, alertOpen,
                   deleteDialogOpen, paste, dels, pastes>>

\* mutant: goBack does not write the path it returns to
GoBackNotStored ==
    /\ Quiet /\ hist # <<>> /\ RoomToLoad
    /\ hist' = Front(hist)
    /\ MoveTo(Last(hist))
    /\ UNCHANGED <<fs, cstack, cresult, stored, files, filesDir, clipboard, alertOpen,
                   deleteDialogOpen, paste, dels, pastes>>

\* the back button, disabled while the history is empty
GoBack ==
    /\ Quiet /\ hist # <<>> /\ RoomToLoad
    /\ stored' = Last(hist)
    /\ hist' = Front(hist)
    /\ MoveTo(Last(hist))
    /\ UNCHANGED <<fs, cstack, cresult, files, filesDir, clipboard, alertOpen,
                   deleteDialogOpen, paste, dels, pastes>>

\* refresh(): only FileExplorer reads refreshCount
Refresh == Load(loc)

\* a page reload: all in-memory state and running tasks are gone; the path
\* comes back from localStorage (getStoredPath)
Reload ==
    /\ Quiet
    /\ loc' = stored /\ hist' = <<>>
    /\ fetches' = {[dir |-> stored, phase |-> "sent", entries |-> <<>>]}
    /\ files' = <<>> /\ filesDir' = stored
    /\ selected' = <<>> /\ clipboard' = EmptyClipboard
    /\ alertOpen' = FALSE /\ deleteDialogOpen' = FALSE
    /\ paste' = [t \in Tasks |-> IdlePaste] /\ dels' = [d \in DelTasks |-> IdleDel]
    /\ cstack' = [t \in Tasks |-> <<>>] /\ cresult' = [t \in Tasks |-> "none"]
    /\ UNCHANGED <<fs, stored, pastes>>

(***************************************************************************)
(* Selection gestures on the cards shown.                                  *)
(***************************************************************************)
Cards == {files[i] : i \in DOMAIN files}

selUnchanged == UNCHANGED <<fs, cstack, cresult, loc, hist, stored, files, filesDir,
                            fetches, clipboard, alertOpen, deleteDialogOpen, paste, dels, pastes>>

\* mutant: handle appends without looking for the path
HandleAppend(e) ==
    /\ Quiet /\ e \in Cards
    /\ selected' = Append(selected, e)
    /\ Len(selected') <= MaxSelection
    /\ selUnchanged

\* handle(path, isFile): the card's checkbox or ctrl-click toggles it
Handle(e) ==
    /\ Quiet /\ e \in Cards
    /\ selected' = IF e.path \in SelectedPaths
                   THEN SelectSeq(selected, LAMBDA s : s.path # e.path)
                   ELSE Append(selected, e)
    /\ Len(selected') <= MaxSelection
    /\ selUnchanged

\* replaceSelection(items) from CardView: mouse-down on empty space clears,
\* a marquee drag selects the cards its box meets, in document order
Marquee(S) ==
    /\ Quiet /\ S \subseteq Cards /\ Cardinality(S) <= MaxSelection
    /\ selected' = SelectSeq(files, LAMBDA e : e \in S)
    /\ selUnchanged

\* SelectAllCheckbox.toggle(): the list drops entries named ".." and "."
SelectAll ==
    LET list == files
        allSelected == list # <<>> /\ \A e \in Cards : e.path \in SelectedPaths
    IN /\ Quiet
       /\ selected' = IF allSelected THEN <<>> ELSE list
       /\ Len(selected') <= MaxSelection
       /\ selUnchanged

\* the Escape key
Escape == Quiet /\ selected' = <<>> /\ selUnchanged

(***************************************************************************)
(* copy(obj) / cut(obj): with no obj the selection is taken; nothing       *)
(* happens if it is empty; the selection is cleared after.                 *)
(***************************************************************************)
stageUnchanged == UNCHANGED <<fs, cstack, cresult, loc, hist, stored, files, filesDir,
                              fetches, deleteDialogOpen, paste, dels, pastes>>

Stage(content, method) ==
    /\ Len(content) > 0
    /\ clipboard' = [content |-> content, method |-> method]
    /\ alertOpen' = TRUE
    /\ selected' = <<>>
    /\ stageUnchanged

\* Ctrl+C, or "Copy" in the empty-area menu
CopySelection == Quiet /\ Stage(selected, "copy")

\* Ctrl+X
CutSelection == Quiet /\ Stage(selected, "cut")

\* "Copy" in a card's menu: the whole selection if the card is in a
\* selection of several, else the card alone
CardCopy(e) ==
    /\ Quiet /\ e \in Cards
    /\ Stage(IF e.path \in SelectedPaths /\ Len(selected) > 1 THEN selected ELSE <<e>>,
             "copy")

\* the alert closes (its button or the 5 s auto-hide): closeAlert()
CloseAlert ==
    /\ Quiet /\ alertOpen /\ RoomToLoad
    /\ alertOpen' = FALSE
    /\ Refresh
    /\ UNCHANGED <<fs, cstack, cresult, loc, hist, stored, files, filesDir, selected,
                   clipboard, deleteDialogOpen, paste, dels, pastes>>

(***************************************************************************)
(* Deleting.  The Delete key and the menus open the bulk dialog when the   *)
(* selection is not empty; its confirm runs del().  A card's own delete    *)
(* with nothing selected asks in its own dialog and deletes the card.      *)
(***************************************************************************)
dialogUnchanged == UNCHANGED <<fs, cstack, cresult, loc, hist, stored, files, filesDir,
                               fetches, selected, clipboard, alertOpen, paste, dels, pastes>>

OpenDeleteDialog == Quiet /\ selected # <<>> /\ deleteDialogOpen' = TRUE /\ dialogUnchanged

CloseDeleteDialog == Quiet /\ deleteDialogOpen /\ deleteDialogOpen' = FALSE /\ dialogUnchanged

\* the first deleteItem is sent in the same turn; an empty list refreshes at
\* once; bulk marks the dialog's del(), whose .then(close) closes the dialog
StartDel(d, items, bulk) ==
    IF items = <<>> THEN Refresh /\ UNCHANGED dels
    ELSE /\ dels' = [dels EXCEPT ![d] = [pc |-> "run", items |-> items, idx |-> 1, bulk |-> bulk]]
         /\ UNCHANGED fetches

\* del(): deleteItem(path, !isFile) for each selected item, then refresh()
ConfirmDelete(d) ==
    /\ Quiet /\ deleteDialogOpen /\ dels[d].pc = "idle"
    /\ StartDel(d, [i \in DOMAIN selected |->
                      [path |-> selected[i].path, recursive |-> ~selected[i].isFile]], TRUE)
    /\ selected' = <<>>
    /\ deleteDialogOpen' = FALSE
    /\ UNCHANGED <<fs, cstack, cresult, loc, hist, stored, files, filesDir, clipboard,
                   alertOpen, paste, pastes>>

\* FileCard / FolderCard del(): deleteItem(FullPath) for a file,
\* deleteItem(FullPath, true) for a folder, then refresh()
CardDelete(d, e) ==
    /\ Quiet /\ e \in Cards /\ selected = <<>> /\ dels[d].pc = "idle"
    /\ StartDel(d, <<[path |-> e.path, recursive |-> ~e.isFile]>>, FALSE)
    /\ UNCHANGED <<fs, cstack, cresult, loc, hist, stored, files, filesDir, selected,
                   clipboard, alertOpen, deleteDialogOpen, paste, pastes>>

\* a deleteItem of a del() call is answered; a rejection ends the call
\* before refresh() and close
DelStep(d) ==
    /\ Quiet /\ dels[d].pc = "run"
    /\ LET it == dels[d].items[dels[d].idx]
           last == dels[d].idx = Len(dels[d].items)
       IN \/ /\ \/ fs' = DeleteEffect(fs, it.path, it.recursive)
                \/ Faulty("error") /\ UNCHANGED fs
             /\ dels' = [dels EXCEPT ![d] = IF last THEN IdleDel ELSE [@ EXCEPT !.idx = @ + 1]]
             /\ IF last THEN Refresh ELSE UNCHANGED fetches
             /\ deleteDialogOpen' = (deleteDialogOpen /\ ~(last /\ dels[d].bulk))
          \/ /\ Faulty("reject")
             /\ dels' = [dels EXCEPT ![d] = IdleDel]
             /\ UNCHANGED <<fs, fetches, deleteDialogOpen>>
    /\ UNCHANGED <<cstack, cresult, loc, hist, stored, files, filesDir, selected,
                   clipboard, alertOpen, paste, pastes>>

(***************************************************************************)
(* paste(): the clipboard is read once; each item is copied into the       *)
(* location current when its turn comes, and with "cut" deleted after.     *)
(* No result is looked at; a rejected fetch ends the call (uncaught).      *)
(***************************************************************************)
pasteUnchanged == UNCHANGED <<loc, hist, stored, files, filesDir, selected,
                              deleteDialogOpen, dels>>

Item(t) == paste[t].content[paste[t].idx]

\* Ctrl+V, or "Paste" in the empty-area menu
PasteStart(t) ==
    /\ Quiet /\ paste[t].pc = "idle" /\ pastes < MaxPastes
    /\ pastes' = pastes + 1
    /\ paste' = [paste EXCEPT ![t] = [IdlePaste EXCEPT !.pc = "item",
                     !.content = clipboard.content, !.method = clipboard.method]]
    /\ UNCHANGED <<fs, cstack, cresult, fetches, clipboard, alertOpen>>
    /\ pasteUnchanged

\* the loop head: the next item's copy starts, or the call finishes
PasteItem(t) ==
    /\ paste[t].pc = "item"
    /\ IF paste[t].idx <= Len(paste[t].content)
       THEN /\ cstack' = [cstack EXCEPT ![t] = <<IF Item(t).isFile THEN FileFrame(Item(t).path, loc)
                                                 ELSE DirFrame(Item(t).path, loc)>>]
            /\ cresult' = [cresult EXCEPT ![t] = "none"]
            /\ paste' = [paste EXCEPT ![t].pc = "copying", ![t].dest = loc,
                                      ![t].dests = @ \cup {loc}]
            /\ UNCHANGED <<fetches, clipboard, alertOpen>>
       ELSE /\ alertOpen' = TRUE
            /\ Refresh
            /\ clipboard' = EmptyClipboard
            /\ paste' = [paste EXCEPT ![t] = IdlePaste]
            /\ UNCHANGED <<cstack, cresult>>
    /\ UNCHANGED <<fs, pastes>>
    /\ pasteUnchanged

\* mutant: after a copy the loop does not move to the next item
PasteCopiedNoAdvance(t) ==
    /\ paste[t].pc = "copying" /\ cstack[t] = <<>>
    /\ paste' = [paste EXCEPT ![t] =
                   CASE cresult[t] = "threw"    -> IdlePaste
                     [] paste[t].method = "cut" -> [@ EXCEPT !.pc = "deleting"]
                     [] OTHER                   -> [@ EXCEPT !.pc = "item"]]
    /\ UNCHANGED <<fs, cstack, cresult, fetches, clipboard, alertOpen, pastes>>
    /\ pasteUnchanged

\* the awaited copy returned (pasted++, and for "cut" the deleteItem is
\* sent) or threw out of paste()
PasteCopied(t) ==
    /\ paste[t].pc = "copying" /\ cstack[t] = <<>>
    /\ paste' = [paste EXCEPT ![t] =
                   CASE cresult[t] = "threw"    -> IdlePaste
                     [] paste[t].method = "cut" -> [@ EXCEPT !.pc = "deleting"]
                     [] OTHER                   -> [@ EXCEPT !.pc = "item", !.idx = @ + 1]]
    /\ UNCHANGED <<fs, cstack, cresult, fetches, clipboard, alertOpen, pastes>>
    /\ pasteUnchanged

\* the deleteItem of a cut item is answered
PasteDeleted(t) ==
    /\ Quiet /\ paste[t].pc = "deleting"
    /\ \/ /\ \/ fs' = DeleteEffect(fs, Item(t).path, ~Item(t).isFile)
             \/ Faulty("error") /\ UNCHANGED fs
          /\ paste' = [paste EXCEPT ![t].pc = "item", ![t].idx = @ + 1]
       \/ /\ Faulty("reject")
          /\ paste' = [paste EXCEPT ![t] = IdlePaste]
          /\ UNCHANGED fs
    /\ UNCHANGED <<cstack, cresult, fetches, clipboard, alertOpen, pastes>>
    /\ pasteUnchanged

\* an await inside the copy of task t resumes
CopyAwait(t) ==
    /\ \/ Quiet
       \/ InSync(t)
    /\ CopyStep(t)
    /\ UNCHANGED <<loc, hist, stored, files, filesDir, fetches, selected, clipboard,
                   alertOpen, deleteDialogOpen, paste, dels, pastes>>

PasteTask(t) == PasteItem(t) \/ PasteCopied(t) \/ PasteDeleted(t) \/ CopyAwait(t)

(***************************************************************************)
(* The page as it opens: the stored path (or "/") and its first load.      *)
(***************************************************************************)
Init ==
    /\ fs = InitFs
    /\ cstack = [t \in Tasks |-> <<>>] /\ cresult = [t \in Tasks |-> "none"]
    /\ stored \in Locations /\ loc = stored /\ hist = <<>>
    /\ files = <<>> /\ filesDir = loc
    /\ fetches = {[dir |-> loc, phase |-> "sent", entries |-> <<>>]}
    /\ selected = <<>> /\ clipboard = EmptyClipboard
    /\ alertOpen = FALSE /\ deleteDialogOpen = FALSE
    /\ paste = [t \in Tasks |-> IdlePaste] /\ dels = [d \in DelTasks |-> IdleDel]
    /\ pastes = 0

\* what the user can do, at any time the page is idle
User ==
    \/ \E p \in Locations \cup {e.path : e \in {c \in Cards : ~c.isFile}} : UpdateLocation(p)
    \/ GoBack \/ Reload
    \/ \E e \in Cards : Handle(e) \/ CardCopy(e)
    \/ \E S \in SUBSET Cards : Marquee(S)
    \/ SelectAll \/ Escape
    \/ CopySelection \/ CutSelection \/ CloseAlert
    \/ OpenDeleteDialog \/ CloseDeleteDialog
    \/ \E d \in DelTasks : ConfirmDelete(d) \/ \E e \in Cards : CardDelete(d, e)
    \/ \E t \in Tasks : PasteStart(t)

\* what the network and the tasks do
System ==
    \/ \E r \in fetches : ServeFetch(r) \/ ApplyFetch(r)
    \/ \E d \in DelTasks : DelStep(d)
    \/ \E t \in Tasks : PasteTask(t)

Next == User \/ System

(***************************************************************************)
(* Every fetch is eventually answered and every awaiting task resumes;     *)
(* the user is never obliged to act.                                       *)
(***************************************************************************)
Spec ==
    /\ Init /\ [][Next]_vars
    /\ \A t \in Tasks : WF_vars(PasteTask(t))
    /\ \A d \in DelTasks : WF_vars(DelStep(d))
    /\ WF_vars(\E r \in fetches : ServeFetch(r) \/ ApplyFetch(r))

TypeOK ==
    /\ FilerTypeOK /\ CopyTypeOK
    /\ loc \in Paths /\ stored \in Paths /\ hist \in Seq(Paths)
    /\ files \in Seq(Entry) /\ selected \in Seq(Entry)
    /\ clipboard \in [content : Seq(Entry), method : {"copy", "cut"}]
    /\ alertOpen \in BOOLEAN /\ deleteDialogOpen \in BOOLEAN
    /\ \A t \in Tasks :
         /\ paste[t].pc \in {"idle", "item", "copying", "deleting"}
         /\ paste[t].idx \in 1 .. Len(paste[t].content) + 1
         /\ paste[t].pc \in {"copying", "deleting"} => paste[t].idx <= Len(paste[t].content)
    /\ \A d \in DelTasks :
         dels[d].pc = "run" => dels[d].idx \in 1 .. Len(dels[d].items)

(***************************************************************************)
(* Properties that hold.                                                   *)
(***************************************************************************)

(* A reload reopens the folder the user was in (spec 4.1): updateLocation  *)
(* and goBack both write the path they move to into localStorage, so the   *)
(* stored path is the current location in every state, whatever order     *)
(* navigation, back and reloads come in.                                   *)
StoredIsCurrent == stored = loc

(* The selection never names an entry twice, though it is built from      *)
(* handle toggles, marquee replacements, select-all and the clear on       *)
(* navigation, each on whatever listing is shown at the time.              *)
NoDuplicateSelection ==
    \A i, j \in DOMAIN selected : i # j => selected[i].path # selected[j].path

(* Every paste() comes to an end (finishes or throws) when the filer       *)
(* answers, even when the items are directories copied recursively and     *)
(* the user keeps navigating meanwhile.                                    *)
PasteTerminates ==
    \A t \in Tasks : paste[t].pc # "idle" ~> paste[t].pc = "idle"

(***************************************************************************)
(* What the spec says of the program and the code does not do.  Each is    *)
(* checked by a run of its own that expects TLC to find it violated.       *)
(***************************************************************************)

\* the copy of path q of source o made into directory d
CopyPath(q, o, d) == d \o NameOf(o) \o SubSeq(q, Len(o) + 1, Len(q))

(* Cut then paste leaves the items at the destination (spec 4.4, 8), and   *)
(* a failed copy aborts the paste (spec 4.4, 7): so when paste() deletes a *)
(* cut item, every entry of it exists at the destination with the same     *)
(* value.  The code deletes whatever the copy did, and a cut pasted into   *)
(* its own folder is uploaded onto itself, then deleted.                   *)
CutKeepsData ==
    [][\A t \in Tasks :
         LET o == Item(t).path IN
         (paste[t].pc = "deleting" /\ paste'[t] # paste[t]
            /\ o \in DOMAIN fs /\ o \notin DOMAIN fs')
           => \A q \in DOMAIN fs :
                Under(q, o) => /\ CopyPath(q, o, paste[t].dest) \in DOMAIN fs'
                               /\ fs'[CopyPath(q, o, paste[t].dest)] = fs[q]]_vars

(* Paste consumes the clipboard it pasted, and a later copy or cut         *)
(* overwrites it (spec 3): when a paste ends by reporting its result and   *)
(* clearing the clipboard, the clipboard held what that paste read.  The   *)
(* code clears it whatever a copy or cut made while the paste ran put      *)
(* there.                                                                  *)
ClipboardSurvivesPaste ==
    [][\A t \in Tasks :
         (paste[t].pc # "idle" /\ paste'[t].pc = "idle" /\ alertOpen'
            /\ clipboard # EmptyClipboard /\ clipboard' = EmptyClipboard)
           => clipboard = [content |-> paste[t].content, method |-> paste[t].method]]_vars

(* All items of one paste go to the one destination directory the paste   *)
(* was made in (spec 8: "paste() while currentPath=/x/dest results in      *)
(* /x/dest/..." for every item).  The code reads currentLocation afresh    *)
(* for each item, so navigating during a paste splits it.                  *)
PasteSingleDestination ==
    \A t \in Tasks : Cardinality(paste[t].dests) <= 1

(* Once no load is in flight, the listing shown is the current folder's    *)
(* (spec 2: the current path drives the listing fetch).  loadFiles has no  *)
(* guard against an older load answering after a newer one.               *)
ListingShowsLocation ==
    fetches = {} => filesDir = loc

(* The synthetic parent entry is not an item (spec 4.5: it is excluded;    *)
(* FolderCard and select-all test for the names ".." and "."): nothing     *)
(* selected contains the current folder, so a bulk delete of the selection *)
(* never deletes the folder the user is in.                                *)
SelectionBelowLocation ==
    \A i \in DOMAIN selected : ~Under(loc, selected[i].path)

(* The top of the history is never the folder open (spec 3: history never *)
(* holds the current path as its top element but during a push).          *)
(* updateLocation pushes the folder it leaves whatever the new one is, so *)
(* the Home button at "/", or a path typed for the folder already open,   *)
(* puts the current folder on top.                                         *)
HistoryTopNotCurrent == hist # <<>> => Last(hist) # loc

=============================================================================
