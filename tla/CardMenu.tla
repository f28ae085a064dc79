------------------------------ MODULE CardMenu ------------------------------
(***************************************************************************)
(* The cards of the card view and their menus: FileCard and FolderCard     *)
(* (a right click opens the card's menu: Open or Download, Copy, Delete),  *)
(* DeleteItemConfirmation (a card's own delete dialog), and the parts of   *)
(* SelectionContextWrapper they call: handle (ctrl-click, the checkbox),   *)
(* copy, openDeleteDialog, del, the Escape and Delete keys and the bulk    *)
(* DeleteMultipleDialog.  An entry is a path; Parent gives the tree.  The  *)
(* menu's "Favorite" is addBookmark, modelled in Profile.                  *)
(***************************************************************************)
EXTENDS Naturals, Sequences, SequencesExt, FiniteSets

CONSTANTS
    Entries,      \* the paths of the tree
    Parent,       \* Parent[e]: the folder e is listed in
    Root,         \* the root folder
    IsFile,       \* IsFile[e]
    DelTasks,     \* del() calls that may await at once
    RemoteFaults, \* "reject", "error", as in Filer
    None

VARIABLES
    loc,          \* currentLocation
    exists,       \* entries on the filer
    selected,     \* the selection, in order of selection
    menu,         \* the card whose menu is open, or None
    itemDel,      \* the card whose DeleteItemConfirmation is open, or None
    bulkOpen,     \* deleteDialogOpen
    listed,       \* the entries of the last listing: the cards rendered
    clipboard,    \* the clipboard's content (method "copy")
    alert,        \* alertOpen: the "Copied" snackbar
    dels          \* dels[d]: a delete awaiting

vars == <<loc, exists, selected, menu, itemDel, bulkOpen, listed, clipboard, alert, dels>>

Faulty(kind) == kind \in RemoteFaults

IdleDel == [pc |-> "idle", items |-> <<>>, idx |-> 1, card |-> None]

\* listFiles(p) over the entries ex on the filer
ListOf(p, ex) == {e \in ex : Parent[e] = p}

\* the cards rendered: a deleted entry stays until the next listing
Shown == listed

RECURSIVE Under(_, _)
\* e is somewhere below folder p
Under(e, p) == Parent[e] = p \/ (Parent[e] \in Entries /\ Under(Parent[e], p))

\* deleteItem(path, recursive): a folder goes with what is below it
Gone(p) == {p} \cup {e \in Entries : Under(e, p)}

\* a card's menu and DeleteItemConfirmation are state of the card: they
\* go when a listing no longer has the card
Mounted(c, l) == IF c \in l THEN c ELSE None

\* no modal is open: a click reaches the cards
Free == menu = None /\ itemDel = None /\ ~bulkOpen

Init ==
    /\ loc = Root /\ exists = Entries
    /\ selected = <<>> /\ menu = None /\ itemDel = None /\ bulkOpen = FALSE
    /\ listed = ListOf(Root, Entries)
    /\ clipboard = <<>> /\ alert = FALSE /\ dels = [d \in DelTasks |-> IdleDel]

(***************************************************************************)
(* Selection.                                                              *)
(***************************************************************************)
\* handle(path, isFile): the path leaves the selection if it is in it,
\* else it is appended (ctrl-click, or the card's checkbox)
Handle(c) ==
    /\ Free /\ c \in Shown
    /\ selected' = IF c \in Range(selected)
                   THEN RemoveAt(selected, SelectInSeq(selected, LAMBDA x : x = c))
                   ELSE Append(selected, c)
    /\ UNCHANGED <<loc, exists, menu, itemDel, bulkOpen, listed, clipboard, alert, dels>>

\* the Escape key; with a menu or dialog open the modal takes it and closes
Escape ==
    /\ Free /\ selected # <<>> /\ selected' = <<>>
    /\ UNCHANGED <<loc, exists, menu, itemDel, bulkOpen, listed, clipboard, alert, dels>>

\* the Delete key with a selection, or openDeleteDialog
OpenBulk ==
    /\ selected # <<>> /\ ~bulkOpen /\ bulkOpen' = TRUE
    /\ UNCHANGED <<loc, exists, selected, menu, itemDel, listed, clipboard, alert, dels>>

(***************************************************************************)
(* A card's menu.  "Copy" copies the selection when the card is in a       *)
(* selection of several, else the card; "Delete" opens the bulk dialog     *)
(* when anything is selected, else the card's own dialog.  copy() stages   *)
(* the content and clears the selection.                                   *)
(***************************************************************************)
RightClick(c) ==
    /\ Free /\ c \in Shown /\ menu' = c
    /\ UNCHANGED <<loc, exists, selected, itemDel, bulkOpen, listed, clipboard, alert, dels>>

CloseMenu ==
    /\ menu # None /\ menu' = None
    /\ UNCHANGED <<loc, exists, selected, itemDel, bulkOpen, listed, clipboard, alert, dels>>

\* FileCard / FolderCard copy()
CopyContent(c) == IF c \in Range(selected) /\ Len(selected) > 1 THEN selected ELSE <<c>>

MenuCopy ==
    /\ menu # None
    /\ clipboard' = CopyContent(menu) /\ alert' = TRUE
    /\ selected' = <<>> /\ menu' = None
    /\ UNCHANGED <<loc, exists, itemDel, bulkOpen, listed, dels>>

\* onDeleteClick, then close()
MenuDelete ==
    /\ menu # None
    /\ IF Len(selected) >= 1 THEN bulkOpen' = TRUE /\ UNCHANGED itemDel
                             ELSE itemDel' = menu /\ UNCHANGED bulkOpen
    /\ menu' = None
    /\ UNCHANGED <<loc, exists, selected, listed, clipboard, alert, dels>>

\* "Open" of a folder: enter() closes the menu and updates the location;
\* the selection effect clears the selection
MenuEnter ==
    /\ menu # None /\ ~IsFile[menu] /\ menu' = None
    /\ loc' = menu /\ selected' = <<>> /\ listed' = ListOf(menu, exists)
    /\ UNCHANGED <<exists, itemDel, bulkOpen, clipboard, alert, dels>>

\* "Download" of a file: download() closes the menu, then only reads
MenuDownload ==
    /\ menu # None /\ IsFile[menu] /\ menu' = None
    /\ UNCHANGED <<loc, exists, selected, itemDel, bulkOpen, listed, clipboard, alert, dels>>

\* a double click on a folder card: enter()
DoubleClick(c) ==
    /\ Free /\ c \in Shown /\ ~IsFile[c]
    /\ loc' = c /\ selected' = <<>> /\ listed' = ListOf(c, exists)
    /\ UNCHANGED <<exists, menu, itemDel, bulkOpen, clipboard, alert, dels>>

\* a favorite folder, or the location bar: another folder is opened, also
\* one deleted since it was bookmarked
GoTo(p) ==
    /\ Free /\ p \in {Root} \cup {e \in Entries : ~IsFile[e]} /\ p # loc
    /\ loc' = p /\ selected' = <<>> /\ listed' = ListOf(p, exists)
    /\ UNCHANGED <<exists, menu, itemDel, bulkOpen, clipboard, alert, dels>>

\* closeAlert: the snackbar hides (after 5 s, or its close button) and the
\* folder is listed again
CloseAlert ==
    /\ alert /\ alert' = FALSE /\ listed' = ListOf(loc, exists)
    /\ menu' = Mounted(menu, listed') /\ itemDel' = Mounted(itemDel, listed')
    /\ UNCHANGED <<loc, exists, selected, bulkOpen, clipboard, dels>>

(***************************************************************************)
(* The two delete dialogs.  Confirm (or the Y key) runs del().then(close). *)
(* A card's del() deletes that card; the bulk del() takes the selection,   *)
(* clears it and closes the dialog first.  Each deleteItem is awaited;     *)
(* the last is followed by refresh() and the dialog's close.               *)
(***************************************************************************)
CancelItem ==
    /\ itemDel # None /\ itemDel' = None
    /\ UNCHANGED <<loc, exists, selected, menu, bulkOpen, listed, clipboard, alert, dels>>

ConfirmItem(d) ==
    /\ itemDel # None /\ dels[d].pc = "idle"
    /\ dels' = [dels EXCEPT ![d] = [pc |-> "run", items |-> <<itemDel>>, idx |-> 1, card |-> itemDel]]
    /\ UNCHANGED <<loc, exists, selected, menu, itemDel, bulkOpen, listed, clipboard, alert>>

CancelBulk ==
    /\ bulkOpen /\ bulkOpen' = FALSE
    /\ UNCHANGED <<loc, exists, selected, menu, itemDel, listed, clipboard, alert, dels>>

ConfirmBulk(d) ==
    /\ bulkOpen /\ dels[d].pc = "idle"
    /\ dels' = IF selected = <<>> THEN dels
               ELSE [dels EXCEPT ![d] = [pc |-> "run", items |-> selected, idx |-> 1, card |-> None]]
    /\ selected' = <<>> /\ bulkOpen' = FALSE
    /\ UNCHANGED <<loc, exists, menu, itemDel, listed, clipboard, alert>>

\* a deleteItem is answered; a rejection ends del() before the close
DelStep(d) ==
    /\ dels[d].pc = "run"
    /\ LET it == dels[d].items[dels[d].idx]
           last == dels[d].idx = Len(dels[d].items)
       IN \/ /\ \/ exists' = exists \ Gone(it)
                \/ Faulty("error") /\ UNCHANGED exists
             /\ dels' = [dels EXCEPT ![d] = IF last THEN IdleDel ELSE [@ EXCEPT !.idx = @ + 1]]
             /\ listed' = IF last THEN ListOf(loc, exists') ELSE listed
             /\ itemDel' = IF last /\ itemDel = dels[d].card THEN None
                           ELSE Mounted(itemDel, listed')
             /\ menu' = Mounted(menu, listed')
             /\ bulkOpen' = (bulkOpen /\ ~(last /\ dels[d].card = None))
          \/ /\ Faulty("reject")
             /\ dels' = [dels EXCEPT ![d] = IdleDel]
             /\ UNCHANGED <<exists, itemDel, bulkOpen, listed, menu>>
    /\ UNCHANGED <<loc, selected, clipboard, alert>>

Next ==
    \/ \E c \in Entries : Handle(c) \/ RightClick(c) \/ DoubleClick(c)
    \/ Escape \/ OpenBulk
    \/ CloseMenu \/ MenuCopy \/ MenuDelete \/ MenuEnter \/ MenuDownload
    \/ \E p \in Entries \cup {Root} : GoTo(p)
    \/ CancelItem \/ CancelBulk \/ CloseAlert
    \/ \E d \in DelTasks : ConfirmItem(d) \/ ConfirmBulk(d) \/ DelStep(d)

\* every deleteItem is answered; the snackbar hides by its timer
Spec == Init /\ [][Next]_vars /\ WF_vars(CloseAlert)
        /\ \A d \in DelTasks : WF_vars(DelStep(d))

TypeOK ==
    /\ loc \in {Root} \cup Entries /\ exists \subseteq Entries
    /\ selected \in Seq(Entries) /\ clipboard \in Seq(Entries)
    /\ menu \in Entries \cup {None} /\ itemDel \in Entries \cup {None}
    /\ bulkOpen \in BOOLEAN /\ alert \in BOOLEAN /\ listed \subseteq Entries
    /\ \A d \in DelTasks : dels[d].pc \in {"idle", "run"}

(***************************************************************************)
(* Properties.                                                             *)
(***************************************************************************)

(* "Delete" in a card's menu asks to delete that card: its own dialog, or  *)
(* the bulk dialog over a selection the card is part of.  onDeleteClick   *)
(* opens the bulk dialog whenever anything is selected.                    *)
MenuDeleteIncludesCard ==
    [][MenuDelete => itemDel' = menu \/ (bulkOpen' /\ menu \in Range(selected'))]_vars

(* The selection only holds cards of the listing on screen (spec 4.2: the  *)
(* selection is cleared before a destructive action so that nothing acts   *)
(* on a stale selection).  del() clears it before its first await, but the *)
(* cards stay listed until its refresh(), and may be selected again.       *)
SelectionListed ==
    \A i \in 1..Len(selected) : selected[i] \in listed
=============================================================================
