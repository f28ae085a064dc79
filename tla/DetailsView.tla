---------------------------- MODULE DetailsView ----------------------------
(***************************************************************************)
(* The details view (content/DetailsView.tsx) and its footer: the rows of  *)
(* the listing in a DataGrid with checkbox selection, the footer's delete  *)
(* (DeleteMultipleDialog) and "Copy / Move to" (dialogs/CopyMoveDialog).   *)
(* The DataGrid selects rows by id, and the id of a row is its index in    *)
(* the listing; the footer acts on the entries the last selection change   *)
(* reported.  A listing is loaded in one step here (the order of loads is  *)
(* FileManager's subject).  Copy and move run copyFile / copyDirectory on  *)
(* the call stack of CopyDirectory, one task per footer.                   *)
(***************************************************************************)
EXTENDS CopyDirectory

CONSTANTS
    DelTasks,      \* del() calls of the footer that may run at once
    Locations,     \* folders the user can go to or type as a destination
    MaxSelection,  \* most rows the user ticks
    MaxOps,        \* footer operations (copy, move, delete) the user starts
    InitFs

VARIABLES
    loc,           \* currentLocation
    rows,          \* the listing shown; row id i is rows[i]
    selIds,        \* the DataGrid's selection model (row ids)
    selected,      \* DetailsView's selected: the footer's files
    cmOpen,        \* copyMoveOpen
    confirmOpen,   \* moveConfirmOpen
    destPath,      \* the dialog's destination field
    loading,       \* the dialog's loading flag
    job,           \* job[t]: handleCopyTo / handleMoveTo run by task t
    delOpen,       \* deleteOpen
    dels,          \* dels[d]: a del() call of the footer
    ops            \* operations started so far (bounded by MaxOps)

vars == <<fs, cstack, cresult, loc, rows, selIds, selected, cmOpen, confirmOpen,
          destPath, loading, job, delOpen, dels, ops>>

IdleJob == [pc |-> "idle", kind |-> "copy", items |-> <<>>, idx |-> 1, dest |-> Root]

IdleDel == [pc |-> "idle", items |-> <<>>, idx |-> 1]

\* the footer's files, in some order
Files == SetToSeq(selected)

(***************************************************************************)
(* A new listing of p replaces the rows.  The DataGrid drops the ids that  *)
(* no longer name a row; when it drops some it reports the rest, which     *)
(* handleSelectionChange maps through the new rows.  When every id still   *)
(* names a row nothing is reported and selected keeps the old entries.     *)
(***************************************************************************)
SyncSelection(new) ==
    LET kept == {i \in selIds : i <= Len(new)} IN
    IF kept = selIds THEN UNCHANGED <<selIds, selected>>
    ELSE selIds' = kept /\ selected' = {new[i] : i \in kept}

ShowRows(p) ==
    \/ \E answered \in IF Faulty("error") THEN BOOLEAN ELSE {TRUE} :
         LET new == Listing(fs, p, FALSE, answered)
         IN rows' = new /\ SyncSelection(new)
    \/ Faulty("reject") /\ UNCHANGED <<rows, selIds, selected>>

\* refresh() after a footer operation: the listing of the current folder
Refresh == ShowRows(loc)

Init ==
    /\ fs = InitFs
    /\ cstack = [t \in Tasks |-> <<>>] /\ cresult = [t \in Tasks |-> "none"]
    /\ loc \in Locations
    /\ rows = Listing(InitFs, loc, FALSE, TRUE)
    /\ selIds = {} /\ selected = {}
    /\ cmOpen = FALSE /\ confirmOpen = FALSE /\ destPath = loc /\ loading = FALSE
    /\ job = [t \in Tasks |-> IdleJob]
    /\ delOpen = FALSE /\ dels = [d \in DelTasks |-> IdleDel] /\ ops = 0

(***************************************************************************)
(* The user.                                                               *)
(***************************************************************************)
\* updateLocation (path bar, or a double click on a folder row); the
\* dialog's effect resets the destination to the new location while open
Navigate(p) ==
    /\ p # loc
    /\ loc' = p
    /\ ShowRows(p)
    /\ destPath' = IF cmOpen THEN p ELSE destPath
    /\ UNCHANGED <<fs, cstack, cresult, cmOpen, confirmOpen, loading, job, delOpen, dels, ops>>

\* the checkboxes: onSelectionModelChange maps the ids through the rows
Select(S) ==
    /\ S # selIds /\ Cardinality(S) <= MaxSelection
    /\ selIds' = S /\ selected' = {rows[i] : i \in S}
    /\ UNCHANGED <<fs, cstack, cresult, loc, rows, cmOpen, confirmOpen, destPath,
                   loading, job, delOpen, dels, ops>>

dialogsOnly == <<fs, cstack, cresult, loc, rows, selIds, selected, job, dels, ops>>

\* "Copy / Move to" (enabled with a selection); the effect sets destPath
OpenCopyMove ==
    /\ selected # {} /\ ~cmOpen
    /\ cmOpen' = TRUE /\ destPath' = loc /\ confirmOpen' = FALSE
    /\ UNCHANGED <<loading, delOpen>> /\ UNCHANGED dialogsOnly

TypeDest(p) ==
    /\ cmOpen /\ p # destPath /\ destPath' = p
    /\ UNCHANGED <<cmOpen, confirmOpen, loading, delOpen>> /\ UNCHANGED dialogsOnly

\* Cancel, or a click outside the dialog
CloseCopyMove ==
    /\ cmOpen /\ cmOpen' = FALSE
    /\ UNCHANGED <<confirmOpen, destPath, loading, delOpen>> /\ UNCHANGED dialogsOnly

OpenMoveConfirm ==
    /\ cmOpen /\ ~loading /\ ~confirmOpen /\ confirmOpen' = TRUE
    /\ UNCHANGED <<cmOpen, destPath, loading, delOpen>> /\ UNCHANGED dialogsOnly

CancelMoveConfirm ==
    /\ confirmOpen /\ confirmOpen' = FALSE
    /\ UNCHANGED <<cmOpen, destPath, loading, delOpen>> /\ UNCHANGED dialogsOnly

\* handleCopy / handleMove: setLoading(true), then onCopy / onMove(destPath)
\* of the footer's render, whose files are the selection now
StartJob(t, kind) ==
    /\ ~loading /\ job[t].pc = "idle" /\ ops < MaxOps
    /\ loading' = TRUE /\ ops' = ops + 1
    /\ job' = [job EXCEPT ![t] = [pc |-> "item", kind |-> kind, items |-> Files,
                                  idx |-> 1, dest |-> destPath]]
    /\ UNCHANGED <<fs, cstack, cresult, loc, rows, selIds, selected, cmOpen,
                   confirmOpen, destPath, delOpen, dels>>

CopyHere(t) == cmOpen /\ StartJob(t, "copy")

ConfirmMove(t) == confirmOpen /\ StartJob(t, "move")

\* the delete button opens DeleteMultipleDialog; "N" or onClose closes it
OpenDelete ==
    /\ selected # {} /\ ~delOpen /\ delOpen' = TRUE
    /\ UNCHANGED <<cmOpen, confirmOpen, destPath, loading>> /\ UNCHANGED dialogsOnly

CloseDelete ==
    /\ delOpen /\ delOpen' = FALSE
    /\ UNCHANGED <<cmOpen, confirmOpen, destPath, loading>> /\ UNCHANGED dialogsOnly

\* "Y" or the confirm button: del().then(close), the dialog stays open
ConfirmDel(d) ==
    /\ delOpen /\ dels[d].pc = "idle" /\ ops < MaxOps /\ ops' = ops + 1
    /\ dels' = [dels EXCEPT ![d] = [pc |-> "run", items |-> Files, idx |-> 1]]
    /\ UNCHANGED <<fs, cstack, cresult, loc, rows, selIds, selected, cmOpen,
                   confirmOpen, destPath, loading, job, delOpen>>

(***************************************************************************)
(* The footer's tasks.  Each await is one step.                            *)
(***************************************************************************)
jobOnly == <<loc, selIds, selected, destPath, delOpen, dels, ops>>

\* the next turn of the loop over the files; after the last one: refresh,
\* showSuccess, setMoveConfirmOpen(false) for a move, close(), and the
\* finally's setLoading(false)
JobItem(t) ==
    /\ job[t].pc = "item"
    /\ IF job[t].idx > Len(job[t].items)
       THEN /\ Refresh
            /\ loading' = FALSE /\ cmOpen' = FALSE
            /\ confirmOpen' = IF job[t].kind = "move" THEN FALSE ELSE confirmOpen
            /\ job' = [job EXCEPT ![t] = IdleJob]
            /\ UNCHANGED <<fs, cstack, cresult, loc, destPath, delOpen, dels, ops>>
       ELSE LET e == job[t].items[job[t].idx] IN
            /\ cstack' = [cstack EXCEPT ![t] =
                            <<IF e.isFile THEN FileFrame(e.path, job[t].dest)
                                          ELSE DirFrame(e.path, job[t].dest)>>]
            /\ job' = [job EXCEPT ![t].pc = "copying"]
            /\ UNCHANGED <<fs, cresult, rows, cmOpen, confirmOpen, loading>>
            /\ UNCHANGED jobOnly

\* an await inside copyFile / copyDirectory
JobCopy(t) ==
    /\ job[t].pc = "copying"
    /\ CopyStep(t)
    /\ UNCHANGED <<rows, cmOpen, confirmOpen, loading, job>> /\ UNCHANGED jobOnly

\* mutant: a rejected copy leaves the dialog's loading flag set
JobCopiedThrewKeepsLoading(t) ==
    /\ job[t].pc = "copying" /\ cstack[t] = <<>>
    /\ job' = [job EXCEPT ![t] = CASE cresult[t] = "threw" -> IdleJob
                                   [] job[t].kind = "move" -> [@ EXCEPT !.pc = "deleting"]
                                   [] OTHER -> [@ EXCEPT !.pc = "item", !.idx = @ + 1]]
    /\ UNCHANGED loading
    /\ UNCHANGED <<fs, cstack, cresult, rows, cmOpen, confirmOpen>> /\ UNCHANGED jobOnly

\* the copy's await returns: a rejection ends the task through the finally
\* (the dialog stays open); a move deletes next, whatever the copy did
JobCopied(t) ==
    /\ job[t].pc = "copying" /\ cstack[t] = <<>>
    /\ job' = [job EXCEPT ![t] = CASE cresult[t] = "threw" -> IdleJob
                                   [] job[t].kind = "move" -> [@ EXCEPT !.pc = "deleting"]
                                   [] OTHER -> [@ EXCEPT !.pc = "item", !.idx = @ + 1]]
    /\ loading' = (cresult[t] # "threw")
    /\ UNCHANGED <<fs, cstack, cresult, rows, cmOpen, confirmOpen>> /\ UNCHANGED jobOnly

\* handleMoveTo: await deleteItem(path, recursive for a folder); its status
\* is not looked at, a rejection ends the task through the finally
JobDelete(t) ==
    /\ job[t].pc = "deleting"
    /\ LET e == job[t].items[job[t].idx]
           next == [job EXCEPT ![t].pc = "item", ![t].idx = @ + 1]
       IN \/ fs' = DeleteEffect(fs, e.path, ~e.isFile) /\ job' = next
                  /\ UNCHANGED loading
          \/ Faulty("error") /\ UNCHANGED <<fs, loading>> /\ job' = next
          \/ Faulty("reject") /\ UNCHANGED fs
             /\ job' = [job EXCEPT ![t] = IdleJob] /\ loading' = FALSE
    /\ UNCHANGED <<cstack, cresult, rows, cmOpen, confirmOpen>> /\ UNCHANGED jobOnly

\* the footer's del(): deleteItem for each file, then refresh; then(close)
DelStep(d) ==
    /\ dels[d].pc = "run"
    /\ IF dels[d].idx > Len(dels[d].items)
       THEN /\ Refresh
            /\ delOpen' = FALSE /\ dels' = [dels EXCEPT ![d] = IdleDel]
            /\ UNCHANGED fs
       ELSE LET e == dels[d].items[dels[d].idx] IN
            /\ \/ fs' = DeleteEffect(fs, e.path, ~e.isFile)
                  /\ dels' = [dels EXCEPT ![d].idx = @ + 1]
               \/ Faulty("error") /\ UNCHANGED fs
                  /\ dels' = [dels EXCEPT ![d].idx = @ + 1]
               \/ Faulty("reject") /\ UNCHANGED fs
                  /\ dels' = [dels EXCEPT ![d] = IdleDel]
            /\ UNCHANGED <<rows, selIds, selected, delOpen>>
    /\ UNCHANGED <<cstack, cresult, loc, cmOpen, confirmOpen, destPath, loading, job, ops>>

JobStep(t) == JobItem(t) \/ JobCopy(t) \/ JobCopied(t) \/ JobDelete(t)

User ==
    \/ \E p \in Locations \cup {r.path : r \in {e \in Range(rows) : ~e.isFile}} : Navigate(p)
    \/ \E S \in SUBSET DOMAIN rows : Select(S)
    \/ OpenCopyMove \/ CloseCopyMove \/ OpenMoveConfirm \/ CancelMoveConfirm
    \/ \E p \in Locations : TypeDest(p)
    \/ \E t \in Tasks : CopyHere(t) \/ ConfirmMove(t)
    \/ OpenDelete \/ CloseDelete \/ \E d \in DelTasks : ConfirmDel(d)

Next == User \/ \E t \in Tasks : JobStep(t) \/ \E d \in DelTasks : DelStep(d)

\* the event loop resumes every awaiting task and the filer answers
Spec == Init /\ [][Next]_vars
        /\ \A t \in Tasks : WF_vars(JobStep(t))
        /\ \A d \in DelTasks : WF_vars(DelStep(d))

TypeOK ==
    /\ FilerTypeOK /\ CopyTypeOK
    /\ loc \in Paths /\ destPath \in Paths
    /\ selIds \subseteq DOMAIN rows \cup 1..MaxSelection + 1
    /\ \A t \in Tasks : job[t].pc \in {"idle", "item", "copying", "deleting"}
    /\ \A d \in DelTasks : dels[d].pc \in {"idle", "run"}
    /\ ops \in 0..MaxOps

(***************************************************************************)
(* Properties.                                                             *)
(***************************************************************************)

(* The dialog's Copy and Move buttons come back: every copy or move ends   *)
(* and clears loading in its finally, also when a fetch rejects half-way   *)
(* through the recursion, while the user keeps navigating and selecting.   *)
LoadingReleased == loading ~> ~loading

\* the copy of path q of source o made into directory d
CopyPath(q, o, d) == d \o NameOf(o) \o SubSeq(q, Len(o) + 1, Len(q))

(* A move aborts when a step fails (spec 7) and leaves the items at the    *)
(* destination: when handleMoveTo deletes an item, every entry of it       *)
(* exists at the destination with the same value.  The code deletes after  *)
(* a copy whose status it never looks at, and a move into the item's own   *)
(* folder deletes the item it has just uploaded onto itself.               *)
MoveDeletesOnlyCopied ==
    [][\A t \in Tasks :
         LET o == job[t].items[job[t].idx].path IN
         (job[t].pc = "deleting" /\ o \in DOMAIN fs /\ o \notin DOMAIN fs')
           => \A q \in DOMAIN fs :
                Under(q, o) => /\ CopyPath(q, o, job[t].dest) \in DOMAIN fs'
                               /\ fs'[CopyPath(q, o, job[t].dest)] = fs[q]]_vars

(* The footer acts on rows the user sees ticked: every entry the footer's  *)
(* delete, copy and move would use is a row of the listing shown.  The     *)
(* DataGrid keeps row ids across a new listing and reports nothing while   *)
(* they all still name rows, so selected keeps the entries of the folder   *)
(* the user left (or of rows a delete removed).                            *)
FooterShowsSelection == selected \subseteq Range(rows)
=============================================================================
