------------------------------- MODULE Download -------------------------------
(***************************************************************************)
(* Downloading the selected files: the details footer's Download button    *)
(* (handleDownload in content/DetailsView.tsx) and the card view's         *)
(* Download menu item (downloadSelected in SelectionContextWrapper.tsx).   *)
(* Both keep the files of the selection; one file is saved directly, more  *)
(* are read one getRawContent at a time into a zip, which is generated and *)
(* saved.  Only the footer has a flag, downloading, that disables its      *)
(* button while it runs.  A delete started by the user runs alongside      *)
(* (spec 4.6 and "Concurrency": no mutual exclusion between operations).   *)
(***************************************************************************)
EXTENDS Filer

CONSTANTS
    FooterTasks,  \* handleDownload calls of the footer
    MenuTasks,    \* downloadSelected calls
    Selections,   \* the selections the user may download (sets of entries)
    MaxDeletes,   \* deletes the user runs alongside
    InitFs

Tasks == FooterTasks \cup MenuTasks

VARIABLES
    downloading,  \* the footer's downloading flag
    dl,           \* dl[t]: a download in progress
    saved,        \* the files the browser saved: [name, blob]
    deletes       \* deletes run so far

vars == <<fs, downloading, dl, saved, deletes>>

IdleDl == [pc |-> "idle", items |-> <<>>, idx |-> 1, zip |-> {}]

\* files.filter((f) => f.isFile), in some order
FileItems(S) == SetToSeq({e \in S : e.isFile})

Init ==
    /\ fs = InitFs /\ downloading = FALSE
    /\ dl = [t \in Tasks |-> IdleDl] /\ saved = {} /\ deletes = 0

\* zip.file(getName(path), blob): an entry of the same name is replaced
ZipFile(zip, name, blob) == {z \in zip : z.name # name} \cup {[name |-> name, blob |-> blob]}

(***************************************************************************)
(* The user.                                                               *)
(***************************************************************************)
\* handleDownload: no file, nothing; one file, window.open on its URL (the
\* browser's own download); more, setDownloading(true) and read them
FooterDownload(t, S) ==
    /\ ~downloading /\ dl[t].pc = "idle" /\ Len(FileItems(S)) >= 2
    /\ downloading' = TRUE
    /\ dl' = [dl EXCEPT ![t] = [IdleDl EXCEPT !.pc = "read", !.items = FileItems(S)]]
    /\ UNCHANGED <<fs, saved, deletes>>

\* downloadSelected: the file items of selectedRef; none, nothing
MenuDownload(t, S) ==
    /\ dl[t].pc = "idle" /\ Len(FileItems(S)) >= 1
    /\ dl' = [dl EXCEPT ![t] = [IdleDl EXCEPT !.pc = "read", !.items = FileItems(S)]]
    /\ UNCHANGED <<fs, downloading, saved, deletes>>

\* a delete of the user's (footer, card menu or bulk) running alongside
UserDelete(p) ==
    /\ deletes < MaxDeletes /\ p # Root /\ p \in DOMAIN fs
    /\ fs' = DeleteEffect(fs, p, TRUE) /\ deletes' = deletes + 1
    /\ UNCHANGED <<downloading, dl, saved>>

(***************************************************************************)
(* The downloads' steps.  Each await is one step.                          *)
(***************************************************************************)
\* the end of the call: the footer's finally clears downloading
Finish(t) ==
    /\ dl' = [dl EXCEPT ![t] = IdleDl]
    /\ downloading' = IF t \in FooterTasks THEN FALSE ELSE downloading

\* mutant: a rejected read skips the footer's finally
ReadKeepsFlag(t) ==
    /\ dl[t].pc = "read" /\ dl[t].idx <= Len(dl[t].items)
    /\ LET p == dl[t].items[dl[t].idx].path IN
       \/ /\ dl' = [dl EXCEPT ![t].idx = @ + 1,
                              ![t].zip = ZipFile(@, NameOf(p), ReadBody(fs, p))]
          /\ UNCHANGED downloading
       \/ Faulty("error") /\ UNCHANGED downloading
          /\ dl' = [dl EXCEPT ![t].idx = @ + 1, ![t].zip = ZipFile(@, NameOf(p), ErrBody)]
       \/ Faulty("reject") /\ dl' = [dl EXCEPT ![t] = IdleDl] /\ UNCHANGED downloading
    /\ UNCHANGED <<fs, saved, deletes>>

\* await getRawContent(path): the body of the answer, whatever its status;
\* a rejection leaves the call (through the footer's finally)
Read(t) ==
    /\ dl[t].pc = "read" /\ dl[t].idx <= Len(dl[t].items)
    /\ LET p == dl[t].items[dl[t].idx].path IN
       \/ /\ dl' = [dl EXCEPT ![t].idx = @ + 1,
                              ![t].zip = ZipFile(@, NameOf(p), ReadBody(fs, p))]
          /\ UNCHANGED downloading
       \/ Faulty("error") /\ UNCHANGED downloading
          /\ dl' = [dl EXCEPT ![t].idx = @ + 1, ![t].zip = ZipFile(@, NameOf(p), ErrBody)]
       \/ Faulty("reject") /\ Finish(t)
    /\ UNCHANGED <<fs, saved, deletes>>

\* every file read: one file is saved under its name; more are zipped
\* (await generateAsync) and saved as download.zip; then the finally
Save(t) ==
    /\ dl[t].pc = "read" /\ dl[t].idx > Len(dl[t].items)
    /\ saved' = saved \cup dl[t].zip
    /\ Finish(t)
    /\ UNCHANGED <<fs, deletes>>

Next ==
    \/ \E t \in FooterTasks, S \in Selections : FooterDownload(t, S)
    \/ \E t \in MenuTasks, S \in Selections : MenuDownload(t, S)
    \/ \E p \in DOMAIN fs : UserDelete(p)
    \/ \E t \in Tasks : Read(t) \/ Save(t)

\* the event loop resumes every awaiting call and the filer answers
Spec == Init /\ [][Next]_vars /\ \A t \in Tasks : WF_vars(Read(t) \/ Save(t))

TypeOK ==
    /\ FilerTypeOK /\ downloading \in BOOLEAN /\ deletes \in 0..MaxDeletes
    /\ \A t \in Tasks : dl[t].pc \in {"idle", "read"}

(***************************************************************************)
(* Properties.                                                             *)
(***************************************************************************)

(* The footer's Download button is disabled exactly while one of its zips  *)
(* runs: downloading is set if and only if a handleDownload is between its *)
(* setDownloading(true) and its finally, also after a rejected read.       *)
DownloadingWhileZipping ==
    downloading <=> \E t \in FooterTasks : dl[t].pc # "idle"

(* A file saved by a download holds a file's content, never the body of an *)
(* error answer (spec 4.6: the download fetches each file's bytes, and a   *)
(* multi-step operation stops at its first error).  getRawContent returns  *)
(* response.blob() whatever the status.                                    *)
SavedAreFiles == \A f \in saved : f.blob \in Content
=============================================================================
