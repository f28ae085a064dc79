----------------------------- MODULE CopyTask -----------------------------
(***************************************************************************)
(* One call copyDirectory(Src, DestDir), as the "Copy / Move to" footer of *)
(* the details view and paste make it, run to its end against a filer      *)
(* that nobody else changes meanwhile.                                     *)
(***************************************************************************)
EXTENDS CopyDirectory

CONSTANTS
    InitFs,   \* the filer's namespace when the call starts
    Src,      \* the directory copied
    DestDir   \* the directory it is copied into

\* destPath of the outermost call
Dest == DestDir \o NameOf(Src)

Init ==
    /\ fs = InitFs
    /\ cstack = [t \in Tasks |-> <<DirFrame(Src, DestDir)>>]
    /\ cresult = [t \in Tasks |-> "none"]

Next == \E t \in Tasks : CopyStep(t)

\* every fetch is eventually answered (or rejected)
Spec == Init /\ [][Next]_copyVars /\ \A t \in Tasks : WF_copyVars(CopyStep(t))

TypeOK == FilerTypeOK /\ CopyTypeOK

(***************************************************************************)
(* Properties.                                                             *)
(***************************************************************************)

\* the source path an entry at q below Dest is a copy of
SourceOf(q) == Src \o SubSeq(q, Len(Dest) + 1, Len(q))

(* copyDirectory reproduces the source subtree (spec 4.5, 8): every entry  *)
(* the copy adds below the destination is a directory where the source     *)
(* has a directory, or a file with the same content where the source has   *)
(* that file.  It is violated by the synthetic parent entry that           *)
(* Folder.getContent puts first in the listing of "src/": its path is src  *)
(* itself, so the copy recurses into the source again one level deeper.    *)
MirrorsSource ==
    \A q \in DOMAIN fs \ DOMAIN InitFs :
        Under(q, Dest) /\ SourceOf(q) \in DOMAIN InitFs /\ fs[q] = InitFs[SourceOf(q)]

(* copyDirectory writes only inside the destPath it computed: neither the  *)
(* source nor anything beside the destination is created or changed, even  *)
(* though the calls recurse through entries whose paths the filer chose.   *)
WritesOnlyUnderDest ==
    \A q \in DOMAIN fs :
        (q \notin DOMAIN InitFs \/ fs[q] # InitFs[q]) => Under(q, Dest)

(* Every copyDirectory call ends (returns or throws) once the filer        *)
(* answers every fetch: the loop advances through a finite listing and     *)
(* the recursion stops where the filer refuses to create a deeper folder.  *)
CopyTerminates == <>(\A t \in Tasks : cstack[t] = <<>>)
=============================================================================
