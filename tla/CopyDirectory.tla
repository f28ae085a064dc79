--------------------------- MODULE CopyDirectory ---------------------------
(***************************************************************************)
(* copyFile and copyDirectory (seaweedfs/filer.ts) run by async tasks.     *)
(* Each await is one step, so steps of different tasks, and of the user,   *)
(* interleave between them.  The recursion is an explicit call stack per   *)
(* task: a frame is one active call of copyFile ("file") or copyDirectory  *)
(* ("dir").  A rejected fetch unwinds the whole stack (the exception is    *)
(* not caught) and the task's result is "threw"; when the bottom frame     *)
(* returns the result is "returned".                                       *)
(***************************************************************************)
EXTENDS Filer

CONSTANT Tasks

VARIABLES
    cstack,   \* cstack[t]: the calls task t is inside, innermost last
    cresult   \* cresult[t]: how the last copy of task t ended

copyVars == <<fs, cstack, cresult>>

Frame == [kind : {"file", "dir"}, src : Paths, dest : Seq(Names),
          pc : {"read", "upload", "create", "list", "loop"},
          entries : Seq([path : Seq(Names), isFile : BOOLEAN]),
          blob : Content \cup {ErrBody, Dir}]

\* copyFile(srcPath, destDir): dest is destDir
FileFrame(src, destDir) ==
    [kind |-> "file", src |-> src, dest |-> destDir, pc |-> "read",
     entries |-> <<>>, blob |-> ErrBody]

\* mutant: destPath built without the folder's own name
DirFrameNoName(src, destDir) ==
    [kind |-> "dir", src |-> src, dest |-> destDir, pc |-> "create",
     entries |-> <<>>, blob |-> ErrBody]

\* copyDirectory(srcPath, destDir): dest is destDir + getName(src) + "/"
DirFrame(src, destDir) ==
    [kind |-> "dir", src |-> src, dest |-> destDir \o NameOf(src), pc |-> "create",
     entries |-> <<>>, blob |-> ErrBody]

Top(t) == cstack[t][Len(cstack[t])]

SetTop(t, fr) == cstack' = [cstack EXCEPT ![t][Len(cstack[t])] = fr]

\* the innermost call returns to its caller
Return(t) ==
    /\ cstack' = [cstack EXCEPT ![t] = Front(cstack[t])]
    /\ cresult' = IF Len(cstack[t]) = 1 THEN [cresult EXCEPT ![t] = "returned"]
                  ELSE cresult

\* the fetch of the innermost call rejects: the task's copy throws
Throw(t) ==
    /\ Faulty("reject")
    /\ cstack' = [cstack EXCEPT ![t] = <<>>]
    /\ cresult' = [cresult EXCEPT ![t] = "threw"]
    /\ UNCHANGED fs

Busy(t, kind, pc) == cstack[t] # <<>> /\ Top(t).kind = kind /\ Top(t).pc = pc

(* copyFile, first await: getRawContent(srcPath) *)
FileRead(t) ==
    /\ Busy(t, "file", "read")
    /\ \/ /\ SetTop(t, [Top(t) EXCEPT !.pc = "upload", !.blob = ReadBody(fs, Top(t).src)])
          /\ UNCHANGED <<fs, cresult>>
       \/ Throw(t)

(* copyFile, second await: uploadFile(destDir/name, blob); its status is   *)
(* returned to the caller, which never looks at it.                        *)
FileUpload(t) ==
    /\ Busy(t, "file", "upload")
    /\ \/ /\ fs' = UploadEffect(fs, Top(t).dest \o NameOf(Top(t).src), Top(t).blob)
          /\ Return(t)
       \/ /\ Faulty("error")
          /\ Return(t)
          /\ UNCHANGED fs
       \/ Throw(t)

(* copyDirectory: createFolder(destPath); any status other than ok and     *)
(* 409 returns at once.                                                    *)
DirCreate(t) ==
    /\ Busy(t, "dir", "create")
    /\ LET d == Top(t).dest IN
       \/ /\ CreateFolderResult(fs, d) \in {"created", "exists"}
          /\ fs' = CreateFolderEffect(fs, d)
          /\ SetTop(t, [Top(t) EXCEPT !.pc = "list"])
          /\ UNCHANGED cresult
       \/ /\ CreateFolderResult(fs, d) = "failed" \/ Faulty("error")
          /\ Return(t)
          /\ UNCHANGED fs
       \/ Throw(t)

(* copyDirectory: getFiles(normalizedSrc + "/"), i.e. Folder.getContent    *)
(* on the source with a trailing slash.                                    *)
DirList(t) ==
    /\ Busy(t, "dir", "list")
    /\ \/ \E answered \in IF Faulty("error") THEN BOOLEAN ELSE {TRUE} :
             /\ SetTop(t, [Top(t) EXCEPT !.pc = "loop",
                           !.entries = Listing(fs, Top(t).src, TRUE, answered)])
             /\ UNCHANGED <<fs, cresult>>
       \/ Throw(t)

\* mutant: the loop pushes the call for an entry without moving past it
DirLoopNoAdvance(t) ==
    /\ Busy(t, "dir", "loop")
    /\ IF Top(t).entries = <<>>
       THEN Return(t)
       ELSE LET e == Head(Top(t).entries)
                fr == IF e.isFile THEN FileFrame(e.path, Top(t).dest)
                                  ELSE DirFrame(e.path, Top(t).dest)
            IN cstack' = [cstack EXCEPT ![t] = Append(@, fr)] /\ UNCHANGED cresult
    /\ UNCHANGED fs

(* copyDirectory: one turn of the loop over the entries.  The test for     *)
(* ".." and "." never holds: no entry is named so, the synthetic parent    *)
(* entry is named by its full path.  A file is copied with copyFile, a     *)
(* directory with copyDirectory into destPath.                             *)
DirLoop(t) ==
    /\ Busy(t, "dir", "loop")
    /\ IF Top(t).entries = <<>>
       THEN Return(t)
       ELSE LET e == Head(Top(t).entries)
                fr == IF e.isFile THEN FileFrame(e.path, Top(t).dest)
                                  ELSE DirFrame(e.path, Top(t).dest)
            IN /\ cstack' = [cstack EXCEPT ![t] =
                      Append(Front(@) \o <<[Top(t) EXCEPT !.entries = Tail(@)]>>, fr)]
               /\ UNCHANGED cresult
    /\ UNCHANGED fs

CopyStep(t) ==
    \/ FileRead(t) \/ FileUpload(t)
    \/ DirCreate(t) \/ DirList(t) \/ DirLoop(t)

CopyTypeOK ==
    /\ cstack \in [Tasks -> Seq(Frame)]
    /\ cresult \in [Tasks -> {"none", "returned", "threw"}]
=============================================================================
