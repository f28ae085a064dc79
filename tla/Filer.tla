------------------------------- MODULE Filer -------------------------------
(***************************************************************************)
(* The remote filer as the UI's client code (seaweedfs/filer.ts,           *)
(* folder.ts, file.ts) sees it.  The filer is external; only the answers   *)
(* the client can get back are modelled.  A path string "/a/b" is the      *)
(* sequence <<a, b>> of its segments; "/" is <<>>.  The filer's namespace  *)
(* is the function fs from existing paths to what is stored there: the     *)
(* marker Dir for a directory, a content value for a file.                 *)
(***************************************************************************)
EXTENDS Naturals, Sequences, SequencesExt, FiniteSets

CONSTANTS
    Names,        \* segment names
    Content,      \* file contents
    NoChunks,     \* contents stored without a "chunks" field (empty files)
    Dir,          \* marker stored at a directory path
    ErrBody,      \* body of an error page, read as if it were file content
    MaxDepth,     \* deepest path the filer accepts (longer create/upload fail)
    RemoteFaults  \* faults a call may meet: "reject" (fetch rejects),
                  \* "error" (non-2xx answer with no effect)

ASSUME NoChunks \subseteq Content /\ Dir \notin Content /\ ErrBody \notin Content
ASSUME RemoteFaults \subseteq {"reject", "error"}

VARIABLE fs

Root == <<>>

Paths == UNION {[1..n -> Names] : n \in 0..MaxDepth}

\* a path p lies under (or is) the path q
Under(p, q) == IsPrefix(q, p)

IsDirAt(f, p) == p \in DOMAIN f /\ f[p] = Dir

\* the entries directly below p
ChildrenOf(f, p) == {q \in DOMAIN f : Len(q) = Len(p) + 1 /\ IsPrefix(p, q)}

\* getName(path) (file.ts): the segment after the last slash; "" for "/"
NameOf(p) == IF p = Root THEN <<>> ELSE <<Last(p)>>

(***************************************************************************)
(* Folder.getContent() on the string path, with or without a trailing      *)
(* slash.  The listing first gets a synthetic parent entry whose path is   *)
(* the string up to the last slash: for "/a/d" that is "/a", but for       *)
(* "/a/d/" it is "/a/d" itself.  Then come the filer's entries in its      *)
(* order; a response that is not JSON (missing directory, error page)      *)
(* lists none.  An entry is a File exactly when the filer sent "chunks",   *)
(* which it does not for a file stored without chunks.                     *)
(***************************************************************************)
ListingParent(p, trailingSlash) == IF trailingSlash THEN p ELSE Front(p)

EntryOf(f, q) == [path |-> q, isFile |-> f[q] \in Content \ NoChunks]

Listing(f, p, trailingSlash, answered) ==
    LET parent == IF p = Root THEN <<>>
                  ELSE <<[path |-> ListingParent(p, trailingSlash), isFile |-> FALSE]>>
        kids   == IF answered /\ IsDirAt(f, p)
                  THEN [i \in 1..Cardinality(ChildrenOf(f, p)) |->
                          EntryOf(f, SetToSeq(ChildrenOf(f, p))[i])]
                  ELSE <<>>
    IN parent \o kids

(***************************************************************************)
(* The filer's answers to the mutating calls.                              *)
(***************************************************************************)
\* the directories a create or an upload at p makes on the way (mkdir -p)
Ancestors(p) == {SubSeq(p, 1, k) : k \in 0..Len(p) - 1}

CanCreateAt(f, p) ==
    /\ Len(p) <= MaxDepth
    /\ \A a \in Ancestors(p) : a \notin DOMAIN f \/ f[a] = Dir

WithDirs(f, ps) == [q \in DOMAIN f \cup ps |-> IF q \in DOMAIN f THEN f[q] ELSE Dir]

\* createFolder(path): "created", "exists" (409) or "failed" (other status)
CreateFolderResult(f, p) ==
    IF IsDirAt(f, p) THEN "exists"
    ELSE IF p \notin DOMAIN f /\ CanCreateAt(f, p) THEN "created"
    ELSE "failed"

CreateFolderEffect(f, p) ==
    IF CreateFolderResult(f, p) = "created" THEN WithDirs(f, Ancestors(p) \cup {p}) ELSE f

\* uploadFile(path, blob): stores the blob as a file at path
UploadEffect(f, p, blob) ==
    IF CanCreateAt(f, p) /\ ~IsDirAt(f, p)
    THEN [q \in DOMAIN WithDirs(f, Ancestors(p)) \cup {p} |->
            IF q = p THEN blob ELSE WithDirs(f, Ancestors(p))[q]]
    ELSE f

\* deleteItem(path, recursive): a directory with entries needs recursive
DeleteEffect(f, p, recursive) ==
    IF p \notin DOMAIN f \/ (~recursive /\ ChildrenOf(f, p) # {}) THEN f
    ELSE LET gone == {q \in DOMAIN f : Under(q, p)} \ {Root}
         IN [q \in DOMAIN f \ gone |-> f[q]]

\* getRawContent(path): the body of GET path, whatever its status
ReadBody(f, p) == IF p \in DOMAIN f /\ f[p] \in Content THEN f[p] ELSE ErrBody

\* a mutating call answered with an error status leaves fs as it was
Faulty(kind) == kind \in RemoteFaults

FilerTypeOK ==
    /\ Root \in DOMAIN fs /\ fs[Root] = Dir
    /\ DOMAIN fs \subseteq Paths
    /\ \A p \in DOMAIN fs : fs[p] \in {Dir} \cup Content \cup {ErrBody}
=============================================================================
