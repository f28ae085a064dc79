------------------------------ MODULE PathUtil ------------------------------
(***************************************************************************)
(* The path strings of the client: getName and getFullPath (file.ts), the *)
(* path updateLocation keeps (LocationContextWrapper.tsx), and the          *)
(* destinations copyFile and copyDirectory compute (filer.ts).  A string    *)
(* is a sequence of one-character strings.  Every path ends up in           *)
(* fetch(connectionString + path), whose URL parser removes "." and ".."    *)
(* segments; the filer is taken not to tell an empty segment from none.    *)
(* Each is checked against Resolve, the reference meaning of a path typed   *)
(* relative to the current folder, over every input up to a length.        *)
(***************************************************************************)
EXTENDS Naturals, Sequences, SequencesExt

CONSTANTS
    Chars,    \* the characters of the strings checked
    MaxLen    \* the longest typed string checked

VARIABLES
    typed,    \* a string the user types (path bar, file name, subfolder)
    loc,      \* currentLocation, or a destination folder
    src       \* the FullPath of an entry the filer listed

vars == <<typed, loc, src>>

Slash == <<"/">>

Strings(n) == UNION {[1..k -> Chars] : k \in 0..n}

StartsWith(s, p) == IsPrefix(p, s)

EndsWith(s, c) == s # <<>> /\ Last(s) = c

\* JS lastIndexOf('/') + 1: the 1-based position of the last slash, 0 if none
LastSlash(s) == SelectLastInSeq(s, LAMBDA c : c = "/")

\* JS s.slice(0, lastIndexOf('/')): slice(0, -1) drops the last character
BeforeLastSlash(s) ==
    IF LastSlash(s) = 0 THEN SubSeq(s, 1, Len(s) - 1) ELSE SubSeq(s, 1, LastSlash(s) - 1)

\* JS split('/')
Split(s) ==
    FoldLeft(LAMBDA acc, c : IF c = "/" THEN Append(acc, <<>>)
                             ELSE [acc EXCEPT ![Len(acc)] = Append(@, c)],
             <<<<>>>>, s)

Dot == <<".">>
DotDot == <<".", ".">>

(***************************************************************************)
(* The code.                                                               *)
(***************************************************************************)
\* mutant: the name keeps the slash before it
GetNameWithSlash(path) == SubSeq(path, Max({LastSlash(path), 1}), Len(path))

\* getName(path): the text after the last slash
GetName(path) == SubSeq(path, LastSlash(path) + 1, Len(path))

\* getFullPath(fileName, currentLocation)
GetFullPath(f, cur) ==
    CASE StartsWith(f, Slash) -> f
      [] StartsWith(f, <<".", ".", "/">>) ->
             BeforeLastSlash(cur) \o ReplaceFirstSubSeq(Slash, <<".", ".", "/">>, f)
      [] StartsWith(f, <<".", "/">>) -> cur \o ReplaceFirstSubSeq(Slash, <<".", "/">>, f)
      [] OTHER -> (IF EndsWith(cur, "/") THEN cur ELSE cur \o Slash) \o f

\* updateLocation(newLocation): the path it stores and lists
LocationPath(newLocation) ==
    IF StartsWith(newLocation, Slash) THEN newLocation ELSE Slash \o newLocation

\* copyFile(srcPath, destDir): the path uploaded to
CopyFileDest(srcPath, destDir) ==
    GetFullPath(GetName(srcPath), IF EndsWith(destDir, "/") THEN destDir ELSE destDir \o Slash)

\* copyDirectory(srcPath, destDir): the folder created
CopyDirectoryDest(srcPath, destDir) ==
    LET normalizedSrc == IF EndsWith(srcPath, "/") THEN Front(srcPath) ELSE srcPath
        normalizedDest == IF EndsWith(destDir, "/") THEN destDir ELSE destDir \o Slash
    IN normalizedDest \o GetName(normalizedSrc) \o Slash

(***************************************************************************)
(* What the filer sees, and the reference.                                 *)
(***************************************************************************)
\* the URL parser on an absolute path: "." segments go, ".." removes the
\* segment before it (an empty one too); the empty segments are then dropped
UrlSegments(path) ==
    LET step(out, seg) == CASE seg = Dot -> out
                            [] seg = DotDot -> IF out = <<>> THEN out ELSE Front(out)
                            [] OTHER -> Append(out, seg)
    IN SelectSeq(FoldLeft(step, <<>>, Tail(Split(path))), LAMBDA seg : seg # <<>>)

\* the folder a path names when typed in folder cur: the segments of cur,
\* then those of the path, where "" and "." stay and ".." goes up
Resolve(cur, path) ==
    LET step(out, seg) == CASE seg \in {<<>>, Dot} -> out
                            [] seg = DotDot -> IF out = <<>> THEN out ELSE Front(out)
                            [] OTHER -> Append(out, seg)
    IN FoldLeft(step, IF StartsWith(path, Slash) THEN <<>> ELSE UrlSegments(cur),
                Split(path))

\* the FullPath of an entry: "/" then names, none of them "", "." or ".."
IsEntryPath(p) ==
    /\ StartsWith(p, Slash) /\ p # Slash
    /\ \A i \in 2..Len(Split(p)) : Split(p)[i] \notin {<<>>, Dot, DotDot}

\* a currentLocation: "/" then names, the path bar may leave a trailing "/"
IsLocation(p) ==
    /\ StartsWith(p, Slash)
    /\ \A i \in 2..Len(Split(p)) - 1 : Split(p)[i] # <<>>

\* a string is typed, the text-file name is required to be non-empty
Init ==
    /\ typed \in Strings(MaxLen) \ {<<>>}
    /\ loc \in {p \in {Slash \o s : s \in Strings(MaxLen - 1)} : IsLocation(p)}
    /\ src \in {p \in {Slash \o s : s \in Strings(MaxLen - 1)} : IsEntryPath(p)}

\* the inputs are fixed; each state is one case checked
Next == UNCHANGED vars

Spec == Init /\ [][Next]_vars

TypeOK ==
    /\ typed \in Seq(Chars) /\ loc \in Seq(Chars) /\ src \in Seq(Chars)

(***************************************************************************)
(* Properties.                                                             *)
(***************************************************************************)

(* copyFile and copyDirectory put the copy of an entry directly in the     *)
(* destination folder, under the entry's name, for every absolute          *)
(* destination typed in the Copy / Move dialog (with or without a trailing *)
(* slash, with "." or ".." segments): getName, the slash normalisation     *)
(* and getFullPath compose to destDir/name once the URL is parsed.  A      *)
(* destination without a leading "/" is passed on as typed                *)
(* (CopyMoveDialog's handleCopy) and is not a path this checks: it is      *)
(* glued to the connection string and forms another URL.                   *)
CopyLandsInDest ==
    LET want == Append(UrlSegments(loc), GetName(src))
    IN /\ UrlSegments(CopyFileDest(src, loc)) = want
       /\ UrlSegments(CopyDirectoryDest(src, loc)) = want

(* A file name or subfolder typed in the text-file and upload dialogs is   *)
(* resolved against the current folder, "./" and "../" included, as the   *)
(* branches of getFullPath intend.  getFullPath takes the parent of a     *)
(* location ending in "/" to be the location itself.                       *)
FullPathResolves ==
    UrlSegments(GetFullPath(typed, loc)) = Resolve(loc, typed)

(* A path typed in the location bar is resolved against the current       *)
(* folder (spec 6: the path bar accepts absolute, ./ or ../-relative      *)
(* input).  updateLocation only puts a slash in front, so "./x" and       *)
(* "../x" are taken from the root.                                         *)
LocationBarResolves ==
    UrlSegments(LocationPath(typed)) = Resolve(loc, typed)
=============================================================================
