--------------------------- MODULE MC_FileManager ---------------------------
(* A filer with one folder holding one file, both places reachable.        *)
EXTENDS FileManager

MCNames == {"a", "f"}
MCContent == {"c1"}

\* "/", "/a" and "/a/f"
MCInitFs == (<<>> :> Dir) @@ (<<"a">> :> Dir) @@ (<<"a", "f">> :> "c1")

MCLocations == {<<>>, <<"a">>}
=============================================================================
