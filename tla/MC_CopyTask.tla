---------------------------- MODULE MC_CopyTask ----------------------------
(* copyDirectory("/a", "/b") on a filer holding /a/f, /a/e and an empty /b. *)
EXTENDS CopyTask

MCNames == {"a", "b", "e", "f"}
MCContent == {"c1", "c0"}

\* "c0" is an empty file: the filer lists it without "chunks"
MCNoChunks == {"c0"}

\* "/" , "/a", "/a/f" (a file with chunks), "/a/e" (content "c0"), "/b"
MCInitFs == (<<>> :> Dir) @@ (<<"a">> :> Dir) @@ (<<"a", "f">> :> "c1")
            @@ (<<"a", "e">> :> "c0") @@ (<<"b">> :> Dir)
MCSrc == <<"a">>
MCDestDir == <<"b">>
=============================================================================
