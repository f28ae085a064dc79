----------------------------- MODULE MC_Download -----------------------------
EXTENDS Download

\* "/" holds the files "/a", "/b" and the folder "/d"
MCInitFs == (<<>> :> Dir) @@ (<<"a">> :> "c1") @@ (<<"b">> :> "c2") @@ (<<"d">> :> Dir)

MCEntry(n) == [path |-> <<n>>, isFile |-> n # "d"]

\* the two files, one of them, or one file with the folder
MCSelections == {{MCEntry("a"), MCEntry("b")}, {MCEntry("a")}, {MCEntry("b"), MCEntry("d")},
                 {MCEntry("a"), MCEntry("b"), MCEntry("d")}}
=============================================================================
