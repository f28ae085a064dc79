----------------------------- MODULE MC_CardMenu -----------------------------
EXTENDS CardMenu

\* "/" holds the folder "/a" and the files "/f", "/h"; "/a" holds the file "/a/g"
MCEntries == {"/a", "/f", "/h", "/a/g"}
MCParent == [e \in MCEntries |-> IF e = "/a/g" THEN "/a" ELSE "/"]
MCIsFile == [e \in MCEntries |-> e # "/a"]
=============================================================================
