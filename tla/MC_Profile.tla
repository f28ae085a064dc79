----------------------------- MODULE MC_Profile -----------------------------
EXTENDS Profile

MCBPaths == {"/a", "/b"}

\* the lists without a repeated path another tab can show and write
MCTabLists == {<<>>, <<"/a">>, <<"/b">>, <<"/a", "/b">>, <<"/b", "/a">>}
=============================================================================
