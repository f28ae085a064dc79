----------------------------- MODULE MC_Upload ------------------------------
EXTENDS Upload

\* f1 is a plain file; f2 comes from a picked folder, as d/e/f2
MCFileDir == [f \in {"f1", "f2"} |-> IF f = "f2" THEN <<"d", "e">> ELSE <<>>]

\* "/" and "/a"
MCLocations == {<<>>, <<"a">>}
=============================================================================
