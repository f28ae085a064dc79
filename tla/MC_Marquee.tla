----------------------------- MODULE MC_Marquee -----------------------------
EXTENDS Marquee

\* two card cells on a 5 x 5 grid, with empty area around and between them
MCCell == [c \in {"c1", "c2"} |->
              IF c = "c1" THEN [left |-> 1, top |-> 1, right |-> 2, bottom |-> 2]
                          ELSE [left |-> 3, top |-> 3, right |-> 4, bottom |-> 3]]
=============================================================================
