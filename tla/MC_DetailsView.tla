---------------------------- MODULE MC_DetailsView ----------------------------
(* A folder holding a file beside a file at the root, both folders reachable. *)
EXTENDS DetailsView

MCNames == {"a", "f", "g"}
MCContent == {"c1", "c2"}

\* "/", "/a", "/a/f" and "/g"
MCInitFs == (<<>> :> Dir) @@ (<<"a">> :> Dir) @@ (<<"a", "f">> :> "c1") @@ (<<"g">> :> "c2")

MCLocations == {<<>>, <<"a">>}
=============================================================================
