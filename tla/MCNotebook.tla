----------------------------- MODULE MCNotebook -----------------------------
(***************************************************************************)
(* An instance of Notebook: two files, one of which gdb names by a path    *)
(* that is not normal, and a breakpoint in each.                           *)
(***************************************************************************)
EXTENDS Notebook

MCFiles == {"/a", "/b"}
MCNames == {"/a", "/x/../b"}
MCNormal == [n \in MCNames |-> IF n = "/a" THEN "/a" ELSE "/b"]
MCPlaces == {<<"/a", 1>>, <<"/x/../b", 2>>}
=============================================================================
