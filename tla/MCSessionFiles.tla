--------------------------- MODULE MCSessionFiles ---------------------------
(* SessionFiles with the names and the breakpoint its cfg lists.           *)
EXTENDS SessionFiles
=============================================================================
