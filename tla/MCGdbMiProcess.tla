--------------------------- MODULE MCGdbMiProcess ---------------------------
(***************************************************************************)
(* TLC instances of GdbMiProcess: two gdbs one after the other, and lines  *)
(* that read() may cut in two or three places.                             *)
(***************************************************************************)
EXTENDS GdbMiProcess
=============================================================================
