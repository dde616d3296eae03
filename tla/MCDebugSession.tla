--------------------------- MODULE MCDebugSession ---------------------------
(* Bounded instances of DebugSession.                                      *)
EXTENDS DebugSession

AllTypes == {"exe", "core", "remote", "attach"}
=============================================================================
