---------------------------- MODULE MCMiCommand ----------------------------
(***************************************************************************)
(* TLC instances of MiCommand.  Three commands make every result meet the  *)
(* call before and the call after its own; two records of each kind can be *)
(* before, between and behind the results.                                 *)
(***************************************************************************)
EXTENDS MiCommand
=============================================================================
