-------------------------- MODULE MCLocalVariables --------------------------
(***************************************************************************)
(* An instance of LocalVariables: a frame whose pointer has a member with  *)
(* a member, one that hides its own variable by another of the same name   *)
(* and has one that gdb makes no object for, and one without variables.    *)
(***************************************************************************)
EXTENDS LocalVariables

MCFrames == {"main", "inner", "bare"}
MCLocals == [main |-> <<"p", "x">>, inner |-> <<"p", "bad", "p">>, bare |-> <<>>]
MCPaths == {<<"x">>, <<"p">>, <<"p", "m">>, <<"p", "m", "n">>}
MCCreatable == {"p", "x"}
=============================================================================
