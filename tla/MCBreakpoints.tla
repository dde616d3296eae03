--------------------------- MODULE MCBreakpoints ---------------------------
(***************************************************************************)
(* TLC instances of Breakpoints: a and z are ordinary lines, f a function  *)
(* with two overloads that start there, and gone a line without code.  The *)
(* file of z is never opened.                                              *)
(***************************************************************************)
EXTENDS Breakpoints

CONSTANTS a, z, f, gone, A, B

LandsOn == [s \in {a, z, f} |-> IF s = f THEN <<a, z>> ELSE <<s>>]

\* Ordinary lines are set by clicking on them.
Entered == {<<f, FALSE, FALSE>>, <<gone, FALSE, TRUE>>}

\* The two files hold one breakpoint more together than gdb has at most.
FewSaved == file[A].count + file[B].count <= MaxNumber + 1

Symmetry == Permutations(Files)
=============================================================================
