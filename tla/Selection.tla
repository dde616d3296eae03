------------------------------ MODULE Selection ------------------------------
(***************************************************************************)
(* The loops of the program that go through a list and take some of its    *)
(* entries, in their order.                                                *)
(***************************************************************************)
EXTENDS Naturals, Sequences

\* The entries of s that are in the set
Only(s, set) ==
  LET kept[n \in 0..Len(s)] == IF n = 0 THEN <<>>
                               ELSE IF s[n] \in set THEN Append(kept[n - 1], s[n])
                               ELSE kept[n - 1]
  IN kept[Len(s)]
==============================================================================
