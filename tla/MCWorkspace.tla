---------------------------- MODULE MCWorkspace -----------------------------
(***************************************************************************)
(* Two programs' source files, a system header, a file listed twice and    *)
(* one that is gone among them; two sessions, one with a capital.          *)
(***************************************************************************)
EXTENDS Workspace

Source(full, relative, exists, name) ==
  [full |-> full, relative |-> relative, exists |-> exists, name |-> name]

TwoAnswers ==
  {<<Source("/p/Ab", TRUE, TRUE, <<"A", "b">>), Source("/usr/b", FALSE, TRUE, <<"b">>),
     Source("/p/gone", TRUE, FALSE, <<"a">>), Source("/p/Ab", TRUE, TRUE, <<"A", "b">>)>>,
   <<Source("/q/b", TRUE, TRUE, <<"b">>), Source("/q/ab", TRUE, TRUE, <<"a", "b">>)>>}

TwoSessions == <<[name |-> <<"a">>], [name |-> <<"A", "b">>]>>
SomeTexts   == {<<>>, <<"A">>}
Letters     == [A |-> "a"]
SomeCrosses == {"sessions", "breakpoints", "left", "files"}
=============================================================================
