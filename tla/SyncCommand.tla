---------------------------- MODULE SyncCommand ----------------------------
(***************************************************************************)
(* What the command layer promises to the rest of GdbMgr: a command is a   *)
(* procedure call.  It returns once, with its own result, and while it is  *)
(* in progress the GUI thread handles no asynchronous record.  Records are *)
(* handled in the order gdb emitted them.                                  *)
(***************************************************************************)
EXTENDS Naturals

VARIABLES
  calls,    \* number of commands issued so far
  active,   \* is the last one still in progress?
  answer,   \* number of the command whose result the last return carried
  emitted,  \* number of asynchronous records gdb has emitted
  handled   \* number of the last asynchronous record handled (0 = none)

vars == <<calls, active, answer, emitted, handled>>

Init ==
  /\ calls = 0
  /\ active = FALSE
  /\ answer = 0
  /\ emitted = 0
  /\ handled = 0

Call ==
  /\ ~ active
  /\ calls' = calls + 1
  /\ active' = TRUE
  /\ UNCHANGED <<answer, emitted, handled>>

Return ==
  /\ active
  /\ answer' = calls
  /\ active' = FALSE
  /\ UNCHANGED <<calls, emitted, handled>>

Emit ==
  /\ emitted' = emitted + 1
  /\ UNCHANGED <<calls, active, answer, handled>>

\* Records may be skipped (an unparsable line is dropped), never repeated
\* and never overtaken.
Handle ==
  /\ ~ active
  /\ handled' \in (handled + 1) .. emitted
  /\ UNCHANGED <<calls, active, answer, emitted>>

Next == Call \/ Return \/ Emit \/ Handle

Spec == Init /\ [][Next]_vars
=============================================================================
