---------------------------- MODULE MirroredList ----------------------------
(***************************************************************************)
(* What GdbMgr and its panel promise about a list that is kept elsewhere,  *)
(* in gdb, while a session is open: it is shown and saved as it was read,  *)
(* as a whole; it is known to be as shown until it changes unasked or      *)
(* falls silent; and no session begins with the entries of one that was    *)
(* closed.  One that is opened over another begins with the other's.       *)
(***************************************************************************)
EXTENDS Sequences

CONSTANTS
  Entries,    \* what the list is made of
  NoFile,     \* no session is open
  Write(_),   \* what is saved of a list
  Load(_)     \* the list made from what was saved

VARIABLES
  open,   \* the file of the open session, or NoFile
  source, \* the list
  shown,  \* what the user sees of it
  saved,  \* what each file has of it
  fresh   \* is what is shown and saved sure to be the list?

vars == <<open, source, shown, saved, fresh>>

Init ==
  /\ open = NoFile /\ source = <<>> /\ shown = <<>> /\ fresh = FALSE
  /\ \A f \in DOMAIN saved : saved[f] = Write(<<>>)

Begin(f) ==
  /\ open = NoFile => shown = <<>>
  /\ open' = f /\ source' = Load(saved[f])
  /\ fresh' = FALSE
  /\ UNCHANGED <<shown, saved>>

\* The list changes, or may have, or may not be asked for any more.
Change ==
  /\ open # NoFile
  /\ source' \in Seq(Entries)
  /\ fresh' = FALSE
  /\ UNCHANGED <<open, shown, saved>>

\* The list, changed first or not, is read: all of it is shown and saved.
\* More changes may be on their way.
Show ==
  /\ open # NoFile
  /\ source' \in Seq(Entries)
  /\ shown' = source' /\ saved' = [saved EXCEPT ![open] = Write(source')]
  /\ fresh' \in BOOLEAN
  /\ UNCHANGED open

End ==
  /\ open # NoFile
  /\ open' = NoFile /\ source' = <<>> /\ fresh' = FALSE
  /\ UNCHANGED <<shown, saved>>

\* What is shown outlives the session, then goes as a whole.
Forget ==
  /\ open = NoFile
  /\ shown' = <<>>
  /\ UNCHANGED <<open, source, saved, fresh>>

Next == (\E f \in DOMAIN saved : Begin(f)) \/ Change \/ Show \/ End \/ Forget

Spec == Init /\ [][Next]_vars

\* What is fresh is the list, on the screen and in the file.
Kept ==
  /\ open \in DOMAIN saved \union {NoFile}
  /\ fresh => open # NoFile /\ shown = source /\ saved[open] = Write(source)
=============================================================================
