---------------------------- MODULE Breakpoints ----------------------------
(***************************************************************************)
(* Breakpoints: those gdb has, the list GdbMgr copies from it with         *)
(* -break-list, the rows of the panel, and the session files they are      *)
(* saved to at every change and loaded from when a session is opened.      *)
(* All three copies may lag behind: gdb changes breakpoints of its own     *)
(* accord (a temporary one that is hit) and tells by a notification, and   *)
(* some commands (loading, jumping) are not followed by a refresh.  A      *)
(* session may be opened over another: its gdb numbers from one, and the   *)
(* list and the panel keep the rows of the gdb before until a refresh.     *)
(* gdb's breakpoints are kept as the rows -break-list reports.             *)
(***************************************************************************)
EXTENDS Naturals, FiniteSets, Sequences, SequencesExt, Selection

CONSTANTS
  Specs,       \* the places the user names: "file:line", or a function
  ByLine,      \* those of the form "file:line"
  Clickable,   \* those of them in the files that are open in a tab
  NoSpec,      \* a place without file and line
  Lands,       \* the lines gdb stops at, for each place it finds
  Main,        \* the place of main
  Forms,       \* what is entered in the dialog: a place, temporary?, enabled?
  Files,       \* the session files
  MaxNumber,   \* bound on the breakpoints gdb makes in a session
  MaxEvents    \* bound on the notifications queued

ASSUME PlacesAssumption ==
  /\ Clickable \subseteq ByLine /\ ByLine \subseteq Specs /\ NoSpec \notin Specs \union Files
  /\ DOMAIN Lands \subseteq Specs /\ Main \in DOMAIN Lands
  /\ \A s \in DOMAIN Lands : /\ Lands[s] \in Seq(ByLine \intersect DOMAIN Lands)
                            /\ Lands[s] # <<>>
                            /\ \A i \in DOMAIN Lands[s] : Lands[s][i] \in Range(Lands[Lands[s][i]])
  /\ Forms \subseteq Specs \X BOOLEAN \X BOOLEAN
  /\ MaxNumber \in Nat /\ MaxEvents \in Nat

VARIABLES
  valid,     \* is a session open?
  path,      \* _sessionInfo._sessionFullPath: kept when a session is closed
  target,    \* _targetState: "specified", "stopped" or "other"
  alive,     \* does gdb answer?
  rows,      \* gdb's breakpoints
  next,      \* the number of gdb's next breakpoint
  list,      \* _breakpointsList
  panel,     \* the rows of the breakpoints panel
  file,      \* the "breakpoints" group of each session file
  events,    \* queued for the GUI thread: "note", "terminated", "ended"
  unseen,    \* has a command changed gdb's breakpoints without a refresh?
  hung,      \* is the GUI thread left in writeCommandBlock?
  carried    \* was the session opened over another, and nothing refreshed since?

sessionVars == <<valid, path, target>>
gdbVars     == <<alive, rows, next>>
copies      == <<list, panel, file, unseen, hung, carried>>
vars        == <<sessionVars, gdbVars, copies, events>>

\* A row of -break-list.  A breakpoint with several locations is an owner
\* (part 0), which has no line of its own, followed by a row for each.
Row == [no : Nat, part : Nat, multi : BOOLEAN, spec : Specs \union {NoSpec},
        line : ByLine \union {NoSpec}, enabled : BOOLEAN, temp : BOOLEAN]
Stored == [loc : Specs \union {NoSpec}, enabled : BOOLEAN, temp : BOOLEAN]

Targets == {"specified", "stopped", "other"}

IsChild(row) == row.multi /\ row.part > 0

TypeOK ==
  /\ valid \in BOOLEAN /\ target \in Targets /\ alive \in BOOLEAN
  /\ unseen \in BOOLEAN /\ hung \in BOOLEAN /\ carried \in BOOLEAN
  /\ path \in Files \union {NoSpec}
  /\ next \in Nat \ {0}
  /\ \A s \in {rows, list, panel} : s \in Seq(Row)
  /\ \A f \in Files : /\ file[f].count \in Nat
                      /\ DOMAIN file[f].bp \subseteq Nat
                      /\ \A i \in DOMAIN file[f].bp : file[f].bp[i] \in Stored
  /\ events \in Seq({"note", "terminated", "ended"})

Init ==
  /\ valid = FALSE /\ path = NoSpec /\ target = "other"
  /\ alive = FALSE /\ rows = <<>> /\ next = 1
  /\ list = <<>> /\ panel = <<>> /\ unseen = FALSE /\ hung = FALSE /\ carried = FALSE
  /\ file = [f \in Files |-> [count |-> 0, bp |-> <<>>]]
  /\ events = <<>>
-----------------------------------------------------------------------------
(* What gdb does with the breakpoint commands.                             *)

\* The rows of a new breakpoint
Made(no, spec, temp, enabled) ==
  LET row == [no |-> no, part |-> 0, multi |-> FALSE, spec |-> spec,
              line |-> Lands[spec][1], enabled |-> enabled, temp |-> temp]
  IN IF Len(Lands[spec]) = 1 THEN <<row>>
     ELSE <<[row EXCEPT !.multi = TRUE, !.line = NoSpec]>>
          \o [p \in DOMAIN Lands[spec] |->
                [row EXCEPT !.part = p, !.multi = TRUE, !.spec = NoSpec,
                            !.line = Lands[spec][p], !.enabled = TRUE, !.temp = FALSE]]

\* gdb after -break-insert, which fails for a place it does not find
Inserted(gdb, spec, temp, enabled) ==
  IF spec \in DOMAIN Lands
    THEN [rows |-> gdb.rows \o Made(gdb.next, spec, temp, enabled), next |-> gdb.next + 1]
    ELSE gdb

Gdb == [rows |-> rows, next |-> next]

Without(no) == Only(rows, {row \in Range(rows) : row.no # no})

\* -break-enable and -break-disable of breakpoints and of single locations
Switched(ids, enabled) ==
  [i \in DOMAIN rows |-> IF <<rows[i].no, rows[i].part>> \in ids
                           THEN [rows[i] EXCEPT !.enabled = enabled]
                           ELSE rows[i]]
-----------------------------------------------------------------------------
(* Saving and loading.                                                     *)

\* A breakpoint with several locations is saved by the place it was asked
\* for, which must have a ':' to be split at.
ToStored(row) ==
  [loc |-> IF ~ row.multi THEN row.line ELSE IF row.spec \in ByLine THEN row.spec ELSE NoSpec,
   enabled |-> row.enabled, temp |-> row.temp]

\* Mutant: the keys number from one what is read from zero.
SavedFromOne(entries) ==
  LET kept == {i \in DOMAIN entries : ~ IsChild(entries[i])}
  IN [count |-> Cardinality(kept), bp |-> [i \in kept |-> ToStored(entries[i])]]

\* saveBreakpoints: the count leaves locations out, the keys number them.
Saved(entries) ==
  LET kept == {i \in DOMAIN entries : ~ IsChild(entries[i])}
  IN [count |-> Cardinality(kept),
      bp |-> [i \in {k - 1 : k \in kept} |-> ToStored(entries[i + 1])]]

\* What loadBreakpoints reads of the i-th breakpoint, a missing one included
Read(group, i) ==
  IF i \in DOMAIN group.bp THEN group.bp[i]
                           ELSE [loc |-> NoSpec, enabled |-> FALSE, temp |-> FALSE]

\* loadBreakpoints, in a gdb without breakpoints
Loaded(group) ==
  LET Insert(gdb, bp) == Inserted(gdb, bp.loc, bp.temp, bp.enabled)
      gdb[n \in 0..group.count] == IF n = 0 THEN [rows |-> <<>>, next |-> 1]
                                   ELSE Insert(gdb[n - 1], Read(group, n - 1))
  IN gdb[group.count]
-----------------------------------------------------------------------------
(* The commands of GdbMgr.                                                 *)

\* A command without an answer, the list as it was left
Hang(left) ==
  hung' = TRUE /\ list' = left /\ UNCHANGED <<gdbVars, panel, file, unseen, carried>>

\* A command that makes gdb's breakpoints those of gdb, then
\* UpdateBreakpointList: the list is read, shown and saved.
Refresh(gdb) ==
  IF alive
    THEN /\ rows' = gdb.rows /\ next' = gdb.next
         /\ list' = gdb.rows /\ panel' = gdb.rows
         /\ file' = [file EXCEPT ![path] = Saved(gdb.rows)]
         /\ unseen' = FALSE /\ carried' = FALSE
         /\ UNCHANGED <<alive, hung>>
    ELSE Hang(list)

\* The commands look at the state alone, which is "stopped" once the end of
\* a session was handled (OnGdbProcessEnd): there is no gdb to answer then.
\* The panel's menu looks at the session.
Edits      == ~ hung /\ target \in {"specified", "stopped"}
PanelEdits == Edits /\ valid

\* SetBreakpoint, of the dialog
SetBreakpoint(spec, temp, enabled) ==
  /\ PanelEdits
  /\ next <= MaxNumber
  /\ Refresh(Inserted(Gdb, spec, temp, enabled))
  /\ UNCHANGED <<sessionVars, events>>

\* The list is searched, not gdb.  A row of a location is found like any
\* other, and gdb refuses to delete it.
ToggleBreakpoint(line) ==
  /\ Edits
  /\ next <= MaxNumber
  /\ LET found == {i \in DOMAIN list : list[i].line = line}
         row   == list[CHOOSE i \in found : \A j \in found : i <= j]
     IN Refresh(IF found = {} THEN Inserted(Gdb, line, FALSE, TRUE)
                ELSE IF row.part = 0 THEN [Gdb EXCEPT !.rows = Without(row.no)]
                ELSE Gdb)
  /\ UNCHANGED <<sessionVars, events>>

\* Mutant: no refresh.
RemoveBreakpointQuietly(row) ==
  /\ PanelEdits
  /\ ~ IsChild(row)
  /\ alive /\ rows' = Without(row.no)
  /\ UNCHANGED <<sessionVars, alive, next, copies, events>>

RemoveBreakpoint(row) ==
  /\ PanelEdits
  /\ ~ IsChild(row)
  /\ Refresh([Gdb EXCEPT !.rows = Without(row.no)])
  /\ UNCHANGED <<sessionVars, events>>

\* "Delete All" is -break-delete without a number: gdb deletes them all.
RemoveAll ==
  /\ PanelEdits
  /\ panel # <<>>
  /\ Refresh([Gdb EXCEPT !.rows = <<>>])
  /\ UNCHANGED <<sessionVars, events>>

\* EnableBreakpoint and DisableBreakpoint, of the selected row: the tree has
\* no multiple selection.
SwitchBreakpoint(row, enabled) ==
  /\ PanelEdits
  /\ Refresh([Gdb EXCEPT !.rows = Switched({<<row.no, row.part>>}, enabled)])
  /\ UNCHANGED <<sessionVars, events>>

\* EnableAllBreakpoints and DisableAllBreakpoints, which test no state
SwitchAll(enabled) ==
  /\ valid /\ ~ hung
  /\ panel # <<>>
  /\ Refresh([Gdb EXCEPT !.rows = Switched({<<r.no, r.part>> : r \in Range(list)}, enabled)])
  /\ UNCHANGED <<sessionVars, events>>

\* gdbJump inserts a temporary breakpoint and does not refresh.
Jump(line) ==
  /\ ~ hung /\ target = "stopped"
  /\ next <= MaxNumber
  /\ IF alive
       THEN /\ LET gdb == Inserted(Gdb, line, TRUE, TRUE)
               IN rows' = gdb.rows /\ next' = gdb.next
            /\ unseen' = TRUE
            /\ UNCHANGED <<alive, list, panel, file, hung, carried>>
       ELSE Hang(list)
  /\ UNCHANGED <<sessionVars, events>>
-----------------------------------------------------------------------------
(* Sessions and events.                                                    *)

\* initExeSession and initRemoteSession, which do not ask for a session that
\* is open: its gdb is left alone, its list and panel stay.  wx empties its
\* event queue before it looks at the next click.
OpenSession(f) ==
  /\ ~ hung
  /\ events = <<>>
  /\ valid' = TRUE /\ path' = f /\ alive' = TRUE
  /\ target' \in Targets
  /\ rows' = Loaded(file[f]).rows /\ next' = Loaded(file[f]).next
  /\ unseen' = TRUE /\ carried' = valid
  /\ UNCHANGED <<list, panel, file, hung, events>>

\* closeSession: the notifications the reader has not read are lost.
CloseSession ==
  /\ valid /\ ~ hung
  /\ valid' = FALSE /\ target' = "other"
  /\ alive' = FALSE /\ rows' = <<>> /\ next' = 1
  /\ unseen' = FALSE /\ carried' = FALSE
  /\ \E k \in 0..Len(events) : events' = Append(SubSeq(events, 1, k), "terminated")
  /\ UNCHANGED <<path, list, panel, file, hung>>

Take(event) == ~ hung /\ events # <<>> /\ Head(events) = event

\* Mutant: a -break-list that gdb does not answer is an empty list.
HandleNoteUnanswered ==
  /\ Take("note")
  /\ events' = Tail(events)
  /\ list' = rows /\ panel' = rows
  /\ file' = [file EXCEPT ![path] = Saved(rows)]
  /\ unseen' = FALSE /\ carried' = FALSE
  /\ UNCHANGED <<sessionVars, gdbVars, hung>>

\* A =breakpoint- record: UpdateBreakpointList, session or no session.  It
\* empties the list before it asks.
HandleNote ==
  /\ Take("note")
  /\ events' = Tail(events)
  /\ IF alive THEN Refresh(Gdb) ELSE Hang(<<>>)
  /\ UNCHANGED sessionVars

\* Mutant: the list is kept until the next session's first refresh.
HandleTerminatedKept ==
  /\ Take("terminated")
  /\ events' = Append(Tail(events), "ended")
  /\ target' = "stopped"
  /\ UNCHANGED <<valid, path, gdbVars, copies>>

\* OnGdbProcessEnd forgets the list ...
HandleTerminated ==
  /\ Take("terminated")
  /\ events' = Append(Tail(events), "ended")
  /\ target' = "stopped" /\ list' = <<>>
  /\ UNCHANGED <<valid, path, gdbVars, panel, file, unseen, hung, carried>>

\* Mutant: the panel is left as it is.
HandleEndedKept ==
  /\ Take("ended")
  /\ events' = Tail(events)
  /\ UNCHANGED <<sessionVars, gdbVars, copies>>

\* ... and onDebuggerStopped clears the panel.
HandleEnded ==
  /\ Take("ended")
  /\ events' = Tail(events)
  /\ panel' = <<>>
  /\ UNCHANGED <<sessionVars, gdbVars, list, file, unseen, hung, carried>>

\* openFile shows the list again and does not save it.
OpenFile ==
  /\ ~ hung
  /\ panel' = list
  /\ UNCHANGED <<sessionVars, gdbVars, list, file, unseen, hung, carried, events>>

\* *running, *stopped or the end of the program is handled, after
\* closeSession too if it was queued before.
ProgramMoves ==
  /\ ~ hung /\ (valid \/ "terminated" \in Range(events))
  /\ target' \in {"stopped", "other"} \ {target}
  /\ UNCHANGED <<valid, path, gdbVars, copies, events>>
-----------------------------------------------------------------------------
(* gdb on its own.                                                         *)

Notify == events' = Append(events, "note")
MayNotify == alive /\ Len(events) < MaxEvents

\* A temporary breakpoint is hit.
HitTemporary ==
  /\ MayNotify
  /\ \E row \in Range(rows) : row.temp /\ rows' = Without(row.no)
  /\ Notify
  /\ UNCHANGED <<sessionVars, alive, next, copies>>

\* Other notifications: a count, an address
Modify ==
  /\ MayNotify
  /\ rows # <<>>
  /\ Notify
  /\ UNCHANGED <<sessionVars, gdbVars, copies>>

\* gdbRun: -exec-run --start makes a temporary breakpoint at main.
StartAtMain ==
  /\ ~ hung /\ target = "specified"
  /\ target' = "other"
  /\ MayNotify
  /\ next <= MaxNumber
  /\ LET gdb == Inserted(Gdb, Main, TRUE, TRUE) IN rows' = gdb.rows /\ next' = gdb.next
  /\ Notify
  /\ UNCHANGED <<valid, path, alive, copies>>

Die ==
  /\ alive
  /\ alive' = FALSE
  /\ UNCHANGED <<sessionVars, rows, next, copies, events>>
-----------------------------------------------------------------------------
User ==
  \/ \E form \in Forms : SetBreakpoint(form[1], form[2], form[3])
  \/ \E line \in Clickable : ToggleBreakpoint(line) \/ Jump(line)
  \/ \E row \in Range(panel) : \/ RemoveBreakpoint(row)
                              \/ \E enabled \in BOOLEAN : SwitchBreakpoint(row, enabled)
  \/ RemoveAll
  \/ \E enabled \in BOOLEAN : SwitchAll(enabled)
  \/ \E f \in Files : OpenSession(f)
  \/ CloseSession \/ OpenFile

Next ==
  \/ User \/ ProgramMoves
  \/ HandleNote \/ HandleTerminated \/ HandleEnded
  \/ StartAtMain \/ HitTemporary \/ Modify \/ Die

Spec == Init /\ [][Next]_vars
-----------------------------------------------------------------------------
Seen == valid /\ alive /\ ~ unseen /\ events = <<>>

\* The list and the panel are what gdb has, unless a notification is under
\* way or the last command that changed it was one that does not refresh
\* (UpdateBreakpointList, GdbMgr.cpp:438).
ListFresh == Seen => list = rows /\ panel = rows

\* What is saved, opened again, gives back every breakpoint up to the first
\* with several locations, with its flags: saveBreakpoints numbers what it
\* writes so that loadBreakpoints finds that much, and no more is sure.
Whole(group) ==
  LET kept == Only(Loaded(group).rows, {row \in Row : ~ IsChild(row)})
  IN [i \in DOMAIN kept |-> ToStored(kept[i])]
BeforeMulti(entries) ==
  LET multi == {i \in DOMAIN entries : entries[i].multi}
  IN IF multi = {} THEN entries
     ELSE SubSeq(entries, 1, (CHOOSE i \in multi : \A j \in multi : i <= j) - 1)
SavedSurvives ==
  Seen => LET sure == BeforeMulti(rows)
          IN IsPrefix([i \in DOMAIN sure |-> ToStored(sure[i])], Whole(file[path]))

\* A row of the panel never names another breakpoint than the one it shows,
\* however stale it is: removing and enabling go by number (getBreakpoint,
\* onRemoveBreakpoint), numbers start again in every session.  Until the
\* first refresh of a session opened over another the rows are those of the
\* gdb before and do name others (initExeSession).
ShownIsNamed ==
  \A shown \in Range(panel), row \in Range(rows) :
    valid /\ ~ carried /\ shown.no = row.no /\ shown.part = row.part
      => shown.spec = row.spec /\ shown.line = row.line

\* A session file changes only while its session is open and its gdb
\* answers, though its path outlives the session (GdbSessionInfo::clear) and
\* notifications come after it (handleAsyncRecord).
FilesKept ==
  [][\A f \in Files : file'[f] # file[f] => valid /\ alive /\ path = f]_vars

\* The panel and the session files mirror gdb's list: both change as a whole,
\* to what gdb has at that moment (UpdateBreakpointList), until what is shown
\* is forgotten as a whole, before another session begins, once the session
\* is closed (OnGdbProcessEnd).  Opened over, it is kept.
Mirror == INSTANCE MirroredList
            WITH Entries <- Row, NoFile <- NoSpec, Write <- Saved, Load <- LAMBDA group : Loaded(group).rows,
                 open <- IF valid THEN path ELSE NoSpec, source <- rows, shown <- panel,
                 saved <- file, fresh <- Seen
MirrorSpec == Mirror!Spec
=============================================================================
