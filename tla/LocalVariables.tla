--------------------------- MODULE LocalVariables ---------------------------
(***************************************************************************)
(* The variable objects of the selected frame, in three places: gdb's own, *)
(* _localVariableList, and the tree of the panel, which creates and asks   *)
(* for the children.  Objects are numbered by a counter that is never      *)
(* reset, the list outlives the gdb it was made in, and the panel          *)
(* remembers by its path what was expanded.  A stop and a frame selection  *)
(* replace the list, and gdb keeps an object for each variable it had,     *)
(* for only the members are deleted; most other changes only clear the     *)
(* panel.  A command is one step (MiCommand); the message box of a signal  *)
(* is left to DebugSession.                                                *)
(***************************************************************************)
EXTENDS Naturals, Sequences, FiniteSets, SequencesExt

CONSTANTS
  Frames,     \* the frames the program can stop in or the user selects
  Locals,     \* the variables -stack-list-variables lists in each of them
  Paths,      \* the variables, and their members as paths from them
  Creatable,  \* the variables -var-create makes an object for
  MaxIds,     \* bound on the objects made
  MaxEvents   \* bound on the events queued

ASSUME VariablesAssumption ==
  /\ \A p \in Paths : /\ p \in Seq(STRING) /\ p # <<>>
                      /\ \A k \in 1..Len(p) : SubSeq(p, 1, k) \in Paths
  /\ \A f \in Frames : Locals[f] \in Seq(STRING)
  /\ \A v \in Creatable : <<v>> \in Paths
  /\ MaxIds \in Nat /\ MaxEvents \in Nat

VARIABLES
  prog,     \* the program as gdb has it
  frame,    \* gdb's selected frame, if the program is stopped or dumped
  objects,  \* gdb's variable objects
  target,   \* _targetState: "stopped" or not
  stack,    \* does the stack panel show frames?
  list,     \* _localVariableList
  next,     \* _varWatchLastId
  opened,   \* the paths _displayInfoMap has as expanded
  rows,     \* the rows of the panel
  events,   \* queued for the GUI thread
  hung      \* is the GUI thread left in writeCommandBlock?

gdbVars   == <<prog, frame, objects>>
panelVars == <<list, next, opened, rows>>
vars      == <<gdbVars, target, stack, panelVars, events, hung>>

Programs == {"none", "loaded", "running", "stopped", "core", "exited", "dead"}
Events   == {"running", "hit", "signal", "exit", "terminated", "ended"}

\* A variable object "L<id>", or that of a member of it
Object == [id : Nat, path : Paths]
Entry  == [id : Nat, name : Creatable]
Row    == [id : Nat, path : Paths, open : BOOLEAN]

TypeOK ==
  /\ prog \in Programs /\ frame \in Frames
  /\ objects \subseteq Object
  /\ target \in {"stopped", "other"} /\ stack \in BOOLEAN
  /\ list \subseteq Entry
  /\ next \in Nat
  /\ opened \subseteq Paths
  /\ rows \subseteq Row
  /\ events \in Seq(Events)
  /\ hung \in BOOLEAN

Init ==
  /\ prog = "none" /\ frame \in Frames /\ objects = {}
  /\ target = "other" /\ stack = FALSE
  /\ list = {} /\ next = 0 /\ opened = {} /\ rows = {}
  /\ events = <<>> /\ hung = FALSE

Alive == prog \notin {"none", "dead"}
HasFrame == prog \in {"stopped", "core"}
-----------------------------------------------------------------------------
(* The tree.                                                               *)

Ids(entries) == {e.id : e \in entries}
Root(entry) == [id |-> entry.id, path |-> <<entry.name>>]
HasChildren(path) == \E p \in Paths : Len(p) = Len(path) + 1 /\ IsPrefix(path, p)

\* The row of an object and those under it, the rows of the expanded paths
\* expanded: setTreeItemValues expands a row and onExpand appends its children.
Under(object, expanded) ==
  {[id |-> object.id, path |-> p, open |-> p \in expanded /\ HasChildren(p)] :
     p \in {q \in Paths : /\ IsPrefix(object.path, q)
                          /\ \A k \in Len(object.path)..(Len(q) - 1) :
                               SubSeq(q, 1, k) \in expanded}}

\* What -var-list-children has made once these rows are shown
Objects(shown) == {[id |-> r.id, path |-> r.path] : r \in shown}

\* refillVariables, gdb having the objects of before
Refill(entries, expanded, before) ==
  LET shown == UNION {Under(Root(e), expanded) : e \in entries}
  IN /\ rows' = shown
     /\ objects' = before \union Objects(shown)

\* Mutant: the counter does not count.
CreatedUncounted(f) ==
  {[id |-> next, name |-> Locals[f][i]] :
     i \in {j \in DOMAIN Locals[f] : Locals[f][j] \in Creatable}}

\* The objects -var-create makes of the variables of frame f: a number is
\* used up by each, also by those gdb refuses.
Created(f) ==
  {[id |-> next + i - 1, name |-> Locals[f][i]] :
     i \in {j \in DOMAIN Locals[f] : Locals[f][j] \in Creatable}}

\* gdbVarDelete, by default with "-c": of the objects numbered ids, those of
\* the members are deleted and those of the variables stay.
IsMember(object) == Len(object.path) > 1
Childless(ids) == {o \in objects : o.id \in ids => ~ IsMember(o)}

\* Mutant: the list is not cleared.
FillUncleared(entries, kept) ==
  /\ list' = list \union entries
  /\ IF entries = {} THEN objects' = kept /\ UNCHANGED rows
                     ELSE Refill(entries, opened, kept)
  /\ UNCHANGED <<opened, hung>>

\* updateLocalVariables, kept being gdb's objects after the deletions: the
\* panel is told only if there are variables.
Fill(entries, kept) ==
  /\ list' = entries
  /\ IF entries = {} THEN objects' = kept /\ UNCHANGED rows
                     ELSE Refill(entries, opened, kept)
  /\ UNCHANGED <<opened, hung>>

Hang == hung' = TRUE /\ UNCHANGED <<objects, panelVars>>

\* Mutant: the list is emptied and gdb's objects are not deleted.
UpdateLocalVariablesKept ==
  IF ~ Alive THEN Hang
  ELSE IF HasFrame
    THEN Fill(Created(frame), objects) /\ next' = next + Len(Locals[frame])
    ELSE Fill({}, objects) /\ UNCHANGED next

\* updateLocalVariables: delete what is under the objects of the list, as far
\* as gdb has them, and make those of the selected frame, if there is one.
UpdateLocalVariables ==
  IF ~ Alive THEN Hang
  ELSE IF HasFrame
    THEN Fill(Created(frame), Childless(Ids(list))) /\ next' = next + Len(Locals[frame])
    ELSE Fill({}, Childless(Ids(list))) /\ UNCHANGED next

ClearWidget == rows' = {} /\ UNCHANGED <<list, next, opened>>
-----------------------------------------------------------------------------
(* The user.                                                               *)

UserActs == ~ hung
MayMake  == next < MaxIds
MayQueue == Len(events) < MaxEvents

\* startGdbProcess notifies CONNECTED, which clears the panels; the list is
\* that of the session before, which may still be open.  A remote process is
\* attached to, and stopped.
OpenSession ==
  /\ UserActs
  /\ events = <<>>
  /\ \/ prog' = "loaded" /\ UNCHANGED <<frame, events>>
     \/ MayMake /\ prog' = "stopped" /\ frame' \in Frames /\ events' = <<"hit">>
  /\ target' = "other" /\ stack' = FALSE
  /\ ClearWidget
  /\ objects' = {}
  /\ UNCHANGED hung

\* initCoredumpSession: the objects are made, then FINISHED clears the panel.
OpenCore ==
  /\ UserActs /\ MayMake
  /\ events = <<>>
  /\ prog' = "core" /\ frame' \in Frames
  /\ target' = "other" /\ stack' = FALSE
  /\ list' = Created(frame')
  /\ next' = next + Len(Locals[frame'])
  /\ objects' = Objects(UNION {Under(Root(e), opened) : e \in list'})
  /\ rows' = {}
  /\ UNCHANGED <<opened, events, hung>>

\* closeSession: DISCONNECTED clears the panels; what gdb wrote and nobody
\* read is lost.
CloseSession ==
  /\ UserActs
  /\ prog # "none"
  /\ prog' = "none" /\ objects' = {}
  /\ target' = "other" /\ stack' = FALSE
  /\ ClearWidget
  /\ \E k \in 0..Len(events) : events' = Append(SubSeq(events, 1, k), "terminated")
  /\ UNCHANGED <<frame, hung>>

\* gdbRun
Run ==
  /\ UserActs /\ MayQueue
  /\ prog = "loaded"
  /\ prog' = "running" /\ events' = Append(events, "running")
  /\ target' = "other" /\ stack' = FALSE
  /\ ClearWidget
  /\ UNCHANGED <<frame, objects, hung>>

\* gdbNext and the others, with a program that is stopped
Execute ==
  /\ UserActs /\ MayQueue
  /\ target = "stopped" /\ prog = "stopped"
  /\ prog' = "running" /\ events' = Append(events, "running")
  /\ UNCHANGED <<frame, objects, target, stack, panelVars, hung>>

\* gdbSelectFrame, from a row of the stack panel.  _currentFrameIdx is never
\* set, so every frame is another one; gdb refuses while the program runs.
SelectFrame(f) ==
  /\ UserActs /\ MayMake
  /\ stack
  /\ IF HasFrame
       THEN /\ frame' = f
            /\ Fill(Created(f), Childless(Ids(list)))
            /\ next' = next + Len(Locals[f])
       ELSE UpdateLocalVariables /\ UNCHANGED frame
  /\ UNCHANGED <<prog, target, stack, events>>

\* onExpand.  The children of an object gdb does not have are an error, and none.
Expand(row) ==
  /\ UserActs
  /\ ~ row.open /\ HasChildren(row.path)
  /\ opened' = opened \union {row.path}
  /\ IF Alive
       THEN LET object == [id |-> row.id, path |-> row.path]
                shown  == IF object \in objects THEN Under(object, opened')
                                                ELSE {[row EXCEPT !.open = TRUE]}
            IN /\ rows' = (rows \ {row}) \union shown
               /\ objects' = IF object \in objects THEN objects \union Objects(shown) ELSE objects
               /\ UNCHANGED hung
       ELSE hung' = TRUE /\ UNCHANGED <<rows, objects>>
  /\ UNCHANGED <<prog, frame, target, stack, list, next, events>>

\* Mutant: the panel is not filled again.
CollapseQuietly(row) ==
  /\ UserActs
  /\ row.open
  /\ opened' = opened \ {row.path}
  /\ objects' = IF row.id \in Ids(list) /\ Len(row.path) = 1 THEN Childless({row.id}) ELSE objects
  /\ rows' = (rows \ {row}) \union {[row EXCEPT !.open = FALSE]}
  /\ UNCHANGED <<prog, frame, target, stack, list, next, events, hung>>

\* onCollapse.  Only a variable itself is found in the list: the members of a
\* member stay in gdb.  The panel is filled again from the list.
Collapse(row) ==
  /\ UserActs
  /\ row.open
  /\ opened' = opened \ {row.path}
  /\ LET found == row.id \in Ids(list) /\ Len(row.path) = 1
     IN IF Alive
          THEN /\ Refill(list, opened', IF found THEN Childless({row.id}) ELSE objects)
               /\ UNCHANGED hung
          ELSE /\ hung' = (found \/ \E e \in list : <<e.name>> \in opened')
               /\ rows' = IF hung' THEN rows ELSE UNION {Under(Root(e), opened') : e \in list}
               /\ UNCHANGED objects
  /\ UNCHANGED <<prog, frame, target, stack, list, next, events>>
-----------------------------------------------------------------------------
(* The event loop: handleAsyncRecord, OnGdbProcessEnd, onDebuggerStopped.  *)

Take(event) ==
  /\ ~ hung
  /\ events # <<>> /\ Head(events) = event
  /\ UNCHANGED <<prog, frame>>

\* Mutant: RUNNING leaves the panel as it is.
HandleRunningKept ==
  /\ Take("running")
  /\ events' = Tail(events)
  /\ target' = "other" /\ stack' = FALSE
  /\ UNCHANGED <<objects, panelVars, hung>>

\* *running, or the exit of the program: RUNNING and FINISHED clear the panels.
HandleRunning ==
  /\ Take("running") \/ Take("exit")
  /\ events' = Tail(events)
  /\ target' = "other" /\ stack' = FALSE
  /\ ClearWidget
  /\ UNCHANGED <<objects, hung>>

\* handleStopped: the stack is shown, then the variables are asked for.
HandleStop ==
  /\ Take("hit")
  /\ events' = Tail(events)
  /\ target' = "stopped" /\ stack' = (IF Alive THEN HasFrame ELSE stack)
  /\ UpdateLocalVariables

\* onGdbSignalReceived shows the stack, not the variables.
HandleSignal ==
  /\ Take("signal")
  /\ events' = Tail(events)
  /\ target' = "stopped" /\ stack' = (IF Alive THEN HasFrame ELSE stack)
  /\ IF Alive THEN UNCHANGED <<objects, panelVars, hung>> ELSE Hang

HandleTerminated ==
  /\ Take("terminated")
  /\ events' = Append(Tail(events), "ended")
  /\ target' = "stopped"
  /\ UNCHANGED <<objects, stack, panelVars, hung>>

HandleEnded ==
  /\ Take("ended")
  /\ events' = Tail(events)
  /\ stack' = FALSE
  /\ ClearWidget
  /\ UNCHANGED <<objects, target, hung>>
-----------------------------------------------------------------------------
(* gdb and the program.                                                    *)

\* A signal may also have ended the program: then gdb has no frame.
Stop ==
  /\ prog = "running"
  /\ MayQueue /\ MayMake
  /\ \/ prog' = "stopped" /\ frame' \in Frames /\ \E e \in {"hit", "signal"} : events' = Append(events, e)
     \/ prog' = "exited" /\ \E e \in {"exit", "signal"} : events' = Append(events, e) /\ UNCHANGED frame
  /\ UNCHANGED <<objects, target, stack, panelVars, hung>>

Die ==
  /\ Alive
  /\ prog' = "dead" /\ objects' = {}
  /\ UNCHANGED <<frame, target, stack, panelVars, events, hung>>
-----------------------------------------------------------------------------
User ==
  \/ OpenSession \/ OpenCore \/ CloseSession \/ Run \/ Execute
  \/ \E f \in Frames : SelectFrame(f)
  \/ \E row \in rows : Expand(row) \/ Collapse(row)

HandleEvent == HandleRunning \/ HandleStop \/ HandleSignal \/ HandleTerminated \/ HandleEnded

Next == User \/ HandleEvent \/ Stop \/ Die

Spec == Init /\ [][Next]_vars
-----------------------------------------------------------------------------
\* gdb's members are deleted by the list (updateLocalVariables, gdbVarDelete):
\* one whose variable is not in it, so that nobody will, was left before, or
\* is of a row that is shown while the list is empty, as the rows of a frame
\* before one without variables are (onExpand).
NoMemberLeft ==
  [][\A o \in objects' :
       IsMember(o) /\ o.id \notin Ids(list') =>
         \/ o \in objects /\ o.id \notin Ids(list)
         \/ list = {} /\ list' = {}]_vars

\* A number means one variable, here and in gdb, which keeps the objects of
\* all stops, and whatever session the list and the rows are of
\* (getNextWatchId, getVarWatchObjForItem).
OneMeaning ==
  /\ \A e1, e2 \in list : e1.id = e2.id => e1 = e2
  /\ \A e \in list, o \in objects : e.id = o.id => o.path[1] = e.name
  /\ \A e \in list, r \in rows : e.id = r.id => r.path[1] = e.name

\* The list is the open session's or an earlier one's, never some of each.
ListOfOneGdb ==
  LET live == {e \in list : Root(e) \in objects} IN live \in {{}, list}

\* When all events are handled, the panel of a stopped program shows the
\* variables of the selected frame or nothing, unless that frame has none:
\* updateLocalVariables tells the panel only if there are some.
Showable(f) == {Locals[f][i] : i \in DOMAIN Locals[f]} \intersect Creatable
ShowsSelectedFrame ==
  prog = "stopped" /\ target = "stopped" /\ events = <<>> /\ ~ hung =>
    \/ {r.path[1] : r \in rows} \in {{}, Showable(frame)}
    \/ Showable(frame) = {}

\* The members shown of a variable in the list are members gdb has:
\* collapsing one row deletes objects of others only together with their rows
\* (onCollapse).  Rows left from before a frame without variables are not in
\* the list, and gdb has lost their members.
MembersLive ==
  \A r \in rows :
    r.id \in Ids(list) /\ [id |-> r.id, path |-> SubSeq(r.path, 1, 1)] \in objects
      => [id |-> r.id, path |-> r.path] \in objects
=============================================================================
