---------------------------- MODULE DebugSession ----------------------------
(***************************************************************************)
(* GdbMgr's idea of the debugged program (_targetState), the menu and the  *)
(* stack panel MainFrame derives from it, and the program itself as gdb    *)
(* has it.  The two sides are joined by two queues: the lines the reader   *)
(* thread has not read yet and the events it has queued for the GUI        *)
(* thread.  Commands are synchronous (see MiCommand): one that gdb cannot  *)
(* answer keeps the GUI thread inside writeCommandBlock for ever, written  *)
(* here gui = "blocked".  One gdb at a time; GdbMiProcess has the rest.    *)
(***************************************************************************)
EXTENDS Naturals, Sequences

CONSTANTS
  SessionTypes,    \* the kinds of session the user opens
  MaxSessions,     \* bound on the sessions opened
  MaxRecords,      \* bound on the records gdb emits of its own accord
  RunMayFail,      \* may gdb refuse to run the program?
  GdbMayDie        \* may gdb end by itself?

ASSUME SessionAssumption ==
  /\ SessionTypes \subseteq {"exe", "core", "remote", "attach"}
  /\ MaxSessions \in Nat /\ MaxRecords \in Nat
  /\ {RunMayFail, GdbMayDie} \subseteq BOOLEAN

VARIABLES
  target,   \* _targetState
  valid,    \* _sessionInfo._isValid
  type,     \* _sessionInfo._sessionType of the session opened last
  menu,     \* the enabled menu items; STEP is NEXT, STEP_IN, STEP_OUT, CONTINUE
  stack,    \* does the stack panel show frames?
  gui,      \* "idle" (in an event loop) or "blocked" (in writeCommandBlock)
  modal,    \* the message boxes open, each with an event loop of its own
  pending,  \* events queued for the GUI thread
  wire,     \* asynchronous records written by gdb and not read
  gdb,      \* the gdb process and its program
  opened, emitted,
  hasty     \* history: was a session opened with events still queued?

guiVars == <<target, valid, type, menu, stack, gui, modal>>
vars    == <<guiVars, pending, wire, gdb, opened, emitted, hasty>>

States  == {"DISCONNECTED", "CONNECTED", "SPECIFIED", "RUNNING", "STOPPED", "FINISHED"}
Items   == {"RUN", "STEP", "INTERRUPT", "CLOSE"}
\* "hit" is every *stopped shown at once (a breakpoint, the end of a step, a
\* SIGINT, no reason at all), "signal" one that opens a message box,
\* "bare" one with nothing after the class.
Records == {"running", "hit", "signal", "exit", "bare", "breakpoint", "other"}
Events  == Records \union {"terminated", "ended"}
Programs == {"loaded", "refused", "core", "connected", "running", "stopped", "exited", "killed"}

TypeOK ==
  /\ target \in States
  /\ valid \in BOOLEAN /\ stack \in BOOLEAN /\ hasty \in BOOLEAN
  /\ type \in {"none", "exe", "core", "remote", "attach"}
  /\ menu \subseteq Items
  /\ gui \in {"idle", "blocked"}
  /\ modal \in Nat /\ opened \in Nat /\ emitted \in Nat
  /\ pending \in Seq(Events)
  /\ wire \in Seq(Records)
  /\ gdb \in Programs \union {"none", "dead"}

Answers == gdb \notin {"none", "dead"}

Init ==
  /\ target = "DISCONNECTED" /\ valid = FALSE /\ type = "none"
  /\ menu = {} /\ stack = FALSE /\ gui = "idle" /\ modal = 0
  /\ pending = <<>> /\ wire = <<>> /\ gdb = "none"
  /\ opened = 0 /\ emitted = 0 /\ hasty = FALSE
-----------------------------------------------------------------------------
(* MainFrame.onGdbStateChanged: the menu and the panels follow the state.  *)

MenuFor(s) ==
  CASE s = "SPECIFIED" -> {"RUN"}
    [] s = "STOPPED"   -> {"STEP"}
    [] s = "RUNNING"   -> {"INTERRUPT"}
    [] OTHER           -> {}

ClearsPanels(s) == s \notin {"SPECIFIED", "STOPPED"}

\* notifyStateChanged(s), the stack panel showing frames if shown says so
NotifyStateChanged(s, shown) ==
  /\ menu' = MenuFor(s) \union (menu \intersect {"CLOSE"})
  /\ stack' = (shown /\ ~ ClearsPanels(s))

\* The GUI thread is left waiting for an answer that will not come.
Block == /\ gui' = "blocked"
         /\ UNCHANGED <<menu, stack>>

\* gdbGetStackFrames and the other commands of a handler, then the notification
ShowStop(s) ==
  IF Answers THEN NotifyStateChanged(s, gdb = "stopped") /\ UNCHANGED gui
             ELSE Block
-----------------------------------------------------------------------------
(* The user.                                                               *)

UserActs == gui = "idle" /\ modal = 0

StateOpened == [exe |-> "SPECIFIED", core |-> "FINISHED", remote |-> "CONNECTED"]

MayOpen(t) ==
  /\ UserActs
  /\ opened < MaxSessions
  /\ gdb = "none"
  /\ opened' = opened + 1
  /\ hasty' = (hasty \/ pending # <<>>)
  /\ type' = t
  /\ UNCHANGED <<modal, pending, emitted>>

\* openSession: after initXxxSession the RUN item is enabled whatever the
\* state.  Attaching to a remote process makes gdb report a stop.
OpenSession(t) ==
  /\ MayOpen(t)
  /\ t # "attach"
  /\ target' = StateOpened[t] /\ valid' = TRUE
  /\ menu' = {"RUN", "CLOSE"} /\ stack' = FALSE
  /\ \/ t = "exe"    /\ gdb' = "loaded" /\ wire' = <<>>
     \/ t = "core"   /\ gdb' = "core" /\ wire' = <<>>
     \/ t = "remote" /\ gdb' = "connected" /\ wire' = <<>>
     \/ t = "remote" /\ gdb' = "stopped" /\ wire' = <<"hit">>
  /\ UNCHANGED gui

\* initAttachPidSession starts no gdb; gdbGetFiles then asks for the files.
OpenAttach ==
  /\ MayOpen("attach")
  /\ Block
  /\ UNCHANGED <<target, valid, wire, gdb>>

\* What -exec-run does: gdb may refuse, which gdbRun does not look at.
Run(w) ==
  /\ target' = "RUNNING"
  /\ \/ gdb' = "running" /\ wire' = Append(w, "running")
     \/ RunMayFail /\ gdb' = "refused" /\ wire' = w

\* runSession: openSession, then gdbRun (without effect unless SPECIFIED)
RunSession ==
  /\ MayOpen("exe")
  /\ Run(<<>>)
  /\ valid' = TRUE
  /\ menu' = {"INTERRUPT", "CLOSE"} /\ stack' = FALSE
  /\ UNCHANGED gui

\* Mutant: gdbRun does not look at the state.
ControlRunUntested ==
  /\ UserActs
  /\ "RUN" \in menu
  /\ IF Answers
       THEN Run(wire) /\ NotifyStateChanged("RUNNING", FALSE) /\ UNCHANGED gui
       ELSE Block /\ UNCHANGED <<target, wire, gdb>>
  /\ UNCHANGED <<valid, type, modal, pending, opened, emitted, hasty>>

\* gdbRun
ControlRun ==
  /\ UserActs
  /\ "RUN" \in menu /\ target = "SPECIFIED"
  /\ IF Answers
       THEN Run(wire) /\ NotifyStateChanged("RUNNING", FALSE) /\ UNCHANGED gui
       ELSE Block /\ UNCHANGED <<target, wire, gdb>>
  /\ UNCHANGED <<valid, type, modal, pending, opened, emitted, hasty>>

\* gdbNext, gdbStepIn, gdbStepOut, gdbContinue and gdbJump.  The last is
\* also in the context menu of the text, which is never disabled.  gdb
\* refuses unless the program is stopped.
Execute ==
  /\ UserActs
  /\ target = "STOPPED"
  /\ IF Answers THEN UNCHANGED <<gui, menu, stack>> ELSE Block
  /\ IF gdb = "stopped" THEN gdb' = "running" /\ wire' = Append(wire, "running")
                        ELSE UNCHANGED <<gdb, wire>>
  /\ UNCHANGED <<target, valid, type, modal, pending, opened, emitted, hasty>>

\* gdbStop: the program stops with SIGINT, if it still runs
Interrupt ==
  /\ UserActs
  /\ "INTERRUPT" \in menu /\ target = "RUNNING"
  /\ IF Answers THEN UNCHANGED <<gui, menu, stack>> ELSE Block
  /\ IF gdb = "running" THEN gdb' = "stopped" /\ wire' = Append(wire, "hit")
                        ELSE UNCHANGED <<gdb, wire>>
  /\ UNCHANGED <<target, valid, type, modal, pending, opened, emitted, hasty>>

\* A command that leaves this state alone: SetBreakpoint and its siblings
\* test the state first, EnableAllBreakpoints and DisableAllBreakpoints do not.
BreakpointCommand(tested) ==
  /\ UserActs
  /\ tested => target \in {"STOPPED", "SPECIFIED"}
  /\ IF Answers THEN UNCHANGED <<gui, menu, stack>> ELSE Block
  /\ UNCHANGED <<target, valid, type, modal, pending, wire, gdb, opened, emitted, hasty>>

\* Mutant: the session information is not cleared.
CloseSessionStillValid ==
  /\ UserActs
  /\ valid
  /\ gdb' = "none" /\ wire' = <<>>
  /\ pending' = Append(pending, "terminated")
  /\ target' = "DISCONNECTED"
  /\ menu' = {} /\ stack' = FALSE
  /\ UNCHANGED <<valid, type, gui, modal, opened, emitted, hasty>>

\* closeSession, terminateSession, terminate: what gdb wrote and the reader
\* has not read is lost, what is queued stays queued.
CloseSession ==
  /\ UserActs
  /\ valid
  /\ gdb' = "none" /\ wire' = <<>>
  /\ pending' = Append(pending, "terminated")
  /\ valid' = FALSE
  /\ target' = "DISCONNECTED"
  /\ menu' = {} /\ stack' = FALSE
  /\ UNCHANGED <<type, gui, modal, opened, emitted, hasty>>

\* The message box of onGdbSignalReceived returns and the handler goes on.
DismissBox ==
  /\ gui = "idle" /\ modal > 0
  /\ modal' = modal - 1
  /\ IF target \in {"STOPPED", "SPECIFIED"}
       THEN ShowStop(target)
       ELSE NotifyStateChanged(target, stack) /\ UNCHANGED gui
  /\ UNCHANGED <<target, valid, type, pending, wire, gdb, opened, emitted, hasty>>
-----------------------------------------------------------------------------
(* The event loop, the outer one or a message box's: handleAsyncRecord and *)
(* OnGdbProcessEnd.                                                        *)

Take(event) ==
  /\ gui = "idle"
  /\ pending # <<>> /\ Head(pending) = event
  /\ UNCHANGED <<valid, type, wire, gdb, opened, emitted, hasty>>

\* Mutant: the change is not notified.
HandleRunningSilently ==
  /\ Take("running")
  /\ target' = "RUNNING"
  /\ pending' = Tail(pending)
  /\ UNCHANGED <<menu, stack, gui, modal>>

HandleRunning ==
  /\ Take("running")
  /\ target' = "RUNNING"
  /\ NotifyStateChanged("RUNNING", FALSE)
  /\ pending' = Tail(pending)
  /\ UNCHANGED <<gui, modal>>

HandleExit ==
  /\ Take("exit")
  /\ target' = "FINISHED"
  /\ NotifyStateChanged("FINISHED", FALSE)
  /\ pending' = Tail(pending)
  /\ UNCHANGED <<gui, modal>>

\* Mutant: neither shown nor notified.
HandleStopSilently ==
  /\ Take("hit")
  /\ target' = "STOPPED"
  /\ pending' = Tail(pending)
  /\ UNCHANGED <<menu, stack, gui, modal>>

HandleStop ==
  /\ Take("hit")
  /\ target' = "STOPPED"
  /\ ShowStop("STOPPED")
  /\ pending' = Tail(pending)
  /\ UNCHANGED modal

\* wxMessageBox: the rest of the handler is DismissBox.
HandleSignal ==
  /\ Take("signal")
  /\ target' = "STOPPED"
  /\ modal' = modal + 1
  /\ pending' = Tail(pending)
  /\ UNCHANGED <<menu, stack, gui>>

HandleBare ==
  /\ Take("bare")
  /\ pending' = Tail(pending)
  /\ UNCHANGED <<target, menu, stack, gui, modal>>

\* UpdateBreakpointList asks gdb for the breakpoints.
HandleBreakpoint ==
  /\ Take("breakpoint")
  /\ IF Answers THEN NotifyStateChanged(target, stack) /\ UNCHANGED gui ELSE Block
  /\ pending' = Tail(pending)
  /\ UNCHANGED <<target, modal>>

HandleOther ==
  /\ Take("other")
  /\ NotifyStateChanged(target, stack)
  /\ pending' = Tail(pending)
  /\ UNCHANGED <<target, gui, modal>>

\* OnGdbProcessEnd changes the state and notifies nobody.
HandleTerminated ==
  /\ Take("terminated")
  /\ target' = "STOPPED"
  /\ pending' = Append(Tail(pending), "ended")
  /\ UNCHANGED <<menu, stack, gui, modal>>

\* onDebuggerStopped
HandleEnded ==
  /\ Take("ended")
  /\ stack' = FALSE
  /\ pending' = Tail(pending)
  /\ UNCHANGED <<target, menu, gui, modal>>
-----------------------------------------------------------------------------
(* The reader thread and gdb.                                              *)

\* Mutant: a record overtakes those queued.
DeliverFirst ==
  /\ wire # <<>>
  /\ pending' = <<Head(wire)>> \o pending
  /\ wire' = Tail(wire)
  /\ UNCHANGED <<guiVars, gdb, opened, emitted, hasty>>

\* handleMiOutput: AddPendingEvent
Deliver ==
  /\ wire # <<>>
  /\ pending' = Append(pending, Head(wire))
  /\ wire' = Tail(wire)
  /\ UNCHANGED <<guiVars, gdb, opened, emitted, hasty>>

Emit(record) ==
  /\ emitted < MaxRecords
  /\ emitted' = emitted + 1
  /\ wire' = Append(wire, record)
  /\ UNCHANGED <<guiVars, pending, opened, hasty>>

Stop(record) == gdb = "running" /\ Emit(record) /\ gdb' = "stopped"
Exit         == gdb = "running" /\ Emit("exit") /\ gdb' = "exited"
\* reason "exited-signalled", which parseReasonString takes for a signal
Killed       == gdb = "running" /\ Emit("signal") /\ gdb' = "killed"
Chatter(record) == Answers /\ Emit(record) /\ UNCHANGED gdb

Die ==
  /\ GdbMayDie
  /\ Answers
  /\ gdb' = "dead"
  /\ UNCHANGED <<guiVars, pending, wire, opened, emitted, hasty>>
-----------------------------------------------------------------------------
User ==
  \/ \E t \in SessionTypes \ {"attach"} : OpenSession(t)
  \/ "attach" \in SessionTypes /\ OpenAttach
  \/ "exe" \in SessionTypes /\ RunSession
  \/ ControlRun \/ Execute \/ Interrupt \/ CloseSession \/ DismissBox
  \/ \E tested \in BOOLEAN : BreakpointCommand(tested)

HandleEvent ==
  \/ HandleRunning \/ HandleExit \/ HandleStop \/ HandleSignal \/ HandleBare
  \/ HandleBreakpoint \/ HandleOther \/ HandleTerminated \/ HandleEnded

Gdb ==
  \/ \E record \in {"hit", "signal"} : Stop(record)
  \/ Exit \/ Killed \/ Die
  \/ \E record \in {"bare", "breakpoint", "other"} : Chatter(record)

Next == User \/ HandleEvent \/ Deliver \/ Gdb

Spec == Init /\ [][Next]_vars

\* The reader thread and the event loop run; the user and gdb need not act.
FairSpec == Spec /\ WF_vars(Deliver) /\ WF_vars(HandleEvent)
-----------------------------------------------------------------------------
(* What the GUI believes and what is.                                      *)

\* The state a record puts _targetState into, of those that do
Effect == [running |-> "RUNNING", hit |-> "STOPPED", signal |-> "STOPPED",
           exit |-> "FINISHED", terminated |-> "STOPPED"]
Changes(event) == event \in DOMAIN Effect

\* Once all of queue has been handled, state s has become state t.
LeadsTo(queue, s, t) ==
  \/ \E i \in 1..Len(queue) :
       /\ Changes(queue[i]) /\ Effect[queue[i]] = t
       /\ \A j \in 1..Len(queue) : i < j => ~ Changes(queue[j])
  \/ s = t /\ \A i \in 1..Len(queue) : ~ Changes(queue[i])

\* How the GUI should see the program, a refused run set apart
Seen == [loaded |-> "SPECIFIED", core |-> "FINISHED", connected |-> "CONNECTED",
         running |-> "RUNNING", stopped |-> "STOPPED", killed |-> "STOPPED",
         exited |-> "FINISHED"]

\* The inductive companion of CaughtUp: no session is open while the end of
\* an earlier one is still to be handled.
NoStaleEnd ==
  ~ hasty /\ valid => \A i \in 1..Len(pending) : pending[i] \notin {"terminated", "ended"}

\* However far _targetState lags behind, the records under way lead it to
\* what the program is: no command, forced assignment (gdbRun) or order of
\* handling makes the two part for good, as long as no session was opened
\* with events of an earlier one still queued.
CaughtUp ==
  ~ hasty /\ valid /\ gdb \in DOMAIN Seen => LeadsTo(pending \o wire, target, Seen[gdb])

\* Between two events the menu offers what the state allows; openSession's
\* unconditional RUN survives in the sessions that cannot be run.
MenuMatches ==
  valid /\ gui = "idle" /\ modal = 0 =>
    \/ menu = MenuFor(target) \union {"CLOSE"}
    \/ type # "exe" /\ menu = MenuFor(target) \union {"RUN", "CLOSE"}

\* The stack panel shows frames while the program is stopped, once nothing
\* is under way, and none in the states without frames.
StackMatches ==
  valid /\ gui = "idle" /\ modal = 0 =>
    /\ target \notin {"SPECIFIED", "STOPPED"} => ~ stack
    /\ gdb = "stopped" /\ pending \o wire = <<>> => stack

\* What the user sees, and may choose, is the state the GUI thread knows.
ViewMatches == ~ hasty => MenuMatches /\ StackMatches

\* The GUI thread hangs only for want of a gdb: never while a session is
\* open and its gdb lives.
NoHangInSession == gui = "blocked" => gdb = "dead" \/ (~ valid /\ gdb = "none")

\* Nothing makes a session's finished program run again: gdbRun asks for
\* SPECIFIED, and no record or command left over from its life changes that.
FinishedIsFinal ==
  [][target = "FINISHED" /\ valid /\ valid' /\ ~ hasty => target' = "FINISHED"]_vars

\* A stop is shown: the step items come on, or its message box, unless the
\* program goes on, the session ends or the GUI thread hangs.
StopIsShown ==
  gdb = "stopped" ~> \/ target = "STOPPED" /\ ("STEP" \in menu \/ modal > 0)
                     \/ gdb # "stopped" \/ gui = "blocked" \/ hasty
=============================================================================
