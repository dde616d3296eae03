------------------------------ MODULE Notebook ------------------------------
(***************************************************************************)
(* The source tabs.  A tab has the normalised path of its file; files are  *)
(* looked up by the names gdb gives, which need not be normal.  Marks show *)
(* the breakpoints of the list, one arrow per tab the line gone to last.   *)
(* Handlers are steps, what they ask gdb for is answered (DebugSession has *)
(* the rest), and sessions are opened when the queue is empty.             *)
(***************************************************************************)
EXTENDS Naturals, Sequences, FiniteSets, SequencesExt

CONSTANTS
  Files,      \* paths that are normal
  Names,      \* full names in gdb's answers
  Normal,     \* wxFileName::Normalize: the path of each name
  LastLine,   \* lines of each file
  Places,     \* <<name, line>> where breakpoints may be
  MaxFilesOpened,
  MaxEvents   \* bound on the events queued

ASSUME NotebookAssumption ==
  /\ Files \subseteq STRING \ {""} /\ Names \subseteq STRING \ {""}
  /\ Normal \in [Names -> Files]
  /\ \A n \in Names : n \in Files => Normal[n] = n
  /\ LastLine \in Nat \ {0}
  /\ Places \subseteq Names \X (1..LastLine)
  /\ MaxFilesOpened \in Nat /\ MaxEvents \in Nat

VARIABLES
  prog,      \* the program as gdb has it, "killed" if a signal ended it;
             \* "none" if no session is open
  tabs,      \* the pages of the notebook
  selected,  \* the page selected, 0 if there is none
  listed,    \* _breakpointsList, as places
  sources,   \* does the source files panel list any?
  current,   \* m_currentFile and m_currentLine
  events,    \* the events the GUI thread has not handled
  crashed,   \* has the program used the null page?
  view       \* history: what put the arrows where they are

vars == <<prog, tabs, selected, listed, sources, current, events, crashed, view>>

Lines  == 1..LastLine
NoLine == 0
NoFile == ""
Tab    == [path : Files, marks : SUBSET Lines, arrow : Lines \union {NoLine}]
Stop   == [kind : {"stop"}, file : Names \union {NoFile}, line : Lines]
Event  == Stop \union [kind : {"signal", "exit", "terminated", "ended"}]

TypeOK ==
  /\ prog \in {"none", "loaded", "running", "stopped", "exited", "killed"}
  /\ tabs \in Seq(Tab)
  /\ selected \in 0..Len(tabs) /\ (selected = 0 <=> tabs = <<>>)
  /\ listed \subseteq Places
  /\ current \in [file : Names \union {NoFile}, line : Lines \union {NoLine}]
  /\ events \in Seq(Event)
  /\ sources \in BOOLEAN /\ crashed \in BOOLEAN /\ view \in {"clear", "stop", "user"}

Init ==
  /\ prog = "none"
  /\ tabs = <<>> /\ selected = 0
  /\ listed = {} /\ sources = FALSE
  /\ current = [file |-> NoFile, line |-> NoLine]
  /\ events = <<>>
  /\ crashed = FALSE /\ view = "clear"
-----------------------------------------------------------------------------
(* The pages.                                                              *)

\* MainFrame::updateBreakpointsInCodeview
LinesIn(path, places) == {line \in Lines : <<path, line>> \in places}
Marked(pages, places) ==
  [i \in DOMAIN pages |-> [pages[i] EXCEPT !.marks = LinesIn(pages[i].path, places)]]

\* jaeCppTextDocument::gotoLineAndEnsureVisible; a line the file lacks is not marked
PointAt(page, line) == [page EXCEPT !.arrow = IF line \in Lines THEN line ELSE NoLine]

\* disableCurrentLine: marker 0 is the breakpoints', so the arrows stay.
Disabled(pages) == [i \in DOMAIN pages |-> [pages[i] EXCEPT !.marks = {}]]

\* Mutant: only the marks of the breakpoints are deleted.
BareOfMarks(pages) == [i \in DOMAIN pages |-> [pages[i] EXCEPT !.marks = {}]]

\* deleteAllMarkers, in every page
Bare(pages) ==
  [i \in DOMAIN pages |-> [pages[i] EXCEPT !.marks = {}, !.arrow = NoLine]]

\* gotoLine: in the pages whose path is the current file
GotoLine(pages, file, line) ==
  [i \in DOMAIN pages |-> IF pages[i].path = file THEN PointAt(pages[i], line) ELSE pages[i]]

NewPage(name) == [path |-> Normal[name], marks |-> {}, arrow |-> NoLine]

\* Mutant: only the page in view is compared.
ShowingInView(name) == {i \in DOMAIN tabs : i = selected /\ tabs[i].path = name}

\* "Already open?"
Showing(name) == {i \in DOMAIN tabs : tabs[i].path = name}

\* With too many pages, the oldest is looked for in the null page.
Full(name) == Showing(name) = {} /\ Len(tabs) > MaxFilesOpened

PageOf(name) == IF Showing(name) = {} THEN Len(tabs) + 1
                ELSE CHOOSE i \in Showing(name) : \A j \in Showing(name) : j <= i
Opened(name) ==
  Marked(IF Showing(name) = {} THEN Append(tabs, NewPage(name)) ELSE tabs, listed)

\* Mutant: a page that is open is not brought into view.
OpenFileBehind(name, pages) ==
  IF Full(name) THEN crashed' = TRUE /\ UNCHANGED <<tabs, selected>>
  ELSE /\ tabs' = pages
       /\ selected' = IF Showing(name) = {} THEN PageOf(name) ELSE selected
       /\ UNCHANGED crashed

\* openFile(name), which makes the pages Opened(name), and what its caller makes of them
OpenFile(name, pages) ==
  IF Full(name) THEN crashed' = TRUE /\ UNCHANGED <<tabs, selected>>
  ELSE tabs' = pages /\ selected' = PageOf(name) /\ UNCHANGED crashed

\* openFile(name, line)
OpenAt(name, line) ==
  IF name = NoFile THEN UNCHANGED <<tabs, selected, crashed>>
  ELSE OpenFile(name, [Opened(name) EXCEPT ![PageOf(name)] = PointAt(@, line)])
-----------------------------------------------------------------------------
(* The user.                                                               *)

\* The arrows stay, and need not be where the program is.
Moved == view' = IF view = "stop" THEN "user" ELSE view

UserActs == ~ crashed
Valid == prog # "none"

\* openSession, also over an open one: CONNECTED removes the markers; the
\* files are listed.
OpenSession ==
  /\ UserActs
  /\ events = <<>>
  /\ prog' = "loaded"
  /\ tabs' = Bare(tabs)
  /\ sources' = TRUE
  /\ view' = "clear"
  /\ UNCHANGED <<selected, listed, current, events, crashed>>

\* closeSession: DISCONNECTED removes the markers; records still unread are lost.
CloseSession ==
  /\ UserActs
  /\ Valid
  /\ prog' = "none"
  /\ tabs' = Bare(tabs)
  /\ \E k \in 0..Len(events) : events' = Append(SubSeq(events, 1, k), [kind |-> "terminated"])
  /\ view' = "clear"
  /\ UNCHANGED <<selected, listed, sources, current, crashed>>

\* gdbRun and the steps
Resume ==
  /\ UserActs
  /\ prog \in {"loaded", "stopped"}
  /\ prog' = "running"
  /\ UNCHANGED <<tabs, selected, listed, sources, current, events, crashed, view>>

\* gdbContinue, then disableCurrentLine, also if gdb refuses: a program that a
\* signal ended is taken for stopped.
Continue ==
  /\ UserActs
  /\ prog \in {"stopped", "killed"}
  /\ prog' = IF prog = "stopped" THEN "running" ELSE prog
  /\ tabs' = Disabled(tabs)
  /\ UNCHANGED <<selected, listed, sources, current, events, crashed, view>>

\* From the source files panel, which outlives the session
OpenSource(name) ==
  /\ UserActs /\ sources
  /\ OpenFile(name, Opened(name))
  /\ Moved
  /\ UNCHANGED <<prog, listed, sources, current, events>>

\* A breakpoint activated, or its menu's "Go To", which is one line further on
GotoBreakpoint(place) ==
  /\ UserActs
  /\ OpenAt(place[1], place[2]) \/ (Valid /\ OpenAt(place[1], place[2] + 1))
  /\ view' = "user"
  /\ UNCHANGED <<prog, listed, sources, current, events>>

\* gdbSelectFrame, then onGdbStackFrameChanged
SelectFrame(name, line) ==
  /\ UserActs
  /\ prog = "stopped"
  /\ OpenAt(name, line)
  /\ view' = "user"
  /\ UNCHANGED <<prog, listed, sources, current, events>>

\* onGoToLine
GoToLine(line) ==
  /\ UserActs
  /\ Valid
  /\ tabs' = GotoLine(tabs, current.file, line)
  /\ view' = "user"
  /\ UNCHANGED <<prog, selected, listed, sources, current, events, crashed>>

SelectTab(i) ==
  /\ UserActs
  /\ selected' = i
  /\ Moved
  /\ UNCHANGED <<prog, tabs, listed, sources, current, events, crashed>>

CloseTab(i) ==
  /\ UserActs
  /\ tabs' = RemoveAt(tabs, i)
  /\ selected' \in IF Len(tabs) = 1 THEN {0} ELSE 1..(Len(tabs) - 1)
  /\ Moved
  /\ UNCHANGED <<prog, listed, sources, current, events, crashed>>

\* Mutant: only the page selected is updated.
ListBreakpointsInView ==
  /\ UserActs
  /\ Valid
  /\ listed' \in SUBSET Places
  /\ tabs' = [i \in DOMAIN tabs |->
               IF i = selected THEN Marked(tabs, listed')[i] ELSE tabs[i]]
  /\ UNCHANGED <<prog, selected, sources, current, events, crashed, view>>

\* UpdateBreakpointList and onGdbBreakpointsChanged (Breakpoints)
ListBreakpoints ==
  /\ UserActs
  /\ Valid
  /\ listed' \in SUBSET Places
  /\ tabs' = Marked(tabs, listed')
  /\ UNCHANGED <<prog, selected, sources, current, events, crashed, view>>
-----------------------------------------------------------------------------
(* The event loop.                                                         *)

Take(kind) ==
  /\ ~ crashed
  /\ events # <<>> /\ Head(events).kind = kind
  /\ UNCHANGED prog

\* onGdbStopped: updateCurrentLine
HandleStop ==
  /\ Take("stop") /\ events' = Tail(events)
  /\ LET stop == Head(events)
     IN /\ current' = [file |-> stop.file, line |-> stop.line]
        /\ IF stop.file = NoFile
             THEN tabs' = Disabled(tabs) /\ UNCHANGED <<selected, crashed>>
             ELSE OpenFile(stop.file, GotoLine(Opened(stop.file), stop.file, stop.line))
  /\ view' = "stop"
  /\ UNCHANGED <<listed, sources>>

\* onGdbSignalReceived, whether the program was stopped or ended by it
HandleSignal ==
  /\ Take("signal") /\ events' = Tail(events)
  /\ tabs' = Disabled(tabs)
  /\ UNCHANGED <<selected, listed, sources, current, crashed, view>>

\* FINISHED
HandleExit ==
  /\ Take("exit") /\ events' = Tail(events)
  /\ tabs' = Bare(tabs)
  /\ view' = "clear"
  /\ UNCHANGED <<selected, listed, sources, current, crashed>>

\* OnGdbProcessEnd: the list is cleared, and the pages will be closed.
HandleTerminated ==
  /\ Take("terminated") /\ events' = Append(Tail(events), [kind |-> "ended"])
  /\ listed' = {}
  /\ UNCHANGED <<tabs, selected, sources, current, crashed, view>>

\* onDebuggerStopped
HandleEnded ==
  /\ Take("ended") /\ events' = Tail(events)
  /\ tabs' = <<>> /\ selected' = 0
  /\ view' = "clear"
  /\ UNCHANGED <<listed, sources, current, crashed>>
-----------------------------------------------------------------------------
\* The program stops somewhere, or ends; a signal may stop it or end it.
ProgramStops ==
  /\ prog = "running"
  /\ Len(events) < MaxEvents
  /\ \/ \E e \in Stop : prog' = "stopped" /\ events' = Append(events, e)
     \/ prog' \in {"stopped", "killed"} /\ events' = Append(events, [kind |-> "signal"])
     \/ prog' = "exited" /\ events' = Append(events, [kind |-> "exit"])
  /\ UNCHANGED <<tabs, selected, listed, sources, current, crashed, view>>
-----------------------------------------------------------------------------
Next ==
  \/ OpenSession \/ CloseSession \/ Resume \/ Continue \/ ListBreakpoints
  \/ \E name \in Names : OpenSource(name)
  \/ \E place \in listed : GotoBreakpoint(place)
  \/ \E name \in Names \union {NoFile}, line \in Lines : SelectFrame(name, line)
  \/ \E line \in Lines : GoToLine(line)
  \/ \E i \in DOMAIN tabs : SelectTab(i) \/ CloseTab(i)
  \/ HandleStop \/ HandleSignal \/ HandleExit \/ HandleTerminated \/ HandleEnded
  \/ ProgramStops

Spec == Init /\ [][Next]_vars
-----------------------------------------------------------------------------
\* A mark shows a breakpoint of the list, at its line, in every page and
\* whatever was opened, closed or erased since (updateBreakpointsInCodeview),
\* unless gdb has ended and the pages are about to be closed.
Closing == \E i \in DOMAIN events : events[i].kind = "ended"
MarksAreListed ==
  Closing \/ \A i \in DOMAIN tabs : tabs[i].marks \subseteq LinesIn(tabs[i].path, listed)

\* A file is open twice only if gdb has a name for it that is not its path:
\* openFile looks the name up and opens the path.
OpenOnce ==
  \A i, j \in DOMAIN tabs :
    i # j /\ tabs[i].path = tabs[j].path =>
      \E name \in Names : name # tabs[i].path /\ Normal[name] = tabs[i].path

\* The page of a stop stays in view with the arrow at its line, whatever is
\* refreshed, till the user moves, if gdb names the file by its path
\* (updateCurrentLine).
StopInView ==
  view = "stop" /\ ~ crashed /\ current.file \in Files =>
    /\ selected # 0
    /\ tabs[selected].path = current.file /\ tabs[selected].arrow = current.line

\* Between sessions, before the program runs and after it exits, no page has
\* an arrow that the user did not put there, whatever was handled late
\* (deleteAllMarkers).  A program that a signal ended is taken for stopped and
\* the arrow of its last stop stays, till the session is closed.
NoArrowLeft ==
  prog \in {"none", "loaded", "exited"} /\ events = <<>> /\ view # "user" =>
    \A i \in DOMAIN tabs : tabs[i].arrow = NoLine

\* "Close the oldest tab": a file is opened also if many are open.
OldestCloses == ~ crashed
=============================================================================
