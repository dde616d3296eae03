# Verification of Vazhu-Neekuthal, a graphical front end to gdb

The program is a wxWidgets GUI that drives one gdb process through its machine
interface (MI).  This directory holds TLA+ models of its core, the TLC runs that
check them on small instances, and TLAPS proofs of what matters most for every
value of the constants.

## 1. The system

Two threads share one process with the GUI.

* **The GUI thread** runs the wx event loop.  Menu items, panels and dialogs call
  `GdbMgr`, which writes one MI command and *blocks* in `writeCommandBlock` until
  its result is in a one-place mailbox (`_gdbMiOutput`).
* **The reader thread** (`GdbMiProcess::readerThread`) selects on two ptys (the
  program's terminal and gdb's MI channel), assembles lines, parses them and
  calls `GdbMgr::handleMiOutput`: a result goes into the mailbox, an asynchronous
  record (`*running`, `*stopped`, `=breakpoint-...`) into wx's event queue, to be
  handled by the GUI thread when it is back in an event loop.
* **gdb**, a child process, answers commands in order and emits asynchronous
  records whenever it likes, or dies.

| component | state | operations | how it interacts | hard behaviour |
|---|---|---|---|---|
| MI command channel (`GdbMgr.cpp`) | mailbox, condition variable, event queue | write a command, await, read and delete its result, store a result, queue a record | called by every command; called back by the reader thread | two threads, unlocked accesses, no tokens, lost lines |
| gdb process and reader (`GdbMiProcess.cpp`) | descriptors, pid, thread pointer, `_quit`, `_pendingLine` | start, terminate, pump, split | started and joined by the GUI thread | join, reset and restart order; partial reads; gdb dying; a second start |
| Debug session (`GdbMgr.cpp`, `MainFrame_*.cpp`) | `_targetState`, `_sessionInfo`, menu, stack panel | open, run, step, interrupt, close; one handler per record | commands go down, records come up through the queue | a state that lags behind the program, events that outlive the session, nested event loops |
| Breakpoints (`GdbMgr_BreakPoint.cpp`, `ui/BreakPointsPanel.cpp`) | the list, the panel, the session file | set, toggle, remove, enable, list, save, load | every change of the list is shown and saved | failing commands, children of multi-location breakpoints, save paths that outlive the session |
| Local variables (`GdbMgr.cpp`, `ui/LocalVariablesPanel.cpp`) | variable objects here and in gdb, the tree | create at a stop, expand, collapse | refreshed by stops and frame selection | ownership of gdb's objects |
| Session files (`GdbSessionInfo.h`, `ui/SessionPanel.cpp`) | the directory of session files, the tree | new, edit, rename, delete | read by open | stale paths |
| Notebook and markers (`MainFrame.cpp`) | tabs, marker bits | open a file, evict, mark | stops and breakpoint changes | the limit of fifty tabs |
| MI grammar, driver and records (`GdbMi*.l`, `.g`, `GdbMiDriver.cpp`, `GdbMiResp.cpp`) | the parser's stack, the driver's `_output`, the nodes on the heap | parse a line, hand its record over, delete it | the reader thread parses, the GUI thread deletes | escapes, nesting, syntax errors, who owns a node |
| Panels, View menu, search lists (`MainFrame.cpp`, `ui/SourceFilesPanel.cpp`, `ui/SessionOpenDialog.cpp`) | pages and panes, checked items, the lists and the text they are searched for | toggle, display, close by the cross, fill, search, choose | opening and closing sessions displays panels; every event of the debugger uses them | panels displayed twice, closed and still used; lists refilled under a search |
| Key chords (`KeyProcessor.cpp`, dead code) | the chord typed so far | process a key | none: `FilterEvent` returns before it asks | |
| Text control, tree list, other dialogs | none that outlives a call | | | |

What makes each part correct:

* *Command channel*: a command is a procedure call, whatever the two threads do;
  the mailbox is never raced for, no result is lost or leaked, records keep their
  order.
* *Process and reader*: one reader per session, joined before its descriptors are
  closed; whole lines in order; nobody is forgotten when a session ends or gdb
  dies.
* *Debug session*: the GUI's idea of the program catches up with the program, the
  menu and the panels agree with that idea, and the GUI thread does not hang.
* *Breakpoints*: gdb's breakpoints, the list, the panel and the session file agree
  when nothing is under way, and a stale copy never makes a command reach another
  breakpoint or another session's file.
* *Local variables*: a number means one variable, also among the objects that stay in
  gdb at every stop (only their members are deleted); no member's object is left that
  nobody will delete, and the panel shows the selected frame.
* *Session files*: a name finds its own file, what is listed is what is on disk, and
  no command touches a session it is not about.
* *Records*: what gdb printed is what is read, and every node of a record is deleted
  once, on whichever thread.
* *Panels*: the View menu tells what is in view, no panel is used after it was
  destroyed, and a list under a search box shows what was asked for.
* *Notebook*: a file is open once, a tab can always be made, the line of a stop stays
  in view, and the markers are those of the list.

`PROJECT.json` names every part with its sources and status, and every hazard with
its line.

## 2. The modules

| module | models | proved in |
|---|---|---|
| `SyncCommand` | what the command layer promises: a call returns once, with its own result; records are handled in order and never inside a call | |
| `MiCommand` | `writeCommandBlock`, the mailbox, `handleMiOutput`, `deleteResultRecord`, the record queue | `MiCommandProofs` |
| `GdbMiProcess` | `startGdbProcess`, `terminate`, `readerThread`, `pumpData`, `handleData` | `GdbMiProcessProofs` |
| `DebugSession` | `_targetState`, the session, the menu, the stack panel, gdb's program and the two queues between them | `DebugSessionProofs` |
| `MirroredList` | what the breakpoint list promises: panel and file change as a whole, to what gdb has at that moment, and no session begins with the rows of one that was closed | |
| `Breakpoints` | the breakpoint commands, the list, the panel, the session files, notifications | `BreakpointsProofs` |
| `LocalVariables` | gdb's variable objects, `_localVariableList`, the rows of the panel, stops and frame selections | `LocalVariablesProofs` |
| `Notebook` | the source tabs, their breakpoint marks and arrows, `openFile` and all its callers | `NotebookProofs` |
| `SessionFiles` | the files of the sessions, the list of them, and the commands and dialogs that change them | `SessionFilesProofs` |
| `MiOutput` | one line of MI: the scanner's tokens, the grammar, the driver, the record's nodes and who owns them | `GdbMiProcessProofs` |
| `MiPrinted` | lines as gdb prints them: quoted texts, and where in a line each node of a record is | |
| `Selection` | the loops that go through a list and take some of its entries (`Only`), used by the next two, by `Breakpoints` and by `MiOutput` | |
| `SearchList` | a list under a search box, instantiated twice by `Workspace` | |
| `Workspace` | the panels and notebooks around the source tabs, the View menu, the source files panel, the dialog that opens a session | `WorkspaceProofs` |

The `MC...` modules hold only the definitions the configurations need.  A
definition called a *mutant* in its comment is the action or helper before it with
a plausible mistake in it; every property of a passing run has one that breaks it,
so that none of them holds by the shape of the model.

The components are cut where the code has a contract.  `MiCommand` shows that a command is
a procedure call (it implements `SyncCommand`), so the other modules take a command as one
step, together with all that its handler does before it returns.  `GdbMiProcess` shows
that lines arrive whole and in order, so `MiCommand` and `DebugSession` take a line as one
element of a queue.  `DebugSession` shows when the GUI thread is left waiting for a gdb
that is gone; `Breakpoints` and `LocalVariables` keep that outcome (`hung`).  `MiOutput`
shows that a line is read as it was meant, so the other modules take a record, with its
class and fields, for the line.  `Breakpoints` shows that only the open session's file is
saved to, so `SessionFiles` lets only an open session save.

### MiCommand

State: the GUI thread's place in a command (`gui`: idle, written, asleep, reading,
deleting), the mailbox `_gdbMiOutput`, the notification of the condition variable,
the records queued by `AddPendingEvent`, the reader's place and the result in its
hand, and the two directions of the pty.  Commands and records are numbered, which
the code does not do: the numbers are what the properties compare.

A stretch of code that holds `_gdbCmdMutex` throughout is one action
(`AwaitResult`, `WakeUp`, `StoreResult`); what is done without it is an action of
its own (`ReadResult`, `DeleteResult`), and so is what the reader does before it
takes the lock.  gdb answers commands in order, emits records whenever it likes,
and may die (`Die`); a line may be unparsable (`DropLine`).

### GdbMiProcess

State: the object's `_t` (`tPtr`), `miFd`, `_quit` and `_pendingLine`; for every
gdb started its process, its ptys and the program counter of its reader thread, with the
ptys that thread has given to `select()` (`fd`).  `pumpData` and `handleData` are as many
actions as they look at what others change: `select()` (`PumpSelect`), the tests of what is
ready (`PumpMi`, `PumpInferior`), `read()`, which blocks as long as there is nothing to read
(`ReadMi`, `ReadInferior`), and the use of what it returned (`Split`, `Drop`).  Between any
two of them another reader may take the text, or `terminate` close the ptys and
`startGdbProcess` make new ones (`PumpChanged`).
Text is a sequence of parts of lines, so that `read()` may cut it in the middle of
a line, at its end or across several; `Cut` is the loop of `handleData` that cuts what has
arrived into lines and what is kept.  `MaxLines` counts the lines, `Parts` the
parts of each, `MaxTerminal` the writes of the program to its own terminal.  The
history variable `overlapped` says whether a session was ever opened over another,
which no menu prevents; the properties that hold only without it say so.

### DebugSession

State: `_targetState`, the session and its type, the enabled menu items, whether
the stack panel shows frames, the message boxes open (each runs a nested event
loop, so further events are handled inside the handler that opened it), the event
queue, the unread records, and the program as gdb has it.  The constants
`RunMayFail` and `GdbMayDie` name what the environment may do.  A session may be opened
with events of the last one still queued, once that one was closed (gdbs are taken one at a
time here; opening over an open session is the matter of `GdbMiProcess` and of the modules
of the lists and panels below); the history variable `hasty` says whether one
was, and the properties that hold only as long as none was say so.

### Breakpoints

State: gdb's breakpoints as rows of `-break-list` (an owner row and one per
location when there are several), the copies of them in `_breakpointsList`, the
panel and the session files, the session (`valid`, `path`), the part of
`_targetState` the guards look at, and the events queued.  A place is a member of
a small set; `Lands` says on which lines gdb stops for it.  `saveBreakpoints` is
modelled with its two different numberings (the count leaves the locations out,
the keys do not), `loadBreakpoints` with the insertions gdb refuses.  Sessions
are opened with the queue drained: what an undrained queue does is `DebugSession`'s matter.
Nothing asks whether a session is open already, so one may be opened over another.  Its gdb
numbers from 1 while list and panel keep the rows of the gdb before, till a refresh;
`carried` says that this is so.  The dialogs and the panel's menu ask for a session
(`PanelEdits`), the commands themselves only for a state (`Edits`), which after the end of
a session is "stopped" with no gdb to answer.

`Breakpoints` implements `MirroredList`: the abstract list is gdb's, what is shown is the
panel, what is saved the files, the open file is `path` while a session is open, and `fresh`
is `Seen`.  A command that refreshes, or a notification gdb answers for, is one `Show`; a
change gdb makes unasked, a jump and gdb's death are `Change`; opening and closing a session
are `Begin` (over an open session too, whose rows are then still shown) and `End`; emptying
the panel, or showing the emptied list again, is `Forget`;
a notification gdb does not answer changes nothing but `hung`.

### LocalVariables

State: gdb's program, its selected frame and its variable objects; `_targetState` as
far as the guards look at it; `_localVariableList`, the counter of object numbers,
which is never reset, what the panel remembers as expanded (`_displayInfoMap`, by
path) and its rows; the events queued.  `updateLocalVariables` is one operator
(delete what the list has, make an object for each variable of the frame, refill the
panel, which asks gdb for the members of what is remembered as open), used by the
stop handler, by frame selection and by a core session.  `gdbVarDelete` is called without
its second argument, which is then true (`-var-delete -c`): gdb deletes the objects of the
members (`Childless`) and keeps the variable's own, so that `objects` grows at every stop.
Variables are names, members
are paths; a frame may have two variables of one name, and one gdb makes no object for.

### Notebook

State: the pages (path, marks, arrow), the page selected, the breakpoint list as
places, whether source files are listed, `m_currentFile`/`m_currentLine`, and the
events queued.  `Normal` is `wxFileName::Normalize`: `openFile` looks a page up by the
name it is given and opens it under the normalised one.  `view` is a history
variable: what put the arrows where they are.  A signal may stop the program or end it
("killed"): `*stopped,reason="exited-signalled"` has the same handler, so the state is
STOPPED, no marker is deleted, and `Continue` is offered.  The end of gdb is two events, the
first empties the list (`HandleTerminated`), the second closes the pages (`HandleEnded`).

### SessionFiles

State: the files (`name` and kind as `loadFromConfig` reads them, and the group of
breakpoints), the list `_sessionInfoList` with the panel's rows, the path of the open
session, and a history variable, the path the last command was about.  The dialogs
write one group and keep the other, the open session the other way round; so a
session that is deleted or renamed while it is open comes back as a file with
breakpoints only.  A session of a kind without a dialog is edited into a nameless one
of an uninitialised kind: any of them, "junk" if it is none.

### MiOutput

State: the tokens left of the line, what the parser has shifted (`mode`, the token and
variable read, the resultLists begun and not closed), the heap of nodes, and the three
places a record may be held: the driver's `_output`, `$$` of a stream record, and the
caller.  The grammar is unambiguous, so the automaton is not bison's tables but the
productions themselves, with each production's action where bison takes it: a record is
made when the end of the line is seen, and handed to `setOutput` at once.  A character
of a string is one element; `MCMiOutput` prints records as gdb prints them (`Written`)
and spoils some of the lines.  Its specification is `LineSpec`, one line's life, so that
`GdbMiProcessProofs` can extend it together with `GdbMiProcess`, whose reader hands the
lines on.

What gdb prints is in `MiPrinted`, as a relation between a line and a *layout*: the nodes
of a record in the order in which they end, and for each the places where it begins and
ends.  It is external, the productions of the grammar seen from the side that prints.
`Printed` says that a line has a layout; `MCMiOutput` computes one for each line it prints
(`Layout`), and TLC evaluates `AllPrinted`, that these are such layouts.

### Workspace

State: `desk`, a record of the tabs of each panel, the panes and notebooks shown, the
items checked, the panels not yet destroyed, and the histories `crashed` and `astray`;
whether a session is open and its end queued; and the two search lists.  MainFrame's
functions (`removePage`, `findPage`, `onView...Panel`, `displayPanel`) are operators on a
desk, composed as the code composes them: `Working` is the five calls of `openSession`,
`Resting` those of `closeSession`.  wxWidgets is external: closing a tab by its cross
deletes the page, closing a pane hides it, and a menu item that is clicked is toggled
before its handler runs.

## 3. What the runs check

| run | specification | shows |
|---|---|---|
| `command` | `FairSpec`, gdb dies, lines are dropped | `ChannelInv`, `NoUnlockedRace`, `ResultsAreFreed`, `InOrder`, `CommandReturns`, `RecordsHandled`, and the refinement `SyncSpec` |
| `process` | `FairSpec`, two gdbs, one after or over the other | `SessionInv`, `WholeLines`, `QuitReachesReader`, `LinesArrive`, `TerminateReturns` |
| `process_orphan` | `Spec` | *violated*: `QuitReachesReaders` |
| `process_death` | `FairSpec` | *violated*: `DeathReported` |
| `session` | `FairSpec`, two sessions of any type in a row, gdb dies, runs refused, opened with events of the last still queued | `CaughtUp`, `ViewMatches`, `NoHangInSession`, `FinishedIsFinal`, `StopIsShown` |
| `breakpoints` | `Spec`, two session files, sessions over one another | `ListFresh`, `SavedSurvives`, `ShownIsNamed`, `FilesKept`, and the refinement `MirrorSpec` |
| `locals` | `Spec`, three frames, sessions over one another | `OneMeaning`, `ListOfOneGdb`, `ShowsSelectedFrame`, `MembersLive`, `NoMemberLeft` |
| `notebook` | `Spec`, two files, programs that exit or are ended by a signal | `MarksAreListed`, `OpenOnce`, `StopInView`, `NoArrowLeft` |
| `notebook_full` | `Spec` | *violated*: `OldestCloses` |
| `sessions` | `Spec`, two names | `ListFresh`, `NamesFound`, `OthersKept` |
| `output` | `LineSpec`, every record of two levels, spoiled lines | `ReadBack`, `OwnedOnce` |
| `workspace` | `Spec`, two programs, two sessions, crosses | `ChecksTell`, `PanelsLive`, `FilesShown`, `SessionsShown` |

Type correctness is proved for most modules (section 4) and not checked again by their
runs.

**Bounds.** Three commands let a result meet the call before its own and the call after;
two records can be before, between and behind results.  Two gdbs are the least with a
"last session" and an overlap; three parts a line and two lines let a read end in every
position and a kept part be joined, kept again and cleared; one write to the terminal is
enough to come before, between and after them.  Numbers of descriptors that `terminate`
closed could be given again only to a third gdb: that alternative of `PumpChanged` is in the
proofs, not in the runs.  Two sessions and two records
cover a run, a stop, an end and a session that follows, with an event of each kind
overtaken by a close or by the next open.  Two breakpoints, one of which may have two
locations, make rows, numbers and saved keys differ; two session files are the least with
a wrong one, and they are interchangeable (`SYMMETRY`).  Both files together hold
at most one breakpoint more than gdb can have (`FewSaved`), so each may differ from what gdb
has.  `Forms` and `Clickable` bound only what the user enters.  Eight object numbers are enough for two stops and a frame
selection with members open, in one session or across two; three events for a stop that is
overtaken by a continue and the end.  Two files, two lines and two tabs
(`MAX_FILES_OPENED` is fifty) are the least for a wrong file, a wrong line and a full
notebook, and of the two names one is not normal.  Two session names make a rename meet
another session.  Records of two levels with two members each are the least in which a
list is closed inside another and has a sibling; texts of one or two characters hold every
kind of escape.  Two tabs of one panel (`MaxTabs`) are one more than there should be; the
tabs that may be closed by their cross are two of one notebook and the panes one of each
kind, which the others repeat; the two programs have a file with a capital, one that is
gone, one that is listed twice and one that is not the program's.

**Deadlock** is not checked, except in `sessions`, where a command is always possible:
elsewhere the program rightly stops when the user does nothing, every bound is used
up, or (which `NoHangInSession` and `CommandReturns` are about) the GUI thread waits
for a gdb that is dead.

**Fairness.**  The operating system schedules both threads, and wx's event loop
takes the events queued: weak fairness of the steps of the reader, of the call in
progress and of the handling of an event.  gdb answers a command it has read (weak
fairness of `Answer`) where a run's point is what the program does with the answer.
The user, and gdb in emitting records or dying, are never obliged to act.
`GdbMiProcess` assumes no fairness of gdb: a process sent SIGKILL dies in the step
that waits for it.

### Disagreements with the source's own comments

* `process_orphan`: `GdbMiProcess.cpp:254`, "Did we get a request to terminate?".  A
  session opened over another overwrites `_t`; `terminate` joins one reader, resets
  `_quit` and leaves the other.
* `process_death`: `GdbMiProcess.cpp:180-181`, "Process terminated ... the exit code
  will be set in the sigchld event handler".  There is none: nobody is told.
* `notebook_full`: `MainFrame.cpp:478`, "Close the oldest tab".  The loop that looks for
  it asks the page that was not found (`GetPage(-1)`) for its age, a null pointer, so
  one file more than the limit crashes the program instead.

Some properties say how far a promise goes, where the code stops short of the
obvious one.

* `TerminateReturns` is about sessions that were not opened over another.  With two readers
  on one pty the one that `terminate` joins may wait in `read()` for what the other took
  (`GdbMiProcess.cpp:188`), and gdb, whose end would wake it, is ended only after `join()`.
* `ShownIsNamed` sets the time apart between opening a session over another and the first
  refresh: the rows are then the old gdb's and name other breakpoints of the new one.
  `MirroredList` promises no more: only after a closed session a session begins with
  nothing shown.
* `NoMemberLeft` is about the objects of members.  Those of the variables stay in gdb as
  long as it runs, at every stop and frame selection; `OneMeaning` says that nevertheless none
  is taken for another.  It sets members apart whose row is opened while the list is empty,
  as it is after a stop in a frame without variables, where the old rows stay shown;
  `MembersLive` is about rows of the list for the same reason, for the members of those old
  rows are gone from gdb.
* `NoArrowLeft` sets a program apart that a signal ended: the arrow of its last stop stays
  until the session is closed.
* `MarksAreListed` sets the time apart when gdb has ended and the pages are about to be
  closed.

* `NoHangInSession` names the ways the GUI thread can hang: its gdb died, or there is
  no session and so no gdb (an attach session, which starts none; a notification or a
  stop handled after `closeSession`; "Enable All" without a session).
* `ViewMatches` lets "Run" be enabled in the sessions `openSession` enables it in by
  mistake.
* `CaughtUp` sets a refused `-exec-run` apart, after which `_targetState` stays RUNNING.
* `SavedSurvives` promises only the breakpoints before the first with several
  locations, since the ones after it are saved under keys that are not read.
* `ShowsSelectedFrame` sets a frame without variables apart: `updateLocalVariables`
  then tells the panel nothing.
* `OpenOnce` and `StopInView` set names apart that are not normal: for them `openFile`
  opens a new page every time.
* `OthersKept` sets a rename onto an existing name apart, which writes over it: only
  new sessions are asked about ("Session name already exists").
* `OwnedOnce` sets two leaks apart: a line that is refused in its middle leaves its nodes
  on the parser's stack, and a stream record (`~"..."`, `&"..."`), of which
  `GdbMiDriver.cpp:41` says "memory should be owned by caller", is neither kept nor deleted
  by `handleMiOutput`.
* `ReadBack` sets text with octal escapes apart, which `unescapeString` leaves as it is:
  paths and values with other than ASCII characters are wrong.
* `ChecksTell` sets a panel apart from when it is displayed while it is there already:
  `findPage` takes the page it finds out of its notebook, so the breakpoints, shown by hand
  before a session is opened, vanish when it is; and the stack is looked for under the
  breakpoints' identifier, so it gets a second tab.
* `PanelsLive` sets tabs closed by their cross apart, which deletes a panel that
  `MainFrame` goes on using.
* `FilesShown` allows files that are gone to appear without a name after a search
  (`_isValid` is true from the start), and the text left in the search box to say nothing
  about the list after a session was opened.
* `SessionsShown` is about names in lower case: what is typed is lowered and the names are
  not, so a session with a capital is found only in the whole list.
* The popup menu of the sessions takes the selected row for a session's
  (`SessionFiles!ChooseOtherRow`), that of the breakpoints keeps a pointer over a refresh,
  and `initCoredumpSession` asks for a stack the state does not allow yet: no property
  is about these.

## 4. What is proved

For every value of the constants (within their assumptions), from nothing but the
specification:

* `MiCommandProofs`:  `TypeOK`; `ChannelInv`; and from it `NoUnlockedRace`,
  `ResultsAreFreed`; `InOrder`; and `SyncSpec`, that the channel implements `SyncCommand`.
  The argument is `ChannelInv`: a command, and then its result, is in at most one of four
  places (gdb, the pty, the reader's hand, the mailbox), only while the GUI thread is
  inside the call, and it carries that call's number.  It is inductive as stated.  That is
  why no token is needed and why the unlocked accesses do not race, and it holds with gdb
  dying and lines dropped.  `InOrder` needs the type invariant only; refinement needs
  `ChannelInv` for `Return` and `InOrder` for `Handle`.
* `GdbMiProcessProofs`: `TypeOK`, `SessionInv`, `QuitReachesReader` and `WholeLines`.
  `SessionInv` adds to `OneReader`, `ReadsItsOwnPty` and `NoReadBlocks`, which hold
  as long as no session was opened over another, what they rest on: the descriptor and the
  thread pointer are of the same gdb, and `_quit` is set exactly while `terminate` waits.
  `NoReadBlocks` is what `TerminateReturns` rests on: what `select()` found is still there
  when it is read, for no one else reads it and gdb only adds to it (`StaysReady`).
  `WholeLines` needs `LinesInv`: what is pending, what the last read brought and what is
  still in the pty, put together, is a text without a gap (`Unbroken`) that begins where
  the last line handed on ended, and it begins at a line's first part after an earlier gdb.
  `CutCorrect` says that `Cut` keeps this: its lines are whole and follow one another,
  and its rest goes on where they end.
* `GdbMiProcessProofs`, of what becomes of each line the reader hands on (`MiOutput`): its
  type invariant `LineTypeOK`; `OwnedOnce`, and from the same invariant `NothingLeft`,
  that an accepted line whose record was deleted leaves no node.  `OwnInv` says
  that a node has exactly one owner, which is a node, a list on the parser's stack or one of
  the three pointers; that a node's members were made before it (`Rooted`), so that the
  recursion of the destructors ends; and which pointer may be set where in the parse.
  `WholeClosed` says that what deleting a record deletes contains all that is below it, and
  `Reached` that what nothing holds from outside is nothing: the node made last would have
  an owner made later.
* There, too, `ReadBack`, for lines of any length with lists nested to any depth, as long as
  gdb prints them as `MiPrinted` says (`Printed`, which is a hypothesis of the theorem and
  what `AllPrinted` shows of the lines of the run).  `ReadBack` is far from inductive.
  `ReadInv` is: of the line's layout, the tokens up to some position `p` are shifted, the
  nodes that end before it are made and are the layout's, and there is a path `w` from the
  record through the lists that have begun and not ended to the one the parser is in, with
  as many members each as were read, which is what its stack holds (`InLists`).  The mode
  is one that fits the position (`Stage`), so the token that comes is one the grammar accepts
  there (`ComesNext`), and each action goes on: inward, onward or outward on the path
  (`PathInward`, `PathOnward`, `PathOutward`).  That nodes are numbered by their ends
  takes the place of an induction over trees: the node that ends next is the one made next
  (`NodeEnds`).  `Unquoted` is the same matter for texts: `unescapeString` undoes gdb's
  quotes, by induction from the end of the text.
* `DebugSessionProofs`:  `TypeOK`; `NoHangInSession` for any number of sessions and
  records; `CaughtUp`, `ViewMatches` and `FinishedIsFinal`.  `CaughtUp` is not inductive:
  the strengthening is `NoStaleEnd` (until a session is opened hastily none is open while
  the end of an earlier one, or the clearing of the panels after it, is queued), without
  which an old "terminated" event would set the new session's state to
  STOPPED, as it does in the program.  The steps are lemmas about `LeadsTo`: what
  appending a record, handling one and assigning the state do to it.  `ViewMatches` and
  `FinishedIsFinal` rest on it.  For the first, `ShownInv` says that the stack panel shows
  frames of a stopped program as soon as no record under way changes the state, which
  `CaughtUp` turns into the state being STOPPED already; for the second, `FinalInv` says
  that an exit is the last record of its queue that changes the state.
* `BreakpointsProofs`:  `TypeOK`, `ListFresh`, `SavedSurvives`, `ShownIsNamed`,
  `FilesKept` and `MirrorSpec`.  `FilesKept` follows from the invariant that a gdb that answers belongs to
  the open session.  The others need `BreakpointsInv`: gdb's rows have each place once and
  only numbers given out (`GoodRows`), also while `loadBreakpoints` is inserting; the copies
  in the list and the panel have only such numbers, and the same place for the same number,
  unless they are carried over from the gdb of a session opened over;
  a closed session's events are on their way to emptying both; and unless a notification is
  queued or a command did not refresh, list, panel and file are what gdb has.
  `SavedSurvives` then follows from what `saveBreakpoints` and `loadBreakpoints` do one
  after the other: up to the first breakpoint with several locations the key of an entry
  is its place in the list.  The refinement, one step of `Next` at a time, needs besides that
  the list is what the panel shows or was emptied first (`ShownInv`): showing it again,
  which `openFile` does without asking gdb, then shows nothing new.  `MirrorKept` proves of
  `MirroredList` itself that what is fresh is shown and saved as it is.
* `LocalVariablesProofs`:  `TypeOK`, `NoMemberLeft`, `OneMeaning`, `ListOfOneGdb`,
  `MembersLive` and `ShowsSelectedFrame`.  The inductive invariant says that the entries'
  numbers differ, that objects and rows with the number of an entry are of its variable, that
  gdb has the objects of all entries or of none, that the rows are those of the list unless it
  is empty (`RowsListed`), and that the counter is above every number of an entry, a row or an
  object.  Without the last it would not be inductive: gdb keeps the variables' objects of
  every stop, and a new entry must not meet one of them.  `NoMemberLeft` follows from
  `RowsListed`: a member's object is made for a row that is shown.  `MembersLive`
  adds only that without a gdb there are no objects.  `ShowsSelectedFrame` needs
  `ShowInv`, which covers the times when events are queued: while the program runs the
  panel is empty or the record that empties it is queued; while it is stopped the panel
  and the list are of the selected frame, or the panel is empty, or the record that will
  empty or fill it is queued.
* `NotebookProofs`:  `TypeOK`, `MarksAreListed`, `OpenOnce`, `StopInView` and
  `NoArrowLeft`.  The first three follow from the invariant of pages, selection and queue
  (`Inv`, and `QueueOK`: only of a closed session the end is queued, so the list that
  `HandleTerminated` empties while the pages still have their marks is not one that a new
  session uses); the lemmas are about what opening, closing and marking do to the sequence of
  pages.  The last two need `ViewInv`: the history `view` says which page the stop's line
  is in, and opening a page, which may close others or move them, keeps it.
* `WorkspaceProofs`:  `TypeOK`, `ChecksTell`, `PanelsLive`, `FilesShown` and
  `SessionsShown`.  The invariant of the desk
  ties the pages of each panel to the items checked, to the notebooks shown and to
  `astray`; one lemma for each function of a desk, and the five calls of opening and
  closing a session are five steps of it.  `ListsInv` says of each list under a search box
  which of the two ways it was filled, and with what; that this is what the user asks for is
  a matter of what `Only` takes of a list (`OnlyOnly`, `OnlySame`, `OnlyAll`) and of lower
  case (`SmallPrefix`): a file's name is in lower case already, a session's need not be.
* `SessionFilesProofs`:  `TypeOK`, `ListFresh`, `NamesFound` and `OthersKept`.  The
  invariant says that a file has the name it is called, or none.

The loops of the program (`Only`, `Loaded`, `Cut`, `Sources`) are recursive functions over
the numbers up to a length.  The provers cannot use the library's induction rules, which
take a predicate as a parameter; but they can use a well-founded order on a *set* (`WFMin`), and
`UpTo` makes of it induction for a set of numbers, from which `Stepwise` shows that the function
a loop defines exists, and the lemmas after it what the loop computes.  The three modules that
need these few lemmas each state them; `Backward` is the same for loops
that go through a text from its end.  Another loop, that of deleting a record, is one over
a tree: `Tree` and `TreeGrows` make the same argument for the numbers of its nodes.

Assumed of the constants is no more than their shape: what is typed and named is a sequence of
letters, a capital letter becomes one that is none, gdb's answers are sequences of files
(`ListsAssumption`), the mark of no place (`NoSpec`) is neither a place nor a file, parts and
bounds are numbers, a null pointer is not the number of a node.

Only model-checked: the liveness properties (`CommandReturns`, `RecordsHandled`,
`LinesArrive`, `TerminateReturns`, `StopIsShown`), which need fairness and ENABLED.  Every
invariant and every action property of the passing runs is proved.

## 5. What is not modelled

* bison's and flex's generated code: `MiOutput` is the rules, not the tables.
* Failing system calls of `startGdbProcess` (it carries on as if they had worked) and
  the pty descriptors that are never closed.
* Thread selection, and the one-command operations of `GdbMgr_File`, `_Misc`,
  `_ProgramContext` and `_TargetManipulation`: `MiCommand` is all there is to them.
* Breakpoints in libraries that are not loaded yet (`loadBreakpoints` does not ask for
  pending ones), an error answer to `-break-list`, an `-break-enable` of several
  numbers that stops at one gdb does not know, watch and catchpoints.
* The values of variables, their colours and editing them; access groups in classes.
* The contents of the dialogs and of the panel's detail rows; errors of the file system.
* Widgets' layout, `relayoutBottomPanes` (never called) and the find dialog, which only
  logs what is looked for.
* Key chords: `FilterEvent` in `main.cpp` returns before it asks the key processor, and no
  key map is registered, so no chord changes the state of the program.
* Vendored code, which is nearly all of the repository's lines: Scintilla and Lexilla
  under `subprojects/`, the wx port of Scintilla in `jae_text_control/`, the tree list
  control of CodeLite in `cl_treelistctrl.cpp`.  They are modelled, as external, by what
  the program uses of them.
* `old_implementaion.cpp`, which is not built.

## 6. Plan

The first nine are done and proved about.

1. `SyncCommand`, `MiCommand`: everything else issues commands.
2. `GdbMiProcess`: sessions start and end there.
3. `DebugSession`: the state every guard looks at.
4. `Breakpoints`, with two session files, and `MirroredList`, which it implements.
5. `LocalVariables`: variable objects at every stop and frame selection.
6. `Notebook`: the pages and their markers.
7. `SessionFiles`: the files and the list of them, with an open session that goes on
   saving to its old path.

8. `MiOutput` and `MiPrinted`: one line of MI, who owns its record, and how gdb prints what is read back.
9. `SearchList` and `Workspace`: the panels, the View menu and the searched lists.

What is left, in this order:

10. A composition of `GdbMiProcess` and `DebugSession` (the reader's end and `terminate`
    inside `closeSession`, with lines parsed while the GUI thread joins), with
    `DebugSession`'s gdb as the abstract specification.
11. Thread selection beside `LocalVariables`.
