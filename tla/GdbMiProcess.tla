---------------------------- MODULE GdbMiProcess ----------------------------
(***************************************************************************)
(* GdbMiProcess: starting gdb on two ptys, the reader thread that pumps    *)
(* them, the assembly of MI lines from the chunks read() returns, and      *)
(* terminate().  One GdbMiProcess object serves every session: its fields  *)
(* (descriptors, pid, thread pointer, partial line, quit flag) belong to   *)
(* the last gdb started, and reader threads reach them without a lock.     *)
(* gdb processes, their ptys and their reader threads are numbered by the  *)
(* call of startGdbProcess that made them.                                 *)
(***************************************************************************)
EXTENDS Naturals, Sequences

CONSTANTS
  MaxStarts,     \* bound on the calls of startGdbProcess
  MaxLines,      \* bound on the MI lines all gdbs write
  MaxTerminal,   \* bound on the programs' writes to their terminals
  Parts          \* number of pieces read() may cut a line into

ASSUME ProcessAssumption ==
  /\ MaxStarts \in Nat /\ MaxLines \in Nat /\ MaxTerminal \in Nat
  /\ Parts \in Nat \ {0}

VARIABLES
  starts,       \* calls of startGdbProcess so far
  overlapped,   \* was one of them made while a gdb was running?
  gui,          \* the GUI thread: "free", or "joining" inside terminate
  miFd,         \* _gdbMiFd (and _gdbInferiorFd): whose ptys, or Closed
  tPtr,         \* _t: the thread the object knows about, or NoThread
  quit,         \* _quit
  pendingLine,  \* _pendingLine
  thread,       \* where each reader thread is
  fd,           \* whose ptys it gave to select(), then reads, inside pumpData
  chunk,        \* what a reader thread got from read() and has not yet split
  gdb,          \* each gdb process: "none", "alive", "dead", or "closed" by terminate
  miOut,        \* MI text written by each gdb and not yet read
  infOut,       \* has the program of each gdb unread terminal output?
  infLeft,      \* terminal writes left to the programs
  written,      \* number of lines written by all gdbs
  lines,        \* lines handed to GdbMiDriver::parse, in order
  terminated    \* number of handleTerminated calls

objVars == <<miFd, tPtr, quit, pendingLine>>
rdVars  == <<thread, fd, chunk, lines>>
gdbVars == <<gdb, miOut, infOut, infLeft, written>>
vars    == <<starts, overlapped, gui, objVars, rdVars, gdbVars, terminated>>

Gdb == 1..MaxStarts
Closed == 0
NoThread == 0
Piece == [line : 1..MaxLines, part : 1..Parts]
\* Line n as gdb writes it; the last piece carries the newline.
LineText(n) == [p \in 1..Parts |-> [line |-> n, part |-> p]]
EndsLine(piece) == piece.part = Parts

\* Reader r is in pumpData, behind the call of select().
PastSelect(r) == thread[r] \in {"select", "terminal", "mi", "split"}

ControlOK ==
  /\ starts \in 0..MaxStarts /\ overlapped \in BOOLEAN
  /\ gui \in {"free", "joining"}
  /\ miFd \in Gdb \union {Closed} /\ tPtr \in Gdb \union {NoThread}
  /\ quit \in BOOLEAN
  /\ thread \in [Gdb -> {"none", "check", "pump", "select", "terminal", "mi", "split",
                       "ended", "aborted"}]
  /\ fd \in [Gdb -> Gdb \union {Closed}]
  /\ \A r \in Gdb : PastSelect(r) => fd[r] # Closed
  /\ gdb \in [Gdb -> {"none", "alive", "dead", "closed"}]
  /\ terminated \in Nat
TextOK ==
  /\ pendingLine \in Seq(Piece)
  /\ chunk \in [Gdb -> Seq(Piece)]
  /\ miOut \in [Gdb -> Seq(Piece)]
  /\ infOut \in [Gdb -> BOOLEAN] /\ infLeft \in Nat
  /\ written \in 0..MaxLines
  /\ lines \in Seq(Seq(Piece))
TypeOK == ControlOK /\ TextOK

Init ==
  /\ starts = 0 /\ overlapped = FALSE /\ gui = "free"
  /\ miFd = Closed /\ tPtr = NoThread /\ quit = FALSE /\ pendingLine = <<>>
  /\ thread = [g \in Gdb |-> "none"] /\ fd = [g \in Gdb |-> Closed]
  /\ chunk = [g \in Gdb |-> <<>>] /\ lines = <<>>
  /\ gdb = [g \in Gdb |-> "none"] /\ miOut = [g \in Gdb |-> <<>>]
  /\ infOut = [g \in Gdb |-> FALSE] /\ infLeft = MaxTerminal /\ written = 0
  /\ terminated = 0
-----------------------------------------------------------------------------
(* The GUI thread.                                                         *)

\* startGdbProcess: nothing asks whether a gdb is running; descriptors, pid
\* and thread pointer are overwritten, _pendingLine and _quit are kept.
StartGdbProcess ==
  /\ gui = "free"
  /\ starts < MaxStarts
  /\ starts' = starts + 1
  /\ overlapped' = (overlapped \/ tPtr # NoThread)
  /\ miFd' = starts + 1
  /\ tPtr' = starts + 1
  /\ gdb' = [gdb EXCEPT ![starts + 1] = "alive"]
  /\ thread' = [thread EXCEPT ![starts + 1] = "check"]
  /\ UNCHANGED <<gui, quit, pendingLine, fd, chunk, lines, miOut, infOut, infLeft, written, terminated>>

\* terminate, up to join().  closeSession calls it only in a valid session.
RequestQuit ==
  /\ gui = "free"
  /\ tPtr # NoThread
  /\ quit' = TRUE
  /\ gui' = "joining"
  /\ UNCHANGED <<starts, overlapped, miFd, tPtr, pendingLine, rdVars, gdbVars, terminated>>

\* Mutants: _quit is not reset; the thread is not joined.
FinishTerminateQuitKept ==
  /\ gui = "joining" /\ thread[tPtr] = "ended"
  /\ gui' = "free" /\ miFd' = Closed /\ tPtr' = NoThread /\ pendingLine' = <<>>
  /\ gdb' = [gdb EXCEPT ![tPtr] = "closed"]
  /\ terminated' = terminated + 1
  /\ UNCHANGED <<starts, overlapped, quit, rdVars, miOut, infOut, infLeft, written>>
FinishTerminateUnjoined ==
  /\ gui = "joining"
  /\ gui' = "free" /\ miFd' = Closed /\ tPtr' = NoThread /\ quit' = FALSE /\ pendingLine' = <<>>
  /\ gdb' = [gdb EXCEPT ![tPtr] = "closed"]
  /\ terminated' = terminated + 1
  /\ UNCHANGED <<starts, overlapped, rdVars, miOut, infOut, infLeft, written>>

\* terminate, from the return of join(): close, reset, SIGTERM, SIGKILL if
\* need be, reap, report.
FinishTerminate ==
  /\ gui = "joining"
  /\ thread[tPtr] = "ended"
  /\ gui' = "free"
  /\ miFd' = Closed
  /\ tPtr' = NoThread
  /\ quit' = FALSE
  /\ pendingLine' = <<>>
  /\ gdb' = [gdb EXCEPT ![tPtr] = "closed"]
  /\ terminated' = terminated + 1
  /\ UNCHANGED <<starts, overlapped, rdVars, miOut, infOut, infLeft, written>>
-----------------------------------------------------------------------------
(* A reader thread.  It looks at the object's fields each time round, and  *)
(* again after select() and after read(), which other readers may come     *)
(* between.                                                                *)

Goto(r, where) == thread' = [thread EXCEPT ![r] = where]

\* pumpData returns: where the descriptors came from is forgotten.
Leave(r, where) == Goto(r, where) /\ fd' = [fd EXCEPT ![r] = Closed]

\* Mutant: the reader does not look at _quit.
CheckQuitNever(r) ==
  /\ thread[r] = "check"
  /\ Goto(r, "pump")
  /\ UNCHANGED <<starts, overlapped, gui, objVars, fd, chunk, lines, gdbVars, terminated>>

CheckQuit(r) ==
  /\ thread[r] = "check"
  /\ Goto(r, IF quit THEN "ended" ELSE "pump")
  /\ UNCHANGED <<starts, overlapped, gui, objVars, fd, chunk, lines, gdbVars, terminated>>

\* pumpData gives the ptys of the moment to select() ...
PumpSelect(r) ==
  /\ thread[r] = "pump"
  /\ miFd # Closed
  /\ fd' = [fd EXCEPT ![r] = miFd]
  /\ Goto(r, "select")
  /\ UNCHANGED <<starts, overlapped, gui, objVars, chunk, lines, gdbVars, terminated>>

\* ... but FD_SET(-1) writes outside the set: a fortified build aborts,
\* another goes on to a select() that times out.
PumpClosed(r) ==
  /\ thread[r] = "pump"
  /\ miFd = Closed
  /\ \E where \in {"check", "aborted"} : Goto(r, where)
  /\ UNCHANGED <<starts, overlapped, gui, objVars, fd, chunk, lines, gdbVars, terminated>>

\* The pty of a gdb that is gone is ready to say so.
InferiorReady(g) == infOut[g]
MiReady(g) == miOut[g] # <<>> \/ gdb[g] # "alive"

\* select() times out after 50 ms.
PumpTimeout(r) ==
  /\ thread[r] = "select"
  /\ ~ InferiorReady(fd[r]) /\ ~ MiReady(fd[r])
  /\ Leave(r, "check")
  /\ UNCHANGED <<starts, overlapped, gui, objVars, chunk, lines, gdbVars, terminated>>

\* The inferior's terminal is looked at first, and alone.  In "terminal" and
\* "mi" the thread is in read().
PumpInferior(r) ==
  /\ thread[r] = "select"
  /\ miFd = fd[r] /\ InferiorReady(fd[r])
  /\ Goto(r, "terminal")
  /\ UNCHANGED <<starts, overlapped, gui, objVars, fd, chunk, lines, gdbVars, terminated>>

PumpMi(r) ==
  /\ thread[r] = "select"
  /\ miFd = fd[r] /\ ~ InferiorReady(fd[r]) /\ MiReady(fd[r])
  /\ Goto(r, "mi")
  /\ UNCHANGED <<starts, overlapped, gui, objVars, fd, chunk, lines, gdbVars, terminated>>

\* FD_ISSET is asked about other descriptors than select() was: of -1, which
\* may abort; or of another gdb's, which are not set, unless they have the
\* numbers of those that terminate has closed.
PumpChanged(r) ==
  /\ thread[r] = "select"
  /\ miFd # fd[r]
  /\ InferiorReady(fd[r]) \/ MiReady(fd[r])
  /\ \/ miFd = Closed /\ Leave(r, "aborted")
     \/ Leave(r, "ended")
     \/ /\ miFd # Closed /\ gdb[fd[r]] = "closed"
        /\ \E where \in {"terminal", "mi"} : Goto(r, where)
        /\ fd' = [fd EXCEPT ![r] = miFd]
  /\ UNCHANGED <<starts, overlapped, gui, objVars, chunk, lines, gdbVars, terminated>>

\* read() blocks while there is nothing to read: another reader may have been
\* first.  handleInferiorData ignores what the terminal says.
ReadInferior(r) ==
  /\ thread[r] = "terminal"
  /\ infOut[fd[r]]
  /\ infOut' = [infOut EXCEPT ![fd[r]] = FALSE]
  /\ Leave(r, "check")
  /\ UNCHANGED <<starts, overlapped, gui, objVars, chunk, lines, gdb, miOut, infLeft, written, terminated>>

\* handleData: read() returns some of the MI text there is ...
ReadMi(r) ==
  /\ thread[r] = "mi"
  /\ \E n \in 1..Len(miOut[fd[r]]) :
       /\ chunk' = [chunk EXCEPT ![r] = SubSeq(miOut[fd[r]], 1, n)]
       /\ miOut' = [miOut EXCEPT ![fd[r]] = SubSeq(@, n + 1, Len(@))]
  /\ Goto(r, "split")
  /\ UNCHANGED <<starts, overlapped, gui, objVars, fd, lines, gdb, infOut, infLeft, written, terminated>>

\* ... or fails, gdb being gone: the thread ends and tells nobody.
ReadEof(r) ==
  /\ thread[r] = "mi"
  /\ miOut[fd[r]] = <<>> /\ gdb[fd[r]] # "alive"
  /\ Leave(r, "ended")
  /\ UNCHANGED <<starts, overlapped, gui, objVars, chunk, lines, gdbVars, terminated>>

\* A text cut at its newlines, read piece by piece: the lines it holds, and
\* what follows the last of them.
Cut(text) ==
  LET cut[n \in 0..Len(text)] ==
        IF n = 0 THEN [lines |-> <<>>, rest |-> <<>>]
        ELSE LET line == Append(cut[n - 1].rest, text[n])
             IN IF EndsLine(text[n])
                THEN [lines |-> Append(cut[n - 1].lines, line), rest |-> <<>>]
                ELSE [lines |-> cut[n - 1].lines, rest |-> line]
  IN cut[Len(text)]

\* The reader leaves handleData, kept in _pendingLine and parsed handed on.
SplitWith(r, kept, parsed) ==
  /\ thread[r] = "split"
  /\ fd[r] = miFd \/ (miFd # Closed /\ gdb[fd[r]] = "closed")
  /\ pendingLine' = kept
  /\ lines' = parsed
  /\ chunk' = [chunk EXCEPT ![r] = <<>>]
  /\ Leave(r, "check")
  /\ UNCHANGED <<starts, overlapped, gui, miFd, tPtr, quit, gdbVars, terminated>>

\* Mutants: the kept text is not prepended; the text after the last newline
\* is not kept.
SplitUnjoined(r) ==
  LET cut == Cut(chunk[r])
  IN SplitWith(r, cut.rest, lines \o cut.lines)
SplitRestLost(r) == SplitWith(r, <<>>, lines \o Cut(pendingLine \o chunk[r]).lines)

\* The rest of handleData: prepend the kept text, cut at newlines, keep what
\* follows the last newline, parse the lines.
Split(r) ==
  LET cut == Cut(pendingLine \o chunk[r])
  IN SplitWith(r, cut.rest, lines \o cut.lines)

\* What was read from neither of the object's ptys any more is dropped.
Drop(r) ==
  /\ thread[r] = "split"
  /\ fd[r] # miFd
  /\ chunk' = [chunk EXCEPT ![r] = <<>>]
  /\ Leave(r, "check")
  /\ UNCHANGED <<starts, overlapped, gui, objVars, lines, gdbVars, terminated>>
-----------------------------------------------------------------------------
(* gdb and the program it debugs.                                          *)

WriteLine(g) ==
  /\ gdb[g] = "alive"
  /\ written < MaxLines
  /\ written' = written + 1
  /\ miOut' = [miOut EXCEPT ![g] = @ \o LineText(written + 1)]
  /\ UNCHANGED <<starts, overlapped, gui, objVars, rdVars, gdb, infOut, infLeft, terminated>>

WriteTerminal(g) ==
  /\ gdb[g] = "alive"
  /\ ~ infOut[g]
  /\ infLeft > 0
  /\ infOut' = [infOut EXCEPT ![g] = TRUE]
  /\ infLeft' = infLeft - 1
  /\ UNCHANGED <<starts, overlapped, gui, objVars, rdVars, gdb, miOut, written, terminated>>

Die(g) ==
  /\ gdb[g] = "alive"
  /\ gdb' = [gdb EXCEPT ![g] = "dead"]
  /\ UNCHANGED <<starts, overlapped, gui, objVars, rdVars, miOut, infOut, infLeft, written, terminated>>
-----------------------------------------------------------------------------
Reader(r) == \/ CheckQuit(r)
             \/ PumpSelect(r) \/ PumpClosed(r)
             \/ PumpTimeout(r) \/ PumpInferior(r) \/ PumpMi(r) \/ PumpChanged(r)
             \/ ReadInferior(r) \/ ReadMi(r) \/ ReadEof(r)
             \/ Split(r) \/ Drop(r)

Next ==
  \/ StartGdbProcess \/ RequestQuit \/ FinishTerminate
  \/ \E r \in Gdb : Reader(r)
  \/ \E g \in Gdb : WriteLine(g) \/ WriteTerminal(g) \/ Die(g)

Spec == Init /\ [][Next]_vars

\* Every thread runs, and a process that is sent SIGKILL dies.
FairSpec ==
  /\ Spec
  /\ WF_vars(FinishTerminate)
  /\ \A r \in Gdb : WF_vars(Reader(r))
-----------------------------------------------------------------------------
Running(r) == thread[r] \in {"check", "pump"} \/ PastSelect(r)

\* One thread at a time runs handleData on _pendingLine, and it is the one
\* terminate would join.
OneReader == \A r \in Gdb : Running(r) => r = tPtr

\* No reader hands a closed descriptor to select() (FD_SET(-1)), and none
\* reads the ptys of another gdb than the one it was started for.
ReadsItsOwnPty ==
  \A r \in Gdb : Running(r) => miFd = r /\ (PastSelect(r) => fd[r] = r)

\* What select() found to be ready is still there when it is read: read()
\* does not block, so that the reader gets back to _quit.
NoReadBlocks ==
  \A r \in Gdb : /\ thread[r] = "terminal" => InferiorReady(fd[r])
                 /\ thread[r] = "mi" => MiReady(fd[r])

\* The three hold for as long as no session was opened over another, for what
\* holds of the object's fields even then.
SessionInv ==
  /\ \A r \in Gdb : thread[r] # "none" => r <= starts
  /\ tPtr <= starts
  /\ miFd = tPtr
  /\ quit <=> gui = "joining"
  /\ gui = "joining" => tPtr # NoThread
  /\ ~ overlapped => OneReader /\ ReadsItsOwnPty /\ NoReadBlocks

\* What is handed to the parser is whole lines, each once, in the order gdb
\* wrote them, wherever read() cut the text and whatever the gdb before left.
WholeLines ==
  ~ overlapped =>
    /\ \A i \in DOMAIN lines : \E n \in 1..written : lines[i] = LineText(n)
    /\ \A i, j \in DOMAIN lines : i < j => lines[i][1].line < lines[j][1].line

\* A request to terminate reaches every reader: when terminate returns none
\* is left.  GdbMiProcess.cpp:254: "Did we get a request to terminate?"
Returns == gui = "joining" /\ gui' = "free"
QuitReachesReaders == [][Returns => \A r \in Gdb : ~ Running(r)']_vars

\* It does while no session was opened over another.
QuitReachesReader == [][Returns /\ ~ overlapped => \A r \in Gdb : ~ Running(r)']_vars

\* terminate gets its thread back while no session was opened over another.
\* With a second reader on the ptys the one that is joined may wait in read()
\* for what the other took, and gdb is ended only after join().
TerminateReturns == gui = "joining" /\ ~ overlapped ~> gui = "free"

\* A line gdb wrote is parsed, unless its session is closed or opened over.
LinesArrive ==
  \A n \in 1..MaxLines :
    written >= n ~> \/ \E i \in DOMAIN lines : lines[i] = LineText(n)
                    \/ terminated > 0 \/ overlapped

\* A gdb that dies is reported.  GdbMiProcess.cpp:180-181: "Process terminated",
\* "the exit code will be set in the sigchld event handler".
DeathReported ==
  \A g \in Gdb : gdb[g] = "dead" ~> terminated > 0
=============================================================================
