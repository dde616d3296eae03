----------------------------- MODULE MiCommand -----------------------------
(***************************************************************************)
(* The synchronous command channel of GdbMgr.  The GUI thread writes an MI *)
(* command to gdb and sleeps on a condition variable until the reader      *)
(* thread has put a result record into the one-place mailbox _gdbMiOutput. *)
(* Nothing matches a result to the command it answers: no token is sent,   *)
(* the mailbox is tested for emptiness only, and the GUI thread reads and  *)
(* clears it outside the mutex.  A step that holds _gdbCmdMutex for its    *)
(* whole duration is one action; the unlocked steps are actions of their   *)
(* own.                                                                    *)
(***************************************************************************)
EXTENDS Naturals, Sequences

CONSTANTS
  MaxCommands,  \* bound on the commands issued
  MaxRecords,   \* bound on the out-of-band records gdb emits
  LinesMayBeUnparsable,  \* may GdbMiDriver::parse fail on a line?
  GdbMayDie     \* may the gdb process end by itself?

ASSUME BoundsAssumption == MaxCommands \in Nat /\ MaxRecords \in Nat
ASSUME FaultsAssumption == LinesMayBeUnparsable \in BOOLEAN /\ GdbMayDie \in BOOLEAN

VARIABLES
  gui,       \* where the GUI thread is
  issued,    \* number of commands issued: also the number of the last one
  answer,    \* number of the command whose result the last call returned
  handled,   \* number of the last asynchronous record the GUI handled
  mailbox,   \* _gdbMiOutput: None, or the number of the command answered
  notified,  \* has notify_one reached the sleeping GUI thread?
  pending,   \* asynchronous records queued by AddPendingEvent
  reader,    \* the reader thread: "pump", "result" (in handleMiOutput), "ended"
  inHand,    \* the result record the reader is about to store
  leaked,    \* kinds of the parsed records that nobody owns any more
  toGdb,     \* commands written and not yet executed
  fromGdb,   \* lines written by gdb and not yet read
  emitted,   \* number of asynchronous records gdb has emitted
  streams,   \* number of stream records gdb has emitted
  gdbAlive,
  lost       \* kinds of the lines that were dropped

guiVars == <<gui, issued, answer, handled>>
shared  == <<mailbox, notified, pending, leaked>>
rdVars  == <<reader, inHand, lost>>
gdbVars == <<toGdb, fromGdb, emitted, streams, gdbAlive>>
vars    == <<guiVars, shared, rdVars, gdbVars>>

None == 0
Result(n) == [kind |-> "result", no |-> n]
Async(n)  == [kind |-> "async",  no |-> n]
Stream    == [kind |-> "stream", no |-> 0]
Line == [kind : {"result", "async", "stream"}, no : Nat]

TypeOK ==
  /\ gui \in {"idle", "written", "asleep", "reading", "deleting"}
  /\ issued \in Nat /\ answer \in Nat /\ handled \in Nat
  /\ mailbox \in Nat
  /\ notified \in BOOLEAN
  /\ pending \in Seq(Nat)
  /\ reader \in {"pump", "result", "ended"}
  /\ inHand \in Nat
  /\ leaked \in SUBSET {"stream", "result"}
  /\ toGdb \in Seq(Nat)
  /\ fromGdb \in Seq(Line)
  /\ emitted \in Nat /\ streams \in Nat
  /\ gdbAlive \in BOOLEAN
  /\ lost \in SUBSET {"result", "async", "stream"}

Init ==
  /\ gui = "idle" /\ issued = 0 /\ answer = 0 /\ handled = 0
  /\ mailbox = None /\ notified = FALSE /\ pending = <<>> /\ leaked = {}
  /\ reader = "pump" /\ inHand = None /\ lost = {}
  /\ toGdb = <<>> /\ fromGdb = <<>>
  /\ emitted = 0 /\ streams = 0 /\ gdbAlive = TRUE
-----------------------------------------------------------------------------
(* The GUI thread.                                                         *)

\* _mi->writeMiData(command).  write() to a pty whose other side is gone
\* fails and writeData returns without telling anyone.
WriteCommand ==
  /\ gui = "idle"
  /\ issued < MaxCommands
  /\ gui' = "written"
  /\ issued' = issued + 1
  /\ toGdb' = IF gdbAlive THEN Append(toGdb, issued + 1) ELSE toGdb
  /\ UNCHANGED <<answer, handled, shared, rdVars, fromGdb, emitted, streams, gdbAlive>>

\* Mutant: wait() without its predicate.
AwaitResultUntested ==
  /\ gui = "written"
  /\ gui' = "reading"
  /\ UNCHANGED <<issued, answer, handled, shared, rdVars, gdbVars>>

\* The mailbox test of wait(), made with the mutex held.
AwaitResult ==
  /\ gui = "written"
  /\ gui' = IF mailbox # None THEN "reading" ELSE "asleep"
  /\ UNCHANGED <<issued, answer, handled, shared, rdVars, gdbVars>>

\* Woken by notify_one, the GUI thread takes the mutex and tests again.
WakeUp ==
  /\ gui = "asleep" /\ notified
  /\ notified' = FALSE
  /\ gui' = IF mailbox # None THEN "reading" ELSE "asleep"
  /\ UNCHANGED <<issued, answer, handled, mailbox, pending, leaked, rdVars, gdbVars>>

\* simpleResultCommand and its siblings look at the result: no lock is held.
ReadResult ==
  /\ gui = "reading"
  /\ answer' = mailbox
  /\ gui' = "deleting"
  /\ UNCHANGED <<issued, handled, shared, rdVars, gdbVars>>

\* Mutant: the pointer is not set to null.
DeleteResultDangling ==
  /\ gui = "deleting"
  /\ gui' = "idle"
  /\ UNCHANGED <<issued, answer, handled, shared, rdVars, gdbVars>>

\* deleteResultRecord: delete, then set the pointer to null; no lock is held.
\* A record stored since ReadResult would be the one deleted and the one
\* read would be owned by nobody.
DeleteResult ==
  /\ gui = "deleting"
  /\ mailbox' = None
  /\ gui' = "idle"
  /\ leaked' = IF mailbox # answer THEN leaked \union {"result"} ELSE leaked
  /\ UNCHANGED <<issued, answer, handled, notified, pending, rdVars, gdbVars>>

\* The event loop hands the oldest pending record to OnGdbProcessData.  Its
\* handler may issue commands: they are the next WriteCommand steps.
HandlePending ==
  /\ gui = "idle"
  /\ pending # <<>>
  /\ handled' = Head(pending)
  /\ pending' = Tail(pending)
  /\ UNCHANGED <<gui, issued, answer, mailbox, notified, leaked, rdVars, gdbVars>>
-----------------------------------------------------------------------------
(* The reader thread.                                                      *)

ReadLine(kind) ==
  /\ reader = "pump"
  /\ fromGdb # <<>>
  /\ Head(fromGdb).kind = kind
  /\ fromGdb' = Tail(fromGdb)
  /\ UNCHANGED <<guiVars, toGdb, emitted, streams, gdbAlive>>

\* Mutants: the record is not queued and forgotten; it overtakes those queued.
ReadAsyncDropped ==
  /\ ReadLine("async")
  /\ leaked' = leaked \union {"async"}
  /\ UNCHANGED <<mailbox, notified, pending, rdVars>>
ReadAsyncFirst ==
  /\ ReadLine("async")
  /\ pending' = <<Head(fromGdb).no>> \o pending
  /\ UNCHANGED <<mailbox, notified, leaked, rdVars>>

ReadAsync ==
  /\ ReadLine("async")
  /\ pending' = Append(pending, Head(fromGdb).no)
  /\ UNCHANGED <<mailbox, notified, leaked, rdVars>>

\* handleMiOutput neither queues nor deletes an out-of-band record that is
\* not asynchronous.
ReadStream ==
  /\ ReadLine("stream")
  /\ leaked' = leaked \union {"stream"}
  /\ UNCHANGED <<mailbox, notified, pending, rdVars>>

ReadResultLine ==
  /\ ReadLine("result")
  /\ reader' = "result"
  /\ inHand' = Head(fromGdb).no
  /\ UNCHANGED <<shared, lost>>

\* Mutant: no notify_one.
StoreResultQuietly ==
  /\ reader = "result"
  /\ mailbox' = inHand
  /\ reader' = "pump" /\ inHand' = None
  /\ UNCHANGED <<guiVars, notified, pending, leaked, lost, gdbVars>>

\* handleMiOutput with _gdbCmdMutex held: the old value is overwritten.
StoreResult ==
  /\ reader = "result"
  /\ mailbox' = inHand
  /\ leaked' = IF mailbox # None THEN leaked \union {"result"} ELSE leaked
  /\ notified' = (notified \/ gui = "asleep")
  /\ reader' = "pump"
  /\ inHand' = None
  /\ UNCHANGED <<guiVars, pending, lost, gdbVars>>

\* parse returns nullptr: the line is gone.
DropLine(kind) ==
  /\ LinesMayBeUnparsable
  /\ ReadLine(kind)
  /\ lost' = lost \union {kind}
  /\ UNCHANGED <<shared, reader, inHand>>

\* read() fails once gdb is gone and everything it wrote has been read:
\* handleData and pumpData return false and the thread ends, telling nobody.
ReaderEnds ==
  /\ reader = "pump"
  /\ ~ gdbAlive /\ fromGdb = <<>>
  /\ reader' = "ended"
  /\ UNCHANGED <<guiVars, shared, inHand, lost, gdbVars>>
-----------------------------------------------------------------------------
(* gdb: one result per command, out-of-band records at any time.           *)

Answer ==
  /\ gdbAlive
  /\ toGdb # <<>>
  /\ toGdb' = Tail(toGdb)
  /\ fromGdb' = Append(fromGdb, Result(Head(toGdb)))
  /\ UNCHANGED <<guiVars, shared, rdVars, emitted, streams, gdbAlive>>

EmitAsync ==
  /\ gdbAlive
  /\ emitted < MaxRecords
  /\ emitted' = emitted + 1
  /\ fromGdb' = Append(fromGdb, Async(emitted + 1))
  /\ UNCHANGED <<guiVars, shared, rdVars, toGdb, streams, gdbAlive>>

EmitStream ==
  /\ gdbAlive
  /\ streams < MaxRecords
  /\ streams' = streams + 1
  /\ fromGdb' = Append(fromGdb, Stream)
  /\ UNCHANGED <<guiVars, shared, rdVars, toGdb, emitted, gdbAlive>>

Die ==
  /\ GdbMayDie
  /\ gdbAlive
  /\ gdbAlive' = FALSE
  /\ toGdb' = <<>>
  /\ UNCHANGED <<guiVars, shared, rdVars, fromGdb, emitted, streams>>
-----------------------------------------------------------------------------
Gui == WriteCommand \/ AwaitResult \/ WakeUp \/ ReadResult \/ DeleteResult \/ HandlePending
Reader == \/ ReadAsync \/ ReadStream \/ ReadResultLine \/ StoreResult \/ ReaderEnds
          \/ \E kind \in {"async", "stream", "result"} : DropLine(kind)
Gdb == Answer \/ EmitAsync \/ EmitStream \/ Die

Next == Gui \/ Reader \/ Gdb

Spec == Init /\ [][Next]_vars

\* The operating system runs both threads and gdb executes what it is sent;
\* the GUI thread is not obliged to issue commands, gdb not to emit records.
Fairness ==
  /\ WF_vars(AwaitResult \/ WakeUp \/ ReadResult \/ DeleteResult)
  /\ WF_vars(HandlePending)
  /\ WF_vars(Reader)
  /\ WF_vars(Answer)

FairSpec == Spec /\ Fairness
-----------------------------------------------------------------------------
Waiting == gui \in {"written", "asleep"}
ResultAt(i) == i \in 1..Len(fromGdb) /\ fromGdb[i].kind = "result"
ResultOnWire == \E i \in 1..Len(fromGdb) : fromGdb[i].kind = "result"

(* The places a command, and then its result, goes through.  At most one of
   them is occupied, only while the GUI thread is inside the call, and what
   is there belongs to that call.                                          *)
AtGdb ==
  toGdb # <<>> => /\ Waiting /\ toGdb = <<issued>>
                  /\ ~ ResultOnWire /\ reader # "result" /\ mailbox = None
OnWire ==
  ResultOnWire => /\ Waiting
                  /\ \A i \in 1..Len(fromGdb) : ResultAt(i) => fromGdb[i].no = issued
                  /\ \A i, j \in 1..Len(fromGdb) : ResultAt(i) /\ ResultAt(j) => i = j
                  /\ reader # "result" /\ mailbox = None
InHand ==
  IF reader = "result" THEN Waiting /\ inHand = issued /\ mailbox = None
                       ELSE inHand = None
InMailbox == mailbox # None => gui # "idle" /\ mailbox = issued
Received ==
  /\ gui \in {"reading", "deleting"} => mailbox = issued /\ mailbox # None
  /\ gui = "deleting" => answer = issued
CallNumbered == gui # "idle" => issued > 0

\* A call that has returned, returned its own result.
OwnResult == gui = "idle" => answer = issued

\* The inductive invariant of the channel.
ChannelInv ==
  /\ AtGdb /\ OnWire /\ InHand /\ InMailbox /\ Received /\ CallNumbered
  /\ OwnResult

\* The reader never writes the mailbox while the GUI thread is using it
\* without the lock: the unlocked accesses of simpleResultCommand and
\* deleteResultRecord are race free, by the protocol alone.
NoUnlockedRace ==
  gui \in {"reading", "deleting"} =>
    /\ reader # "result" /\ toGdb = <<>> /\ ~ ResultOnWire

\* Every result record is freed by the call it belongs to: none is
\* overwritten in the mailbox (handleMiOutput) or forgotten by a delete.
ResultsAreFreed == "result" \notin leaked

\* Asynchronous records reach the GUI thread in the order gdb emitted them
\* and none of them twice, whatever lines are dropped on the way.
AsyncAt(i) == i \in 1..Len(fromGdb) /\ fromGdb[i].kind = "async"
InOrder ==
  /\ handled <= emitted
  /\ \A i \in 1..Len(pending) : handled < pending[i] /\ pending[i] <= emitted
  /\ \A i, j \in 1..Len(pending) : i < j => pending[i] < pending[j]
  /\ \A i \in 1..Len(fromGdb) : AsyncAt(i) =>
       /\ handled < fromGdb[i].no /\ fromGdb[i].no <= emitted
       /\ \A j \in 1..Len(pending) : pending[j] < fromGdb[i].no
  /\ \A i, j \in 1..Len(fromGdb) :
       AsyncAt(i) /\ AsyncAt(j) /\ i < j => fromGdb[i].no < fromGdb[j].no

\* A command returns, the GUI thread is not left inside writeCommandBlock,
\* unless gdb dies or a result cannot be parsed.
CommandReturns == gui = "written" ~> gui = "idle" \/ ~ gdbAlive \/ "result" \in lost

\* Every asynchronous record gdb emits is handled in the end, unless it
\* cannot be parsed or the GUI thread hangs.
RecordsHandled ==
  \A n \in 1..MaxRecords :
    emitted >= n ~> handled >= n \/ ~ gdbAlive \/ lost \intersect {"result", "async"} # {}

\* The call, seen from outside, ends when the GUI thread takes the result.
Sync == INSTANCE SyncCommand
          WITH calls <- issued, active <- gui \in {"written", "asleep", "reading"}
SyncSpec == Sync!Spec
=============================================================================
