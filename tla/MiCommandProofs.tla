-------------------------- MODULE MiCommandProofs --------------------------
(***************************************************************************)
(* Proofs about the command channel, for every bound and with every fault. *)
(***************************************************************************)
EXTENDS MiCommand, SequenceTheorems, TLAPS

\* The state of MiCommand keeps its type.
THEOREM TypeCorrect == Spec => []TypeOK
<1>1. Init => TypeOK
  <2>1. <<>> \in Seq(Nat) /\ <<>> \in Seq(Line)
    BY EmptySeq
  <2> SUFFICES ASSUME Init PROVE TypeOK
    OBVIOUS
  <2>2. pending \in Seq(Nat) /\ toGdb \in Seq(Nat) /\ fromGdb \in Seq(Line)
    BY <2>1 DEF Init
  <2>3. notified \in BOOLEAN /\ gdbAlive \in BOOLEAN /\ lost \in SUBSET {"result", "async", "stream"}
    BY DEF Init
  <2>4. leaked \in SUBSET {"stream", "result"}
    BY DEF Init
  <2>5. /\ issued \in Nat /\ answer \in Nat /\ handled \in Nat /\ mailbox \in Nat
        /\ inHand \in Nat /\ emitted \in Nat /\ streams \in Nat
    BY DEF Init, None
  <2> QED BY <2>2, <2>3, <2>4, <2>5 DEF Init, TypeOK
<1>2. TypeOK /\ [Next]_vars => TypeOK'
  <2> SUFFICES ASSUME TypeOK, [Next]_vars PROVE TypeOK'
    OBVIOUS
  <2> USE DEF TypeOK, None
  <2>1. CASE WriteCommand
    BY <2>1 DEF WriteCommand, shared, rdVars
  <2>2. CASE AwaitResult
    BY <2>2 DEF AwaitResult, shared, rdVars, gdbVars
  <2>3. CASE WakeUp
    BY <2>3 DEF WakeUp, rdVars, gdbVars
  <2>4. CASE ReadResult
    BY <2>4 DEF ReadResult, shared, rdVars, gdbVars
  <2>5. CASE DeleteResult
    BY <2>5 DEF DeleteResult, rdVars, gdbVars
  <2>6. CASE HandlePending
    <3>1. Head(pending) \in Nat /\ Tail(pending) \in Seq(Nat)
      BY <2>6 DEF HandlePending
    <3> QED BY <2>6, <3>1 DEF HandlePending, rdVars, gdbVars
  <2>7. ASSUME NEW kind \in {"async", "stream", "result"}, ReadLine(kind)
        PROVE  Head(fromGdb) \in Line /\ fromGdb' \in Seq(Line)
    BY <2>7 DEF ReadLine
  <2>8. CASE ReadAsync
    <3>1. Head(fromGdb).no \in Nat
      BY <2>8, <2>7 DEF ReadAsync, Line
    <3> QED BY <2>8, <2>7, <3>1 DEF ReadAsync, ReadLine, guiVars, rdVars
  <2>9. CASE ReadStream
    BY <2>9, <2>7 DEF ReadStream, ReadLine, guiVars, rdVars
  <2>10. CASE ReadResultLine
    <3>1. Head(fromGdb).no \in Nat
      BY <2>10, <2>7 DEF ReadResultLine, Line
    <3> QED BY <2>10, <2>7, <3>1 DEF ReadResultLine, ReadLine, guiVars, shared
  <2>11. CASE StoreResult
    BY <2>11 DEF StoreResult, guiVars, gdbVars
  <2>12. CASE \E kind \in {"async", "stream", "result"} : DropLine(kind)
    BY <2>12, <2>7 DEF DropLine, ReadLine, guiVars, shared
  <2>13. CASE ReaderEnds
    BY <2>13 DEF ReaderEnds, guiVars, shared, gdbVars
  <2>14. CASE Answer
    <3>1. /\ Head(toGdb) \in Nat /\ Tail(toGdb) \in Seq(Nat)
          /\ Result(Head(toGdb)) \in Line
      BY <2>14 DEF Answer, Result, Line
    <3> QED BY <2>14, <3>1 DEF Answer, guiVars, shared, rdVars
  <2>15. CASE EmitAsync
    <3>1. Async(emitted + 1) \in Line
      BY DEF Async, Line
    <3> QED BY <2>15, <3>1 DEF EmitAsync, guiVars, shared, rdVars
  <2>16. CASE EmitStream
    <3>1. Stream \in Line
      BY DEF Stream, Line
    <3> QED BY <2>16, <3>1 DEF EmitStream, guiVars, shared, rdVars
  <2>17. CASE Die
    BY <2>17, EmptySeq DEF Die, guiVars, shared, rdVars
  <2>18. CASE UNCHANGED vars
    BY <2>18 DEF vars, guiVars, shared, rdVars, gdbVars
  <2> QED
    BY <2>1, <2>2, <2>3, <2>4, <2>5, <2>6, <2>8, <2>9, <2>10, <2>11, <2>12,
       <2>13, <2>14, <2>15, <2>16, <2>17, <2>18 DEF Next, Gui, Reader, Gdb
<1> QED BY <1>1, <1>2, PTL DEF Spec
-----------------------------------------------------------------------------
\* What reading a line does to the results on the wire: they move up one
\* place and none appears.
LEMMA ReadKeepsResults ==
  ASSUME TypeOK, NEW kind, ReadLine(kind)
  PROVE  /\ fromGdb \in Seq(Line) /\ fromGdb # <<>>
         /\ fromGdb' \in Seq(Line) /\ Len(fromGdb') = Len(fromGdb) - 1
         /\ \A i \in 1..Len(fromGdb') : i + 1 \in 1..Len(fromGdb) /\ fromGdb'[i] = fromGdb[i + 1]
         /\ fromGdb[1].kind = kind /\ 1 \in 1..Len(fromGdb)
         /\ ResultOnWire' => ResultOnWire
  <1>1. /\ fromGdb \in Seq(Line) /\ fromGdb # <<>> /\ fromGdb' = Tail(fromGdb)
        /\ fromGdb[1].kind = kind
    BY DEF ReadLine, TypeOK
  <1>2. /\ fromGdb' \in Seq(Line) /\ Len(fromGdb') = Len(fromGdb) - 1
        /\ \A i \in 1..Len(fromGdb') : i + 1 \in 1..Len(fromGdb) /\ fromGdb'[i] = fromGdb[i + 1]
        /\ 1 \in 1..Len(fromGdb)
    BY <1>1
  <1> QED BY <1>1, <1>2 DEF ResultOnWire

\* What gdb does to them by writing a line.
LEMMA WriteKeepsResults ==
  ASSUME TypeOK, NEW l \in Line, fromGdb' = Append(fromGdb, l)
  PROVE  /\ fromGdb \in Seq(Line) /\ fromGdb' \in Seq(Line)
         /\ Len(fromGdb') = Len(fromGdb) + 1
         /\ \A i \in 1..Len(fromGdb) : i \in 1..Len(fromGdb') /\ fromGdb'[i] = fromGdb[i]
         /\ \A i \in 1..Len(fromGdb') : i \in 1..Len(fromGdb) \/ i = Len(fromGdb')
         /\ fromGdb'[Len(fromGdb')] = l
         /\ ResultOnWire' <=> (ResultOnWire \/ l.kind = "result")
  <1>1. fromGdb \in Seq(Line)
    BY DEF TypeOK
  <1>2. /\ fromGdb' \in Seq(Line)
        /\ Len(fromGdb') = Len(fromGdb) + 1
        /\ \A i \in 1..Len(fromGdb) : i \in 1..Len(fromGdb') /\ fromGdb'[i] = fromGdb[i]
        /\ \A i \in 1..Len(fromGdb') : i \in 1..Len(fromGdb) \/ i = Len(fromGdb')
        /\ fromGdb'[Len(fromGdb')] = l
    BY <1>1
  <1>3. Len(fromGdb') \in 1..Len(fromGdb')
    BY <1>1, <1>2
  <1> QED BY <1>1, <1>2, <1>3 DEF ResultOnWire

\* No command is under way at first.
LEMMA ChannelInit == Init => ChannelInv
  BY EmptySeq DEF Init, ChannelInv, AtGdb, OnWire, InHand, InMailbox, Received,
                  CallNumbered, OwnResult, ResultOnWire, None

\* A command and its result move from one place to the next, alone.
LEMMA ChannelStep ==
  ASSUME TypeOK, ChannelInv, [Next]_vars
  PROVE  ChannelInv'
<1> USE DEF ChannelInv, AtGdb, OnWire, InHand, InMailbox, Received,
            CallNumbered, OwnResult, Waiting, ResultAt, None
<1>1. CASE WriteCommand
  <2>1. ~ ResultOnWire /\ toGdb = <<>> /\ reader # "result" /\ mailbox = None
    BY <1>1 DEF WriteCommand
  <2>2. fromGdb' = fromGdb /\ ~ ResultOnWire'
    BY <1>1, <2>1 DEF WriteCommand, ResultOnWire
  <2>3. toGdb' \in {<<>>, <<issued'>>}
    BY <1>1, <2>1 DEF WriteCommand
  <2> QED BY <1>1, <2>1, <2>2, <2>3 DEF WriteCommand, shared, rdVars, TypeOK
<1>2. CASE AwaitResult
  BY <1>2 DEF AwaitResult, shared, rdVars, gdbVars, ResultOnWire, TypeOK
<1>3. CASE WakeUp
  BY <1>3 DEF WakeUp, rdVars, gdbVars, ResultOnWire, TypeOK
<1>4. CASE ReadResult
  BY <1>4 DEF ReadResult, shared, rdVars, gdbVars, ResultOnWire, TypeOK
<1>5. CASE DeleteResult
  BY <1>5 DEF DeleteResult, rdVars, gdbVars, ResultOnWire, TypeOK
<1>6. CASE HandlePending
  BY <1>6 DEF HandlePending, rdVars, gdbVars, ResultOnWire, TypeOK
<1>7. ASSUME NEW kind \in {"async", "stream", "result"}, ReadLine(kind),
             kind # "result" \/ DropLine(kind),
             UNCHANGED <<mailbox, reader, inHand>>
      PROVE  ChannelInv'
  BY <1>7, ReadKeepsResults DEF ReadLine, guiVars
<1>8. CASE ReadAsync \/ ReadStream
  BY <1>7, <1>8 DEF ReadAsync, ReadStream, rdVars
<1>9. CASE \E kind \in {"async", "stream", "result"} : DropLine(kind)
  BY <1>7, <1>9 DEF DropLine, shared
<1>10. CASE ReadResultLine
  <2>1. ReadLine("result") /\ reader' = "result" /\ inHand' = fromGdb[1].no
    BY <1>10, ReadKeepsResults DEF ReadResultLine, ReadLine
  <2>2. ResultOnWire /\ inHand' = issued
    BY <2>1, ReadKeepsResults DEF ResultOnWire
  <2>3. ~ ResultOnWire'
    BY <2>1, <2>2, ReadKeepsResults DEF ResultOnWire
  <2>4. UNCHANGED <<guiVars, shared, toGdb>>
    BY <1>10 DEF ReadResultLine, ReadLine
  <2> QED BY <2>1, <2>2, <2>3, <2>4 DEF guiVars, shared
<1>11. CASE StoreResult
  BY <1>11 DEF StoreResult, guiVars, gdbVars, ResultOnWire, TypeOK
<1>12. CASE ReaderEnds
  BY <1>12 DEF ReaderEnds, guiVars, shared, gdbVars, ResultOnWire, TypeOK
<1>13. CASE Answer
  <2>1. /\ toGdb = <<issued>> /\ Waiting /\ ~ ResultOnWire
        /\ reader # "result" /\ mailbox = None
    BY <1>13 DEF Answer
  <2>2. /\ toGdb' = <<>> /\ Head(toGdb) = issued
        /\ fromGdb' = Append(fromGdb, Result(issued)) /\ Result(issued) \in Line
        /\ Result(issued).no = issued
    BY <1>13, <2>1 DEF Answer, Result, Line, TypeOK
  <2>3. /\ \A i \in 1..Len(fromGdb') : ResultAt(i)' => i = Len(fromGdb')
        /\ fromGdb'[Len(fromGdb')].no = issued
    BY <2>1, <2>2, WriteKeepsResults DEF ResultOnWire
  <2> QED BY <1>13, <2>1, <2>2, <2>3 DEF Answer, guiVars, shared, rdVars
<1>14. ASSUME NEW l \in Line, fromGdb' = Append(fromGdb, l), l.kind # "result",
              UNCHANGED <<guiVars, shared, rdVars, toGdb>>
       PROVE  ChannelInv'
  <2>1. ResultOnWire' <=> ResultOnWire
    BY <1>14, WriteKeepsResults
  <2>2. \A i \in 1..Len(fromGdb') : ResultAt(i)' => ResultAt(i) /\ fromGdb'[i] = fromGdb[i]
    BY <1>14, WriteKeepsResults
  <2> QED BY <1>14, <2>1, <2>2 DEF guiVars, shared, rdVars
<1>15. CASE EmitAsync
  <2>1. Async(emitted + 1) \in Line /\ Async(emitted + 1).kind # "result"
    BY DEF Async, Line, TypeOK
  <2> QED BY <1>14, <1>15, <2>1 DEF EmitAsync
<1>16. CASE EmitStream
  BY <1>14, <1>16 DEF EmitStream, Stream, Line, TypeOK
<1>17. CASE Die
  BY <1>17 DEF Die, guiVars, shared, rdVars, ResultOnWire
<1>18. CASE UNCHANGED vars
  BY <1>18 DEF vars, guiVars, shared, rdVars, gdbVars, ResultOnWire
<1> QED
  BY <1>1, <1>2, <1>3, <1>4, <1>5, <1>6, <1>8, <1>9, <1>10, <1>11, <1>12,
     <1>13, <1>15, <1>16, <1>17, <1>18 DEF Next, Gui, Reader, Gdb

\* The channel's inductive invariant: a command, and then its result, is in
\* at most one place, and every result found is the one being waited for.
THEOREM ChannelCorrect == Spec => []ChannelInv
  BY ChannelInit, ChannelStep, TypeCorrect, PTL DEF Spec

\* The mailbox is never written while the GUI thread uses it unlocked.
THEOREM RaceFree == Spec => []NoUnlockedRace
<1>1. TypeOK /\ ChannelInv => NoUnlockedRace
  BY DEF TypeOK, ChannelInv, AtGdb, OnWire, InHand, Waiting, NoUnlockedRace
<1> QED BY <1>1, TypeCorrect, ChannelCorrect, PTL

\* No result record is ever lost to an overwrite or to a wrong delete.
THEOREM NoResultLeak == Spec => []ResultsAreFreed
<1>1. Init => ResultsAreFreed
  BY DEF Init, ResultsAreFreed
<1>2. ChannelInv /\ ResultsAreFreed /\ [Next]_vars => ResultsAreFreed'
  <2> SUFFICES ASSUME ChannelInv, ResultsAreFreed, [Next]_vars PROVE ResultsAreFreed'
    OBVIOUS
  <2> USE DEF ResultsAreFreed
  <2>1. CASE DeleteResult
    BY <2>1 DEF DeleteResult, ChannelInv, Received
  <2>2. CASE StoreResult
    BY <2>2 DEF StoreResult, ChannelInv, InHand
  <2>3. CASE ReadStream
    BY <2>3 DEF ReadStream
  <2>4. CASE UNCHANGED leaked
    BY <2>4
  <2> QED
    BY <2>1, <2>2, <2>3, <2>4
       DEF Next, Gui, Reader, Gdb, WriteCommand, AwaitResult, WakeUp, ReadResult,
           HandlePending, ReadAsync, ReadResultLine, DropLine, ReaderEnds, Answer,
           EmitAsync, EmitStream, Die, vars, shared
<1> QED BY <1>1, <1>2, ChannelCorrect, PTL DEF Spec
-----------------------------------------------------------------------------
\* The lines on the wire are lines.
LEMMA LinesHaveType ==
  ASSUME TypeOK, NEW i \in 1..Len(fromGdb)
  PROVE  fromGdb[i] \in Line /\ fromGdb[i].no \in Nat
  <1>1. fromGdb \in Seq(Line)
    BY DEF TypeOK
  <1>2. fromGdb[i] \in Line
    BY <1>1
  <1> QED BY <1>2 DEF Line

\* No record is under way at first.
LEMMA OrderInit == Init => InOrder
  BY EmptySeq DEF Init, InOrder, AsyncAt

\* Records on the wire move up, pending records stay or grow at the end.
LEMMA OrderStep ==
  ASSUME TypeOK, InOrder, [Next]_vars
  PROVE  InOrder'
<1> USE DEF InOrder, AsyncAt
<1>1. CASE UNCHANGED <<handled, emitted, pending, fromGdb>>
  BY <1>1
<1>2. CASE HandlePending
  <2>1. /\ pending \in Seq(Nat) /\ pending # <<>> /\ handled' = pending[1]
        /\ pending' = Tail(pending) /\ UNCHANGED <<emitted, fromGdb>>
    BY <1>2 DEF HandlePending, gdbVars, TypeOK
  <2>2. /\ Len(pending') = Len(pending) - 1 /\ 1 \in 1..Len(pending)
        /\ \A i \in 1..Len(pending') : i + 1 \in 1..Len(pending) /\ pending'[i] = pending[i + 1]
    BY <2>1
  <2>3. handled \in Nat /\ emitted \in Nat /\ \A i \in 1..Len(pending) : pending[i] \in Nat
    BY <2>1 DEF TypeOK
  <2> QED BY <2>1, <2>2, <2>3
<1>3. ASSUME NEW kind \in {"async", "stream", "result"}, ReadLine(kind)
      PROVE  /\ \A i \in 1..Len(fromGdb') : AsyncAt(i)' =>
                  AsyncAt(i + 1) /\ fromGdb'[i] = fromGdb[i + 1] /\ 1 < i + 1
             /\ \A i, j \in 1..Len(fromGdb') :
                  AsyncAt(i)' /\ AsyncAt(j)' /\ i < j => fromGdb'[i].no < fromGdb'[j].no
  <2>1. \A i \in 1..Len(fromGdb') : AsyncAt(i)' =>
           AsyncAt(i + 1) /\ fromGdb'[i] = fromGdb[i + 1] /\ 1 < i + 1
    BY <1>3, ReadKeepsResults
  <2> SUFFICES ASSUME NEW i \in 1..Len(fromGdb'), NEW j \in 1..Len(fromGdb'),
                      AsyncAt(i)', AsyncAt(j)', i < j
               PROVE  fromGdb'[i].no < fromGdb'[j].no
    BY <2>1
  <2>2. AsyncAt(i + 1) /\ AsyncAt(j + 1) /\ i + 1 < j + 1
    BY <2>1
  <2>3. fromGdb[i + 1].no < fromGdb[j + 1].no
    BY <2>2
  <2> QED BY <2>1, <2>3
<1>3a. ASSUME NEW kind \in {"async", "stream", "result"}, ReadLine(kind),
              UNCHANGED <<handled, emitted, pending>>
       PROVE  InOrder'
  BY <1>3, <1>3a
<1>4. CASE ReadAsync
  <2>1. /\ ReadLine("async") /\ UNCHANGED <<handled, emitted>>
        /\ pending' = Append(pending, fromGdb[1].no)
    BY <1>4, ReadKeepsResults DEF ReadAsync, ReadLine, guiVars
  <2>2. /\ pending \in Seq(Nat) /\ fromGdb[1].no \in Nat /\ AsyncAt(1)
    <3>1. fromGdb \in Seq(Line) /\ 1 \in 1..Len(fromGdb) /\ fromGdb[1].kind = "async"
      BY <2>1, ReadKeepsResults
    <3>2. fromGdb[1] \in Line
      BY <3>1
    <3> QED BY <3>1, <3>2 DEF TypeOK, Line
  <2>0. \A i \in 1..Len(fromGdb') : AsyncAt(i)' =>
           AsyncAt(i + 1) /\ fromGdb'[i] = fromGdb[i + 1] /\ 1 < i + 1
    BY <1>3, <2>1
  <2>3. /\ Len(pending') = Len(pending) + 1
        /\ \A i \in 1..Len(pending) : pending'[i] = pending[i]
        /\ pending'[Len(pending')] = fromGdb[1].no
        /\ \A i \in 1..Len(pending') : i \in 1..Len(pending) \/ i = Len(pending')
    BY <2>1, <2>2
  <2>4. \A i \in 1..Len(fromGdb') : AsyncAt(i)' => fromGdb[1].no < fromGdb'[i].no
    BY <2>0, <2>2
  <2>5. \A i \in 1..Len(pending') : handled < pending'[i] /\ pending'[i] <= emitted
    BY <2>2, <2>3
  <2>6. \A i, j \in 1..Len(pending') : i < j => pending'[i] < pending'[j]
    BY <2>2, <2>3
  <2>7. \A i \in 1..Len(fromGdb') : AsyncAt(i)' =>
           /\ handled < fromGdb'[i].no /\ fromGdb'[i].no <= emitted
           /\ \A j \in 1..Len(pending') : pending'[j] < fromGdb'[i].no
    BY <2>0, <2>3, <2>4
  <2>8. \A i, j \in 1..Len(fromGdb') :
           AsyncAt(i)' /\ AsyncAt(j)' /\ i < j => fromGdb'[i].no < fromGdb'[j].no
    BY <1>3, <2>1
  <2> QED BY <2>1, <2>5, <2>6, <2>7, <2>8
<1>5. ASSUME NEW l \in Line, fromGdb' = Append(fromGdb, l), UNCHANGED <<handled, pending>>,
             \/ l.kind # "async" /\ emitted' = emitted
             \/ l.no = emitted + 1 /\ emitted' = emitted + 1
      PROVE  InOrder'
  <2>0. \A i \in 1..Len(fromGdb') : AsyncAt(i)' =>
           \/ AsyncAt(i) /\ fromGdb'[i] = fromGdb[i] /\ i < Len(fromGdb')
           \/ i = Len(fromGdb') /\ fromGdb'[i] = l
    BY <1>5, WriteKeepsResults
  <2>1. handled' <= emitted'
    BY <1>5 DEF TypeOK
  <2>2. \A i \in 1..Len(pending') : handled' < pending'[i] /\ pending'[i] <= emitted'
    BY <1>5 DEF TypeOK
  <2>3. \A i, j \in 1..Len(pending') : i < j => pending'[i] < pending'[j]
    BY <1>5
  <2>4. \A i \in 1..Len(fromGdb') : AsyncAt(i)' =>
           /\ handled' < fromGdb'[i].no /\ fromGdb'[i].no <= emitted'
           /\ \A j \in 1..Len(pending') : pending'[j] < fromGdb'[i].no
    <3>1. ASSUME NEW i \in 1..Len(fromGdb'), AsyncAt(i) /\ fromGdb'[i] = fromGdb[i]
          PROVE  /\ handled' < fromGdb'[i].no /\ fromGdb'[i].no <= emitted'
                 /\ \A j \in 1..Len(pending') : pending'[j] < fromGdb'[i].no
      <4>1. fromGdb[i].no \in Nat
        BY <3>1, LinesHaveType
      <4>2. emitted \in Nat
        BY DEF TypeOK
      <4> QED BY <1>5, <3>1, <4>1, <4>2
    <3>2. ASSUME l.kind = "async"
          PROVE  /\ handled' < l.no /\ l.no <= emitted'
                 /\ \A j \in 1..Len(pending') : pending'[j] < l.no
      <4>1. /\ emitted \in Nat /\ handled \in Nat /\ pending \in Seq(Nat)
            /\ emitted' = emitted + 1 /\ l.no = emitted + 1
        BY <1>5, <3>2 DEF TypeOK
      <4>2. \A j \in 1..Len(pending') : pending'[j] \in Nat /\ pending'[j] <= emitted
        BY <1>5, <4>1
      <4> QED BY <1>5, <3>2, <4>1, <4>2
    <3> QED BY <2>0, <3>1, <3>2
  <2>5. \A i, j \in 1..Len(fromGdb') :
           AsyncAt(i)' /\ AsyncAt(j)' /\ i < j => fromGdb'[i].no < fromGdb'[j].no
    <3> SUFFICES ASSUME NEW i \in 1..Len(fromGdb'), NEW j \in 1..Len(fromGdb'),
                        AsyncAt(i)', AsyncAt(j)', i < j
                 PROVE  fromGdb'[i].no < fromGdb'[j].no
      OBVIOUS
    <3>1. AsyncAt(i) /\ fromGdb'[i] = fromGdb[i]
      BY <2>0, <1>5, WriteKeepsResults
    <3>2. fromGdb[i].no \in Nat /\ fromGdb[i].no <= emitted
      BY <3>1, LinesHaveType
    <3>3. CASE AsyncAt(j) /\ fromGdb'[j] = fromGdb[j]
      BY <3>1, <3>3
    <3>4. CASE fromGdb'[j] = l
      BY <1>5, <3>1, <3>2, <3>4 DEF TypeOK
    <3> QED BY <2>0, <3>3, <3>4
  <2> QED BY <2>1, <2>2, <2>3, <2>4, <2>5
<1>6. CASE ReadStream \/ ReadResultLine \/ \E kind \in {"async", "stream", "result"} : DropLine(kind)
  BY <1>3a, <1>6 DEF ReadStream, ReadResultLine, DropLine, ReadLine, guiVars, shared
<1>7. CASE Answer
  <2>1. Result(Head(toGdb)) \in Line /\ Result(Head(toGdb)).kind # "async"
    BY <1>7 DEF Answer, Result, Line, TypeOK
  <2> QED BY <1>5, <1>7, <2>1 DEF Answer, guiVars, shared
<1>8. CASE EmitAsync
  <2>1. Async(emitted + 1) \in Line /\ Async(emitted + 1).no = emitted + 1
    BY DEF Async, Line, TypeOK
  <2> QED BY <1>5, <1>8, <2>1 DEF EmitAsync, guiVars, shared
<1>9. CASE EmitStream
  BY <1>5, <1>9 DEF EmitStream, Stream, Line, guiVars, shared
<1> QED
  BY <1>1, <1>2, <1>4, <1>6, <1>7, <1>8, <1>9
     DEF Next, Gui, Reader, Gdb, WriteCommand, AwaitResult, WakeUp, ReadResult, DeleteResult,
         StoreResult, ReaderEnds, Die, vars, guiVars, shared, rdVars, gdbVars

\* Asynchronous records are never overtaken and never handled twice.
THEOREM RecordsInOrder == Spec => []InOrder
  BY OrderInit, OrderStep, TypeCorrect, PTL DEF Spec
-----------------------------------------------------------------------------
\* A step of the channel is a step of a procedure call, or none.
LEMMA SyncStep ==
  ASSUME TypeOK, ChannelInv, InOrder, [Next]_vars
  PROVE  [Sync!Next]_(Sync!vars)
<1> USE DEF Sync!vars
<1>1. CASE WriteCommand
  <2>1. Sync!Call
    BY <1>1 DEF WriteCommand, Sync!Call
  <2> QED BY <2>1 DEF Sync!Next
<1>2. CASE ReadResult
  <2>1. Sync!Return
    BY <1>2 DEF ReadResult, Sync!Return, gdbVars, ChannelInv, Received
  <2> QED BY <2>1 DEF Sync!Next
<1>3. CASE HandlePending
  <2>1. 1 \in 1..Len(pending) /\ pending[1] \in Nat /\ handled' = pending[1]
    BY <1>3 DEF HandlePending, TypeOK
  <2>2. handled' \in (handled + 1) .. emitted
    BY <2>1 DEF InOrder, TypeOK
  <2>3. Sync!Handle
    BY <1>3, <2>2 DEF HandlePending, Sync!Handle, gdbVars
  <2> QED BY <2>3 DEF Sync!Next
<1>4. CASE EmitAsync
  <2>1. Sync!Emit
    BY <1>4 DEF EmitAsync, Sync!Emit, guiVars
  <2> QED BY <2>1 DEF Sync!Next
<1>5. CASE AwaitResult \/ WakeUp \/ DeleteResult
  BY <1>5 DEF AwaitResult, WakeUp, DeleteResult, gdbVars
<1>6. CASE Reader \/ Answer \/ EmitStream \/ Die \/ UNCHANGED vars
  BY <1>6 DEF Reader, ReadAsync, ReadStream, ReadResultLine, StoreResult, DropLine, ReadLine,
     ReaderEnds, Answer, EmitStream, Die, vars, guiVars, gdbVars
<1> QED BY <1>1, <1>2, <1>3, <1>4, <1>5, <1>6 DEF Next, Gui, Gdb

\* The threads, the mailbox and the condition variable implement procedure
\* calls that return their own result and records handled in order.
THEOREM ImplementsSync == Spec => SyncSpec
<1>1. Init => Sync!Init
  BY DEF Init, Sync!Init
<1> QED
  BY <1>1, SyncStep, TypeCorrect, ChannelCorrect, RecordsInOrder, PTL DEF Spec, SyncSpec, Sync!Spec
=============================================================================
