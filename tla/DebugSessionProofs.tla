------------------------- MODULE DebugSessionProofs -------------------------
(***************************************************************************)
(* Proofs about the session, for every bound and every choice of faults.   *)
(***************************************************************************)
EXTENDS DebugSession, SequenceTheorems, TLAPS

\* The queues hold events and records.
QueuesOK == pending \in Seq(Events) /\ wire \in Seq(Records)

\* Taking the head of the queue of events leaves a queue of events.
LEMMA TakeKeepsType ==
  ASSUME QueuesOK, NEW event, Take(event)
  PROVE  /\ event \in Events /\ pending # <<>>
         /\ Tail(pending) \in Seq(Events)
         /\ wire' = wire
BY DEF QueuesOK, Take

\* The queues keep their type.
LEMMA QueuesStep == QueuesOK /\ [Next]_vars => QueuesOK'
<1> SUFFICES ASSUME QueuesOK, [Next]_vars PROVE QueuesOK'
  OBVIOUS
<1> USE DEF QueuesOK
<1>1. /\ \A w \in Seq(Records), r \in Records : Append(w, r) \in Seq(Records)
      /\ \A p \in Seq(Events), e \in Events : Append(p, e) \in Seq(Events)
      /\ <<>> \in Seq(Records) /\ <<"hit">> \in Seq(Records)
      /\ Records \subseteq Events
      /\ {"running", "hit", "signal", "exit", "bare", "breakpoint", "other"} \subseteq Records
      /\ {"terminated", "ended"} \subseteq Events
  BY DEF Records, Events
<1>2. CASE \E t \in SessionTypes \ {"attach"} : OpenSession(t)
  BY <1>1, <1>2 DEF OpenSession, MayOpen
<1>3. CASE OpenAttach
  BY <1>3 DEF OpenAttach, MayOpen
<1>4. CASE RunSession
  BY <1>1, <1>4 DEF RunSession, MayOpen, Run
<1>5. CASE ControlRun
  BY <1>1, <1>5 DEF ControlRun, Run
<1>6. CASE Execute \/ Interrupt
  BY <1>1, <1>6 DEF Execute, Interrupt
<1>7. CASE CloseSession
  BY <1>1, <1>7 DEF CloseSession
<1>8. CASE DismissBox \/ \E tested \in BOOLEAN : BreakpointCommand(tested)
  BY <1>8 DEF DismissBox, BreakpointCommand
<1>9. CASE HandleTerminated
  BY <1>1, <1>9, TakeKeepsType DEF HandleTerminated
<1>10. CASE HandleEvent /\ ~ HandleTerminated
  BY <1>10, TakeKeepsType DEF HandleEvent, HandleRunning, HandleExit, HandleStop,
     HandleSignal, HandleBare, HandleBreakpoint, HandleOther, HandleEnded
<1>11. CASE Deliver
  <2>1. Head(wire) \in Records /\ Tail(wire) \in Seq(Records)
    BY <1>11 DEF Deliver
  <2> QED BY <1>1, <1>11, <2>1 DEF Deliver
<1>12. CASE Gdb
  BY <1>1, <1>12 DEF Gdb, Stop, Exit, Killed, Chatter, Emit, Die
<1>13. CASE UNCHANGED vars
  BY <1>13 DEF vars
<1> QED BY <1>2, <1>3, <1>4, <1>5, <1>6, <1>7, <1>8, <1>9, <1>10, <1>11, <1>12, <1>13
        DEF Next, User

\* The GUI's variables keep their type.
LEMMA FlagsStep ==
  ASSUME TypeOK, [Next]_vars
  PROVE  /\ target' \in States /\ valid' \in BOOLEAN
         /\ menu' \subseteq Items /\ gui' \in {"idle", "blocked"}
<1>1. /\ target \in States /\ valid \in BOOLEAN
      /\ menu \subseteq Items /\ gui \in {"idle", "blocked"}
  BY DEF TypeOK
<1>2. \A s : MenuFor(s) \subseteq Items
  BY DEF MenuFor, Items
<1>3. ASSUME NEW s, NEW shown, NotifyStateChanged(s, shown) PROVE menu' \subseteq Items
  BY <1>1, <1>2, <1>3 DEF NotifyStateChanged
<1>4. ASSUME Block PROVE menu' \subseteq Items /\ gui' \in {"idle", "blocked"}
  BY <1>1, <1>4 DEF Block
<1>5. ASSUME NEW s, ShowStop(s) PROVE menu' \subseteq Items /\ gui' \in {"idle", "blocked"}
  BY <1>1, <1>3, <1>4, <1>5 DEF ShowStop
<1> USE DEF States, Items
<1>6. CASE \E t \in SessionTypes \ {"attach"} : OpenSession(t)
  BY <1>1, <1>6, SessionAssumption DEF OpenSession, MayOpen, StateOpened
<1>7. CASE OpenAttach
  BY <1>1, <1>4, <1>7 DEF OpenAttach
<1>8. CASE RunSession
  BY <1>1, <1>8 DEF RunSession, Run
<1>9. CASE ControlRun
  BY <1>1, <1>3, <1>4, <1>9 DEF ControlRun, Run
<1>10. CASE Execute \/ Interrupt \/ \E tested \in BOOLEAN : BreakpointCommand(tested)
  BY <1>1, <1>4, <1>10 DEF Execute, Interrupt, BreakpointCommand
<1>11. CASE CloseSession
  BY <1>1, <1>11 DEF CloseSession
<1>12. CASE DismissBox
  BY <1>1, <1>3, <1>5, <1>12 DEF DismissBox
<1>13. CASE HandleRunning \/ HandleExit \/ HandleOther
  BY <1>1, <1>3, <1>13 DEF HandleRunning, HandleExit, HandleOther, Take
<1>14. CASE HandleStop
  BY <1>1, <1>5, <1>14 DEF HandleStop, Take
<1>15. CASE HandleBreakpoint
  BY <1>1, <1>3, <1>4, <1>15 DEF HandleBreakpoint, Take
<1>16. CASE HandleSignal \/ HandleBare \/ HandleTerminated \/ HandleEnded
  BY <1>1, <1>16 DEF HandleSignal, HandleBare, HandleTerminated, HandleEnded, Take
<1>17. CASE Deliver \/ Gdb \/ UNCHANGED vars
  BY <1>1, <1>17 DEF Deliver, Gdb, Stop, Exit, Killed, Chatter, Emit, Die, vars, guiVars
<1> QED BY <1>6, <1>7, <1>8, <1>9, <1>10, <1>11, <1>12, <1>13, <1>14, <1>15, <1>16, <1>17
        DEF Next, User, HandleEvent

\* The panel, the counters, the session's type and gdb keep their type.
LEMMA RestStep ==
  ASSUME TypeOK, [Next]_vars
  PROVE  /\ stack' \in BOOLEAN
         /\ type' \in {"none", "exe", "core", "remote", "attach"}
         /\ modal' \in Nat /\ opened' \in Nat /\ emitted' \in Nat
         /\ gdb' \in Programs \union {"none", "dead"}
<1>1. /\ stack \in BOOLEAN
      /\ type \in {"none", "exe", "core", "remote", "attach"}
      /\ modal \in Nat /\ opened \in Nat /\ emitted \in Nat
      /\ gdb \in Programs \union {"none", "dead"}
  BY DEF TypeOK
<1>2. ASSUME NEW s, NEW shown, NotifyStateChanged(s, shown) PROVE stack' \in BOOLEAN
  BY <1>2 DEF NotifyStateChanged
<1>3. ASSUME Block PROVE stack' \in BOOLEAN
  BY <1>1, <1>3 DEF Block
<1>4. ASSUME NEW s, ShowStop(s) PROVE stack' \in BOOLEAN
  BY <1>2, <1>3, <1>4 DEF ShowStop
<1> USE DEF Programs
<1>6. CASE \E t \in SessionTypes \ {"attach"} : OpenSession(t)
  <2>1. stack' \in BOOLEAN
    BY <1>6 DEF OpenSession
  <2>2. type' \in {"none", "exe", "core", "remote", "attach"} /\ modal' \in Nat
    BY <1>1, <1>6, SessionAssumption DEF OpenSession, MayOpen
  <2>3. opened' \in Nat /\ emitted' \in Nat
    BY <1>1, <1>6 DEF OpenSession, MayOpen
  <2>4. gdb' \in {"loaded", "core", "connected", "stopped"}
    BY <1>6 DEF OpenSession
  <2> QED BY <2>1, <2>2, <2>3, <2>4
<1>7. CASE OpenAttach
  BY <1>1, <1>3, <1>7 DEF OpenAttach, MayOpen
<1>8. CASE RunSession
  <2>1. stack' \in BOOLEAN
    BY <1>8 DEF RunSession
  <2>2. type' = "exe" /\ modal' = modal /\ opened' = opened + 1 /\ emitted' = emitted
    BY <1>8 DEF RunSession, MayOpen
  <2>3. gdb' \in {"running", "refused"}
    BY <1>8 DEF RunSession, Run
  <2> QED BY <1>1, <2>1, <2>2, <2>3
<1>9. CASE ControlRun
  BY <1>1, <1>2, <1>3, <1>9 DEF ControlRun, Run
<1>10. CASE Execute \/ Interrupt \/ \E tested \in BOOLEAN : BreakpointCommand(tested)
  BY <1>1, <1>3, <1>10 DEF Execute, Interrupt, BreakpointCommand
<1>11. CASE CloseSession
  BY <1>1, <1>11 DEF CloseSession
<1>12. CASE DismissBox
  BY <1>1, <1>2, <1>4, <1>12 DEF DismissBox
<1>13. CASE HandleRunning \/ HandleExit \/ HandleOther
  BY <1>1, <1>2, <1>13 DEF HandleRunning, HandleExit, HandleOther, Take
<1>14. CASE HandleStop
  BY <1>1, <1>4, <1>14 DEF HandleStop, Take
<1>15. CASE HandleBreakpoint
  BY <1>1, <1>2, <1>3, <1>15 DEF HandleBreakpoint, Take
<1>16. CASE HandleSignal \/ HandleBare \/ HandleTerminated \/ HandleEnded
  <2>1. stack' \in BOOLEAN
    BY <1>1, <1>16 DEF HandleSignal, HandleBare, HandleTerminated, HandleEnded
  <2>2. modal' \in Nat
    BY <1>1, <1>16 DEF HandleSignal, HandleBare, HandleTerminated, HandleEnded
  <2>3. type' = type /\ opened' = opened /\ emitted' = emitted /\ gdb' = gdb
    BY <1>16 DEF HandleSignal, HandleBare, HandleTerminated, HandleEnded, Take
  <2> QED BY <1>1, <2>1, <2>2, <2>3
<1>17. CASE Deliver \/ Gdb \/ UNCHANGED vars
  BY <1>1, <1>17 DEF Deliver, Gdb, Stop, Exit, Killed, Chatter, Emit, Die, vars, guiVars
<1> QED BY <1>6, <1>7, <1>8, <1>9, <1>10, <1>11, <1>12, <1>13, <1>14, <1>15, <1>16, <1>17
        DEF Next, User, HandleEvent

\* The history is a Boolean.
LEMMA HastyStep ==
  ASSUME TypeOK, [Next]_vars
  PROVE  hasty' \in BOOLEAN
<1>1. hasty \in BOOLEAN
  BY DEF TypeOK
<1>2. CASE hasty' = hasty
  BY <1>1, <1>2
<1>3. CASE \E t : MayOpen(t)
  BY <1>3 DEF MayOpen
<1>4. CASE User
  BY <1>2, <1>3, <1>4 DEF User, OpenSession, OpenAttach, RunSession, ControlRun, Execute,
     Interrupt, CloseSession, DismissBox, BreakpointCommand
<1>5. CASE HandleEvent
  BY <1>2, <1>5 DEF HandleEvent, HandleRunning, HandleExit, HandleStop, HandleSignal,
     HandleBare, HandleBreakpoint, HandleOther, HandleTerminated, HandleEnded, Take
<1>6. CASE Deliver \/ Gdb \/ UNCHANGED vars
  BY <1>2, <1>6 DEF Deliver, Gdb, Stop, Exit, Killed, Chatter, Emit, Die, vars, guiVars
<1> QED BY <1>4, <1>5, <1>6 DEF Next

\* The queues have their type throughout.
LEMMA QueuesCorrect == Spec => []QueuesOK
<1>1. Init => QueuesOK
  <2>1. <<>> \in Seq(Events) /\ <<>> \in Seq(Records)
    BY EmptySeq
  <2> QED BY <2>1 DEF Init, QueuesOK
<1> QED BY <1>1, QueuesStep, PTL DEF Spec

\* The state of DebugSession keeps its type.
THEOREM TypeCorrect == Spec => []TypeOK
<1>1. Init => TypeOK
  <2>1. <<>> \in Seq(Events) /\ <<>> \in Seq(Records)
    BY EmptySeq
  <2> SUFFICES ASSUME Init PROVE TypeOK
    OBVIOUS
  <2>2. pending \in Seq(Events) /\ wire \in Seq(Records)
    BY <2>1 DEF Init
  <2>3. valid \in BOOLEAN /\ stack \in BOOLEAN /\ hasty \in BOOLEAN
    BY DEF Init
  <2>4. /\ target \in States /\ menu \subseteq Items
        /\ modal \in Nat /\ opened \in Nat /\ emitted \in Nat
    BY DEF Init, States
  <2> QED BY <2>2, <2>3, <2>4 DEF Init, TypeOK
<1>2. TypeOK /\ [Next]_vars => TypeOK'
  <2> SUFFICES ASSUME TypeOK, [Next]_vars PROVE TypeOK'
    OBVIOUS
  <2>1. QueuesOK'
    BY QueuesStep DEF QueuesOK, TypeOK
  <2> QED BY <2>1, FlagsStep, RestStep, HastyStep DEF TypeOK, QueuesOK
<1> QED BY <1>1, <1>2, PTL DEF Spec

\* The GUI thread hangs only without a session or after gdb has died: a
\* session has a gdb from openSession to closeSession, so that no command
\* written between the two goes nowhere while gdb lives.
THEOREM NoHang == Spec => []NoHangInSession
<1> DEFINE HangInv == NoHangInSession /\ (gdb = "none" => ~ valid)
<1>1. Init => HangInv
  BY DEF Init, NoHangInSession
<1>2. HangInv /\ [Next]_vars => HangInv'
  <2> SUFFICES ASSUME HangInv, [Next]_vars PROVE HangInv'
    OBVIOUS
  <2> USE DEF NoHangInSession
  <2>1. CASE \E t \in SessionTypes \ {"attach"} : OpenSession(t)
    BY <2>1 DEF OpenSession, MayOpen, UserActs
  <2>2. CASE OpenAttach
    BY <2>2 DEF OpenAttach, MayOpen, UserActs, Block
  <2>3. CASE RunSession
    BY <2>3 DEF RunSession, MayOpen, UserActs, Run
  <2>4. CASE ControlRun
    BY <2>4 DEF ControlRun, Run, UserActs, Answers, Block
  <2>5. CASE Execute \/ Interrupt
    BY <2>5 DEF Execute, Interrupt, UserActs, Answers, Block
  <2>6. CASE CloseSession
    BY <2>6 DEF CloseSession, UserActs
  <2>7. CASE DismissBox
    BY <2>7 DEF DismissBox, ShowStop, Answers, Block
  <2>8. CASE \E tested \in BOOLEAN : BreakpointCommand(tested)
    BY <2>8 DEF BreakpointCommand, Answers, Block, UserActs
  <2>9. CASE HandleEvent
    <3>1. gui = "idle" /\ valid' = valid /\ gdb' = gdb
      BY <2>9 DEF HandleEvent, HandleRunning, HandleExit, HandleStop, HandleSignal,
         HandleBare, HandleBreakpoint, HandleOther, HandleTerminated, HandleEnded, Take
    <3>2. gui' = gui \/ ~ Answers
      BY <2>9 DEF HandleEvent, HandleRunning, HandleExit, HandleStop, HandleSignal,
         HandleBare, HandleBreakpoint, HandleOther, HandleTerminated, HandleEnded,
         ShowStop
    <3> QED BY <3>1, <3>2 DEF Answers
  <2>10. CASE Deliver
    BY <2>10 DEF Deliver, guiVars
  <2>11. CASE Gdb
    BY <2>11 DEF Gdb, Stop, Exit, Killed, Chatter, Emit, Die, guiVars, Answers
  <2>12. CASE UNCHANGED vars
    BY <2>12 DEF vars, guiVars
  <2> QED BY <2>1, <2>2, <2>3, <2>4, <2>5, <2>6, <2>7, <2>8, <2>9, <2>10, <2>11, <2>12
          DEF Next, User
<1>3. HangInv => NoHangInSession
  OBVIOUS
<1> QED BY <1>1, <1>2, <1>3, PTL DEF Spec

\* A record that changes the state decides what the queue it joins leads to.
LEMMA AppendChange ==
  ASSUME NEW q \in Seq(Events), NEW e \in Events, Changes(e), NEW s
  PROVE  LeadsTo(Append(q, e), s, Effect[e])
<1>1. /\ Len(Append(q, e)) = Len(q) + 1
      /\ Append(q, e)[Len(q) + 1] = e
  OBVIOUS
<1>2. Len(q) + 1 \in 1..Len(Append(q, e)) /\ \A j \in 1..Len(Append(q, e)) : ~ (Len(q) + 1 < j)
  BY <1>1
<1> QED BY <1>1, <1>2 DEF LeadsTo

\* A record that does not change the state leaves the queue as it was.
LEMMA AppendOther ==
  ASSUME NEW q \in Seq(Events), NEW e \in Events, ~ Changes(e), NEW s, NEW t,
         LeadsTo(q, s, t)
  PROVE  LeadsTo(Append(q, e), s, t)
<1> DEFINE r == Append(q, e)
<1>1. /\ Len(r) = Len(q) + 1 /\ Len(q) \in Nat
      /\ r[Len(q) + 1] = e
      /\ \A i \in 1..Len(q) : i \in 1..Len(r) /\ r[i] = q[i]
  OBVIOUS
<1>2. \A i \in 1..Len(r) : i \in 1..Len(q) \/ i = Len(q) + 1
  BY <1>1
<1> HIDE DEF r
<1>3. ASSUME \A i \in 1..Len(q) : ~ Changes(q[i]) PROVE LeadsTo(r, s, t)
  BY <1>1, <1>2, <1>3 DEF LeadsTo
<1>4. ASSUME NEW i \in 1..Len(q),
             Changes(q[i]) /\ Effect[q[i]] = t,
             \A j \in 1..Len(q) : i < j => ~ Changes(q[j])
      PROVE  LeadsTo(r, s, t)
  <2>1. i \in 1..Len(r) /\ r[i] = q[i]
    BY <1>1
  <2>2. \A j \in 1..Len(r) : i < j => ~ Changes(r[j])
    BY <1>1, <1>2, <1>4
  <2> QED BY <2>1, <2>2, <1>4 DEF LeadsTo
<1>5. LeadsTo(r, s, t)
  <2>1. CASE \E i \in 1..Len(q) : /\ Changes(q[i]) /\ Effect[q[i]] = t
                                  /\ \A j \in 1..Len(q) : i < j => ~ Changes(q[j])
    BY <1>4, <2>1
  <2>2. \/ \E i \in 1..Len(q) : /\ Changes(q[i]) /\ Effect[q[i]] = t
                                /\ \A j \in 1..Len(q) : i < j => ~ Changes(q[j])
        \/ \A i \in 1..Len(q) : ~ Changes(q[i])
    BY DEF LeadsTo
  <2> QED BY <1>3, <2>1, <2>2
<1> QED BY <1>5 DEF r

\* Handling the head of a queue: the rest leads from the new state to where
\* the whole led before.
LEMMA TakeHead ==
  ASSUME NEW q \in Seq(Events), q # <<>>, NEW s, NEW t, NEW u, LeadsTo(q, s, t),
         Changes(Head(q)) => u = Effect[Head(q)],
         ~ Changes(Head(q)) => u = s
  PROVE  LeadsTo(Tail(q), u, t)
<1> DEFINE r == Tail(q)
<1>1. /\ Len(q) \in Nat /\ Len(q) > 0 /\ Len(r) = Len(q) - 1
      /\ Head(q) = q[1]
      /\ \A i \in 1..Len(r) : i + 1 \in 1..Len(q) /\ r[i] = q[i + 1]
  OBVIOUS
<1>2. \A i \in 1..Len(q) : i = 1 \/ (i - 1 \in 1..Len(r) /\ r[i - 1] = q[i])
  <2> SUFFICES ASSUME NEW i \in 1..Len(q), i # 1 PROVE i - 1 \in 1..Len(r) /\ r[i - 1] = q[i]
    OBVIOUS
  <2>1. i - 1 \in 1..Len(r) /\ (i - 1) + 1 = i
    BY <1>1
  <2> QED BY <2>1, <1>1
<1> HIDE DEF r
<1>3. ASSUME \A i \in 1..Len(q) : ~ Changes(q[i]) PROVE LeadsTo(r, u, t)
  BY <1>1, <1>3 DEF LeadsTo
<1>4. ASSUME NEW i \in 1..Len(q),
             Changes(q[i]) /\ Effect[q[i]] = t,
             \A j \in 1..Len(q) : i < j => ~ Changes(q[j])
      PROVE  LeadsTo(r, u, t)
  <2>1. CASE i = 1
    <3>1. \A j \in 1..Len(r) : ~ Changes(r[j])
      BY <1>1, <1>4, <2>1
    <3> QED BY <3>1, <1>1, <1>4, <2>1 DEF LeadsTo
  <2>2. CASE i # 1
    <3>1. i - 1 \in 1..Len(r) /\ r[i - 1] = q[i]
      BY <1>2, <2>2
    <3>2. \A j \in 1..Len(r) : i - 1 < j => ~ Changes(r[j])
      BY <1>1, <1>4
    <3> QED BY <3>1, <3>2, <1>4 DEF LeadsTo
  <2> QED BY <2>1, <2>2
<1>5. LeadsTo(r, u, t)
  <2>1. CASE \E i \in 1..Len(q) : /\ Changes(q[i]) /\ Effect[q[i]] = t
                                  /\ \A j \in 1..Len(q) : i < j => ~ Changes(q[j])
    BY <1>4, <2>1
  <2>2. \/ \E i \in 1..Len(q) : /\ Changes(q[i]) /\ Effect[q[i]] = t
                                /\ \A j \in 1..Len(q) : i < j => ~ Changes(q[j])
        \/ \A i \in 1..Len(q) : ~ Changes(q[i])
    BY DEF LeadsTo
  <2> QED BY <1>3, <2>1, <2>2
<1> QED BY <1>5 DEF r

\* Where the queues meet: delivery moves the border, and both ends are ends
\* of the whole.
LEMMA Joined ==
  ASSUME NEW p \in Seq(Events), NEW w \in Seq(Records)
  PROVE  /\ p \o w \in Seq(Events)
         /\ w # <<>> => Append(p, Head(w)) \o Tail(w) = p \o w
         /\ \A r \in Records : p \o Append(w, r) = Append(p \o w, r)
         /\ p # <<>> => /\ p \o w # <<>> /\ Head(p \o w) = Head(p)
                        /\ Tail(p \o w) = Tail(p) \o w
<1>1. w \in Seq(Events)
  BY DEF Events
<1>2. p \o w \in Seq(Events)
  BY <1>1
<1>3. ASSUME w # <<>> PROVE Append(p, Head(w)) \o Tail(w) = p \o w
  BY <1>1, <1>3
<1>4. ASSUME NEW r \in Records PROVE p \o Append(w, r) = Append(p \o w, r)
  BY <1>1, <1>4
<1>5. ASSUME p # <<>>
      PROVE  p \o w # <<>> /\ Head(p \o w) = Head(p) /\ Tail(p \o w) = Tail(p) \o w
  BY <1>1, <1>5
<1> QED BY <1>2, <1>3, <1>4, <1>5

\* Once a session was opened hastily, that stays so; one is where it was
\* opened with events queued.
LEMMA HastyStays ==
  ASSUME [Next]_vars, ~ hasty'
  PROVE  ~ hasty /\ (\A t : MayOpen(t) => pending = <<>>)
<1>1. CASE \E t \in SessionTypes \ {"attach"} : OpenSession(t)
  BY <1>1 DEF OpenSession, MayOpen
<1>2. CASE OpenAttach \/ RunSession
  BY <1>2 DEF OpenAttach, RunSession, MayOpen
<1>3. CASE hasty' = hasty
  BY <1>3 DEF MayOpen
<1>4. CASE User
  BY <1>1, <1>2, <1>3, <1>4 DEF User, ControlRun, Execute, Interrupt, CloseSession,
     DismissBox, BreakpointCommand
<1>5. CASE HandleEvent
  BY <1>3, <1>5 DEF HandleEvent, HandleRunning, HandleExit, HandleStop, HandleSignal,
     HandleBare, HandleBreakpoint, HandleOther, HandleTerminated, HandleEnded, Take
<1>6. CASE Deliver \/ Gdb \/ UNCHANGED vars
  BY <1>3, <1>6 DEF Deliver, Gdb, Stop, Exit, Killed, Chatter, Emit, Die, vars, guiVars
<1> QED BY <1>4, <1>5, <1>6 DEF Next

\* No queued end of an earlier session survives into the next.
LEMMA NoStaleEndStep ==
  ASSUME QueuesOK, QueuesOK', NoStaleEnd, [Next]_vars
  PROVE  NoStaleEnd'
<1> SUFFICES ASSUME ~ hasty', valid' 
               PROVE  \A i \in 1..Len(pending') : pending'[i] \notin {"terminated", "ended"}
  BY DEF NoStaleEnd
<1> USE DEF QueuesOK
<1>0. ~ hasty
  BY HastyStays
<1>1. CASE MayOpen(type')
  <2>1. pending = <<>> /\ pending' = pending
    BY <1>1 DEF MayOpen
  <2> QED BY <2>1
<1>2. CASE valid /\ pending' = pending
  BY <1>0, <1>2 DEF NoStaleEnd
<1>3. CASE valid /\ pending # <<>> /\ pending' = Tail(pending)
  <2> SUFFICES ASSUME NEW i \in 1..Len(Tail(pending))
               PROVE  Tail(pending)[i] \notin {"terminated", "ended"}
    BY <1>3
  <2>1. i + 1 \in 1..Len(pending) /\ Tail(pending)[i] = pending[i + 1]
    BY <1>3
  <2> QED BY <2>1, <1>0, <1>3 DEF NoStaleEnd
<1>4. CASE HandleTerminated
  <2>1. valid /\ pending # <<>> /\ pending[1] = "terminated" /\ 1 \in 1..Len(pending)
    BY <1>4 DEF HandleTerminated, Take
  <2> QED BY <1>0, <2>1 DEF NoStaleEnd
<1>5. CASE Deliver
  <2>1. /\ valid /\ Head(wire) \in Records
        /\ pending' = Append(pending, Head(wire))
    BY <1>5 DEF Deliver, guiVars
  <2>2. Head(wire) \notin {"terminated", "ended"}
    BY <2>1 DEF Records
  <2> QED BY <1>0, <2>1, <2>2 DEF NoStaleEnd
<1>6. CASE User
  <2>1. CASE \E t \in SessionTypes \ {"attach"} : OpenSession(t)
    BY <2>1, <1>1 DEF OpenSession, MayOpen
  <2>2. CASE OpenAttach
    BY <2>2, <1>1 DEF OpenAttach, MayOpen
  <2>3. CASE RunSession
    BY <2>3, <1>1 DEF RunSession, MayOpen
  <2>4. CASE ControlRun \/ Execute \/ Interrupt
    BY <2>4, <1>2 DEF ControlRun, Execute, Interrupt
  <2>5. CASE CloseSession
    BY <2>5 DEF CloseSession
  <2>6. CASE DismissBox \/ \E tested \in BOOLEAN : BreakpointCommand(tested)
    BY <2>6, <1>2 DEF DismissBox, BreakpointCommand
  <2> QED BY <1>6, <2>1, <2>2, <2>3, <2>4, <2>5, <2>6 DEF User
<1>7. CASE HandleEvent /\ ~ HandleTerminated
  <2>1. valid /\ pending # <<>> /\ pending' = Tail(pending)
    BY <1>7 DEF HandleEvent, HandleRunning, HandleExit, HandleStop, HandleSignal,
       HandleBare, HandleBreakpoint, HandleOther, HandleEnded, Take
  <2> QED BY <2>1, <1>3
<1>8. CASE Gdb
  BY <1>8, <1>2 DEF Gdb, Stop, Exit, Killed, Chatter, Emit, Die, guiVars
<1>9. CASE UNCHANGED vars
  BY <1>9, <1>2 DEF vars, guiVars
<1> QED BY <1>4, <1>5, <1>6, <1>7, <1>8, <1>9 DEF Next

\* Handling one event keeps where the queues lead to.
LEMMA HandleLeads ==
  ASSUME QueuesOK, pending # <<>>, pending' = Tail(pending), wire' = wire,
         NEW t, LeadsTo(pending \o wire, target, t),
         Changes(Head(pending)) => target' = Effect[Head(pending)],
         ~ Changes(Head(pending)) => target' = target
  PROVE  LeadsTo(pending' \o wire', target', t)
<1> DEFINE q == pending \o wire
<1>1. /\ q \in Seq(Events) /\ q # <<>>
      /\ Head(q) = Head(pending) /\ Tail(q) = Tail(pending) \o wire
  BY Joined DEF QueuesOK
<1> HIDE DEF q
<1>2. LeadsTo(q, target, t)
  BY DEF q
<1>3. LeadsTo(Tail(q), target', t)
  BY <1>1, <1>2, TakeHead
<1> QED BY <1>1, <1>3

\* A record written by gdb that changes the state is what the queues lead to;
\* one that does not change it leaves them as they were.
LEMMA EmitLeads ==
  ASSUME QueuesOK, pending' = pending, NEW r \in Records, wire' = Append(wire, r), NEW t,
         Changes(r) => t = Effect[r],
         ~ Changes(r) => target' = target /\ LeadsTo(pending \o wire, target, t)
  PROVE  LeadsTo(pending' \o wire', target', t)
<1> DEFINE q == pending \o wire
<1>1. q \in Seq(Events) /\ pending' \o wire' = Append(q, r)
  BY Joined DEF QueuesOK
<1>2. r \in Events
  BY DEF Events
<1> HIDE DEF q
<1>3. CASE Changes(r)
  <2>1. LeadsTo(Append(q, r), target', Effect[r])
    BY <1>1, <1>2, <1>3, AppendChange
  <2> QED BY <2>1, <1>1, <1>3
<1>4. CASE ~ Changes(r)
  <2>1. LeadsTo(q, target, t)
    BY <1>4 DEF q
  <2>2. LeadsTo(Append(q, r), target, t)
    BY <1>1, <1>2, <1>4, <2>1, AppendOther
  <2> QED BY <2>2, <1>1, <1>4
<1> QED BY <1>3, <1>4

\* Which events change the state, and to what
LEMMA Effects ==
  /\ \A e \in {"running", "hit", "signal", "exit", "terminated"} : Changes(e)
  /\ \A e \in {"bare", "breakpoint", "other", "ended"} : ~ Changes(e)
  /\ Effect["running"] = "RUNNING" /\ Effect["exit"] = "FINISHED"
  /\ \A e \in {"hit", "signal", "terminated"} : Effect[e] = "STOPPED"
BY DEF Changes, Effect

\* What the GUI should see, state by state
LEMMA SeenValues ==
  /\ DOMAIN Seen = Programs \ {"refused"}
  /\ Seen["loaded"] = "SPECIFIED" /\ Seen["core"] = "FINISHED"
  /\ Seen["connected"] = "CONNECTED" /\ Seen["running"] = "RUNNING"
  /\ Seen["stopped"] = "STOPPED" /\ Seen["killed"] = "STOPPED"
  /\ Seen["exited"] = "FINISHED"
BY DEF Seen, Programs

\* Every step keeps _targetState and the queues leading to what the program is.
LEMMA CaughtUpStep ==
  ASSUME QueuesOK, NoStaleEnd, CaughtUp, [Next]_vars
  PROVE  CaughtUp'
<1> SUFFICES ASSUME ~ hasty', valid', gdb' \in DOMAIN Seen
             PROVE  LeadsTo(pending' \o wire', target', Seen[gdb'])
  BY DEF CaughtUp
<1>0. ~ hasty /\ \A t : MayOpen(t) => pending = <<>>
  BY HastyStays
<1>1. CASE /\ pending' = <<>> /\ wire' = <<>>
           /\ target' = Seen[gdb']
  BY <1>1 DEF LeadsTo
<1>2. CASE /\ pending' = <<>>
           /\ \E r \in Records : Changes(r) /\ wire' = <<r>> /\ Seen[gdb'] = Effect[r]
  <2>1. PICK r \in Records : Changes(r) /\ wire' = <<r>> /\ Seen[gdb'] = Effect[r]
    BY <1>2
  <2>2. pending' \o wire' = <<r>>
    BY <1>2, <2>1
  <2> QED BY <2>1, <2>2 DEF LeadsTo
<1>3. CASE valid /\ pending' = pending /\ wire' = wire /\ target' = target /\ gdb' = gdb
  BY <1>0, <1>3 DEF CaughtUp
<1>4. CASE \E t \in SessionTypes \ {"attach"} : OpenSession(t)
  <2>1. PICK t \in SessionTypes \ {"attach"} : OpenSession(t)
    BY <1>4
  <2>2. pending' = <<>> /\ t \in {"exe", "core", "remote"}
    <3>1. MayOpen(t)
      BY <2>1 DEF OpenSession
    <3>2. pending = <<>> /\ pending' = pending
      BY <1>0, <3>1 DEF MayOpen
    <3> QED BY <2>1, <3>2, SessionAssumption DEF OpenSession
  <2>3. CASE wire' = <<>>
    <3>1. target' = Seen[gdb']
      BY <2>1, <2>2, <2>3, SeenValues DEF OpenSession, StateOpened
    <3> QED BY <3>1, <2>2, <2>3, <1>1
  <2>4. CASE wire' = <<"hit">> /\ gdb' = "stopped"
    BY <2>2, <2>4, <1>2, SeenValues, Effects DEF Records
  <2> QED BY <2>1, <2>3, <2>4 DEF OpenSession
<1>5. CASE OpenAttach
  BY <1>5, <1>3 DEF OpenAttach, MayOpen, CaughtUp, LeadsTo
<1>6. CASE RunSession
  <2>1. gdb' = "running" /\ wire' = <<"running">>
    BY <1>6, SeenValues DEF RunSession, Run
  <2>2. MayOpen("exe")
    BY <1>6 DEF RunSession
  <2>3. pending' = <<>>
    BY <1>0, <2>2 DEF MayOpen
  <2> QED BY <2>1, <2>3, <1>2, SeenValues, Effects DEF Records
<1>7. CASE ControlRun
  <2>1. CASE Answers
    <3>1. pending' = pending /\ gdb' = "running" /\ wire' = Append(wire, "running")
      BY <1>7, <2>1, SeenValues DEF ControlRun, Run
    <3> QED BY <3>1, EmitLeads, SeenValues, Effects DEF Records
  <2>2. CASE ~ Answers
    BY <1>7, <2>2, <1>3 DEF ControlRun
  <2> QED BY <2>1, <2>2
<1>8. CASE Execute
  <2>1. CASE gdb = "stopped"
    <3>1. pending' = pending /\ gdb' = "running" /\ wire' = Append(wire, "running")
      BY <1>8, <2>1 DEF Execute
    <3> QED BY <3>1, EmitLeads, SeenValues, Effects DEF Records
  <2> QED BY <1>8, <2>1, <1>3 DEF Execute
<1>9. CASE Interrupt
  <2>1. CASE gdb = "running"
    <3>1. pending' = pending /\ gdb' = "stopped" /\ wire' = Append(wire, "hit")
      BY <1>9, <2>1 DEF Interrupt
    <3> QED BY <3>1, EmitLeads, SeenValues, Effects DEF Records
  <2> QED BY <1>9, <2>1, <1>3 DEF Interrupt
<1>10. CASE CloseSession
  BY <1>10 DEF CloseSession
<1>11. CASE DismissBox \/ \E tested \in BOOLEAN : BreakpointCommand(tested)
  BY <1>11, <1>3 DEF DismissBox, BreakpointCommand
<1>12. CASE HandleTerminated
  <2>1. valid /\ pending # <<>> /\ pending[1] = "terminated" /\ 1 \in 1..Len(pending)
    BY <1>12 DEF HandleTerminated, Take, QueuesOK
  <2> QED BY <1>0, <2>1 DEF NoStaleEnd
<1>13. CASE HandleEvent /\ ~ HandleTerminated
  <2>1. /\ valid /\ gdb' = gdb /\ wire' = wire
        /\ pending # <<>> /\ pending' = Tail(pending)
    BY <1>13 DEF HandleEvent, HandleRunning, HandleExit, HandleStop, HandleSignal,
       HandleBare, HandleBreakpoint, HandleOther, HandleEnded, Take
  <2>2. /\ Changes(Head(pending)) => target' = Effect[Head(pending)]
        /\ ~ Changes(Head(pending)) => target' = target
    <3>1. CASE HandleRunning \/ HandleExit
      BY <3>1, Effects DEF HandleRunning, HandleExit, Take
    <3>2. CASE HandleStop \/ HandleSignal
      BY <3>2, Effects DEF HandleStop, HandleSignal, Take
    <3>3. CASE HandleBare \/ HandleBreakpoint \/ HandleOther \/ HandleEnded
      BY <3>3, Effects DEF HandleBare, HandleBreakpoint, HandleOther, HandleEnded, Take
    <3> QED BY <1>13, <3>1, <3>2, <3>3 DEF HandleEvent
  <2>3. LeadsTo(pending \o wire, target, Seen[gdb])
    BY <1>0, <2>1 DEF CaughtUp
  <2> QED BY <2>1, <2>2, <2>3, HandleLeads
<1>14. CASE Deliver
  <2>1. pending' \o wire' = pending \o wire
    BY <1>14, Joined DEF Deliver, QueuesOK
  <2>2. valid /\ target' = target /\ gdb' = gdb
    BY <1>14 DEF Deliver, guiVars
  <2>3. LeadsTo(pending \o wire, target, Seen[gdb])
    BY <1>0, <2>2 DEF CaughtUp
  <2> QED BY <2>1, <2>2, <2>3
<1>15. CASE Gdb
  <2>1. CASE Die
    BY <2>1, SeenValues DEF Die, Programs
  <2>2. CASE \E record \in {"bare", "breakpoint", "other"} : Chatter(record)
    <3>1. PICK record \in {"bare", "breakpoint", "other"} : Chatter(record)
      BY <2>2
    <3>2. /\ pending' = pending /\ wire' = Append(wire, record) /\ record \in Records
          /\ valid /\ gdb' = gdb /\ target' = target
      BY <3>1 DEF Chatter, Emit, guiVars, Records
    <3>3. LeadsTo(pending \o wire, target, Seen[gdb])
      BY <1>0, <3>2 DEF CaughtUp
    <3> QED BY <3>1, <3>2, <3>3, Effects, EmitLeads
  <2>3. CASE \E record \in {"hit", "signal"} : Stop(record)
    <3>1. PICK record \in {"hit", "signal"} : Stop(record)
      BY <2>3
    <3>2. /\ pending' = pending /\ wire' = Append(wire, record) /\ record \in Records
          /\ gdb' = "stopped"
      BY <3>1 DEF Stop, Emit, Records
    <3> QED BY <3>1, <3>2, Effects, SeenValues, EmitLeads
  <2>4. CASE Exit
    <3>1. pending' = pending /\ wire' = Append(wire, "exit") /\ gdb' = "exited"
      BY <2>4 DEF Exit, Emit
    <3> QED BY <3>1, Effects, SeenValues, EmitLeads DEF Records
  <2>5. CASE Killed
    <3>1. pending' = pending /\ wire' = Append(wire, "signal") /\ gdb' = "killed"
      BY <2>5 DEF Killed, Emit
    <3> QED BY <3>1, Effects, SeenValues, EmitLeads DEF Records
  <2> QED BY <1>15, <2>1, <2>2, <2>3, <2>4, <2>5 DEF Gdb
<1>16. CASE UNCHANGED vars
  BY <1>16, <1>3 DEF vars, guiVars
<1> QED BY <1>4, <1>5, <1>6, <1>7, <1>8, <1>9, <1>10, <1>11, <1>12, <1>13, <1>14, <1>15, <1>16
        DEF Next, User

\* CaughtUp with what makes it inductive
CaughtUpInv == QueuesOK /\ NoStaleEnd /\ CaughtUp

\* The records under way always lead the GUI's state to the program's.
LEMMA CaughtUpAlways == Spec => []CaughtUpInv
<1>1. Init => NoStaleEnd /\ CaughtUp
  BY DEF Init, NoStaleEnd, CaughtUp
<1>2. QueuesOK /\ QueuesOK' /\ NoStaleEnd /\ CaughtUp /\ [Next]_vars
        => NoStaleEnd' /\ CaughtUp'
  BY NoStaleEndStep, CaughtUpStep
<1> QED BY <1>1, <1>2, QueuesCorrect, PTL DEF Spec, CaughtUpInv

\* As long as the queued events are handled before the next session is
\* opened, _targetState never parts from the program for good: what is
\* queued leads it to the state gdb is in.
THEOREM NeverPartsForGood == Spec => []CaughtUp
<1>1. CaughtUpInv => CaughtUp
  BY DEF CaughtUpInv
<1> QED BY <1>1, CaughtUpAlways, PTL
-----------------------------------------------------------------------------
(* What the user sees.                                                     *)

\* No event of the queue changes the state.
Quiet(q) == \A i \in 1..Len(q) : ~ Changes(q[i])

\* A queue that changes nothing leads nowhere else.
LEMMA QuietLeads ==
  ASSUME NEW q, Quiet(q), NEW s, NEW t, LeadsTo(q, s, t)
  PROVE  s = t
BY DEF Quiet, LeadsTo

\* What joins a queue, or leaves it without changing the state, does not
\* make it quiet.
LEMMA QuietStep ==
  ASSUME NEW q \in Seq(Events)
  PROVE  /\ \A e \in Events : Quiet(Append(q, e)) => Quiet(q) /\ ~ Changes(e)
         /\ \A e \in Events : Quiet(q) /\ ~ Changes(e) => Quiet(Append(q, e))
         /\ q # <<>> => (Quiet(q) <=> ~ Changes(Head(q)) /\ Quiet(Tail(q)))
<1>1. ASSUME NEW e \in Events PROVE Quiet(Append(q, e)) <=> Quiet(q) /\ ~ Changes(e)
  <2> DEFINE r == Append(q, e)
  <2>1. /\ Len(r) = Len(q) + 1 /\ Len(q) \in Nat /\ r[Len(q) + 1] = e
        /\ \A i \in 1..Len(q) : i \in 1..Len(r) /\ r[i] = q[i]
        /\ Len(q) + 1 \in 1..Len(r)
    OBVIOUS
  <2>2. \A i \in 1..Len(r) : i \in 1..Len(q) \/ i = Len(q) + 1
    BY <2>1
  <2> HIDE DEF r
  <2>3. Quiet(r) <=> Quiet(q) /\ ~ Changes(e)
    BY <2>1, <2>2 DEF Quiet
  <2> QED BY <2>3 DEF r
<1>2. ASSUME q # <<>> PROVE Quiet(q) <=> ~ Changes(Head(q)) /\ Quiet(Tail(q))
  <2> DEFINE r == Tail(q)
  <2>1. /\ Len(q) \in Nat /\ 1 \in 1..Len(q) /\ Head(q) = q[1]
        /\ \A i \in 1..Len(r) : i + 1 \in 1..Len(q) /\ r[i] = q[i + 1]
        /\ Len(r) = Len(q) - 1
    BY <1>2
  <2>2. \A i \in 1..Len(q) : i = 1 \/ (i - 1 \in 1..Len(r) /\ r[i - 1] = q[i])
    <3> SUFFICES ASSUME NEW i \in 1..Len(q), i # 1 PROVE i - 1 \in 1..Len(r) /\ r[i - 1] = q[i]
      OBVIOUS
    <3>1. i - 1 \in 1..Len(r) /\ (i - 1) + 1 = i
      BY <2>1
    <3> QED BY <3>1, <2>1
  <2> HIDE DEF r
  <2>3. Quiet(q) <=> ~ Changes(Head(q)) /\ Quiet(r)
    BY <2>1, <2>2 DEF Quiet
  <2> QED BY <2>3 DEF r
<1> QED BY <1>1, <1>2

\* In an open session, none having been opened hastily: the menu is the
\* state's, the stack panel is clear in the states without frames, and it
\* shows those of a stopped program once no record under way will change the
\* state.
ShownInv ==
  ~ hasty /\ valid =>
    /\ "CLOSE" \in menu
    /\ MenuMatches
    /\ target \notin {"SPECIFIED", "STOPPED"} => ~ stack
    /\ gui = "idle" /\ modal = 0 /\ gdb = "stopped" /\ Quiet(pending \o wire) => stack

\* What notifyStateChanged does to a menu of an open session
LEMMA NotifyShows ==
  ASSUME NEW s, NEW shown, NotifyStateChanged(s, shown), "CLOSE" \in menu
  PROVE  /\ menu' = MenuFor(s) \union {"CLOSE"} /\ "CLOSE" \in menu'
         /\ s \notin {"SPECIFIED", "STOPPED"} => ~ stack'
         /\ s = "STOPPED" /\ shown => stack'
<1>1. menu' = MenuFor(s) \union {"CLOSE"}
  BY DEF NotifyStateChanged
<1>2. (s \notin {"SPECIFIED", "STOPPED"} => ~ stack') /\ (s = "STOPPED" /\ shown => stack')
  BY DEF NotifyStateChanged, ClearsPanels
<1> QED BY <1>1, <1>2

\* A step that leaves the view and the state alone, and no queue quieter
\* than it was, keeps ShownInv.
LEMMA SameView ==
  ASSUME ShownInv, ~ hasty, valid,
         UNCHANGED <<target, type, menu, stack>>,
         gui' = "idle" => gui = "idle",
         gui' = "idle" /\ modal' = 0 => modal = 0,
         \/ gdb' # "stopped"
         \/ gdb = "stopped" /\ (Quiet(pending' \o wire') => Quiet(pending \o wire))
         \/ ~ Quiet(pending' \o wire')
  PROVE  ShownInv'
BY DEF ShownInv, MenuMatches

\* The state's own view, with frames if the program is stopped and the queue
\* is quiet, makes ShownInv.
LEMMA Notified ==
  ASSUME NEW shown, NotifyStateChanged(target', shown), "CLOSE" \in menu,
         gdb' = "stopped" /\ Quiet(pending' \o wire') => target' = "STOPPED" /\ shown
  PROVE  ShownInv'
<1>1. /\ menu' = MenuFor(target') \union {"CLOSE"} /\ "CLOSE" \in menu'
      /\ target' \notin {"SPECIFIED", "STOPPED"} => ~ stack'
      /\ target' = "STOPPED" /\ shown => stack'
  BY NotifyShows
<1> QED BY <1>1 DEF ShownInv, MenuMatches

\* Every step keeps what the stack panel shows in line with the program.
LEMMA ShownStep ==
  ASSUME TypeOK, CaughtUpInv, CaughtUpInv', ShownInv, [Next]_vars
  PROVE  ShownInv'
<1> SUFFICES ASSUME ~ hasty', valid' PROVE ShownInv'
  BY DEF ShownInv
<1>0. ~ hasty /\ \A t : MayOpen(t) => pending = <<>>
  BY HastyStays
<1>a. pending \in Seq(Events) /\ wire \in Seq(Records)
  BY DEF CaughtUpInv, QueuesOK
<1>b. valid => "CLOSE" \in menu
  BY <1>0 DEF ShownInv
<1>c. gdb' = "stopped" /\ Quiet(pending' \o wire') => target' = "STOPPED"
  <2> SUFFICES ASSUME gdb' = "stopped", Quiet(pending' \o wire') PROVE target' = "STOPPED"
    OBVIOUS
  <2>1. LeadsTo(pending' \o wire', target', "STOPPED")
    BY SeenValues DEF CaughtUpInv, CaughtUp, Programs
  <2> QED BY <2>1, QuietLeads
<1>d. \A r \in Records : ~ Quiet(pending \o wire) \/ Changes(r)
                            => ~ Quiet(pending \o Append(wire, r))
  <2>1. /\ pending \o wire \in Seq(Events)
        /\ \A r \in Records : pending \o Append(wire, r) = Append(pending \o wire, r)
    BY <1>a, Joined
  <2>2. Records \subseteq Events
    BY DEF Events
  <2> QED BY <2>1, <2>2, QuietStep
<1>1. CASE \E t \in SessionTypes \ {"attach"} : OpenSession(t)
  <2>1. PICK t \in SessionTypes \ {"attach"} : OpenSession(t)
    BY <1>1
  <2>2. t \in {"exe", "core", "remote"} /\ type' = t /\ pending' = <<>>
    <3>1. MayOpen(t)
      BY <2>1 DEF OpenSession
    <3> QED BY <2>1, <3>1, <1>0, SessionAssumption DEF MayOpen
  <2>3. target' = StateOpened[t] /\ menu' = {"RUN", "CLOSE"} /\ ~ stack'
    BY <2>1 DEF OpenSession
  <2>4. MenuMatches'
    BY <2>2, <2>3 DEF MenuMatches, MenuFor, StateOpened
  <2>5. gdb' = "stopped" => ~ Quiet(pending' \o wire')
    <3>1. target' # "STOPPED"
      BY <2>2, <2>3 DEF StateOpened
    <3> QED BY <3>1, <1>c
  <2> QED BY <2>3, <2>4, <2>5 DEF ShownInv
<1>2. CASE OpenAttach
  <2>1. /\ valid /\ UNCHANGED <<target, menu, stack, pending, wire, gdb>>
        /\ gui' = "blocked"
    BY <1>2 DEF OpenAttach, MayOpen, Block
  <2> QED BY <1>0, <2>1 DEF ShownInv, MenuMatches
<1>3. CASE RunSession
  <2>1. target' = "RUNNING" /\ menu' = {"INTERRUPT", "CLOSE"} /\ ~ stack'
    BY <1>3 DEF RunSession, Run
  <2>2. MenuMatches'
    BY <2>1 DEF MenuMatches, MenuFor
  <2>3. gdb' # "stopped"
    BY <1>3 DEF RunSession, Run
  <2> QED BY <2>1, <2>2, <2>3 DEF ShownInv
<1>4. CASE ControlRun
  <2>1. CASE Answers
    <3>1. valid /\ target' = "RUNNING" /\ NotifyStateChanged("RUNNING", FALSE) /\ gdb' # "stopped"
      BY <1>4, <2>1 DEF ControlRun, Run
    <3> QED BY <3>1, <1>b, Notified
  <2>2. CASE ~ Answers
    <3>1. valid /\ UNCHANGED <<target, type, menu, stack, modal, pending, wire, gdb>> /\ gui' # "idle"
      BY <1>4, <2>2 DEF ControlRun, Block
    <3> QED BY <3>1, <1>0, SameView, <2>2 DEF Answers
  <2> QED BY <2>1, <2>2
<1>5. CASE Execute
  <2>1. /\ valid /\ gui = "idle" /\ UNCHANGED <<target, type, menu, stack, modal, pending>>
        /\ gdb' # "stopped"
    BY <1>5 DEF Execute, Block, UserActs
  <2> QED BY <2>1, <1>0, SameView
<1>6. CASE Interrupt
  <2>1. valid /\ gui = "idle" /\ UNCHANGED <<target, type, menu, stack, modal, pending>>
    BY <1>6 DEF Interrupt, Block, UserActs
  <2>2. CASE gdb = "running"
    <3>1. wire' = Append(wire, "hit") /\ Changes("hit") /\ "hit" \in Records
      BY <1>6, <2>2, Effects DEF Interrupt, Records
    <3>2. ~ Quiet(pending' \o wire')
      BY <2>1, <3>1, <1>d
    <3> QED BY <2>1, <3>2, <1>0, SameView
  <2>3. CASE gdb # "running"
    <3>1. wire' = wire /\ gdb' = gdb
      BY <1>6, <2>3 DEF Interrupt
    <3> QED BY <2>1, <3>1, <1>0, SameView
  <2> QED BY <2>2, <2>3
<1>7. CASE CloseSession
  BY <1>7 DEF CloseSession
<1>8. CASE \E tested \in BOOLEAN : BreakpointCommand(tested)
  <2>1. /\ valid /\ gui = "idle"
        /\ UNCHANGED <<target, type, menu, stack, modal, pending, wire, gdb>>
    BY <1>8 DEF BreakpointCommand, Block, UserActs
  <2> QED BY <2>1, <1>0, SameView
<1>9. CASE DismissBox
  <2>1. valid /\ target' = target /\ gdb' = gdb
    BY <1>9 DEF DismissBox
  <2>2. CASE target \in {"STOPPED", "SPECIFIED"} /\ ~ Answers
    <3>1. /\ UNCHANGED <<type, menu, stack>> /\ gui' # "idle" /\ gdb' # "stopped"
      BY <1>9, <2>2 DEF DismissBox, ShowStop, Block, Answers
    <3> QED BY <2>1, <3>1, <1>0, SameView
  <2>3. CASE target \in {"STOPPED", "SPECIFIED"} /\ Answers
    <3>1. NotifyStateChanged(target', gdb = "stopped")
      BY <1>9, <2>1, <2>3 DEF DismissBox, ShowStop
    <3> QED BY <2>1, <3>1, <1>b, <1>c, Notified
  <2>4. CASE target \notin {"STOPPED", "SPECIFIED"}
    <3>1. NotifyStateChanged(target', stack)
      BY <1>9, <2>1, <2>4 DEF DismissBox
    <3> QED BY <2>1, <2>4, <3>1, <1>b, <1>c, Notified
  <2> QED BY <2>2, <2>3, <2>4
<1>10. CASE HandleEvent
  <2>1. /\ valid /\ gui = "idle" /\ pending # <<>>
        /\ UNCHANGED <<type, wire, gdb>>
    BY <1>10 DEF HandleEvent, HandleRunning, HandleExit, HandleStop, HandleSignal,
       HandleBare, HandleBreakpoint, HandleOther, HandleTerminated, HandleEnded, Take
  <2>2. Head(pending) \notin {"terminated", "ended"}
    <3>1. Head(pending) = pending[1] /\ 1 \in 1..Len(pending)
      BY <1>a, <2>1
    <3> QED BY <3>1, <2>1, <1>0 DEF CaughtUpInv, NoStaleEnd
  <2>3. pending' = Tail(pending)
    BY <1>10, <2>2 DEF HandleEvent, HandleRunning, HandleExit, HandleStop, HandleSignal,
       HandleBare, HandleBreakpoint, HandleOther, HandleTerminated, HandleEnded, Take
  <2>4. ~ Changes(Head(pending)) /\ Quiet(pending' \o wire') => Quiet(pending \o wire)
    <3>1. /\ pending \o wire \in Seq(Events) /\ pending \o wire # <<>>
          /\ Head(pending \o wire) = Head(pending)
          /\ Tail(pending \o wire) = pending' \o wire'
      BY <1>a, <2>1, <2>3, Joined
    <3> QED BY <3>1, QuietStep
  <2>5. CASE HandleRunning \/ HandleExit
    <3>1. /\ NotifyStateChanged(target', FALSE) /\ target' # "STOPPED"
      BY <2>5 DEF HandleRunning, HandleExit
    <3> QED BY <3>1, <2>1, <1>b, <1>c, Notified
  <2>6. CASE HandleStop
    <3>1. CASE Answers
      <4>1. NotifyStateChanged(target', gdb = "stopped") /\ target' = "STOPPED"
        BY <2>6, <3>1 DEF HandleStop, ShowStop
      <4> QED BY <4>1, <2>1, <1>b, Notified
    <3>2. CASE ~ Answers
      <4>1. UNCHANGED <<menu, stack>> /\ gui' # "idle" /\ target' = "STOPPED"
        BY <2>6, <3>2 DEF HandleStop, ShowStop, Block
      <4> QED BY <4>1, <1>0, <1>b, <2>1 DEF ShownInv, MenuMatches
    <3> QED BY <3>1, <3>2
  <2>7. CASE HandleSignal
    <3>1. UNCHANGED <<menu, stack>> /\ target' = "STOPPED"
      BY <2>7 DEF HandleSignal
    <3>2. modal' # 0
      BY <2>7 DEF HandleSignal, TypeOK
    <3> QED BY <3>1, <3>2, <1>0, <1>b, <2>1 DEF ShownInv, MenuMatches
  <2>8. CASE HandleBare
    <3>1. UNCHANGED <<target, menu, stack, gui, modal>> /\ ~ Changes(Head(pending))
      BY <2>8, Effects DEF HandleBare, Take
    <3> QED BY <3>1, <2>1, <2>4, <1>0, SameView
  <2>9. CASE HandleBreakpoint \/ HandleOther
    <3>1. target' = target /\ modal' = modal /\ ~ Changes(Head(pending))
      BY <2>9, Effects DEF HandleBreakpoint, HandleOther, Take
    <3>2. CASE NotifyStateChanged(target, stack)
      <4>1. CASE gui = "idle" /\ modal = 0
        <5>1. gdb' = "stopped" /\ Quiet(pending' \o wire') => stack
          BY <4>1, <3>1, <2>1, <2>4, <1>0 DEF ShownInv
        <5> QED BY <5>1, <3>1, <3>2, <2>1, <1>b, <1>c, Notified
      <4>2. CASE modal # 0
        BY <4>2, <3>1, <3>2, <2>1, <1>b, NotifyShows DEF ShownInv, MenuMatches
      <4> QED BY <4>1, <4>2, <2>1
    <3>3. CASE Block /\ ~ Answers
      <4>1. UNCHANGED <<menu, stack>> /\ gui' # "idle"
        BY <3>3 DEF Block
      <4> QED BY <4>1, <3>1, <1>0, <1>b, <2>1 DEF ShownInv, MenuMatches
    <3> QED BY <2>9, <3>2, <3>3 DEF HandleBreakpoint, HandleOther
  <2>10. CASE HandleTerminated \/ HandleEnded
    BY <2>10, <2>2 DEF HandleTerminated, HandleEnded, Take
  <2> QED BY <1>10, <2>5, <2>6, <2>7, <2>8, <2>9, <2>10 DEF HandleEvent
<1>11. CASE Deliver
  <2>1. pending' \o wire' = pending \o wire
    BY <1>11, <1>a, Joined DEF Deliver
  <2>2. UNCHANGED <<target, valid, type, menu, stack, gui, modal, gdb>>
    BY <1>11 DEF Deliver, guiVars
  <2> QED BY <2>1, <2>2, <1>0, SameView
<1>12. CASE Gdb
  <2>1. UNCHANGED <<target, valid, type, menu, stack, gui, modal, pending>>
    BY <1>12 DEF Gdb, Stop, Exit, Killed, Chatter, Emit, Die, guiVars
  <2>2. CASE Exit \/ Killed \/ Die
    <3>1. gdb' # "stopped"
      BY <2>2 DEF Exit, Killed, Die
    <3> QED BY <2>1, <3>1, <1>0, SameView
  <2>3. CASE \E record \in {"hit", "signal"} : Stop(record)
    <3>1. PICK record \in {"hit", "signal"} : Stop(record)
      BY <2>3
    <3>2. wire' = Append(wire, record) /\ record \in Records /\ Changes(record)
      BY <3>1, Effects DEF Stop, Emit, Records
    <3>3. ~ Quiet(pending' \o wire')
      BY <2>1, <3>2, <1>d
    <3> QED BY <2>1, <3>3, <1>0, SameView
  <2>4. CASE \E record \in {"bare", "breakpoint", "other"} : Chatter(record)
    <3>1. PICK record \in {"bare", "breakpoint", "other"} : Chatter(record)
      BY <2>4
    <3>2. wire' = Append(wire, record) /\ record \in Records /\ gdb' = gdb
      BY <3>1 DEF Chatter, Emit, Records
    <3>3. Quiet(pending' \o wire') => Quiet(pending \o wire)
      BY <2>1, <3>2, <1>d
    <3> QED BY <2>1, <3>2, <3>3, <1>0, SameView
  <2> QED BY <1>12, <2>2, <2>3, <2>4 DEF Gdb
<1>13. CASE UNCHANGED vars
  BY <1>13, <1>0, SameView DEF vars, guiVars
<1> QED BY <1>1, <1>2, <1>3, <1>4, <1>5, <1>6, <1>7, <1>8, <1>9, <1>10, <1>11, <1>12, <1>13
        DEF Next, User

\* The menu offers what the state the GUI thread knows allows, the stack panel
\* shows frames once a stop has been handled and none where there are none: no
\* handler changes the state without the view following it before the user's
\* next turn, message boxes and their nested event loops included.
THEOREM ViewCorrect == Spec => []ViewMatches
<1>1. Init => ShownInv
  BY DEF Init, ShownInv
<1>2. TypeOK /\ CaughtUpInv /\ CaughtUpInv' /\ ShownInv /\ [Next]_vars => ShownInv'
  BY ShownStep
<1>3. CaughtUpInv /\ ShownInv => ViewMatches
  <2> SUFFICES ASSUME CaughtUpInv, ShownInv, ~ hasty PROVE MenuMatches /\ StackMatches
    BY DEF ViewMatches
  <2>1. CASE ~ valid
    BY <2>1 DEF MenuMatches, StackMatches
  <2>2. CASE valid
    <3>1. pending \o wire = <<>> => Quiet(pending \o wire)
      BY DEF Quiet
    <3> QED BY <2>2, <3>1 DEF ShownInv, StackMatches
  <2> QED BY <2>1, <2>2
<1> QED BY <1>1, <1>2, <1>3, TypeCorrect, CaughtUpAlways, PTL DEF Spec
-----------------------------------------------------------------------------
(* What is over.                                                           *)

Over == gdb \in {"core", "exited", "dead"}

\* Every exit in a queue is the last record that changes the state.
ExitLast(q) ==
  \A i \in 1..Len(q) : q[i] = "exit" => \A j \in 1..Len(q) : i < j => ~ Changes(q[j])

HasExit(q) == \E i \in 1..Len(q) : q[i] = "exit"

\* A program that is over, or whose exit is under way, writes no record that
\* changes the state, and only a program not yet run is SPECIFIED.
FinalInv ==
  ~ hasty /\ valid =>
    /\ target = "SPECIFIED" => gdb \in {"loaded", "dead"}
    /\ target = "FINISHED" => Over /\ Quiet(pending \o wire)
    /\ HasExit(pending \o wire) => Over
    /\ ExitLast(pending \o wire)

\* What joins a queue keeps the exit last if it is no change or there is none.
LEMMA ExitAppend ==
  ASSUME NEW q \in Seq(Events), NEW e \in Events, ExitLast(q), HasExit(q) => ~ Changes(e)
  PROVE  ExitLast(Append(q, e)) /\ (HasExit(Append(q, e)) => HasExit(q) \/ e = "exit")
<1> DEFINE r == Append(q, e)
<1>1. /\ Len(r) = Len(q) + 1 /\ Len(q) \in Nat /\ r[Len(q) + 1] = e
      /\ \A i \in 1..Len(q) : r[i] = q[i]
  OBVIOUS
<1>2. \A i \in 1..Len(r) : i \in 1..Len(q) \/ i = Len(q) + 1
  BY <1>1
<1> HIDE DEF r
<1>3. HasExit(r) => HasExit(q) \/ e = "exit"
  BY <1>1, <1>2 DEF HasExit
<1>4. ASSUME NEW i \in 1..Len(r), r[i] = "exit", NEW j \in 1..Len(r), i < j
      PROVE  ~ Changes(r[j])
  <2>1. i \in 1..Len(q) /\ q[i] = "exit"
    BY <1>1, <1>2, <1>4
  <2>2. CASE j \in 1..Len(q)
    BY <2>1, <2>2, <1>1, <1>4 DEF ExitLast
  <2>3. CASE j = Len(q) + 1
    BY <2>1, <2>3, <1>1 DEF HasExit
  <2> QED BY <1>2, <2>2, <2>3
<1>5. ExitLast(r)
  BY <1>4 DEF ExitLast
<1> QED BY <1>3, <1>5 DEF r

\* What is left of a queue whose head is handled
LEMMA ExitTail ==
  ASSUME NEW q \in Seq(Events), q # <<>>, ExitLast(q)
  PROVE  /\ ExitLast(Tail(q)) /\ (HasExit(Tail(q)) => HasExit(q))
         /\ Head(q) = "exit" => HasExit(q) /\ Quiet(Tail(q))
<1> DEFINE r == Tail(q)
<1>1. /\ Len(q) \in Nat /\ 1 \in 1..Len(q) /\ Head(q) = q[1]
      /\ \A i \in 1..Len(r) : i + 1 \in 1..Len(q) /\ r[i] = q[i + 1] /\ 1 < i + 1
      /\ Len(r) = Len(q) - 1
  OBVIOUS
<1>2. \A i, j \in 1..Len(r) : i < j => i + 1 < j + 1
  BY <1>1
<1> HIDE DEF r
<1>3. ExitLast(r)
  BY <1>1, <1>2 DEF ExitLast
<1>4. HasExit(r) => HasExit(q)
  BY <1>1 DEF HasExit
<1>5. Head(q) = "exit" => HasExit(q) /\ Quiet(r)
  BY <1>1 DEF HasExit, ExitLast, Quiet
<1> QED BY <1>3, <1>4, <1>5 DEF r

\* A record that gdb writes while its program is neither over nor unstarted
LEMMA FinalEmit ==
  ASSUME QueuesOK, FinalInv, ~ hasty, valid,
         NEW r \in Records, pending' = pending, wire' = Append(wire, r),
         target' # "SPECIFIED", target' \in {target, "RUNNING"},
         ~ Over, r = "exit" => gdb' = "exited"
  PROVE  FinalInv'
<1> DEFINE q == pending \o wire
<1>1. q \in Seq(Events) /\ pending' \o wire' = Append(q, r) /\ r \in Events
  BY Joined DEF QueuesOK, Events
<1>2. target # "FINISHED" /\ ~ HasExit(q) /\ ExitLast(q)
  BY DEF FinalInv
<1> HIDE DEF q
<1>3. ExitLast(Append(q, r)) /\ (HasExit(Append(q, r)) => r = "exit")
  BY <1>1, <1>2, ExitAppend
<1>4. HasExit(Append(q, r)) => Over'
  BY <1>3 DEF Over
<1> QED BY <1>1, <1>2, <1>3, <1>4 DEF FinalInv

\* A step that leaves the state and the queues alone
LEMMA FinalSame ==
  ASSUME FinalInv, ~ hasty, valid, target' = target, pending' \o wire' = pending \o wire,
         gdb' \in {gdb, "dead"}
  PROVE  FinalInv'
<1>1. Over => Over'
  BY DEF Over
<1> QED BY <1>1 DEF FinalInv

\* Every step keeps an exit the last record of its queue that changes the state.
LEMMA FinalStep ==
  ASSUME CaughtUpInv, FinalInv, [Next]_vars
  PROVE  FinalInv'
<1> SUFFICES ASSUME ~ hasty', valid' PROVE FinalInv'
  BY DEF FinalInv
<1>0. ~ hasty /\ \A t : MayOpen(t) => pending = <<>>
  BY HastyStays
<1>a. pending \in Seq(Events) /\ wire \in Seq(Records) /\ QueuesOK
  BY DEF CaughtUpInv, QueuesOK
<1>b. ASSUME pending' = <<>>, wire' \in {<<>>, <<"hit">>, <<"running">>},
             target' = "SPECIFIED" => gdb' = "loaded",
             target' = "FINISHED" => gdb' = "core" /\ wire' = <<>>
      PROVE  FinalInv'
  <2> DEFINE q == pending' \o wire'
  <2>1. q \in {<<>>, <<"hit">>, <<"running">>} /\ (wire' = <<>> => q = <<>>)
    BY <1>b
  <2> HIDE DEF q
  <2>2. ~ HasExit(q) /\ ExitLast(q) /\ (q = <<>> => Quiet(q))
    BY <2>1 DEF HasExit, ExitLast, Quiet
  <2>3. target' = "FINISHED" => Over'
    BY <1>b DEF Over
  <2> QED BY <1>b, <2>1, <2>2, <2>3 DEF FinalInv, q
<1>1. CASE \E t \in SessionTypes \ {"attach"} : OpenSession(t)
  <2>1. PICK t \in SessionTypes \ {"attach"} : OpenSession(t)
    BY <1>1
  <2>2. pending' = <<>> /\ t \in {"exe", "core", "remote"}
    <3>1. MayOpen(t)
      BY <2>1 DEF OpenSession
    <3> QED BY <2>1, <3>1, <1>0, SessionAssumption DEF MayOpen
  <2>3. /\ wire' \in {<<>>, <<"hit">>, <<"running">>}
        /\ target' = "SPECIFIED" => gdb' = "loaded"
        /\ target' = "FINISHED" => gdb' = "core" /\ wire' = <<>>
    BY <2>1, <2>2 DEF OpenSession, StateOpened
  <2> QED BY <2>2, <2>3, <1>b
<1>2. CASE OpenAttach
  BY <1>2, <1>0, FinalSame DEF OpenAttach, MayOpen
<1>3. CASE RunSession
  <2>1. target' = "RUNNING" /\ wire' \in {<<>>, <<"running">>}
    BY <1>3 DEF RunSession, Run
  <2>2. MayOpen("exe")
    BY <1>3 DEF RunSession
  <2>3. pending' = <<>>
    BY <1>0, <2>2 DEF MayOpen
  <2> QED BY <2>1, <2>3, <1>b
<1>4. CASE ControlRun
  <2>1. valid /\ target = "SPECIFIED" /\ pending' = pending
    BY <1>4 DEF ControlRun
  <2>2. CASE ~ Answers
    <3>1. UNCHANGED <<target, wire, gdb>>
      BY <1>4, <2>2 DEF ControlRun
    <3> QED BY <3>1, <2>1, <1>0, FinalSame
  <2>3. CASE Answers
    <3>1. gdb = "loaded" /\ ~ Over
      BY <2>1, <2>3, <1>0 DEF FinalInv, Answers, Over
    <3>2. target' = "RUNNING" /\ wire' \in {wire, Append(wire, "running")}
      BY <1>4, <2>3 DEF ControlRun, Run
    <3>3. CASE wire' = wire
      BY <3>1, <3>2, <3>3, <2>1, <1>0 DEF FinalInv
    <3>4. CASE wire' = Append(wire, "running")
      BY <3>1, <3>2, <3>4, <2>1, <1>0, <1>a, FinalEmit DEF Records
    <3> QED BY <3>2, <3>3, <3>4
  <2> QED BY <2>2, <2>3
<1>5. CASE Execute \/ Interrupt
  <2>1. /\ valid /\ target' = target /\ pending' = pending
        /\ target \notin {"SPECIFIED", "FINISHED"}
    BY <1>5 DEF Execute, Interrupt
  <2>2. CASE UNCHANGED <<gdb, wire>>
    BY <2>1, <2>2, <1>0, FinalSame
  <2>3. CASE ~ UNCHANGED <<gdb, wire>>
    <3>1. /\ gdb \in {"running", "stopped"}
          /\ \E r \in {"running", "hit"} : wire' = Append(wire, r)
      BY <1>5, <2>3 DEF Execute, Interrupt
    <3>2. ~ Over
      BY <3>1 DEF Over
    <3> QED BY <3>1, <3>2, <2>1, <1>0, <1>a, FinalEmit DEF Records
  <2> QED BY <2>2, <2>3
<1>6. CASE CloseSession
  BY <1>6 DEF CloseSession
<1>7. CASE DismissBox \/ \E tested \in BOOLEAN : BreakpointCommand(tested)
  BY <1>7, <1>0, FinalSame DEF DismissBox, BreakpointCommand
<1>8. CASE HandleEvent
  <2>1. valid /\ pending # <<>> /\ UNCHANGED <<wire, gdb>>
    BY <1>8 DEF HandleEvent, HandleRunning, HandleExit, HandleStop, HandleSignal,
       HandleBare, HandleBreakpoint, HandleOther, HandleTerminated, HandleEnded, Take
  <2>2. Head(pending) \notin {"terminated", "ended"}
    <3>1. Head(pending) = pending[1] /\ 1 \in 1..Len(pending)
      BY <1>a, <2>1
    <3> QED BY <3>1, <2>1, <1>0 DEF CaughtUpInv, NoStaleEnd
  <2>3. pending' = Tail(pending)
    BY <1>8, <2>2 DEF HandleEvent, HandleRunning, HandleExit, HandleStop, HandleSignal,
       HandleBare, HandleBreakpoint, HandleOther, HandleTerminated, HandleEnded, Take
  <2> DEFINE q == pending \o wire
  <2>4. /\ q \in Seq(Events) /\ q # <<>> /\ Head(q) = Head(pending)
        /\ pending' \o wire' = Tail(q)
    BY <1>a, <2>1, <2>3, Joined
  <2>5. /\ HasExit(q) => Over
        /\ ExitLast(q)
        /\ target = "SPECIFIED" => gdb \in {"loaded", "dead"}
        /\ target = "FINISHED" => Over /\ Quiet(q)
    BY <1>0, <2>1 DEF FinalInv
  <2>6. \/ target' \in {"RUNNING", "STOPPED"}
        \/ target' = "FINISHED" /\ Head(pending) = "exit"
        \/ target' = target
    BY <1>8, <2>2 DEF HandleEvent, HandleRunning, HandleExit, HandleStop, HandleSignal,
       HandleBare, HandleBreakpoint, HandleOther, HandleTerminated, HandleEnded, Take
  <2> HIDE DEF q
  <2>7. /\ ExitLast(Tail(q)) /\ (HasExit(Tail(q)) => HasExit(q))
        /\ Head(q) = "exit" => HasExit(q) /\ Quiet(Tail(q))
        /\ Quiet(q) => Quiet(Tail(q))
    BY <2>4, <2>5, ExitTail, QuietStep
  <2>8. Over' = Over
    BY <2>1 DEF Over
  <2> QED BY <2>1, <2>4, <2>5, <2>6, <2>7, <2>8 DEF FinalInv
<1>9. CASE Deliver
  <2>1. pending' \o wire' = pending \o wire
    BY <1>9, <1>a, Joined DEF Deliver
  <2> QED BY <2>1, <1>9, <1>0, FinalSame DEF Deliver, guiVars
<1>10. CASE Gdb
  <2>1. valid /\ UNCHANGED <<target, pending>>
    BY <1>10 DEF Gdb, Stop, Exit, Killed, Chatter, Emit, Die, guiVars
  <2>2. CASE Die
    BY <2>1, <2>2, <1>0, FinalSame DEF Die
  <2>3. CASE gdb = "running" /\ \E r \in {"hit", "signal", "exit"} :
               wire' = Append(wire, r) /\ (r = "exit" => gdb' = "exited")
    <3>1. ~ Over /\ target # "SPECIFIED"
      BY <2>1, <2>3, <1>0 DEF Over, FinalInv
    <3> QED BY <3>1, <2>1, <2>3, <1>0, <1>a, FinalEmit DEF Records
  <2>4. CASE \E record \in {"bare", "breakpoint", "other"} : Chatter(record)
    <3>1. PICK r \in {"bare", "breakpoint", "other"} : Chatter(r)
      BY <2>4
    <3>2. wire' = Append(wire, r) /\ gdb' = gdb /\ r \in Records
      BY <3>1 DEF Chatter, Emit, Records
    <3> DEFINE q == pending \o wire
    <3>3. q \in Seq(Events) /\ pending' \o wire' = Append(q, r) /\ r \in Events
      BY <1>a, <2>1, <3>2, Joined DEF Events
    <3>4. /\ HasExit(q) => Over
          /\ ExitLast(q)
          /\ target = "SPECIFIED" => gdb \in {"loaded", "dead"}
          /\ target = "FINISHED" => Over /\ Quiet(q)
      BY <1>0, <2>1 DEF FinalInv
    <3> HIDE DEF q
    <3>5. ~ Changes(r) /\ r # "exit"
      BY Effects
    <3>6. /\ ExitLast(Append(q, r)) /\ (HasExit(Append(q, r)) => HasExit(q))
          /\ Quiet(q) => Quiet(Append(q, r))
      BY <3>3, <3>4, <3>5, ExitAppend, QuietStep
    <3>7. Over' = Over
      BY <3>2 DEF Over
    <3> QED BY <2>1, <3>2, <3>3, <3>4, <3>6, <3>7 DEF FinalInv
  <2> QED BY <1>10, <2>2, <2>3, <2>4 DEF Gdb, Stop, Exit, Killed, Emit
<1>11. CASE UNCHANGED vars
  BY <1>11, <1>0, FinalSame DEF vars, guiVars
<1> QED BY <1>1, <1>2, <1>3, <1>4, <1>5, <1>6, <1>7, <1>8, <1>9, <1>10, <1>11
        DEF Next, User

\* A program that has finished, or a core, stays finished for its session:
\* neither gdbRun nor any record left over from its life makes the GUI
\* thread believe that it runs or is stopped.
THEOREM FinishedForGood == Spec => FinishedIsFinal
<1>1. Init => FinalInv
  BY DEF Init, FinalInv
<1>2. CaughtUpInv /\ FinalInv /\ [Next]_vars => FinalInv'
  BY FinalStep
<1>3. CaughtUpInv /\ FinalInv /\ [Next]_vars
        => [target = "FINISHED" /\ valid /\ valid' /\ ~ hasty => target' = "FINISHED"]_vars
  <2> SUFFICES ASSUME CaughtUpInv, FinalInv, Next,
                      target = "FINISHED", valid, valid', ~ hasty
               PROVE  target' = "FINISHED"
    BY DEF vars, guiVars
  <2>1. gdb # "none" /\ Quiet(pending \o wire)
    BY DEF FinalInv, Over
  <2>2. CASE User
    BY <2>1, <2>2 DEF User, OpenSession, OpenAttach, RunSession, MayOpen, ControlRun,
       Execute, Interrupt, CloseSession, DismissBox, BreakpointCommand
  <2>3. CASE HandleEvent
    <3>1. pending # <<>>
      BY <2>3 DEF HandleEvent, HandleRunning, HandleExit, HandleStop, HandleSignal,
         HandleBare, HandleBreakpoint, HandleOther, HandleTerminated, HandleEnded, Take
    <3>2. /\ pending \o wire \in Seq(Events) /\ pending \o wire # <<>>
          /\ Head(pending \o wire) = Head(pending)
      BY <3>1, Joined DEF CaughtUpInv, QueuesOK
    <3>3. ~ Changes(Head(pending))
      BY <2>1, <3>2, QuietStep
    <3> QED BY <2>3, <3>3, Effects DEF HandleEvent, HandleRunning, HandleExit, HandleStop,
            HandleSignal, HandleBare, HandleBreakpoint, HandleOther, HandleTerminated,
            HandleEnded, Take
  <2>4. CASE Deliver \/ Gdb
    BY <2>4 DEF Deliver, Gdb, Stop, Exit, Killed, Chatter, Emit, Die, guiVars
  <2> QED BY <2>2, <2>3, <2>4 DEF Next
<1> QED BY <1>1, <1>2, <1>3, CaughtUpAlways, PTL DEF Spec, FinishedIsFinal
=============================================================================
