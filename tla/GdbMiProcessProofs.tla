------------------------- MODULE GdbMiProcessProofs -------------------------
(***************************************************************************)
(* Until a session is opened over another, one reader thread at most runs, *)
(* terminate joins it, and it never meets a closed or a foreign descriptor.*)
(* Until then, too, the lines it hands on are whole and in order: the text *)
(* that was cut off, what is pending and what is in the pty follow one     *)
(* another without a gap, wherever read() ends.  Then what becomes of each *)
(* line: its record's nodes have one owner until they are deleted, and the *)
(* record is the one gdb printed.                                          *)
(***************************************************************************)
EXTENDS GdbMiProcess, MiPrinted, FiniteSetTheorems, SequenceTheorems, WellFoundedInduction, TLAPS

\* A reader that goes round only moves its own program counter, and leaves
\* the object, the processes and the GUI thread alone.
LEMMA ReaderFrame ==
  ASSUME NEW r \in Gdb, Reader(r), ControlOK
  PROVE  /\ UNCHANGED <<starts, overlapped, gui, miFd, tPtr, quit, gdb, terminated>>
         /\ \E where \in {"check", "pump", "select", "terminal", "mi", "split", "ended", "aborted"} :
               Goto(r, where) /\ (thread[r] = "check" /\ quit => where = "ended")
         /\ Running(r)
  BY DEF Reader, CheckQuit, PumpSelect, PumpClosed, PumpTimeout, PumpInferior, PumpMi, PumpChanged,
         ReadInferior, ReadMi, ReadEof, Split, SplitWith, Drop,
         Leave, Goto, Running, PastSelect, objVars, gdbVars, ControlOK

\* The ptys it has given to select() are its object's of that moment, and it
\* keeps them until pumpData returns.
LEMMA ReaderPty ==
  ASSUME NEW r \in Gdb, Reader(r), ControlOK
  PROVE  \E own \in Gdb \union {Closed} :
           /\ fd' = [fd EXCEPT ![r] = own]
           /\ PastSelect(r)' => \/ own = miFd /\ miFd # Closed
                                \/ own = fd[r] /\ PastSelect(r)
<1> USE DEF ControlOK, Goto, PastSelect
<1>1. CASE PumpSelect(r)
  BY <1>1 DEF PumpSelect
<1>2. CASE \/ PumpTimeout(r) \/ ReadInferior(r) \/ ReadEof(r) \/ Split(r) \/ Drop(r)
  <2>1. \E where \in {"check", "ended"} : Leave(r, where)
    BY <1>2 DEF PumpTimeout, ReadInferior, ReadEof, Split, SplitWith, Drop
  <2> QED BY <2>1 DEF Leave
<1>3. CASE CheckQuit(r) \/ PumpClosed(r)
  <2>1. fd' = fd /\ ~ PastSelect(r)'
    BY <1>3 DEF CheckQuit, PumpClosed
  <2>2. fd[r] \in Gdb \union {Closed} /\ fd = [fd EXCEPT ![r] = fd[r]]
    OBVIOUS
  <2> QED BY <2>1, <2>2
<1>4. CASE PumpInferior(r) \/ PumpMi(r) \/ ReadMi(r)
  <2>1. fd' = fd /\ PastSelect(r)
    BY <1>4 DEF PumpInferior, PumpMi, ReadMi
  <2>2. fd[r] \in Gdb \union {Closed} /\ fd = [fd EXCEPT ![r] = fd[r]]
    OBVIOUS
  <2> QED BY <2>1, <2>2
<1>5. CASE PumpChanged(r)
  <2>1. CASE \E where \in {"ended", "aborted"} : Leave(r, where)
    BY <2>1 DEF Leave
  <2>2. CASE miFd # Closed /\ fd' = [fd EXCEPT ![r] = miFd]
    BY <2>2
  <2> QED BY <1>5, <2>1, <2>2 DEF PumpChanged
<1> QED BY <1>1, <1>2, <1>3, <1>4, <1>5 DEF Reader

\* The control state keeps its type.
THEOREM ControlCorrect == Spec => []ControlOK
<1>1. Init => ControlOK
  <2> SUFFICES ASSUME Init PROVE ControlOK
    OBVIOUS
  <2>1. starts \in 0..MaxStarts /\ terminated \in Nat
    BY ProcessAssumption DEF Init
  <2>2. miFd \in Gdb \union {Closed} /\ tPtr \in Gdb \union {NoThread} /\ quit \in BOOLEAN
    BY DEF Init
  <2>3. /\ thread \in [Gdb -> {"none", "check", "pump", "select", "terminal", "mi", "split",
                             "ended", "aborted"}]
        /\ fd \in [Gdb -> Gdb \union {Closed}]
        /\ gdb \in [Gdb -> {"none", "alive", "dead", "closed"}]
        /\ \A r \in Gdb : ~ PastSelect(r)
    BY DEF Init, PastSelect
  <2> QED BY <2>1, <2>2, <2>3 DEF Init, ControlOK
<1>2. ControlOK /\ [Next]_vars => ControlOK'
  <2> SUFFICES ASSUME ControlOK, [Next]_vars PROVE ControlOK'
    OBVIOUS
  <2> USE DEF ControlOK
  <2>1. CASE StartGdbProcess
    <3>1. starts + 1 \in Gdb /\ starts + 1 \in 0..MaxStarts
      BY <2>1, ProcessAssumption DEF StartGdbProcess, Gdb
    <3>2. overlapped' \in BOOLEAN
      BY <2>1 DEF StartGdbProcess
    <3>3. \A r \in Gdb : PastSelect(r)' => PastSelect(r)
      BY <2>1 DEF StartGdbProcess, PastSelect
    <3> QED BY <2>1, <3>1, <3>2, <3>3 DEF StartGdbProcess
  <2>2. CASE RequestQuit
    <3>1. quit' \in BOOLEAN
      BY <2>2 DEF RequestQuit
    <3> QED BY <2>2, <3>1 DEF RequestQuit, gdbVars, rdVars, PastSelect
  <2>3. CASE FinishTerminate
    <3>1. quit' \in BOOLEAN
      BY <2>3 DEF FinishTerminate
    <3>2. gdb' \in [Gdb -> {"none", "alive", "dead", "closed"}] /\ terminated' \in Nat
      <4>1. gdb' = [gdb EXCEPT ![tPtr] = "closed"] /\ terminated' = terminated + 1
        BY <2>3 DEF FinishTerminate
      <4>2. gdb' \in [Gdb -> {"none", "alive", "dead", "closed"}]
        BY <4>1, Zenon
      <4>3. terminated' \in Nat
        BY <4>1
      <4> QED BY <4>2, <4>3
    <3>3. miFd' \in Gdb \union {Closed} /\ tPtr' \in Gdb \union {NoThread}
      BY <2>3 DEF FinishTerminate
    <3>4. UNCHANGED <<starts, overlapped, thread, fd>> /\ gui' = "free"
      BY <2>3 DEF FinishTerminate, rdVars
    <3> QED BY <3>1, <3>2, <3>3, <3>4 DEF PastSelect
  <2>4. CASE \E r \in Gdb : Reader(r)
    <3>1. PICK r \in Gdb : Reader(r)
      BY <2>4
    <3>2. PICK own \in Gdb \union {Closed} :
             /\ fd' = [fd EXCEPT ![r] = own]
             /\ PastSelect(r)' => \/ own = miFd /\ miFd # Closed
                                  \/ own = fd[r] /\ PastSelect(r)
      BY <3>1, ReaderPty
    <3>3. PICK where \in {"check", "pump", "select", "terminal", "mi", "split", "ended", "aborted"} :
             Goto(r, where)
      BY <3>1, ReaderFrame
    <3>4. \A s \in Gdb : PastSelect(s)' => fd'[s] # Closed
      <4>1. \A s \in Gdb : s # r => fd'[s] = fd[s] /\ (PastSelect(s)' => PastSelect(s))
        BY <3>2, <3>3 DEF Goto, PastSelect
      <4>2. PastSelect(r)' => fd'[r] # Closed
        BY <3>2
      <4> QED BY <4>1, <4>2
    <3>5. /\ thread' \in [Gdb -> {"none", "check", "pump", "select", "terminal", "mi", "split",
                                  "ended", "aborted"}]
          /\ fd' \in [Gdb -> Gdb \union {Closed}]
      BY <3>2, <3>3 DEF Goto
    <3> QED BY <3>1, <3>4, <3>5, ReaderFrame
  <2>5. CASE \E g \in Gdb : WriteLine(g) \/ WriteTerminal(g) \/ Die(g)
    BY <2>5 DEF WriteLine, WriteTerminal, Die, objVars, rdVars, PastSelect
  <2>6. CASE UNCHANGED vars
    BY <2>6 DEF vars, objVars, rdVars, gdbVars, PastSelect
  <2> QED BY <2>1, <2>2, <2>3, <2>4, <2>5, <2>6 DEF Next
<1> QED BY <1>1, <1>2, PTL DEF Spec

-----------------------------------------------------------------------------
(* Induction over the numbers below a bound, and the functions it defines. *)

\* A set of numbers that is not empty has a smallest.
LEMMA SmallestNumber ==
  ASSUME NEW T \in SUBSET Nat, T # {}
  PROVE  \E n \in T : \A m \in T : n <= m
<1> DEFINE R == OpToRel(<, Nat)
<1>1. \E x \in T : \A y \in T : ~ (<<y, x>> \in R)
  <2>1. IsWellFoundedOn(R, Nat)
    BY NatLessThanWellFounded
  <2> HIDE DEF R
  <2> QED BY <2>1, WFMin
<1>2. \A x, y \in Nat : y < x => <<y, x>> \in R
  BY DEF OpToRel
<1> HIDE DEF R
<1>3. PICK n \in T : \A y \in T : ~ (<<y, n>> \in R)
  BY <1>1
<1>4. ASSUME NEW m \in T PROVE n <= m
  <2>1. m \in Nat /\ n \in Nat /\ ~ (m < n)
    BY <1>2, <1>3
  <2> QED BY <2>1
<1> QED BY <1>4

\* Induction up to k, over a set
LEMMA UpTo ==
  ASSUME NEW k \in Nat, NEW T, 0 \in T, \A n \in 1..k : n - 1 \in T => n \in T
  PROVE  0..k \subseteq T
<1> SUFFICES ASSUME (0..k) \ T # {} PROVE FALSE
  OBVIOUS
<1>1. PICK n \in (0..k) \ T : \A m \in (0..k) \ T : n <= m
  <2>1. (0..k) \ T \in SUBSET Nat
    OBVIOUS
  <2> QED BY <2>1, SmallestNumber
<1>2. n \in 1..k /\ n - 1 \in 0..k /\ ~ (n <= n - 1)
  BY <1>1
<1>3. n - 1 \in T
  BY <1>1, <1>2
<1> QED BY <1>1, <1>2, <1>3

\* A function may be defined on 0..k step by step: if F stays in X ...
Steps(X, base, k, F) ==
  base \in X /\ k \in Nat /\ \A n \in 1..k, x \in X : F[<<n, x>>] \in X

\* ... there is a function that starts at base and goes on as F says.
Defines(X, base, k, F) ==
  \E f \in [0..k -> X] : f[0] = base /\ \A n \in 1..k : f[n] = F[<<n, f[n - 1]>>]

\* Given a function for its steps and a base, the function computed step by step exists.
LEMMA Stepwise ==
  ASSUME NEW X, NEW base, NEW k, NEW F, Steps(X, base, k, F)
  PROVE  Defines(X, base, k, F)
<1> DEFINE Good(m, f) == f[0] = base /\ \A n \in 1..m : f[n] = F[<<n, f[n - 1]>>]
           T == {m \in 0..k : \E f \in [0..m -> X] : Good(m, f)}
<1>0. base \in X /\ k \in Nat /\ \A n \in 1..k, x \in X : F[<<n, x>>] \in X
  BY DEF Steps
<1>1. 0 \in T
  <2>1. [n \in 0..0 |-> base] \in [0..0 -> X] /\ Good(0, [n \in 0..0 |-> base])
    BY <1>0
  <2>2. \E f \in [0..0 -> X] : Good(0, f)
    BY <2>1
  <2>3. 0 \in 0..k
    BY <1>0
  <2> HIDE DEF Good
  <2> QED BY <2>2, <2>3
<1>2. ASSUME NEW m \in 1..k, m - 1 \in T PROVE m \in T
  <2>1. PICK f \in [0..(m - 1) -> X] : Good(m - 1, f)
    BY <1>2
  <2> DEFINE g == [n \in 0..m |-> IF n = m THEN F[<<m, f[m - 1]>>] ELSE f[n]]
  <2>2. m - 1 \in 0..(m - 1) /\ m \in 0..m
    BY <1>0
  <2>3. F[<<m, f[m - 1]>>] \in X
    BY <1>0, <2>1, <2>2
  <2>4. \A n \in 0..(m - 1) : n \in 0..m /\ n # m /\ g[n] = f[n]
    BY <1>0
  <2>5. g \in [0..m -> X]
    BY <2>3
  <2>6. g[0] = base
    BY <2>1, <2>4
  <2>7. ASSUME NEW n \in 1..m PROVE g[n] = F[<<n, g[n - 1]>>]
    <3>1. n - 1 \in 0..(m - 1)
      BY <1>0
    <3>2. g[n - 1] = f[n - 1]
      BY <2>4, <3>1
    <3>3. CASE n = m
      BY <2>2, <3>2, <3>3
    <3>4. CASE n # m
      <4>1. n \in 1..(m - 1) /\ n \in 0..(m - 1)
        BY <3>4
      <4> QED BY <2>1, <2>4, <3>2, <4>1
    <3> QED BY <3>3, <3>4
  <2> HIDE DEF g
  <2>8. Good(m, g)
    BY <2>6, <2>7
  <2>9. m \in 0..k
    BY <1>0
  <2> QED BY <2>5, <2>8, <2>9
<1>3. k \in T
  <2> HIDE DEF T
  <2>1. 0..k \subseteq T
    BY <1>0, <1>1, <1>2, UpTo
  <2> QED BY <1>0, <2>1
<1> QED BY <1>3 DEF Defines
-----------------------------------------------------------------------------
(* A text cut at its newlines.                                             *)

Cuts == [lines : Seq(Seq(Piece)), rest : Seq(Piece)]

\* The function Cut is computed with
CutUpTo(text) ==
  LET cut[n \in 0..Len(text)] ==
        IF n = 0 THEN [lines |-> <<>>, rest |-> <<>>]
        ELSE LET got == Append(cut[n - 1].rest, text[n])
             IN IF EndsLine(text[n])
                THEN [lines |-> Append(cut[n - 1].lines, got), rest |-> <<>>]
                ELSE [lines |-> cut[n - 1].lines, rest |-> got]
  IN cut

\* One more piece
CutMore(cut, piece) ==
  LET got == Append(cut.rest, piece)
  IN IF EndsLine(piece) THEN [lines |-> Append(cut.lines, got), rest |-> <<>>]
                        ELSE [lines |-> cut.lines, rest |-> got]

\* Cutting goes on piece by piece.
LEMMA CutStep ==
  ASSUME NEW text \in Seq(Piece)
  PROVE  /\ CutUpTo(text) \in [0..Len(text) -> Cuts]
         /\ Cut(text) = CutUpTo(text)[Len(text)]
         /\ CutUpTo(text)[0] = [lines |-> <<>>, rest |-> <<>>]
         /\ \A n \in 1..Len(text) : CutUpTo(text)[n] = CutMore(CutUpTo(text)[n - 1], text[n])
<1> DEFINE k == Len(text)
           base == [lines |-> <<>>, rest |-> <<>>]
           Step(n, x) == CutMore(x, text[n])
           F == [p \in (1..k) \X Cuts |-> Step(p[1], p[2])]
           Is(g) == g = [n \in 0..k |-> IF n = 0 THEN base ELSE Step(n, g[n - 1])]
           f == CutUpTo(text)
<1>1. k \in Nat /\ base \in Cuts
  <2>1. <<>> \in Seq(Piece) /\ <<>> \in Seq(Seq(Piece))
    OBVIOUS
  <2>2. base \in Cuts
    BY <2>1, Zenon DEF Cuts
  <2> QED BY <2>2
<1>2. ASSUME NEW n \in 1..k, NEW x \in Cuts PROVE Step(n, x) \in Cuts /\ F[<<n, x>>] = Step(n, x)
  <2>1. text[n] \in Piece /\ x.rest \in Seq(Piece) /\ x.lines \in Seq(Seq(Piece))
    BY DEF Cuts
  <2>2. Append(x.rest, text[n]) \in Seq(Piece)
    BY <2>1, AppendProperties
  <2>3. Append(x.lines, Append(x.rest, text[n])) \in Seq(Seq(Piece))
    BY <2>1, <2>2, AppendProperties
  <2>4. <<>> \in Seq(Piece)
    OBVIOUS
  <2>5. Step(n, x) \in Cuts
    BY <2>1, <2>2, <2>3, <2>4, Zenon DEF CutMore, Cuts
  <2> QED BY <2>5
<1>3. \E g : g \in [0..k -> Cuts] /\ Is(g)
  <2>1. PICK g \in [0..k -> Cuts] : g[0] = base /\ \A n \in 1..k : g[n] = F[<<n, g[n - 1]>>]
    <3> HIDE DEF k, F, Step, base
    <3>1. Steps(Cuts, base, k, F)
      BY <1>1, <1>2 DEF Steps
    <3>2. Defines(Cuts, base, k, F)
      BY <3>1, Stepwise
    <3> QED BY <3>2 DEF Defines
  <2>2. ASSUME NEW n \in 1..k PROVE g[n] = Step(n, g[n - 1])
    <3>1. n - 1 \in 0..k /\ g[n - 1] \in Cuts
      BY <1>1
    <3> HIDE DEF k, F, Step
    <3> QED BY <1>2, <2>1, <3>1
  <2> HIDE DEF k, F, Step, base
  <2>3. Is(g)
    <3>1. \A n \in 0..k : n = 0 \/ n \in 1..k
      BY <1>1
    <3> QED BY <2>1, <2>2, <3>1
  <2> QED BY <2>3
<1>4. f = CHOOSE g : Is(g)
  BY DEF CutUpTo, CutMore
<1>5. Is(f)
  <2> HIDE DEF Is, f
  <2> QED BY <1>3, <1>4
<1>6. Cut(text) = f[k]
  BY DEF Cut, CutUpTo
<1>7. f[0] = base /\ \A n \in 1..k : f[n] = Step(n, f[n - 1])
  <2> HIDE DEF f, Step, k, base
  <2>1. 0 \in 0..k /\ \A n \in 1..k : n \in 0..k /\ n # 0
    BY <1>1
  <2> QED BY <1>5, <2>1
<1>8. \A n \in 0..k : f[n] \in Cuts
  <2> DEFINE T == {n \in 0..k : f[n] \in Cuts}
  <2> HIDE DEF f, Step, k, F, base
  <2>1. 0 \in T
    <3>1. 0 \in 0..k
      BY <1>1
    <3>2. f[0] \in Cuts
      BY <1>1, <1>7, Zenon
    <3> QED BY <3>1, <3>2
  <2>2. ASSUME NEW n \in 1..k, n - 1 \in T PROVE n \in T
    <3>1. f[n - 1] \in Cuts /\ n \in 0..k
      BY <1>1, <2>2
    <3> QED BY <1>2, <1>7, <3>1
  <2> HIDE DEF T
  <2>3. 0..k \subseteq T
    BY <1>1, <2>1, <2>2, UpTo
  <2> QED BY <2>3 DEF T
<1>9. f \in [0..k -> Cuts]
  <2>1. f = [n \in 0..k |-> f[n]]
    <3> HIDE DEF f, Step, k, F, base
    <3> QED BY <1>5
  <2> HIDE DEF f, Step, k, F, base
  <2> QED BY <1>8, <2>1
<1> QED BY <1>6, <1>7, <1>9
-----------------------------------------------------------------------------
(* What is cut out of an unbroken text.                                    *)

Follows(p, q) ==
  \/ q.line = p.line /\ q.part = p.part + 1
  \/ p.part = Parts /\ q.part = 1 /\ q.line > p.line

\* Whole lines of growing number, the last perhaps cut short
Unbroken(s) ==
  /\ s # <<>> => s[1].part = 1
  /\ \A i \in 1..Len(s) - 1 : Follows(s[i], s[i + 1])

\* A line handed to the parser, and its number
Number(got) == got[1].line
IsLine(got) == Number(got) \in 1..MaxLines /\ got = LineText(Number(got))
Growing(s) ==
  /\ \A i \in DOMAIN s : IsLine(s[i])
  /\ \A i, j \in DOMAIN s : i < j => Number(s[i]) < Number(s[j])

\* What cut has of the first n pieces of text: the pieces after the last
\* newline, which are the beginning of a line, and the lines before it.
CutTo(text, n, cut) ==
  LET last == n - Len(cut.rest)
  IN /\ Len(cut.rest) <= n /\ Len(cut.rest) < Parts
     /\ \A i \in 1..Len(cut.rest) : /\ cut.rest[i] = text[last + i]
                                    /\ cut.rest[i] = [line |-> text[n].line, part |-> i]
     /\ last > 0 => text[last].part = Parts
     /\ Growing(cut.lines)
     /\ \A i \in DOMAIN cut.lines :
           last > 0 /\ text[1].line <= Number(cut.lines[i]) /\ Number(cut.lines[i]) <= text[last].line

\* A piece is numbered.
LEMMA Pieces ==
  ASSUME NEW p \in Piece
  PROVE  p.line \in 1..MaxLines /\ p.part \in 1..Parts /\ p.line \in Nat /\ p.part \in Nat
<1>1. p.line \in 1..MaxLines /\ p.part \in 1..Parts
  BY DEF Piece
<1> QED BY <1>1, ProcessAssumption

\* The pieces of a line are the line.
LEMMA WholeLine ==
  ASSUME NEW n \in 1..MaxLines, NEW s \in Seq(Piece), Len(s) = Parts,
         \A i \in 1..Parts : s[i] = [line |-> n, part |-> i]
  PROVE  IsLine(s) /\ Number(s) = n
<1>1. s = LineText(n)
  BY ProcessAssumption DEF LineText
<1>2. s[1].line = n
  BY ProcessAssumption
<1> QED BY <1>1, <1>2 DEF IsLine, Number

\* The pieces of an unbroken text are of growing lines.
LEMMA Later ==
  ASSUME NEW s \in Seq(Piece), Unbroken(s), NEW i \in 1..Len(s), NEW j \in 1..Len(s), i <= j
  PROVE  s[i].line <= s[j].line
<1> DEFINE T == {n \in 0..Len(s) - i : s[i].line <= s[i + n].line}
<1>1. \A n \in 1..Len(s) : s[n] \in Piece /\ s[n].line \in Nat /\ s[n].part \in Nat
  <2>1. \A n \in 1..Len(s) : s[n] \in Piece
    OBVIOUS
  <2> QED BY <2>1, Pieces
<1>2. 0 \in T
  BY <1>1
<1>3. ASSUME NEW n \in 1..Len(s) - i, n - 1 \in T PROVE n \in T
  <2>1. i + n - 1 \in 1..Len(s) - 1 /\ i + n \in 1..Len(s)
    OBVIOUS
  <2>2. Follows(s[i + n - 1], s[i + n])
    <3>1. i + n - 1 + 1 = i + n
      BY <2>1
    <3> QED BY <2>1, <3>1 DEF Unbroken
  <2>3. s[i + n - 1].line <= s[i + n].line
    BY <1>1, <2>1, <2>2 DEF Follows
  <2>4. s[i].line <= s[i + n - 1].line
    BY <1>3
  <2> QED BY <1>1, <2>1, <2>3, <2>4
<1>4. Len(s) - i \in Nat /\ j - i \in 0..Len(s) - i
  OBVIOUS
<1>5. 0..Len(s) - i \subseteq T
  <2> HIDE DEF T
  <2> QED BY <1>2, <1>3, <1>4, UpTo
<1>6. s[i].line <= s[i + (j - i)].line
  BY <1>4, <1>5
<1>7. i + (j - i) = j
  OBVIOUS
<1> QED BY <1>6, <1>7

\* After the end of a line comes the first piece of a later one.
LEMMA NextLine ==
  ASSUME NEW s \in Seq(Piece), Unbroken(s), NEW i \in 1..Len(s) - 1, s[i].part = Parts
  PROVE  s[i + 1].part = 1 /\ s[i + 1].line > s[i].line
<1>1. s[i + 1] \in Piece
  OBVIOUS
<1>2. s[i + 1].part # Parts + 1
  BY <1>1, Pieces, ProcessAssumption
<1>3. Follows(s[i], s[i + 1])
  BY DEF Unbroken
<1> QED BY <1>2, <1>3 DEF Follows

\* Reading one more piece keeps CutTo.
LEMMA CutToStep ==
  ASSUME NEW text \in Seq(Piece), Unbroken(text), NEW n \in 1..Len(text), NEW cut \in Cuts,
         CutTo(text, n - 1, cut)
  PROVE  CutTo(text, n, CutMore(cut, text[n]))
<1> DEFINE p == text[n]
           m == Len(cut.rest)
           last == n - 1 - m
           got == Append(cut.rest, p)
<1>0. \A k \in 1..Len(text) : text[k] \in Piece
  OBVIOUS
<1>1. /\ m \in Nat /\ m <= n - 1 /\ m < Parts /\ last \in Nat /\ last + m = n - 1
      /\ cut.rest \in Seq(Piece) /\ cut.lines \in Seq(Seq(Piece))
  BY DEF CutTo, Cuts
<1>2. p \in Piece /\ p.line \in Nat /\ p.part \in Nat /\ p.line \in 1..MaxLines
  <2>1. p \in Piece
    OBVIOUS
  <2> QED BY <2>1, Pieces
<1>3. p.part = m + 1 /\ (m > 0 => p.line = text[n - 1].line)
  <2>1. CASE m > 0
    <3>1. m \in 1..Len(cut.rest) /\ last + m = n - 1 /\ n - 1 \in 1..Len(text) - 1
      BY <1>1, <2>1
    <3>2. cut.rest[m] = text[n - 1] /\ cut.rest[m] = [line |-> text[n - 1].line, part |-> m]
      BY <3>1 DEF CutTo
    <3>3. text[n - 1].part = m
      BY <3>2
    <3>4. Follows(text[n - 1], text[n])
      <4>1. n - 1 + 1 = n
        OBVIOUS
      <4> QED BY <3>1, <4>1 DEF Unbroken
    <3> QED BY <1>1, <3>3, <3>4 DEF Follows
  <2>2. CASE m = 0 /\ n = 1
    BY <2>2 DEF Unbroken
  <2>3. CASE m = 0 /\ n > 1
    <3>1. n - 1 \in 1..Len(text) - 1 /\ n - 1 + 1 = n
      BY <2>3
    <3>2. text[n - 1].part = Parts
      BY <2>3, <3>1 DEF CutTo
    <3> QED BY <2>3, <3>1, <3>2, NextLine
  <2> QED BY <1>1, <2>1, <2>2, <2>3
<1>4. p = [line |-> p.line, part |-> m + 1]
  BY <1>2, <1>3 DEF Piece
<1>5. got \in Seq(Piece) /\ Len(got) = m + 1 /\ got[m + 1] = p /\ \A i \in 1..m : got[i] = cut.rest[i]
  BY <1>1, <1>2, AppendProperties
<1>6. \A i \in 1..m + 1 : got[i] = text[last + i] /\ got[i] = [line |-> p.line, part |-> i]
  <2> SUFFICES ASSUME NEW i \in 1..m + 1
               PROVE  got[i] = text[last + i] /\ got[i] = [line |-> p.line, part |-> i]
    OBVIOUS
  <2>1. CASE i = m + 1
    <3>1. last + i = n
      BY <1>1, <2>1
    <3> QED BY <1>4, <1>5, <2>1, <3>1
  <2>2. CASE i # m + 1
    <3>1. i \in 1..m /\ m > 0
      BY <1>1, <2>2
    <3>2. got[i] = cut.rest[i] /\ p.line = text[n - 1].line
      BY <1>3, <1>5, <3>1
    <3>3. cut.rest[i] = text[last + i] /\ cut.rest[i] = [line |-> text[n - 1].line, part |-> i]
      BY <3>1 DEF CutTo
    <3> QED BY <3>2, <3>3
  <2> QED BY <2>1, <2>2
<1> HIDE DEF got
<1>7. CASE EndsLine(p)
  <2> DEFINE new == CutMore(cut, p)
  <2>1. new = [lines |-> Append(cut.lines, got), rest |-> <<>>]
    BY <1>7 DEF CutMore, got
  <2>2. m + 1 = Parts /\ p.part = Parts
    BY <1>3, <1>7 DEF EndsLine
  <2>3. IsLine(got) /\ Number(got) = p.line
    <3>1. Len(got) = Parts /\ p.line \in 1..MaxLines /\ got \in Seq(Piece)
      BY <1>2, <1>5, <2>2
    <3>2. \A i \in 1..Parts : got[i] = [line |-> p.line, part |-> i]
      BY <1>6, <2>2
    <3> HIDE DEF p
    <3> QED BY <3>1, <3>2, WholeLine
  <2>4. text[1].line <= p.line
    BY Later
  <2>5. ASSUME last > 0 PROVE text[last].line < p.line
    <3>1. text[last].part = Parts /\ last \in 1..Len(text) - 1 /\ last + 1 \in 1..Len(text) /\ last + 1 <= n
      BY <1>1, <2>5 DEF CutTo
    <3>2. text[last + 1].line > text[last].line
      BY <3>1, NextLine
    <3>3. text[last + 1].line <= p.line
      BY <3>1, Later
    <3>4. text[last] \in Piece /\ text[last + 1] \in Piece
      <4>1. last \in 1..Len(text)
        BY <3>1
      <4> HIDE DEF last
      <4> QED BY <1>0, <3>1, <4>1
    <3>5. text[last].line \in Nat /\ text[last + 1].line \in Nat
      BY <3>4, Pieces
    <3> QED BY <1>2, <3>2, <3>3, <3>5
  <2>6. /\ new.lines \in Seq(Seq(Piece)) /\ Len(new.lines) = Len(cut.lines) + 1
        /\ new.lines[Len(cut.lines) + 1] = got
        /\ \A i \in 1..Len(cut.lines) : new.lines[i] = cut.lines[i]
    <3>1. new.lines = Append(cut.lines, got)
      BY <2>1
    <3> QED BY <1>1, <1>5, <3>1, AppendProperties
  <2>7. /\ Growing(cut.lines)
        /\ \A i \in DOMAIN cut.lines :
              last > 0 /\ text[1].line <= Number(cut.lines[i]) /\ Number(cut.lines[i]) <= text[last].line
    BY DEF CutTo
  <2>8. \A i \in 1..Len(cut.lines) :
           IsLine(cut.lines[i]) /\ text[1].line <= Number(cut.lines[i]) /\ Number(cut.lines[i]) < p.line
    <3> SUFFICES ASSUME NEW i \in 1..Len(cut.lines)
                 PROVE  /\ IsLine(cut.lines[i]) /\ text[1].line <= Number(cut.lines[i])
                        /\ Number(cut.lines[i]) < p.line
      OBVIOUS
    <3>1. i \in DOMAIN cut.lines
      BY <1>1
    <3>2. /\ IsLine(cut.lines[i]) /\ last > 0 /\ text[1].line <= Number(cut.lines[i])
          /\ Number(cut.lines[i]) <= text[last].line
      BY <2>7, <3>1 DEF Growing
    <3>3. Number(cut.lines[i]) \in Nat
      BY <3>2, ProcessAssumption DEF IsLine
    <3>4. text[last] \in Piece
      <4>1. last \in 1..Len(text)
        <5>1. last > 0
          BY <3>2
        <5>2. last \in Nat /\ last <= n /\ n <= Len(text) /\ n \in Nat /\ Len(text) \in Nat
          BY <1>1
        <5> HIDE DEF last
        <5> QED BY <5>1, <5>2
      <4> HIDE DEF last
      <4> QED BY <1>0, <4>1
    <3>5. text[last].line \in Nat
      BY <3>4, Pieces
    <3> QED BY <1>2, <2>5, <3>2, <3>3, <3>5
  <2>9. DOMAIN new.lines = 1..Len(cut.lines) + 1 /\ Len(cut.lines) \in Nat
    BY <1>1, <2>6
  <2>10. Growing(new.lines)
    <3>1. ASSUME NEW i \in DOMAIN new.lines PROVE IsLine(new.lines[i])
      <4> HIDE DEF new
      <4>1. CASE i \in 1..Len(cut.lines)
        <5>1. new.lines[i] = cut.lines[i]
          BY <2>6, <4>1
        <5> QED BY <2>8, <4>1, <5>1
      <4>2. CASE i = Len(cut.lines) + 1
        BY <2>3, <2>6, <4>2
      <4> QED BY <2>9, <4>1, <4>2
    <3>2. ASSUME NEW i \in DOMAIN new.lines, NEW j \in DOMAIN new.lines, i < j
          PROVE  Number(new.lines[i]) < Number(new.lines[j])
      <4>1. i \in 1..Len(cut.lines)
        BY <2>9, <3>2
      <4>2. CASE j = Len(cut.lines) + 1
        BY <2>3, <2>6, <2>8, <4>1, <4>2
      <4>3. CASE j # Len(cut.lines) + 1
        <5>1. j \in 1..Len(cut.lines) /\ i \in DOMAIN cut.lines /\ j \in DOMAIN cut.lines
          <6>1. j \in 1..Len(cut.lines)
            BY <2>9, <4>3
          <6>2. DOMAIN cut.lines = 1..Len(cut.lines)
            BY <1>1
          <6> QED BY <4>1, <6>1, <6>2
        <5> QED BY <2>6, <2>7, <3>2, <4>1, <5>1 DEF Growing
      <4> QED BY <4>2, <4>3
    <3> QED BY <3>1, <3>2 DEF Growing
  <2>11. new.rest = <<>> /\ Len(new.rest) = 0
    BY <2>1
  <2>12. \A i \in DOMAIN new.lines : text[1].line <= Number(new.lines[i]) /\ Number(new.lines[i]) <= p.line
    <3> SUFFICES ASSUME NEW i \in DOMAIN new.lines
                 PROVE  text[1].line <= Number(new.lines[i]) /\ Number(new.lines[i]) <= p.line
      OBVIOUS
    <3>1. CASE i = Len(cut.lines) + 1
      BY <1>2, <2>3, <2>4, <2>6, <3>1
    <3>2. CASE i \in 1..Len(cut.lines)
      <4>1. Number(cut.lines[i]) \in Nat
        BY <2>8, <3>2, ProcessAssumption DEF IsLine
      <4>2. new.lines[i] = cut.lines[i]
        BY <2>6, <3>2
      <4>3. text[1].line <= Number(cut.lines[i]) /\ Number(cut.lines[i]) < p.line
        BY <2>8, <3>2
      <4>4. Number(cut.lines[i]) <= p.line
        BY <1>2, <4>1, <4>3
      <4> HIDE DEF new
      <4> QED BY <4>2, <4>3, <4>4
    <3> QED BY <2>9, <3>1, <3>2
  <2>13. n - Len(new.rest) = n /\ n > 0 /\ 0 <= n /\ 0 < Parts
    BY <2>11, ProcessAssumption
  <2> HIDE DEF new
  <2> QED BY <2>2, <2>10, <2>11, <2>12, <2>13 DEF CutTo, new
<1>8. CASE ~ EndsLine(p)
  <2> DEFINE new == CutMore(cut, p)
  <2>1. new = [lines |-> cut.lines, rest |-> got]
    BY <1>8 DEF CutMore, got
  <2>2. new.lines = cut.lines /\ new.rest = got
    BY <2>1
  <2>3. m + 1 < Parts /\ n - Len(got) = last /\ Len(got) <= n
    BY <1>1, <1>3, <1>5, <1>8, ProcessAssumption DEF EndsLine
  <2>4. /\ last > 0 => text[last].part = Parts
        /\ Growing(cut.lines)
        /\ \A i \in DOMAIN cut.lines :
              last > 0 /\ text[1].line <= Number(cut.lines[i]) /\ Number(cut.lines[i]) <= text[last].line
    BY DEF CutTo
  <2> HIDE DEF new, last
  <2> QED BY <1>5, <1>6, <2>2, <2>3, <2>4 DEF CutTo, new
<1> QED BY <1>7, <1>8

\* Cut gives whole lines of growing number, and the beginning of a line.
LEMMA CutCorrect ==
  ASSUME NEW text \in Seq(Piece), Unbroken(text)
  PROVE  Cut(text) \in Cuts /\ CutTo(text, Len(text), Cut(text))
<1> DEFINE f == CutUpTo(text)
           T == {n \in 0..Len(text) : CutTo(text, n, f[n])}
<1>1. /\ f \in [0..Len(text) -> Cuts]
      /\ Cut(text) = f[Len(text)]
      /\ f[0] = [lines |-> <<>>, rest |-> <<>>]
      /\ \A n \in 1..Len(text) : f[n] = CutMore(f[n - 1], text[n])
  BY CutStep
<1> HIDE DEF f
<1>2. Len(text) \in Nat /\ 0 \in 0..Len(text) /\ Len(text) \in 0..Len(text)
  OBVIOUS
<1>3. 0 \in T
  <2>1. f[0].lines = <<>> /\ f[0].rest = <<>>
    BY <1>1
  <2>2. Len(f[0].rest) = 0 /\ DOMAIN f[0].lines = {}
    BY <2>1
  <2>3. Growing(f[0].lines)
    BY <2>2 DEF Growing
  <2>4. 0 <= 0 /\ 0 < Parts /\ ~ (0 - 0 > 0)
    BY ProcessAssumption
  <2>5. CutTo(text, 0, f[0])
    BY <2>2, <2>3, <2>4 DEF CutTo
  <2> QED BY <1>2, <2>5
<1>4. ASSUME NEW n \in 1..Len(text), n - 1 \in T PROVE n \in T
  <2>1. f[n - 1] \in Cuts /\ CutTo(text, n - 1, f[n - 1]) /\ n \in 0..Len(text)
    BY <1>1, <1>4
  <2>2. CutTo(text, n, CutMore(f[n - 1], text[n]))
    BY <2>1, CutToStep
  <2> QED BY <1>1, <2>1, <2>2
<1>5. 0..Len(text) \subseteq T
  <2> HIDE DEF T
  <2> QED BY <1>2, <1>3, <1>4, UpTo
<1>6. CutTo(text, Len(text), f[Len(text)])
  BY <1>2, <1>5
<1> QED BY <1>1, <1>2, <1>6
-----------------------------------------------------------------------------
(* The text between gdb and the parser.                                    *)

Complete(s) == Unbroken(s) /\ (s # <<>> => s[Len(s)].part = Parts)

\* The text still to be cut is of whole lines later than those handed over.
Ready(text, w, handed) ==
  /\ Complete(text)
  /\ \A i \in DOMAIN text : text[i].line <= w
  /\ \A i \in DOMAIN handed, j \in DOMAIN text : Number(handed[i]) < text[j].line
Handed(handed, w) == Growing(handed) /\ \A i \in DOMAIN handed : Number(handed[i]) <= w

\* Two sequences put together
LEMMA Joined ==
  ASSUME NEW S, NEW s \in Seq(S), NEW t \in Seq(S)
  PROVE  /\ s \o t \in Seq(S) /\ Len(s \o t) = Len(s) + Len(t) /\ DOMAIN (s \o t) = 1..Len(s) + Len(t)
         /\ \A i \in 1..Len(s) : i \in DOMAIN (s \o t) /\ (s \o t)[i] = s[i]
         /\ \A i \in 1..Len(t) : Len(s) + i \in DOMAIN (s \o t) /\ (s \o t)[Len(s) + i] = t[i]
         /\ \A i \in DOMAIN (s \o t) : \/ i \in 1..Len(s)
                                       \/ i - Len(s) \in 1..Len(t) /\ i = Len(s) + (i - Len(s))
<1>1. /\ s \o t \in Seq(S) /\ Len(s \o t) = Len(s) + Len(t)
      /\ \A i \in 1..Len(s) + Len(t) : (s \o t)[i] = IF i <= Len(s) THEN s[i] ELSE t[i - Len(s)]
  BY ConcatProperties
<1>2. DOMAIN (s \o t) = 1..Len(s) + Len(t) /\ Len(s) \in Nat /\ Len(t) \in Nat
  BY <1>1
<1>3. \A i \in 1..Len(s) : i \in 1..Len(s) + Len(t) /\ i <= Len(s)
  BY <1>2
<1>4. \A i \in 1..Len(t) : Len(s) + i \in 1..Len(s) + Len(t) /\ ~ (Len(s) + i <= Len(s)) /\ Len(s) + i - Len(s) = i
  BY <1>2
<1>5. \A i \in 1..Len(s) + Len(t) : \/ i \in 1..Len(s)
                                    \/ i - Len(s) \in 1..Len(t) /\ i = Len(s) + (i - Len(s))
  BY <1>2
<1> QED BY <1>1, <1>2, <1>3, <1>4, <1>5

\* The line gdb writes goes after the text that is ready.
LEMMA WriteReady ==
  ASSUME NEW text \in Seq(Piece), NEW w \in 0..MaxLines, w < MaxLines, NEW handed \in Seq(Seq(Piece)),
         Ready(text, w, handed), Handed(handed, w)
  PROVE  /\ LineText(w + 1) \in Seq(Piece)
         /\ Ready(text \o LineText(w + 1), w + 1, handed) /\ Handed(handed, w + 1)
<1> DEFINE t == LineText(w + 1)
           s == text \o t
<1>1. w \in Nat /\ w + 1 \in 1..MaxLines /\ Parts \in Nat /\ Parts > 0
  BY ProcessAssumption
<1>2. t \in Seq(Piece) /\ Len(t) = Parts /\ \A i \in 1..Parts : t[i] = [line |-> w + 1, part |-> i]
  <2>1. \A i \in 1..Parts : [line |-> w + 1, part |-> i] \in Piece
    BY <1>1 DEF Piece
  <2>2. t \in [1..Parts -> Piece]
    BY <2>1 DEF LineText
  <2>3. t \in Seq(Piece)
    BY <1>1, <2>2
  <2>4. DOMAIN t = 1..Parts
    BY DEF LineText
  <2>5. Len(t) = Parts
    BY <1>1, <2>3, <2>4
  <2> QED BY <2>3, <2>5 DEF LineText
<1> HIDE DEF t
<1>3. /\ s \in Seq(Piece) /\ Len(s) = Len(text) + Parts /\ DOMAIN s = 1..Len(text) + Parts
      /\ \A i \in 1..Len(text) : i \in DOMAIN s /\ s[i] = text[i]
      /\ \A i \in 1..Parts : Len(text) + i \in DOMAIN s /\ s[Len(text) + i] = t[i]
      /\ \A i \in DOMAIN s : i \in 1..Len(text) \/ (i - Len(text) \in 1..Parts /\ i = Len(text) + (i - Len(text)))
  <2>1. /\ s \in Seq(Piece) /\ Len(s) = Len(text) + Len(t) /\ DOMAIN s = 1..Len(text) + Len(t)
        /\ \A i \in 1..Len(text) : i \in DOMAIN s /\ s[i] = text[i]
        /\ \A i \in 1..Len(t) : Len(text) + i \in DOMAIN s /\ s[Len(text) + i] = t[i]
        /\ \A i \in DOMAIN s : i \in 1..Len(text) \/ (i - Len(text) \in 1..Len(t) /\ i = Len(text) + (i - Len(text)))
    BY <1>2, Joined
  <2> HIDE DEF s
  <2> QED BY <1>2, <2>1
<1> HIDE DEF s
<1>4. Len(text) \in Nat /\ \A i \in 1..Len(text) : text[i].line \in Nat /\ text[i].line <= w
  <2>1. \A i \in 1..Len(text) : text[i] \in Piece
    OBVIOUS
  <2> QED BY <2>1, Pieces DEF Ready
<1>5. ASSUME NEW i \in 1..Parts PROVE s[Len(text) + i].line = w + 1 /\ s[Len(text) + i].part = i
  <2>1. s[Len(text) + i] = [line |-> w + 1, part |-> i]
    BY <1>2, <1>3
  <2> QED BY <2>1
<1>6. Complete(s)
  <2>1. s[1].part = 1
    <3>1. CASE Len(text) = 0
      <4>1. 1 \in 1..Parts /\ Len(text) + 1 = 1
        BY <1>1, <3>1
      <4>2. s[Len(text) + 1].part = 1
        BY <1>5, <4>1
      <4> QED BY <4>1, <4>2
    <3>2. CASE Len(text) # 0
      <4>1. 1 \in 1..Len(text) /\ text # <<>>
        BY <1>4, <3>2
      <4> QED BY <1>3, <4>1 DEF Ready, Complete, Unbroken
    <3> QED BY <3>1, <3>2
  <2>2. ASSUME NEW i \in 1..Len(s) - 1 PROVE Follows(s[i], s[i + 1])
    <3>1. CASE i < Len(text)
      <4>1. i \in 1..Len(text) - 1 /\ i \in 1..Len(text) /\ i + 1 \in 1..Len(text)
        BY <1>4, <3>1
      <4> QED BY <1>3, <4>1 DEF Ready, Complete, Unbroken
    <3>2. CASE i = Len(text)
      <4>1. text # <<>> /\ Len(text) \in 1..Len(text) /\ 1 \in 1..Parts
        BY <1>1, <1>4, <3>2
      <4>2. text[Len(text)].part = Parts
        BY <4>1 DEF Ready, Complete
      <4>3. s[i] = text[Len(text)] /\ s[i].line <= w /\ s[i].line \in Nat
        BY <1>3, <1>4, <3>2, <4>1
      <4>4. s[i + 1].line = w + 1 /\ s[i + 1].part = 1
        BY <1>5, <3>2, <4>1
      <4>5. s[i + 1].line > s[i].line
        BY <1>1, <4>3, <4>4
      <4> QED BY <4>2, <4>3, <4>4, <4>5 DEF Follows
    <3>3. CASE i > Len(text)
      <4> DEFINE j == i - Len(text)
      <4>1. j \in 1..Parts /\ j + 1 \in 1..Parts /\ Len(text) + j = i /\ Len(text) + (j + 1) = i + 1
        BY <1>1, <1>3, <1>4, <3>3
      <4> HIDE DEF j
      <4>2. s[i].line = w + 1 /\ s[i].part = j
        BY <1>5, <4>1
      <4>3. s[i + 1].line = w + 1 /\ s[i + 1].part = j + 1
        BY <1>5, <4>1
      <4> QED BY <4>2, <4>3 DEF Follows
    <3> QED BY <1>4, <3>1, <3>2, <3>3
  <2>3. s[Len(s)].part = Parts
    BY <1>1, <1>3, <1>5
  <2> QED BY <2>1, <2>2, <2>3 DEF Complete, Unbroken
<1>7. ASSUME NEW i \in DOMAIN s PROVE s[i].line <= w + 1 /\ \A k \in DOMAIN handed : Number(handed[k]) < s[i].line
  <2>1. CASE i \in 1..Len(text)
    BY <1>1, <1>3, <1>4, <2>1 DEF Ready
  <2>2. CASE i - Len(text) \in 1..Parts /\ i = Len(text) + (i - Len(text))
    <3>1. s[i].line = w + 1
      BY <1>5, <2>2
    <3>2. \A k \in DOMAIN handed : Number(handed[k]) \in Nat /\ Number(handed[k]) <= w
      BY ProcessAssumption DEF Handed, Growing, IsLine
    <3> QED BY <1>1, <3>1, <3>2
  <2> QED BY <1>3, <2>1, <2>2
<1>8. Handed(handed, w + 1)
  <2>1. \A k \in DOMAIN handed : Number(handed[k]) \in Nat /\ Number(handed[k]) <= w
    BY ProcessAssumption DEF Handed, Growing, IsLine
  <2> QED BY <1>1, <2>1 DEF Handed
<1> QED BY <1>2, <1>6, <1>7, <1>8 DEF Ready, s, t

\* Cutting what was read hands over whole lines, and leaves a text to be cut.
LEMMA CutReady ==
  ASSUME NEW data \in Seq(Piece), NEW mi \in Seq(Piece), NEW w \in 0..MaxLines, NEW ls \in Seq(Seq(Piece)),
         Ready(data \o mi, w, ls), Handed(ls, w)
  PROVE  /\ Cut(data) \in Cuts
         /\ Ready(Cut(data).rest \o mi, w, ls \o Cut(data).lines)
         /\ Handed(ls \o Cut(data).lines, w)
<1> DEFINE s == data \o mi
           cut == Cut(data)
           d == Len(data) - Len(cut.rest)
           new == cut.rest \o mi
           all == ls \o cut.lines
<1>1. /\ s \in Seq(Piece) /\ Len(s) = Len(data) + Len(mi) /\ DOMAIN s = 1..Len(data) + Len(mi)
      /\ \A i \in 1..Len(data) : i \in DOMAIN s /\ s[i] = data[i]
      /\ \A i \in 1..Len(mi) : Len(data) + i \in DOMAIN s /\ s[Len(data) + i] = mi[i]
      /\ \A i \in DOMAIN s : \/ i \in 1..Len(data)
                             \/ i - Len(data) \in 1..Len(mi) /\ i = Len(data) + (i - Len(data))
  BY Joined
<1>2. Ready(s, w, ls) /\ Len(data) \in Nat /\ Len(mi) \in Nat /\ w \in Nat
  BY ProcessAssumption
<1> HIDE DEF s
<1>3. \A i \in DOMAIN s : s[i] \in Piece /\ s[i].line \in Nat /\ s[i].part \in Nat
  <2>1. \A i \in DOMAIN s : s[i] \in Piece
    BY <1>1
  <2> QED BY <2>1, Pieces
<1>4. Unbroken(data)
  <2>1. ASSUME data # <<>> PROVE data[1].part = 1
    <3>1. 1 \in 1..Len(data) /\ s # <<>>
      BY <1>1, <1>2, <2>1
    <3> QED BY <1>1, <1>2, <3>1 DEF Ready, Complete, Unbroken
  <2>2. ASSUME NEW i \in 1..Len(data) - 1 PROVE Follows(data[i], data[i + 1])
    <3>1. i \in 1..Len(data) /\ i + 1 \in 1..Len(data) /\ i \in 1..Len(s) - 1
      BY <1>1, <1>2
    <3>2. Follows(s[i], s[i + 1])
      BY <1>2, <3>1 DEF Ready, Complete, Unbroken
    <3> QED BY <1>1, <3>1, <3>2
  <2> QED BY <2>1, <2>2 DEF Unbroken
<1>5. cut \in Cuts /\ CutTo(data, Len(data), cut)
  BY <1>4, CutCorrect
<1> HIDE DEF cut
<1>6. cut.rest \in Seq(Piece) /\ cut.lines \in Seq(Seq(Piece)) /\ Len(cut.rest) \in Nat
  BY <1>5 DEF Cuts
<1>7. /\ d \in Nat /\ d <= Len(data) /\ d + Len(cut.rest) = Len(data)
      /\ \A i \in 1..Len(cut.rest) : cut.rest[i] = data[d + i]
      /\ d > 0 => data[d].part = Parts
      /\ Growing(cut.lines)
      /\ \A i \in DOMAIN cut.lines :
            d > 0 /\ data[1].line <= Number(cut.lines[i]) /\ Number(cut.lines[i]) <= data[d].line
  <2>1. Len(cut.rest) <= Len(data)
    BY <1>5 DEF CutTo
  <2>2. d \in Nat /\ d <= Len(data) /\ d + Len(cut.rest) = Len(data)
    BY <1>2, <1>6, <2>1
  <2> QED BY <1>5, <2>2 DEF CutTo
<1>a. /\ Len(data) \in Nat /\ Len(mi) \in Nat /\ Len(cut.rest) \in Nat
      /\ d \in Nat /\ d <= Len(data) /\ d + Len(cut.rest) = Len(data)
  BY <1>2, <1>6, <1>7
<1> HIDE DEF d
<1>8. /\ new \in Seq(Piece) /\ Len(new) = Len(cut.rest) + Len(mi) /\ DOMAIN new = 1..Len(cut.rest) + Len(mi)
      /\ \A i \in 1..Len(cut.rest) : i \in DOMAIN new /\ new[i] = cut.rest[i]
      /\ \A i \in 1..Len(mi) : Len(cut.rest) + i \in DOMAIN new /\ new[Len(cut.rest) + i] = mi[i]
      /\ \A i \in DOMAIN new : \/ i \in 1..Len(cut.rest)
                               \/ i - Len(cut.rest) \in 1..Len(mi) /\ i = Len(cut.rest) + (i - Len(cut.rest))
  BY <1>6, Joined
<1> HIDE DEF new
<1>9. ASSUME NEW j \in DOMAIN new PROVE d + j \in DOMAIN s /\ new[j] = s[d + j]
  <2>1. CASE j \in 1..Len(cut.rest)
    <3>1. d + j \in 1..Len(data)
      BY <1>6, <1>7, <2>1
    <3>2. new[j] = cut.rest[j] /\ cut.rest[j] = data[d + j]
      BY <1>7, <1>8, <2>1
    <3> QED BY <1>1, <3>1, <3>2
  <2>2. CASE j - Len(cut.rest) \in 1..Len(mi) /\ j = Len(cut.rest) + (j - Len(cut.rest))
    <3> DEFINE i == j - Len(cut.rest)
    <3>1. i \in 1..Len(mi) /\ j = Len(cut.rest) + i
      BY <2>2
    <3> HIDE DEF i
    <3>2. d + j = Len(data) + i
      <4>1. d \in Nat /\ Len(cut.rest) \in Nat /\ i \in Nat /\ d + (Len(cut.rest) + i) = (d + Len(cut.rest)) + i
        BY <1>a, <3>1
      <4>2. d + Len(cut.rest) = Len(data) /\ j = Len(cut.rest) + i
        BY <1>a, <3>1
      <4> QED BY <4>1, <4>2
    <3> QED BY <1>1, <1>8, <3>1, <3>2
  <2> QED BY <1>8, <2>1, <2>2
<1>10. Len(new) = Len(s) - d /\ Len(new) \in Nat /\ Len(s) \in Nat /\ DOMAIN new = 1..Len(new) /\ DOMAIN s = 1..Len(s)
  <2>1. /\ Len(s) = Len(data) + Len(mi) /\ DOMAIN s = 1..Len(data) + Len(mi)
        /\ Len(new) = Len(cut.rest) + Len(mi) /\ DOMAIN new = 1..Len(cut.rest) + Len(mi)
    BY <1>1, <1>8
  <2>2. Len(s) \in Nat /\ Len(new) \in Nat
    BY <1>1, <1>8
  <2>3. DOMAIN new = 1..Len(new) /\ DOMAIN s = 1..Len(s)
    BY <2>1
  <2>4. Len(new) = Len(s) - d
    <3> HIDE DEF d
    <3>1. \A a, b, c, m \in Nat : a + b = c => b + m = (c + m) - a
      OBVIOUS
    <3>2. Len(cut.rest) + Len(mi) = (Len(data) + Len(mi)) - d
      BY <1>a, <3>1
    <3> QED BY <2>1, <3>2
  <2> QED BY <2>2, <2>3, <2>4
<1>11. ASSUME d > 0
       PROVE  /\ d \in DOMAIN s /\ s[d] = data[d] /\ s[d].part = Parts /\ s[1] = data[1]
              /\ s[1].line <= s[d].line /\ s[d].line <= w
              /\ \A j \in DOMAIN new : s[d].line < new[j].line
  <2>1. d \in 1..Len(data) /\ 1 \in 1..Len(data) /\ d \in 1..Len(s) /\ 1 \in 1..Len(s) /\ 1 <= d
    <3>1. Len(s) = Len(data) + Len(mi)
      BY <1>1
    <3> QED BY <1>a, <1>11, <3>1
  <2>2. s[d] = data[d] /\ s[d].part = Parts /\ s[1] = data[1] /\ s[d].line <= w
    BY <1>1, <1>2, <1>7, <1>11, <2>1 DEF Ready
  <2>3. Unbroken(s)
    BY <1>2 DEF Ready, Complete
  <2>4. s[1].line <= s[d].line
    BY <1>1, <2>1, <2>3, Later
  <2>5. ASSUME NEW j \in DOMAIN new PROVE s[d].line < new[j].line
    <3>1. d + j \in 1..Len(s) /\ j \in 1..Len(new)
      BY <1>9, <1>10
    <3>2. d \in 1..Len(s) - 1 /\ d + 1 \in 1..Len(s) /\ d + 1 <= d + j
      <4>1. d + j <= Len(s) /\ j >= 1 /\ j \in Nat
        BY <1>a, <1>10, <3>1
      <4> QED BY <1>a, <1>10, <1>11, <4>1
    <3>3. s[d + 1].line > s[d].line
      BY <1>1, <2>2, <2>3, <3>2, NextLine
    <3>4. s[d + 1].line <= s[d + j].line
      BY <1>1, <2>3, <3>1, <3>2, Later
    <3>5. s[d].line \in Nat /\ s[d + 1].line \in Nat /\ s[d + j].line \in Nat
      BY <1>3, <1>10, <2>1, <3>1, <3>2
    <3>6. new[j] = s[d + j]
      BY <1>9
    <3> QED BY <3>3, <3>4, <3>5, <3>6
  <2> QED BY <1>10, <2>1, <2>2, <2>4, <2>5
<1>12. Complete(new)
  <2>1. ASSUME new # <<>> PROVE new[1].part = 1
    <3>1. 1 \in DOMAIN new /\ d + 1 \in DOMAIN s /\ new[1] = s[d + 1]
      <4>1. 1 \in DOMAIN new
        BY <1>8, <1>10, <2>1
      <4> QED BY <1>9, <4>1
    <3>2. CASE d = 0
      <4>1. s # <<>> /\ d + 1 = 1
        BY <1>10, <3>1, <3>2
      <4> QED BY <1>2, <3>1, <4>1 DEF Ready, Complete, Unbroken
    <3>3. CASE d > 0
      <4>1. d \in 1..Len(s) - 1
        BY <1>7, <1>10, <3>1, <3>3
      <4>2. Unbroken(s) /\ s[d].part = Parts
        BY <1>2, <1>11, <3>3 DEF Ready, Complete
      <4>3. s[d + 1].part = 1
        BY <1>1, <4>1, <4>2, NextLine
      <4> QED BY <3>1, <4>3
    <3> QED BY <1>7, <3>2, <3>3
  <2>2. ASSUME NEW i \in 1..Len(new) - 1 PROVE Follows(new[i], new[i + 1])
    <3>1. i \in DOMAIN new /\ i + 1 \in DOMAIN new /\ d + i \in 1..Len(s) - 1 /\ d + (i + 1) = d + i + 1
      BY <1>7, <1>10
    <3>2. Follows(s[d + i], s[d + i + 1])
      BY <1>2, <3>1 DEF Ready, Complete, Unbroken
    <3>3. new[i] = s[d + i] /\ new[i + 1] = s[d + (i + 1)]
      BY <1>9, <3>1
    <3> QED BY <3>1, <3>2, <3>3
  <2>3. ASSUME new # <<>> PROVE new[Len(new)].part = Parts
    <3>1. Len(new) \in DOMAIN new /\ d + Len(new) = Len(s)
      <4>1. Len(new) # 0
        BY <1>8, <2>3
      <4> QED BY <1>a, <1>10, <4>1
    <3>2. new[Len(new)] = s[Len(s)] /\ Len(s) \in DOMAIN s
      BY <1>9, <3>1
    <3>3. s # <<>>
      BY <1>10, <3>2
    <3> QED BY <1>2, <3>2, <3>3 DEF Ready, Complete
  <2> QED BY <2>1, <2>2, <2>3 DEF Complete, Unbroken
<1>13. /\ all \in Seq(Seq(Piece)) /\ DOMAIN all = 1..Len(ls) + Len(cut.lines)
       /\ \A i \in 1..Len(ls) : i \in DOMAIN all /\ all[i] = ls[i]
       /\ \A i \in 1..Len(cut.lines) : Len(ls) + i \in DOMAIN all /\ all[Len(ls) + i] = cut.lines[i]
       /\ \A i \in DOMAIN all : \/ i \in 1..Len(ls)
                                \/ i - Len(ls) \in 1..Len(cut.lines) /\ i = Len(ls) + (i - Len(ls))
  BY <1>6, Joined
<1> HIDE DEF all
<1>14. /\ Len(ls) \in Nat /\ DOMAIN ls = 1..Len(ls)
       /\ Len(cut.lines) \in Nat /\ DOMAIN cut.lines = 1..Len(cut.lines)
  BY <1>6
<1>15. ASSUME NEW i \in 1..Len(ls)
       PROVE  /\ IsLine(ls[i]) /\ Number(ls[i]) \in Nat /\ Number(ls[i]) <= w
              /\ \A j \in DOMAIN s : Number(ls[i]) < s[j].line
  <2>1. i \in DOMAIN ls
    BY <1>14
  <2>2. IsLine(ls[i]) /\ Number(ls[i]) <= w /\ \A j \in DOMAIN s : Number(ls[i]) < s[j].line
    BY <1>2, <2>1 DEF Handed, Growing, Ready
  <2> QED BY <2>2, ProcessAssumption DEF IsLine
<1>16. ASSUME NEW i \in 1..Len(cut.lines)
       PROVE  /\ IsLine(cut.lines[i]) /\ Number(cut.lines[i]) \in Nat /\ Number(cut.lines[i]) <= w
              /\ d > 0 /\ s[1].line <= Number(cut.lines[i]) /\ Number(cut.lines[i]) <= s[d].line
  <2>1. i \in DOMAIN cut.lines
    BY <1>14
  <2>2. /\ IsLine(cut.lines[i]) /\ d > 0 /\ data[1].line <= Number(cut.lines[i])
        /\ Number(cut.lines[i]) <= data[d].line
    BY <1>7, <2>1 DEF Growing
  <2>3. Number(cut.lines[i]) \in Nat
    BY <2>2, ProcessAssumption DEF IsLine
  <2>4. s[d] = data[d] /\ s[1] = data[1] /\ s[d].line <= w /\ s[d].line \in Nat
    BY <1>3, <1>11, <2>2
  <2> QED BY <1>2, <2>2, <2>3, <2>4
<1>17. ASSUME NEW i \in DOMAIN all
       PROVE  /\ IsLine(all[i]) /\ Number(all[i]) <= w
              /\ \A j \in DOMAIN new : Number(all[i]) < new[j].line
  <2>1. CASE i \in 1..Len(ls)
    <3>1. all[i] = ls[i]
      BY <1>13, <2>1
    <3> QED BY <1>9, <1>15, <2>1, <3>1
  <2>2. CASE i - Len(ls) \in 1..Len(cut.lines) /\ i = Len(ls) + (i - Len(ls))
    <3> DEFINE k == i - Len(ls)
    <3>1. k \in 1..Len(cut.lines) /\ i = Len(ls) + k
      BY <2>2
    <3> HIDE DEF k
    <3>2. all[i] = cut.lines[k]
      BY <1>13, <3>1
    <3>3. \A j \in DOMAIN new : s[d].line < new[j].line /\ s[d].line \in Nat /\ new[j].line \in Nat
      BY <1>3, <1>9, <1>11, <1>16, <3>1
    <3>4. \A j \in DOMAIN new : Number(cut.lines[k]) < new[j].line
      <4>1. Number(cut.lines[k]) \in Nat /\ Number(cut.lines[k]) <= s[d].line
        BY <1>16, <3>1
      <4> QED BY <3>3, <4>1
    <3> QED BY <1>16, <3>1, <3>2, <3>4
  <2> QED BY <1>13, <2>1, <2>2
<1>18. ASSUME NEW i \in DOMAIN all, NEW j \in DOMAIN all, i < j
       PROVE  Number(all[i]) < Number(all[j])
  <2>1. CASE j \in 1..Len(ls)
    <3>1. i \in 1..Len(ls) /\ i \in DOMAIN ls /\ j \in DOMAIN ls
      BY <1>13, <1>14, <1>18, <2>1
    <3>2. Number(ls[i]) < Number(ls[j])
      BY <1>18, <3>1 DEF Handed, Growing
    <3>3. all[i] = ls[i] /\ all[j] = ls[j]
      BY <1>13, <2>1, <3>1
    <3> QED BY <3>2, <3>3
  <2>2. CASE j - Len(ls) \in 1..Len(cut.lines) /\ j = Len(ls) + (j - Len(ls))
    <3> DEFINE n == j - Len(ls)
    <3>1. n \in 1..Len(cut.lines) /\ j = Len(ls) + n
      BY <2>2
    <3> HIDE DEF n
    <3>2. all[j] = cut.lines[n]
      BY <1>13, <3>1
    <3>3. CASE i \in 1..Len(ls)
      <4>1. d > 0 /\ s[1].line <= Number(cut.lines[n]) /\ Number(cut.lines[n]) \in Nat
        BY <1>16, <3>1
      <4>2. 1 \in DOMAIN s
        BY <1>10, <1>11, <4>1
      <4>3. Number(ls[i]) < s[1].line /\ Number(ls[i]) \in Nat /\ s[1].line \in Nat
        BY <1>3, <1>15, <3>3, <4>2
      <4>4. Number(ls[i]) < Number(cut.lines[n])
        BY <4>1, <4>3
      <4>5. all[i] = ls[i]
        BY <1>13, <3>3
      <4> QED BY <3>2, <4>4, <4>5
    <3>4. CASE i - Len(ls) \in 1..Len(cut.lines) /\ i = Len(ls) + (i - Len(ls))
      <4> DEFINE m == i - Len(ls)
      <4>1. m \in 1..Len(cut.lines) /\ i = Len(ls) + m
        BY <3>4
      <4> HIDE DEF m
      <4>2. all[i] = cut.lines[m]
        BY <1>13, <4>1
      <4>3. m < n /\ m \in DOMAIN cut.lines /\ n \in DOMAIN cut.lines
        BY <1>14, <1>18, <3>1, <4>1
      <4>4. Number(cut.lines[m]) < Number(cut.lines[n])
        BY <1>7, <4>3 DEF Growing
      <4> QED BY <3>2, <4>2, <4>4
    <3> QED BY <1>13, <3>3, <3>4
  <2> QED BY <1>13, <2>1, <2>2
<1>19. Handed(all, w)
  BY <1>17, <1>18 DEF Handed, Growing
<1>20. \A i \in DOMAIN new : new[i].line <= w
  BY <1>2, <1>9 DEF Ready
<1>21. Ready(new, w, all)
  BY <1>12, <1>17, <1>20 DEF Ready
<1> QED BY <1>5, <1>19, <1>21 DEF new, all, cut
-----------------------------------------------------------------------------
(* The texts keep their types.                                             *)

\* What a reader does to the texts
LEMMA ReaderTexts ==
  ASSUME NEW r \in Gdb, Reader(r)
  PROVE  /\ written' = written /\ infLeft' = infLeft
         /\ \/ UNCHANGED <<pendingLine, chunk, miOut, infOut, lines>> /\ thread[r] # "split"
            \/ ReadInferior(r) \/ ReadMi(r) \/ Split(r) \/ Drop(r)
  BY DEF Reader, CheckQuit, PumpSelect, PumpClosed, PumpTimeout, PumpInferior, PumpMi, PumpChanged,
         ReadInferior, ReadMi, ReadEof, Split, SplitWith, Drop, objVars, gdbVars

\* Any text is cut into pieces.
LEMMA CutType ==
  ASSUME NEW text \in Seq(Piece)
  PROVE  Cut(text) \in Cuts /\ Cut(text).rest \in Seq(Piece) /\ Cut(text).lines \in Seq(Seq(Piece))
<1>1. Cut(text) \in Cuts
  <2>1. CutUpTo(text) \in [0..Len(text) -> Cuts] /\ Cut(text) = CutUpTo(text)[Len(text)]
    BY CutStep
  <2>2. Len(text) \in 0..Len(text)
    OBVIOUS
  <2> QED BY <2>1, <2>2
<1> QED BY <1>1 DEF Cuts

\* A line is made of pieces.
LEMMA LineType ==
  ASSUME NEW n \in 1..MaxLines
  PROVE  LineText(n) \in Seq(Piece)
<1>1. Parts \in Nat /\ \A i \in 1..Parts : [line |-> n, part |-> i] \in Piece
  BY ProcessAssumption DEF Piece
<1>2. LineText(n) \in [1..Parts -> Piece]
  BY <1>1 DEF LineText
<1> QED BY <1>1, <1>2

\* What read() returns and what it leaves
LEMMA ReadType ==
  ASSUME NEW text \in Seq(Piece), NEW n \in 1..Len(text)
  PROVE  /\ SubSeq(text, 1, n) \in Seq(Piece) /\ SubSeq(text, n + 1, Len(text)) \in Seq(Piece)
         /\ SubSeq(text, 1, n) \o SubSeq(text, n + 1, Len(text)) = text
<1>1. Len(text) \in Nat /\ n \in Nat /\ n <= Len(text)
  OBVIOUS
<1>2. SubSeq(text, 1, n) \in Seq(Piece)
  <2>1. \A i \in 1..n : text[i] \in Piece
    BY <1>1
  <2> QED BY <1>1, <2>1, SubSeqProperties
<1>3. SubSeq(text, n + 1, Len(text)) \in Seq(Piece)
  <2>1. \A i \in n + 1..Len(text) : text[i] \in Piece
    BY <1>1
  <2>2. n + 1 \in Int /\ Len(text) \in Int
    BY <1>1
  <2> QED BY <2>1, <2>2, SubSeqProperties
<1>4. SubSeq(text, 1, n) \o SubSeq(text, n + 1, Len(text)) = text
  <2>1. 1 \in 1..Len(text) + 1 /\ n \in 1 - 1..Len(text) /\ Len(text) \in n..Len(text)
    BY <1>1
  <2>2. SubSeq(text, 1, n) \o SubSeq(text, n + 1, Len(text)) = SubSeq(text, 1, Len(text))
    BY <2>1, ConcatAdjacentSubSeq
  <2>3. SubSeq(text, 1, Len(text)) = text
    BY SubSeqFull
  <2> QED BY <2>2, <2>3
<1> QED BY <1>2, <1>3, <1>4

\* Every step keeps the types of the texts.
LEMMA TextStep ==
  ASSUME ControlOK, TextOK, [Next]_vars
  PROVE  TextOK'
<1> USE DEF TextOK
<1>1. CASE StartGdbProcess
  BY <1>1 DEF StartGdbProcess
<1>2. CASE RequestQuit
  BY <1>2 DEF RequestQuit, rdVars, gdbVars
<1>3. CASE FinishTerminate
  <2>1. UNCHANGED <<chunk, miOut, infOut, infLeft, written, lines>> /\ pendingLine' = <<>>
    BY <1>3 DEF FinishTerminate, rdVars
  <2>2. pendingLine' \in Seq(Piece)
    BY <2>1
  <2> QED BY <2>1, <2>2
<1>4. CASE \E r \in Gdb : Reader(r)
  <2>1. PICK r \in Gdb : Reader(r)
    BY <1>4
  <2>2. written' = written /\ infLeft' = infLeft
    BY <2>1, ReaderTexts
  <2>3. CASE UNCHANGED <<pendingLine, chunk, miOut, infOut, lines>>
    BY <2>2, <2>3
  <2>4. CASE ReadInferior(r)
    <3>1. UNCHANGED <<pendingLine, chunk, miOut, lines>> /\ infOut' = [infOut EXCEPT ![fd[r]] = FALSE]
      BY <2>4 DEF ReadInferior, objVars
    <3>2. infOut' \in [Gdb -> BOOLEAN]
      BY <3>1, Zenon
    <3> QED BY <2>2, <3>1, <3>2
  <2>5. CASE ReadMi(r)
    <3>1. PICK n \in 1..Len(miOut[fd[r]]) :
             /\ chunk' = [chunk EXCEPT ![r] = SubSeq(miOut[fd[r]], 1, n)]
             /\ miOut' = [miOut EXCEPT ![fd[r]] = SubSeq(@, n + 1, Len(@))]
      BY <2>5 DEF ReadMi
    <3>2. fd[r] \in Gdb /\ UNCHANGED <<pendingLine, lines, infOut>>
      BY <2>5 DEF ReadMi, ControlOK, PastSelect, objVars
    <3>3. miOut[fd[r]] \in Seq(Piece)
      BY <3>2
    <3>4. /\ SubSeq(miOut[fd[r]], 1, n) \in Seq(Piece)
          /\ SubSeq(miOut[fd[r]], n + 1, Len(miOut[fd[r]])) \in Seq(Piece)
      BY <3>3, ReadType
    <3>5. chunk' \in [Gdb -> Seq(Piece)] /\ miOut' \in [Gdb -> Seq(Piece)]
      BY <3>1, <3>2, <3>4
    <3> QED BY <2>2, <3>2, <3>5
  <2>6. CASE Split(r)
    <3> DEFINE data == pendingLine \o chunk[r]
    <3>1. chunk[r] \in Seq(Piece)
      OBVIOUS
    <3>2. data \in Seq(Piece)
      BY <3>1, ConcatProperties
    <3> HIDE DEF data
    <3>3. Cut(data).rest \in Seq(Piece) /\ Cut(data).lines \in Seq(Seq(Piece))
      BY <3>2, CutType
    <3>4. lines \o Cut(data).lines \in Seq(Seq(Piece))
      BY <3>3, ConcatProperties
    <3>5. /\ pendingLine' = Cut(data).rest /\ lines' = lines \o Cut(data).lines
          /\ chunk' = [chunk EXCEPT ![r] = <<>>] /\ UNCHANGED <<miOut, infOut>>
      BY <2>6 DEF Split, SplitWith, data, gdbVars
    <3>6. <<>> \in Seq(Piece)
      OBVIOUS
    <3>7. chunk' \in [Gdb -> Seq(Piece)]
      BY <3>5, <3>6, Zenon
    <3> QED BY <2>2, <3>3, <3>4, <3>5, <3>7
  <2>7. CASE Drop(r)
    <3>1. UNCHANGED <<pendingLine, miOut, infOut, lines>> /\ chunk' = [chunk EXCEPT ![r] = <<>>]
      BY <2>7 DEF Drop, objVars, gdbVars
    <3>2. <<>> \in Seq(Piece)
      OBVIOUS
    <3>3. chunk' \in [Gdb -> Seq(Piece)]
      BY <3>1, <3>2, Zenon
    <3> QED BY <2>2, <3>1, <3>3
  <2> QED BY <2>1, <2>3, <2>4, <2>5, <2>6, <2>7, ReaderTexts
<1>5. CASE \E g \in Gdb : WriteLine(g) \/ WriteTerminal(g) \/ Die(g)
  <2>1. PICK g \in Gdb : WriteLine(g) \/ WriteTerminal(g) \/ Die(g)
    BY <1>5
  <2>2. CASE WriteLine(g)
    <3>1. /\ written' = written + 1 /\ miOut' = [miOut EXCEPT ![g] = @ \o LineText(written + 1)]
          /\ UNCHANGED <<pendingLine, chunk, infOut, infLeft, lines>> /\ written < MaxLines
      BY <2>2 DEF WriteLine, objVars, rdVars
    <3>2. written + 1 \in 1..MaxLines /\ written + 1 \in 0..MaxLines
      BY <3>1, ProcessAssumption
    <3>3. LineText(written + 1) \in Seq(Piece) /\ miOut[g] \in Seq(Piece)
      BY <3>2, LineType
    <3>4. miOut[g] \o LineText(written + 1) \in Seq(Piece)
      BY <3>3, ConcatProperties
    <3>5. miOut' \in [Gdb -> Seq(Piece)]
      BY <3>1, <3>4
    <3> QED BY <3>1, <3>2, <3>5
  <2>3. CASE WriteTerminal(g)
    <3>1. /\ infOut' = [infOut EXCEPT ![g] = TRUE] /\ infLeft' = infLeft - 1 /\ infLeft > 0
          /\ UNCHANGED <<pendingLine, chunk, miOut, written, lines>>
      BY <2>3 DEF WriteTerminal, objVars, rdVars
    <3>2. infOut' \in [Gdb -> BOOLEAN]
      BY <3>1, Zenon
    <3>3. infLeft' \in Nat
      BY <3>1
    <3> QED BY <3>1, <3>2, <3>3
  <2>4. CASE Die(g)
    BY <2>4 DEF Die, objVars, rdVars
  <2> QED BY <2>1, <2>2, <2>3, <2>4
<1>6. CASE UNCHANGED vars
  BY <1>6 DEF vars, objVars, rdVars, gdbVars
<1> QED BY <1>1, <1>2, <1>3, <1>4, <1>5, <1>6 DEF Next

\* Type correctness: the control state, and the texts made of pieces, even
\* when a session is opened over another.
THEOREM TypeCorrect == Spec => []TypeOK
<1>1. Init => TextOK
  <2> SUFFICES ASSUME Init PROVE TextOK
    OBVIOUS
  <2>1. <<>> \in Seq(Piece) /\ <<>> \in Seq(Seq(Piece))
    OBVIOUS
  <2>2. /\ pendingLine \in Seq(Piece) /\ lines \in Seq(Seq(Piece))
        /\ chunk \in [Gdb -> Seq(Piece)] /\ miOut \in [Gdb -> Seq(Piece)]
    BY <2>1, Zenon DEF Init
  <2>3. infOut \in [Gdb -> BOOLEAN] /\ infLeft \in Nat /\ written \in 0..MaxLines
    BY ProcessAssumption DEF Init
  <2> QED BY <2>2, <2>3 DEF TextOK
<1>2. ControlOK /\ TextOK /\ [Next]_vars => TextOK'
  BY TextStep
<1> QED BY <1>1, <1>2, ControlCorrect, PTL DEF Spec, TypeOK
-----------------------------------------------------------------------------
(* One reader, until a session is opened over another.                     *)

\* No reader runs before the first start.
LEMMA SessionInit == Init => SessionInv
<1> SUFFICES ASSUME Init PROVE SessionInv
  OBVIOUS
<1>1. \A r \in Gdb : thread[r] = "none"
  BY DEF Init
<1>2. /\ tPtr <= starts /\ miFd = tPtr /\ ~ quit /\ gui = "free"
  BY DEF Init, Closed, NoThread
<1> QED BY <1>1, <1>2 DEF SessionInv, OneReader, ReadsItsOwnPty, NoReadBlocks, Running, PastSelect

\* The reader that select() has sent on finds what it was sent for.
LEMMA ReadFinds ==
  ASSUME ControlOK, NEW r \in Gdb, Reader(r), miFd = r, PastSelect(r) => fd[r] = r
  PROVE  /\ PastSelect(r)' => fd'[r] = r
         /\ thread'[r] = "terminal" => InferiorReady(r)'
         /\ thread'[r] = "mi" => MiReady(r)'
<1> USE DEF ControlOK
<1>1. PastSelect(r)' => fd'[r] = r
  BY ReaderPty
<1>2. CASE PumpInferior(r) \/ PumpMi(r)
  BY <1>2 DEF PumpInferior, PumpMi, PastSelect, Goto, InferiorReady, MiReady, gdbVars
<1>3. CASE ~ (PumpInferior(r) \/ PumpMi(r))
  <2>1. thread'[r] # "terminal" /\ thread'[r] # "mi"
    BY <1>3 DEF Reader, CheckQuit, PumpSelect, PumpClosed, PumpTimeout, PumpChanged, ReadInferior, ReadMi,
                ReadEof, Split, SplitWith, Drop, Leave, Goto, PastSelect
  <2> QED BY <1>1, <2>1
<1> QED BY <1>1, <1>2, <1>3

\* What gdb and its program do leaves what is ready ready.
LEMMA StaysReady ==
  ASSUME TypeOK, NEW h \in Gdb, WriteLine(h) \/ WriteTerminal(h) \/ Die(h),
         NEW g \in Gdb
  PROVE  /\ InferiorReady(g) => InferiorReady(g)'
         /\ MiReady(g) => MiReady(g)'
<1> USE DEF TypeOK, ControlOK, TextOK, InferiorReady, MiReady
<1>1. CASE WriteLine(h)
  <2>1. /\ written < MaxLines /\ UNCHANGED <<gdb, infOut>>
        /\ miOut' = [miOut EXCEPT ![h] = @ \o LineText(written + 1)]
    BY <1>1 DEF WriteLine
  <2>2. written + 1 \in 1..MaxLines
    BY <2>1, ProcessAssumption
  <2>3. LineText(written + 1) \in Seq(Piece) /\ Len(LineText(written + 1)) # 0
    <3>1. Len(LineText(written + 1)) = Parts
      BY ProcessAssumption DEF LineText
    <3> QED BY <2>2, <3>1, LineType, ProcessAssumption
  <2>4. miOut[h] \o LineText(written + 1) # <<>>
    <3>1. Len(miOut[h] \o LineText(written + 1)) = Len(miOut[h]) + Len(LineText(written + 1))
      BY <2>3
    <3> QED BY <2>3, <3>1
  <2>5. miOut'[g] = miOut[g] \/ miOut'[g] # <<>>
    BY <2>1, <2>4
  <2> QED BY <2>1, <2>5
<1>2. CASE WriteTerminal(h)
  BY <1>2 DEF WriteTerminal
<1>3. CASE Die(h)
  BY <1>3 DEF Die
<1> QED BY <1>1, <1>2, <1>3

\* Starting only without a reader, and joining it before closing, keep the
\* one reader on its own ptys, and it never waits in read().
LEMMA SessionStep ==
  ASSUME TypeOK, ControlOK', SessionInv, [Next]_vars
  PROVE  SessionInv'
<1> USE DEF SessionInv, OneReader, ReadsItsOwnPty, Running
<1>0. ControlOK
  BY DEF TypeOK
<1>1. CASE StartGdbProcess
  <2>1. ~ overlapped' => ~ overlapped /\ tPtr = NoThread
    BY <1>1 DEF StartGdbProcess
  <2>2. ~ overlapped' => \A r \in Gdb : ~ Running(r)
    BY <2>1 DEF NoThread, Gdb
  <2>3. \A r \in Gdb : thread'[r] = thread[r] \/ (r = starts + 1 /\ thread'[r] = "check")
    BY <1>1 DEF StartGdbProcess, ControlOK
  <2>4. starts' = starts + 1 /\ miFd' = starts + 1 /\ tPtr' = starts + 1 /\ starts \in Nat
    BY <1>0, <1>1 DEF StartGdbProcess, ControlOK
  <2>5. ~ overlapped' => \A r \in Gdb : ~ PastSelect(r)'
    BY <2>2, <2>3 DEF PastSelect
  <2>6. ~ overlapped' => (OneReader /\ ReadsItsOwnPty /\ NoReadBlocks)'
    <3> SUFFICES ASSUME ~ overlapped' PROVE (OneReader /\ ReadsItsOwnPty /\ NoReadBlocks)'
      OBVIOUS
    <3>1. \A r \in Gdb : Running(r)' => r = starts + 1
      BY <2>2, <2>3, <2>5
    <3> QED BY <2>4, <2>5, <3>1 DEF NoReadBlocks, PastSelect
  <2>7. UNCHANGED <<gui, quit>> /\ gui = "free"
    BY <1>1 DEF StartGdbProcess
  <2>8. \A r \in Gdb : thread'[r] # "none" => r <= starts'
    BY <2>3, <2>4 DEF Gdb
  <2> QED BY <2>4, <2>6, <2>7, <2>8
<1>2. CASE RequestQuit
  BY <1>2 DEF RequestQuit, rdVars, gdbVars, NoThread, NoReadBlocks, PastSelect, InferiorReady, MiReady
<1>3. CASE FinishTerminate
  <2>1. ~ overlapped => \A r \in Gdb : ~ Running(r)
    BY <1>3 DEF FinishTerminate, PastSelect
  <2>2. UNCHANGED <<starts, overlapped, thread, fd>> /\ gui' = "free" /\ ~ quit' /\ miFd' = Closed /\ tPtr' = NoThread
    BY <1>3 DEF FinishTerminate, rdVars
  <2>3. ~ overlapped => \A r \in Gdb : ~ Running(r)' /\ ~ PastSelect(r)'
    BY <2>1, <2>2 DEF PastSelect
  <2>4. ~ overlapped' => (OneReader /\ ReadsItsOwnPty /\ NoReadBlocks)'
    BY <2>2, <2>3 DEF NoReadBlocks, PastSelect
  <2>5. tPtr' <= starts'
    BY <2>2 DEF NoThread, ControlOK
  <2> QED BY <2>2, <2>4, <2>5 DEF Closed, NoThread
<1>4. CASE \E r \in Gdb : Reader(r)
  <2>1. PICK r \in Gdb : Reader(r)
    BY <1>4
  <2>2. UNCHANGED <<starts, overlapped, gui, miFd, tPtr, quit>> /\ Running(r)
    BY <1>0, <2>1, ReaderFrame
  <2>3. \A s \in Gdb : s # r => thread'[s] = thread[s]
    BY <1>0, <2>1, ReaderFrame DEF Goto, ControlOK
  <2>4. \A s \in Gdb : thread'[s] # "none" => s <= starts'
    BY <2>2, <2>3 DEF PastSelect
  <2>5. ~ overlapped' => (OneReader /\ ReadsItsOwnPty /\ NoReadBlocks)'
    <3> SUFFICES ASSUME ~ overlapped' PROVE (OneReader /\ ReadsItsOwnPty /\ NoReadBlocks)'
      OBVIOUS
    <3>1. miFd = r /\ r = tPtr /\ (PastSelect(r) => fd[r] = r)
      BY <2>2
    <3>2. \A s \in Gdb : s # r => ~ Running(s)'
      <4>1. \A s \in Gdb : s # r => ~ Running(s)
        BY <2>2, <3>1
      <4> QED BY <2>3, <4>1 DEF PastSelect
    <3>3. /\ PastSelect(r)' => fd'[r] = r
          /\ thread'[r] = "terminal" => InferiorReady(r)'
          /\ thread'[r] = "mi" => MiReady(r)'
      BY <1>0, <2>1, <3>1, ReadFinds
    <3>4. thread'[r] = "terminal" \/ thread'[r] = "mi" => fd'[r] = r
      BY <3>3 DEF PastSelect
    <3>5. NoReadBlocks'
      BY <3>2, <3>3, <3>4 DEF NoReadBlocks, PastSelect, InferiorReady, MiReady
    <3>6. OneReader' /\ ReadsItsOwnPty'
      BY <2>2, <3>1, <3>2, <3>3
    <3> QED BY <3>5, <3>6
  <2> QED BY <2>2, <2>4, <2>5
<1>5. CASE \E g \in Gdb : WriteLine(g) \/ WriteTerminal(g) \/ Die(g)
  <2>1. UNCHANGED <<starts, overlapped, gui, miFd, tPtr, quit, thread, fd>>
    BY <1>5 DEF WriteLine, WriteTerminal, Die, objVars, rdVars
  <2>2. \A g \in Gdb : (InferiorReady(g) => InferiorReady(g)') /\ (MiReady(g) => MiReady(g)')
    BY <1>5, StaysReady
  <2>3. \A r \in Gdb : PastSelect(r) => fd[r] \in Gdb
    BY <1>0 DEF ControlOK
  <2>4. NoReadBlocks => NoReadBlocks'
    BY <2>1, <2>2, <2>3 DEF NoReadBlocks, PastSelect
  <2> QED BY <2>1, <2>4 DEF PastSelect
<1>6. CASE UNCHANGED vars
  BY <1>6 DEF vars, objVars, rdVars, gdbVars, NoReadBlocks, PastSelect, InferiorReady, MiReady
<1> QED BY <1>1, <1>2, <1>3, <1>4, <1>5, <1>6 DEF Next

\* The descriptors and the thread pointer always are of the gdb started last,
\* and until a session is opened over another one reader runs, on its own ptys.
THEOREM SingleReader == Spec => []SessionInv
<1>1. TypeOK /\ TypeOK' /\ SessionInv /\ [Next]_vars => SessionInv'
  BY SessionStep DEF TypeOK
<1> QED BY <1>1, SessionInit, TypeCorrect, PTL DEF Spec

\* Until then no reader is left running when terminate returns.
THEOREM QuitObeyed == Spec => QuitReachesReader
<1>1. ASSUME SessionInv, [Next]_vars
      PROVE  [Returns /\ ~ overlapped => \A r \in Gdb : ~ Running(r)']_vars
  <2> USE DEF Returns
  <2>1. CASE FinishTerminate
    BY <1>1, <2>1 DEF FinishTerminate, SessionInv, OneReader, Running, PastSelect, rdVars
  <2>2. CASE UNCHANGED gui
    BY <2>2
  <2>3. CASE RequestQuit
    BY <2>3 DEF RequestQuit
  <2> QED
    BY <1>1, <2>1, <2>2, <2>3
       DEF Next, StartGdbProcess, Reader, CheckQuit, PumpSelect, PumpClosed, PumpTimeout, PumpInferior,
           PumpMi, PumpChanged, ReadInferior, ReadMi, ReadEof, Split, SplitWith, Drop,
           WriteLine, WriteTerminal, Die, vars
<1> QED BY <1>1, SingleReader, PTL DEF Spec, QuitReachesReader
-----------------------------------------------------------------------------
(* Whole lines reach the parser.                                           *)

\* The text of the last gdb that has not gone to the parser
Stream == (pendingLine \o chunk[tPtr]) \o miOut[tPtr]

\* Nothing is left over from an earlier gdb, and none but the last one writes.
QuietInv ==
  /\ tPtr = NoThread => pendingLine = <<>>
  /\ \A g \in Gdb : g > starts => chunk[g] = <<>> /\ miOut[g] = <<>> /\ gdb[g] = "none"
  /\ \A g \in Gdb : thread[g] # "split" => chunk[g] = <<>>
  /\ \A g \in Gdb : gdb[g] = "alive" => g = tPtr

\* Until a session is opened over another, the lines handed over are whole and
\* in order, and so is the text that is still on its way.
LinesInv ==
  ~ overlapped =>
    /\ QuietInv
    /\ Handed(lines, written)
    /\ tPtr # NoThread => Ready(Stream, written, lines)

\* No text is under way at first.
LEMMA LinesInit == Init => LinesInv
<1> SUFFICES ASSUME Init PROVE LinesInv
  OBVIOUS
<1>1. /\ tPtr = NoThread /\ pendingLine = <<>> /\ lines = <<>>
      /\ \A g \in Gdb : chunk[g] = <<>> /\ miOut[g] = <<>> /\ gdb[g] = "none"
  BY DEF Init
<1>2. QuietInv
  BY <1>1 DEF QuietInv
<1>3. Handed(lines, written)
  BY <1>1 DEF Handed, Growing
<1> QED BY <1>1, <1>2, <1>3 DEF LinesInv

\* A start finds no text of an earlier gdb.
LEMMA LinesStart ==
  ASSUME TypeOK, SessionInv, LinesInv, StartGdbProcess
  PROVE  LinesInv'
<1> SUFFICES ASSUME ~ overlapped' PROVE LinesInv'
  BY DEF LinesInv
<1>1. ~ overlapped /\ tPtr = NoThread
  BY DEF StartGdbProcess
<1>2. QuietInv /\ Handed(lines, written)
  BY <1>1 DEF LinesInv
<1>3. /\ starts \in Nat /\ starts + 1 \in Gdb /\ starts' = starts + 1 /\ tPtr' = starts + 1 /\ tPtr' # NoThread
      /\ UNCHANGED <<pendingLine, chunk, lines, miOut, written>>
  <2>1. starts \in 0..MaxStarts /\ starts < MaxStarts
    BY DEF StartGdbProcess, TypeOK, ControlOK
  <2>2. starts \in Nat /\ starts + 1 \in Gdb /\ starts + 1 # NoThread
    BY <2>1, ProcessAssumption DEF Gdb, NoThread
  <2> QED BY <2>2 DEF StartGdbProcess
<1>4. \A g \in Gdb : g # starts + 1 => gdb'[g] = gdb[g] /\ thread'[g] = thread[g]
  BY DEF StartGdbProcess, TypeOK, ControlOK
<1>5. pendingLine' = <<>> /\ chunk'[tPtr'] = <<>> /\ miOut'[tPtr'] = <<>>
  <2>1. starts + 1 > starts
    BY <1>3
  <2> QED BY <1>1, <1>2, <1>3, <2>1 DEF QuietInv
<1>6. QuietInv'
  <2>1. \A g \in Gdb : g > starts' => g > starts /\ g # starts + 1
    BY <1>3 DEF Gdb
  <2>2. \A g \in Gdb : g # NoThread
    BY DEF Gdb, NoThread
  <2>3. \A g \in Gdb : gdb'[g] = "alive" => g = tPtr'
    BY <1>1, <1>2, <1>3, <1>4, <2>2 DEF QuietInv
  <2>4. \A g \in Gdb : g > starts' => chunk'[g] = <<>> /\ miOut'[g] = <<>> /\ gdb'[g] = "none"
    BY <1>2, <1>3, <1>4, <2>1 DEF QuietInv
  <2>5. \A g \in Gdb : thread'[g] # "split" => chunk'[g] = <<>>
    BY <1>2, <1>3, <1>4, <1>5 DEF QuietInv
  <2> QED BY <1>3, <2>3, <2>4, <2>5 DEF QuietInv
<1>7. Ready(Stream, written, lines)'
  <2>1. Stream' = (<<>> \o <<>>) \o <<>>
    BY <1>5, Zenon DEF Stream
  <2>2. Stream' = <<>>
    BY <2>1
  <2> HIDE DEF Stream
  <2>3. DOMAIN Stream' = {} /\ Len(Stream') = 0
    BY <2>2
  <2> QED BY <2>2, <2>3 DEF Ready, Complete, Unbroken
<1>8. Handed(lines, written)'
  BY <1>2, <1>3
<1> QED BY <1>6, <1>7, <1>8 DEF LinesInv

\* What gdb writes comes after what it wrote.
LEMMA LinesWrite ==
  ASSUME TypeOK, LinesInv, NEW g \in Gdb, WriteLine(g)
  PROVE  LinesInv'
<1> SUFFICES ASSUME ~ overlapped PROVE LinesInv'
  BY DEF LinesInv, WriteLine
<1>1. QuietInv /\ Handed(lines, written) /\ g = tPtr /\ g # NoThread
  BY DEF LinesInv, WriteLine, QuietInv, Gdb, NoThread
<1>2. /\ UNCHANGED <<starts, overlapped, tPtr, pendingLine, thread, chunk, lines, gdb>>
      /\ written < MaxLines /\ written' = written + 1 /\ gdb[g] = "alive"
      /\ miOut' = [miOut EXCEPT ![g] = @ \o LineText(written + 1)]
  BY DEF WriteLine, objVars, rdVars
<1>3. /\ Stream \in Seq(Piece) /\ (pendingLine \o chunk[g]) \in Seq(Piece) /\ miOut[g] \in Seq(Piece)
  <2>1. pendingLine \in Seq(Piece) /\ chunk[g] \in Seq(Piece) /\ miOut[g] \in Seq(Piece)
    BY DEF TypeOK, TextOK
  <2>2. (pendingLine \o chunk[g]) \in Seq(Piece)
    BY <2>1, ConcatProperties
  <2>3. (pendingLine \o chunk[g]) \o miOut[g] \in Seq(Piece)
    BY <2>1, <2>2, ConcatProperties
  <2> QED BY <1>1, <2>1, <2>2, <2>3 DEF Stream
<1>4. Ready(Stream, written, lines) /\ written \in 0..MaxLines /\ lines \in Seq(Seq(Piece))
  BY <1>1 DEF LinesInv, TypeOK, TextOK
<1>5. /\ LineText(written + 1) \in Seq(Piece)
      /\ Ready(Stream \o LineText(written + 1), written + 1, lines) /\ Handed(lines, written + 1)
  <2> HIDE DEF Stream
  <2> QED BY <1>1, <1>2, <1>3, <1>4, WriteReady
<1>6. Stream' = Stream \o LineText(written + 1)
  <2>1. miOut'[g] = miOut[g] \o LineText(written + 1)
    BY <1>2 DEF TypeOK, TextOK
  <2>2. Stream' = (pendingLine \o chunk[g]) \o (miOut[g] \o LineText(written + 1))
    BY <1>1, <1>2, <2>1 DEF Stream
  <2>3. Stream = (pendingLine \o chunk[g]) \o miOut[g]
    BY <1>1 DEF Stream
  <2>4. \A a, b, c \in Seq(Piece) : (a \o b) \o c = a \o (b \o c)
    BY ConcatAssociative
  <2>5. ((pendingLine \o chunk[g]) \o miOut[g]) \o LineText(written + 1) =
          (pendingLine \o chunk[g]) \o (miOut[g] \o LineText(written + 1))
    BY <1>3, <1>5, <2>4
  <2> QED BY <2>2, <2>3, <2>5
<1>7. QuietInv'
  <2>1. \A h \in Gdb : h > starts => h # g
    BY <1>1, <1>2 DEF QuietInv
  <2>2. \A h \in Gdb : h # g => miOut'[h] = miOut[h]
    BY <1>2 DEF TypeOK, TextOK
  <2> QED BY <1>1, <1>2, <2>1, <2>2 DEF QuietInv
<1>8. Ready(Stream', written', lines')
  BY <1>2, <1>5, <1>6
<1>9. Handed(lines', written')
  BY <1>2, <1>5
<1> QED BY <1>7, <1>8, <1>9 DEF LinesInv

\* After terminate nothing is left of the gdb it ended.
LEMMA LinesTerminate ==
  ASSUME TypeOK, SessionInv, LinesInv, FinishTerminate
  PROVE  LinesInv'
<1> SUFFICES ASSUME ~ overlapped PROVE LinesInv'
  BY DEF LinesInv, FinishTerminate
<1>1. QuietInv /\ Handed(lines, written)
  BY DEF LinesInv
<1>2. /\ tPtr' = NoThread /\ pendingLine' = <<>> /\ gdb' = [gdb EXCEPT ![tPtr] = "closed"]
      /\ UNCHANGED <<starts, overlapped, thread, chunk, lines, miOut, written>>
  BY DEF FinishTerminate, rdVars
<1>3. gdb \in [Gdb -> {"none", "alive", "dead", "closed"}]
  BY DEF TypeOK, ControlOK
<1>4. \A g \in Gdb : gdb'[g] = gdb[g] \/ (g = tPtr /\ gdb'[g] = "closed")
  BY <1>2, <1>3
<1>5. \A g \in Gdb : gdb'[g] # "alive"
  BY <1>1, <1>2, <1>3, <1>4 DEF QuietInv
<1>6. \A g \in Gdb : g > starts => gdb'[g] = "none"
  <2>1. tPtr <= starts /\ starts \in Nat
    BY DEF SessionInv, TypeOK, ControlOK
  <2>2. \A g \in Gdb : g > starts => g # tPtr
    BY <2>1 DEF Gdb
  <2> QED BY <1>1, <1>4, <2>2 DEF QuietInv
<1>7. QuietInv'
  BY <1>1, <1>2, <1>5, <1>6 DEF QuietInv
<1>8. Handed(lines', written')
  BY <1>1, <1>2
<1> QED BY <1>2, <1>7, <1>8 DEF LinesInv

\* A reader moves text towards the parser and loses none.
LEMMA LinesReader ==
  ASSUME TypeOK, SessionInv, LinesInv, NEW r \in Gdb, Reader(r)
  PROVE  LinesInv'
<1>1. /\ UNCHANGED <<starts, overlapped, miFd, tPtr, gdb>> /\ Running(r)
      /\ \E where \in {"check", "pump", "select", "terminal", "mi", "split", "ended", "aborted"} : Goto(r, where)
  BY ReaderFrame DEF TypeOK
<1> SUFFICES ASSUME ~ overlapped PROVE LinesInv'
  BY <1>1 DEF LinesInv
<1>2. r = tPtr /\ miFd = r /\ r # NoThread /\ (PastSelect(r) => fd[r] = r)
  BY <1>1 DEF SessionInv, OneReader, ReadsItsOwnPty, Gdb, NoThread
<1>3. QuietInv /\ Handed(lines, written) /\ Ready(Stream, written, lines)
  BY <1>2 DEF LinesInv
<1>4. \A g \in Gdb : g # r => thread'[g] = thread[g]
  BY <1>1 DEF TypeOK, ControlOK, Goto
<1>5. written' = written
  BY ReaderTexts
<1>6. /\ pendingLine \in Seq(Piece) /\ chunk \in [Gdb -> Seq(Piece)] /\ miOut \in [Gdb -> Seq(Piece)]
      /\ chunk[r] \in Seq(Piece) /\ miOut[r] \in Seq(Piece)
      /\ written \in 0..MaxLines /\ lines \in Seq(Seq(Piece))
  BY DEF TypeOK, TextOK
<1>7. r <= starts
  BY <1>1 DEF SessionInv, Running, PastSelect
<1>8. CASE UNCHANGED <<pendingLine, chunk, miOut, lines>> /\ thread[r] # "split"
  <2>1. Stream' = Stream
    BY <1>1, <1>8 DEF Stream
  <2>2. QuietInv'
    <3>1. \A g \in Gdb : thread'[g] # "split" => thread[g] # "split"
      BY <1>4, <1>8
    <3> QED BY <1>1, <1>3, <1>8, <3>1 DEF QuietInv
  <2> QED BY <1>1, <1>3, <1>5, <1>8, <2>1, <2>2 DEF LinesInv
<1>9. CASE ReadMi(r)
  <2>1. PICK n \in 1..Len(miOut[r]) :
           /\ chunk' = [chunk EXCEPT ![r] = SubSeq(miOut[r], 1, n)]
           /\ miOut' = [miOut EXCEPT ![r] = SubSeq(@, n + 1, Len(@))]
    <3>1. fd[r] = r
      BY <1>2, <1>9 DEF ReadMi, PastSelect
    <3> QED BY <1>9, <3>1 DEF ReadMi
  <2>2. /\ UNCHANGED <<pendingLine, lines>> /\ thread[r] = "mi" /\ thread'[r] = "split"
    BY <1>9 DEF ReadMi, Goto, objVars, TypeOK, ControlOK
  <2>3. chunk'[r] = SubSeq(miOut[r], 1, n) /\ miOut'[r] = SubSeq(miOut[r], n + 1, Len(miOut[r]))
    BY <1>6, <2>1
  <2>4. chunk[r] = <<>>
    BY <1>3, <2>2 DEF QuietInv
  <2>5. /\ chunk'[r] \in Seq(Piece) /\ miOut'[r] \in Seq(Piece)
        /\ chunk'[r] \o miOut'[r] = miOut[r]
    BY <1>6, <2>3, ReadType
  <2>6. Stream' = Stream
    <3>1. Stream' = (pendingLine \o chunk'[r]) \o miOut'[r]
      BY <1>1, <1>2, <2>2 DEF Stream
    <3>2. \A a, b, c \in Seq(Piece) : (a \o b) \o c = a \o (b \o c)
      BY ConcatAssociative
    <3>3. Stream' = pendingLine \o miOut[r]
      <4>1. (pendingLine \o chunk'[r]) \o miOut'[r] = pendingLine \o (chunk'[r] \o miOut'[r])
        BY <1>6, <2>5, <3>2
      <4> QED BY <2>5, <3>1, <4>1, Zenon
    <3>4. pendingLine \o chunk[r] = pendingLine
      <4>1. pendingLine \o <<>> = pendingLine
        BY <1>6, ConcatEmptySeq
      <4> QED BY <2>4, <4>1, Zenon
    <3>5. Stream = pendingLine \o miOut[r]
      BY <1>2, <3>4 DEF Stream
    <3> QED BY <3>3, <3>5
  <2>7. QuietInv'
    <3>1. \A g \in Gdb : g # r => chunk'[g] = chunk[g] /\ miOut'[g] = miOut[g]
      BY <1>6, <2>1
    <3>2. \A g \in Gdb : g > starts => g # r
      BY <1>7 DEF Gdb, SessionInv, TypeOK, ControlOK
    <3>3. \A g \in Gdb : g > starts' => chunk'[g] = <<>> /\ miOut'[g] = <<>> /\ gdb'[g] = "none"
      BY <1>1, <1>3, <3>1, <3>2 DEF QuietInv
    <3>4. \A g \in Gdb : thread'[g] # "split" => chunk'[g] = <<>>
      BY <1>3, <1>4, <2>2, <3>1 DEF QuietInv
    <3> QED BY <1>1, <1>3, <2>2, <3>3, <3>4 DEF QuietInv
  <2> QED BY <1>1, <1>3, <1>5, <2>2, <2>6, <2>7 DEF LinesInv
<1>10. CASE Split(r)
  <2> DEFINE data == pendingLine \o chunk[r]
             cut == Cut(data)
  <2>1. data \in Seq(Piece)
    BY <1>6, ConcatProperties
  <2>2. /\ pendingLine' = cut.rest /\ lines' = lines \o cut.lines
        /\ chunk' = [chunk EXCEPT ![r] = <<>>] /\ UNCHANGED miOut
    BY <1>10 DEF Split, SplitWith, gdbVars
  <2>3. Stream = data \o miOut[r]
    BY <1>2 DEF Stream
  <2> HIDE DEF data
  <2>4. cut \in Cuts /\ Ready(cut.rest \o miOut[r], written, lines \o cut.lines) /\ Handed(lines \o cut.lines, written)
    BY <1>3, <1>6, <2>1, <2>3, CutReady
  <2> HIDE DEF cut
  <2>5. chunk'[r] = <<>>
    BY <1>6, <2>2, Zenon
  <2>6. Stream' = cut.rest \o miOut[r]
    <3>1. Stream' = (cut.rest \o <<>>) \o miOut[r]
      BY <1>1, <1>2, <2>2, <2>5, Zenon DEF Stream
    <3>2. cut.rest \o <<>> = cut.rest
      <4>1. cut.rest \in Seq(Piece)
        BY <2>4 DEF Cuts
      <4> QED BY <4>1, ConcatEmptySeq
    <3> QED BY <3>1, <3>2, Zenon
  <2>7. Ready(Stream', written', lines') /\ Handed(lines', written')
    BY <1>5, <2>2, <2>4, <2>6
  <2>8. QuietInv'
    <3>1. \A g \in Gdb : chunk'[g] = chunk[g] \/ chunk'[g] = <<>>
      BY <1>6, <2>2
    <3>2. \A g \in Gdb : g > starts' => chunk'[g] = <<>> /\ miOut'[g] = <<>> /\ gdb'[g] = "none"
      BY <1>1, <1>3, <2>2, <3>1 DEF QuietInv
    <3>3. \A g \in Gdb : thread'[g] # "split" => chunk'[g] = <<>>
      BY <1>3, <1>4, <2>5, <3>1 DEF QuietInv
    <3> QED BY <1>1, <1>2, <1>3, <3>2, <3>3 DEF QuietInv
  <2> QED BY <1>1, <2>7, <2>8 DEF LinesInv
<1>11. CASE ReadInferior(r)
  <2>1. UNCHANGED <<pendingLine, chunk, miOut, lines>> /\ thread[r] = "terminal"
    BY <1>11 DEF ReadInferior, objVars
  <2> QED BY <1>8, <2>1
<1>12. ~ Drop(r)
  BY <1>2 DEF Drop, PastSelect
<1> QED BY <1>8, <1>9, <1>10, <1>11, <1>12, ReaderTexts

\* Every step keeps the lines whole.
LEMMA LinesStep ==
  ASSUME TypeOK, SessionInv, LinesInv, [Next]_vars
  PROVE  LinesInv'
<1>1. CASE RequestQuit
  BY <1>1 DEF RequestQuit, rdVars, gdbVars, LinesInv, QuietInv, Stream
<1>2. CASE UNCHANGED vars
  BY <1>2 DEF vars, objVars, rdVars, gdbVars, LinesInv, QuietInv, Stream
<1>3. CASE \E g \in Gdb : WriteTerminal(g) \/ Die(g)
  <2>1. /\ UNCHANGED <<starts, overlapped, tPtr, pendingLine, thread, chunk, lines, miOut, written>>
    BY <1>3 DEF WriteTerminal, Die, objVars, rdVars
  <2>2. \A g \in Gdb : gdb'[g] = gdb[g] \/ (gdb[g] = "alive" /\ gdb'[g] = "dead")
    BY <1>3 DEF WriteTerminal, Die, TypeOK, ControlOK
  <2> QED BY <2>1, <2>2 DEF LinesInv, QuietInv, Stream
<1> QED BY <1>1, <1>2, <1>3, LinesStart, LinesTerminate, LinesReader, LinesWrite DEF Next

\* The inductive invariant: what was handed over and what is on its way.
THEOREM LinesCorrect == Spec => []LinesInv
<1>1. TypeOK /\ SessionInv /\ LinesInv /\ [Next]_vars => LinesInv'
  BY LinesStep
<1> QED BY <1>1, LinesInit, TypeCorrect, SingleReader, PTL DEF Spec

\* Wherever read() cuts the text and whatever an earlier gdb left, the parser
\* gets whole lines, each once and in order, until a session is opened over
\* another.
THEOREM WholeLinesCorrect == Spec => []WholeLines
<1>1. LinesInv /\ TypeOK => WholeLines
  <2> SUFFICES ASSUME LinesInv, TypeOK, ~ overlapped
               PROVE  /\ \A i \in DOMAIN lines : \E n \in 1..written : lines[i] = LineText(n)
                      /\ \A i, j \in DOMAIN lines : i < j => lines[i][1].line < lines[j][1].line
    BY DEF WholeLines
  <2>1. Growing(lines) /\ \A i \in DOMAIN lines : Number(lines[i]) <= written
    BY DEF LinesInv, Handed
  <2>2. ASSUME NEW i \in DOMAIN lines PROVE \E n \in 1..written : lines[i] = LineText(n)
    <3>1. IsLine(lines[i]) /\ Number(lines[i]) <= written
      BY <2>1 DEF Growing
    <3>2. Number(lines[i]) \in 1..written
      BY <3>1, ProcessAssumption DEF IsLine, TypeOK, TextOK
    <3> QED BY <3>1, <3>2 DEF IsLine
  <2>3. \A i, j \in DOMAIN lines : i < j => lines[i][1].line < lines[j][1].line
    BY <2>1 DEF Growing, Number
  <2> QED BY <2>2, <2>3
<1> QED BY <1>1, LinesCorrect, TypeCorrect, PTL
-----------------------------------------------------------------------------
(* What becomes of a line handed on.  readerThread gives each whole line   *)
(* to a parser and a driver of its own (handleData), which are MiOutput:   *)
(* every node the driver makes has one owner until it is deleted, once.    *)
(* The inductions are over the numbers of the nodes: a node is made after  *)
(* those below it.                                                         *)

\* The nodes, lists and hands that hold a node
HeapOwners(i) == {k \in DOMAIN heap : i \in ToSet(heap[k].kids)}
OpenOwners(i) == {k \in DOMAIN open : i \in ToSet(open[k].kids)}
Hands(i)      == {p \in {"held", "output", "given"} :
                    i = [held |-> held, output |-> output, given |-> given][p]}

\* A node with one owner
Owned(nodes, lists, hands) ==
  \E x : \/ nodes = {x} /\ lists = {} /\ hands = {}
         \/ nodes = {} /\ lists = {x} /\ hands = {}
         \/ nodes = {} /\ lists = {} /\ hands = {x}

InRecord == {"after", "item", "first", "named", "value"}

\* A record that is not deleted has all its nodes, each made before its parent.
Rooted ==
  \A i \in DOMAIN heap : ToSet(heap[i].kids) \subseteq DOMAIN heap \intersect (1..(i - 1))

\* A stack of lists of nodes
Listed(lists, nodes) ==
  /\ lists \in Seq(ToSet(lists))
  /\ \A k \in DOMAIN lists : /\ "kids" \in DOMAIN lists[k]
                             /\ lists[k].kids \in Seq(nodes)

ListsKept == Listed(open, DOMAIN heap) /\ (open # <<>> <=> mode \in InRecord)

HandsKept ==
  /\ {held, output, given} \subseteq DOMAIN heap \union {None}
  /\ held # None => mode = "whole"
  /\ output # None => mode = "end"
  /\ given # None => mode = "accepted"

OwnInv ==
  /\ made \in Nat /\ DOMAIN heap \subseteq 1..made
  /\ ~ twice
  /\ HandsKept
  /\ mode # "refused" => /\ ListsKept /\ Rooted
                         /\ \A i \in DOMAIN heap : Owned(HeapOwners(i), OpenOwners(i), Hands(i))

\* One owner is one holder.
LEMMA OwnedHolders ==
  ASSUME NEW i, Owned(HeapOwners(i), OpenOwners(i), Hands(i))
  PROVE  Holders(i) = 1
<1>2. \A x : Cardinality({x}) = 1
  BY FS_Singleton
<1>3. Cardinality({}) = 0
  BY FS_EmptySet
<1>4. Holders(i) = Cardinality(HeapOwners(i)) + Cardinality(OpenOwners(i)) + Cardinality(Hands(i))
  BY DEF Holders, HeapOwners, OpenOwners, Hands
<1> DEFINE A == HeapOwners(i)
           B == OpenOwners(i)
           C == Hands(i)
<1>5. Holders(i) = Cardinality(A) + Cardinality(B) + Cardinality(C) /\ Owned(A, B, C)
  BY <1>4
<1> HIDE DEF A, B, C
<1>6. PICK x : \/ A = {x} /\ B = {} /\ C = {}
               \/ A = {} /\ B = {x} /\ C = {}
               \/ A = {} /\ B = {} /\ C = {x}
  BY <1>5 DEF Owned
<1>7. Cardinality({x}) = 1
  BY <1>2
<1> QED BY <1>3, <1>5, <1>6, <1>7

\* The inductive invariant says what OwnedOnce does.
LEMMA OwnedFits ==
  ASSUME OwnInv
  PROVE  OwnedOnce
BY OwnedHolders DEF OwnInv, HandsKept, OwnedOnce

\* The entries of a sequence, one more
LEMMA ToSetAppend ==
  ASSUME NEW S, NEW s \in Seq(S), NEW x \in S
  PROVE  /\ ToSet(Append(s, x)) = ToSet(s) \union {x}
         /\ s \in Seq(ToSet(s))
<1>1. /\ Append(s, x) \in Seq(S) /\ Len(Append(s, x)) = Len(s) + 1 /\ Append(s, x)[Len(s) + 1] = x
      /\ \A i \in 1..Len(s) : Append(s, x)[i] = s[i]
  BY AppendProperties
<1>2. Len(s) \in Nat /\ DOMAIN s = 1..Len(s) /\ DOMAIN Append(s, x) = 1..Len(s) + 1
  BY <1>1
<1>3. ASSUME NEW i \in 1..Len(s) + 1 PROVE i = Len(s) + 1 \/ i \in 1..Len(s)
  BY <1>2
<1>4. \A i \in 1..Len(s) : i \in 1..Len(s) + 1
  BY <1>2
<1>5. Len(s) + 1 \in 1..Len(s) + 1
  BY <1>2
<1>6. ToSet(Append(s, x)) = ToSet(s) \union {x}
  BY <1>1, <1>2, <1>3, <1>4, <1>5 DEF ToSet
<1>7. s \in Seq(ToSet(s))
  BY <1>2 DEF ToSet
<1> QED BY <1>6, <1>7
-----------------------------------------------------------------------------
(* What deleting a record deletes.                                         *)

\* f gives each node up to n the nodes it is made of.
Tree(h, f, n) ==
  f = [i \in DOMAIN h \intersect (1..n) |-> {i} \union UNION {f[k] : k \in ToSet(h[i].kids)}]

\* One node more
LEMMA TreeGrows ==
  ASSUME NEW h, NEW n \in Nat \ {0}, NEW f, Tree(h, f, n - 1),
         \A i \in DOMAIN h : ToSet(h[i].kids) \subseteq DOMAIN h \intersect (1..(i - 1))
  PROVE  \E g : Tree(h, g, n)
<1> DEFINE D == DOMAIN h \intersect (1..n)
           E == DOMAIN h \intersect (1..(n - 1))
           Sub(g, i) == {i} \union UNION {g[k] : k \in ToSet(h[i].kids)}
           g == [i \in D |-> Sub(f, i)]
<1>1. \A i \in D : ToSet(h[i].kids) \subseteq E
  BY DEF D
<1>2. E \subseteq D /\ \A k \in E : f[k] = Sub(f, k)
  <2>1. E \subseteq D
    OBVIOUS
  <2>2. f = [k \in E |-> Sub(f, k)]
    BY DEF Tree
  <2> HIDE DEF E, Sub
  <2>3. \A k \in E : f[k] = Sub(f, k)
    BY <2>2
  <2> QED BY <2>1, <2>3
<1>3. \A k \in E : g[k] = f[k]
  BY <1>2
<1>4. ASSUME NEW i \in D PROVE Sub(f, i) = Sub(g, i)
  <2>1. \A k \in ToSet(h[i].kids) : g[k] = f[k]
    BY <1>1, <1>3
  <2> HIDE DEF g
  <2> QED BY <2>1
<1>5. g = [i \in D |-> Sub(g, i)]
  <2> HIDE DEF D, Sub
  <2> QED BY <1>4
<1> HIDE DEF g
<1>6. Tree(h, g, n)
  BY <1>5 DEF Tree
<1> QED BY <1>6

\* Deleting a record deletes all that is in what it deletes.
LEMMA WholeClosed ==
  ASSUME NEW h, NEW m \in Nat, DOMAIN h \subseteq 1..m, NEW root \in DOMAIN h,
         \A i \in DOMAIN h : ToSet(h[i].kids) \subseteq DOMAIN h \intersect (1..(i - 1))
  PROVE  /\ root \in Whole(h, root)
         /\ \A k \in DOMAIN h \intersect Whole(h, root) : ToSet(h[k].kids) \subseteq Whole(h, root)
<1> DEFINE T == {n \in 0..m : \E f : Tree(h, f, n)}
           Is(f) == f = [i \in DOMAIN h |-> {i} \union UNION {f[k] : k \in ToSet(h[i].kids)}]
           b == CHOOSE f : Is(f)
<1>1. 0 \in T
  <2>1. Tree(h, <<>>, 0)
    BY DEF Tree
  <2> QED BY <2>1
<1>2. ASSUME NEW n \in 1..m, n - 1 \in T PROVE n \in T
  <2>1. n \in Nat \ {0} /\ n \in 0..m
    OBVIOUS
  <2>2. PICK f : Tree(h, f, n - 1)
    BY <1>2
  <2>3. \E g : Tree(h, g, n)
    BY <2>1, <2>2, TreeGrows
  <2> QED BY <2>1, <2>3
<1>3. m \in T
  <2> HIDE DEF T
  <2>1. 0..m \subseteq T
    BY <1>1, <1>2, UpTo
  <2> QED BY <2>1
<1>4. Is(b)
  <2>1. PICK f : Tree(h, f, m)
    BY <1>3
  <2>2. DOMAIN h \intersect (1..m) = DOMAIN h
    OBVIOUS
  <2>3. Is(f)
    BY <2>1, <2>2 DEF Tree
  <2> HIDE DEF Is
  <2> QED BY <2>3
<1>5. Whole(h, root) = b[root]
  BY DEF Whole
<1> HIDE DEF b, T
<1>6. \A i \in DOMAIN h : b[i] = {i} \union UNION {b[k] : k \in ToSet(h[i].kids)}
  BY <1>4
<1> DEFINE Sealed(i) == \A k \in DOMAIN h \intersect b[i] : ToSet(h[k].kids) \subseteq b[i]
           U == {n \in 0..m : \A i \in DOMAIN h \intersect (1..n) : Sealed(i)}
<1>7. 0 \in U
  OBVIOUS
<1>8. ASSUME NEW n \in 1..m, n - 1 \in U PROVE n \in U
  <2>1. \A i \in DOMAIN h \intersect (1..n) : i \in DOMAIN h \intersect (1..(n - 1)) \/ i = n
    OBVIOUS
  <2>2. ASSUME n \in DOMAIN h, NEW k \in DOMAIN h \intersect b[n] PROVE ToSet(h[k].kids) \subseteq b[n]
    <3>1. \A c \in ToSet(h[n].kids) : c \in DOMAIN h \intersect (1..(n - 1)) /\ Sealed(c) /\ b[c] \subseteq b[n] /\ c \in b[c]
      <4>1. \A c \in ToSet(h[n].kids) : c \in DOMAIN h \intersect (1..(n - 1))
        BY <2>2
      <4>2. \A c \in DOMAIN h \intersect (1..(n - 1)) : Sealed(c)
        BY <1>8
      <4>3. \A c \in ToSet(h[n].kids) : b[c] \subseteq b[n]
        BY <1>6, <2>2
      <4>4. \A c \in DOMAIN h : c \in b[c]
        BY <1>6
      <4> HIDE DEF Sealed
      <4> QED BY <4>1, <4>2, <4>3, <4>4
    <3>2. CASE k = n
      BY <3>1, <3>2
    <3>3. CASE k # n
      <4>1. PICK c \in ToSet(h[n].kids) : k \in b[c]
        BY <1>6, <2>2, <3>3
      <4> QED BY <3>1, <4>1
    <3> QED BY <3>2, <3>3
  <2>3. n \in 0..m
    OBVIOUS
  <2>4. \A i \in DOMAIN h \intersect (1..(n - 1)) : Sealed(i)
    BY <1>8
  <2>5. n \in DOMAIN h => Sealed(n)
    BY <2>2
  <2> HIDE DEF Sealed
  <2>6. \A i \in DOMAIN h \intersect (1..n) : Sealed(i)
    BY <2>1, <2>4, <2>5
  <2> QED BY <2>3, <2>6
<1>9. m \in U
  <2> HIDE DEF U
  <2>1. 0..m \subseteq U
    BY <1>7, <1>8, UpTo
  <2> QED BY <2>1
<1>10. Sealed(root)
  <2>1. root \in DOMAIN h \intersect (1..m)
    OBVIOUS
  <2> HIDE DEF Closed
  <2> QED BY <1>9, <2>1
<1>11. root \in b[root]
  BY <1>6
<1> QED BY <1>5, <1>10, <1>11

\* What nothing outside it holds holds nothing.
LEMMA Reached ==
  ASSUME NEW h, NEW m \in Nat, DOMAIN h \subseteq 1..m, NEW W,
         \A i \in DOMAIN h : ToSet(h[i].kids) \subseteq DOMAIN h \intersect (1..(i - 1)),
         \A k \in DOMAIN h \intersect W : ToSet(h[k].kids) \subseteq W,
         \A i \in DOMAIN h \ W : \E k \in DOMAIN h : i \in ToSet(h[k].kids)
  PROVE  DOMAIN h \subseteq W
<1> DEFINE S == {m - i : i \in DOMAIN h \ W}
<1>1. SUFFICES ASSUME NEW x \in DOMAIN h \ W PROVE FALSE
  OBVIOUS
<1>2. S \subseteq Nat /\ S # {}
  OBVIOUS
<1> HIDE DEF S
<1>3. PICK l \in S : \A n \in S : l <= n
  BY <1>2, SmallestNumber
<1>4. PICK i \in DOMAIN h \ W : l = m - i
  BY DEF S
<1>5. PICK k \in DOMAIN h : i \in ToSet(h[k].kids)
  BY <1>4
<1>6. i \in 1..(k - 1) /\ k \in 1..m /\ k \notin W
  BY <1>4, <1>5
<1>7. m - k \in S
  BY <1>6 DEF S
<1>8. l <= m - k
  BY <1>3, <1>7
<1> QED BY <1>4, <1>6, <1>8
-----------------------------------------------------------------------------
(* The parser's steps.                                                     *)

\* A sequence is one of its entries,
LEMMA SequenceRange ==
  ASSUME NEW S, NEW s \in Seq(S)
  PROVE  s \in Seq(ToSet(s))
<1>1. Len(s) \in Nat /\ DOMAIN s = 1..Len(s)
  OBVIOUS
<1> QED BY <1>1 DEF ToSet

\* and a function on the first numbers is a sequence.
LEMMA FunctionSeq ==
  ASSUME NEW S, NEW n \in Nat, NEW e \in [1..n -> S]
  PROVE  e \in Seq(S) /\ Len(e) = n
OBVIOUS

\* The node made last joins the innermost list.
With(lists, x) == [lists EXCEPT ![Len(lists)].kids = Append(@, x)]

Adopts(lists, nodes, x, e) ==
  /\ Listed(e, nodes \union {x}) /\ e # <<>> /\ DOMAIN e = DOMAIN lists
  /\ \A k \in DOMAIN e, i \in nodes : i \in ToSet(e[k].kids) <=> i \in ToSet(lists[k].kids)
  /\ {k \in DOMAIN e : x \in ToSet(e[k].kids)} = {Len(lists)}

\* A node put into the innermost list is in that list and in no other.
LEMMA Adopted ==
  ASSUME NEW lists, lists # <<>>, NEW D, Listed(lists, D), NEW x, x \notin D
  PROVE  Adopts(lists, D, x, With(lists, x))
<1> DEFINE e == With(lists, x)
<1>a. e = [lists EXCEPT ![Len(lists)].kids = Append(@, x)]
  BY DEF With
<1> HIDE DEF e
<1>b. /\ lists \in Seq(ToSet(lists))
      /\ \A k \in DOMAIN lists : "kids" \in DOMAIN lists[k] /\ lists[k].kids \in Seq(D)
  BY DEF Listed
<1> DEFINE n == Len(lists)
           old == lists[n].kids
<1>1. n \in Nat \ {0} /\ DOMAIN lists = 1..n
  BY <1>b
<1>2. "kids" \in DOMAIN lists[n] /\ old \in Seq(D)
  BY <1>b, <1>1
<1>3. e = [lists EXCEPT ![n] = [lists[n] EXCEPT !.kids = Append(old, x)]]
  BY <1>a
<1>4. /\ Append(old, x) \in Seq(D \union {x})
      /\ ToSet(Append(old, x)) = ToSet(old) \union {x}
  <2>1. old \in Seq(D \union {x}) /\ x \in D \union {x}
    BY <1>2
  <2> HIDE DEF old
  <2> QED BY <2>1, ToSetAppend, AppendProperties
<1> DEFINE new == [lists[n] EXCEPT !.kids = Append(old, x)]
<1>5. "kids" \in DOMAIN new /\ new.kids = Append(old, x)
  BY <1>2
<1>6. e = [lists EXCEPT ![n] = new]
  BY <1>3
<1> HIDE DEF new
<1>7. DOMAIN e = 1..n /\ e[n] = new /\ \A k \in 1..n : k # n => e[k] = lists[k]
  <2>1. n \in DOMAIN lists
    BY <1>1
  <2> HIDE DEF n
  <2> QED BY <1>1, <1>6, <2>1
<1>8. e \in Seq(ToSet(e)) /\ Len(e) = n
  <2>1. e = [k \in 1..n |-> e[k]]
    BY <1>1, <1>6
  <2>2. \A k \in 1..n : e[k] \in ToSet(e)
    BY <1>7 DEF ToSet
  <2>3. e \in [1..n -> ToSet(e)]
    BY <2>1, <2>2
  <2>4. n \in Nat /\ DOMAIN e = 1..n
    BY <1>1, <1>7
  <2> DEFINE S == ToSet(e)
  <2> HIDE DEF S, n
  <2>5. e \in [1..n -> S]
    BY <2>3 DEF S
  <2>6. e \in Seq(S) /\ Len(e) = n
    BY <2>4, <2>5, FunctionSeq
  <2> QED BY <2>6 DEF S
<1>9. ASSUME NEW k \in 1..n
      PROVE  /\ "kids" \in DOMAIN e[k] /\ e[k].kids \in Seq(D \union {x})
             /\ \A i \in D : i \in ToSet(e[k].kids) <=> i \in ToSet(lists[k].kids)
             /\ x \in ToSet(e[k].kids) <=> k = n
  <2>1. CASE k = n
    BY <1>4, <1>5, <1>7, <2>1
  <2>2. CASE k # n
    <3>1. e[k] = lists[k] /\ lists[k].kids \in Seq(D) /\ "kids" \in DOMAIN lists[k]
      BY <1>b, <1>1, <1>7, <2>2
    <3>2. lists[k].kids \in Seq(D \union {x})
      BY <3>1
    <3>3. ToSet(lists[k].kids) \subseteq D
      BY <3>1 DEF ToSet
    <3> QED BY <2>2, <3>1, <3>2, <3>3
  <2> QED BY <2>1, <2>2
<1>10. n \in 1..n
  BY <1>1
<1>11. e # <<>>
  BY <1>1, <1>8
<1>12. Listed(e, D \union {x})
  BY <1>7, <1>8, <1>9 DEF Listed
<1>13. Adopts(lists, D, x, e)
  BY <1>1, <1>7, <1>9, <1>10, <1>11, <1>12 DEF Adopts
<1> QED BY <1>13 DEF e

\* A node is made of nodes that are there.
LEMMA MakeNode ==
  ASSUME OwnInv, mode \notin {"accepted", "refused"}, NEW node, Make(node), NEW m, m = made + 1,
         ToSet(node.kids) \subseteq DOMAIN heap
  PROVE  /\ m \in Nat /\ m \notin DOMAIN heap
         /\ made' \in Nat /\ DOMAIN heap' = DOMAIN heap \union {m} /\ DOMAIN heap' \subseteq 1..made'
         /\ ~ twice' /\ Rooted'
         /\ HeapOwners(m)' = {}
         /\ \A i \in DOMAIN heap : HeapOwners(i)' = IF i \in ToSet(node.kids)
                                                    THEN HeapOwners(i) \union {m}
                                                    ELSE HeapOwners(i)
<1>1. /\ made' = m /\ twice' = twice
      /\ heap' = [i \in DOMAIN heap \union {m} |-> IF i = m THEN node ELSE heap[i]]
  BY DEF Make
<1>2. made \in Nat /\ DOMAIN heap \subseteq 1..made /\ ~ twice /\ Rooted
  BY DEF OwnInv
<1>3. m \in Nat /\ m \notin DOMAIN heap /\ DOMAIN heap \union {m} \subseteq 1..m /\ DOMAIN heap \subseteq 1..(m - 1)
  BY <1>2
<1>4. /\ DOMAIN heap' = DOMAIN heap \union {m} /\ heap'[m] = node
      /\ \A i \in DOMAIN heap : heap'[i] = heap[i]
  BY <1>1, <1>3
<1>5. \A i \in DOMAIN heap : ToSet(heap[i].kids) \subseteq DOMAIN heap
  BY <1>2 DEF Rooted
<1>6. HeapOwners(m)' = {}
  <2>1. ASSUME NEW k \in DOMAIN heap' PROVE m \notin ToSet(heap'[k].kids)
    BY <1>3, <1>4, <1>5, <2>1
  <2> QED BY <2>1 DEF HeapOwners
<1>7. ASSUME NEW i \in DOMAIN heap
      PROVE  HeapOwners(i)' = IF i \in ToSet(node.kids) THEN HeapOwners(i) \union {m} ELSE HeapOwners(i)
  BY <1>3, <1>4 DEF HeapOwners
<1>8. Rooted'
  <2>1. ASSUME NEW i \in DOMAIN heap'
        PROVE  ToSet(heap'[i].kids) \subseteq DOMAIN heap' \intersect (1..(i - 1))
    <3>1. CASE i = m
      BY <1>3, <1>4, <3>1
    <3>2. CASE i \in DOMAIN heap
      BY <1>2, <1>4, <3>2 DEF Rooted
    <3> QED BY <1>4, <2>1, <3>1, <3>2
  <2> QED BY <2>1 DEF Rooted
<1> QED BY <1>1, <1>2, <1>3, <1>4, <1>6, <1>7, <1>8

\* Nothing in hand: the parser is inside a line.
LEMMA EmptyHands ==
  ASSUME None \notin Nat, OwnInv, mode \notin {"whole", "end", "accepted"}
  PROVE  /\ held = None /\ output = None /\ given = None
         /\ \A i \in Nat : Hands(i) = {}
<1>1. held = None /\ output = None /\ given = None
  BY DEF OwnInv, HandsKept
<1> QED BY <1>1 DEF Hands

\* Steps that make no node and touch no list
LEMMA MoveKeeps ==
  ASSUME None \notin Nat, OwnInv, UNCHANGED <<heap, made, twice, open, held, output, given>>,
         mode \notin {"whole", "end", "accepted", "refused"}, mode' # "refused",
         mode \in InRecord <=> mode' \in InRecord
  PROVE  OwnInv'
<1>1. held = None /\ output = None /\ given = None
  BY EmptyHands
<1>2. HandsKept'
  BY <1>1 DEF OwnInv, HandsKept
<1>3. ListsKept'
  BY DEF OwnInv, ListsKept
<1>4. Rooted'
  BY DEF OwnInv, Rooted
<1>5. \A i \in DOMAIN heap : Owned(HeapOwners(i), OpenOwners(i), Hands(i))
  BY DEF OwnInv
<1>6. \A i \in DOMAIN heap' : Owned(HeapOwners(i)', OpenOwners(i)', Hands(i)')
  BY <1>5 DEF HeapOwners, OpenOwners, Hands
<1> QED BY <1>2, <1>3, <1>4, <1>6 DEF OwnInv

\* A list is begun.
LEMMA PushKeeps ==
  ASSUME None \notin Nat, OwnInv, NEW type, NEW word, Push(type, word),
         UNCHANGED <<heap, made, twice, held, output, given>>,
         mode \notin {"whole", "end", "accepted", "refused"}, mode' \in InRecord
  PROVE  OwnInv'
<1> DEFINE r == [type |-> type, name |-> word, kids |-> <<>>]
           S == ToSet(open) \union {r}
<1>1. open' = Append(open, r)
  BY DEF Push
<1>2. held = None /\ output = None /\ given = None
  BY EmptyHands
<1>3. ListsKept
  BY DEF OwnInv
<1>4. "kids" \in DOMAIN r /\ r.kids = <<>>
  OBVIOUS
<1>5. open \in Seq(S) /\ r \in S
  BY <1>3 DEF ListsKept, Listed
<1> HIDE DEF r, S
<1>6. /\ open' \in Seq(S) /\ Len(open') = Len(open) + 1 /\ open'[Len(open) + 1] = r
      /\ \A k \in 1..Len(open) : open'[k] = open[k]
  BY <1>1, <1>5, AppendProperties
<1>7. Len(open) \in Nat /\ DOMAIN open = 1..Len(open) /\ DOMAIN open' = 1..Len(open) + 1
  BY <1>5, <1>6
<1>8. ASSUME NEW k \in DOMAIN open'
      PROVE  \/ k \in DOMAIN open /\ open'[k] = open[k]
             \/ k = Len(open) + 1 /\ open'[k] = r
  BY <1>6, <1>7
<1>9. ListsKept'
  <2>1. open' \in Seq(ToSet(open'))
    BY <1>6, <1>7 DEF ToSet
  <2>2. open' # <<>>
    BY <1>6, <1>7
  <2>3. <<>> \in Seq(DOMAIN heap)
    OBVIOUS
  <2>4. \A k \in DOMAIN open' : "kids" \in DOMAIN open'[k] /\ open'[k].kids \in Seq(DOMAIN heap)
    BY <1>3, <1>4, <1>8, <2>3 DEF ListsKept, Listed
  <2> QED BY <2>1, <2>2, <2>4 DEF ListsKept, Listed
<1>10. ASSUME NEW i PROVE OpenOwners(i)' = OpenOwners(i)
  <2>1. i \notin ToSet(r.kids)
    BY <1>4 DEF ToSet
  <2>2. DOMAIN open \subseteq DOMAIN open' /\ \A k \in DOMAIN open : open'[k] = open[k]
    BY <1>6, <1>7
  <2> QED BY <1>8, <2>1, <2>2 DEF OpenOwners
<1>11. HandsKept' /\ Rooted'
  BY <1>2 DEF OwnInv, HandsKept, Rooted
<1>12. \A i \in DOMAIN heap : Owned(HeapOwners(i), OpenOwners(i), Hands(i))
  BY DEF OwnInv
<1>13. \A i \in DOMAIN heap' : Owned(HeapOwners(i)', OpenOwners(i)', Hands(i)')
  BY <1>10, <1>12 DEF HeapOwners, Hands
<1> QED BY <1>9, <1>11, <1>13 DEF OwnInv

\* The invariant after a node was made, from what happens to the lists and hands
LEMMA MadeKeeps ==
  ASSUME None \notin Nat, OwnInv, mode \notin {"accepted", "refused"},
         NEW node, Make(node), NEW m, m = made + 1,
         ToSet(node.kids) \subseteq DOMAIN heap,
         ListsKept', HandsKept', Owned({}, OpenOwners(m)', Hands(m)'),
         \A i \in DOMAIN heap : Owned(IF i \in ToSet(node.kids) THEN HeapOwners(i) \union {m} ELSE HeapOwners(i),
                                      OpenOwners(i)', Hands(i)')
  PROVE  OwnInv'
<1>1. /\ made' \in Nat /\ DOMAIN heap' = DOMAIN heap \union {m} /\ DOMAIN heap' \subseteq 1..made'
      /\ ~ twice' /\ Rooted' /\ HeapOwners(m)' = {}
      /\ \A i \in DOMAIN heap : HeapOwners(i)' = IF i \in ToSet(node.kids)
                                                 THEN HeapOwners(i) \union {m} ELSE HeapOwners(i)
  BY MakeNode
<1>2. ASSUME NEW i \in DOMAIN heap' PROVE Owned(HeapOwners(i)', OpenOwners(i)', Hands(i)')
  BY <1>1
<1> QED BY <1>1, <1>2 DEF OwnInv

\* A constant joins the innermost list.
LEMMA ReadConstKeeps ==
  ASSUME None \notin Nat, OwnInv, ReadConst, NEW m, m = made + 1
  PROVE  OwnInv'
<1> DEFINE node == [type |-> "const", name |-> name, text |-> Unescape(Head(rest).val), kids |-> <<>>]
<1>1. /\ mode \in {"item", "first", "value"} /\ mode' = "after"
      /\ UNCHANGED <<output, given, held>>
      /\ Make(node) /\ Adopt(open)
  BY DEF ReadConst, Expects, Shift
<1>2. held = None /\ output = None /\ given = None
  BY <1>1, EmptyHands
<1>3. node.kids = <<>> /\ ToSet(node.kids) = {}
  BY DEF ToSet
<1>4. m \in Nat /\ m \notin DOMAIN heap /\ DOMAIN heap \subseteq Nat
  BY DEF OwnInv
<1> HIDE DEF node
<1>6. DOMAIN heap' = DOMAIN heap \union {m}
  BY <1>1 DEF Make
<1>7. open' = With(open, m)
  BY <1>1 DEF Adopt, With
<1>8. ListsKept /\ open # <<>>
  BY <1>1 DEF OwnInv, ListsKept, InRecord
<1>9. Adopts(open, DOMAIN heap, m, open')
  BY <1>4, <1>7, <1>8, Adopted DEF ListsKept
<1>10. ListsKept'
  BY <1>1, <1>6, <1>9 DEF ListsKept, InRecord, Adopts
<1>11. HandsKept'
  BY <1>1, <1>2 DEF HandsKept
<1>12. \A i \in Nat : Hands(i)' = {} /\ Hands(i) = {}
  BY <1>1, <1>2 DEF Hands
<1>13. OpenOwners(m)' = {Len(open)} /\ \A i \in DOMAIN heap : OpenOwners(i)' = OpenOwners(i)
  BY <1>9 DEF OpenOwners, Adopts
<1>14. Owned({}, OpenOwners(m)', Hands(m)')
  BY <1>4, <1>12, <1>13 DEF Owned
<1>15. \A i \in DOMAIN heap : Owned(HeapOwners(i), OpenOwners(i)', Hands(i)')
  BY <1>1, <1>4, <1>12, <1>13 DEF OwnInv
<1> QED BY <1>1, <1>3, <1>10, <1>11, <1>14, <1>15, MadeKeeps

\* A tuple or list is complete: its members change hands.
LEMMA CloseListKeeps ==
  ASSUME None \notin Nat, OwnInv, CloseList, NEW m, m = made + 1
  PROVE  OwnInv'
<1> DEFINE n    == Len(open)
           rear == Front(open)
           node == [type |-> open[n].type, name |-> open[n].name, text |-> <<>>, kids |-> open[n].kids]
<1>1. /\ mode \in {"first", "after"} /\ mode' = "after"
      /\ UNCHANGED <<output, given, held>> /\ n > 1
      /\ Make(node) /\ Adopt(rear)
  BY DEF CloseList, Expects, Shift, Nested, Inner, Last
<1>2. held = None /\ output = None /\ given = None
  BY <1>1, EmptyHands
<1>3. node.kids = open[n].kids
  OBVIOUS
<1>4. m \in Nat /\ m \notin DOMAIN heap /\ DOMAIN heap \subseteq Nat
  BY DEF OwnInv
<1> HIDE DEF node
<1>6. DOMAIN heap' = DOMAIN heap \union {m}
  BY <1>1 DEF Make
<1>7. ListsKept
  BY <1>1 DEF OwnInv
<1>8. n \in Nat /\ DOMAIN open = 1..n /\ n \in DOMAIN open
  BY <1>1, <1>7 DEF ListsKept, Listed
<1>9. /\ rear \in Seq(ToSet(open)) /\ Len(rear) = n - 1 /\ DOMAIN rear = 1..(n - 1)
      /\ \A k \in 1..(n - 1) : rear[k] = open[k]
  <2>1. rear = [k \in 1..(n - 1) |-> open[k]]
    BY <1>1, <1>7, <1>8 DEF Front, ListsKept, Listed
  <2>2. \A k \in 1..(n - 1) : open[k] \in ToSet(open)
    BY <1>8 DEF ToSet
  <2>3. n - 1 \in Nat
    BY <1>1, <1>8
  <2> DEFINE S == ToSet(open)
             p == n - 1
  <2>4. rear \in [1..p -> S] /\ p \in Nat
    BY <2>1, <2>2, <2>3
  <2>5. \A k \in 1..(n - 1) : rear[k] = open[k]
    BY <2>1
  <2> HIDE DEF S, p, rear
  <2>6. rear \in Seq(S) /\ Len(rear) = p /\ DOMAIN rear = 1..p
    BY <2>4, FunctionSeq
  <2> QED BY <2>5, <2>6 DEF S, p
<1> HIDE DEF rear
<1>10. Listed(rear, DOMAIN heap) /\ rear # <<>>
  <2>1. rear \in Seq(ToSet(rear))
    BY <1>9, SequenceRange
  <2>2. rear # <<>>
    BY <1>1, <1>8, <1>9
  <2>3. \A k \in 1..(n - 1) : k \in 1..n
    BY <1>8
  <2> QED BY <1>7, <1>8, <1>9, <2>1, <2>2, <2>3 DEF ListsKept, Listed
<1>11. open' = With(rear, m)
  BY <1>1 DEF Adopt, With
<1>12. Adopts(rear, DOMAIN heap, m, open')
  BY <1>4, <1>10, <1>11, Adopted
<1>13. ListsKept'
  BY <1>1, <1>6, <1>12 DEF ListsKept, InRecord, Adopts
<1>14. HandsKept'
  BY <1>1, <1>2 DEF HandsKept
<1>15. \A i \in Nat : Hands(i)' = {} /\ Hands(i) = {}
  BY <1>1, <1>2 DEF Hands
<1>16. /\ OpenOwners(m)' = {Len(rear)}
       /\ \A i \in DOMAIN heap : OpenOwners(i)' = OpenOwners(i) \ {n}
  <2>1. DOMAIN rear = DOMAIN open \ {n}
    BY <1>8, <1>9
  <2> QED BY <1>8, <1>9, <1>12, <2>1 DEF OpenOwners, Adopts
<1>17. Owned({}, OpenOwners(m)', Hands(m)')
  BY <1>4, <1>15, <1>16 DEF Owned
<1>18. ASSUME NEW i \in DOMAIN heap
       PROVE  Owned(IF i \in ToSet(node.kids) THEN HeapOwners(i) \union {m} ELSE HeapOwners(i),
                    OpenOwners(i)', Hands(i)')
  <2>1. Owned(HeapOwners(i), OpenOwners(i), {}) /\ Hands(i)' = {}
    BY <1>1, <1>4, <1>15 DEF OwnInv
  <2>2. i \in ToSet(node.kids) <=> n \in OpenOwners(i)
    BY <1>3, <1>8 DEF OpenOwners
  <2> DEFINE A == HeapOwners(i)
             B == OpenOwners(i)
  <2>3. Owned(A, B, {})
    BY <2>1
  <2>4. OpenOwners(i)' = B \ {n}
    BY <1>16
  <2>5. i \in ToSet(node.kids) <=> n \in B
    BY <2>2
  <2> HIDE DEF A, B
  <2>6. Owned(IF n \in B THEN A \union {m} ELSE A, B \ {n}, {})
    BY <2>3 DEF Owned
  <2>7. Owned(IF i \in ToSet(node.kids) THEN A \union {m} ELSE A, OpenOwners(i)', Hands(i)')
    BY <2>1, <2>4, <2>5, <2>6
  <2> QED BY <2>7 DEF A
<1>19. ToSet(node.kids) \subseteq DOMAIN heap
  BY <1>3, <1>7, <1>8 DEF ListsKept, Listed, ToSet
<1> QED BY <1>1, <1>13, <1>14, <1>17, <1>18, <1>19, MadeKeeps

\* The end of the line: the record is the driver's.
LEMMA EndRecordKeeps ==
  ASSUME None \notin Nat, OwnInv, EndRecord, NEW m, m = made + 1
  PROVE  OwnInv'
<1> DEFINE n    == Len(open)
           node == [type |-> open[n].type, name |-> open[n].name, text |-> tag, kids |-> open[n].kids]
<1>1. /\ mode = "after" /\ mode' = "end"
      /\ UNCHANGED <<given, held>> /\ ~ n > 1
      /\ Make(node) /\ output' = m /\ open' = <<>>
  BY DEF EndRecord, Shift, Nested, Inner, Last
<1>2. held = None /\ output = None /\ given = None
  BY <1>1, EmptyHands
<1>3. node.kids = open[n].kids
  OBVIOUS
<1>4. m \in Nat /\ m \notin DOMAIN heap /\ DOMAIN heap \subseteq Nat
  BY DEF OwnInv
<1> HIDE DEF node
<1>6. DOMAIN heap' = DOMAIN heap \union {m}
  BY <1>1 DEF Make
<1>7. ListsKept /\ open # <<>>
  BY <1>1 DEF OwnInv, ListsKept, InRecord
<1>8. n = 1 /\ DOMAIN open = {1}
  <2>1. n \in Nat /\ n # 0 /\ DOMAIN open = 1..n
    BY <1>7 DEF ListsKept, Listed
  <2>2. n = 1
    BY <1>1, <2>1
  <2> QED BY <2>1, <2>2
<1>9. ListsKept'
  BY <1>1 DEF ListsKept, Listed, InRecord, ToSet
<1>10. HandsKept'
  BY <1>1, <1>2, <1>6 DEF HandsKept
<1>11. \A i \in DOMAIN heap : Hands(i)' = {} /\ Hands(i) = {}
  BY <1>1, <1>2, <1>4 DEF Hands
<1>12. Hands(m)' = {"output"}
  BY <1>1, <1>2, <1>4 DEF Hands
<1>13. \A i : OpenOwners(i)' = {}
  BY <1>1 DEF OpenOwners
<1>14. Owned({}, OpenOwners(m)', Hands(m)')
  BY <1>12, <1>13 DEF Owned
<1>15. ASSUME NEW i \in DOMAIN heap
       PROVE  Owned(IF i \in ToSet(node.kids) THEN HeapOwners(i) \union {m} ELSE HeapOwners(i),
                    OpenOwners(i)', Hands(i)')
  <2>1. Owned(HeapOwners(i), OpenOwners(i), {}) /\ Hands(i)' = {}
    BY <1>1, <1>11 DEF OwnInv
  <2>2. OpenOwners(i) = IF i \in ToSet(node.kids) THEN {n} ELSE {}
    BY <1>3, <1>8 DEF OpenOwners
  <2> DEFINE A == HeapOwners(i)
  <2>3. Owned(A, IF i \in ToSet(node.kids) THEN {n} ELSE {}, {}) /\ OpenOwners(i)' = {}
    BY <1>13, <2>1, <2>2
  <2> HIDE DEF A
  <2>4. Owned(IF i \in ToSet(node.kids) THEN A \union {m} ELSE A, {}, {})
    BY <2>3 DEF Owned
  <2> QED BY <2>1, <2>3, <2>4 DEF A
<1>16. ToSet(node.kids) \subseteq DOMAIN heap
  BY <1>3, <1>7, <1>8 DEF ListsKept, Listed, ToSet
<1> QED BY <1>1, <1>9, <1>10, <1>14, <1>15, <1>16, MadeKeeps

\* A stream record is the parser's until the line ends.
LEMMA ReadStreamKeeps ==
  ASSUME None \notin Nat, OwnInv, ReadStream, NEW m, m = made + 1
  PROVE  OwnInv'
<1> DEFINE node == [type |-> name, name |-> "", text |-> Unescape(Head(rest).val), kids |-> <<>>]
<1>1. /\ mode = "stream" /\ mode' = "whole"
      /\ UNCHANGED <<given, output, open>>
      /\ Make(node) /\ held' = m
  BY DEF ReadStream, Expects, Shift
<1>2. held = None /\ output = None /\ given = None
  BY <1>1, EmptyHands
<1>3. ToSet(node.kids) = {}
  BY DEF ToSet
<1>4. m \in Nat /\ m \notin DOMAIN heap /\ DOMAIN heap \subseteq Nat
  BY DEF OwnInv
<1> HIDE DEF node
<1>6. DOMAIN heap' = DOMAIN heap \union {m}
  BY <1>1 DEF Make
<1>7. ListsKept /\ open = <<>>
  BY <1>1 DEF OwnInv, ListsKept, InRecord
<1>8. ListsKept'
  BY <1>1, <1>7 DEF ListsKept, Listed, InRecord, ToSet
<1>9. HandsKept'
  BY <1>1, <1>2, <1>6 DEF HandsKept
<1>10. \A i \in DOMAIN heap : Hands(i)' = {} /\ Hands(i) = {}
  BY <1>1, <1>2, <1>4 DEF Hands
<1>11. Hands(m)' = {"held"}
  BY <1>1, <1>2, <1>4 DEF Hands
<1>12. \A i : OpenOwners(i)' = {} /\ OpenOwners(i) = {}
  BY <1>1, <1>7 DEF OpenOwners
<1>13. Owned({}, OpenOwners(m)', Hands(m)')
  BY <1>11, <1>12 DEF Owned
<1>14. \A i \in DOMAIN heap : Owned(HeapOwners(i), OpenOwners(i)', Hands(i)')
  BY <1>1, <1>10, <1>12 DEF OwnInv
<1> QED BY <1>1, <1>3, <1>8, <1>9, <1>13, <1>14, MadeKeeps

\* What was made changes hands.
LEMMA HandOver ==
  ASSUME OwnInv, mode \notin {"accepted", "refused"}, mode' # "refused", UNCHANGED <<heap, made, twice, open>>,
         mode' \notin InRecord, mode \notin InRecord, HandsKept',
         \A i \in DOMAIN heap : \/ Hands(i) = {} /\ Hands(i)' = {}
                                \/ \E p, q : Hands(i) = {p} /\ Hands(i)' = {q}
  PROVE  OwnInv'
<1>1. ListsKept /\ Rooted /\ made \in Nat /\ DOMAIN heap \subseteq 1..made /\ ~ twice
  BY DEF OwnInv
<1>2. ListsKept'
  BY <1>1 DEF ListsKept
<1>3. Rooted'
  BY <1>1 DEF Rooted
<1>4. ASSUME NEW i \in DOMAIN heap PROVE Owned(HeapOwners(i), OpenOwners(i), Hands(i)')
  <2>1. Owned(HeapOwners(i), OpenOwners(i), Hands(i))
    BY DEF OwnInv
  <2> DEFINE A == HeapOwners(i)
             B == OpenOwners(i)
             C == Hands(i)
             H == Hands(i)'
  <2>2. Owned(A, B, C) /\ ((C = {} /\ H = {}) \/ \E p, q : C = {p} /\ H = {q})
    BY <2>1
  <2> HIDE DEF A, B, C, H
  <2>3. Owned(A, B, H)
    <3>1. CASE C = {} /\ H = {}
      BY <2>2, <3>1
    <3>2. CASE \E p, q : C = {p} /\ H = {q}
      <4>1. PICK p, q : C = {p} /\ H = {q}
        BY <3>2
      <4>2. A = {} /\ B = {}
        BY <2>2, <4>1 DEF Owned
      <4>3. Owned({}, {}, {q})
        BY DEF Owned
      <4> QED BY <4>1, <4>2, <4>3
    <3> QED BY <2>2, <3>1, <3>2
  <2> QED BY <2>3 DEF A, B, H
<1>5. \A i \in DOMAIN heap' : Owned(HeapOwners(i)', OpenOwners(i)', Hands(i)')
  BY <1>4 DEF HeapOwners, OpenOwners
<1> QED BY <1>1, <1>2, <1>3, <1>5 DEF OwnInv

\* The stream record, or none, is the driver's.
LEMMA EndOutputKeeps ==
  ASSUME None \notin Nat, OwnInv, EndOutput
  PROVE  OwnInv'
<1>1. /\ mode = "whole" /\ mode' = "end" /\ output' = held /\ held' = None
      /\ UNCHANGED <<heap, made, twice, open, given>>
  BY DEF EndOutput, Shift, NoNode
<1>2. output = None /\ given = None /\ held \in DOMAIN heap \union {None} /\ DOMAIN heap \subseteq Nat
  BY <1>1 DEF OwnInv, HandsKept
<1>3. HandsKept'
  BY <1>1, <1>2 DEF HandsKept
<1>4. ASSUME NEW i \in DOMAIN heap
      PROVE  \/ Hands(i) = {} /\ Hands(i)' = {}
             \/ \E p, q : Hands(i) = {p} /\ Hands(i)' = {q}
  <2>1. i # None
    BY <1>2
  <2>2. CASE i = held
    <3>1. Hands(i) = {"held"} /\ Hands(i)' = {"output"}
      BY <1>1, <1>2, <2>1, <2>2 DEF Hands
    <3> QED BY <3>1
  <2>3. CASE i # held
    BY <1>1, <1>2, <2>1, <2>3 DEF Hands
  <2> QED BY <2>2, <2>3
<1> QED BY <1>1, <1>3, <1>4, HandOver DEF InRecord

\* What was parsed is the caller's.
LEMMA AcceptKeeps ==
  ASSUME None \notin Nat, OwnInv, Accept
  PROVE  OwnInv'
<1>1. /\ mode = "end" /\ mode' = "accepted" /\ given' = output /\ output' = None
      /\ UNCHANGED <<heap, made, twice, open, held>>
  BY DEF Accept, NoNode
<1>2. held = None /\ given = None /\ output \in DOMAIN heap \union {None} /\ DOMAIN heap \subseteq Nat
  BY <1>1 DEF OwnInv, HandsKept
<1>3. HandsKept'
  BY <1>1, <1>2 DEF HandsKept
<1>4. ASSUME NEW i \in DOMAIN heap
      PROVE  \/ Hands(i) = {} /\ Hands(i)' = {}
             \/ \E p, q : Hands(i) = {p} /\ Hands(i)' = {q}
  <2>1. i # None
    BY <1>2
  <2>2. CASE i = output
    <3>1. Hands(i) = {"output"} /\ Hands(i)' = {"given"}
      BY <1>1, <1>2, <2>1, <2>2 DEF Hands
    <3> QED BY <3>1
  <2>3. CASE i # output
    BY <1>1, <1>2, <2>1, <2>3 DEF Hands
  <2> QED BY <2>2, <2>3
<1> QED BY <1>1, <1>3, <1>4, HandOver DEF InRecord

\* What is refused is deleted, as far as it is anyone's.
LEMMA RefuseKeeps ==
  ASSUME None \notin Nat, OwnInv, Refuse
  PROVE  OwnInv'
<1>1. /\ mode \notin {"accepted", "refused"} /\ mode' = "refused" /\ output' = None /\ held' = None
      /\ heap' = Free(heap, output) /\ twice' = (twice \/ (output # None /\ output \notin DOMAIN heap))
      /\ UNCHANGED <<made, given>>
  BY DEF Refuse, Delete
<1>2. given = None /\ output \in DOMAIN heap \union {None} /\ ~ twice
      /\ made \in Nat /\ DOMAIN heap \subseteq 1..made
  BY <1>1 DEF OwnInv, HandsKept
<1>3. DOMAIN heap' \subseteq DOMAIN heap
  BY <1>1 DEF Free
<1>4. HandsKept'
  BY <1>1, <1>2 DEF HandsKept
<1>5. ~ twice'
  BY <1>1, <1>2
<1>6. made' \in Nat /\ DOMAIN heap' \subseteq 1..made'
  BY <1>1, <1>2, <1>3
<1> QED BY <1>1, <1>4, <1>5, <1>6 DEF OwnInv

\* The driver holds nothing any more when it is destroyed.
LEMMA DestroyDriverKeeps ==
  ASSUME None \notin Nat, OwnInv, DestroyDriver
  PROVE  OwnInv'
<1>1. /\ mode \in {"accepted", "refused"} /\ output' = None
      /\ heap' = Free(heap, output) /\ twice' = (twice \/ (output # None /\ output \notin DOMAIN heap))
      /\ UNCHANGED <<made, given, mode, open, held>>
  BY DEF DestroyDriver, Delete, parser
<1>2. output = None /\ DOMAIN heap \subseteq Nat /\ ~ twice
  BY <1>1 DEF OwnInv, HandsKept
<1>3. heap' = heap /\ output' = output
  BY <1>1, <1>2 DEF Free
<1>4. ~ twice'
  BY <1>1, <1>2
<1> QED BY <1>1, <1>3, <1>4 DEF OwnInv, HandsKept, ListsKept, Rooted, HeapOwners, OpenOwners, Hands

\* The caller deletes the record, all of it and nothing else.
LEMMA DeleteRecordKeeps ==
  ASSUME None \notin Nat, OwnInv, DeleteRecord
  PROVE  OwnInv'
<1> DEFINE W == Whole(heap, given)
<1>1. /\ given # None /\ given' = None
      /\ heap' = Free(heap, given) /\ twice' = (twice \/ (given # None /\ given \notin DOMAIN heap))
      /\ UNCHANGED <<made, output, mode, open, held>>
  BY DEF DeleteRecord, Delete, parser
<1>2. /\ mode = "accepted" /\ given \in DOMAIN heap /\ held = None /\ output = None
      /\ made \in Nat /\ DOMAIN heap \subseteq 1..made /\ ~ twice /\ ListsKept /\ Rooted
      /\ \A i \in DOMAIN heap : Owned(HeapOwners(i), OpenOwners(i), Hands(i))
  BY <1>1 DEF OwnInv, HandsKept
<1>3. heap' = [i \in DOMAIN heap \ W |-> heap[i]]
  BY <1>1, <1>2 DEF Free
<1>4. /\ given \in W
      /\ \A k \in DOMAIN heap \intersect W : ToSet(heap[k].kids) \subseteq W
  <2>1. \A i \in DOMAIN heap : ToSet(heap[i].kids) \subseteq DOMAIN heap \intersect (1..(i - 1))
    BY <1>2 DEF Rooted
  <2> QED BY <1>2, <2>1, WholeClosed
<1> HIDE DEF W
<1>5. \A i \in DOMAIN heap \ W : \E k \in DOMAIN heap : i \in ToSet(heap[k].kids)
  <2>1. open = <<>>
    BY <1>2 DEF ListsKept, InRecord
  <2>2. ASSUME NEW i \in DOMAIN heap \ W PROVE \E k \in DOMAIN heap : i \in ToSet(heap[k].kids)
    <3>1. OpenOwners(i) = {}
      BY <2>1 DEF OpenOwners
    <3>2. Hands(i) = {}
      BY <1>2, <1>4 DEF Hands
    <3>3. HeapOwners(i) # {}
      BY <1>2, <3>1, <3>2 DEF Owned
    <3> QED BY <3>3 DEF HeapOwners
  <2> QED BY <2>2
<1>6. DOMAIN heap \subseteq W
  <2>1. \A i \in DOMAIN heap : ToSet(heap[i].kids) \subseteq DOMAIN heap \intersect (1..(i - 1))
    BY <1>2 DEF Rooted
  <2> QED BY <1>2, <1>4, <1>5, <2>1, Reached
<1>7. DOMAIN heap' = {}
  BY <1>3, <1>6
<1>8. ListsKept'
  BY <1>1, <1>2 DEF ListsKept, Listed, InRecord, ToSet
<1>9. HandsKept'
  BY <1>1, <1>2 DEF HandsKept
<1>10. ~ twice'
  BY <1>1, <1>2
<1>11. made' \in Nat /\ Rooted'
  BY <1>1, <1>2, <1>7 DEF Rooted
<1> QED BY <1>7, <1>8, <1>9, <1>10, <1>11 DEF OwnInv
-----------------------------------------------------------------------------
\* A parser begins with nothing.
LEMMA OwnedFirst ==
  ASSUME None \notin Nat, LineInit
  PROVE  OwnInv
<1>1. /\ mode = "start" /\ open = <<>> /\ held = None /\ heap = <<>> /\ made = 0
      /\ output = None /\ given = None /\ ~ twice
  BY DEF LineInit
<1>2. DOMAIN heap = {}
  BY <1>1
<1>3. HandsKept
  BY <1>1 DEF HandsKept
<1>4. ListsKept
  BY <1>1 DEF ListsKept, Listed, InRecord, ToSet
<1> QED BY <1>1, <1>2, <1>3, <1>4 DEF OwnInv, Rooted

\* Every step of the parser, the driver and the caller keeps the invariant.
LEMMA OwnedStep ==
  ASSUME None \notin Nat, OwnInv, [LineNext]_lineVars
  PROVE  OwnInv'
<1> PICK m : m = made + 1
  OBVIOUS
<1>1. ASSUME ReadToken \/ ReadRecordMark \/ ReadComma \/ ReadVariable \/ ReadEqual
             \/ ReadStreamMark \/ ReadPrompt
      PROVE  OwnInv'
  <2>1. /\ UNCHANGED <<heap, made, twice, open, held, output, given>>
        /\ mode \notin {"whole", "end", "accepted", "refused"} /\ mode' # "refused"
        /\ mode \in InRecord <=> mode' \in InRecord
    BY <1>1 DEF ReadToken, ReadRecordMark, ReadComma, ReadVariable, ReadEqual,
                ReadStreamMark, ReadPrompt, Expects, Shift, NoNode, InRecord
  <2> QED BY <2>1, MoveKeeps
<1>2. CASE ReadClass
  <2>1. /\ UNCHANGED <<heap, made, twice, held, output, given>>
        /\ mode = "class" /\ mode' = "after"
        /\ Push(name, Class(name, Head(rest).val))
    BY <1>2 DEF ReadClass, Expects, Shift, NoNode
  <2>2. mode \notin {"whole", "end", "accepted", "refused"} /\ mode' \in InRecord
    BY <2>1 DEF InRecord
  <2> QED BY <2>1, <2>2, PushKeeps
<1>3. CASE OpenList
  <2>1. /\ UNCHANGED <<heap, made, twice, held, output, given>>
        /\ mode \in {"item", "first", "value"} /\ mode' = "first"
        /\ Push(IF At({"{"}) THEN "tuple" ELSE "list", name)
    BY <1>3 DEF OpenList, Expects, Shift, NoNode
  <2>2. mode \notin {"whole", "end", "accepted", "refused"} /\ mode' \in InRecord
    BY <2>1 DEF InRecord
  <2> QED BY <2>1, <2>2, PushKeeps
<1>4. CASE ReadConst
  BY <1>4, ReadConstKeeps
<1>5. CASE CloseList
  BY <1>5, CloseListKeeps
<1>6. CASE EndRecord
  BY <1>6, EndRecordKeeps
<1>7. CASE ReadStream
  BY <1>7, ReadStreamKeeps
<1>8. CASE EndOutput
  BY <1>8, EndOutputKeeps
<1>9. CASE Accept
  BY <1>9, AcceptKeeps
<1>10. CASE Refuse
  BY <1>10, RefuseKeeps
<1>11. CASE DestroyDriver
  BY <1>11, DestroyDriverKeeps
<1>12. CASE DeleteRecord
  BY <1>12, DeleteRecordKeeps
<1>13. CASE UNCHANGED lineVars
  BY <1>13 DEF lineVars, parser, OwnInv, HandsKept, ListsKept, Rooted, HeapOwners, OpenOwners, Hands
<1> QED
  BY <1>1, <1>2, <1>3, <1>4, <1>5, <1>6, <1>7, <1>8, <1>9, <1>10, <1>11, <1>12, <1>13 DEF LineNext, Parse

\* Every node of a record has one owner from the moment it is made until it
\* is deleted, once (see OwnedOnce), for any lines, however deep their lists
\* and wherever they are refused.
THEOREM OwnedOnceCorrect == LineSpec => []OwnedOnce
<1>1. LineInit => OwnInv
  BY OwnedFirst, LinesAssumption
<1>2. OwnInv /\ [LineNext]_lineVars => OwnInv'
  BY OwnedStep, LinesAssumption
<1>3. OwnInv => OwnedOnce
  BY OwnedFits
<1> QED BY <1>1, <1>2, <1>3, PTL DEF LineSpec

\* The state of a line keeps its type.
LineShape ==
  /\ mode \in {"start", "number", "class", "after", "item", "first", "named", "value",
               "stream", "prompt", "paren", "whole", "end", "accepted", "refused"}
  /\ driver \in {"alive", "gone"} /\ twice \in BOOLEAN
  /\ mode = "refused" => open = <<>>

\* Every step keeps the shape.
LEMMA ShapeStep ==
  ASSUME LineShape, [LineNext]_lineVars
  PROVE  LineShape'
<1>1. CASE ReadToken \/ ReadRecordMark \/ ReadClass \/ ReadComma \/ ReadVariable \/ ReadEqual
           \/ OpenList \/ ReadStreamMark \/ ReadPrompt
  BY <1>1 DEF LineShape, ReadToken, ReadRecordMark, ReadClass, ReadComma, ReadVariable, ReadEqual,
              OpenList, ReadStreamMark, ReadPrompt, Expects, Shift, NoNode
<1>2. CASE ReadConst \/ CloseList \/ EndRecord \/ ReadStream \/ EndOutput
  BY <1>2 DEF LineShape, ReadConst, CloseList, EndRecord, ReadStream, EndOutput, Expects, Shift, Make, NoNode
<1>3. CASE Accept \/ UNCHANGED lineVars
  BY <1>3 DEF LineShape, Accept, lineVars, parser, NoNode
<1>4. CASE Refuse \/ DestroyDriver \/ DeleteRecord
  <2>1. twice' \in BOOLEAN
    BY <1>4 DEF LineShape, Refuse, DestroyDriver, DeleteRecord, Delete
  <2>2. mode' \in {mode, "refused"} /\ driver' \in {driver, "gone"} /\ (mode' = "refused" => open' = <<>>)
    BY <1>4 DEF LineShape, Refuse, DestroyDriver, DeleteRecord, parser
  <2> QED BY <2>1, <2>2 DEF LineShape
<1> QED BY <1>1, <1>2, <1>3, <1>4 DEF LineNext, Parse

\* The state of MiOutput keeps its type.
THEOREM LineTypeCorrect == LineSpec => []LineTypeOK
<1>1. LineInit => OwnInv /\ LineShape
  BY OwnedFirst, LinesAssumption DEF LineInit, LineShape
<1>2. OwnInv /\ LineShape /\ [LineNext]_lineVars => OwnInv' /\ LineShape'
  BY OwnedStep, ShapeStep, LinesAssumption
<1>3. OwnInv /\ LineShape => LineTypeOK
  <2> SUFFICES ASSUME OwnInv, LineShape PROVE LineTypeOK
    OBVIOUS
  <2>1. \A k \in DOMAIN open : open[k].kids \in Seq(DOMAIN heap)
    <3>1. CASE mode = "refused"
      BY <3>1 DEF LineShape
    <3>2. CASE mode # "refused"
      BY <3>2 DEF OwnInv, ListsKept, Listed
    <3> QED BY <3>1, <3>2
  <2>2. made \in Nat /\ DOMAIN heap \subseteq 1..made /\ HandsKept
    BY DEF OwnInv
  <2>3. {held, output, given} \subseteq DOMAIN heap \union {None}
    BY <2>2 DEF HandsKept
  <2> QED BY <2>1, <2>2, <2>3 DEF LineShape, LineTypeOK
<1> QED BY <1>1, <1>2, <1>3, PTL DEF LineSpec

\* A line that was accepted and whose record was deleted leaves no node
\* behind, nor does a prompt, for any lines (GdbMiDriver, deleteResultRecord).
THEOREM NothingLeft == LineSpec => [](mode = "accepted" /\ given = None => DOMAIN heap = {})
<1>1. OwnInv => (mode = "accepted" /\ given = None => DOMAIN heap = {})
  <2> SUFFICES ASSUME OwnInv, mode = "accepted", given = None PROVE DOMAIN heap \subseteq {}
    OBVIOUS
  <2>1. held = None /\ output = None /\ open = <<>> /\ made \in Nat /\ DOMAIN heap \subseteq 1..made
    BY DEF OwnInv, HandsKept, ListsKept, InRecord
  <2>2. \A i \in DOMAIN heap : ToSet(heap[i].kids) \subseteq DOMAIN heap \intersect (1..(i - 1))
    BY DEF OwnInv, Rooted
  <2>3. ASSUME NEW i \in DOMAIN heap PROVE \E k \in DOMAIN heap : i \in ToSet(heap[k].kids)
    <3>1. OpenOwners(i) = {} /\ Hands(i) = {}
      BY <2>1, LinesAssumption DEF OpenOwners, Hands
    <3>2. Owned(HeapOwners(i), OpenOwners(i), Hands(i))
      BY DEF OwnInv
    <3>3. HeapOwners(i) # {}
      BY <3>1, <3>2 DEF Owned
    <3> QED BY <3>3 DEF HeapOwners
  <2> DEFINE W == {}
             h == heap
  <2>4. /\ made \in Nat /\ DOMAIN h \subseteq 1..made
        /\ \A i \in DOMAIN h : ToSet(h[i].kids) \subseteq DOMAIN h \intersect (1..(i - 1))
        /\ \A k \in DOMAIN h \intersect W : ToSet(h[k].kids) \subseteq W
        /\ \A i \in DOMAIN h \ W : \E k \in DOMAIN h : i \in ToSet(h[k].kids)
    BY <2>1, <2>2, <2>3
  <2> HIDE DEF W, h
  <2>5. DOMAIN h \subseteq W
    BY <2>4, Reached
  <2> QED BY <2>5 DEF W, h
<1>2. LineInit => OwnInv
  BY OwnedFirst, LinesAssumption
<1>3. OwnInv /\ [LineNext]_lineVars => OwnInv'
  BY OwnedStep, LinesAssumption
<1> QED BY <1>1, <1>2, <1>3, PTL DEF LineSpec
-----------------------------------------------------------------------------
(* What gdb printed is read back.  First, quoted texts: both functions go  *)
(* through a text from its end.                                            *)

\* A function on the places of a text and the one after it, made from its end
FromEnd(X, base, k, F) ==
  \E f \in [1..k + 1 -> X] : f[k + 1] = base /\ \A i \in 1..k : f[i] = F[<<i, f[i + 1]>>]

\* Such a function exists: it is one computed step by step, turned round.
LEMMA Backward ==
  ASSUME NEW X, NEW base, NEW k, NEW F, Steps(X, base, k, F)
  PROVE  FromEnd(X, base, k, F)
<1> DEFINE G == [z \in (1..k) \X X |-> F[<<k + 1 - z[1], z[2]>>]]
<1>0. base \in X /\ k \in Nat /\ \A i \in 1..k, x \in X : F[<<i, x>>] \in X
  BY DEF Steps
<1>1. ASSUME NEW n \in 1..k, NEW x \in X
      PROVE  G[<<n, x>>] = F[<<k + 1 - n, x>>] /\ k + 1 - n \in 1..k
  <2>1. k + 1 - n \in 1..k
    BY <1>0
  <2>2. <<n, x>> \in (1..k) \X X
    OBVIOUS
  <2>3. G[<<n, x>>] = F[<<k + 1 - n, x>>]
    BY <2>2
  <2> QED BY <2>1, <2>3
<1> HIDE DEF G
<1>2. Steps(X, base, k, G)
  BY <1>0, <1>1 DEF Steps
<1>3. PICK h \in [0..k -> X] : h[0] = base /\ \A n \in 1..k : h[n] = G[<<n, h[n - 1]>>]
  BY <1>2, Stepwise DEF Defines
<1> DEFINE f == [i \in 1..k + 1 |-> h[k + 1 - i]]
<1>4. \A i \in 1..k + 1 : k + 1 - i \in 0..k /\ f[i] = h[k + 1 - i]
  BY <1>0
<1>5. f \in [1..k + 1 -> X]
  <2>1. \A i \in 1..k + 1 : h[k + 1 - i] \in X
    BY <1>4
  <2> QED BY <2>1
<1>6. f[k + 1] = base
  <2>1. k + 1 \in 1..k + 1 /\ k + 1 - (k + 1) = 0
    BY <1>0
  <2> HIDE DEF f
  <2> QED BY <1>3, <1>4, <2>1
<1>7. ASSUME NEW i \in 1..k PROVE f[i] = F[<<i, f[i + 1]>>]
  <2>1. /\ i \in 1..k + 1 /\ i + 1 \in 1..k + 1 /\ k + 1 - i \in 1..k
        /\ k + 1 - (k + 1 - i) = i /\ k + 1 - (i + 1) = (k + 1 - i) - 1 /\ (k + 1 - i) - 1 \in 0..k
    BY <1>0
  <2> HIDE DEF f
  <2>2. f[i] = h[k + 1 - i] /\ f[i + 1] = h[(k + 1 - i) - 1]
    BY <1>4, <2>1
  <2>3. h[k + 1 - i] = G[<<k + 1 - i, h[(k + 1 - i) - 1]>>]
    BY <1>3, <2>1
  <2>4. h[(k + 1 - i) - 1] \in X
    BY <2>1
  <2>5. G[<<k + 1 - i, f[i + 1]>>] = F[<<i, f[i + 1]>>]
    BY <1>1, <2>1, <2>2, <2>4
  <2> QED BY <2>2, <2>3, <2>5
<1> HIDE DEF f
<1> QED BY <1>5, <1>6, <1>7 DEF FromEnd

\* The function Quoted is computed with
QuotedFrom(s) ==
  LET From[i \in 1..Len(s) + 1] == IF i > Len(s) THEN <<>> ELSE Quote(s[i]) \o From[i + 1]
  IN From

\* The characters of texts and of their quotes
Alphabet ==
  STRING \union {"backslash"} \union {Letters[c] : c \in DOMAIN Letters}
         \union {Escapes[c] : c \in DOMAIN Escapes}

\* Two elements in a row
LEMMA Pair == ASSUME NEW S, NEW x \in S, NEW y \in S PROVE <<x, y>> \in Seq(S)
OBVIOUS

\* A printable character is quoted as an escape that stands for it, or as itself.
LEMMA QuoteKinds ==
  ASSUME NEW c, c \notin DOMAIN Octal
  PROVE  \/ /\ c \in DOMAIN Letters /\ Quote(c) = <<"backslash", Letters[c]>>
            /\ Letters[c] \in DOMAIN Escapes /\ Escapes[Letters[c]] = c
            /\ Letters[c] \in Alphabet
         \/ c # "backslash" /\ Quote(c) = <<c>>
<1>1. CASE c \in DOMAIN Letters
  <2>1. Quote(c) = <<"backslash", Letters[c]>>
    BY <1>1 DEF Quote
  <2>2. DOMAIN Letters = {"LF", "BS", "TAB", "FF", "CR", "ESC", "BEL", "quote", "backslash"}
    BY DEF Letters
  <2>3. DOMAIN Escapes = {"n", "b", "t", "f", "r", "e", "a", "quote", "backslash"}
    BY DEF Escapes
  <2>4. Letters[c] \in DOMAIN Escapes /\ Letters[c] \in Alphabet
    <3>1. Letters[c] \in Alphabet
      BY <1>1 DEF Alphabet
    <3>2. Letters[c] \in DOMAIN Escapes
      BY <1>1, <2>2, <2>3 DEF Letters
    <3> QED BY <3>1, <3>2
  <2>5. Escapes[Letters[c]] = c
    BY <1>1, <2>2 DEF Letters, Escapes
  <2> QED BY <1>1, <2>1, <2>4, <2>5
<1>2. CASE c \notin DOMAIN Letters
  <2>1. "backslash" \in DOMAIN Letters
    BY DEF Letters
  <2> QED BY <1>2, <2>1 DEF Quote
<1> QED BY <1>1, <1>2

\* Quoted is computed character by character, from the end.
LEMMA QuotedStep ==
  ASSUME NEW s \in Seq(Alphabet), Plain(s)
  PROVE  /\ QuotedFrom(s) \in [1..Len(s) + 1 -> Seq(Alphabet)]
         /\ Quoted(s) = QuotedFrom(s)[1]
         /\ QuotedFrom(s)[Len(s) + 1] = <<>>
         /\ \A i \in 1..Len(s) : QuotedFrom(s)[i] = Quote(s[i]) \o QuotedFrom(s)[i + 1]
<1> DEFINE k == Len(s)
           X == Seq(Alphabet)
           F == [z \in (1..k) \X X |-> Quote(s[z[1]]) \o z[2]]
           Is(g) == g = [i \in 1..k + 1 |-> IF i > k THEN <<>> ELSE Quote(s[i]) \o g[i + 1]]
           f == QuotedFrom(s)
<1>1. k \in Nat /\ <<>> \in X
  OBVIOUS
<1>2. ASSUME NEW i \in 1..k, NEW x \in X PROVE F[<<i, x>>] = Quote(s[i]) \o x /\ F[<<i, x>>] \in X
  <2>1. s[i] \in Alphabet /\ s[i] \notin DOMAIN Octal
    BY DEF Plain, ToSet
  <2>2. Quote(s[i]) \in Seq(Alphabet)
    <3>1. CASE Quote(s[i]) = <<s[i]>>
      BY <2>1, <3>1
    <3>2. CASE Letters[s[i]] \in Alphabet /\ Quote(s[i]) = <<"backslash", Letters[s[i]]>>
      <4>1. "backslash" \in Alphabet
        BY DEF Alphabet
      <4> QED BY <3>2, <4>1, Pair, Zenon
    <3> QED BY <2>1, <3>1, <3>2, QuoteKinds
  <2>3. F[<<i, x>>] = Quote(s[i]) \o x
    <3>1. <<i, x>> \in (1..k) \X X
      OBVIOUS
    <3> QED BY <3>1
  <2>4. Quote(s[i]) \o x \in Seq(Alphabet)
    BY <2>2, ConcatProperties
  <2> QED BY <2>3, <2>4
<1>3. \E g : g \in [1..k + 1 -> X] /\ Is(g)
  <2> HIDE DEF k, X, F
  <2>1. PICK g \in [1..k + 1 -> X] : g[k + 1] = <<>> /\ \A i \in 1..k : g[i] = F[<<i, g[i + 1]>>]
    <3>1. Steps(X, <<>>, k, F)
      BY <1>1, <1>2 DEF Steps
    <3>2. FromEnd(X, <<>>, k, F)
      BY <3>1, Backward
    <3> QED BY <3>2 DEF FromEnd
  <2>2. ASSUME NEW i \in 1..k + 1 PROVE g[i] = IF i > k THEN <<>> ELSE Quote(s[i]) \o g[i + 1]
    <3>1. CASE i > k
      <4>1. i = k + 1
        BY <1>1, <3>1
      <4> QED BY <2>1, <3>1, <4>1
    <3>2. CASE ~ (i > k)
      <4>1. i \in 1..k /\ i + 1 \in 1..k + 1
        BY <1>1, <3>2
      <4> QED BY <1>2, <2>1, <3>2, <4>1
    <3> QED BY <3>1, <3>2
  <2>3. Is(g)
    BY <2>2
  <2> QED BY <2>3
<1>4. f = CHOOSE g : Is(g)
  BY DEF QuotedFrom
<1>5. Is(f)
  <2> HIDE DEF Is, f
  <2> QED BY <1>3, <1>4
<1>6. Quoted(s) = f[1]
  BY DEF Quoted, QuotedFrom
<1>7. f[k + 1] = <<>> /\ \A i \in 1..k : f[i] = Quote(s[i]) \o f[i + 1]
  <2> HIDE DEF f, k
  <2>1. k + 1 \in 1..k + 1 /\ k + 1 > k /\ \A i \in 1..k : i \in 1..k + 1 /\ ~ (i > k)
    BY <1>1
  <2> QED BY <1>5, <2>1
<1>8. \A i \in 1..k + 1 : f[i] \in X
  <2> DEFINE T == {n \in 0..k : f[k + 1 - n] \in X}
  <2> HIDE DEF f, k, F, X
  <2>1. 0 \in T
    <3>1. 0 \in 0..k /\ k + 1 - 0 = k + 1
      BY <1>1
    <3> QED BY <1>1, <1>7, <3>1
  <2>2. ASSUME NEW n \in 1..k, n - 1 \in T PROVE n \in T
    <3>1. /\ n \in 0..k /\ k + 1 - n \in 1..k /\ (k + 1 - n) + 1 = k + 1 - (n - 1)
      BY <1>1
    <3>2. f[(k + 1 - n) + 1] \in X
      BY <2>2, <3>1
    <3>3. f[k + 1 - n] = Quote(s[k + 1 - n]) \o f[(k + 1 - n) + 1]
      BY <1>7, <3>1
    <3> QED BY <1>2, <3>1, <3>2, <3>3
  <2> HIDE DEF T
  <2>3. 0..k \subseteq T
    BY <1>1, <2>1, <2>2, UpTo
  <2>4. ASSUME NEW i \in 1..k + 1 PROVE f[i] \in X
    <3>1. k + 1 - i \in 0..k /\ k + 1 - (k + 1 - i) = i
      BY <1>1
    <3> QED BY <2>3, <3>1 DEF T
  <2> QED BY <2>4
<1>9. f \in [1..k + 1 -> X]
  <2>1. f = [i \in 1..k + 1 |-> f[i]]
    <3> HIDE DEF f, k, F, X
    <3> QED BY <1>5
  <2> HIDE DEF f, k, F, X
  <2> QED BY <1>8, <2>1
<1> QED BY <1>6, <1>7, <1>9
-----------------------------------------------------------------------------
\* The function Unescape is computed with
UnescapedFrom(s) ==
  LET From[i \in 1..Len(s) + 1] ==
        IF i > Len(s) THEN <<>>
        ELSE IF s[i] = "backslash" /\ i < Len(s) /\ s[i + 1] \in DOMAIN Escapes
             THEN <<Escapes[s[i + 1]]>> \o From[i + 2]
             ELSE <<s[i]>> \o From[i + 1]
  IN  From

Escaping(s, i) == s[i] = "backslash" /\ i < Len(s) /\ s[i + 1] \in DOMAIN Escapes

\* Unescape is computed from the end, an escape at a time.
LEMMA UnescapeStep ==
  ASSUME NEW s \in Seq(Alphabet)
  PROVE  /\ Unescape(s) = UnescapedFrom(s)[1]
         /\ UnescapedFrom(s)[Len(s) + 1] = <<>>
         /\ \A i \in 1..Len(s) :
              UnescapedFrom(s)[i] = IF Escaping(s, i) THEN <<Escapes[s[i + 1]]>> \o UnescapedFrom(s)[i + 2]
                                                      ELSE <<s[i]>> \o UnescapedFrom(s)[i + 1]
<1> DEFINE k == Len(s)
           X == Seq(Alphabet)
           One(i, x) == IF Escaping(s, i) THEN <<Escapes[s[i + 1]]>> \o x[2] ELSE <<s[i]>> \o x[1]
           F == [z \in (1..k) \X (X \X X) |-> <<One(z[1], z[2]), z[2][1]>>]
           Read(g, i) == IF Escaping(s, i) THEN <<Escapes[s[i + 1]]>> \o g[i + 2] ELSE <<s[i]>> \o g[i + 1]
           Is(g) == g = [i \in 1..k + 1 |-> IF i > k THEN <<>> ELSE Read(g, i)]
           f == UnescapedFrom(s)
<1>1. k \in Nat /\ <<>> \in X /\ <<<<>>, <<>>>> \in X \X X
  <2>1. <<>> \in X
    OBVIOUS
  <2> HIDE DEF X
  <2>2. <<<<>>, <<>>>> \in X \X X
    BY <2>1
  <2> QED BY <2>1, <2>2
<1>2. ASSUME NEW i \in 1..k, NEW x \in X \X X
      PROVE  /\ F[<<i, x>>] \in X \X X
             /\ F[<<i, x>>][1] = One(i, x) /\ F[<<i, x>>][2] = x[1]
  <2>1. s[i] \in Alphabet
    OBVIOUS
  <2>2. x[1] \in X /\ x[2] \in X
    OBVIOUS
  <2>3. One(i, x) \in X
    <3>1. CASE Escaping(s, i)
      <4>1. Escapes[s[i + 1]] \in Alphabet
        BY <3>1 DEF Escaping, Alphabet
      <4>2. One(i, x) = <<Escapes[s[i + 1]]>> \o x[2]
        BY <3>1
      <4> DEFINE c == Escapes[s[i + 1]]
      <4> HIDE DEF c, One
      <4>3. <<c>> \in Seq(Alphabet)
        BY <4>1 DEF c
      <4> QED BY <2>2, <4>2, <4>3, ConcatProperties DEF c
    <3>2. CASE ~ Escaping(s, i)
      <4>1. One(i, x) = <<s[i]>> \o x[1] /\ <<s[i]>> \in Seq(Alphabet)
        BY <2>1, <3>2
      <4> HIDE DEF One
      <4> QED BY <2>2, <4>1, ConcatProperties
    <3> QED BY <3>1, <3>2
  <2>4. F[<<i, x>>] = <<One(i, x), x[1]>>
    <3>1. <<i, x>> \in (1..k) \X (X \X X)
      OBVIOUS
    <3> QED BY <3>1
  <2> HIDE DEF One, F, X
  <2> QED BY <2>2, <2>3, <2>4
<1>3. \E g : Is(g)
  <2> HIDE DEF k, X, F
  <2>1. PICK h \in [1..k + 1 -> X \X X] : h[k + 1] = <<<<>>, <<>>>> /\ \A i \in 1..k : h[i] = F[<<i, h[i + 1]>>]
    <3>1. Steps(X \X X, <<<<>>, <<>>>>, k, F)
      BY <1>1, <1>2 DEF Steps
    <3>2. FromEnd(X \X X, <<<<>>, <<>>>>, k, F)
      BY <3>1, Backward
    <3> QED BY <3>2 DEF FromEnd
  <2> DEFINE g == [i \in 1..k + 1 |-> h[i][1]]
  <2>2. ASSUME NEW i \in 1..k PROVE g[i] = One(i, h[i + 1]) /\ h[i][2] = g[i + 1] /\ h[i + 1][1] = g[i + 1]
    <3>1. i \in 1..k + 1 /\ i + 1 \in 1..k + 1 /\ h[i + 1] \in X \X X
      BY <1>1
    <3> HIDE DEF One
    <3>2. h[i] = F[<<i, h[i + 1]>>] /\ g[i] = h[i][1] /\ g[i + 1] = h[i + 1][1]
      BY <2>1, <3>1
    <3> HIDE DEF g
    <3> QED BY <1>2, <3>1, <3>2
  <2>3. ASSUME NEW i \in 1..k PROVE g[i] = Read(g, i)
    <3> HIDE DEF g
    <3>1. CASE Escaping(s, i)
      <4>1. i + 1 \in 1..k /\ (i + 1) + 1 = i + 2
        BY <1>1, <3>1 DEF Escaping, k
      <4>2. h[i + 1][2] = g[i + 2]
        BY <2>2, <4>1
      <4> QED BY <2>2, <3>1, <4>2
    <3>2. CASE ~ Escaping(s, i)
      BY <2>2, <3>2
    <3> QED BY <3>1, <3>2
  <2>4. g[k + 1] = <<>>
    <3>1. k + 1 \in 1..k + 1
      BY <1>1
    <3> QED BY <2>1, <3>1
  <2>5. g = [i \in 1..k + 1 |-> g[i]]
    OBVIOUS
  <2>6. ASSUME NEW i \in 1..k + 1 PROVE g[i] = IF i > k THEN <<>> ELSE Read(g, i)
    <3> HIDE DEF g, Read
    <3>1. (i = k + 1 /\ i > k) \/ (i \in 1..k /\ ~ (i > k))
      BY <1>1
    <3> QED BY <2>3, <2>4, <3>1
  <2> HIDE DEF g, Read
  <2>7. Is(g)
    BY <2>5, <2>6
  <2> QED BY <2>7
<1>4. f = CHOOSE g : Is(g)
  BY DEF UnescapedFrom, Escaping
<1>5. Is(f)
  <2> HIDE DEF Is, f
  <2> QED BY <1>3, <1>4
<1>6. Unescape(s) = f[1]
  BY DEF Unescape, UnescapedFrom
<1>7. f[k + 1] = <<>> /\ \A i \in 1..k : f[i] = Read(f, i)
  <2> HIDE DEF f, k, Read
  <2>1. k + 1 \in 1..k + 1 /\ k + 1 > k /\ \A i \in 1..k : i \in 1..k + 1 /\ ~ (i > k)
    BY <1>1
  <2> QED BY <1>5, <2>1
<1> QED BY <1>6, <1>7

\* The lengths of a character's quote
LEMMA OneOrTwo ==
  ASSUME NEW c, c = 1 \/ c = 2
  PROVE  c \in 1..2 /\ c \in Nat /\ 1 \in 1..c /\ (c = 2 => 2 \in 1..c)
<1>1. CASE c = 1
  BY <1>1
<1>2. CASE c = 2
  BY <1>2
<1> QED BY <1>1, <1>2

\* A text from a place on is the character there and the text behind it.
LEMMA TailOfText ==
  ASSUME NEW S, NEW s \in Seq(S), NEW k \in Nat, k = Len(s), NEW j \in 1..k
  PROVE  SubSeq(s, j, k) = <<s[j]>> \o SubSeq(s, j + 1, k)
OBVIOUS

\* Unescaping a quoted text gives it back (GdbMiDriver::unescapeString).
THEOREM Unquoted ==
  ASSUME NEW s \in Seq(Alphabet), Plain(s)
  PROVE  Unescape(Quoted(s)) = s
<1> DEFINE k == Len(s)
           q == QuotedFrom(s)
           e == Quoted(s)
           u == UnescapedFrom(e)
<1>1. /\ q \in [1..k + 1 -> Seq(Alphabet)] /\ e = q[1] /\ q[k + 1] = <<>>
      /\ \A i \in 1..k : q[i] = Quote(s[i]) \o q[i + 1]
  BY QuotedStep
<1>2. k \in Nat /\ e \in Seq(Alphabet) /\ Len(e) \in Nat
  BY <1>1
<1>3. /\ Unescape(e) = u[1] /\ u[Len(e) + 1] = <<>>
      /\ \A i \in 1..Len(e) : u[i] = IF Escaping(e, i) THEN <<Escapes[e[i + 1]]>> \o u[i + 2]
                                                       ELSE <<e[i]>> \o u[i + 1]
  <2> HIDE DEF e
  <2> QED BY <1>2, UnescapeStep
<1> HIDE DEF q, e, u
<1> DEFINE w(i) == Quote(s[i])
           p(i) == Len(e) - Len(q[i])
<1>4. ASSUME NEW i \in 1..k
      PROVE  /\ Len(q[i]) = Len(w(i)) + Len(q[i + 1]) /\ Len(q[i]) \in Nat /\ Len(q[i + 1]) \in Nat
             /\ \A m \in 1..Len(w(i)) : q[i][m] = w(i)[m]
             /\ \A m \in 1..Len(q[i + 1]) : q[i][Len(w(i)) + m] = q[i + 1][m]
             /\ \/ /\ Len(w(i)) = 2 /\ w(i)[1] = "backslash" /\ w(i)[2] \in DOMAIN Escapes
                   /\ Escapes[w(i)[2]] = s[i]
                \/ Len(w(i)) = 1 /\ w(i)[1] = s[i] /\ s[i] # "backslash"
  <2>1. i + 1 \in 1..k + 1 /\ i \in 1..k + 1 /\ q[i] \in Seq(Alphabet) /\ q[i + 1] \in Seq(Alphabet)
    <3>1. i + 1 \in 1..k + 1 /\ i \in 1..k + 1
      BY <1>2
    <3> QED BY <1>1, <3>1
  <2>2. s[i] \in Alphabet /\ s[i] \notin DOMAIN Octal
    BY DEF Plain, ToSet
  <2>3. \/ /\ w(i) = <<"backslash", Letters[s[i]]>> /\ Letters[s[i]] \in Alphabet
           /\ Letters[s[i]] \in DOMAIN Escapes /\ Escapes[Letters[s[i]]] = s[i]
        \/ s[i] # "backslash" /\ w(i) = <<s[i]>>
    BY <2>2, QuoteKinds
  <2> HIDE DEF w
  <2>4. w(i) \in Seq(Alphabet)
    <3>1. "backslash" \in Alphabet
      BY DEF Alphabet
    <3>2. <<s[i]>> \in Seq(Alphabet)
      BY <2>2
    <3> QED BY <2>3, <3>1, <3>2, Pair, Zenon
  <2>5. q[i] = w(i) \o q[i + 1]
    BY <1>1 DEF w
  <2>6. /\ Len(w(i)) \in Nat /\ Len(q[i + 1]) \in Nat /\ Len(q[i]) = Len(w(i)) + Len(q[i + 1])
        /\ \A m \in 1..Len(w(i)) + Len(q[i + 1]) :
              q[i][m] = IF m <= Len(w(i)) THEN w(i)[m] ELSE q[i + 1][m - Len(w(i))]
    BY <2>1, <2>4, <2>5, ConcatProperties
  <2>7. \A m \in 1..Len(w(i)) : q[i][m] = w(i)[m]
    BY <2>6
  <2>8. ASSUME NEW m \in 1..Len(q[i + 1]) PROVE q[i][Len(w(i)) + m] = q[i + 1][m]
    <3>1. /\ Len(w(i)) + m \in 1..Len(w(i)) + Len(q[i + 1]) /\ ~ (Len(w(i)) + m <= Len(w(i)))
          /\ (Len(w(i)) + m) - Len(w(i)) = m
      BY <2>6
    <3> QED BY <2>6, <3>1
  <2>9. \/ /\ Len(w(i)) = 2 /\ w(i)[1] = "backslash" /\ w(i)[2] \in DOMAIN Escapes
           /\ Escapes[w(i)[2]] = s[i]
        \/ Len(w(i)) = 1 /\ w(i)[1] = s[i] /\ s[i] # "backslash"
    BY <2>3
  <2> QED BY <2>6, <2>7, <2>8, <2>9
<1>5. ASSUME NEW i \in 1..k + 1
      PROVE  /\ Len(q[i]) \in Nat /\ p(i) \in Nat
             /\ \A m \in 1..Len(q[i]) : e[p(i) + m] = q[i][m]
  <2> DEFINE Fits(j) == Len(q[j]) <= Len(e) /\ \A m \in 1..Len(q[j]) : e[p(j) + m] = q[j][m]
             T == {n \in 0..k : Fits(n + 1)}
  <2>1. 0 \in T
    <3>1. Fits(1)
      BY <1>1, <1>2
    <3>2. 0 \in 0..k /\ 0 + 1 = 1
      BY <1>2
    <3> HIDE DEF Fits
    <3> QED BY <3>1, <3>2
  <2>2. ASSUME NEW n \in 1..k, n - 1 \in T PROVE n \in T
    <3>1. Fits(n)
      <4>1. (n - 1) + 1 = n
        OBVIOUS
      <4> HIDE DEF Fits
      <4> QED BY <2>2, <4>1
    <3> HIDE DEF w
    <3>2. Len(q[n + 1]) <= Len(e)
      BY <1>2, <1>4, <3>1
    <3>3. ASSUME NEW m \in 1..Len(q[n + 1]) PROVE e[p(n + 1) + m] = q[n + 1][m]
      <4>1. /\ Len(w(n)) \in Nat /\ Len(q[n + 1]) \in Nat /\ Len(q[n]) \in Nat
            /\ Len(q[n]) = Len(w(n)) + Len(q[n + 1])
            /\ q[n][Len(w(n)) + m] = q[n + 1][m]
        BY <1>4
      <4>2. Len(w(n)) + m \in 1..Len(q[n]) /\ p(n) + (Len(w(n)) + m) = p(n + 1) + m
        BY <1>2, <4>1
      <4> HIDE DEF p
      <4> QED BY <3>1, <4>1, <4>2
    <3>4. Fits(n + 1)
      BY <3>2, <3>3
    <3> HIDE DEF Fits
    <3>5. n \in 0..k
      BY <1>2
    <3> QED BY <3>4, <3>5
  <2> HIDE DEF T, Fits
  <2>3. 0..k \subseteq T
    BY <1>2, <2>1, <2>2, UpTo
  <2>4. i - 1 \in 0..k /\ (i - 1) + 1 = i
    BY <1>2
  <2>5. Fits(i)
    BY <2>3, <2>4 DEF T
  <2>6. Len(q[i]) \in Nat /\ Len(q[i]) <= Len(e)
    <3>1. q[i] \in Seq(Alphabet)
      BY <1>1
    <3> QED BY <2>5, <3>1 DEF Fits
  <2>7. p(i) \in Nat
    BY <1>2, <2>6
  <2>8. \A m \in 1..Len(q[i]) : e[p(i) + m] = q[i][m]
    BY <2>5 DEF Fits
  <2> HIDE DEF p, Fits
  <2> QED BY <2>6, <2>7, <2>8
<1>6. ASSUME NEW i \in 1..k + 1 PROVE u[p(i) + 1] = SubSeq(s, i, k)
  <2> DEFINE T == {n \in 0..k : u[p(k + 1 - n) + 1] = SubSeq(s, k + 1 - n, k)}
  <2>1. 0 \in T
    <3>1. 0 \in 0..k /\ k + 1 - 0 = k + 1 /\ SubSeq(s, k + 1, k) = <<>>
      BY <1>2
    <3>2. p(k + 1) + 1 = Len(e) + 1
      <4>1. Len(q[k + 1]) = 0
        BY <1>1
      <4> QED BY <1>2, <4>1
    <3> HIDE DEF p
    <3> QED BY <1>3, <3>1, <3>2
  <2>2. ASSUME NEW n \in 1..k, n - 1 \in T PROVE n \in T
    <3> PICK j : j = k + 1 - n
      OBVIOUS
    <3>1. j \in 1..k /\ j + 1 = k + 1 - (n - 1) /\ j + 1 \in 1..k + 1 /\ j \in 1..k + 1 /\ n \in 0..k
      BY <1>2
    <3>2. u[p(j + 1) + 1] = SubSeq(s, j + 1, k)
      BY <2>2, <3>1
    <3> HIDE DEF w
    <3> PICK c, v : c = Len(w(j)) /\ v = w(j)
      OBVIOUS
    <3>3. /\ Len(q[j]) = c + Len(q[j + 1]) /\ Len(q[j]) \in Nat /\ Len(q[j + 1]) \in Nat
          /\ \A m \in 1..c : q[j][m] = v[m]
          /\ \/ /\ c = 2 /\ v[1] = "backslash" /\ v[2] \in DOMAIN Escapes
                /\ Escapes[v[2]] = s[j]
             \/ c = 1 /\ v[1] = s[j] /\ s[j] # "backslash"
      BY <1>4, <3>1
    <3> HIDE DEF w
    <3>4. p(j) \in Nat /\ \A m \in 1..Len(q[j]) : e[p(j) + m] = q[j][m]
      <4> HIDE DEF p
      <4> QED BY <1>5, <3>1
    <3>b. c = 1 \/ c = 2
      BY <3>3
    <3>a. c \in Nat /\ 1 \in 1..c /\ (c = 2 => 2 \in 1..c)
      BY <3>b, OneOrTwo
    <3>5. p(j + 1) = p(j) + c /\ p(j) + c <= Len(e)
      BY <1>2, <3>3, <3>4, <3>a
    <3> HIDE DEF p
    <3>6. \A m \in 1..c : e[p(j) + m] = v[m]
      <4>1. \A m \in 1..c : m \in 1..Len(q[j])
        <5>1. Len(q[j]) = c + Len(q[j + 1]) /\ Len(q[j]) \in Nat /\ Len(q[j + 1]) \in Nat
          BY <3>3
        <5> PICK b, z : b = Len(q[j]) /\ z = Len(q[j + 1])
          OBVIOUS
        <5>2. c \in Nat /\ b \in Nat /\ z \in Nat /\ b = c + z
          BY <3>a, <5>1
        <5>3. \A m \in 1..c : m \in 1..b
          BY ONLY <5>2
        <5> QED BY <5>3
      <4> QED BY <3>3, <3>4, <4>1
    <3>7. SubSeq(s, j, k) = <<s[j]>> \o SubSeq(s, j + 1, k)
      <4>1. s[j] \in Alphabet /\ k \in Nat /\ j \in 1..k
        BY <1>2, <3>1
      <4> QED BY <4>1, TailOfText
    <3> DEFINE a == p(j) + 1
    <3>8. a \in 1..Len(e) /\ e[a] = v[1]
      <4>1. a \in 1..Len(e)
        BY <1>2, <3>4, <3>5, <3>a
      <4> QED BY <3>6, <3>a, <4>1
    <3>9. u[a] = SubSeq(s, j, k)
      <4>1. CASE /\ c = 2 /\ v[1] = "backslash" /\ v[2] \in DOMAIN Escapes
                 /\ Escapes[v[2]] = s[j]
        <5>1. a < Len(e) /\ a + 1 = p(j) + 2 /\ a + 2 = p(j + 1) + 1 /\ 2 \in 1..c
          <6>1. c = 2 /\ 2 \in 1..c /\ p(j) \in Nat /\ Len(e) \in Nat
            BY <1>2, <3>4, <3>a, <4>1
          <6> HIDE DEF k
          <6>2. p(j + 1) = p(j) + 2 /\ p(j) + 2 <= Len(e)
            BY <3>5, <6>1
          <6> QED BY <6>1, <6>2
        <5> HIDE DEF a
        <5>2. e[a + 1] = v[2]
          BY <3>6, <5>1
        <5>3. Escaping(e, a)
          BY <3>8, <4>1, <5>1, <5>2 DEF Escaping
        <5>4. u[a] = <<Escapes[e[a + 1]]>> \o u[a + 2]
          BY <1>3, <3>8, <5>3
        <5> QED BY <3>2, <3>7, <4>1, <5>1, <5>2, <5>4
      <4>2. CASE c = 1 /\ v[1] = s[j] /\ s[j] # "backslash"
        <5>1. a + 1 = p(j + 1) + 1
          BY <3>4, <3>5, <4>2
        <5> HIDE DEF a
        <5>2. ~ Escaping(e, a) /\ e[a] = s[j]
          BY <3>8, <4>2 DEF Escaping
        <5>3. u[a] = <<e[a]>> \o u[a + 1]
          BY <1>3, <3>8, <5>2
        <5> QED BY <3>2, <3>7, <5>1, <5>2, <5>3
      <4> HIDE DEF a
      <4> QED BY <3>3, <4>1, <4>2
    <3> QED BY <3>1, <3>9
  <2> HIDE DEF T
  <2>3. 0..k \subseteq T
    BY <1>2, <2>1, <2>2, UpTo
  <2>4. k + 1 - i \in 0..k /\ k + 1 - (k + 1 - i) = i
    BY <1>2
  <2> HIDE DEF p
  <2> QED BY <2>3, <2>4 DEF T
<1>7. u[1] = SubSeq(s, 1, k)
  <2>1. 1 \in 1..k + 1 /\ p(1) + 1 = 1
    BY <1>1, <1>2
  <2> HIDE DEF p
  <2> QED BY <1>6, <2>1
<1>8. SubSeq(s, 1, k) = s
  OBVIOUS
<1> QED BY <1>3, <1>7, <1>8 DEF e
-----------------------------------------------------------------------------
\* The function Only is computed with
OnlyUpTo(s, set) ==
  LET kept[n \in 0..Len(s)] == IF n = 0 THEN <<>>
                               ELSE IF s[n] \in set THEN Append(kept[n - 1], s[n])
                               ELSE kept[n - 1]
  IN kept

\* It is what its definition says.
LEMMA OnlyStep ==
  ASSUME NEW S, NEW s \in Seq(S), NEW set
  PROVE  /\ OnlyUpTo(s, set) \in [0..Len(s) -> Seq(S)]
         /\ Only(s, set) = OnlyUpTo(s, set)[Len(s)]
         /\ OnlyUpTo(s, set)[0] = <<>>
         /\ \A n \in 1..Len(s) :
               OnlyUpTo(s, set)[n] = IF s[n] \in set THEN Append(OnlyUpTo(s, set)[n - 1], s[n])
                                                    ELSE OnlyUpTo(s, set)[n - 1]
<1> DEFINE k == Len(s)
           Step(n, x) == IF s[n] \in set THEN Append(x, s[n]) ELSE x
           F == [p \in (1..k) \X Seq(S) |-> Step(p[1], p[2])]
           Is(g) == g = [n \in 0..k |-> IF n = 0 THEN <<>> ELSE Step(n, g[n - 1])]
           f == OnlyUpTo(s, set)
<1>1. k \in Nat /\ <<>> \in Seq(S)
  OBVIOUS
<1>2. ASSUME NEW n \in 1..k, NEW x \in Seq(S) PROVE Step(n, x) \in Seq(S) /\ F[<<n, x>>] = Step(n, x)
  <2>1. s[n] \in S
    OBVIOUS
  <2>2. Step(n, x) \in Seq(S)
    BY <2>1, AppendProperties
  <2> QED BY <2>2
<1>3. \E g : g \in [0..k -> Seq(S)] /\ Is(g)
  <2>1. PICK g \in [0..k -> Seq(S)] : g[0] = <<>> /\ \A n \in 1..k : g[n] = F[<<n, g[n - 1]>>]
    <3> HIDE DEF k, F, Step
    <3>1. Steps(Seq(S), <<>>, k, F)
      BY <1>1, <1>2 DEF Steps
    <3>2. Defines(Seq(S), <<>>, k, F)
      BY <3>1, Stepwise
    <3> QED BY <3>2 DEF Defines
  <2>2. ASSUME NEW n \in 1..k PROVE g[n] = Step(n, g[n - 1])
    <3>1. n - 1 \in 0..k /\ g[n - 1] \in Seq(S)
      BY <1>1
    <3> HIDE DEF k, F, Step
    <3> QED BY <1>2, <2>1, <3>1
  <2> HIDE DEF k, F, Step
  <2>3. Is(g)
    <3>1. \A n \in 0..k : n = 0 \/ n \in 1..k
      BY <1>1
    <3> QED BY <2>1, <2>2, <3>1
  <2> QED BY <2>3
<1>4. f = CHOOSE g : Is(g)
  BY DEF OnlyUpTo
<1>5. Is(f)
  <2> HIDE DEF Is, f
  <2> QED BY <1>3, <1>4
<1>6. Only(s, set) = f[k]
  BY DEF Only, OnlyUpTo
<1>7. f[0] = <<>> /\ \A n \in 1..k : f[n] = Step(n, f[n - 1])
  <2> HIDE DEF f, Step, k
  <2>1. 0 \in 0..k /\ \A n \in 1..k : n \in 0..k /\ n # 0
    BY <1>1
  <2> QED BY <1>5, <2>1
<1>8. \A n \in 0..k : f[n] \in Seq(S)
  <2> DEFINE T == {n \in 0..k : f[n] \in Seq(S)}
  <2> HIDE DEF f, Step, k, F
  <2>1. 0 \in T
    <3>1. 0 \in 0..k
      BY <1>1
    <3>2. f[0] \in Seq(S)
      BY <1>1, <1>7, Zenon
    <3> QED BY <3>1, <3>2
  <2>2. ASSUME NEW n \in 1..k, n - 1 \in T PROVE n \in T
    <3>1. f[n - 1] \in Seq(S) /\ n \in 0..k
      BY <1>1, <2>2
    <3> QED BY <1>2, <1>7, <3>1
  <2> HIDE DEF T
  <2>3. 0..k \subseteq T
    BY <1>1, <2>1, <2>2, UpTo
  <2> QED BY <2>3 DEF T
<1>9. f \in [0..k -> Seq(S)]
  <2> HIDE DEF f, Step, k
  <2> QED BY <1>5, <1>8
<1> QED BY <1>6, <1>7, <1>9, Zenon


\* Tokens come in a row.
LEMMA TokensRow ==
  ASSUME NEW text, text \in Seq(ToSet(text))
  PROVE  \E S : Tokens(text) \in Seq(S)
<1> DEFINE shown == Only(text, {lexeme \in ToSet(text) : lexeme.kind # "blank"})
           S == {Token(x) : x \in ToSet(text)}
<1>1. shown \in Seq(ToSet(text))
  <2> PICK set : set = {lexeme \in ToSet(text) : lexeme.kind # "blank"}
    OBVIOUS
  <2>1. OnlyUpTo(text, set) \in [0..Len(text) -> Seq(ToSet(text))] /\ Only(text, set) = OnlyUpTo(text, set)[Len(text)]
    BY OnlyStep
  <2>2. Len(text) \in 0..Len(text)
    OBVIOUS
  <2> QED BY <2>1, <2>2
<1>2. Tokens(text) = [i \in DOMAIN shown |-> Token(shown[i])]
  BY DEF Tokens
<1> HIDE DEF shown
<1>3. DOMAIN shown = 1..Len(shown) /\ Len(shown) \in Nat /\ \A i \in 1..Len(shown) : shown[i] \in ToSet(text)
  BY <1>1
<1>4. [i \in 1..Len(shown) |-> Token(shown[i])] \in [1..Len(shown) -> S]
  BY <1>3
<1> HIDE DEF S
<1>5. [i \in 1..Len(shown) |-> Token(shown[i])] \in Seq(S)
  BY <1>3, <1>4, FunctionSeq
<1> QED BY <1>2, <1>3, <1>5
-----------------------------------------------------------------------------
(* A record printed on the tokens t as the layout d says.                  *)

Root(d)    == Len(d.nodes)
Kids(d, i) == d.nodes[i].kids
MarkAt(d)  == IF d.nodes[Root(d)].text = <<>> THEN 1 ELSE 2

\* Where k members of the list i are behind
Place(d, i, k) ==
  IF k > 0 THEN d.to[Kids(d, i)[k]]
  ELSE IF i = Root(d) THEN MarkAt(d) + 2 ELSE Inside(d, i) + 1

IsRow(t) == \E S : t \in Seq(S)

RecordLaid(t, d) == IsRow(t) /\ IsLayout(d, Len(t)) /\ PrintsRecord(t, d)

IsOuter(t, d, i) == i \in 1..Root(d) /\ (i = Root(d) \/ PrintsList(t, d, i))

\* Nodes, and where they are
LayoutFacts(t, d) ==
  /\ Len(t) \in Nat /\ Root(d) \in Nat \ {0} /\ MarkAt(d) \in 1..2
  /\ \A i \in 1..Root(d) :
       /\ d.nodes[i] \in Node /\ d.at[i] \in 1..Len(t) /\ d.to[i] \in 1..Len(t) + 1
       /\ Kids(d, i) \in Seq(1..(i - 1)) /\ Len(Kids(d, i)) \in Nat
       /\ Inside(d, i) = (IF d.nodes[i].name = "" THEN d.at[i] ELSE d.at[i] + 2)
       /\ Inside(d, i) \in Nat /\ Inside(d, i) < d.to[i]
  /\ \A i \in 1..Root(d) : \A k \in 1..Len(Kids(d, i)) : Kids(d, i)[k] \in 1..(i - 1) /\ Kids(d, i)[k] \in 1..Root(d)
  /\ \A i, j \in 1..Root(d) : i < j => d.to[i] < d.to[j]

\* A layout's nodes and places are in their bounds.
LEMMA LayoutBounds ==
  ASSUME NEW t, NEW d, RecordLaid(t, d)
  PROVE  LayoutFacts(t, d)
<1>1. Len(t) \in Nat
  BY DEF RecordLaid, IsRow
<1>2. Root(d) \in Nat \ {0}
  <2>1. d.nodes \in Seq(Node)
    BY DEF RecordLaid, IsLayout
  <2>2. Root(d) > 0
    BY DEF RecordLaid, PrintsRecord, Root
  <2>3. Len(d.nodes) \in Nat
    BY <2>1
  <2> QED BY <2>2, <2>3 DEF Root
<1>3. MarkAt(d) \in 1..2
  BY DEF MarkAt
<1>4. ASSUME NEW i \in 1..Root(d)
      PROVE  /\ d.nodes[i] \in Node /\ d.at[i] \in 1..Len(t) /\ d.to[i] \in 1..Len(t) + 1
             /\ Kids(d, i) \in Seq(1..(i - 1)) /\ Inside(d, i) < d.to[i]
  <2>1. d.nodes[i] \in Node
    BY DEF RecordLaid, IsLayout, Root
  <2>2. d.at[i] \in 1..Len(t) /\ d.to[i] \in 1..Len(t) + 1
    BY DEF RecordLaid, IsLayout, Root
  <2>3. Kids(d, i) \in Seq(1..(i - 1)) /\ Inside(d, i) < d.to[i]
    BY DEF RecordLaid, IsLayout, Root, Kids
  <2> QED BY <2>1, <2>2, <2>3
<1>5. ASSUME NEW i \in 1..Root(d)
      PROVE  Inside(d, i) = (IF d.nodes[i].name = "" THEN d.at[i] ELSE d.at[i] + 2) /\ Inside(d, i) \in Nat
  <2>1. d.at[i] \in Nat
    BY <1>1, <1>4
  <2>2. CASE d.nodes[i].name = ""
    <3>1. Inside(d, i) = d.at[i] + 0
      BY <2>2 DEF Inside
    <3>2. Inside(d, i) = d.at[i]
      BY <2>1, <3>1
    <3> QED BY <2>1, <2>2, <3>2, Zenon
  <2>3. CASE d.nodes[i].name # ""
    <3>1. Inside(d, i) = d.at[i] + 2
      BY <2>3 DEF Inside
    <3>2. Inside(d, i) \in Nat
      BY <2>1, <3>1
    <3> QED BY <2>3, <3>1, <3>2, Zenon
  <2> QED BY <2>2, <2>3
<1>6. ASSUME NEW i \in 1..Root(d)
      PROVE  /\ Len(Kids(d, i)) \in Nat
             /\ \A k \in 1..Len(Kids(d, i)) : Kids(d, i)[k] \in 1..(i - 1) /\ Kids(d, i)[k] \in 1..Root(d)
  <2>1. Kids(d, i) \in Seq(1..(i - 1)) /\ Root(d) \in Nat
    BY <1>2, <1>4
  <2>2. 1..(i - 1) \subseteq 1..Root(d)
    BY <2>1
  <2> QED BY <2>1, <2>2
<1>7. \A i, j \in 1..Root(d) : i < j => d.to[i] < d.to[j]
  BY DEF RecordLaid, IsLayout, Root
<1> QED BY <1>1, <1>2, <1>3, <1>4, <1>5, <1>6, <1>7 DEF LayoutFacts

\* What is where k members of the list i are behind: the end of the list,
\* a comma and the next member, or the first member
NodeBehind(t, d, i, k) ==
  LET p == Place(d, i, k) kids == Kids(d, i) n == Len(kids) IN
  /\ p \in 1..Len(t)
  /\ k = n => t[p].kind = (IF i = Root(d) THEN "NL" ELSE Closing[d.nodes[i].type]) /\ d.to[i] = p + 1
  /\ k < n /\ (k > 0 \/ i = Root(d)) => t[p].kind = "," /\ d.at[kids[k + 1]] = p + 1
  /\ k < n /\ k = 0 /\ i # Root(d) => d.at[kids[1]] = p

\* What is behind the first k members of a list: the next one, or the list's end
LEMMA BehindMembers ==
  ASSUME NEW t, NEW d, RecordLaid(t, d), NEW i, IsOuter(t, d, i), NEW k \in 0..Len(Kids(d, i))
  PROVE  NodeBehind(t, d, i, k)
<1> DEFINE p == Place(d, i, k)
           kids == Kids(d, i)
           n == Len(kids)
           first == IF i = Root(d) THEN MarkAt(d) + 3 ELSE Inside(d, i) + 1
           end == IF i = Root(d) THEN Behind(d, kids, MarkAt(d) + 2) ELSE Behind(d, kids, Inside(d, i) + 1)
<1>1. LayoutFacts(t, d) /\ i \in 1..Root(d)
  BY LayoutBounds DEF IsOuter
<1>2. /\ Len(t) \in Nat /\ MarkAt(d) \in 1..2 /\ Inside(d, i) \in Nat /\ kids \in Seq(1..(i - 1)) /\ n \in Nat
      /\ d.to[i] \in 1..Len(t) + 1
  BY <1>1 DEF LayoutFacts
<1>3. \A m \in 1..n : kids[m] \in 1..Root(d) /\ d.at[kids[m]] \in 1..Len(t) /\ d.to[kids[m]] \in 1..Len(t) + 1
  BY <1>1 DEF LayoutFacts
<1>4. InRow(t, d, kids, first)
  <2>1. CASE i = Root(d)
    BY <2>1 DEF RecordLaid, PrintsRecord, Kids, Root, MarkAt
  <2>2. CASE i # Root(d)
    BY <2>2 DEF IsOuter, PrintsList, Kids
  <2> QED BY <2>1, <2>2
<1>5. t[end].kind = (IF i = Root(d) THEN "NL" ELSE Closing[d.nodes[i].type]) /\ d.to[i] = end + 1
  <2>1. CASE i = Root(d)
    BY <2>1 DEF RecordLaid, PrintsRecord, Kids, Root, MarkAt
  <2>2. CASE i # Root(d)
    BY <2>2 DEF IsOuter, PrintsList, Kids
  <2> QED BY <2>1, <2>2
<1>6. \A m \in 1..n : IF m = 1 THEN d.at[kids[m]] = first
                      ELSE t[d.to[kids[m - 1]]].kind = "," /\ d.at[kids[m]] = d.to[kids[m - 1]] + 1
  <2>1. DOMAIN kids = 1..n
    BY <1>2
  <2> HIDE DEF kids, first, n
  <2> QED BY <1>4, <2>1 DEF InRow
<1>7. k = n => p = end
  <2>1. CASE n = 0
    <3>1. kids = <<>>
      BY <1>2, <2>1
    <3> QED BY <2>1, <3>1 DEF Place, Behind
  <2>2. CASE n # 0
    <3>1. kids # <<>> /\ n > 0
      BY <1>2, <2>2
    <3>2. Last(kids) = kids[n]
      BY DEF Last
    <3> QED BY <3>1, <3>2 DEF Place, Behind
  <2> QED BY <2>1, <2>2
<1>8. k \in Nat /\ k <= n /\ (k = 0 \/ k > 0)
  BY <1>2
<1>9. ASSUME k < n, k > 0 PROVE t[p].kind = "," /\ d.at[kids[k + 1]] = p + 1
  <2>1. k + 1 \in 1..n /\ k + 1 # 1 /\ (k + 1) - 1 = k
    BY <1>2, <1>8, <1>9
  <2>2. p = d.to[kids[k]]
    BY <1>9 DEF Place
  <2> HIDE DEF p, kids, n, first
  <2> QED BY <1>6, <2>1, <2>2
<1>10. ASSUME k < n, k = 0 PROVE d.at[kids[1]] = first
  <2>1. 1 \in 1..n
    BY <1>2, <1>10
  <2> HIDE DEF kids, n, first
  <2> QED BY <1>6, <2>1
<1>11. ASSUME k < n, k = 0, i = Root(d) PROVE t[p].kind = "," /\ d.at[kids[k + 1]] = p + 1
  <2>1. p = MarkAt(d) + 2 /\ first = MarkAt(d) + 3 /\ p + 1 = first /\ k + 1 = 1
    BY <1>2, <1>11 DEF Place
  <2>2. kids # <<>>
    BY <1>2, <1>11
  <2>3. t[MarkAt(d) + 2].kind = ","
    BY <1>11, <2>2 DEF RecordLaid, PrintsRecord, Kids, Root, MarkAt
  <2> HIDE DEF kids, n, first, p
  <2> QED BY <1>10, <1>11, <2>1, <2>3
<1>12. ASSUME k < n, k = 0, i # Root(d) PROVE d.at[kids[1]] = p
  <2>1. p = first
    BY <1>12 DEF Place
  <2> HIDE DEF kids, n, first, p
  <2> QED BY <1>10, <1>12, <2>1
<1>13. p \in 1..Len(t)
  <2>1. p \in Nat \ {0}
    <3>1. CASE k > 0
      <4>1. k \in 1..n
        BY <1>8, <3>1
      <4>2. d.to[kids[k]] \in 1..Len(t) + 1
        BY <1>3, <4>1
      <4> QED BY <1>2, <3>1, <4>2 DEF Place
    <3>2. CASE k = 0
      BY <1>2, <3>2 DEF Place
    <3> QED BY <1>8, <3>1, <3>2
  <2> HIDE DEF p, kids, n, end, first
  <2>2. CASE k = n
    BY <1>2, <1>5, <1>7, <2>1, <2>2
  <2>3. CASE k < n /\ (k > 0 \/ i = Root(d))
    <3>1. d.at[kids[k + 1]] = p + 1
      <4>1. CASE k > 0
        BY <1>9, <2>3, <4>1
      <4>2. CASE k = 0
        <5>1. ~ (k > 0)
          BY <4>2
        <5> QED BY <1>11, <2>3, <4>2, <5>1
      <4> QED BY <1>8, <4>1, <4>2
    <3>2. k + 1 \in 1..n
      BY <1>2, <1>8, <2>3
    <3>3. d.at[kids[k + 1]] \in 1..Len(t)
      BY <1>3, <3>2
    <3> QED BY <1>2, <2>1, <3>1, <3>3
  <2>4. CASE k < n /\ k = 0 /\ i # Root(d)
    <3>1. 1 \in 1..n
      BY <1>2, <2>4
    <3>2. d.at[kids[1]] \in 1..Len(t)
      BY <1>3, <3>1
    <3> QED BY <1>12, <2>4, <3>2
  <2> QED BY <1>2, <1>8, <2>2, <2>3, <2>4
<1> HIDE DEF p, kids, n, end, first
<1>14. k < n /\ (k > 0 \/ i = Root(d)) => t[p].kind = "," /\ d.at[kids[k + 1]] = p + 1
  <2>1. CASE k > 0
    BY <1>9, <2>1
  <2>2. CASE k = 0
    <3>1. ~ (k > 0)
      BY <2>2
    <3> QED BY <1>11, <2>2, <3>1
  <2> QED BY <1>8, <2>1, <2>2
<1>15. k = n => t[p].kind = (IF i = Root(d) THEN "NL" ELSE Closing[d.nodes[i].type]) /\ d.to[i] = p + 1
  BY <1>5, <1>7
<1> QED BY <1>12, <1>13, <1>14, <1>15 DEF NodeBehind, p, kids, n
-----------------------------------------------------------------------------
\* The tokens of a node that is not the record
Coming(t, d, i) ==
  LET node == d.nodes[i] p == Inside(d, i) IN
  /\ p \in 1..Len(t) /\ d.at[i] \in 1..Len(t)
  /\ node.name # "" => /\ t[d.at[i]].kind = "STRING" /\ t[d.at[i]].val = node.name
                       /\ d.at[i] + 1 \in 1..Len(t) /\ t[d.at[i] + 1].kind = "=" /\ p = d.at[i] + 2
  /\ node.name = "" => p = d.at[i]
  /\ \/ t[p].kind = "CSTRING" /\ node.type = "const" /\ node.kids = <<>> /\ t[p].val = Quoted(node.text) /\ d.to[i] = p + 1
     \/ t[p].kind = "{" /\ node.type = "tuple" /\ PrintsList(t, d, i)
     \/ t[p].kind = "[" /\ node.type = "list" /\ PrintsList(t, d, i)

\* Every node but the record is printed as a value, its variable before it.
LEMMA ComingNode ==
  ASSUME NEW t, NEW d, RecordLaid(t, d), NEW i \in 1..(Root(d) - 1)
  PROVE  Coming(t, d, i)
<1> DEFINE p == Inside(d, i)
           node == d.nodes[i]
<1>1. LayoutFacts(t, d) /\ i \in 1..Root(d)
  <2>1. LayoutFacts(t, d)
    BY LayoutBounds
  <2>2. Root(d) \in Nat \ {0}
    BY <2>1 DEF LayoutFacts
  <2> QED BY <2>1, <2>2
<1>2. /\ Len(t) \in Nat /\ p \in Nat /\ d.at[i] \in 1..Len(t) /\ d.to[i] \in 1..Len(t) + 1 /\ p < d.to[i]
      /\ p = (IF node.name = "" THEN d.at[i] ELSE d.at[i] + 2)
  BY <1>1 DEF LayoutFacts
<1>3. PrintsVariable(t, d, i) /\ (PrintsConst(t, d, i) \/ PrintsList(t, d, i))
  BY DEF RecordLaid, PrintsRecord, Root
<1>4. node.name # "" => t[d.at[i]].kind = "STRING" /\ t[d.at[i]].val = node.name /\ t[d.at[i] + 1].kind = "="
  BY <1>3 DEF PrintsVariable
<1>5. \/ t[p].kind = "CSTRING" /\ node.type = "const" /\ node.kids = <<>> /\ t[p].val = Quoted(node.text) /\ d.to[i] = p + 1
      \/ t[p].kind = "{" /\ node.type = "tuple" /\ PrintsList(t, d, i)
      \/ t[p].kind = "[" /\ node.type = "list" /\ PrintsList(t, d, i)
  <2>1. CASE PrintsConst(t, d, i)
    BY <2>1 DEF PrintsConst
  <2>2. CASE PrintsList(t, d, i)
    <3>1. node.type \in {"tuple", "list"} /\ t[p].kind = Opening[node.type]
      BY <2>2 DEF PrintsList
    <3>2. Opening["tuple"] = "{" /\ Opening["list"] = "["
      BY DEF Opening
    <3> HIDE DEF p, node
    <3> QED BY <2>2, <3>1, <3>2
  <2> QED BY <1>3, <2>1, <2>2
<1> HIDE DEF p, node
<1>6. CASE node.name = ""
  <2>1. p = d.at[i] /\ p \in 1..Len(t)
    BY <1>2, <1>6
  <2> QED BY <1>2, <1>5, <1>6, <2>1 DEF Coming, p, node
<1>7. CASE node.name # ""
  <2>1. p = d.at[i] + 2
    BY <1>2, <1>7
  <2>2. p \in 1..Len(t) /\ d.at[i] + 1 \in 1..Len(t)
    <3> PICK a, z, n : a = d.at[i] /\ z = d.to[i] /\ n = Len(t)
      OBVIOUS
    <3>1. n \in Nat /\ p \in Nat /\ a \in 1..n /\ z \in 1..n + 1 /\ p < z /\ p = a + 2
      BY <1>2, <2>1
    <3>2. p \in 1..n /\ a + 1 \in 1..n
      BY ONLY <3>1
    <3> QED BY <3>2
  <2> QED BY <1>2, <1>4, <1>5, <1>7, <2>1, <2>2 DEF Coming, p, node
<1> QED BY <1>6, <1>7

\* The tokens that end a node
Ends == {"CSTRING", "}", "]", "NL"}

\* A node ends with a constant, a closing bracket or the line.
LEMMA EndToken ==
  ASSUME NEW t, NEW d, RecordLaid(t, d), NEW i \in 1..Root(d), NEW p, d.to[i] = p + 1, p \in Nat
  PROVE  t[p].kind \in Ends
<1>1. Root(d) \in Nat \ {0}
  BY LayoutBounds DEF LayoutFacts
<1>2. CASE i # Root(d) /\ ~ PrintsList(t, d, i)
  <2>1. i \in 1..(Root(d) - 1)
    BY <1>1, <1>2
  <2>2. Coming(t, d, i)
    BY <2>1, ComingNode
  <2>3. t[Inside(d, i)].kind = "CSTRING" /\ d.to[i] = Inside(d, i) + 1 /\ Inside(d, i) \in 1..Len(t)
    BY <1>2, <2>2 DEF Coming
  <2>4. p = Inside(d, i)
    BY <2>3
  <2> QED BY <2>3, <2>4 DEF Ends
<1>3. CASE i = Root(d) \/ PrintsList(t, d, i)
  <2> DEFINE k == Len(Kids(d, i))
             q == Place(d, i, k)
  <2>1. IsOuter(t, d, i)
    BY <1>3 DEF IsOuter
  <2>2. k \in 0..k
    <3>1. k \in Nat
      BY LayoutBounds DEF LayoutFacts
    <3> HIDE DEF k
    <3> QED BY <3>1
  <2>3. NodeBehind(t, d, i, k)
    BY <2>1, <2>2, BehindMembers
  <2>4. q \in 1..Len(t) /\ t[q].kind = (IF i = Root(d) THEN "NL" ELSE Closing[d.nodes[i].type]) /\ d.to[i] = q + 1
    BY <2>3 DEF NodeBehind
  <2>5. q = p
    <3> HIDE DEF q
    <3> QED BY <2>4
  <2>6. CASE i = Root(d)
    <3> HIDE DEF q
    <3> QED BY <2>4, <2>5, <2>6 DEF Ends
  <2>7. CASE i # Root(d)
    <3>1. d.nodes[i].type \in {"tuple", "list"}
      BY <1>3, <2>7 DEF PrintsList
    <3>2. Closing["tuple"] = "}" /\ Closing["list"] = "]"
      BY DEF Closing
    <3>3. Closing[d.nodes[i].type] \in {"}", "]"}
      BY <3>1, <3>2
    <3> HIDE DEF q
    <3> QED BY <2>4, <2>5, <2>7, <3>3 DEF Ends
  <2> QED BY <2>6, <2>7
<1> QED BY <1>2, <1>3

\* The nodes 1..m are the ones that end with the first p tokens.
MadeBy(d, p, m) == m \in 0..Root(d) /\ \A i \in 1..Root(d) : i <= m <=> d.to[i] <= p + 1

\* A token that ends nothing ends no node: the nodes made remain as many.
LEMMA NothingEnds ==
  ASSUME NEW t, NEW d, RecordLaid(t, d), NEW p \in Nat, NEW m, MadeBy(d, p, m), t[p + 1].kind \notin Ends
  PROVE  MadeBy(d, p + 1, m)
<1>1. LayoutFacts(t, d)
  BY LayoutBounds
<1>2. ASSUME NEW i \in 1..Root(d) PROVE d.to[i] \in Nat /\ d.to[i] # (p + 1) + 1
  <2>1. d.to[i] # (p + 1) + 1
    BY EndToken
  <2>2. d.to[i] \in 1..Len(t) + 1 /\ Len(t) \in Nat
    BY <1>1 DEF LayoutFacts
  <2> QED BY <2>1, <2>2
<1>3. ASSUME NEW i \in 1..Root(d) PROVE d.to[i] <= p + 1 <=> d.to[i] <= (p + 1) + 1
  <2> PICK q : q = d.to[i]
    OBVIOUS
  <2>1. q \in Nat /\ q # (p + 1) + 1
    BY <1>2
  <2>2. q <= p + 1 <=> q <= (p + 1) + 1
    BY <2>1
  <2> QED BY <2>2
<1> QED BY <1>3 DEF MadeBy

\* Where a node ends it is the next one to be made.
LEMMA NodeEnds ==
  ASSUME NEW t, NEW d, RecordLaid(t, d), NEW p \in Nat, NEW m, MadeBy(d, p, m),
         NEW c \in 1..Root(d), d.to[c] = (p + 1) + 1
  PROVE  c = m + 1 /\ MadeBy(d, p + 1, m + 1)
<1>1. LayoutFacts(t, d)
  BY LayoutBounds
<1>2. Root(d) \in Nat /\ m \in 0..Root(d) /\ m \in Nat
  <2>1. Root(d) \in Nat
    BY <1>1 DEF LayoutFacts
  <2>2. m \in 0..Root(d)
    BY DEF MadeBy
  <2> QED BY <2>1, <2>2
<1>3. \A i \in 1..Root(d) : d.to[i] \in Nat
  <2>1. \A i \in 1..Root(d) : d.to[i] \in 1..Len(t) + 1
    BY <1>1 DEF LayoutFacts
  <2> QED BY <2>1
<1>4. \A i, j \in 1..Root(d) : i < j => d.to[i] < d.to[j]
  BY <1>1 DEF LayoutFacts
<1>5. ASSUME NEW i \in 1..Root(d) PROVE i < c <=> d.to[i] <= p + 1
  <2> PICK q, r : q = d.to[i] /\ r = d.to[c]
    OBVIOUS
  <2>1. q \in Nat /\ r = (p + 1) + 1 /\ (i < c => q < r) /\ (c < i => r < q) /\ (i = c => q = r)
    BY <1>3, <1>4
  <2>2. i \in Nat /\ c \in Nat
    BY <1>2
  <2>3. i < c <=> q <= p + 1
    BY <2>1, <2>2
  <2> QED BY <2>3
<1>6. \A i \in 1..Root(d) : i <= m <=> i < c
  BY <1>5 DEF MadeBy
<1>7. c = m + 1
  <2>1. c \in Nat /\ c >= 1 /\ c <= Root(d)
    BY <1>2
  <2>2. ~ (c <= m)
    BY <1>6, <2>1
  <2>3. m + 1 \in 1..Root(d)
    BY <1>2, <2>1, <2>2
  <2>4. ~ (m + 1 < c)
    BY <1>2, <1>6, <2>3
  <2> QED BY <1>2, <2>1, <2>2, <2>4
<1>8. ASSUME NEW i \in 1..Root(d) PROVE i <= m + 1 <=> d.to[i] <= (p + 1) + 1
  <2> PICK q, r : q = d.to[i] /\ r = d.to[c]
    OBVIOUS
  <2>1. q \in Nat /\ r = (p + 1) + 1 /\ (i < c => q < r) /\ (c < i => r < q) /\ (i = c => q = r)
    BY <1>3, <1>4
  <2>2. i \in Nat /\ c \in Nat
    BY <1>2
  <2>3. i <= m + 1 <=> q <= (p + 1) + 1
    BY <1>2, <1>7, <2>1, <2>2
  <2> QED BY <2>3
<1>9. m + 1 \in 0..Root(d)
  BY <1>2, <1>7
<1> QED BY <1>7, <1>8, <1>9 DEF MadeBy
-----------------------------------------------------------------------------
\* A sequence that is not empty begins with its first element.
LEMMA FirstOf ==
  ASSUME NEW S, NEW s \in Seq(S), Len(s) > 0
  PROVE  s # <<>> /\ Head(s) = s[1]
OBVIOUS

\* The token behind the first p, and those behind it
LEMMA NextToken ==
  ASSUME NEW t, IsRow(t), NEW p \in 0..Len(t), NEW r, r = SubSeq(t, p + 1, Len(t))
  PROVE  /\ Len(t) \in Nat
         /\ r = <<>> <=> p = Len(t)
         /\ r # <<>> => /\ p + 1 \in 1..Len(t) /\ p + 1 \in 0..Len(t)
                        /\ Head(r) = t[p + 1] /\ Tail(r) = SubSeq(t, (p + 1) + 1, Len(t))
<1> PICK S : t \in Seq(S)
  BY DEF IsRow
<1>1. Len(t) \in Nat /\ p \in Nat /\ p <= Len(t)
  OBVIOUS
<1>2. CASE p = Len(t)
  <2>1. r = <<>>
    BY <1>1, <1>2
  <2> QED BY <1>1, <1>2, <2>1
<1>3. CASE p # Len(t)
  <2>1. p + 1 \in 1..Len(t) /\ p + 1 \in 0..Len(t)
    BY <1>1, <1>3
  <2>2. Len(r) = Len(t) - p /\ r \in Seq(S)
    BY <1>1, <2>1, SubSeqProperties
  <2>3. \A i \in 1..Len(r) : r[i] = t[p + i]
    BY <1>1, <2>1
  <2>4. r # <<>> /\ Head(r) = t[p + 1]
    <3>1. 1 \in 1..Len(r) /\ Len(r) > 0
      BY <1>1, <1>3, <2>2
    <3>2. r[1] = t[p + 1]
      BY <2>3, <3>1
    <3>3. r # <<>> /\ Head(r) = r[1]
      BY <2>2, <3>1, FirstOf
    <3> QED BY <3>2, <3>3
  <2>5. Tail(r) = SubSeq(t, (p + 1) + 1, Len(t))
    <3> DEFINE a == Tail(r) b == SubSeq(t, (p + 1) + 1, Len(t))
    <3>1. Len(a) = Len(t) - (p + 1) /\ a \in Seq(S) /\ \A i \in 1..Len(a) : a[i] = r[i + 1]
      BY <1>1, <2>1, <2>2, <2>4
    <3>2. Len(b) = Len(t) - (p + 1) /\ b \in Seq(S) /\ \A i \in 1..Len(b) : b[i] = t[p + 1 + i]
      BY <1>1, <2>1
    <3>3. \A i \in 1..Len(a) : a[i] = b[i]
      <4> TAKE i \in 1..Len(a)
      <4> HIDE DEF a, b
      <4>1. i + 1 \in 1..Len(r) /\ p + (i + 1) = p + 1 + i /\ i \in 1..Len(b)
        BY <1>1, <2>1, <2>2, <3>1, <3>2
      <4>2. a[i] = r[i + 1] /\ r[i + 1] = t[p + (i + 1)] /\ b[i] = t[p + 1 + i]
        BY <2>3, <3>1, <3>2, <4>1
      <4> QED BY <4>1, <4>2
    <3> HIDE DEF a, b
    <3> QED BY <3>1, <3>2, <3>3, SeqEqual DEF a, b
  <2> QED BY <1>1, <1>3, <2>1, <2>4, <2>5
<1> QED BY <1>2, <1>3

\* The nodes made so far; in octal, a text is not what gdb meant.
HeapAs(d) ==
  /\ heap = [i \in 1..made |-> heap[i]]
  /\ line.plain => \A i \in 1..made : heap[i] = d.nodes[i]

\* The first p tokens are shifted.
Position(t, d, p) ==
  /\ p \in 0..Len(t) /\ rest = SubSeq(t, p + 1, Len(t))
  /\ MadeBy(d, p, made) /\ HeapAs(d)

\* A token that ends no node is shifted and makes none.
LEMMA ShiftOver ==
  ASSUME NEW t, NEW d, RecordLaid(t, d), NEW p, Position(t, d, p),
         rest # <<>>, rest' = Tail(rest), line' = line, NoNode, Head(rest).kind \notin Ends
  PROVE  Position(t, d, p + 1)'
<1>1. p \in 0..Len(t) /\ rest = SubSeq(t, p + 1, Len(t)) /\ MadeBy(d, p, made) /\ HeapAs(d) /\ IsRow(t)
  BY DEF Position, RecordLaid
<1>2. /\ Len(t) \in Nat /\ p + 1 \in 0..Len(t)
      /\ Head(rest) = t[p + 1] /\ Tail(rest) = SubSeq(t, (p + 1) + 1, Len(t))
  BY <1>1, NextToken
<1>3. p \in Nat /\ t[p + 1].kind \notin Ends
  BY <1>1, <1>2
<1>4. MadeBy(d, p + 1, made)
  BY <1>1, <1>3, NothingEnds
<1>5. made' = made /\ heap' = heap
  BY DEF NoNode
<1>6. MadeBy(d, p + 1, made') /\ rest' = SubSeq(t, (p + 1) + 1, Len(t))
  BY <1>2, <1>4, <1>5
<1>7. HeapAs(d)'
  BY <1>1, <1>5 DEF HeapAs
<1> QED BY <1>2, <1>6, <1>7 DEF Position, MadeBy

\* A token that ends a node is shifted and makes the node that is printed there.
LEMMA ShiftMake ==
  ASSUME NEW t, NEW d, RecordLaid(t, d), NEW p, Position(t, d, p),
         rest # <<>>, rest' = Tail(rest), line' = line,
         NEW c \in 1..Root(d), d.to[c] = (p + 1) + 1,
         NEW node, Make(node), line.plain => node = d.nodes[c]
  PROVE  Position(t, d, p + 1)' /\ c = made + 1 /\ made' = made + 1
<1>1. p \in 0..Len(t) /\ rest = SubSeq(t, p + 1, Len(t)) /\ MadeBy(d, p, made) /\ HeapAs(d) /\ IsRow(t)
  BY DEF Position, RecordLaid
<1>2. /\ Len(t) \in Nat /\ p + 1 \in 0..Len(t)
      /\ Head(rest) = t[p + 1] /\ Tail(rest) = SubSeq(t, (p + 1) + 1, Len(t))
  BY <1>1, NextToken
<1>3. p \in Nat
  BY <1>1, <1>2
<1>4. c = made + 1 /\ MadeBy(d, p + 1, made + 1)
  BY <1>1, <1>3, NodeEnds
<1>5. made \in Nat
  <2>1. Root(d) \in Nat
    BY LayoutBounds DEF LayoutFacts
  <2>2. made \in 0..Root(d)
    BY <1>1 DEF MadeBy
  <2> QED BY <2>1, <2>2
<1>6. /\ made' = made + 1
      /\ heap' = [i \in DOMAIN heap \union {made + 1} |-> IF i = made + 1 THEN node ELSE heap[i]]
  BY DEF Make
<1>7. DOMAIN heap = 1..made
  BY <1>1 DEF HeapAs
<1>8. DOMAIN heap \union {made + 1} = 1..made + 1
  BY <1>5, <1>7
<1>9. heap' = [i \in 1..made + 1 |-> IF i = made + 1 THEN node ELSE heap[i]]
  BY <1>6, <1>8
<1>10. heap' = [i \in 1..made' |-> heap'[i]]
  BY <1>6, <1>9
<1>11. ASSUME line.plain, NEW i \in 1..made + 1 PROVE heap'[i] = d.nodes[i]
  <2>1. CASE i = made + 1
    BY <1>4, <1>9, <1>11, <2>1
  <2>2. CASE i # made + 1
    <3>1. i \in 1..made
      BY <1>5, <2>2
    <3>2. heap[i] = d.nodes[i]
      BY <1>1, <1>11, <3>1 DEF HeapAs
    <3> QED BY <1>9, <2>2, <3>2
  <2> QED BY <2>1, <2>2
<1>12. HeapAs(d)'
  BY <1>6, <1>10, <1>11 DEF HeapAs
<1>13. MadeBy(d, p + 1, made') /\ rest' = SubSeq(t, (p + 1) + 1, Len(t))
  BY <1>2, <1>4, <1>6
<1> QED BY <1>2, <1>4, <1>6, <1>12, <1>13 DEF Position, MadeBy
-----------------------------------------------------------------------------
(* The lists begun and not ended: which nodes they will be, and how many   *)
(* of its members each has.                                                *)

\* A list begun, and how many of its members are read
Entry(d) == [node : 1..Root(d), done : Nat]
Next1(d, x) == Kids(d, x.node)[x.done + 1]

\* Lists begun, each the next member of the one before, the record first
Path(t, d, w) ==
  /\ w \in Seq(Entry(d)) /\ Len(w) \in Nat \ {0}
  /\ \A j \in 1..Len(w) : /\ IsOuter(t, d, w[j].node) /\ w[j].done \in 0..Len(Kids(d, w[j].node))
                          /\ w[j].node = Root(d) <=> j = 1
  /\ \A j \in 1..Len(w) - 1 : w[j].done < Len(Kids(d, w[j].node)) /\ w[j + 1].node = Next1(d, w[j])

\* The parser's lists for such a path, and what reading does to it
ListOf(d, x) == [type |-> d.nodes[x.node].type, name |-> d.nodes[x.node].name,
                 kids |-> SubSeq(Kids(d, x.node), 1, x.done)]
Lists(d, w)  == [j \in 1..Len(w) |-> ListOf(d, w[j])]

Top(w)      == w[Len(w)]
Inward(w, c) == Append(w, [node |-> c, done |-> 0])
Onward(w)   == [j \in 1..Len(w) |-> IF j = Len(w) THEN [node |-> w[j].node, done |-> w[j].done + 1] ELSE w[j]]
Outward(w)  == [j \in 1..Len(w) - 1 |-> w[j]]

\* The lists of a path are a stack.
LEMMA ListsRow ==
  ASSUME NEW d, NEW w, Len(w) \in Nat
  PROVE  /\ \E S : Lists(d, w) \in Seq(S)
         /\ Len(Lists(d, w)) = Len(w) /\ \A j \in 1..Len(w) : Lists(d, w)[j] = ListOf(d, w[j])
<1> DEFINE S == {ListOf(d, w[j]) : j \in 1..Len(w)}
<1>1. Lists(d, w) \in [1..Len(w) -> S]
  BY DEF Lists
<1> HIDE DEF S
<1>2. Lists(d, w) \in Seq(S) /\ Len(Lists(d, w)) = Len(w)
  BY <1>1, FunctionSeq
<1>3. \A j \in 1..Len(w) : Lists(d, w)[j] = ListOf(d, w[j])
  BY DEF Lists
<1> QED BY <1>2, <1>3

\* One element more of a sequence
LEMMA FewGrow ==
  ASSUME NEW S, NEW s \in Seq(S), NEW k \in Nat, k < Len(s)
  PROVE  SubSeq(s, 1, k + 1) = Append(SubSeq(s, 1, k), s[k + 1])
<1> DEFINE a == SubSeq(s, 1, k + 1) b == SubSeq(s, 1, k) e == Append(b, s[k + 1])
<1>1. a \in Seq(S) /\ Len(a) = k + 1 /\ \A i \in 1..k + 1 : a[i] = s[i]
  OBVIOUS
<1>2. b \in Seq(S) /\ Len(b) = k /\ \A i \in 1..k : b[i] = s[i]
  OBVIOUS
<1>3. s[k + 1] \in S
  OBVIOUS
<1> HIDE DEF a, b
<1>4. e \in Seq(S) /\ Len(e) = k + 1 /\ e[k + 1] = s[k + 1] /\ \A i \in 1..k : e[i] = b[i]
  BY <1>2, <1>3, AppendProperties
<1> HIDE DEF e
<1>5. \A i \in 1..k + 1 : a[i] = e[i]
  <2> TAKE i \in 1..k + 1
  <2>1. CASE i = k + 1
    BY <1>1, <1>4, <2>1
  <2>2. CASE i # k + 1
    <3>1. i \in 1..k
      BY <2>2
    <3> QED BY <1>1, <1>2, <1>4, <3>1
  <2> QED BY <2>1, <2>2
<1>6. a = e
  BY <1>1, <1>4, <1>5, SeqEqual
<1> QED BY <1>6 DEF a, b, e

\* A list with other members
LEMMA MoreKids ==
  ASSUME NEW x, NEW y, NEW z, NEW u
  PROVE  [[type |-> x, name |-> y, kids |-> z] EXCEPT !.kids = u] = [type |-> x, name |-> y, kids |-> u]
OBVIOUS

\* The list c begins, the member c of a list is behind, a list ends.
GoesIn(t, d, w, c, v) ==
  /\ Path(t, d, v) /\ Top(v) = [node |-> c, done |-> 0] /\ c # Root(d)
  /\ Lists(d, v) = Append(Lists(d, w), [type |-> d.nodes[c].type, name |-> d.nodes[c].name, kids |-> <<>>])

GoesOn(t, d, w, c, v) ==
  /\ Path(t, d, v) /\ Top(v) = [node |-> Top(w).node, done |-> Top(w).done + 1]
  /\ Lists(d, v) = [Lists(d, w) EXCEPT ![Len(Lists(d, w))].kids = Append(@, c)]

GoesOut(t, d, w, v) ==
  /\ Path(t, d, v) /\ Top(v).done < Len(Kids(d, Top(v).node))
  /\ Next1(d, Top(v)) = Top(w).node
  /\ Lists(d, v) = Front(Lists(d, w))

\* A list is opened: the next member of the innermost one.
LEMMA PathInward ==
  ASSUME NEW t, NEW d, NEW w, Path(t, d, w), RecordLaid(t, d),
         Top(w).done < Len(Kids(d, Top(w).node)), NEW c, c = Next1(d, Top(w)), PrintsList(t, d, c)
  PROVE  GoesIn(t, d, w, c, Inward(w, c))
<1> DEFINE L == Len(w)
           x == [node |-> c, done |-> 0]
           v == Inward(w, c)
<1>1. /\ w \in Seq(Entry(d)) /\ L \in Nat \ {0} /\ LayoutFacts(t, d)
      /\ \A j \in 1..L : IsOuter(t, d, w[j].node) /\ w[j].done \in 0..Len(Kids(d, w[j].node)) /\ (w[j].node = Root(d) <=> j = 1)
      /\ \A j \in 1..L - 1 : w[j].done < Len(Kids(d, w[j].node)) /\ w[j + 1].node = Next1(d, w[j])
  BY LayoutBounds DEF Path
<1>2. Top(w).node \in 1..Root(d) /\ Top(w).done \in Nat /\ Top(w) = w[L]
  <2>1. L \in 1..L
    BY <1>1
  <2>a. w[L] \in Entry(d)
    BY <1>1
  <2> HIDE DEF L
  <2>2. w[L] \in Entry(d) /\ IsOuter(t, d, w[L].node) /\ w[L].done \in 0..Len(Kids(d, w[L].node))
    BY <1>1, <2>1, <2>a
  <2>3. w[L].node \in 1..Root(d) /\ w[L].done \in Nat
    BY <2>2 DEF Entry
  <2> QED BY <2>3 DEF Top, L
<1>3. c \in 1..Root(d) /\ c # Root(d) /\ Len(Kids(d, c)) \in Nat
  <2>1. Root(d) \in Nat /\ Len(Kids(d, Top(w).node)) \in Nat
    BY <1>1, <1>2 DEF LayoutFacts
  <2>2. Top(w).done + 1 \in 1..Len(Kids(d, Top(w).node))
    BY <1>2, <2>1
  <2>3. c \in 1..(Top(w).node - 1) /\ c \in 1..Root(d)
    BY <1>1, <1>2, <2>2 DEF LayoutFacts, Next1
  <2>4. c # Root(d)
    BY <1>2, <2>1, <2>3
  <2> QED BY <1>1, <2>3, <2>4 DEF LayoutFacts
<1>4. x \in Entry(d)
  BY <1>3 DEF Entry
<1>5. v \in Seq(Entry(d)) /\ Len(v) = L + 1 /\ v[L + 1] = x /\ \A j \in 1..L : v[j] = w[j]
  BY <1>1, <1>4, AppendProperties DEF Inward
<1> HIDE DEF v, x, L
<1>6. x.node = c /\ x.done = 0
  BY DEF x
<1>7. ASSUME NEW j \in 1..L + 1
      PROVE  IsOuter(t, d, v[j].node) /\ v[j].done \in 0..Len(Kids(d, v[j].node)) /\ (v[j].node = Root(d) <=> j = 1)
  <2>1. CASE j = L + 1
    <3>1. j # 1 /\ v[j].node = c /\ v[j].done = 0 /\ 0 \in 0..Len(Kids(d, c))
      BY <1>1, <1>3, <1>5, <1>6, <2>1
    <3>2. IsOuter(t, d, c)
      BY <1>3 DEF IsOuter
    <3> QED BY <1>3, <3>1, <3>2
  <2>2. CASE j # L + 1
    <3>1. j \in 1..L
      BY <1>1, <2>2
    <3> QED BY <1>1, <1>5, <3>1
  <2> QED BY <2>1, <2>2
<1>8. ASSUME NEW j \in 1..L PROVE v[j].done < Len(Kids(d, v[j].node)) /\ v[j + 1].node = Next1(d, v[j])
  <2>1. CASE j = L
    BY <1>2, <1>5, <1>6, <2>1
  <2>2. CASE j # L
    <3>1. j \in 1..L - 1 /\ j + 1 \in 1..L
      BY <1>1, <2>2
    <3> QED BY <1>1, <1>5, <3>1
  <2> QED BY <2>1, <2>2
<1>9. Path(t, d, v)
  <2>1. Len(v) \in Nat \ {0} /\ Len(v) - 1 = L
    BY <1>1, <1>5
  <2> QED BY <1>5, <1>7, <1>8, <2>1 DEF Path
<1>10. Lists(d, v) = Append(Lists(d, w), ListOf(d, x))
  <2> PICK S : Lists(d, w) \in Seq(S)
    BY <1>1, ListsRow DEF L
  <2> DEFINE a == Lists(d, w) b == ListOf(d, x) e == Append(a, b)
  <2>1. Len(a) = L /\ \A j \in 1..L : a[j] = ListOf(d, w[j])
    BY <1>1, ListsRow DEF L
  <2>2. a \in Seq(S \union {b}) /\ b \in S \union {b}
    <3>1. \A j \in 1..Len(a) : a[j] \in S
      OBVIOUS
    <3> HIDE DEF a, b
    <3> QED BY <3>1 DEF a
  <2> HIDE DEF a, b
  <2>3. e \in Seq(S \union {b}) /\ Len(e) = L + 1 /\ e[L + 1] = b /\ \A j \in 1..L : e[j] = a[j]
    BY <2>1, <2>2, AppendProperties
  <2> HIDE DEF e
  <2>4. DOMAIN e = 1..L + 1 /\ e = [j \in 1..L + 1 |-> e[j]]
    BY <2>3
  <2>5. \A j \in 1..L + 1 : e[j] = ListOf(d, v[j])
    <3> TAKE j \in 1..L + 1
    <3>1. CASE j = L + 1
      BY <1>5, <2>3, <3>1 DEF b
    <3>2. CASE j # L + 1
      <4>1. j \in 1..L
        BY <1>1, <3>2
      <4> QED BY <1>5, <2>1, <2>3, <4>1
    <3> QED BY <3>1, <3>2
  <2>6. Lists(d, v) = [j \in 1..L + 1 |-> ListOf(d, v[j])]
    BY <1>5 DEF Lists
  <2>7. Lists(d, v) = e
    BY <2>4, <2>5, <2>6
  <2> QED BY <2>7 DEF e, a, b
<1>11. ListOf(d, x) = [type |-> d.nodes[c].type, name |-> d.nodes[c].name, kids |-> <<>>]
  <2>1. Kids(d, c) \in Seq(1..(c - 1))
    BY <1>1, <1>3 DEF LayoutFacts
  <2>2. SubSeq(Kids(d, c), 1, 0) = <<>>
    BY <2>1
  <2> QED BY <1>6, <2>2 DEF ListOf
<1>12. Top(v) = x
  BY <1>5 DEF Top
<1> QED BY <1>3, <1>9, <1>10, <1>11, <1>12 DEF v, x, GoesIn

\* A member joins the innermost list.
LEMMA PathOnward ==
  ASSUME NEW t, NEW d, NEW w, Path(t, d, w), RecordLaid(t, d),
         Top(w).done < Len(Kids(d, Top(w).node)), NEW c, c = Next1(d, Top(w))
  PROVE  GoesOn(t, d, w, c, Onward(w))
<1> DEFINE L == Len(w)
           v == Onward(w)
           x == [node |-> w[L].node, done |-> w[L].done + 1]
<1>1. /\ w \in Seq(Entry(d)) /\ L \in Nat \ {0} /\ LayoutFacts(t, d)
      /\ \A j \in 1..L : IsOuter(t, d, w[j].node) /\ w[j].done \in 0..Len(Kids(d, w[j].node)) /\ (w[j].node = Root(d) <=> j = 1)
      /\ \A j \in 1..L - 1 : w[j].done < Len(Kids(d, w[j].node)) /\ w[j + 1].node = Next1(d, w[j])
  BY LayoutBounds DEF Path
<1>2. L \in 1..L
  BY <1>1
<1>3. w[L].node \in 1..Root(d) /\ w[L].done \in Nat /\ Top(w) = w[L]
  <2>a. w[L] \in Entry(d)
    BY <1>1
  <2> HIDE DEF L
  <2>1. w[L] \in Entry(d) /\ IsOuter(t, d, w[L].node) /\ w[L].done \in 0..Len(Kids(d, w[L].node))
    BY <1>1, <1>2, <2>a
  <2>2. w[L].node \in 1..Root(d) /\ w[L].done \in Nat
    BY <2>1 DEF Entry
  <2> QED BY <2>2 DEF Top, L
<1>4. /\ Kids(d, w[L].node) \in Seq(1..(w[L].node - 1)) /\ Len(Kids(d, w[L].node)) \in Nat
      /\ w[L].done < Len(Kids(d, w[L].node)) /\ c = Kids(d, w[L].node)[w[L].done + 1]
  <2> HIDE DEF L
  <2> QED BY <1>1, <1>3 DEF LayoutFacts, Next1
<1>5. x \in Entry(d) /\ x.node = w[L].node /\ x.done = w[L].done + 1
  <2> HIDE DEF L
  <2> QED BY <1>3 DEF Entry
<1>6. \A j \in 1..L : v[j] = IF j = L THEN x ELSE w[j]
  BY DEF Onward
<1> HIDE DEF x
<1>7. v \in Seq(Entry(d)) /\ Len(v) = L
  <2>1. v = [j \in 1..L |-> v[j]]
    BY DEF Onward
  <2>2. \A j \in 1..L : v[j] \in Entry(d)
    BY <1>1, <1>5, <1>6
  <2> HIDE DEF v, L
  <2>3. v \in [1..L -> Entry(d)]
    BY <2>1, <2>2
  <2> QED BY <1>1, <2>3, FunctionSeq
<1> HIDE DEF v, L
<1>8. ASSUME NEW j \in 1..L
      PROVE  IsOuter(t, d, v[j].node) /\ v[j].done \in 0..Len(Kids(d, v[j].node)) /\ (v[j].node = Root(d) <=> j = 1)
  <2>1. v[j].node = w[j].node
    BY <1>5, <1>6
  <2>2. v[j].done \in 0..Len(Kids(d, w[j].node))
    <3>1. CASE j = L
      <4>1. w[L].done + 1 \in 0..Len(Kids(d, w[L].node))
        BY <1>3, <1>4
      <4> QED BY <1>5, <1>6, <3>1, <4>1
    <3>2. CASE j # L
      BY <1>1, <1>6, <3>2
    <3> QED BY <3>1, <3>2
  <2> QED BY <1>1, <2>1, <2>2
<1>9. ASSUME NEW j \in 1..L - 1 PROVE v[j].done < Len(Kids(d, v[j].node)) /\ v[j + 1].node = Next1(d, v[j])
  <2>1. j \in 1..L /\ j # L /\ j + 1 \in 1..L
    BY <1>1
  <2>2. v[j] = w[j] /\ v[j + 1].node = w[j + 1].node
    BY <1>5, <1>6, <2>1
  <2> QED BY <1>1, <2>2
<1>10. Path(t, d, v)
  BY <1>1, <1>7, <1>8, <1>9 DEF Path
<1>11. Top(v) = [node |-> Top(w).node, done |-> Top(w).done + 1]
  BY <1>2, <1>3, <1>6, <1>7 DEF Top, x
<1>12. Lists(d, v) = [Lists(d, w) EXCEPT ![Len(Lists(d, w))].kids = Append(@, c)]
  <2> DEFINE a == Lists(d, w) e == [a EXCEPT ![L].kids = Append(@, c)]
  <2>1. a = [j \in 1..L |-> ListOf(d, w[j])] /\ Len(a) = L
    BY <1>1, ListsRow DEF Lists, L
  <2> HIDE DEF a
  <2>2. e = [j \in 1..L |-> IF j = L THEN [a[L] EXCEPT !.kids = Append(a[L].kids, c)] ELSE a[j]]
    BY <1>2, <2>1
  <2>3. [a[L] EXCEPT !.kids = Append(a[L].kids, c)] = ListOf(d, x)
    <3>1. SubSeq(Kids(d, w[L].node), 1, w[L].done + 1) = Append(SubSeq(Kids(d, w[L].node), 1, w[L].done), c)
      BY <1>3, <1>4, FewGrow
    <3>2. a[L] = ListOf(d, w[L])
      BY <1>2, <2>1
    <3>3. ListOf(d, x) = [type |-> d.nodes[w[L].node].type, name |-> d.nodes[w[L].node].name,
                          kids |-> SubSeq(Kids(d, w[L].node), 1, w[L].done + 1)]
      BY <1>5 DEF ListOf
    <3> DEFINE z == ListOf(d, w[L])
    <3>4. z.kids = SubSeq(Kids(d, w[L].node), 1, w[L].done)
      BY DEF ListOf
    <3>5. [z EXCEPT !.kids = Append(z.kids, c)]
            = [type |-> d.nodes[w[L].node].type, name |-> d.nodes[w[L].node].name, kids |-> Append(z.kids, c)]
      <4> DEFINE p == d.nodes[w[L].node].type q == d.nodes[w[L].node].name
                 r == SubSeq(Kids(d, w[L].node), 1, w[L].done) u == Append(z.kids, c)
      <4>1. z = [type |-> p, name |-> q, kids |-> r]
        BY DEF ListOf
      <4> HIDE DEF p, q, r, u
      <4>2. [[type |-> p, name |-> q, kids |-> r] EXCEPT !.kids = u] = [type |-> p, name |-> q, kids |-> u]
        BY MoreKids
      <4> HIDE DEF z
      <4>3. [z EXCEPT !.kids = u] = [type |-> p, name |-> q, kids |-> u]
        BY <4>1, <4>2
      <4> QED BY <4>3 DEF p, q, u
    <3> HIDE DEF z
    <3> QED BY <3>1, <3>2, <3>3, <3>4, <3>5 DEF z
  <2>4. \A j \in 1..L : (IF j = L THEN ListOf(d, x) ELSE a[j]) = ListOf(d, v[j])
    BY <1>6, <2>1
  <2>5. e = [j \in 1..L |-> ListOf(d, v[j])]
    <3> HIDE DEF e
    <3> QED BY <2>2, <2>3, <2>4
  <2>6. Lists(d, v) = e
    <3> HIDE DEF e
    <3> QED BY <1>7, <2>5 DEF Lists
  <2> QED BY <2>1, <2>6 DEF a
<1> QED BY <1>10, <1>11, <1>12 DEF v, GoesOn

\* A list is closed, and joins the one it is in.
LEMMA PathOutward ==
  ASSUME NEW t, NEW d, NEW w, Path(t, d, w), RecordLaid(t, d), Len(w) > 1
  PROVE  GoesOut(t, d, w, Outward(w))
<1> DEFINE L == Len(w)
           v == Outward(w)
<1>1. /\ w \in Seq(Entry(d)) /\ L \in Nat \ {0}
      /\ \A j \in 1..L : IsOuter(t, d, w[j].node) /\ w[j].done \in 0..Len(Kids(d, w[j].node)) /\ (w[j].node = Root(d) <=> j = 1)
      /\ \A j \in 1..L - 1 : w[j].done < Len(Kids(d, w[j].node)) /\ w[j + 1].node = Next1(d, w[j])
  BY DEF Path
<1>2. L - 1 \in Nat \ {0} /\ L - 1 \in 1..L - 1 /\ (L - 1) + 1 = L /\ L - 1 \in 1..L
  BY <1>1
<1>3. v \in Seq(Entry(d)) /\ Len(v) = L - 1 /\ \A j \in 1..L - 1 : v[j] = w[j]
  <2>1. v = [j \in 1..L - 1 |-> w[j]]
    BY DEF Outward
  <2>2. \A j \in 1..L - 1 : w[j] \in Entry(d)
    <3>1. \A j \in 1..L - 1 : j \in 1..L
      BY <1>1
    <3> QED BY <1>1, <3>1
  <2> HIDE DEF v, L
  <2>3. v \in [1..L - 1 -> Entry(d)]
    BY <2>1, <2>2
  <2>4. v \in Seq(Entry(d)) /\ Len(v) = L - 1
    BY <1>2, <2>3, FunctionSeq
  <2> QED BY <2>1, <2>4
<1> HIDE DEF v, L
<1>4. Path(t, d, v)
  <2>1. \A j \in 1..Len(v) : j \in 1..L /\ v[j] = w[j]
    BY <1>1, <1>2, <1>3
  <2>2. \A j \in 1..Len(v) - 1 : j \in 1..L - 1 /\ j \in 1..Len(v) /\ j + 1 \in 1..Len(v)
    BY <1>1, <1>2, <1>3
  <2>3. \A j \in 1..Len(v) - 1 : v[j].done < Len(Kids(d, v[j].node)) /\ v[j + 1].node = Next1(d, v[j])
    <3> TAKE j \in 1..Len(v) - 1
    <3>1. v[j] = w[j] /\ v[j + 1] = w[j + 1] /\ j \in 1..L - 1
      BY <2>1, <2>2
    <3> QED BY <1>1, <3>1
  <2>4. Len(v) \in Nat \ {0}
    BY <1>2, <1>3
  <2> QED BY <1>1, <1>3, <2>1, <2>3, <2>4 DEF Path
<1>5. Top(v) = w[L - 1] /\ Top(w) = w[(L - 1) + 1]
  BY <1>2, <1>3 DEF Top, L
<1>6. Top(v).done < Len(Kids(d, Top(v).node)) /\ Next1(d, Top(v)) = Top(w).node
  <2> PICK j : j = L - 1
    OBVIOUS
  <2> QED BY <1>1, <1>2, <1>5
<1>7. Lists(d, v) = Front(Lists(d, w))
  <2> DEFINE a == Lists(d, w) b == Lists(d, v) e == SubSeq(a, 1, Len(a) - 1)
  <2> PICK S : a \in Seq(S)
    BY <1>1, ListsRow DEF L
  <2>1. Len(a) = L /\ \A j \in 1..L : a[j] = ListOf(d, w[j])
    BY <1>1, ListsRow DEF L
  <2>2. Len(b) = L - 1 /\ b = [j \in 1..L - 1 |-> ListOf(d, v[j])]
    <3>1. Len(v) \in Nat
      BY <1>2, <1>3
    <3> QED BY <1>3, <3>1, ListsRow DEF Lists
  <2> HIDE DEF a, b
  <2>3. e = [j \in 1..L - 1 |-> a[j]]
    BY <1>1, <1>2, <2>1
  <2>4. \A j \in 1..L - 1 : a[j] = ListOf(d, v[j])
    <3> TAKE j \in 1..L - 1
    <3>1. j \in 1..L /\ v[j] = w[j]
      BY <1>1, <1>3
    <3> QED BY <2>1, <3>1
  <2> HIDE DEF e
  <2>5. b = e
    BY <2>2, <2>3, <2>4
  <2> QED BY <2>5 DEF e, a, b, Front
<1> QED BY <1>4, <1>6, <1>7 DEF v, GoesOut
-----------------------------------------------------------------------------
(* Where the parser is in a record, by its mode, k members of the list i   *)
(* behind it                                                               *)

Member(d, i, k) == Kids(d, i)[k + 1]

Stage(d, p, i, k) ==
  LET c == Member(d, i, k) more == k < Len(Kids(d, i)) IN
  \/ mode = "after" /\ name = "" /\ p + 1 = Place(d, i, k) /\ (k > 0 \/ i = Root(d))
  \/ mode = "first" /\ name = "" /\ p + 1 = Place(d, i, k) /\ k = 0 /\ i # Root(d)
  \/ mode = "item"  /\ name = "" /\ p + 1 = d.at[c] /\ more
  \/ mode = "named" /\ name = d.nodes[c].name /\ name # "" /\ p + 1 = d.at[c] + 1 /\ more
  \/ mode = "value" /\ name = d.nodes[c].name /\ p + 1 = Inside(d, c) /\ more

\* The parser is in the lists w.
Within(t, d, p, w) ==
  /\ Path(t, d, w) /\ open = Lists(d, w) /\ tag = d.nodes[Root(d)].text
  /\ Stage(d, p, Top(w).node, Top(w).done)

\* What comes next, and where it ends
EndAt(t, d, p, i) ==
  t[p + 1].kind = (IF i = Root(d) THEN "NL" ELSE Closing[d.nodes[i].type]) /\ d.to[i] = (p + 1) + 1

NameAt(t, d, p, c) ==
  /\ d.nodes[c].name # "" /\ d.at[c] = p + 1
  /\ t[p + 1].kind = "STRING" /\ t[p + 1].val = d.nodes[c].name

ValueAt(t, d, p, c) ==
  LET node == d.nodes[c] IN
  /\ Inside(d, c) = p + 1
  /\ \/ t[p + 1].kind = "CSTRING" /\ node.type = "const" /\ node.kids = <<>> /\ t[p + 1].val = Quoted(node.text)
        /\ d.to[c] = (p + 1) + 1
     \/ t[p + 1].kind = "{" /\ node.type = "tuple" /\ PrintsList(t, d, c)
     \/ t[p + 1].kind = "[" /\ node.type = "list" /\ PrintsList(t, d, c)

Ahead(t, d, p, i, k) ==
  LET c == Member(d, i, k) n == Len(Kids(d, i)) IN
  \/ mode = "after" /\ name = "" /\ k = n /\ EndAt(t, d, p, i)
  \/ mode = "first" /\ name = "" /\ k = n /\ EndAt(t, d, p, i) /\ i # Root(d)
  \/ mode = "after" /\ name = "" /\ k < n /\ t[p + 1].kind = "," /\ d.at[c] = (p + 1) + 1
  \/ mode \in {"first", "item"} /\ name = "" /\ k < n /\ NameAt(t, d, p, c)
  \/ mode \in {"first", "item"} /\ name = d.nodes[c].name /\ k < n /\ ValueAt(t, d, p, c)
  \/ mode = "named" /\ name = d.nodes[c].name /\ k < n /\ t[p + 1].kind = "=" /\ Inside(d, c) = (p + 1) + 1
  \/ mode = "value" /\ name = d.nodes[c].name /\ k < n /\ ValueAt(t, d, p, c)

\* The innermost list
InnerFacts(t, d, w, i, k) ==
  /\ i = Top(w).node /\ k = Top(w).done /\ i \in 1..Root(d) /\ Root(d) \in Nat /\ IsOuter(t, d, i)
  /\ Len(Kids(d, i)) \in Nat /\ k \in 0..Len(Kids(d, i)) /\ k \in Nat
  /\ k < Len(Kids(d, i)) => Member(d, i, k) \in 1..(Root(d) - 1) /\ Member(d, i, k) = Next1(d, Top(w))
  /\ Len(w) \in Nat \ {0} /\ (Len(w) > 1 <=> i # Root(d))
  /\ i # Root(d) => Closing[d.nodes[i].type] \in {"}", "]"}

\* The innermost list is one of the layout's, and its next member is a node.
LEMMA Inners ==
  ASSUME NEW t, NEW d, RecordLaid(t, d), NEW w, Path(t, d, w)
  PROVE  InnerFacts(t, d, w, Top(w).node, Top(w).done)
<1> DEFINE L == Len(w)
           i == w[L].node
           k == w[L].done
<1>1. LayoutFacts(t, d)
  BY LayoutBounds
<1>2. L \in Nat \ {0} /\ L \in 1..L /\ Top(w) = w[L] /\ w[L] \in Entry(d)
  BY DEF Path, Top
<1>3. IsOuter(t, d, i) /\ k \in 0..Len(Kids(d, i)) /\ (i = Root(d) <=> L = 1)
  <2> HIDE DEF L
  <2> QED BY <1>2 DEF Path, L
<1> HIDE DEF L, i, k
<1>4. i \in 1..Root(d) /\ Root(d) \in Nat /\ Len(Kids(d, i)) \in Nat /\ k \in Nat
  <2>1. i \in 1..Root(d)
    BY <1>3 DEF IsOuter
  <2>2. Root(d) \in Nat /\ Len(Kids(d, i)) \in Nat
    BY <1>1, <2>1 DEF LayoutFacts
  <2> QED BY <1>3, <2>1, <2>2
<1>5. ASSUME k < Len(Kids(d, i)) PROVE Member(d, i, k) \in 1..(Root(d) - 1)
  <2>1. k + 1 \in 1..Len(Kids(d, i))
    BY <1>4, <1>5
  <2>2. Kids(d, i)[k + 1] \in 1..(i - 1)
    BY <1>1, <1>4, <2>1 DEF LayoutFacts
  <2> QED BY <1>4, <2>2 DEF Member
<1>6. Member(d, i, k) = Next1(d, Top(w))
  BY <1>2 DEF Member, Next1, i, k
<1>7. L > 1 <=> i # Root(d)
  BY <1>2, <1>3
<1>8. ASSUME i # Root(d) PROVE Closing[d.nodes[i].type] \in {"}", "]"}
  <2>1. d.nodes[i].type \in {"tuple", "list"}
    BY <1>3, <1>8 DEF IsOuter, PrintsList
  <2>2. Closing["tuple"] = "}" /\ Closing["list"] = "]"
    BY DEF Closing
  <2> QED BY <2>1, <2>2
<1>9. i = Top(w).node /\ k = Top(w).done
  BY <1>2 DEF i, k
<1> QED BY <1>2, <1>3, <1>4, <1>5, <1>6, <1>7, <1>8, <1>9 DEF InnerFacts, L

\* In each mode, the token that comes is one the layout says and the parser waits for.
LEMMA ComesNext ==
  ASSUME NEW t, NEW d, RecordLaid(t, d), NEW p \in Nat, NEW w, Path(t, d, w),
         NEW i, NEW k, InnerFacts(t, d, w, i, k), Stage(d, p, i, k)
  PROVE  Ahead(t, d, p, i, k) /\ p + 1 \in 1..Len(t)
<1> DEFINE n == Len(Kids(d, i))
           c == Member(d, i, k)
<1>1. n \in Nat /\ k \in 0..n /\ k \in Nat /\ (k = n \/ k < n) /\ (k > 0 \/ k = 0)
  <2>1. n \in Nat /\ k \in 0..n /\ k \in Nat
    BY DEF InnerFacts
  <2> HIDE DEF n
  <2> QED BY <2>1
<1>2. NodeBehind(t, d, i, k)
  BY <1>1, BehindMembers DEF InnerFacts
<1>3. ASSUME k < n PROVE Coming(t, d, c)
  BY <1>3, ComingNode DEF InnerFacts
<1>4. ASSUME k < n, d.at[c] = p + 1
      PROVE  (NameAt(t, d, p, c) \/ (d.nodes[c].name = "" /\ ValueAt(t, d, p, c))) /\ p + 1 \in 1..Len(t)
  <2>1. CASE d.nodes[c].name # ""
    BY <1>3, <1>4, <2>1 DEF Coming, NameAt
  <2>2. CASE d.nodes[c].name = ""
    <3>1. Inside(d, c) = p + 1
      BY <1>3, <1>4, <2>2 DEF Coming
    <3> QED BY <1>3, <1>4, <2>2, <3>1 DEF Coming, ValueAt
  <2> QED BY <2>1, <2>2
<1> HIDE DEF n, c
<1>5. CASE mode = "after" /\ name = "" /\ p + 1 = Place(d, i, k) /\ (k > 0 \/ i = Root(d))
  <2>1. CASE k = n
    BY <1>2, <1>5, <2>1 DEF NodeBehind, EndAt, Ahead, n
  <2>2. CASE k < n
    BY <1>2, <1>5, <2>2 DEF NodeBehind, Ahead, n, c, Member
  <2> QED BY <1>1, <2>1, <2>2
<1>6. CASE mode = "first" /\ name = "" /\ p + 1 = Place(d, i, k) /\ k = 0 /\ i # Root(d)
  <2>1. CASE k = n
    BY <1>2, <1>6, <2>1 DEF NodeBehind, EndAt, Ahead, n
  <2>2. CASE k < n
    <3>1. d.at[c] = p + 1
      <4>1. k + 1 = 1 /\ k = 0
        <5>1. k = 0
          BY <1>6
        <5> QED BY <5>1
      <4> QED BY <1>2, <1>6, <2>2, <4>1 DEF NodeBehind, n, c, Member
    <3> QED BY <1>4, <1>6, <2>2, <3>1 DEF Ahead, n, c
  <2> QED BY <1>1, <2>1, <2>2
<1>7. CASE mode = "item"  /\ name = "" /\ p + 1 = d.at[c] /\ k < n
  BY <1>4, <1>7 DEF Ahead, n, c
<1>8. CASE mode = "named" /\ name = d.nodes[c].name /\ name # "" /\ p + 1 = d.at[c] + 1 /\ k < n
  <2>1. /\ d.at[c] + 1 \in 1..Len(t) /\ t[d.at[c] + 1].kind = "=" /\ Inside(d, c) = d.at[c] + 2 /\ d.at[c] \in 1..Len(t)
    BY <1>3, <1>8 DEF Coming
  <2>2. d.at[c] + 2 = (p + 1) + 1
    <3> PICK a : a = d.at[c]
      OBVIOUS
    <3>a. a \in 1..Len(t)
      BY <2>1
    <3>b. p + 1 = a + 1
      BY <1>8
    <3>1. a \in Nat /\ p + 1 = a + 1
      BY <3>a, <3>b
    <3>2. a + 2 = (p + 1) + 1
      BY <3>1
    <3> QED BY <3>2
  <2> QED BY <1>8, <2>1, <2>2 DEF Ahead, n, c
<1>9. CASE mode = "value" /\ name = d.nodes[c].name /\ p + 1 = Inside(d, c) /\ k < n
  <2>1. ValueAt(t, d, p, c) /\ p + 1 \in 1..Len(t)
    BY <1>3, <1>9 DEF Coming, ValueAt
  <2> QED BY <1>9, <2>1 DEF Ahead, n, c
<1> QED BY <1>5, <1>6, <1>7, <1>8, <1>9 DEF Stage, n, c
-----------------------------------------------------------------------------
\* A token the parser takes is the one at its position.
LEMMA ExpectsHere ==
  ASSUME NEW t, NEW d, RecordLaid(t, d), NEW p, Position(t, d, p), NEW modes, NEW kinds, Expects(modes, kinds)
  PROVE  /\ rest # <<>> /\ p \in Nat /\ mode \in modes
         /\ Head(rest) = t[p + 1] /\ t[p + 1].kind \in kinds
         /\ line' = line /\ output' = output /\ given' = given
<1>1. rest # <<>> /\ mode \in modes /\ Head(rest).kind \in kinds /\ line' = line /\ output' = output /\ given' = given
  BY DEF Expects, At
<1>2. p \in 0..Len(t) /\ rest = SubSeq(t, p + 1, Len(t)) /\ IsRow(t)
  BY DEF Position, RecordLaid
<1>3. Head(rest) = t[p + 1]
  BY <1>1, <1>2, NextToken
<1>4. p \in Nat
  BY <1>2
<1> QED BY <1>1, <1>3, <1>4

\* The parser has read p tokens of a record, and is in its lists.
InLists(t, d, p) == Position(t, d, p) /\ \E w : Within(t, d, p, w)

\* gdb wrote no character of a plain line in octal.
PlainIn(d) == line.plain => \A i \in 1..Root(d) : Plain(d.nodes[i].text)

\* After a comma comes the next member.
LEMMA CommaInLists ==
  ASSUME NEW t, NEW d, RecordLaid(t, d), NEW p, InLists(t, d, p), ReadComma
  PROVE  InLists(t, d, p + 1)'
<1> PICK w : Within(t, d, p, w)
  BY DEF InLists
<1> PICK i, k : i = Top(w).node /\ k = Top(w).done
  OBVIOUS
<1>1. Path(t, d, w) /\ open = Lists(d, w) /\ tag = d.nodes[Root(d)].text /\ Stage(d, p, i, k) /\ Position(t, d, p)
  BY DEF Within, InLists
<1>2. Expects({"after"}, {","}) /\ NoNode
      /\ rest' = Tail(rest) /\ mode' = "item" /\ tag' = tag /\ name' = name /\ open' = open
  BY DEF ReadComma, Shift
<1>3. /\ rest # <<>> /\ p \in Nat /\ mode \in {"after"} /\ Head(rest) = t[p + 1] /\ t[p + 1].kind \in {","} /\ line' = line
  BY <1>1, <1>2, ExpectsHere
<1>4. InnerFacts(t, d, w, i, k)
  BY <1>1, Inners
<1>5. Ahead(t, d, p, i, k)
  BY <1>1, <1>3, <1>4, ComesNext
<1>6. ~ EndAt(t, d, p, i)
  BY <1>3, <1>4 DEF EndAt, InnerFacts
<1>7. name = "" /\ k < Len(Kids(d, i)) /\ d.at[Member(d, i, k)] = (p + 1) + 1
  BY <1>3, <1>5, <1>6 DEF Ahead
<1>8. Position(t, d, p + 1)'
  <2>1. Head(rest).kind \notin Ends
    BY <1>3 DEF Ends
  <2> QED BY <1>1, <1>2, <1>3, <2>1, ShiftOver
<1>9. Stage(d, p + 1, i, k)'
  BY <1>2, <1>7 DEF Stage
<1>10. Within(t, d, p + 1, w)'
  BY <1>1, <1>2, <1>9 DEF Within
<1> QED BY <1>8, <1>10 DEF InLists
-----------------------------------------------------------------------------
\* A variable is the name of the next member.
LEMMA VariableInLists ==
  ASSUME NEW t, NEW d, RecordLaid(t, d), NEW p, InLists(t, d, p), ReadVariable
  PROVE  InLists(t, d, p + 1)'
<1> PICK w : Within(t, d, p, w)
  BY DEF InLists
<1> PICK i, k : i = Top(w).node /\ k = Top(w).done
  OBVIOUS
<1>1. Path(t, d, w) /\ open = Lists(d, w) /\ tag = d.nodes[Root(d)].text /\ Stage(d, p, i, k) /\ Position(t, d, p)
  BY DEF Within, InLists
<1>2. Expects({"item", "first"}, {"STRING"}) /\ NoNode
      /\ rest' = Tail(rest) /\ mode' = "named" /\ tag' = tag /\ name' = Head(rest).val /\ open' = open
  BY DEF ReadVariable, Shift
<1>3. /\ rest # <<>> /\ p \in Nat /\ mode \in {"item", "first"} /\ Head(rest) = t[p + 1] /\ t[p + 1].kind \in {"STRING"}
      /\ line' = line
  BY <1>1, <1>2, ExpectsHere
<1>4. InnerFacts(t, d, w, i, k)
  BY <1>1, Inners
<1>5. Ahead(t, d, p, i, k)
  BY <1>1, <1>3, <1>4, ComesNext
<1>6. ~ (EndAt(t, d, p, i) /\ i # Root(d)) /\ ~ ValueAt(t, d, p, Member(d, i, k))
  BY <1>3, <1>4 DEF EndAt, ValueAt, InnerFacts
<1>7. k < Len(Kids(d, i)) /\ NameAt(t, d, p, Member(d, i, k))
  BY <1>3, <1>5, <1>6 DEF Ahead
<1>8. Position(t, d, p + 1)'
  <2>1. Head(rest).kind \notin Ends
    BY <1>3 DEF Ends
  <2> QED BY <1>1, <1>2, <1>3, <2>1, ShiftOver
<1>9. Stage(d, p + 1, i, k)'
  BY <1>2, <1>3, <1>7 DEF Stage, NameAt
<1>10. Within(t, d, p + 1, w)'
  BY <1>1, <1>2, <1>9 DEF Within
<1> QED BY <1>8, <1>10 DEF InLists

\* After the equals sign comes the member's value.
LEMMA EqualInLists ==
  ASSUME NEW t, NEW d, RecordLaid(t, d), NEW p, InLists(t, d, p), ReadEqual
  PROVE  InLists(t, d, p + 1)'
<1> PICK w : Within(t, d, p, w)
  BY DEF InLists
<1> PICK i, k : i = Top(w).node /\ k = Top(w).done
  OBVIOUS
<1>1. Path(t, d, w) /\ open = Lists(d, w) /\ tag = d.nodes[Root(d)].text /\ Stage(d, p, i, k) /\ Position(t, d, p)
  BY DEF Within, InLists
<1>2. Expects({"named"}, {"="}) /\ NoNode
      /\ rest' = Tail(rest) /\ mode' = "value" /\ tag' = tag /\ name' = name /\ open' = open
  BY DEF ReadEqual, Shift
<1>3. /\ rest # <<>> /\ p \in Nat /\ mode \in {"named"} /\ Head(rest) = t[p + 1] /\ t[p + 1].kind \in {"="} /\ line' = line
  BY <1>1, <1>2, ExpectsHere
<1>4. InnerFacts(t, d, w, i, k)
  BY <1>1, Inners
<1>5. Ahead(t, d, p, i, k)
  BY <1>1, <1>3, <1>4, ComesNext
<1>7. /\ name = d.nodes[Member(d, i, k)].name /\ k < Len(Kids(d, i))
      /\ Inside(d, Member(d, i, k)) = (p + 1) + 1
  BY <1>3, <1>5 DEF Ahead
<1>8. Position(t, d, p + 1)'
  <2>1. Head(rest).kind \notin Ends
    BY <1>3 DEF Ends
  <2> QED BY <1>1, <1>2, <1>3, <2>1, ShiftOver
<1>9. Stage(d, p + 1, i, k)'
  BY <1>2, <1>7 DEF Stage
<1>10. Within(t, d, p + 1, w)'
  BY <1>1, <1>2, <1>9 DEF Within
<1> QED BY <1>8, <1>10 DEF InLists

\* An opening bracket begins the list that is the next member.
LEMMA OpenInLists ==
  ASSUME NEW t, NEW d, RecordLaid(t, d), NEW p, InLists(t, d, p), OpenList
  PROVE  InLists(t, d, p + 1)'
<1> PICK w : Within(t, d, p, w)
  BY DEF InLists
<1> PICK i, k : i = Top(w).node /\ k = Top(w).done
  OBVIOUS
<1> PICK c : c = Member(d, i, k)
  OBVIOUS
<1>1. Path(t, d, w) /\ open = Lists(d, w) /\ tag = d.nodes[Root(d)].text /\ Stage(d, p, i, k) /\ Position(t, d, p)
  BY DEF Within, InLists
<1>2. Expects({"item", "first", "value"}, {"{", "["}) /\ NoNode
      /\ rest' = Tail(rest) /\ mode' = "first" /\ tag' = tag /\ name' = ""
  BY DEF OpenList, Shift
<1>3. /\ rest # <<>> /\ p \in Nat /\ mode \in {"item", "first", "value"} /\ Head(rest) = t[p + 1] /\ t[p + 1].kind \in {"{", "["}
      /\ line' = line
  BY <1>1, <1>2, ExpectsHere
<1>4. InnerFacts(t, d, w, i, k)
  BY <1>1, Inners
<1>5. Ahead(t, d, p, i, k)
  BY <1>1, <1>3, <1>4, ComesNext
<1>6. ~ (EndAt(t, d, p, i) /\ i # Root(d)) /\ ~ NameAt(t, d, p, c)
  BY <1>3, <1>4 DEF EndAt, NameAt, InnerFacts
<1>7. k < Len(Kids(d, i)) /\ name = d.nodes[c].name /\ ValueAt(t, d, p, c)
  BY <1>3, <1>5, <1>6 DEF Ahead
<1>8. Position(t, d, p + 1)'
  <2>1. Head(rest).kind \notin Ends
    BY <1>3 DEF Ends
  <2> QED BY <1>1, <1>2, <1>3, <2>1, ShiftOver
<1>9. /\ Inside(d, c) = p + 1 /\ PrintsList(t, d, c)
      /\ d.nodes[c].type = (IF t[p + 1].kind = "{" THEN "tuple" ELSE "list")
  BY <1>3, <1>7 DEF ValueAt
<1> DEFINE v == Inward(w, c)
<1>10. /\ Path(t, d, v) /\ Top(v) = [node |-> c, done |-> 0] /\ c # Root(d)
       /\ Lists(d, v) = Append(Lists(d, w), [type |-> d.nodes[c].type, name |-> d.nodes[c].name, kids |-> <<>>])
  <2>1. Top(w).done < Len(Kids(d, Top(w).node)) /\ c = Next1(d, Top(w))
    BY <1>4, <1>7 DEF InnerFacts
  <2>2. Path(t, d, w) /\ PrintsList(t, d, c)
    BY <1>1, <1>9
  <2>3. GoesIn(t, d, w, c, v)
    BY <2>1, <2>2, PathInward
  <2> HIDE DEF v
  <2> QED BY <2>3 DEF GoesIn
<1>11. open' = Lists(d, v)
  <2>1. open' = Append(open, [type |-> IF Head(rest).kind \in {"{"} THEN "tuple" ELSE "list", name |-> name, kids |-> <<>>])
    BY <1>3 DEF OpenList, Push, At
  <2>2. (IF Head(rest).kind \in {"{"} THEN "tuple" ELSE "list") = d.nodes[c].type
    BY <1>3, <1>9
  <2> HIDE DEF v
  <2> QED BY <1>1, <1>7, <1>10, <2>1, <2>2
<1> HIDE DEF v
<1>12. Stage(d, p + 1, c, 0)'
  <2>1. Place(d, c, 0) = (p + 1) + 1
    <3>1. Place(d, c, 0) = Inside(d, c) + 1
      BY <1>10 DEF Place
    <3> QED BY <1>9, <3>1
  <2> QED BY <1>2, <1>10, <2>1 DEF Stage
<1>13. Top(v).node = c /\ Top(v).done = 0
  BY <1>10
<1>14. Within(t, d, p + 1, v)'
  BY <1>1, <1>2, <1>10, <1>11, <1>12, <1>13 DEF Within
<1>15. \E u : Within(t, d, p + 1, u)'
  BY <1>14
<1> QED BY <1>8, <1>15 DEF InLists
-----------------------------------------------------------------------------
\* A sequence over a set is one over a larger set.
LEMMA WiderSeq == ASSUME NEW S, NEW T, S \subseteq T, NEW s \in Seq(S) PROVE s \in Seq(T)
OBVIOUS

\* A node is its four fields.
LEMMA NodeIs ==
  ASSUME NEW x \in Node
  PROVE  /\ x = [type |-> x.type, name |-> x.name, text |-> x.text, kids |-> x.kids]
         /\ x.text \in Seq(Alphabet)
<1>1. x = [type |-> x.type, name |-> x.name, text |-> x.text, kids |-> x.kids] /\ x.text \in Seq(STRING)
  BY DEF Node
<1>2. STRING \subseteq Alphabet
  BY DEF Alphabet
<1>3. x.text \in Seq(Alphabet)
  BY <1>1, <1>2, WiderSeq
<1> QED BY <1>1, <1>3

\* The place behind a member is where it ends.
LEMMA PlaceBehind ==
  ASSUME NEW d, NEW i, NEW k \in Nat
  PROVE  Place(d, i, k + 1) = d.to[Member(d, i, k)] /\ k + 1 > 0
<1>1. k + 1 > 0
  OBVIOUS
<1> QED BY <1>1 DEF Place, Member

\* A constant becomes the next member, its text as gdb meant it.
LEMMA ConstInLists ==
  ASSUME NEW t, NEW d, RecordLaid(t, d), PlainIn(d), NEW p, InLists(t, d, p), ReadConst
  PROVE  InLists(t, d, p + 1)'
<1> PICK w : Within(t, d, p, w)
  BY DEF InLists
<1> PICK i, k : i = Top(w).node /\ k = Top(w).done
  OBVIOUS
<1> PICK c : c = Member(d, i, k)
  OBVIOUS
<1> DEFINE node == [type |-> "const", name |-> name, text |-> Unescape(Head(rest).val), kids |-> <<>>]
           v == Onward(w)
<1>1. Path(t, d, w) /\ open = Lists(d, w) /\ tag = d.nodes[Root(d)].text /\ Stage(d, p, i, k) /\ Position(t, d, p)
  BY DEF Within, InLists
<1>2. /\ Expects({"item", "first", "value"}, {"CSTRING"}) /\ Make(node)
      /\ rest' = Tail(rest) /\ mode' = "after" /\ tag' = tag /\ name' = ""
      /\ open' = [open EXCEPT ![Len(open)].kids = Append(@, made + 1)]
  BY DEF ReadConst, Shift, Adopt
<1> HIDE DEF node
<1>3. /\ rest # <<>> /\ p \in Nat /\ mode \in {"item", "first", "value"} /\ Head(rest) = t[p + 1] /\ t[p + 1].kind \in {"CSTRING"}
      /\ line' = line
  BY <1>1, <1>2, ExpectsHere
<1>4. InnerFacts(t, d, w, i, k)
  BY <1>1, Inners
<1>5. Ahead(t, d, p, i, k)
  BY <1>1, <1>3, <1>4, ComesNext
<1>6. ~ (EndAt(t, d, p, i) /\ i # Root(d)) /\ ~ NameAt(t, d, p, c)
  BY <1>3, <1>4 DEF EndAt, NameAt, InnerFacts
<1>7. k < Len(Kids(d, i)) /\ name = d.nodes[c].name /\ ValueAt(t, d, p, c)
  BY <1>3, <1>5, <1>6 DEF Ahead
<1>8. /\ d.nodes[c].type = "const" /\ d.nodes[c].kids = <<>> /\ t[p + 1].val = Quoted(d.nodes[c].text)
      /\ d.to[c] = (p + 1) + 1
  BY <1>3, <1>7 DEF ValueAt
<1>9. c \in 1..Root(d) /\ d.nodes[c] \in Node /\ k \in Nat
  <2>1. c \in 1..(Root(d) - 1) /\ Root(d) \in Nat /\ k \in Nat
    BY <1>4, <1>7 DEF InnerFacts
  <2>2. c \in 1..Root(d)
    BY <2>1
  <2> QED BY <2>1, <2>2, LayoutBounds DEF LayoutFacts
<1>10. line.plain => node = d.nodes[c]
  <2> SUFFICES ASSUME line.plain PROVE node = d.nodes[c]
    OBVIOUS
  <2> PICK x : x = d.nodes[c]
    OBVIOUS
  <2>1. Plain(x.text) /\ x.text \in Seq(Alphabet)
    BY <1>9, NodeIs DEF PlainIn
  <2>2. Unescape(Quoted(x.text)) = x.text
    BY <2>1, Unquoted
  <2>3. node = [type |-> "const", name |-> x.name, text |-> x.text, kids |-> <<>>]
    BY <1>3, <1>7, <1>8, <2>2 DEF node
  <2>4. x = [type |-> "const", name |-> x.name, text |-> x.text, kids |-> <<>>]
    BY <1>8, <1>9, NodeIs
  <2> QED BY <2>3, <2>4
<1>11. Position(t, d, p + 1)' /\ c = made + 1 /\ made' = made + 1
  BY <1>1, <1>2, <1>3, <1>8, <1>9, <1>10, ShiftMake
<1>12. GoesOn(t, d, w, c, v)
  <2>1. Top(w).done < Len(Kids(d, Top(w).node)) /\ c = Next1(d, Top(w))
    BY <1>4, <1>7 DEF InnerFacts
  <2> QED BY <1>1, <2>1, PathOnward
<1> HIDE DEF v
<1>13. open' = Lists(d, v)
  BY <1>1, <1>2, <1>11, <1>12 DEF GoesOn
<1>14. Path(t, d, v) /\ Top(v).node = i /\ Top(v).done = k + 1
  BY <1>12 DEF GoesOn
<1>15. Stage(d, p + 1, i, k + 1)'
  <2>1. Place(d, i, k + 1) = (p + 1) + 1 /\ k + 1 > 0
    BY <1>8, <1>9, PlaceBehind
  <2> QED BY <1>2, <2>1 DEF Stage
<1>16. Within(t, d, p + 1, v)'
  BY <1>1, <1>2, <1>13, <1>14, <1>15 DEF Within
<1>17. \E u : Within(t, d, p + 1, u)'
  BY <1>16
<1> QED BY <1>11, <1>17 DEF InLists

\* The innermost list, as the parser has it
LEMMA InnerList ==
  ASSUME NEW t, NEW d, RecordLaid(t, d), NEW w, Path(t, d, w), open = Lists(d, w)
  PROVE  /\ Inner = ListOf(d, Top(w)) /\ (Nested <=> Top(w).node # Root(d))
         /\ Inner.type = d.nodes[Top(w).node].type /\ Inner.name = d.nodes[Top(w).node].name
         /\ Top(w).done = Len(Kids(d, Top(w).node)) => Inner.kids = Kids(d, Top(w).node)
<1> PICK i, k : i = Top(w).node /\ k = Top(w).done
  OBVIOUS
<1>1. InnerFacts(t, d, w, i, k)
  BY Inners
<1>2. Len(w) \in Nat \ {0} /\ Len(w) \in 1..Len(w) /\ (Len(w) > 1 <=> i # Root(d)) /\ i \in 1..Root(d)
  <2>1. Len(w) \in Nat \ {0} /\ (Len(w) > 1 <=> i # Root(d)) /\ i \in 1..Root(d)
    BY <1>1 DEF InnerFacts
  <2>2. Len(w) \in 1..Len(w)
    BY <2>1
  <2> QED BY <2>1, <2>2
<1>3. Len(open) = Len(w) /\ open[Len(w)] = ListOf(d, w[Len(w)])
  BY <1>2, ListsRow
<1>4. Inner = ListOf(d, Top(w))
  BY <1>3 DEF Inner, Last, Top
<1>5. Nested <=> i # Root(d)
  BY <1>2, <1>3 DEF Nested
<1>6. ListOf(d, Top(w)) = [type |-> d.nodes[i].type, name |-> d.nodes[i].name, kids |-> SubSeq(Kids(d, i), 1, k)]
  BY DEF ListOf
<1>7. k = Len(Kids(d, i)) => SubSeq(Kids(d, i), 1, k) = Kids(d, i)
  <2>1. Kids(d, i) \in Seq(1..(i - 1))
    BY <1>2, LayoutBounds DEF LayoutFacts
  <2> QED BY <2>1
<1> QED BY <1>4, <1>5, <1>6, <1>7

\* A closing bracket makes the innermost list a node with all its members.
LEMMA CloseInLists ==
  ASSUME NEW t, NEW d, RecordLaid(t, d), NEW p, InLists(t, d, p), CloseList
  PROVE  InLists(t, d, p + 1)'
<1> PICK w : Within(t, d, p, w)
  BY DEF InLists
<1> PICK i, k : i = Top(w).node /\ k = Top(w).done
  OBVIOUS
<1> PICK node : node = [type |-> Inner.type, name |-> Inner.name, text |-> <<>>, kids |-> Inner.kids]
  OBVIOUS
<1> PICK lists : lists = Front(open)
  OBVIOUS
<1>1. Path(t, d, w) /\ open = Lists(d, w) /\ tag = d.nodes[Root(d)].text /\ Stage(d, p, i, k) /\ Position(t, d, p)
  BY DEF Within, InLists
<1>2. /\ Nested /\ Expects({"first", "after"}, {Closing[Inner.type]}) /\ Make(node)
      /\ rest' = Tail(rest) /\ mode' = "after" /\ tag' = tag /\ name' = name
      /\ open' = [lists EXCEPT ![Len(lists)].kids = Append(@, made + 1)]
  BY DEF CloseList, Shift, Adopt
<1>3. /\ rest # <<>> /\ p \in Nat /\ mode \in {"first", "after"} /\ t[p + 1].kind = Closing[Inner.type]
      /\ line' = line
  <2> HIDE DEF Inner
  <2> QED BY <1>1, <1>2, ExpectsHere
<1>4. InnerFacts(t, d, w, i, k)
  BY <1>1, Inners
<1>5. Ahead(t, d, p, i, k)
  BY <1>1, <1>3, <1>4, ComesNext
<1>6. /\ i # Root(d) /\ Inner.type = d.nodes[i].type /\ Inner.name = d.nodes[i].name
      /\ k = Len(Kids(d, i)) => Inner.kids = Kids(d, i)
  BY <1>1, <1>2, InnerList
<1>7. t[p + 1].kind \in {"}", "]"}
  BY <1>3, <1>4, <1>6 DEF InnerFacts
<1>8. ~ NameAt(t, d, p, Member(d, i, k)) /\ ~ ValueAt(t, d, p, Member(d, i, k))
  BY <1>7 DEF NameAt, ValueAt
<1>9. name = "" /\ k = Len(Kids(d, i)) /\ EndAt(t, d, p, i)
  BY <1>3, <1>5, <1>7, <1>8 DEF Ahead
<1>10. i \in 1..Root(d) /\ d.nodes[i] \in Node /\ PrintsList(t, d, i) /\ d.to[i] = (p + 1) + 1
  <2>1. i \in 1..Root(d) /\ PrintsList(t, d, i)
    BY <1>4, <1>6 DEF InnerFacts, IsOuter
  <2> QED BY <1>9, <2>1, LayoutBounds DEF LayoutFacts, EndAt
<1>11. node = d.nodes[i]
  <2> PICK x : x = d.nodes[i]
    OBVIOUS
  <2>1. x.text = <<>>
    BY <1>10 DEF PrintsList
  <2>2. x = [type |-> x.type, name |-> x.name, text |-> x.text, kids |-> x.kids]
    BY <1>10, NodeIs
  <2>3. node = [type |-> x.type, name |-> x.name, text |-> <<>>, kids |-> x.kids]
    BY <1>6, <1>9 DEF Kids
  <2> QED BY <2>1, <2>2, <2>3
<1>12. Position(t, d, p + 1)' /\ i = made + 1 /\ made' = made + 1
  BY <1>1, <1>2, <1>3, <1>10, <1>11, ShiftMake
<1> PICK u : u = Outward(w)
  OBVIOUS
<1>13. GoesOut(t, d, w, u)
  <2>1. Len(w) > 1
    BY <1>4, <1>6 DEF InnerFacts
  <2> QED BY <1>1, <2>1, PathOutward
<1> PICK j, m : j = Top(u).node /\ m = Top(u).done
  OBVIOUS
<1>14. Path(t, d, u) /\ m < Len(Kids(d, j)) /\ Next1(d, Top(u)) = i /\ Lists(d, u) = lists
  BY <1>1, <1>13 DEF GoesOut
<1> PICK v : v = Onward(u)
  OBVIOUS
<1>15. GoesOn(t, d, u, i, v)
  BY <1>14, PathOnward
<1>16. open' = Lists(d, v)
  BY <1>2, <1>12, <1>14, <1>15 DEF GoesOn
<1>17. Path(t, d, v) /\ Top(v).node = j /\ Top(v).done = m + 1
  BY <1>15 DEF GoesOn
<1>18. Stage(d, p + 1, j, m + 1)'
  <2>1. m \in Nat /\ Member(d, j, m) = i
    BY <1>14, Inners DEF InnerFacts
  <2>2. Place(d, j, m + 1) = (p + 1) + 1 /\ m + 1 > 0
    BY <1>10, <2>1, PlaceBehind
  <2> QED BY <1>2, <1>9, <2>2 DEF Stage
<1>19. Within(t, d, p + 1, v)'
  BY <1>1, <1>2, <1>16, <1>17, <1>18 DEF Within
<1>20. \E z : Within(t, d, p + 1, z)'
  BY <1>19
<1> QED BY <1>12, <1>20 DEF InLists

\* The record is whole.
HasEnded(d) ==
  /\ made = Root(d)
  /\ \/ mode = "end" /\ rest = <<>> /\ output = Root(d) /\ given = None /\ HeapAs(d)
     \/ mode = "accepted" /\ output = None /\ (given = None \/ (given = Root(d) /\ HeapAs(d)))

\* The end of the line makes the record, its members those that gdb printed.
LEMMA EndInLists ==
  ASSUME NEW t, NEW d, RecordLaid(t, d), NEW p, InLists(t, d, p), given = None, EndRecord
  PROVE  HasEnded(d)'
<1> PICK w : Within(t, d, p, w)
  BY DEF InLists
<1> PICK i, k : i = Top(w).node /\ k = Top(w).done
  OBVIOUS
<1> PICK node : node = [type |-> Inner.type, name |-> Inner.name, text |-> tag, kids |-> Inner.kids]
  OBVIOUS
<1>1. Path(t, d, w) /\ open = Lists(d, w) /\ tag = d.nodes[Root(d)].text /\ Stage(d, p, i, k) /\ Position(t, d, p)
  BY DEF Within, InLists
<1>2. /\ ~ Nested /\ mode = "after" /\ rest # <<>> /\ Head(rest).kind = "NL" /\ Make(node)
      /\ rest' = Tail(rest) /\ mode' = "end" /\ output' = made + 1 /\ given' = given /\ line' = line
  BY DEF EndRecord, Shift, At
<1>3. p \in Nat /\ t[p + 1].kind = "NL" /\ IsRow(t) /\ p \in 0..Len(t) /\ rest = SubSeq(t, p + 1, Len(t))
  <2>1. IsRow(t) /\ p \in 0..Len(t) /\ rest = SubSeq(t, p + 1, Len(t))
    BY <1>1 DEF Position, RecordLaid
  <2>2. Head(rest) = t[p + 1]
    BY <1>2, <2>1, NextToken
  <2> QED BY <1>2, <2>1, <2>2
<1>4. InnerFacts(t, d, w, i, k)
  BY <1>1, Inners
<1>5. Ahead(t, d, p, i, k)
  BY <1>1, <1>3, <1>4, ComesNext
<1>6. /\ i = Root(d) /\ Inner.type = d.nodes[i].type /\ Inner.name = d.nodes[i].name
      /\ k = Len(Kids(d, i)) => Inner.kids = Kids(d, i)
  BY <1>1, <1>2, InnerList
<1>7. k = Len(Kids(d, i)) /\ EndAt(t, d, p, i)
  BY <1>2, <1>3, <1>5 DEF Ahead
<1>8. i \in 1..Root(d) /\ d.nodes[i] \in Node /\ d.to[i] = (p + 1) + 1
  BY <1>4, <1>7, LayoutBounds DEF LayoutFacts, EndAt, InnerFacts
<1>9. node = d.nodes[i]
  <2> PICK x : x = d.nodes[i]
    OBVIOUS
  <2>1. x = [type |-> x.type, name |-> x.name, text |-> x.text, kids |-> x.kids]
    BY <1>8, NodeIs
  <2>2. node = [type |-> x.type, name |-> x.name, text |-> x.text, kids |-> x.kids]
    BY <1>1, <1>6, <1>7 DEF Kids
  <2> QED BY <2>1, <2>2
<1>10. Position(t, d, p + 1)' /\ i = made + 1 /\ made' = made + 1
  BY <1>1, <1>2, <1>8, <1>9, ShiftMake
<1>11. p + 1 = Len(t)
  <2> PICK e : e = Behind(d, d.nodes[Root(d)].kids, MarkAt(d) + 2)
    OBVIOUS
  <2>1. Len(t) = e /\ d.to[Root(d)] = e + 1
    BY DEF RecordLaid, PrintsRecord, Root, MarkAt
  <2>2. e \in Nat
    BY <2>1, LayoutBounds DEF LayoutFacts
  <2> QED BY <1>3, <1>6, <1>8, <2>1, <2>2
<1>12. rest' = <<>>
  <2>1. p + 1 \in 0..Len(t) /\ rest' = SubSeq(t, (p + 1) + 1, Len(t))
    BY <1>10 DEF Position
  <2> QED BY <1>3, <1>11, <2>1, NextToken
<1>13. HeapAs(d)'
  BY <1>10 DEF Position
<1> QED BY <1>2, <1>6, <1>10, <1>12, <1>13 DEF HasEnded
-----------------------------------------------------------------------------
Marks == {"^", "*", "+", "="}

\* The parser has read p tokens before the members of a record.
InHead(t, d, p) ==
  /\ Position(t, d, p) /\ open = <<>>
  /\ \/ mode = "start" /\ p = 0 /\ tag = <<>> /\ name = ""
     \/ mode = "number" /\ p = 1 /\ MarkAt(d) = 2 /\ tag = d.nodes[Root(d)].text /\ name = ""
     \/ mode = "class" /\ p = MarkAt(d) /\ tag = d.nodes[Root(d)].text /\ name = d.nodes[Root(d)].type

HeadTokens(t, d) ==
  LET m == MarkAt(d) node == d.nodes[Root(d)] IN
  /\ m \in 1..2 /\ m + 2 \in 1..Len(t) /\ Len(t) \in Nat
  /\ m = 1 => node.text = <<>>
  /\ m = 2 => t[1].kind = "INTEGER" /\ t[1].val = node.text
  /\ t[m].kind \in Marks /\ node.type = RecordType(t[m].kind)
  /\ t[m + 1].kind = "STRING" /\ t[m + 1].val = node.name /\ node.name = Class(node.type, node.name)

\* The record is a node.
LEMMA RootNode ==
  ASSUME NEW t, NEW d, RecordLaid(t, d)
  PROVE  Root(d) \in 1..Root(d)
<1>1. Root(d) \in Nat \ {0}
  BY LayoutBounds DEF LayoutFacts
<1> QED BY <1>1

\* A record begins with its token, if it has one, its mark and its class.
LEMMA RecordHead ==
  ASSUME NEW t, NEW d, RecordLaid(t, d)
  PROVE  HeadTokens(t, d)
<1>1. LayoutFacts(t, d)
  BY LayoutBounds
<1>2. Root(d) \in 1..Root(d) /\ Len(Kids(d, Root(d))) \in Nat /\ MarkAt(d) \in 1..2 /\ Len(t) \in Nat
  <2>1. Root(d) \in 1..Root(d)
    BY RootNode
  <2> QED BY <1>1, <2>1 DEF LayoutFacts
<1>3. Place(d, Root(d), 0) = MarkAt(d) + 2 /\ Place(d, Root(d), 0) \in 1..Len(t)
  <2>1. IsOuter(t, d, Root(d)) /\ 0 \in 0..Len(Kids(d, Root(d)))
    BY <1>2 DEF IsOuter
  <2>2. NodeBehind(t, d, Root(d), 0)
    BY <2>1, BehindMembers
  <2>3. Place(d, Root(d), 0) = MarkAt(d) + 2
    BY DEF Place
  <2> QED BY <2>2, <2>3 DEF NodeBehind
<1>4. /\ MarkAt(d) = 1 => d.nodes[Root(d)].text = <<>>
      /\ MarkAt(d) = 2 => t[1].kind = "INTEGER" /\ t[1].val = d.nodes[Root(d)].text
  <2>1. d.nodes[Root(d)].text # <<>> => t[1].kind = "INTEGER" /\ t[1].val = d.nodes[Root(d)].text
    BY DEF RecordLaid, PrintsRecord, Root
  <2> QED BY <2>1 DEF MarkAt
<1>5. LET m == MarkAt(d) node == d.nodes[Root(d)] IN
        /\ t[m].kind \in Marks /\ node.type = RecordType(t[m].kind)
        /\ t[m + 1].kind = "STRING" /\ t[m + 1].val = node.name /\ node.name = Class(node.type, node.name)
  BY DEF RecordLaid, PrintsRecord, Root, MarkAt, Marks
<1> QED BY <1>2, <1>3, <1>4, <1>5 DEF HeadTokens

\* The token is kept until the record is made.
LEMMA TokenInHead ==
  ASSUME NEW t, NEW d, RecordLaid(t, d), NEW p, InHead(t, d, p), ReadToken
  PROVE  InHead(t, d, p + 1)'
<1>1. Position(t, d, p) /\ HeadTokens(t, d)
  BY RecordHead DEF InHead
<1>2. /\ Expects({"start"}, {"INTEGER"}) /\ NoNode
      /\ rest' = Tail(rest) /\ mode' = "number" /\ tag' = Head(rest).val /\ name' = name /\ open' = open
  BY DEF ReadToken, Shift
<1>3. /\ rest # <<>> /\ p \in Nat /\ mode \in {"start"} /\ Head(rest) = t[p + 1] /\ t[p + 1].kind \in {"INTEGER"}
      /\ line' = line
  BY <1>1, <1>2, ExpectsHere
<1>4. p = 0 /\ p + 1 = 1 /\ open = <<>> /\ name = ""
  <2>1. p = 0 /\ open = <<>> /\ name = ""
    BY <1>3 DEF InHead
  <2>2. p = 0
    BY <2>1
  <2>3. p + 1 = 1
    BY ONLY <2>2
  <2> QED BY <2>1, <2>3
<1>5. MarkAt(d) = 2
  <2>1. MarkAt(d) # 1
    BY <1>1, <1>3, <1>4 DEF HeadTokens, Marks
  <2> QED BY <2>1 DEF MarkAt
<1>6. tag' = d.nodes[Root(d)].text
  BY <1>1, <1>2, <1>3, <1>4, <1>5 DEF HeadTokens
<1>7. Position(t, d, p + 1)'
  <2>1. Head(rest).kind \notin Ends
    BY <1>3 DEF Ends
  <2> QED BY <1>1, <1>2, <1>3, <2>1, ShiftOver
<1> QED BY <1>2, <1>4, <1>5, <1>6, <1>7 DEF InHead

\* The mark tells the type of the record.
LEMMA MarkInHead ==
  ASSUME NEW t, NEW d, RecordLaid(t, d), NEW p, InHead(t, d, p), ReadRecordMark
  PROVE  InHead(t, d, p + 1)'
<1>1. Position(t, d, p) /\ HeadTokens(t, d)
  BY RecordHead DEF InHead
<1>2. /\ Expects({"start", "number"}, {"^", "*", "+", "="}) /\ NoNode
      /\ rest' = Tail(rest) /\ mode' = "class" /\ tag' = tag /\ name' = RecordType(Head(rest).kind) /\ open' = open
  BY DEF ReadRecordMark, Shift
<1>3. /\ rest # <<>> /\ p \in Nat /\ mode \in {"start", "number"} /\ Head(rest) = t[p + 1] /\ t[p + 1].kind \in Marks
      /\ line' = line
  BY <1>1, <1>2, ExpectsHere DEF Marks
<1>4. p + 1 = MarkAt(d) /\ open = <<>> /\ tag = d.nodes[Root(d)].text
  <2>1. CASE mode = "start"
    <3>a. p = 0 /\ tag = <<>> /\ open = <<>>
      BY <2>1 DEF InHead
    <3>1. p = 0 /\ p + 1 = 1 /\ tag = <<>> /\ open = <<>>
      BY <3>a
    <3>2. MarkAt(d) # 2
      BY <1>1, <1>3, <3>1 DEF HeadTokens, Marks
    <3>3. MarkAt(d) = 1
      BY <3>2 DEF MarkAt
    <3> QED BY <1>1, <3>1, <3>3 DEF HeadTokens
  <2>2. CASE mode = "number"
    <3>1. p = 1 /\ MarkAt(d) = 2 /\ open = <<>> /\ tag = d.nodes[Root(d)].text
      BY <2>2 DEF InHead
    <3> QED BY <3>1
  <2> QED BY <1>3, <2>1, <2>2
<1>5. name' = d.nodes[Root(d)].type
  BY <1>1, <1>2, <1>3, <1>4 DEF HeadTokens
<1>6. Position(t, d, p + 1)'
  <2>1. Head(rest).kind \notin Ends
    BY <1>3 DEF Ends, Marks
  <2> QED BY <1>1, <1>2, <1>3, <2>1, ShiftOver
<1> QED BY <1>2, <1>4, <1>5, <1>6 DEF InHead

\* The class begins the record's list of results.
LEMMA ClassInHead ==
  ASSUME NEW t, NEW d, RecordLaid(t, d), NEW p, InHead(t, d, p), ReadClass
  PROVE  InLists(t, d, p + 1)'
<1> DEFINE x == [node |-> Root(d), done |-> 0]
           w == <<x>>
<1>1. Position(t, d, p) /\ HeadTokens(t, d)
  BY RecordHead DEF InHead
<1>2. /\ Expects({"class"}, {"STRING"}) /\ NoNode
      /\ rest' = Tail(rest) /\ mode' = "after" /\ tag' = tag /\ name' = ""
      /\ open' = Append(open, [type |-> name, name |-> Class(name, Head(rest).val), kids |-> <<>>])
  BY DEF ReadClass, Shift, Push
<1>3. /\ rest # <<>> /\ p \in Nat /\ mode \in {"class"} /\ Head(rest) = t[p + 1] /\ t[p + 1].kind \in {"STRING"}
      /\ line' = line
  BY <1>1, <1>2, ExpectsHere
<1>4. p = MarkAt(d) /\ open = <<>> /\ tag = d.nodes[Root(d)].text /\ name = d.nodes[Root(d)].type
  BY <1>3 DEF InHead
<1>5. Class(name, Head(rest).val) = d.nodes[Root(d)].name
  BY <1>1, <1>3, <1>4 DEF HeadTokens
<1>6. Position(t, d, p + 1)'
  <2>1. Head(rest).kind \notin Ends
    BY <1>3 DEF Ends
  <2> QED BY <1>1, <1>2, <1>3, <2>1, ShiftOver
<1>7. Root(d) \in 1..Root(d) /\ Kids(d, Root(d)) \in Seq(1..(Root(d) - 1)) /\ 0 \in 0..Len(Kids(d, Root(d)))
  <2>1. Root(d) \in 1..Root(d)
    BY RootNode
  <2>2. Kids(d, Root(d)) \in Seq(1..(Root(d) - 1))
    BY <2>1, LayoutBounds DEF LayoutFacts
  <2> QED BY <2>1, <2>2
<1>8. w \in Seq(Entry(d)) /\ Len(w) = 1 /\ w[1] = x /\ x.node = Root(d) /\ x.done = 0
  <2>1. x \in Entry(d)
    BY <1>7 DEF Entry
  <2> QED BY <2>1
<1> HIDE DEF w, x
<1>9. Path(t, d, w)
  <2>1. \A j \in 1..Len(w) : /\ IsOuter(t, d, w[j].node) /\ w[j].done \in 0..Len(Kids(d, w[j].node))
                             /\ w[j].node = Root(d) <=> j = 1
    BY <1>7, <1>8 DEF IsOuter
  <2>2. 1..Len(w) - 1 = {}
    BY <1>8
  <2> QED BY <1>8, <2>1, <2>2 DEF Path
<1>10. open' = Lists(d, w)
  <2> DEFINE e == [type |-> d.nodes[Root(d)].type, name |-> d.nodes[Root(d)].name, kids |-> <<>>]
  <2>1. ListOf(d, x) = e
    <3>1. SubSeq(Kids(d, Root(d)), 1, 0) = <<>>
      BY <1>7
    <3> QED BY <1>8, <3>1 DEF ListOf
  <2>2. open' = Append(<<>>, e)
    BY <1>2, <1>4, <1>5
  <2> HIDE DEF e
  <2>3. open' = [j \in 1..1 |-> e]
    BY <2>2
  <2>4. Lists(d, w) = [j \in 1..1 |-> ListOf(d, w[j])]
    BY <1>8 DEF Lists
  <2>5. \A j \in 1..1 : ListOf(d, w[j]) = e
    BY <1>8, <2>1
  <2> QED BY <2>3, <2>4, <2>5
<1>11. Top(w).node = Root(d) /\ Top(w).done = 0
  BY <1>8 DEF Top
<1>12. Stage(d, p + 1, Root(d), 0)'
  <2>1. Place(d, Root(d), 0) = (p + 1) + 1
    <3>1. Place(d, Root(d), 0) = MarkAt(d) + 2
      BY DEF Place
    <3> QED BY <1>3, <1>4, <3>1
  <2> QED BY <1>2, <2>1 DEF Stage
<1>13. Within(t, d, p + 1, w)'
  BY <1>2, <1>4, <1>9, <1>10, <1>11, <1>12 DEF Within
<1>14. \E z : Within(t, d, p + 1, z)'
  BY <1>13
<1> QED BY <1>6, <1>14 DEF InLists
-----------------------------------------------------------------------------
HeadModes == {"start", "number", "class"}
ListModes == {"after", "first", "item", "named", "value"}

\* Before the members the parser accepts the token that comes.
LEMMA HeadReady ==
  ASSUME NEW t, NEW d, RecordLaid(t, d), NEW p, InHead(t, d, p)
  PROVE  /\ mode \in HeadModes /\ Acceptable /\ rest # <<>>
         /\ mode = "start" => Head(rest).kind \in Marks \union {"INTEGER"}
<1>1. HeadTokens(t, d) /\ IsRow(t) /\ p \in 0..Len(t) /\ rest = SubSeq(t, p + 1, Len(t))
  BY RecordHead DEF InHead, Position, RecordLaid
<1>2. mode \in HeadModes /\ p \in 0..2
  <2>1. CASE mode = "start" /\ p = 0
    BY <2>1 DEF HeadModes
  <2>2. CASE mode = "number" /\ p = 1
    BY <2>2 DEF HeadModes
  <2>3. CASE mode = "class" /\ p = MarkAt(d)
    BY <1>1, <2>3 DEF HeadModes, HeadTokens
  <2> QED BY <2>1, <2>2, <2>3 DEF InHead
<1>3. p # Len(t)
  <2>1. MarkAt(d) \in 1..2 /\ MarkAt(d) + 2 \in 1..Len(t) /\ Len(t) \in Nat
    BY <1>1 DEF HeadTokens
  <2> QED BY <1>2, <2>1
<1>4. rest # <<>> /\ Head(rest) = t[p + 1]
  BY <1>1, <1>3, NextToken
<1>5. CASE mode = "start"
  <2>1. p = 0
    BY <1>5 DEF InHead
  <2>2. p + 1 = 1
    BY ONLY <2>1
  <2>3. MarkAt(d) = 1 \/ MarkAt(d) = 2
    BY DEF MarkAt
  <2>4. Head(rest).kind \in Marks \union {"INTEGER"}
    BY <1>1, <1>4, <2>2, <2>3 DEF HeadTokens
  <2> QED BY <1>2, <1>4, <1>5, <2>4 DEF Acceptable, At, Marks
<1>6. CASE mode = "number"
  <2>1. p = 1 /\ MarkAt(d) = 2
    BY <1>6 DEF InHead
  <2>2. p + 1 = MarkAt(d)
    BY ONLY <2>1
  <2>3. Head(rest).kind \in Marks
    BY <1>1, <1>4, <2>2 DEF HeadTokens
  <2> QED BY <1>2, <1>4, <1>6, <2>3 DEF Acceptable, At, Marks
<1>7. CASE mode = "class"
  <2>1. p = MarkAt(d)
    BY <1>7 DEF InHead
  <2>2. Head(rest).kind = "STRING"
    BY <1>1, <1>4, <2>1 DEF HeadTokens
  <2> QED BY <1>2, <1>4, <1>7, <2>2 DEF Acceptable, At
<1> QED BY <1>2, <1>5, <1>6, <1>7 DEF HeadModes

\* So it does among the members.
LEMMA ListsReady ==
  ASSUME NEW t, NEW d, RecordLaid(t, d), NEW p, InLists(t, d, p)
  PROVE  mode \in ListModes /\ Acceptable
<1> PICK w : Within(t, d, p, w)
  BY DEF InLists
<1> PICK i, k : i = Top(w).node /\ k = Top(w).done
  OBVIOUS
<1> PICK c : c = Member(d, i, k)
  OBVIOUS
<1>1. Path(t, d, w) /\ open = Lists(d, w) /\ Stage(d, p, i, k) /\ Position(t, d, p)
  BY DEF Within, InLists
<1>2. p \in 0..Len(t) /\ rest = SubSeq(t, p + 1, Len(t)) /\ IsRow(t) /\ p \in Nat
  <2>1. p \in 0..Len(t) /\ rest = SubSeq(t, p + 1, Len(t)) /\ IsRow(t)
    BY <1>1 DEF Position, RecordLaid
  <2> QED BY <2>1
<1>3. InnerFacts(t, d, w, i, k)
  BY <1>1, Inners
<1>4. Ahead(t, d, p, i, k) /\ p + 1 \in 1..Len(t)
  BY <1>1, <1>2, <1>3, ComesNext
<1>5. rest # <<>> /\ Head(rest) = t[p + 1]
  <2>1. p # Len(t)
    BY <1>2, <1>4
  <2> QED BY <1>2, <2>1, NextToken
<1>6. (Nested <=> i # Root(d)) /\ Inner.type = d.nodes[i].type
  BY <1>1, InnerList
<1>7. mode \in ListModes
  BY <1>1 DEF Stage, ListModes
<1> DEFINE kind == Head(rest).kind
           end == IF i = Root(d) THEN "NL" ELSE Closing[d.nodes[i].type]
<1>8. \/ mode = "after" /\ kind \in {",", end}
      \/ mode = "first" /\ i # Root(d) /\ kind = end
      \/ mode \in {"first", "item"} /\ kind \in {"STRING", "CSTRING", "{", "["}
      \/ mode = "named" /\ kind = "="
      \/ mode = "value" /\ kind \in {"CSTRING", "{", "["}
  BY <1>4, <1>5 DEF Ahead, EndAt, NameAt, ValueAt
<1>9. end = (IF Nested THEN Closing[Inner.type] ELSE "NL")
  BY <1>6
<1>10. i # Root(d) => end = Closing[Inner.type]
  BY <1>6
<1> HIDE DEF kind, end
<1>11. CASE mode = "after" /\ kind \in {",", end}
  BY <1>5, <1>7, <1>9, <1>11 DEF Acceptable, At, kind
<1>12. CASE mode = "first" /\ i # Root(d) /\ kind = end
  BY <1>5, <1>7, <1>10, <1>12 DEF Acceptable, At, kind
<1>13. CASE mode \in {"first", "item"} /\ kind \in {"STRING", "CSTRING", "{", "["}
  BY <1>5, <1>7, <1>13 DEF Acceptable, At, kind
<1>14. CASE mode = "named" /\ kind = "="
  BY <1>5, <1>7, <1>14 DEF Acceptable, At, kind
<1>15. CASE mode = "value" /\ kind \in {"CSTRING", "{", "["}
  BY <1>5, <1>7, <1>15 DEF Acceptable, At, kind
<1> QED BY <1>7, <1>8, <1>11, <1>12, <1>13, <1>14, <1>15
-----------------------------------------------------------------------------
\* A record is being read, or has been.
InRecordLine(t, d) ==
  \/ output = None /\ given = None /\ \E p : InHead(t, d, p) \/ InLists(t, d, p)
  \/ HasEnded(d)

\* A step before the members goes on as printed.
LEMMA HeadRecord ==
  ASSUME NEW t, NEW d, RecordLaid(t, d), None \notin Nat,
         output = None, given = None, NEW p, InHead(t, d, p), LineNext
  PROVE  InRecordLine(t, d)'
<1>1. /\ mode \in HeadModes /\ Acceptable
      /\ mode = "start" => Head(rest).kind \in Marks \union {"INTEGER"}
  BY HeadReady
<1>2. CASE ReadToken
  <2>1. InHead(t, d, p + 1)' /\ output' = None /\ given' = None
    BY <1>2, TokenInHead DEF ReadToken, Expects
  <2> QED BY <2>1 DEF InRecordLine
<1>3. CASE ReadRecordMark
  <2>1. InHead(t, d, p + 1)' /\ output' = None /\ given' = None
    BY <1>3, MarkInHead DEF ReadRecordMark, Expects
  <2> QED BY <2>1 DEF InRecordLine
<1>4. CASE ReadClass
  <2>1. InLists(t, d, p + 1)' /\ output' = None /\ given' = None
    BY <1>4, ClassInHead DEF ReadClass, Expects
  <2> QED BY <2>1 DEF InRecordLine
<1>5. ~ (ReadComma \/ ReadVariable \/ ReadEqual \/ ReadConst \/ OpenList)
  BY <1>1 DEF HeadModes, ReadComma, ReadVariable, ReadEqual, ReadConst, OpenList, Expects
<1>6. ~ (CloseList \/ EndRecord \/ ReadStream \/ EndOutput \/ Accept)
  BY <1>1 DEF HeadModes, CloseList, EndRecord, ReadStream, EndOutput, Accept, Expects
<1>7. ~ (ReadStreamMark \/ ReadPrompt)
  BY <1>1 DEF HeadModes, Marks, ReadStreamMark, ReadPrompt, Expects, At
<1>8. ~ (Refuse \/ DestroyDriver \/ DeleteRecord)
  BY <1>1 DEF HeadModes, Refuse, DestroyDriver, DeleteRecord
<1> QED BY <1>2, <1>3, <1>4, <1>5, <1>6, <1>7, <1>8 DEF LineNext, Parse

\* A step among the members goes on as printed, or ends the record.
LEMMA ListsRecord ==
  ASSUME NEW t, NEW d, RecordLaid(t, d), PlainIn(d), None \notin Nat,
         output = None, given = None, NEW p, InLists(t, d, p), LineNext
  PROVE  InRecordLine(t, d)'
<1>1. mode \in ListModes /\ Acceptable
  BY ListsReady
<1>2. CASE ReadComma
  <2>1. InLists(t, d, p + 1)' /\ output' = None /\ given' = None
    BY <1>2, CommaInLists DEF ReadComma, Expects
  <2> QED BY <2>1 DEF InRecordLine
<1>3. CASE ReadVariable
  <2>1. InLists(t, d, p + 1)' /\ output' = None /\ given' = None
    BY <1>3, VariableInLists DEF ReadVariable, Expects
  <2> QED BY <2>1 DEF InRecordLine
<1>4. CASE ReadEqual
  <2>1. InLists(t, d, p + 1)' /\ output' = None /\ given' = None
    BY <1>4, EqualInLists DEF ReadEqual, Expects
  <2> QED BY <2>1 DEF InRecordLine
<1>5. CASE ReadConst
  <2>1. InLists(t, d, p + 1)' /\ output' = None /\ given' = None
    BY <1>5, ConstInLists DEF ReadConst, Expects
  <2> QED BY <2>1 DEF InRecordLine
<1>6. CASE OpenList
  <2>1. InLists(t, d, p + 1)' /\ output' = None /\ given' = None
    BY <1>6, OpenInLists DEF OpenList, Expects
  <2> QED BY <2>1 DEF InRecordLine
<1>7. CASE CloseList
  <2>1. InLists(t, d, p + 1)' /\ output' = None /\ given' = None
    BY <1>7, CloseInLists DEF CloseList, Expects
  <2> QED BY <2>1 DEF InRecordLine
<1>8. CASE EndRecord
  BY <1>8, EndInLists DEF InRecordLine
<1>9. ~ (ReadToken \/ ReadRecordMark \/ ReadClass \/ ReadStreamMark \/ ReadStream)
  BY <1>1 DEF ListModes, ReadToken, ReadRecordMark, ReadClass, ReadStreamMark, ReadStream, Expects
<1>10. ~ (ReadPrompt \/ EndOutput \/ Accept)
  BY <1>1 DEF ListModes, ReadPrompt, EndOutput, Accept, Expects
<1>11. ~ (Refuse \/ DestroyDriver \/ DeleteRecord)
  BY <1>1 DEF ListModes, Refuse, DestroyDriver, DeleteRecord
<1> QED BY <1>2, <1>3, <1>4, <1>5, <1>6, <1>7, <1>8, <1>9, <1>10, <1>11 DEF LineNext, Parse

\* Once the line is whole, no token is read.
LEMMA NoMoreTokens ==
  ASSUME mode \in {"end", "accepted"}
  PROVE  /\ ~ (ReadToken \/ ReadRecordMark \/ ReadClass \/ ReadComma \/ ReadVariable)
         /\ ~ (ReadEqual \/ ReadConst \/ OpenList \/ CloseList \/ EndRecord)
         /\ ~ (ReadStreamMark \/ ReadStream \/ ReadPrompt \/ EndOutput)
<1>1. ~ (ReadToken \/ ReadRecordMark \/ ReadClass \/ ReadComma \/ ReadVariable)
  BY DEF ReadToken, ReadRecordMark, ReadClass, ReadComma, ReadVariable, Expects
<1>2. ~ (ReadEqual \/ ReadConst \/ OpenList \/ CloseList \/ EndRecord)
  BY DEF ReadEqual, ReadConst, OpenList, CloseList, EndRecord, Expects
<1>3. ~ (ReadStreamMark \/ ReadStream \/ ReadPrompt \/ EndOutput)
  BY DEF ReadStreamMark, ReadStream, ReadPrompt, EndOutput, Expects
<1> QED BY <1>1, <1>2, <1>3

\* Deleting no record changes nothing.
LEMMA DeleteNone ==
  ASSUME None \notin DOMAIN heap, Delete(None)
  PROVE  heap' = heap
BY DEF Delete, Free

HasNodes(d) == d.nodes \in Seq(Node) /\ Root(d) \in Nat \ {0}

\* A record that is whole stays so until it is deleted.
LEMMA EndedLine ==
  ASSUME NEW d, HasNodes(d), None \notin Nat, HasEnded(d), LineNext
  PROVE  HasEnded(d)'
<1>1. mode \in {"end", "accepted"} /\ (mode = "end" => rest = <<>>) /\ made = Root(d) /\ Root(d) \in Nat
  BY DEF HasEnded, HasNodes
<1>2. Accept \/ Refuse \/ DestroyDriver \/ DeleteRecord
  BY <1>1, NoMoreTokens DEF LineNext, Parse
<1>3. CASE Accept
  <2>1. mode = "end" /\ mode' = "accepted" /\ given' = output /\ output' = None /\ heap' = heap /\ made' = made /\ line' = line
    BY <1>3 DEF Accept, NoNode
  <2>2. output = Root(d) /\ HeapAs(d)
    BY <2>1 DEF HasEnded
  <2>3. HeapAs(d)'
    BY <2>1, <2>2 DEF HeapAs
  <2> QED BY <1>1, <2>1, <2>2, <2>3 DEF HasEnded
<1>4. ~ Refuse
  BY <1>1 DEF Refuse, Acceptable
<1>5. CASE DestroyDriver
  <2>1. mode = "accepted" /\ mode' = mode /\ given' = given /\ Delete(output) /\ output' = None /\ made' = made /\ line' = line
    BY <1>1, <1>5 DEF DestroyDriver, parser
  <2>2. output = None /\ (given = None \/ (given = Root(d) /\ HeapAs(d)))
    BY <2>1 DEF HasEnded
  <2>3. CASE given = None
    BY <1>1, <2>1, <2>3 DEF HasEnded
  <2>4. CASE given # None
    <3>1. DOMAIN heap = 1..made
      BY <2>2, <2>4 DEF HeapAs
    <3>2. None \notin DOMAIN heap
      BY <1>1, <3>1
    <3>3. heap' = heap
      BY <2>1, <2>2, <3>2, DeleteNone
    <3>4. HeapAs(d)'
      BY <2>1, <2>2, <2>4, <3>3 DEF HeapAs
    <3> QED BY <1>1, <2>1, <2>2, <2>4, <3>4 DEF HasEnded
  <2> QED BY <2>3, <2>4
<1>6. CASE DeleteRecord
  <2>1. given # None /\ given' = None /\ mode' = mode /\ made' = made /\ output' = output
    BY <1>6 DEF DeleteRecord, parser
  <2>2. mode = "accepted" /\ output = None
    BY <2>1 DEF HasEnded
  <2> QED BY <1>1, <2>1, <2>2 DEF HasEnded
<1> QED BY <1>2, <1>3, <1>4, <1>5, <1>6

\* A record that is whole means what gdb meant.
LEMMA EndedReadBack ==
  ASSUME NEW d, HasNodes(d), HasEnded(d),
         line.sent = Meaning(d.nodes, Root(d)), line.sent.type # "prompt"
  PROVE  ReadBack
<1>1. mode # "refused" /\ made # 0
  BY DEF HasEnded, HasNodes
<1>2. ASSUME line.plain, given # None PROVE Meaning(heap, given) = line.sent
  <2>1. given = Root(d) /\ HeapAs(d) /\ made = Root(d)
    BY <1>2 DEF HasEnded
  <2>2. heap = [i \in 1..Root(d) |-> heap[i]] /\ \A i \in 1..Root(d) : heap[i] = d.nodes[i]
    BY <1>2, <2>1 DEF HeapAs
  <2>3. d.nodes = [i \in 1..Root(d) |-> d.nodes[i]]
    BY DEF HasNodes, Root
  <2>4. heap = d.nodes
    BY <2>2, <2>3
  <2> QED BY <2>1, <2>4
<1> QED BY <1>1, <1>2 DEF ReadBack

\* A record has nodes.
LEMMA RecordHasNodes ==
  ASSUME NEW t, NEW d, RecordLaid(t, d)
  PROVE  HasNodes(d)
<1>1. d.nodes \in Seq(Node)
  BY DEF RecordLaid, IsLayout
<1>2. Root(d) \in Nat \ {0}
  BY LayoutBounds DEF LayoutFacts
<1> QED BY <1>1, <1>2 DEF HasNodes

\* A record is read on as it was printed.
LEMMA RecordStep ==
  ASSUME NEW t, NEW d, RecordLaid(t, d), PlainIn(d), None \notin Nat, InRecordLine(t, d), LineNext
  PROVE  InRecordLine(t, d)'
<1>1. ASSUME output = None, given = None, NEW p, InHead(t, d, p) PROVE InRecordLine(t, d)'
  BY <1>1, HeadRecord
<1>2. ASSUME output = None, given = None, NEW p, InLists(t, d, p) PROVE InRecordLine(t, d)'
  BY <1>2, ListsRecord
<1>3. ASSUME HasEnded(d) PROVE InRecordLine(t, d)'
  <2>1. HasEnded(d)'
    BY <1>3, RecordHasNodes, EndedLine
  <2> QED BY <2>1 DEF InRecordLine
<1> QED BY <1>1, <1>2, <1>3 DEF InRecordLine

\* What is read of a record so far is what gdb meant.
LEMMA RecordReadBack ==
  ASSUME NEW t, NEW d, RecordLaid(t, d), InRecordLine(t, d),
         line.sent = Meaning(d.nodes, Root(d)), line.sent.type # "prompt"
  PROVE  ReadBack
<1>1. CASE output = None /\ given = None /\ \E p : InHead(t, d, p) \/ InLists(t, d, p)
  <2>1. mode \in HeadModes \union ListModes
    BY <1>1, HeadReady, ListsReady
  <2>2. mode # "refused" /\ mode # "accepted"
    BY <2>1 DEF HeadModes, ListModes
  <2> QED BY <1>1, <2>2 DEF ReadBack
<1>2. CASE HasEnded(d)
  BY <1>2, RecordHasNodes, EndedReadBack
<1> QED BY <1>1, <1>2 DEF InRecordLine

\* A record is read from its beginning.
LEMMA RecordFirst ==
  ASSUME NEW t, NEW d, RecordLaid(t, d), LineInit, t = Tokens(line.text)
  PROVE  InRecordLine(t, d)
<1>1. /\ rest = t /\ mode = "start" /\ tag = <<>> /\ name = "" /\ open = <<>> /\ heap = <<>> /\ made = 0
      /\ output = None /\ given = None
  BY DEF LineInit
<1>2. Len(t) \in Nat /\ 0 \in 0..Len(t) /\ SubSeq(t, 0 + 1, Len(t)) = t
  BY DEF RecordLaid, IsRow
<1>3. MadeBy(d, 0, 0)
  <2>1. Root(d) \in Nat /\ 0 \in 0..Root(d)
    <3>1. Root(d) \in Nat
      BY LayoutBounds DEF LayoutFacts
    <3> QED BY <3>1
  <2>2. ASSUME NEW i \in 1..Root(d) PROVE ~ (i <= 0) /\ ~ (d.to[i] <= 0 + 1)
    <3> PICK a, b, e, n : a = d.at[i] /\ b = Inside(d, i) /\ e = d.to[i] /\ n = Len(t)
      OBVIOUS
    <3>1. a \in 1..n /\ (b = a \/ b = a + 2) /\ b < e /\ e \in 1..n + 1 /\ n \in Nat
      BY LayoutBounds DEF LayoutFacts
    <3>2. a \in Nat /\ a >= 1 /\ e \in Nat
      BY ONLY <3>1
    <3>4. ~ (e <= 0 + 1)
      BY ONLY <3>1, <3>2
    <3> QED BY <3>4
  <2> QED BY <2>1, <2>2 DEF MadeBy
<1>4. HeapAs(d)
  <2>1. 1..0 = {}
    OBVIOUS
  <2>2. <<>> = [i \in 1..0 |-> heap[i]]
    OBVIOUS
  <2> QED BY <1>1, <2>1, <2>2 DEF HeapAs
<1>5. Position(t, d, 0)
  BY <1>1, <1>2, <1>3, <1>4 DEF Position
<1>6. InHead(t, d, 0)
  BY <1>1, <1>5 DEF InHead
<1> QED BY <1>1, <1>6 DEF InRecordLine
-----------------------------------------------------------------------------
(* A stream record, and the prompt                                         *)

Shifted(t, p) == p \in 0..Len(t) /\ rest = SubSeq(t, p + 1, Len(t))

StreamLaid(t, d) == IsRow(t) /\ d.nodes \in Seq(Node) /\ PrintsStream(t, d)
PromptLaid(t, d) == IsRow(t) /\ PrintsPrompt(t, d)

InStreamLine(t, d) ==
  \/ /\ output = None /\ given = None /\ HeapAs(d)
     /\ \/ mode = "start" /\ Shifted(t, 0) /\ made = 0
        \/ mode = "stream" /\ Shifted(t, 1) /\ made = 0 /\ name = d.nodes[1].type
        \/ mode = "whole" /\ Shifted(t, 2) /\ made = 1 /\ held = 1
  \/ HasEnded(d)

InPromptLine(t) ==
  /\ output = None /\ given = None /\ held = None /\ made = 0
  /\ \/ mode = "start" /\ Shifted(t, 0)
     \/ mode = "prompt" /\ Shifted(t, 1)
     \/ mode = "paren" /\ Shifted(t, 2)
     \/ mode = "whole" /\ Shifted(t, 3)
     \/ mode = "end" /\ rest = <<>>
     \/ mode = "accepted"

\* One token is shifted.
LEMMA ShiftHere ==
  ASSUME NEW t, IsRow(t), NEW p \in Nat, NEW q, q = p + 1, q \in 1..Len(t), Shifted(t, p)
  PROVE  /\ rest # <<>> /\ Head(rest) = t[q]
         /\ rest' = Tail(rest) => Shifted(t, q)'
         /\ rest' = Tail(rest) /\ q = Len(t) => rest' = <<>>
<1>1. p # Len(t) /\ p \in 0..Len(t) /\ rest = SubSeq(t, p + 1, Len(t)) /\ Len(t) \in Nat
  <2>1. p \in 0..Len(t) /\ rest = SubSeq(t, p + 1, Len(t)) /\ Len(t) \in Nat
    BY DEF Shifted, IsRow
  <2>2. p # Len(t)
    BY <2>1
  <2> QED BY <2>1, <2>2
<1>2. rest # <<>> /\ Head(rest) = t[q] /\ q \in 0..Len(t) /\ Tail(rest) = SubSeq(t, q + 1, Len(t))
  BY <1>1, NextToken
<1>3. rest' = Tail(rest) => Shifted(t, q)'
  BY <1>2 DEF Shifted
<1>4. q = Len(t) => Tail(rest) = <<>>
  BY <1>2, NextToken
<1> QED BY <1>2, <1>3, <1>4

\* The numbers up to one, and up to none
LEMMA OneNumber == 1..1 = {1} /\ 1..0 = {}
OBVIOUS

\* A stream record is read on as it was printed.
LEMMA StreamStep ==
  ASSUME NEW t, NEW d, StreamLaid(t, d), PlainIn(d), None \notin Nat, InStreamLine(t, d), LineNext
  PROVE  InStreamLine(t, d)'
<1>1. /\ Len(t) = 3 /\ Root(d) = 1 /\ HasNodes(d) /\ d.nodes[1] \in Node /\ IsRow(t)
      /\ d.nodes[1].name = "" /\ d.nodes[1].kids = <<>>
      /\ t[1].kind \in {"~", "@", "&"} /\ d.nodes[1].type = StreamType(t[1].kind)
      /\ t[2].kind = "CSTRING" /\ t[2].val = Quoted(d.nodes[1].text)
      /\ t[3].kind = "NL"
  <2>1. Len(d.nodes) = 1 /\ d.nodes \in Seq(Node) /\ IsRow(t) /\ Len(t) = 3
    BY DEF StreamLaid, PrintsStream
  <2>2. Root(d) = 1 /\ Root(d) \in Nat \ {0} /\ HasNodes(d)
    BY <2>1 DEF Root, HasNodes
  <2>3. d.nodes[1] \in Node
    BY <2>1
  <2>4. /\ d.nodes[1].name = "" /\ d.nodes[1].kids = <<>>
        /\ t[1].kind \in {"~", "@", "&"} /\ d.nodes[1].type = StreamType(t[1].kind)
        /\ t[2].kind = "CSTRING" /\ t[2].val = Quoted(d.nodes[1].text)
        /\ t[3].kind = "NL"
    BY DEF StreamLaid, PrintsStream
  <2> QED BY <2>1, <2>2, <2>3, <2>4
<1>2. CASE HasEnded(d)
  <2>1. HasEnded(d)'
    BY <1>1, <1>2, EndedLine
  <2> QED BY <2>1 DEF InStreamLine
<1>3. CASE output = None /\ given = None /\ HeapAs(d) /\ mode = "start" /\ Shifted(t, 0) /\ made = 0
  <2>1. 1 = 0 + 1 /\ 1 \in 1..Len(t) /\ 0 \in Nat
    <3>1. Len(t) = 3
      BY <1>1
    <3> QED BY ONLY <3>1
  <2>2. rest # <<>> /\ Head(rest) = t[1] /\ (rest' = Tail(rest) => Shifted(t, 1)')
    BY <1>1, <1>3, <2>1, ShiftHere
  <2>3. ReadStreamMark
    <3>1. ~ (ReadToken \/ ReadRecordMark \/ ReadPrompt)
      BY <1>1, <1>3, <2>2 DEF ReadToken, ReadRecordMark, ReadPrompt, Expects, At
    <3>2. ~ (ReadClass \/ ReadComma \/ ReadVariable \/ ReadEqual \/ ReadConst \/ OpenList)
      BY <1>3 DEF ReadClass, ReadComma, ReadVariable, ReadEqual, ReadConst, OpenList, Expects
    <3>3. ~ (CloseList \/ EndRecord \/ ReadStream \/ EndOutput \/ Accept \/ DestroyDriver \/ DeleteRecord)
      BY <1>3 DEF CloseList, EndRecord, ReadStream, EndOutput, Accept, Expects,
                  DestroyDriver, DeleteRecord
    <3>4. ~ Refuse
      BY <1>1, <1>3, <2>2 DEF Refuse, Acceptable, At
    <3> QED BY <3>1, <3>2, <3>3, <3>4 DEF LineNext, Parse
  <2>4. /\ mode' = "stream" /\ rest' = Tail(rest) /\ name' = d.nodes[1].type
        /\ output' = None /\ given' = None /\ heap' = heap /\ made' = made /\ line' = line
    BY <1>1, <1>3, <2>2, <2>3 DEF ReadStreamMark, Expects, Shift, NoNode
  <2>5. HeapAs(d)'
    BY <1>3, <2>4 DEF HeapAs
  <2> QED BY <1>3, <2>2, <2>4, <2>5 DEF InStreamLine
<1>4. CASE output = None /\ given = None /\ HeapAs(d) /\ mode = "stream" /\ Shifted(t, 1) /\ made = 0 /\ name = d.nodes[1].type
  <2>1. 2 = 1 + 1 /\ 2 \in 1..Len(t) /\ 1 \in Nat
    <3>1. Len(t) = 3
      BY <1>1
    <3> QED BY ONLY <3>1
  <2>2. rest # <<>> /\ Head(rest) = t[2] /\ (rest' = Tail(rest) => Shifted(t, 2)')
    BY <1>1, <1>4, <2>1, ShiftHere
  <2>3. ReadStream
    <3>1. ~ (ReadToken \/ ReadRecordMark \/ ReadPrompt \/ ReadStreamMark)
      BY <1>4 DEF ReadToken, ReadRecordMark, ReadPrompt, ReadStreamMark, Expects
    <3>2. ~ (ReadClass \/ ReadComma \/ ReadVariable \/ ReadEqual \/ ReadConst \/ OpenList)
      BY <1>4 DEF ReadClass, ReadComma, ReadVariable, ReadEqual, ReadConst, OpenList, Expects
    <3>3. ~ (CloseList \/ EndRecord \/ EndOutput \/ Accept \/ DestroyDriver \/ DeleteRecord)
      BY <1>4 DEF CloseList, EndRecord, EndOutput, Accept, Expects,
                  DestroyDriver, DeleteRecord
    <3>4. ~ Refuse
      BY <1>1, <1>4, <2>2 DEF Refuse, Acceptable, At
    <3> QED BY <3>1, <3>2, <3>3, <3>4 DEF LineNext, Parse
  <2> PICK node : node = [type |-> name, name |-> "", text |-> Unescape(Head(rest).val), kids |-> <<>>]
    OBVIOUS
  <2>4. /\ mode' = "whole" /\ rest' = Tail(rest) /\ held' = made + 1 /\ Make(node)
        /\ output' = None /\ given' = None /\ line' = line
    BY <1>4, <2>3 DEF ReadStream, Expects, Shift
  <2>5. line.plain => node = d.nodes[1]
    <3> SUFFICES ASSUME line.plain PROVE node = d.nodes[1]
      OBVIOUS
    <3> PICK x : x = d.nodes[1]
      OBVIOUS
    <3>1. Plain(x.text) /\ x.text \in Seq(Alphabet)
      <4>1. 1 \in 1..Root(d)
        BY <1>1, OneNumber
      <4>2. Plain(x.text)
        BY <4>1 DEF PlainIn
      <4> QED BY <1>1, <4>2, NodeIs
    <3>2. Unescape(Quoted(x.text)) = x.text
      BY <3>1, Unquoted
    <3>3. node = [type |-> x.type, name |-> "", text |-> x.text, kids |-> <<>>]
      BY <1>1, <1>4, <2>2, <3>2
    <3>4. x = [type |-> x.type, name |-> "", text |-> x.text, kids |-> <<>>]
      BY <1>1, NodeIs
    <3> QED BY <3>3, <3>4
  <2>6. made' = 1 /\ held' = 1 /\ heap' = [i \in 1..1 |-> node]
    <3>1. DOMAIN heap = 1..made
      BY <1>4 DEF HeapAs
    <3>2. made' = made + 1 /\ heap' = [i \in DOMAIN heap \union {made + 1} |-> IF i = made + 1 THEN node ELSE heap[i]]
      BY <2>4 DEF Make
    <3>3. made + 1 = 1
      <4>1. made = 0
        BY <1>4
      <4> QED BY ONLY <4>1
    <3>4. DOMAIN heap \union {1} = 1..1
      <4>1. 1..0 = {} /\ 1..1 = {1}
        BY OneNumber
      <4>2. 1..made = 1..0
        BY <1>4
      <4> QED BY <3>1, <4>1, <4>2
    <3>5. heap' = [i \in 1..1 |-> IF i = 1 THEN node ELSE heap[i]]
      BY <3>2, <3>3, <3>4
    <3>6. \A i \in 1..1 : i = 1
      BY OneNumber
    <3>7. heap' = [i \in 1..1 |-> node]
      BY <3>5, <3>6
    <3> QED BY <2>4, <3>2, <3>3, <3>7
  <2>7. HeapAs(d)'
    <3>1. heap' = [i \in 1..made' |-> heap'[i]]
      BY <2>6
    <3>2. ASSUME line'.plain, NEW i \in 1..made' PROVE heap'[i] = d.nodes[i]
      <4>1. i = 1
        BY <2>6, OneNumber
      <4> QED BY <2>4, <2>5, <2>6, <3>2, <4>1
    <3> QED BY <3>1, <3>2 DEF HeapAs
  <2> QED BY <2>2, <2>4, <2>6, <2>7 DEF InStreamLine
<1>5. CASE output = None /\ given = None /\ HeapAs(d) /\ mode = "whole" /\ Shifted(t, 2) /\ made = 1 /\ held = 1
  <2>1. 3 = 2 + 1 /\ 3 \in 1..Len(t) /\ 2 \in Nat
    <3>1. Len(t) = 3
      BY <1>1
    <3> QED BY ONLY <3>1
  <2>2. rest # <<>> /\ Head(rest) = t[3] /\ (rest' = Tail(rest) => rest' = <<>>)
    BY <1>1, <1>5, <2>1, ShiftHere
  <2>3. EndOutput
    <3>1. ~ (ReadToken \/ ReadRecordMark \/ ReadPrompt \/ ReadStreamMark \/ ReadStream)
      BY <1>5 DEF ReadToken, ReadRecordMark, ReadPrompt, ReadStreamMark, ReadStream, Expects
    <3>2. ~ (ReadClass \/ ReadComma \/ ReadVariable \/ ReadEqual \/ ReadConst \/ OpenList)
      BY <1>5 DEF ReadClass, ReadComma, ReadVariable, ReadEqual, ReadConst, OpenList, Expects
    <3>3. ~ (CloseList \/ EndRecord \/ Accept \/ DestroyDriver \/ DeleteRecord)
      BY <1>5 DEF CloseList, EndRecord, Accept, Expects, DestroyDriver, DeleteRecord
    <3>4. ~ Refuse
      BY <1>1, <1>5, <2>2 DEF Refuse, Acceptable, At
    <3> QED BY <3>1, <3>2, <3>3, <3>4 DEF LineNext, Parse
  <2>4. /\ mode' = "end" /\ rest' = Tail(rest) /\ output' = held /\ given' = None
        /\ heap' = heap /\ made' = made /\ line' = line
    BY <1>5, <2>3 DEF EndOutput, Shift, NoNode
  <2>5. HeapAs(d)'
    BY <1>5, <2>4 DEF HeapAs
  <2>6. HasEnded(d)'
    BY <1>1, <1>5, <2>2, <2>4, <2>5 DEF HasEnded
  <2> QED BY <2>6 DEF InStreamLine
<1> QED BY <1>2, <1>3, <1>4, <1>5 DEF InStreamLine
-----------------------------------------------------------------------------
PromptTokens(t) ==
  /\ IsRow(t) /\ Len(t) = 4
  /\ t[1].kind = "(" /\ t[2].kind = "STRING" /\ t[3].kind = ")" /\ t[4].kind = "NL"

\* The prompt's tokens
LEMMA PromptRow ==
  ASSUME NEW t, NEW d, PromptLaid(t, d)
  PROVE  PromptTokens(t)
<1>1. IsRow(t) /\ Len(t) = 4 /\ [p \in 1..4 |-> t[p].kind] = <<"(", "STRING", ")", "NL">>
  BY DEF PromptLaid, PrintsPrompt
<1> DEFINE f == [p \in 1..4 |-> t[p].kind]
           g == <<"(", "STRING", ")", "NL">>
<1>2. f[1] = t[1].kind /\ f[2] = t[2].kind /\ f[3] = t[3].kind /\ f[4] = t[4].kind
  OBVIOUS
<1>3. g[1] = "(" /\ g[2] = "STRING" /\ g[3] = ")" /\ g[4] = "NL"
  OBVIOUS
<1>4. f = g
  BY <1>1
<1> HIDE DEF f, g
<1> QED BY <1>1, <1>2, <1>3, <1>4 DEF PromptTokens

\* What the tokens of a prompt allow
LEMMA PromptOnly ==
  ASSUME NEW t, PromptTokens(t), InPromptLine(t), LineNext
  PROVE  \/ mode \in {"start", "prompt", "paren"} /\ ReadPrompt
         \/ mode = "whole" /\ EndOutput
         \/ mode = "end" /\ Accept
         \/ mode = "accepted" /\ DestroyDriver
<1>1. mode \in {"start", "prompt", "paren", "whole", "end", "accepted"} /\ given = None
  BY DEF InPromptLine
<1>2. /\ mode = "start" => rest # <<>> /\ Head(rest).kind = "("
      /\ mode = "prompt" => rest # <<>> /\ Head(rest).kind = "STRING"
      /\ mode = "paren" => rest # <<>> /\ Head(rest).kind = ")"
      /\ mode = "whole" => rest # <<>> /\ Head(rest).kind = "NL"
      /\ mode = "end" => rest = <<>>
  <2>1. Len(t) = 4 /\ IsRow(t)
    BY DEF PromptTokens
  <2>2. /\ 1 = 0 + 1 /\ 2 = 1 + 1 /\ 3 = 2 + 1 /\ 4 = 3 + 1
        /\ 1 \in 1..Len(t) /\ 2 \in 1..Len(t) /\ 3 \in 1..Len(t) /\ 4 \in 1..Len(t)
        /\ 0 \in Nat /\ 1 \in Nat /\ 2 \in Nat /\ 3 \in Nat
    <3>1. Len(t) = 4
      BY <2>1
    <3> QED BY ONLY <3>1
  <2>3. /\ Shifted(t, 0) => rest # <<>> /\ Head(rest) = t[1]
        /\ Shifted(t, 1) => rest # <<>> /\ Head(rest) = t[2]
        /\ Shifted(t, 2) => rest # <<>> /\ Head(rest) = t[3]
        /\ Shifted(t, 3) => rest # <<>> /\ Head(rest) = t[4]
    BY <2>1, <2>2, ShiftHere
  <2> QED BY <2>3 DEF InPromptLine, PromptTokens
<1>3. ~ (ReadToken \/ ReadRecordMark \/ ReadStreamMark)
  BY <1>1, <1>2 DEF ReadToken, ReadRecordMark, ReadStreamMark, Expects, At
<1>4. ~ (ReadClass \/ ReadComma \/ ReadVariable \/ ReadEqual \/ ReadConst \/ OpenList)
  BY <1>1 DEF ReadClass, ReadComma, ReadVariable, ReadEqual, ReadConst, OpenList, Expects
<1>5. ~ (CloseList \/ EndRecord \/ ReadStream \/ DeleteRecord)
  BY <1>1 DEF CloseList, EndRecord, ReadStream, Expects, DeleteRecord
<1>6. ~ Refuse
  BY <1>1, <1>2 DEF Refuse, Acceptable, At
<1>7. ReadPrompt \/ EndOutput \/ Accept \/ DestroyDriver
  BY <1>3, <1>4, <1>5, <1>6 DEF LineNext, Parse
<1>8. ReadPrompt => mode \in {"start", "prompt", "paren"}
  BY DEF ReadPrompt, Expects
<1>9. (EndOutput => mode = "whole") /\ (Accept => mode = "end") /\ (DestroyDriver => mode = "accepted")
  BY <1>1 DEF EndOutput, Accept, DestroyDriver
<1> QED BY <1>7, <1>8, <1>9

\* The prompt is read on as it was printed, and makes no node.
LEMMA PromptStep ==
  ASSUME NEW t, PromptTokens(t), InPromptLine(t), LineNext
  PROVE  InPromptLine(t)'
<1>1. output = None /\ given = None /\ held = None /\ made = 0
  BY DEF InPromptLine
<1>2. /\ 1 = 0 + 1 /\ 2 = 1 + 1 /\ 3 = 2 + 1 /\ 4 = 3 + 1
      /\ 1 \in 1..Len(t) /\ 2 \in 1..Len(t) /\ 3 \in 1..Len(t) /\ 4 \in 1..Len(t)
      /\ 0 \in Nat /\ 1 \in Nat /\ 2 \in Nat /\ 3 \in Nat /\ Len(t) = 4
  <2>1. Len(t) = 4
    BY DEF PromptTokens
  <2> QED BY ONLY <2>1
<1>3. /\ Shifted(t, 0) /\ rest' = Tail(rest) => Shifted(t, 1)'
      /\ Shifted(t, 1) /\ rest' = Tail(rest) => Shifted(t, 2)'
      /\ Shifted(t, 2) /\ rest' = Tail(rest) => Shifted(t, 3)'
      /\ Shifted(t, 3) /\ rest' = Tail(rest) => rest' = <<>>
  BY <1>2, ShiftHere DEF PromptTokens
<1>4. CASE mode \in {"start", "prompt", "paren"} /\ ReadPrompt
  <2>1. output' = None /\ given' = None /\ held' = None /\ made' = 0 /\ rest' = Tail(rest)
    BY <1>1, <1>4 DEF ReadPrompt, Expects, Shift, NoNode
  <2>2. mode' = (CASE mode = "start" -> "prompt" [] mode = "prompt" -> "paren" [] mode = "paren" -> "whole")
    BY <1>4 DEF ReadPrompt, Expects, Shift
  <2>3. CASE mode = "start"
    BY <1>3, <2>1, <2>2, <2>3 DEF InPromptLine
  <2>4. CASE mode = "prompt"
    BY <1>3, <2>1, <2>2, <2>4 DEF InPromptLine
  <2>5. CASE mode = "paren"
    BY <1>3, <2>1, <2>2, <2>5 DEF InPromptLine
  <2> QED BY <1>4, <2>3, <2>4, <2>5
<1>5. CASE mode = "whole" /\ EndOutput
  <2>1. output' = None /\ given' = None /\ held' = None /\ made' = 0 /\ mode' = "end" /\ rest' = Tail(rest)
    BY <1>1, <1>5 DEF EndOutput, Shift, NoNode
  <2>2. Shifted(t, 3)
    BY <1>5 DEF InPromptLine
  <2> QED BY <1>3, <2>1, <2>2 DEF InPromptLine
<1>6. CASE mode = "end" /\ Accept
  BY <1>1, <1>6 DEF InPromptLine, Accept, NoNode
<1>7. CASE mode = "accepted" /\ DestroyDriver
  BY <1>1, <1>7 DEF InPromptLine, DestroyDriver, parser
<1> QED BY <1>4, <1>5, <1>6, <1>7, PromptOnly

-----------------------------------------------------------------------------
\* The line is read as it was printed.
ReadAs(t, d) ==
  \/ RecordLaid(t, d) /\ InRecordLine(t, d)
  \/ StreamLaid(t, d) /\ InStreamLine(t, d)
  \/ PromptLaid(t, d) /\ InPromptLine(t)

\* Where its nodes are printed tells how far the parser is.
ReadInv ==
  line.sent # None =>
    \E l, t, d : l = line /\ t = Tokens(l.text) /\ PrintedAs(l, d) /\ ReadAs(t, d)

\* A printed line is a record, a stream record or the prompt, and was sent for what its nodes mean.
LEMMA PrintedLine ==
  ASSUME NEW l, NEW t, NEW d, t = Tokens(l.text), PrintedAs(l, d)
  PROVE  /\ RecordLaid(t, d) \/ StreamLaid(t, d) \/ PromptLaid(t, d)
         /\ RecordLaid(t, d) \/ StreamLaid(t, d) => l.sent = Meaning(d.nodes, Root(d)) /\ l.sent.type # "prompt"
         /\ PromptLaid(t, d) => l.sent.type = "prompt"
         /\ l.plain => \A i \in 1..Root(d) : Plain(d.nodes[i].text)
<1>1. IsRow(t)
  BY TokensRow DEF IsRow, PrintedAs
<1>2. /\ IsLayout(d, Len(t)) /\ (PrintsRecord(t, d) \/ PrintsStream(t, d) \/ PrintsPrompt(t, d))
      /\ l.sent.type = "prompt" <=> d.nodes = <<>>
      /\ d.nodes # <<>> => l.sent = Meaning(d.nodes, Root(d))
      /\ l.plain => \A i \in 1..Root(d) : Plain(d.nodes[i].text)
  BY DEF PrintedAs, Root
<1>3. d.nodes \in Seq(Node)
  BY <1>2 DEF IsLayout
<1>4. RecordLaid(t, d) \/ StreamLaid(t, d) \/ PromptLaid(t, d)
  BY <1>1, <1>2, <1>3 DEF RecordLaid, StreamLaid, PromptLaid
<1>5. RecordLaid(t, d) => d.nodes # <<>>
  <2> SUFFICES ASSUME RecordLaid(t, d) PROVE d.nodes # <<>>
    OBVIOUS
  <2>1. Root(d) # 0
    BY RecordHasNodes DEF HasNodes
  <2> QED BY <2>1 DEF Root
<1>6. StreamLaid(t, d) => d.nodes # <<>>
  BY DEF StreamLaid, PrintsStream
<1>7. PromptLaid(t, d) => d.nodes = <<>>
  BY DEF PromptLaid, PrintsPrompt
<1> QED BY <1>2, <1>4, <1>5, <1>6, <1>7

\* A line is read from its beginning.
LEMMA ReadFirst ==
  ASSUME \A l \in Lines : l.sent # None => Printed(l), LineInit
  PROVE  ReadInv
<1> SUFFICES ASSUME line.sent # None
             PROVE  \E l, t, d : l = line /\ t = Tokens(l.text) /\ PrintedAs(l, d) /\ ReadAs(t, d)
  BY DEF ReadInv
<1> PICK d : PrintedAs(line, d)
  BY DEF LineInit, Printed
<1> PICK l, t : l = line /\ t = Tokens(l.text)
  OBVIOUS
<1>1. PrintedAs(l, d)
  OBVIOUS
<1>2. RecordLaid(t, d) \/ StreamLaid(t, d) \/ PromptLaid(t, d)
  BY <1>1, PrintedLine
<1>3. ASSUME RecordLaid(t, d) PROVE ReadAs(t, d)
  BY <1>3, RecordFirst DEF ReadAs
<1>4. /\ rest = t /\ mode = "start" /\ heap = <<>> /\ made = 0 /\ held = None /\ output = None /\ given = None
  BY DEF LineInit
<1>5. IsRow(t) => Shifted(t, 0)
  <2> SUFFICES ASSUME NEW S, t \in Seq(S) PROVE Shifted(t, 0)
    BY DEF IsRow
  <2>1. 0 \in 0..Len(t) /\ SubSeq(t, 0 + 1, Len(t)) = t
    OBVIOUS
  <2> QED BY <1>4, <2>1 DEF Shifted
<1>6. ASSUME StreamLaid(t, d) PROVE ReadAs(t, d)
  <2>1. 1..0 = {} /\ <<>> = [i \in 1..0 |-> heap[i]]
    OBVIOUS
  <2>2. HeapAs(d)
    BY <1>4, <2>1 DEF HeapAs
  <2>3. InStreamLine(t, d)
    BY <1>4, <1>5, <1>6, <2>2 DEF InStreamLine, StreamLaid
  <2> QED BY <1>6, <2>3 DEF ReadAs
<1>7. ASSUME PromptLaid(t, d) PROVE ReadAs(t, d)
  <2>1. InPromptLine(t)
    BY <1>4, <1>5, <1>7 DEF InPromptLine, PromptLaid
  <2> QED BY <1>7, <2>1 DEF ReadAs
<1>8. ReadAs(t, d)
  BY <1>2, <1>3, <1>6, <1>7
<1> QED BY <1>1, <1>8

\* The line does not change.
LEMMA LineKept ==
  ASSUME LineNext
  PROVE  line' = line
<1>1. CASE ReadToken \/ ReadRecordMark \/ ReadClass \/ ReadComma \/ ReadVariable \/ ReadEqual
  BY <1>1 DEF ReadToken, ReadRecordMark, ReadClass, ReadComma, ReadVariable, ReadEqual, Expects
<1>2. CASE ReadConst \/ OpenList \/ CloseList \/ EndRecord
  BY <1>2 DEF ReadConst, OpenList, CloseList, EndRecord, Expects
<1>3. CASE ReadStreamMark \/ ReadStream \/ ReadPrompt \/ EndOutput
  BY <1>3 DEF ReadStreamMark, ReadStream, ReadPrompt, EndOutput, Expects
<1>4. CASE Accept \/ Refuse \/ DestroyDriver \/ DeleteRecord
  BY <1>4 DEF Accept, Refuse, DestroyDriver, DeleteRecord
<1> QED BY <1>1, <1>2, <1>3, <1>4 DEF LineNext, Parse

\* Every step reads the line on as it was printed.
LEMMA ReadStep ==
  ASSUME None \notin Nat, ReadInv, [LineNext]_lineVars
  PROVE  ReadInv'
<1> SUFFICES ASSUME line'.sent # None
             PROVE  \E l, t, d : l = line' /\ t = Tokens(l.text) /\ PrintedAs(l, d) /\ ReadAs(t, d)'
  BY DEF ReadInv
<1>1. line' = line
  BY LineKept DEF lineVars
<1> PICK l, t, d : l = line /\ t = Tokens(l.text) /\ PrintedAs(l, d) /\ ReadAs(t, d)
  BY <1>1 DEF ReadInv
<1>2. PlainIn(d)
  BY PrintedLine DEF PlainIn
<1>3. CASE LineNext
  <2>1. ASSUME RecordLaid(t, d), InRecordLine(t, d) PROVE ReadAs(t, d)'
    <3>1. InRecordLine(t, d)'
      BY <1>2, <1>3, <2>1, RecordStep
    <3> QED BY <2>1, <3>1 DEF ReadAs
  <2>2. ASSUME StreamLaid(t, d), InStreamLine(t, d) PROVE ReadAs(t, d)'
    <3>1. InStreamLine(t, d)'
      BY <1>2, <1>3, <2>2, StreamStep
    <3> QED BY <2>2, <3>1 DEF ReadAs
  <2>3. ASSUME PromptLaid(t, d), InPromptLine(t) PROVE ReadAs(t, d)'
    <3>1. InPromptLine(t)'
      BY <1>3, <2>3, PromptRow, PromptStep
    <3> QED BY <2>3, <3>1 DEF ReadAs
  <2>4. ReadAs(t, d)'
    BY <2>1, <2>2, <2>3 DEF ReadAs
  <2> QED BY <1>1, <2>4
<1>4. CASE UNCHANGED lineVars
  <2>1. /\ rest' = rest /\ mode' = mode /\ tag' = tag /\ name' = name /\ open' = open /\ held' = held
        /\ heap' = heap /\ made' = made /\ output' = output /\ given' = given
    BY <1>4 DEF lineVars, parser
  <2>2. InRecordLine(t, d) => InRecordLine(t, d)'
    <3>1. HeapAs(d) => HeapAs(d)'
      BY <1>1, <2>1 DEF HeapAs
    <3>2. ASSUME NEW p, Position(t, d, p) PROVE Position(t, d, p)'
      BY <2>1, <3>1, <3>2 DEF Position, MadeBy
    <3>3. ASSUME NEW p, InHead(t, d, p) PROVE InHead(t, d, p)'
      BY <2>1, <3>2, <3>3 DEF InHead
    <3>4. ASSUME NEW p, InLists(t, d, p) PROVE InLists(t, d, p)'
      <4> PICK w : Within(t, d, p, w)
        BY <3>4 DEF InLists
      <4>1. Position(t, d, p)'
        BY <3>2, <3>4 DEF InLists
      <4>2. Within(t, d, p, w)'
        BY <2>1 DEF Within, Stage
      <4> QED BY <4>1, <4>2 DEF InLists
    <3>5. HasEnded(d) => HasEnded(d)'
      BY <2>1, <3>1 DEF HasEnded
    <3> QED BY <2>1, <3>3, <3>4, <3>5 DEF InRecordLine
  <2>3. InStreamLine(t, d) => InStreamLine(t, d)'
    BY <1>1, <2>1 DEF InStreamLine, HasEnded, HeapAs, Shifted
  <2>4. InPromptLine(t) => InPromptLine(t)'
    BY <2>1 DEF InPromptLine, Shifted
  <2>5. ReadAs(t, d)'
    BY <2>2, <2>3, <2>4 DEF ReadAs
  <2> QED BY <1>1, <2>5
<1> QED BY <1>3, <1>4

\* A line read so is read back.
LEMMA ReadFits ==
  ASSUME ReadInv
  PROVE  ReadBack
<1> SUFFICES ASSUME line.sent # None PROVE ReadBack
  BY DEF ReadBack
<1> PICK l, t, d : l = line /\ t = Tokens(l.text) /\ PrintedAs(l, d) /\ ReadAs(t, d)
  BY DEF ReadInv
<1>1. CASE RecordLaid(t, d) /\ InRecordLine(t, d)
  BY <1>1, PrintedLine, RecordReadBack
<1>2. CASE StreamLaid(t, d) /\ InStreamLine(t, d)
  <2>1. line.sent = Meaning(d.nodes, Root(d)) /\ line.sent.type # "prompt"
    BY <1>2, PrintedLine
  <2>2. CASE HasEnded(d)
    <3>1. Len(d.nodes) = 1 /\ d.nodes \in Seq(Node)
      BY <1>2 DEF StreamLaid, PrintsStream
    <3>2. HasNodes(d)
      BY <3>1 DEF HasNodes, Root
    <3> QED BY <2>1, <2>2, <3>2, EndedReadBack
  <2>3. CASE ~ HasEnded(d)
    <3>1. mode \in {"start", "stream", "whole"} /\ given = None
      BY <1>2, <2>3 DEF InStreamLine
    <3> QED BY <3>1 DEF ReadBack
  <2> QED BY <2>2, <2>3
<1>3. CASE PromptLaid(t, d) /\ InPromptLine(t)
  <2>1. line.sent.type = "prompt"
    BY <1>3, PrintedLine
  <2>2. mode # "refused" /\ given = None /\ made = 0
    BY <1>3 DEF InPromptLine
  <2> QED BY <2>1, <2>2 DEF ReadBack
<1> QED BY <1>1, <1>2, <1>3 DEF ReadAs

\* What gdb printed is what the program reads (see ReadBack), for any lines
\* printed as MiPrinted says, however deep their tuples and lists nest and
\* however long their texts are.
THEOREM ReadBackCorrect ==
  ASSUME \A l \in Lines : l.sent # None => Printed(l)
  PROVE  LineSpec => []ReadBack
<1>1. LineInit => ReadInv
  BY ReadFirst
<1>2. ReadInv /\ [LineNext]_lineVars => ReadInv'
  BY ReadStep, LinesAssumption
<1>3. ReadInv => ReadBack
  BY ReadFits
<1> QED BY <1>1, <1>2, <1>3, PTL DEF LineSpec
=============================================================================
