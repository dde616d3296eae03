------------------------- MODULE BreakpointsProofs -------------------------
(***************************************************************************)
(* What is saved goes to the file of the session that is open; what is     *)
(* listed, shown and saved follows gdb's breakpoints, and what was saved   *)
(* is loaded again: for any session files, places and notifications.  The  *)
(* loops (Only, Loaded) are reasoned about by induction over the entries   *)
(* that have been gone through.                                            *)
(***************************************************************************)
EXTENDS Breakpoints, FiniteSetTheorems, SequenceTheorems, WellFoundedInduction, TLAPS
-----------------------------------------------------------------------------
(* Induction over the numbers below a bound, and the functions it defines. *)

\* A set of numbers that is not empty has a smallest.
LEMMA SmallestNumber ==
  ASSUME NEW T \in SUBSET Nat, T # {}
  PROVE  \E n \in T : \A m \in T : n <= m
<1> DEFINE R == OpToRel(<, Nat)
<1>1. \E x \in T : \A y \in T : ~ (<<y, x>> \in R)
  <2>1. IsWellFoundedOn(R, Nat)
    BY NatLessThanWellFounded
  <2> HIDE DEF R
  <2> QED BY <2>1, WFMin
<1>2. \A x, y \in Nat : y < x => <<y, x>> \in R
  BY DEF OpToRel
<1> HIDE DEF R
<1>3. PICK n \in T : \A y \in T : ~ (<<y, n>> \in R)
  BY <1>1
<1>4. ASSUME NEW m \in T PROVE n <= m
  <2>1. m \in Nat /\ n \in Nat /\ ~ (m < n)
    BY <1>2, <1>3
  <2> QED BY <2>1
<1> QED BY <1>4

\* Induction up to k, over a set
LEMMA UpTo ==
  ASSUME NEW k \in Nat, NEW T, 0 \in T, \A n \in 1..k : n - 1 \in T => n \in T
  PROVE  0..k \subseteq T
<1> SUFFICES ASSUME (0..k) \ T # {} PROVE FALSE
  OBVIOUS
<1>1. PICK n \in (0..k) \ T : \A m \in (0..k) \ T : n <= m
  <2>1. (0..k) \ T \in SUBSET Nat
    OBVIOUS
  <2> QED BY <2>1, SmallestNumber
<1>2. n \in 1..k /\ n - 1 \in 0..k /\ ~ (n <= n - 1)
  BY <1>1
<1>3. n - 1 \in T
  BY <1>1, <1>2
<1> QED BY <1>1, <1>2, <1>3

\* A function may be defined on 0..k step by step: if F stays in X ...
Steps(X, base, k, F) ==
  base \in X /\ k \in Nat /\ \A n \in 1..k, x \in X : F[<<n, x>>] \in X

\* ... there is a function that starts at base and goes on as F says.
Defines(X, base, k, F) ==
  \E f \in [0..k -> X] : f[0] = base /\ \A n \in 1..k : f[n] = F[<<n, f[n - 1]>>]

\* Given a function for its steps and a base, the function computed step by step exists.
LEMMA Stepwise ==
  ASSUME NEW X, NEW base, NEW k, NEW F, Steps(X, base, k, F)
  PROVE  Defines(X, base, k, F)
<1> DEFINE Good(m, f) == f[0] = base /\ \A n \in 1..m : f[n] = F[<<n, f[n - 1]>>]
           T == {m \in 0..k : \E f \in [0..m -> X] : Good(m, f)}
<1>0. base \in X /\ k \in Nat /\ \A n \in 1..k, x \in X : F[<<n, x>>] \in X
  BY DEF Steps
<1>1. 0 \in T
  <2>1. [n \in 0..0 |-> base] \in [0..0 -> X] /\ Good(0, [n \in 0..0 |-> base])
    BY <1>0
  <2>2. \E f \in [0..0 -> X] : Good(0, f)
    BY <2>1
  <2>3. 0 \in 0..k
    BY <1>0
  <2> HIDE DEF Good
  <2> QED BY <2>2, <2>3
<1>2. ASSUME NEW m \in 1..k, m - 1 \in T PROVE m \in T
  <2>1. PICK f \in [0..(m - 1) -> X] : Good(m - 1, f)
    BY <1>2
  <2> DEFINE g == [n \in 0..m |-> IF n = m THEN F[<<m, f[m - 1]>>] ELSE f[n]]
  <2>2. m - 1 \in 0..(m - 1) /\ m \in 0..m
    BY <1>0
  <2>3. F[<<m, f[m - 1]>>] \in X
    BY <1>0, <2>1, <2>2
  <2>4. \A n \in 0..(m - 1) : n \in 0..m /\ n # m /\ g[n] = f[n]
    BY <1>0
  <2>5. g \in [0..m -> X]
    BY <2>3
  <2>6. g[0] = base
    BY <2>1, <2>4
  <2>7. ASSUME NEW n \in 1..m PROVE g[n] = F[<<n, g[n - 1]>>]
    <3>1. n - 1 \in 0..(m - 1)
      BY <1>0
    <3>2. g[n - 1] = f[n - 1]
      BY <2>4, <3>1
    <3>3. CASE n = m
      BY <2>2, <3>2, <3>3
    <3>4. CASE n # m
      <4>1. n \in 1..(m - 1) /\ n \in 0..(m - 1)
        BY <3>4
      <4> QED BY <2>1, <2>4, <3>2, <4>1
    <3> QED BY <3>3, <3>4
  <2> HIDE DEF g
  <2>8. Good(m, g)
    BY <2>6, <2>7
  <2>9. m \in 0..k
    BY <1>0
  <2> QED BY <2>5, <2>8, <2>9
<1>3. k \in T
  <2> HIDE DEF T
  <2>1. 0..k \subseteq T
    BY <1>0, <1>1, <1>2, UpTo
  <2> QED BY <1>0, <2>1
<1> QED BY <1>3 DEF Defines
-----------------------------------------------------------------------------
(* The entries of a sequence that are in a set.                            *)

\* The function Only is computed with
OnlyUpTo(s, set) ==
  LET kept[n \in 0..Len(s)] == IF n = 0 THEN <<>>
                               ELSE IF s[n] \in set THEN Append(kept[n - 1], s[n])
                               ELSE kept[n - 1]
  IN kept

\* It is what its definition says.
LEMMA OnlyStep ==
  ASSUME NEW S, NEW s \in Seq(S), NEW set
  PROVE  /\ OnlyUpTo(s, set) \in [0..Len(s) -> Seq(S)]
         /\ Only(s, set) = OnlyUpTo(s, set)[Len(s)]
         /\ OnlyUpTo(s, set)[0] = <<>>
         /\ \A n \in 1..Len(s) :
               OnlyUpTo(s, set)[n] = IF s[n] \in set THEN Append(OnlyUpTo(s, set)[n - 1], s[n])
                                                    ELSE OnlyUpTo(s, set)[n - 1]
<1> DEFINE k == Len(s)
           Step(n, x) == IF s[n] \in set THEN Append(x, s[n]) ELSE x
           F == [p \in (1..k) \X Seq(S) |-> Step(p[1], p[2])]
           Is(g) == g = [n \in 0..k |-> IF n = 0 THEN <<>> ELSE Step(n, g[n - 1])]
           f == OnlyUpTo(s, set)
<1>1. k \in Nat /\ <<>> \in Seq(S)
  OBVIOUS
<1>2. ASSUME NEW n \in 1..k, NEW x \in Seq(S) PROVE Step(n, x) \in Seq(S) /\ F[<<n, x>>] = Step(n, x)
  <2>1. s[n] \in S
    OBVIOUS
  <2>2. Step(n, x) \in Seq(S)
    BY <2>1, AppendProperties
  <2> QED BY <2>2
<1>3. \E g : g \in [0..k -> Seq(S)] /\ Is(g)
  <2>1. PICK g \in [0..k -> Seq(S)] : g[0] = <<>> /\ \A n \in 1..k : g[n] = F[<<n, g[n - 1]>>]
    <3> HIDE DEF k, F, Step
    <3>1. Steps(Seq(S), <<>>, k, F)
      BY <1>1, <1>2 DEF Steps
    <3>2. Defines(Seq(S), <<>>, k, F)
      BY <3>1, Stepwise
    <3> QED BY <3>2 DEF Defines
  <2>2. ASSUME NEW n \in 1..k PROVE g[n] = Step(n, g[n - 1])
    <3>1. n - 1 \in 0..k /\ g[n - 1] \in Seq(S)
      BY <1>1
    <3> HIDE DEF k, F, Step
    <3> QED BY <1>2, <2>1, <3>1
  <2> HIDE DEF k, F, Step
  <2>3. Is(g)
    <3>1. \A n \in 0..k : n = 0 \/ n \in 1..k
      BY <1>1
    <3> QED BY <2>1, <2>2, <3>1
  <2> QED BY <2>3
<1>4. f = CHOOSE g : Is(g)
  BY DEF OnlyUpTo
<1>5. Is(f)
  <2> HIDE DEF Is, f
  <2> QED BY <1>3, <1>4
<1>6. Only(s, set) = f[k]
  BY DEF Only, OnlyUpTo
<1>7. f[0] = <<>> /\ \A n \in 1..k : f[n] = Step(n, f[n - 1])
  <2> HIDE DEF f, Step, k
  <2>1. 0 \in 0..k /\ \A n \in 1..k : n \in 0..k /\ n # 0
    BY <1>1
  <2> QED BY <1>5, <2>1
<1>8. \A n \in 0..k : f[n] \in Seq(S)
  <2> DEFINE T == {n \in 0..k : f[n] \in Seq(S)}
  <2> HIDE DEF f, Step, k, F
  <2>1. 0 \in T
    <3>1. 0 \in 0..k
      BY <1>1
    <3>2. f[0] \in Seq(S)
      BY <1>1, <1>7, Zenon
    <3> QED BY <3>1, <3>2
  <2>2. ASSUME NEW n \in 1..k, n - 1 \in T PROVE n \in T
    <3>1. f[n - 1] \in Seq(S) /\ n \in 0..k
      BY <1>1, <2>2
    <3> QED BY <1>2, <1>7, <3>1
  <2> HIDE DEF T
  <2>3. 0..k \subseteq T
    BY <1>1, <2>1, <2>2, UpTo
  <2> QED BY <2>3 DEF T
<1>9. f \in [0..k -> Seq(S)]
  <2> HIDE DEF f, Step, k
  <2> QED BY <1>5, <1>8
<1> QED BY <1>6, <1>7, <1>9, Zenon

\* Nothing is taken of nothing.
LEMMA OnlyNothing == ASSUME NEW set PROVE Only(<<>>, set) = <<>>
<1> DEFINE s == <<>>
           S == {}
<1>1. s \in Seq(S) /\ Len(s) = 0
  OBVIOUS
<1> HIDE DEF s, S
<1>2. s \in Seq(S)
  BY <1>1
<1>3. /\ OnlyUpTo(s, set) \in [0..Len(s) -> Seq(S)]
      /\ Only(s, set) = OnlyUpTo(s, set)[Len(s)]
      /\ OnlyUpTo(s, set)[0] = <<>>
  BY <1>2, OnlyStep
<1> QED BY <1>1, <1>3, Zenon DEF s

\* It keeps entries of the sequence that are in the set, and no others.
LEMMA OnlyEntries ==
  ASSUME NEW S, NEW s \in Seq(S), NEW set
  PROVE  /\ Only(s, set) \in Seq(S)
         /\ Range(Only(s, set)) \subseteq Range(s) \intersect set
<1> DEFINE k == Len(s)
           f == OnlyUpTo(s, set)
           T == {n \in 0..k : Range(f[n]) \subseteq Range(s) \intersect set}
<1>1. /\ f \in [0..k -> Seq(S)] /\ Only(s, set) = f[k] /\ f[0] = <<>>
      /\ \A n \in 1..k : f[n] = IF s[n] \in set THEN Append(f[n - 1], s[n]) ELSE f[n - 1]
  BY OnlyStep
<1>2. k \in Nat
  OBVIOUS
<1> HIDE DEF f
<1>3. 0 \in T
  BY <1>1 DEF Range
<1>4. ASSUME NEW n \in 1..k, n - 1 \in T PROVE n \in T
  <2>1. n - 1 \in 0..k /\ n \in 0..k /\ f[n - 1] \in Seq(S) /\ s[n] \in Range(s)
    BY <1>1 DEF Range
  <2>2. Range(f[n - 1]) \subseteq Range(s) \intersect set
    BY <1>4
  <2>3. CASE s[n] \in set
    <3>1. f[n] = Append(f[n - 1], s[n])
      BY <1>1, <2>3
    <3>2. s[n] \in S
      OBVIOUS
    <3>3. ASSUME NEW i \in DOMAIN f[n] PROVE f[n][i] \in Range(f[n - 1]) \/ f[n][i] = s[n]
      BY <2>1, <3>1, <3>2 DEF Range
    <3>4. Range(f[n]) \subseteq Range(s) \intersect set
      BY <2>1, <2>2, <2>3, <3>3 DEF Range
    <3> QED BY <2>1, <3>4
  <2>4. CASE s[n] \notin set
    BY <1>1, <2>1, <2>2, <2>4
  <2> QED BY <2>3, <2>4
<1>5. 0..k \subseteq T
  <2> HIDE DEF T, k
  <2> QED BY <1>2, <1>3, <1>4, UpTo
<1>6. k \in T /\ f[k] \in Seq(S)
  BY <1>1, <1>2, <1>5
<1> QED BY <1>1, <1>6
-----------------------------------------------------------------------------
(* What gdb has.                                                           *)

\* The numbers given out are below the next one.
Below(s, no) == \A row \in Range(s) : row.no < no

\* A row of s and one of t with the same number and part are of one place.
SamePlace(s, t) ==
  \A shown \in Range(s), row \in Range(t) :
    shown.no = row.no /\ shown.part = row.part => shown.spec = row.spec /\ shown.line = row.line

\* A breakpoint with one location is at a line gdb stops at when asked for it.
Placed(s) ==
  \A row \in Range(s) : ~ row.multi => row.line \in DOMAIN Lands /\ row.line \in Range(Lands[row.line])

GoodRows(s, no) == Below(s, no) /\ SamePlace(s, s) /\ Placed(s)

GoodGdb == {gdb \in [rows : Seq(Row), next : Nat \ {0}] : GoodRows(gdb.rows, gdb.next)}

\* The rows of a new breakpoint: an owner or the only one, and a row for each
\* location, all of its number.
LEMMA MadeRows ==
  ASSUME NEW no \in Nat \ {0}, NEW spec \in DOMAIN Lands, NEW temp \in BOOLEAN, NEW enabled \in BOOLEAN
  PROVE  LET m == Made(no, spec, temp, enabled)
         IN /\ m \in Seq(Row) /\ m # <<>>
            /\ \A i \in DOMAIN m : m[i].no = no /\ m[i].part = i - 1
            /\ m[1].spec = spec /\ m[1].temp = temp /\ m[1].enabled = enabled
            /\ Placed(m)
            /\ m[1].multi \/ (Len(Lands[spec]) = 1 /\ m[1].line = Lands[spec][1])
            /\ \A i \in DOMAIN m : i > 1 => m[i].multi
<1> DEFINE row == [no |-> no, part |-> 0, multi |-> FALSE, spec |-> spec,
                   line |-> Lands[spec][1], enabled |-> enabled, temp |-> temp]
           places == Lands[spec]
           owner == [row EXCEPT !.multi = TRUE, !.line = NoSpec]
           locs == [p \in DOMAIN places |->
                      [row EXCEPT !.part = p, !.multi = TRUE, !.spec = NoSpec,
                                  !.line = places[p], !.enabled = TRUE, !.temp = FALSE]]
           m == Made(no, spec, temp, enabled)
<1>1. /\ places \in Seq(ByLine \intersect DOMAIN Lands) /\ places # <<>>
      /\ \A i \in DOMAIN places : places[i] \in Range(Lands[places[i]])
  BY PlacesAssumption
<1>2. spec \in Specs /\ ByLine \subseteq Specs
  BY PlacesAssumption
<1>3. Len(places) \in Nat /\ DOMAIN places = 1..Len(places) /\ 1 \in DOMAIN places
  BY <1>1
<1>4. row \in Row
  BY <1>1, <1>2, <1>3 DEF Row
<1>5. CASE Len(places) = 1
  <2>1. m = <<row>>
    BY <1>5 DEF Made
  <2>2. m \in Seq(Row) /\ Len(m) = 1 /\ DOMAIN m = {1} /\ m[1] = row /\ m # <<>>
    BY <2>1, <1>4
  <2>3. Placed(m)
    BY <2>2, <1>1, <1>3 DEF Placed, Range
  <2> QED BY <1>5, <2>2, <2>3
<1>6. CASE Len(places) # 1
  <2>1. m = <<owner>> \o locs
    BY <1>6 DEF Made
  <2>2. owner \in Row /\ owner.no = no /\ owner.part = 0 /\ owner.spec = spec /\ owner.temp = temp
        /\ owner.enabled = enabled /\ owner.multi
    BY <1>4 DEF Row
  <2>3. ASSUME NEW p \in DOMAIN places
        PROVE  /\ locs[p] \in Row /\ locs[p].no = no /\ locs[p].part = p
               /\ locs[p].multi
    <3>1. places[p] \in ByLine /\ p \in Nat
      BY <1>1, <1>3
    <3> QED BY <1>4, <3>1 DEF Row
  <2>4. locs \in Seq(Row) /\ Len(locs) = Len(places) /\ DOMAIN locs = DOMAIN places
    <3> HIDE DEF row
    <3>1. locs \in [1..Len(places) -> Row]
      BY <1>3, <2>3
    <3> HIDE DEF locs
    <3> QED BY <1>3, <3>1
  <2> HIDE DEF owner, locs, m, row, places
  <2>5. <<owner>> \in Seq(Row) /\ Len(<<owner>>) = 1 /\ <<owner>>[1] = owner
    BY <2>2
  <2>6. m \in Seq(Row) /\ Len(m) = 1 + Len(places) /\ DOMAIN m = 1..(1 + Len(places))
    BY <1>3, <2>1, <2>4, <2>5
  <2>7. m[1] = owner /\ m # <<>>
    BY <1>3, <2>1, <2>4, <2>5, <2>6
  <2>8. ASSUME NEW i \in DOMAIN m, i # 1 PROVE i - 1 \in DOMAIN places /\ m[i] = locs[i - 1]
    BY <1>3, <2>1, <2>4, <2>5, <2>6, <2>8
  <2>9. \A i \in DOMAIN m : m[i].multi /\ m[i].no = no /\ m[i].part = i - 1
    BY <2>2, <2>3, <2>6, <2>7, <2>8
  <2>10. Placed(m)
    BY <2>9 DEF Placed, Range
  <2> QED BY <2>2, <2>6, <2>7, <2>9, <2>10 DEF m
<1> QED BY <1>5, <1>6

\* The entries of a list of rows are rows.
LEMMA RowsOf ==
  ASSUME NEW s \in Seq(Row), NEW row \in Range(s)
  PROVE  row \in Row /\ row.no \in Nat
<1>1. PICK i \in DOMAIN s : row = s[i]
  BY DEF Range
<1>2. row \in Row
  BY <1>1
<1> QED BY <1>2 DEF Row

\* -break-insert keeps what gdb has and adds a number no row had: rows of
\* before the command still name what they named.
LEMMA InsertedGood ==
  ASSUME NEW gdb \in GoodGdb, NEW spec, NEW temp \in BOOLEAN, NEW enabled \in BOOLEAN
  PROVE  LET new == Inserted(gdb, spec, temp, enabled)
         IN /\ new \in GoodGdb
            /\ \A s \in Seq(Row) : Below(s, gdb.next) /\ SamePlace(s, gdb.rows)
                                    => Below(s, new.next) /\ SamePlace(s, new.rows)
<1> DEFINE m == Made(gdb.next, spec, temp, enabled)
           new == Inserted(gdb, spec, temp, enabled)
<1>1. /\ gdb.rows \in Seq(Row) /\ gdb.next \in Nat \ {0}
      /\ Below(gdb.rows, gdb.next) /\ SamePlace(gdb.rows, gdb.rows) /\ Placed(gdb.rows)
  BY DEF GoodGdb, GoodRows
<1>2. CASE spec \notin DOMAIN Lands
  BY <1>2 DEF Inserted
<1>3. CASE spec \in DOMAIN Lands
  <2>1. new = [rows |-> gdb.rows \o m, next |-> gdb.next + 1]
    BY <1>3 DEF Inserted
  <2>2. /\ m \in Seq(Row) /\ \A i \in DOMAIN m : m[i].no = gdb.next /\ m[i].part = i - 1
        /\ Placed(m)
    BY <1>1, <1>3, MadeRows
  <2> HIDE DEF m, new
  <2>3. ASSUME NEW row \in Range(m) PROVE row.no = gdb.next
    BY <2>2 DEF Range
  <2>4. ASSUME NEW row \in Range(m), NEW other \in Range(m), row.part = other.part PROVE row = other
    <3>1. PICK i \in DOMAIN m : row = m[i]
      BY DEF Range
    <3>2. PICK j \in DOMAIN m : other = m[j]
      BY DEF Range
    <3>3. i - 1 = j - 1 /\ i \in Nat /\ j \in Nat
      BY <2>2, <2>4, <3>1, <3>2
    <3> QED BY <3>1, <3>2, <3>3
  <2>5. new.rows \in Seq(Row) /\ Range(new.rows) = Range(gdb.rows) \union Range(m) /\ new.next = gdb.next + 1
    <3>1. gdb.rows \o m \in Seq(Row)
      BY <1>1, <2>2
    <3>2. Range(gdb.rows \o m) = Range(gdb.rows) \union Range(m)
      BY <1>1, <2>2, RangeConcatenation
    <3> QED BY <2>1, <3>1, <3>2
  <2>6. ASSUME NEW s \in Seq(Row), Below(s, gdb.next), SamePlace(s, gdb.rows)
        PROVE  Below(s, new.next) /\ SamePlace(s, new.rows)
    <3>1. \A row \in Range(s) : row.no \in Nat /\ row.no < gdb.next
      BY <2>6, RowsOf DEF Below
    <3>2. \A row \in Range(s) : ~ (row.no = gdb.next)
      BY <1>1, <3>1
    <3>3. Below(s, new.next)
      BY <1>1, <2>5, <3>1 DEF Below
    <3>4. SamePlace(s, new.rows)
      BY <2>3, <2>5, <2>6, <3>2 DEF SamePlace
    <3> QED BY <3>3, <3>4
  <2>7. Below(new.rows, new.next)
    <3>1. \A row \in Range(gdb.rows) : row.no \in Nat /\ row.no < gdb.next
      BY <1>1, RowsOf DEF Below
    <3> QED BY <1>1, <2>3, <2>5, <3>1 DEF Below
  <2>8. SamePlace(new.rows, new.rows)
    <3>1. \A row \in Range(gdb.rows) : ~ (row.no = gdb.next)
      BY <1>1 DEF Below
    <3> QED BY <1>1, <2>3, <2>4, <2>5, <3>1 DEF SamePlace
  <2>9. Placed(new.rows)
    BY <1>1, <2>2, <2>5 DEF Placed
  <2>10. new \in [rows : Seq(Row), next : Nat \ {0}]
    BY <1>1, <2>1, <2>5
  <2> QED BY <2>6, <2>7, <2>8, <2>9, <2>10 DEF GoodGdb, GoodRows, new
<1> QED BY <1>2, <1>3

\* Fewer rows, or rows that are switched, are as good.
LEMMA FewerGood ==
  ASSUME NEW s \in Seq(Row), NEW no, GoodRows(s, no),
         NEW t \in Seq(Row),
         \A row \in Range(t) : \E was \in Range(s) :
            /\ row.no = was.no /\ row.part = was.part /\ row.multi = was.multi
            /\ row.spec = was.spec /\ row.line = was.line
  PROVE  /\ GoodRows(t, no)
         /\ \A u : SamePlace(u, s) => SamePlace(u, t)
BY DEF GoodRows, Below, SamePlace, Placed

\* Nothing gdb has is ill.
LEMMA NothingGood == [rows |-> <<>>, next |-> 1] \in GoodGdb
<1>1. <<>> \in Seq(Row) /\ Range(<<>>) = {}
  BY DEF Range
<1>2. GoodRows(<<>>, 1)
  BY <1>1 DEF GoodRows, Below, SamePlace, Placed
<1> QED BY <1>1, <1>2 DEF GoodGdb

\* A session file's group of breakpoints
Group(group) ==
  /\ group.count \in Nat
  /\ \A i \in DOMAIN group.bp : group.bp[i] \in Stored

\* gdb after each of the breakpoints loadBreakpoints reads
LoadedUpTo(group) ==
  LET Insert(gdb, bp) == Inserted(gdb, bp.loc, bp.temp, bp.enabled)
      gdb[n \in 0..group.count] == IF n = 0 THEN [rows |-> <<>>, next |-> 1]
                                   ELSE Insert(gdb[n - 1], Read(group, n - 1))
  IN gdb

\* Whatever the file says, loading it makes good rows, one breakpoint at a time.
LEMMA LoadedStep ==
  ASSUME NEW group, Group(group)
  PROVE  /\ LoadedUpTo(group) \in [0..group.count -> GoodGdb]
         /\ Loaded(group) = LoadedUpTo(group)[group.count]
         /\ LoadedUpTo(group)[0] = [rows |-> <<>>, next |-> 1]
         /\ \A n \in 1..group.count :
              LET bp == Read(group, n - 1)
              IN LoadedUpTo(group)[n] = Inserted(LoadedUpTo(group)[n - 1], bp.loc, bp.temp, bp.enabled)
<1> DEFINE k == group.count
           none == [rows |-> <<>>, next |-> 1]
           Step(n, x) == Inserted(x, Read(group, n - 1).loc, Read(group, n - 1).temp, Read(group, n - 1).enabled)
           F == [p \in (1..k) \X GoodGdb |-> Step(p[1], p[2])]
           Is(g) == g = [n \in 0..k |-> IF n = 0 THEN none ELSE Step(n, g[n - 1])]
           f == LoadedUpTo(group)
<1>1. k \in Nat
  BY DEF Group
<1>2. ASSUME NEW i PROVE Read(group, i).temp \in BOOLEAN /\ Read(group, i).enabled \in BOOLEAN
  BY DEF Group, Read, Stored
<1>3. ASSUME NEW n \in 1..k, NEW x \in GoodGdb PROVE Step(n, x) \in GoodGdb /\ F[<<n, x>>] = Step(n, x)
  <2>1. Step(n, x) \in GoodGdb
    BY <1>2, InsertedGood
  <2> HIDE DEF Step
  <2> QED BY <2>1
<1>4. \E g : g \in [0..k -> GoodGdb] /\ Is(g)
  <2>1. PICK g \in [0..k -> GoodGdb] : g[0] = none /\ \A n \in 1..k : g[n] = F[<<n, g[n - 1]>>]
    <3> HIDE DEF k, F, Step, none
    <3>1. Steps(GoodGdb, none, k, F)
      BY <1>1, <1>3, NothingGood DEF Steps, none
    <3>2. Defines(GoodGdb, none, k, F)
      BY <3>1, Stepwise
    <3> QED BY <3>2 DEF Defines
  <2>2. ASSUME NEW n \in 1..k PROVE g[n] = Step(n, g[n - 1])
    <3>1. n - 1 \in 0..k /\ g[n - 1] \in GoodGdb
      BY <1>1
    <3> HIDE DEF k, F, Step
    <3> QED BY <1>3, <2>1, <3>1
  <2> HIDE DEF k, F, Step, none
  <2>3. Is(g)
    <3>1. \A n \in 0..k : n = 0 \/ n \in 1..k
      BY <1>1
    <3> QED BY <2>1, <2>2, <3>1
  <2> QED BY <2>3
<1>5. f = CHOOSE g : Is(g)
  BY DEF LoadedUpTo
<1>6. Is(f)
  <2> HIDE DEF Is, f
  <2> QED BY <1>4, <1>5
<1>7. Loaded(group) = f[k]
  BY DEF Loaded, LoadedUpTo
<1>8. f[0] = none /\ \A n \in 1..k : f[n] = Step(n, f[n - 1])
  <2> HIDE DEF f, Step, k, none
  <2>1. 0 \in 0..k /\ \A n \in 1..k : n \in 0..k /\ n # 0
    BY <1>1
  <2> QED BY <1>6, <2>1
<1>9. \A n \in 0..k : f[n] \in GoodGdb
  <2> DEFINE T == {n \in 0..k : f[n] \in GoodGdb}
  <2> HIDE DEF f, Step, k, F
  <2>1. 0 \in T
    <3>1. 0 \in 0..k
      BY <1>1
    <3> QED BY <1>8, <3>1, NothingGood
  <2>2. ASSUME NEW n \in 1..k, n - 1 \in T PROVE n \in T
    <3>1. f[n - 1] \in GoodGdb /\ n \in 0..k
      BY <1>1, <2>2
    <3> QED BY <1>3, <1>8, <3>1
  <2> HIDE DEF T
  <2>3. 0..k \subseteq T
    BY <1>1, <2>1, <2>2, UpTo
  <2> QED BY <2>3 DEF T
<1>10. f \in [0..k -> GoodGdb]
  <2> HIDE DEF f, Step, k, none
  <2> QED BY <1>6, <1>9
<1> QED BY <1>7, <1>8, <1>10, Zenon

\* Loading a group of saved breakpoints leaves gdb with rows that are good.
LEMMA LoadedGood ==
  ASSUME NEW group, Group(group)
  PROVE  Loaded(group) \in GoodGdb
<1>1. group.count \in 0..group.count
  BY DEF Group
<1> QED BY <1>1, LoadedStep

\* What is saved is a group that can be loaded.
LEMMA SavedGroup ==
  ASSUME NEW entries \in Seq(Row)
  PROVE  Group(Saved(entries)) /\ DOMAIN Saved(entries).bp \subseteq Nat
<1> DEFINE kept == {i \in DOMAIN entries : ~ IsChild(entries[i])}
           bp == [i \in {k - 1 : k \in kept} |-> ToStored(entries[i + 1])]
<1>1. kept \subseteq 1..Len(entries) /\ Len(entries) \in Nat
  OBVIOUS
<1>2. Cardinality(kept) \in Nat
  <2>1. IsFiniteSet(1..Len(entries))
    BY <1>1, FS_Interval
  <2>2. IsFiniteSet(kept)
    BY <1>1, <2>1, FS_Subset
  <2> QED BY <2>2, FS_CardinalityType
<1>3. ASSUME NEW i \in DOMAIN bp PROVE i \in Nat /\ bp[i] \in Stored
  <2>1. PICK j \in kept : i = j - 1
    OBVIOUS
  <2>2. i + 1 = j /\ i \in Nat
    BY <1>1, <2>1
  <2>3. entries[j] \in Row
    OBVIOUS
  <2>4. ToStored(entries[j]) \in Stored
    BY <2>3, PlacesAssumption DEF ToStored, Row, Stored
  <2> QED BY <2>2, <2>4
<1> HIDE DEF kept, bp
<1>4. Saved(entries) = [count |-> Cardinality(kept), bp |-> bp]
  BY DEF Saved, kept, bp
<1> QED BY <1>2, <1>3, <1>4 DEF Group

\* -break-delete and -break-enable leave good rows.
LEMMA WithoutGood ==
  ASSUME GoodRows(rows, next), rows \in Seq(Row), NEW no
  PROVE  /\ Without(no) \in Seq(Row) /\ GoodRows(Without(no), next)
         /\ \A u : SamePlace(u, rows) => SamePlace(u, Without(no))
<1>1. Without(no) \in Seq(Row) /\ Range(Without(no)) \subseteq Range(rows)
  BY OnlyEntries DEF Without
<1>2. \A row \in Range(Without(no)) : \E was \in Range(rows) :
            /\ row.no = was.no /\ row.part = was.part /\ row.multi = was.multi
            /\ row.spec = was.spec /\ row.line = was.line
  BY <1>1
<1> QED BY <1>1, <1>2, FewerGood

\* Enabling or disabling breakpoints keeps the rows good, and where they are.
LEMMA SwitchedGood ==
  ASSUME GoodRows(rows, next), rows \in Seq(Row), NEW ids, NEW enabled \in BOOLEAN
  PROVE  /\ Switched(ids, enabled) \in Seq(Row) /\ GoodRows(Switched(ids, enabled), next)
         /\ \A u : SamePlace(u, rows) => SamePlace(u, Switched(ids, enabled))
<1> DEFINE t == Switched(ids, enabled)
<1>1. DOMAIN rows = 1..Len(rows) /\ Len(rows) \in Nat
  OBVIOUS
<1>2. ASSUME NEW i \in DOMAIN rows
      PROVE  /\ t[i] \in Row
             /\ t[i].no = rows[i].no /\ t[i].part = rows[i].part /\ t[i].multi = rows[i].multi
             /\ t[i].spec = rows[i].spec /\ t[i].line = rows[i].line
  <2>1. rows[i] \in Row
    OBVIOUS
  <2>2. t[i] = rows[i] \/ t[i] = [rows[i] EXCEPT !.enabled = enabled]
    BY DEF Switched
  <2> QED BY <2>1, <2>2 DEF Row
<1>3. t \in [1..Len(rows) -> Row]
  BY <1>1, <1>2 DEF Switched
<1> HIDE DEF t
<1>4. t \in Seq(Row) /\ DOMAIN t = DOMAIN rows
  BY <1>1, <1>3
<1>5. ASSUME NEW row \in Range(t)
      PROVE  \E was \in Range(rows) :
            /\ row.no = was.no /\ row.part = was.part /\ row.multi = was.multi
            /\ row.spec = was.spec /\ row.line = was.line
  <2>1. PICK i \in DOMAIN t : row = t[i]
    BY DEF Range
  <2>2. rows[i] \in Range(rows)
    BY <1>4 DEF Range
  <2> QED BY <1>2, <1>4, <2>1, <2>2
<1>6. GoodRows(t, next) /\ \A u : SamePlace(u, rows) => SamePlace(u, t)
  BY <1>4, <1>5, FewerGood
<1> QED BY <1>4, <1>6 DEF t
-----------------------------------------------------------------------------
(* What is written to the session files.                                   *)

\* The inductive invariant.  A gdb that answers belongs to an open session,
\* so a refresh that comes after closeSession saves nothing, however late
\* the notification that asked for it.
AliveInSession ==
  /\ alive => valid
  /\ file = [f \in Files |-> file[f]]

\* A refresh writes the file of the session's path and no other.
LEMMA RefreshWrites ==
  ASSUME NEW gdb, AliveInSession, Refresh(gdb)
  PROVE  /\ alive' = alive
         /\ file' = [f \in Files |-> file'[f]]
         /\ \A f \in Files : file'[f] # file[f] => alive /\ path = f
<1>1. CASE alive
  BY <1>1 DEF Refresh, AliveInSession
<1>2. CASE ~ alive
  BY <1>2 DEF Refresh, Hang, AliveInSession, gdbVars
<1> QED BY <1>1, <1>2

\* One step: what both theorems need of every action.
LEMMA StepWrites ==
  ASSUME AliveInSession, [Next]_vars
  PROVE  /\ AliveInSession'
         /\ \A f \in Files : file'[f] # file[f] => valid /\ alive /\ path = f
<1> DEFINE Goal == /\ AliveInSession'
                   /\ \A f \in Files : file'[f] # file[f] => valid /\ alive /\ path = f
<1>1. ASSUME NEW gdb, Refresh(gdb), UNCHANGED sessionVars PROVE Goal
  <2>1. UNCHANGED <<valid, path>>
    BY <1>1 DEF sessionVars
  <2> QED BY <1>1, <2>1, RefreshWrites DEF AliveInSession
<1>2. ASSUME UNCHANGED file, alive' => valid' PROVE Goal
  BY <1>2 DEF AliveInSession
<1>3. CASE UNCHANGED vars
  BY <1>2, <1>3 DEF vars, sessionVars, gdbVars, copies, AliveInSession
<1>4. ASSUME NEW form \in Forms, SetBreakpoint(form[1], form[2], form[3]) PROVE Goal
  BY <1>1, <1>4 DEF SetBreakpoint
<1>5. ASSUME NEW line, ToggleBreakpoint(line) PROVE Goal
  <2>1. \E gdb : Refresh(gdb)
    BY <1>5, Zenon DEF ToggleBreakpoint
  <2>2. UNCHANGED sessionVars
    BY <1>5, Zenon DEF ToggleBreakpoint
  <2> QED BY <2>1, <2>2, <1>1
<1>6. ASSUME NEW line, Jump(line) PROVE Goal
  BY <1>2, <1>6 DEF Jump, Hang, sessionVars, gdbVars, AliveInSession
<1>7. ASSUME NEW row, RemoveBreakpoint(row) \/ \E on \in BOOLEAN : SwitchBreakpoint(row, on) PROVE Goal
  BY <1>1, <1>7 DEF RemoveBreakpoint, SwitchBreakpoint
<1>8. CASE RemoveAll \/ \E on \in BOOLEAN : SwitchAll(on)
  BY <1>1, <1>8 DEF RemoveAll, SwitchAll
<1>9. CASE \E f \in Files : OpenSession(f)
  BY <1>2, <1>9 DEF OpenSession
<1>10. CASE CloseSession \/ OpenFile \/ ProgramMoves
  BY <1>2, <1>10 DEF CloseSession, OpenFile, ProgramMoves, sessionVars, gdbVars, copies, AliveInSession
<1>11. CASE HandleNote
  <2>1. UNCHANGED sessionVars /\ (Refresh(Gdb) \/ Hang(<<>>))
    BY <1>11 DEF HandleNote
  <2>2. CASE Hang(<<>>)
    BY <1>2, <2>1, <2>2 DEF Hang, sessionVars, gdbVars, AliveInSession
  <2> QED BY <1>1, <2>1, <2>2
<1>12. CASE HandleTerminated \/ HandleEnded
  BY <1>2, <1>12 DEF HandleTerminated, HandleEnded, sessionVars, gdbVars, AliveInSession
<1>13. CASE StartAtMain \/ HitTemporary \/ Modify \/ Die
  BY <1>2, <1>13 DEF StartAtMain, HitTemporary, Modify, Die, sessionVars, gdbVars, copies, AliveInSession
<1>14. Next \/ UNCHANGED vars
  OBVIOUS
<1> QED BY <1>3, <1>4, <1>5, <1>6, <1>7, <1>8, <1>9, <1>10, <1>11, <1>12, <1>13, <1>14 DEF Next, User

\* A gdb that answers always belongs to the session that is open.
THEOREM AliveCorrect == Spec => []AliveInSession
<1>1. Init => AliveInSession
  BY DEF Init, AliveInSession
<1>2. AliveInSession /\ [Next]_vars => AliveInSession'
  BY StepWrites
<1> QED BY <1>1, <1>2, PTL DEF Spec

\* A session file changes only while its session is open and its gdb answers
\* (UpdateBreakpointList, saveBreakpoints).
THEOREM FilesKeptCorrect == Spec => FilesKept
<1>1. AliveInSession /\ [Next]_vars
        => [\A f \in Files : file'[f] # file[f] => valid /\ alive /\ path = f]_vars
  BY StepWrites
<1> QED BY <1>1, AliveCorrect, PTL DEF Spec, FilesKept
-----------------------------------------------------------------------------
(* What is saved and loaded again.                                         *)

\* s is how t begins.
Begins(s, t) == Len(s) <= Len(t) /\ \A i \in 1..Len(s) : t[i] = s[i]

\* What is kept of a sequence that goes on begins with what was kept of it;
\* nothing but the next entry is added if no later one is in the set.
LEMMA OnlyConcat ==
  ASSUME NEW S, NEW s \in Seq(S), NEW t \in Seq(S), NEW set
  PROVE  /\ Begins(Only(s, set), Only(s \o t, set))
         /\ t # <<>> /\ t[1] \in set /\ (\A i \in 2..Len(t) : t[i] \notin set)
              => Only(s \o t, set) = Append(Only(s, set), t[1])
<1> DEFINE u == s \o t
           f == OnlyUpTo(s, set)
           g == OnlyUpTo(u, set)
<1>1. /\ u \in Seq(S) /\ Len(u) = Len(s) + Len(t) /\ Len(s) \in Nat /\ Len(t) \in Nat
      /\ \A n \in 1..Len(s) : u[n] = s[n]
      /\ \A n \in 1..Len(t) : u[Len(s) + n] = t[n]
  OBVIOUS
<1>2. /\ f \in [0..Len(s) -> Seq(S)] /\ Only(s, set) = f[Len(s)] /\ f[0] = <<>>
      /\ \A n \in 1..Len(s) : f[n] = IF s[n] \in set THEN Append(f[n - 1], s[n]) ELSE f[n - 1]
  BY OnlyStep
<1>3. /\ g \in [0..Len(u) -> Seq(S)] /\ Only(u, set) = g[Len(u)] /\ g[0] = <<>>
      /\ \A n \in 1..Len(u) : g[n] = IF u[n] \in set THEN Append(g[n - 1], u[n]) ELSE g[n - 1]
  <2> HIDE DEF u
  <2>1. u \in Seq(S)
    BY <1>1
  <2> QED BY <2>1, OnlyStep
<1> HIDE DEF u, f, g
<1>4. g[Len(s)] = f[Len(s)]
  <2> DEFINE T == {n \in 0..Len(s) : g[n] = f[n]}
  <2>1. 0 \in T
    BY <1>1, <1>2, <1>3
  <2>2. ASSUME NEW n \in 1..Len(s), n - 1 \in T PROVE n \in T
    <3>1. n \in 0..Len(s) /\ n \in 1..Len(u) /\ u[n] = s[n]
      BY <1>1
    <3>2. g[n - 1] = f[n - 1]
      BY <2>2
    <3> QED BY <1>2, <1>3, <3>1, <3>2
  <2>3. 0..Len(s) \subseteq T
    <3> HIDE DEF T
    <3> QED BY <1>1, <2>1, <2>2, UpTo
  <2>4. Len(s) \in 0..Len(s)
    BY <1>1
  <2> QED BY <2>3, <2>4
<1> DEFINE w == f[Len(s)]
           h(n) == g[Len(s) + n]
<1>5. w \in Seq(S)
  BY <1>1, <1>2
<1>6. ASSUME NEW n \in 0..Len(t) PROVE h(n) \in Seq(S)
  BY <1>1, <1>3
<1>7. h(0) = w /\ Only(u, set) = h(Len(t))
  BY <1>1, <1>3, <1>4
<1>8. ASSUME NEW n \in 1..Len(t)
      PROVE  h(n) = IF t[n] \in set THEN Append(h(n - 1), t[n]) ELSE h(n - 1)
  <2>1. Len(s) + n \in 1..Len(u) /\ (Len(s) + n) - 1 = Len(s) + (n - 1) /\ u[Len(s) + n] = t[n]
    BY <1>1
  <2> QED BY <1>3, <2>1
<1> HIDE DEF w, h
<1>9. Begins(w, h(Len(t)))
  <2> DEFINE T == {n \in 0..Len(t) : Begins(w, h(n))}
  <2>1. 0 \in T
    BY <1>1, <1>5, <1>7 DEF Begins
  <2>2. ASSUME NEW n \in 1..Len(t), n - 1 \in T PROVE n \in T
    <3>1. n \in 0..Len(t) /\ n - 1 \in 0..Len(t) /\ h(n - 1) \in Seq(S) /\ t[n] \in S
      BY <1>1, <1>6
    <3>2. Begins(w, h(n - 1))
      BY <2>2
    <3>3. CASE t[n] \in set
      <4>1. h(n) = Append(h(n - 1), t[n])
        BY <1>8, <3>3
      <4>2. Len(h(n)) = Len(h(n - 1)) + 1 /\ \A i \in 1..Len(h(n - 1)) : h(n)[i] = h(n - 1)[i]
        BY <3>1, <4>1, AppendProperties
      <4>3. Begins(w, h(n))
        BY <1>5, <3>1, <3>2, <4>2 DEF Begins
      <4> QED BY <3>1, <4>3
    <3>4. CASE t[n] \notin set
      BY <1>8, <3>1, <3>2, <3>4
    <3> QED BY <3>3, <3>4
  <2>3. 0..Len(t) \subseteq T
    <3> HIDE DEF T
    <3> QED BY <1>1, <2>1, <2>2, UpTo
  <2> QED BY <1>1, <2>3
<1>10. ASSUME t # <<>>, t[1] \in set, \A i \in 2..Len(t) : t[i] \notin set
       PROVE  h(Len(t)) = Append(w, t[1])
  <2>1. Len(t) \in Nat \ {0}
    BY <1>10
  <2> DEFINE T == {n \in 0..(Len(t) - 1) : h(n + 1) = Append(w, t[1])}
  <2>2. 0 \in T
    BY <1>7, <1>8, <1>10, <2>1
  <2>3. ASSUME NEW n \in 1..(Len(t) - 1), n - 1 \in T PROVE n \in T
    <3>1. n + 1 \in 2..Len(t) /\ n + 1 \in 1..Len(t) /\ (n + 1) - 1 = (n - 1) + 1 /\ n \in 0..(Len(t) - 1)
      BY <2>1
    <3>2. h((n - 1) + 1) = Append(w, t[1])
      BY <2>3
    <3>3. h(n + 1) = h((n + 1) - 1)
      BY <1>8, <1>10, <3>1
    <3> QED BY <3>1, <3>2, <3>3
  <2>4. 0..(Len(t) - 1) \subseteq T
    <3>1. Len(t) - 1 \in Nat
      BY <2>1
    <3> HIDE DEF T
    <3> QED BY <2>2, <2>3, <3>1, UpTo
  <2>5. Len(t) - 1 \in 0..(Len(t) - 1) /\ (Len(t) - 1) + 1 = Len(t)
    BY <2>1
  <2> QED BY <2>4, <2>5
<1> QED BY <1>2, <1>7, <1>9, <1>10 DEF w, u

\* The entries before the first breakpoint with several locations
LEMMA BeforeMultiEntries ==
  ASSUME NEW entries \in Seq(Row)
  PROVE  LET sure == BeforeMulti(entries)
         IN /\ sure \in Seq(Row) /\ Len(sure) <= Len(entries)
            /\ \A i \in 1..Len(sure) : sure[i] = entries[i] /\ ~ entries[i].multi
<1> DEFINE multi == {i \in DOMAIN entries : entries[i].multi}
           sure == BeforeMulti(entries)
           first == CHOOSE i \in multi : \A j \in multi : i <= j
<1>1. /\ Len(entries) \in Nat /\ DOMAIN entries = 1..Len(entries) /\ multi \subseteq Nat
      /\ \A i \in 1..Len(entries) : entries[i] \in Row
  OBVIOUS
<1>2. CASE multi = {}
  <2>1. sure = entries
    BY <1>2 DEF BeforeMulti
  <2> QED BY <1>1, <1>2, <2>1
<1>3. CASE multi # {}
  <2>1. sure = SubSeq(entries, 1, first - 1)
    BY <1>3 DEF BeforeMulti
  <2>2. first \in multi /\ \A j \in multi : first <= j
    <3> HIDE DEF multi
    <3>1. \E i \in multi : \A j \in multi : i <= j
      BY <1>1, <1>3, SmallestNumber
    <3> QED BY <3>1
  <2>3. first \in 1..Len(entries) /\ first - 1 \in Nat /\ first - 1 <= Len(entries)
    BY <1>1, <2>2
  <2> HIDE DEF first, sure
  <2>4. /\ sure \in Seq(Row) /\ Len(sure) = first - 1
        /\ \A i \in 1..Len(sure) : sure[i] = entries[i]
    BY <1>1, <2>1, <2>3
  <2>5. ASSUME NEW i \in 1..Len(sure) PROVE ~ entries[i].multi
    <3>1. i \in 1..Len(entries) /\ ~ (first <= i)
      BY <1>1, <2>3, <2>4
    <3>2. i \notin multi
      BY <2>2, <3>1
    <3> QED BY <1>1, <3>1, <3>2
  <2> QED BY <1>1, <2>3, <2>4, <2>5 DEF sure
<1> QED BY <1>2, <1>3

Kept == {row \in Row : ~ IsChild(row)}

\* Loading makes of one entry one breakpoint that is saved as the entry.
LEMMA InsertedKept ==
  ASSUME NEW gdb \in GoodGdb, NEW loc \in ByLine, loc \in DOMAIN Lands, loc \in Range(Lands[loc]),
         NEW temp \in BOOLEAN, NEW enabled \in BOOLEAN
  PROVE  \E row \in Row : /\ Only(Inserted(gdb, loc, temp, enabled).rows, Kept) = Append(Only(gdb.rows, Kept), row)
                          /\ ToStored(row) = [loc |-> loc, enabled |-> enabled, temp |-> temp]
<1> DEFINE m == Made(gdb.next, loc, temp, enabled)
<1>1. gdb.rows \in Seq(Row) /\ gdb.next \in Nat \ {0}
  BY DEF GoodGdb
<1>2. Inserted(gdb, loc, temp, enabled).rows = gdb.rows \o m
  BY DEF Inserted
<1>3. /\ m \in Seq(Row) /\ m # <<>>
      /\ \A i \in DOMAIN m : m[i].no = gdb.next /\ m[i].part = i - 1
      /\ m[1].spec = loc /\ m[1].temp = temp /\ m[1].enabled = enabled
      /\ m[1].multi \/ (Len(Lands[loc]) = 1 /\ m[1].line = Lands[loc][1])
      /\ \A i \in DOMAIN m : i > 1 => m[i].multi
  BY <1>1, MadeRows
<1> HIDE DEF m
<1>4. 1 \in DOMAIN m /\ DOMAIN m = 1..Len(m) /\ Len(m) \in Nat /\ \A i \in DOMAIN m : m[i] \in Row
  BY <1>3
<1>5. m[1] \in Kept
  <2>1. m[1].part = 0
    BY <1>3, <1>4
  <2> QED BY <1>4, <2>1 DEF Kept, IsChild
<1>6. ASSUME NEW i \in 2..Len(m) PROVE m[i] \notin Kept
  <2>1. i \in DOMAIN m /\ i > 1 /\ i - 1 > 0
    BY <1>4
  <2>2. m[i].multi /\ m[i].part > 0
    BY <1>3, <2>1
  <2> QED BY <2>2 DEF Kept, IsChild
<1>7. Only(gdb.rows \o m, Kept) = Append(Only(gdb.rows, Kept), m[1])
  BY <1>1, <1>3, <1>5, <1>6, OnlyConcat
<1>8. ToStored(m[1]) = [loc |-> loc, enabled |-> enabled, temp |-> temp]
  <2>1. CASE m[1].multi
    BY <1>3, <2>1 DEF ToStored
  <2>2. CASE ~ m[1].multi
    <3>1. Len(Lands[loc]) = 1 /\ m[1].line = Lands[loc][1]
      BY <1>3, <2>2
    <3>2. Lands[loc] \in Seq(ByLine)
      BY PlacesAssumption
    <3>3. Lands[loc][1] = loc
      BY <3>1, <3>2 DEF Range
    <3> QED BY <1>3, <2>2, <3>1, <3>3 DEF ToStored
  <2> QED BY <2>1, <2>2
<1> QED BY <1>2, <1>4, <1>7, <1>8

\* What is saved of the entries before the first with several locations is
\* saved again after it was loaded.
LEMMA RoundTrip ==
  ASSUME NEW entries \in Seq(Row), Placed(entries)
  PROVE  LET sure == BeforeMulti(entries)
         IN IsPrefix([i \in DOMAIN sure |-> ToStored(sure[i])], Whole(Saved(entries)))
<1> DEFINE sure == BeforeMulti(entries)
           group == Saved(entries)
           g == LoadedUpTo(group)
           w(n) == Only(g[n].rows, Kept)
           kept == {i \in DOMAIN entries : ~ IsChild(entries[i])}
           L == Len(sure)
<1>1. /\ sure \in Seq(Row) /\ L \in Nat /\ L <= Len(entries) /\ Len(entries) \in Nat
      /\ \A i \in 1..L : sure[i] = entries[i] /\ ~ entries[i].multi
  BY BeforeMultiEntries
<1> HIDE DEF sure
<1>2. Group(group) /\ group.count \in Nat
  BY SavedGroup DEF Group
<1>3. ASSUME NEW i \in 1..L
      PROVE  /\ entries[i] \in Row /\ entries[i].line \in ByLine
             /\ entries[i].line \in DOMAIN Lands /\ entries[i].line \in Range(Lands[entries[i].line])
             /\ ToStored(entries[i])
                  = [loc |-> entries[i].line, enabled |-> entries[i].enabled, temp |-> entries[i].temp]
  <2>1. i \in DOMAIN entries /\ entries[i] \in Row /\ ~ entries[i].multi
    BY <1>1
  <2>2. entries[i] \in Range(entries)
    BY <2>1 DEF Range
  <2>3. entries[i].line \in DOMAIN Lands /\ entries[i].line \in Range(Lands[entries[i].line])
    BY <2>1, <2>2 DEF Placed
  <2>4. entries[i].line \in ByLine
    BY <2>1, <2>3, PlacesAssumption DEF Row
  <2> QED BY <2>1, <2>3, <2>4 DEF ToStored
<1>4. /\ \A i \in 1..L : Read(group, i - 1) = ToStored(entries[i])
      /\ L <= group.count
  <2>1. 1..L \subseteq kept /\ kept \subseteq 1..Len(entries)
    BY <1>1 DEF IsChild
  <2>2. IsFiniteSet(1..L) /\ IsFiniteSet(kept) /\ Cardinality(1..L) = L
    <3>1. IsFiniteSet(1..Len(entries))
      <4>1. 1 \in Int /\ Len(entries) \in Int
        OBVIOUS
      <4> QED BY <4>1, FS_Interval
    <3>2. IsFiniteSet(1..L) /\ Cardinality(1..L) = L
      <4>1. 1 \in Int /\ L \in Nat
        BY <1>1
      <4> HIDE DEF L
      <4> QED BY <4>1, FS_Interval
    <3> QED BY <2>1, <3>1, <3>2, FS_Subset
  <2>3. L <= Cardinality(kept)
    BY <2>1, <2>2, FS_Subset
  <2>4. group = [count |-> Cardinality(kept), bp |-> [i \in {k - 1 : k \in kept} |-> ToStored(entries[i + 1])]]
    BY DEF Saved
  <2>5. ASSUME NEW i \in 1..L PROVE Read(group, i - 1) = ToStored(entries[i])
    <3>1. i - 1 \in {k - 1 : k \in kept} /\ (i - 1) + 1 = i
      BY <2>1
    <3> HIDE DEF group, kept
    <3> QED BY <2>4, <3>1 DEF Read
  <2> HIDE DEF group, kept
  <2>6. group.count = Cardinality(kept)
    BY <2>4
  <2> QED BY <2>3, <2>5, <2>6
<1> HIDE DEF group, kept
<1>5. /\ g \in [0..group.count -> GoodGdb] /\ Loaded(group) = g[group.count]
      /\ g[0] = [rows |-> <<>>, next |-> 1]
      /\ \A n \in 1..group.count :
           g[n] = Inserted(g[n - 1], Read(group, n - 1).loc, Read(group, n - 1).temp, Read(group, n - 1).enabled)
  BY <1>2, LoadedStep
<1> HIDE DEF g
<1>6. ASSUME NEW n \in 0..group.count PROVE g[n] \in GoodGdb /\ g[n].rows \in Seq(Row) /\ w(n) \in Seq(Row)
  <2>1. g[n] \in GoodGdb
    BY <1>5
  <2>2. g[n].rows \in Seq(Row)
    BY <2>1 DEF GoodGdb
  <2> QED BY <2>1, <2>2, OnlyEntries
<1> DEFINE Same(s, n) == Len(s) >= n /\ \A i \in 1..n : ToStored(s[i]) = ToStored(entries[i])
<1>7. Same(w(L), L)
  <2> DEFINE T == {n \in 0..L : Len(w(n)) = n /\ Same(w(n), n)}
  <2>1. 0 \in T
    <3>1. w(0) = <<>>
      BY <1>5, OnlyNothing
    <3> HIDE DEF w
    <3>2. Len(w(0)) = 0 /\ 0 \in 0..L
      BY <1>1, <3>1
    <3> QED BY <3>2
  <2>2. ASSUME NEW n \in 1..L, n - 1 \in T PROVE n \in T
    <3>1. n \in 1..group.count /\ n - 1 \in 0..group.count /\ n \in 0..L
      BY <1>1, <1>2, <1>4
    <3>2. ToStored(entries[n])
            = [loc |-> entries[n].line, enabled |-> entries[n].enabled, temp |-> entries[n].temp]
          /\ entries[n].temp \in BOOLEAN /\ entries[n].enabled \in BOOLEAN
      BY <1>3 DEF Row
    <3>3. g[n] = Inserted(g[n - 1], entries[n].line, entries[n].temp, entries[n].enabled)
      BY <1>4, <1>5, <3>1, <3>2
    <3>4. PICK row \in Row : w(n) = Append(w(n - 1), row) /\ ToStored(row) = ToStored(entries[n])
      <4> DEFINE loc == entries[n].line
      <4>1. /\ g[n - 1] \in GoodGdb /\ loc \in ByLine /\ loc \in DOMAIN Lands /\ loc \in Range(Lands[loc])
            /\ entries[n].temp \in BOOLEAN /\ entries[n].enabled \in BOOLEAN
        BY <1>3, <1>6, <3>1, <3>2
      <4>2. \E row \in Row :
              /\ Only(Inserted(g[n - 1], loc, entries[n].temp, entries[n].enabled).rows, Kept)
                   = Append(Only(g[n - 1].rows, Kept), row)
              /\ ToStored(row) = [loc |-> loc, enabled |-> entries[n].enabled, temp |-> entries[n].temp]
        BY <4>1, InsertedKept
      <4> QED BY <3>2, <3>3, <4>2
    <3>5. w(n - 1) \in Seq(Row) /\ Len(w(n - 1)) = n - 1 /\ Same(w(n - 1), n - 1)
      BY <1>6, <2>2, <3>1
    <3> HIDE DEF w
    <3>6. Len(w(n)) = n /\ w(n)[n] = row /\ \A i \in 1..(n - 1) : w(n)[i] = w(n - 1)[i]
      BY <3>4, <3>5, AppendProperties
    <3>7. \A i \in 1..n : i = n \/ i \in 1..(n - 1)
      OBVIOUS
    <3> QED BY <3>1, <3>4, <3>5, <3>6, <3>7
  <2>3. 0..L \subseteq T
    <3> HIDE DEF T
    <3> QED BY <1>1, <2>1, <2>2, UpTo
  <2>4. L \in 0..L
    BY <1>1
  <2> QED BY <2>3, <2>4
<1>8. Same(w(group.count), L)
  <2> DEFINE k == group.count - L
             T == {n \in 0..k : Same(w(L + n), L)}
  <2>1. k \in Nat
    BY <1>1, <1>2, <1>4
  <2>2. 0 \in T
    <3>1. L + 0 = L /\ 0 \in 0..k
      BY <1>1, <2>1
    <3> HIDE DEF w, Same, k
    <3> QED BY <1>7, <3>1
  <2>3. ASSUME NEW n \in 1..k, n - 1 \in T PROVE n \in T
    <3>1. L + n \in 1..group.count /\ L + (n - 1) \in 0..group.count /\ (L + n) - 1 = L + (n - 1)
          /\ n \in 0..k /\ L + n \in 0..group.count
      BY <1>1, <1>2, <2>1
    <3> DEFINE bp == Read(group, L + (n - 1))
               old == g[L + (n - 1)]
    <3>2. g[L + n] = Inserted(old, bp.loc, bp.temp, bp.enabled)
      BY <1>5, <3>1
    <3>3. old \in GoodGdb /\ old.rows \in Seq(Row) /\ old.next \in Nat \ {0}
      BY <1>6, <3>1 DEF GoodGdb
    <3>4. bp.temp \in BOOLEAN /\ bp.enabled \in BOOLEAN
      BY <1>2 DEF Group, Read, Stored
    <3> HIDE DEF bp, old
    <3>5. \E t \in Seq(Row) : g[L + n].rows = old.rows \o t
      <4>1. CASE bp.loc \in DOMAIN Lands
        <5> DEFINE m == Made(old.next, bp.loc, bp.temp, bp.enabled)
        <5>1. m \in Seq(Row)
          BY <3>3, <3>4, <4>1, MadeRows
        <5>2. g[L + n] = [rows |-> old.rows \o m, next |-> old.next + 1]
          BY <3>2, <4>1 DEF Inserted
        <5> HIDE DEF m, g, k, L, w, Same, T
        <5>3. g[L + n].rows = old.rows \o m
          BY <5>2
        <5> QED BY <5>1, <5>3
      <4>2. CASE bp.loc \notin DOMAIN Lands
        <5>1. g[L + n] = old
          BY <3>2, <4>2 DEF Inserted
        <5>2. <<>> \in Seq(Row) /\ old.rows = old.rows \o <<>>
          BY <3>3
        <5> HIDE DEF g, k, L, w, Same, T
        <5>3. g[L + n].rows = old.rows \o <<>>
          BY <5>1, <5>2
        <5> QED BY <5>2, <5>3
      <4> QED BY <4>1, <4>2
    <3>6. Begins(w(L + (n - 1)), w(L + n))
      BY <3>3, <3>5, OnlyConcat DEF old
    <3>7. Same(w(L + (n - 1)), L) /\ w(L + (n - 1)) \in Seq(Row) /\ w(L + n) \in Seq(Row)
      BY <1>6, <2>3, <3>1
    <3> HIDE DEF w
    <3>8. Same(w(L + n), L)
      <4> DEFINE a == w(L + (n - 1))
                 b == w(L + n)
      <4>1. a \in Seq(Row) /\ b \in Seq(Row) /\ Len(a) >= L /\ Len(a) <= Len(b)
            /\ (\A i \in 1..Len(a) : b[i] = a[i])
            /\ (\A i \in 1..L : ToStored(a[i]) = ToStored(entries[i]))
        BY <3>6, <3>7 DEF Begins
      <4> HIDE DEF a, b
      <4>2. Len(a) \in Nat /\ Len(b) \in Nat
        BY <4>1
      <4>3. Len(b) >= L /\ \A i \in 1..L : i \in 1..Len(a)
        BY <1>1, <4>1, <4>2
      <4>4. \A i \in 1..L : ToStored(b[i]) = ToStored(entries[i])
        BY <4>1, <4>3
      <4> QED BY <4>3, <4>4 DEF b
    <3> QED BY <3>1, <3>8
  <2>4. 0..k \subseteq T
    <3> HIDE DEF T, k
    <3> QED BY <2>1, <2>2, <2>3, UpTo
  <2>5. k \in 0..k /\ L + k = group.count
    BY <1>1, <1>2, <2>1
  <2> HIDE DEF w, Same, k
  <2> QED BY <2>4, <2>5
<1>9. IsPrefix([i \in DOMAIN sure |-> ToStored(sure[i])], Whole(group))
  <2> DEFINE u == w(group.count)
             t == [i \in DOMAIN u |-> ToStored(u[i])]
             s == [i \in DOMAIN sure |-> ToStored(sure[i])]
  <2>1. Whole(group) = t
    BY <1>5 DEF Whole, Kept
  <2>2. u \in Seq(Row) /\ Same(u, L)
    BY <1>2, <1>6, <1>8
  <2> HIDE DEF u, w
  <2>3. DOMAIN u = 1..Len(u) /\ Len(u) \in Nat /\ DOMAIN sure = 1..L
    BY <1>1, <2>2
  <2>4. s \in Seq({ToStored(sure[i]) : i \in DOMAIN sure}) /\ Len(s) = L
    BY <1>1, <2>3
  <2>5. t \in Seq({ToStored(u[i]) : i \in DOMAIN u}) /\ Len(t) = Len(u)
    BY <2>3
  <2>6. \A i \in 1..L : s[i] = t[i]
    BY <1>1, <2>2, <2>3
  <2> HIDE DEF s, t
  <2>7. IsPrefix(s, t)
    BY <1>1, <2>2, <2>4, <2>5, <2>6 DEF IsPrefix
  <2> QED BY <2>1, <2>7 DEF s
<1> QED BY <1>9 DEF sure, group
-----------------------------------------------------------------------------
(* The inductive invariant.                                                *)

\* An open session has a file to be saved to, and no end is queued.
OpenInv ==
  valid => path \in Files /\ events \in Seq({"note"})

\* A session that was closed is on its way out: its notifications, then
\* "terminated", which empties the list, then "ended", which empties the panel.
ClosedInv ==
  ~ valid => \/ events = <<>> /\ list = <<>> /\ panel = <<>>
             \/ events = <<"ended">> /\ list = <<>>
             \/ \E notes \in Seq({"note"}) : events = Append(notes, "terminated")

\* What gdb has names each place once, and what is listed or shown names
\* the same places, or breakpoints that are gone, but for the rows carried
\* over from the gdb of a session opened over.
NamesInv ==
  /\ GoodRows(rows, next)
  /\ valid /\ ~ carried => \A s \in {list, panel} : Below(s, next) /\ SamePlace(s, rows)

\* All copies are good, unless a notification is queued or no refresh followed.
CopiesInv ==
  alive /\ ~ unseen /\ events = <<>> => list = rows /\ panel = rows /\ file[path] = Saved(rows)

BreakpointsInv == TypeOK /\ AliveInSession /\ OpenInv /\ ClosedInv /\ NamesInv /\ CopiesInv

\* The invariant holds before the first session.
LEMMA InitInv == Init => BreakpointsInv
<1> SUFFICES ASSUME Init PROVE BreakpointsInv
  OBVIOUS
<1>1. <<>> \in Seq(Row) /\ Range(<<>>) = {} /\ <<>> \in Seq({"note", "terminated", "ended"})
  BY DEF Range
<1>2. TypeOK
  <2>1. \A f \in Files : file[f].count = 0 /\ file[f].bp = <<>>
    BY DEF Init
  <2>2. DOMAIN <<>> = {}
    OBVIOUS
  <2>3. \A f \in Files : /\ file[f].count \in Nat /\ DOMAIN file[f].bp \subseteq Nat
                        /\ \A i \in DOMAIN file[f].bp : file[f].bp[i] \in Stored
    BY <2>1, <2>2
  <2>4. \A s \in {rows, list, panel} : s \in Seq(Row)
    BY <1>1, Zenon DEF Init
  <2>5. events \in Seq({"note", "terminated", "ended"})
    BY <1>1, Zenon DEF Init
  <2>6. /\ valid \in BOOLEAN /\ target \in Targets /\ alive \in BOOLEAN /\ unseen \in BOOLEAN
        /\ hung \in BOOLEAN /\ carried \in BOOLEAN /\ path \in Files \union {NoSpec} /\ next \in Nat \ {0}
    <3>1. 1 \in Nat \ {0}
      OBVIOUS
    <3> QED BY <3>1, Zenon DEF Init, Targets
  <2> QED BY <2>3, <2>4, <2>5, <2>6 DEF TypeOK
<1>3. NamesInv
  BY <1>1 DEF Init, NamesInv, GoodRows, Below, SamePlace, Placed
<1> QED BY <1>2, <1>3 DEF Init, BreakpointsInv, AliveInSession, OpenInv, ClosedInv, CopiesInv

\* A refresh, of a command or of a notification, puts everything right; one
\* that gdb does not answer changes nothing.
LEMMA RefreshStep ==
  ASSUME BreakpointsInv, NEW gdb \in GoodGdb, Refresh(gdb), UNCHANGED sessionVars,
         events' = events \/ (alive /\ events # <<>> /\ events' = Tail(events))
  PROVE  BreakpointsInv'
<1>1. CASE ~ alive
  <2>1. hung' = TRUE /\ UNCHANGED <<sessionVars, gdbVars, list, panel, file, unseen, carried, events>>
    BY <1>1 DEF Refresh, Hang
  <2>2. UNCHANGED <<valid, path, target, alive, rows, next, list, panel, file, unseen, carried, events>>
    BY <2>1 DEF sessionVars, gdbVars
  <2>3. TypeOK'
    BY <2>1, <2>2 DEF BreakpointsInv, TypeOK
  <2>4. AliveInSession' /\ OpenInv' /\ ClosedInv' /\ NamesInv' /\ CopiesInv'
    BY <2>2 DEF BreakpointsInv, AliveInSession, OpenInv, ClosedInv, NamesInv, CopiesInv
  <2> QED BY <2>3, <2>4 DEF BreakpointsInv
<1>2. CASE alive
  <2>1. /\ rows' = gdb.rows /\ next' = gdb.next /\ list' = rows' /\ panel' = rows'
        /\ file' = [file EXCEPT ![path] = Saved(rows')]
        /\ unseen' = FALSE /\ carried' = FALSE /\ UNCHANGED <<valid, path, target, alive, hung>>
    BY <1>2 DEF Refresh, sessionVars
  <2>2. valid /\ path \in Files /\ events \in Seq({"note"})
    BY <1>2 DEF BreakpointsInv, AliveInSession, OpenInv
  <2>3. events' \in Seq({"note"})
    BY <2>2
  <2>4. rows' \in Seq(Row) /\ next' \in Nat \ {0} /\ GoodRows(rows', next')
    BY <2>1 DEF GoodGdb
  <2>5. file' = [f \in Files |-> file'[f]] /\ file'[path] = Saved(rows')
        /\ \A f \in Files : file'[f] = file[f] \/ file'[f] = Saved(rows')
    BY <2>1, <2>2 DEF BreakpointsInv, AliveInSession
  <2>6. TypeOK'
    <3>1. \A f \in Files : /\ file'[f].count \in Nat /\ DOMAIN file'[f].bp \subseteq Nat
                          /\ \A i \in DOMAIN file'[f].bp : file'[f].bp[i] \in Stored
      BY <2>4, <2>5, SavedGroup DEF Group, BreakpointsInv, TypeOK
    <3>2. events' \in Seq({"note", "terminated", "ended"})
      BY <2>3
    <3> QED BY <2>1, <2>4, <3>1, <3>2 DEF BreakpointsInv, TypeOK
  <2>7. NamesInv'
    BY <2>1, <2>4 DEF NamesInv, GoodRows
  <2>8. AliveInSession' /\ OpenInv' /\ ClosedInv' /\ CopiesInv'
    BY <1>2, <2>1, <2>2, <2>3, <2>5 DEF AliveInSession, OpenInv, ClosedInv, CopiesInv
  <2> QED BY <2>6, <2>7, <2>8 DEF BreakpointsInv
<1> QED BY <1>1, <1>2

\* A refresh that was asked for in the session before: the list is emptied
\* and gdb, which is gone, does not answer.
LEMMA HangStep ==
  ASSUME BreakpointsInv, HandleNote, ~ alive
  PROVE  BreakpointsInv'
<1>1. /\ events # <<>> /\ Head(events) = "note" /\ events' = Tail(events) /\ list' = <<>> /\ hung' = TRUE
      /\ UNCHANGED <<valid, path, target, alive, rows, next, panel, file, unseen, carried>>
  BY DEF HandleNote, Take, Hang, sessionVars, gdbVars
<1>2. <<>> \in Seq(Row) /\ Range(<<>>) = {}
  BY DEF Range
<1>3. TypeOK'
  <2>1. events' \in Seq({"note", "terminated", "ended"})
    BY <1>1 DEF BreakpointsInv, TypeOK
  <2> QED BY <1>1, <1>2, <2>1 DEF BreakpointsInv, TypeOK
<1>4. OpenInv'
  BY <1>1 DEF BreakpointsInv, OpenInv
<1>5. ClosedInv'
  <2> SUFFICES ASSUME ~ valid PROVE ClosedInv'
    BY <1>1 DEF ClosedInv
  <2>1. events # <<"ended">>
    BY <1>1
  <2>2. PICK notes \in Seq({"note"}) : events = Append(notes, "terminated")
    BY <1>1, <2>1 DEF BreakpointsInv, ClosedInv
  <2>3. notes # <<>>
    BY <1>1, <2>2
  <2>4. Tail(notes) \in Seq({"note"}) /\ Tail(events) = Append(Tail(notes), "terminated")
    BY <2>2, <2>3
  <2> QED BY <1>1, <2>4 DEF ClosedInv
<1>6. NamesInv'
  <2>1. Below(<<>>, next) /\ SamePlace(<<>>, rows)
    BY <1>2 DEF Below, SamePlace
  <2>2. valid /\ ~ carried => \A s \in {list', panel'} : Below(s, next) /\ SamePlace(s, rows)
    BY <1>1, <2>1 DEF BreakpointsInv, NamesInv
  <2> QED BY <1>1, <2>2 DEF BreakpointsInv, NamesInv
<1>7. AliveInSession' /\ CopiesInv'
  BY <1>1 DEF BreakpointsInv, AliveInSession, CopiesInv
<1> QED BY <1>3, <1>4, <1>5, <1>6, <1>7 DEF BreakpointsInv

\* gdb's breakpoints change without a refresh, or it notifies: no copy is
\* trusted.
LEMMA LagStep ==
  ASSUME BreakpointsInv, alive,
         rows' \in Seq(Row), next' \in Nat \ {0}, GoodRows(rows', next'),
         \A s \in Seq(Row) : Below(s, next) /\ SamePlace(s, rows) => Below(s, next') /\ SamePlace(s, rows'),
         UNCHANGED <<valid, path, alive, list, panel, file, hung, carried>>, target' \in Targets,
         \/ unseen' = TRUE /\ UNCHANGED events
         \/ Notify /\ UNCHANGED unseen
  PROVE  BreakpointsInv'
<1>1. valid /\ path \in Files /\ events \in Seq({"note"})
  BY DEF BreakpointsInv, AliveInSession, OpenInv
<1>2. events' \in Seq({"note"}) /\ (events' = <<>> => unseen')
  <2>1. CASE unseen' = TRUE /\ UNCHANGED events
    BY <1>1, <2>1
  <2>2. CASE Notify
    <3>1. events' = Append(events, "note")
      BY <2>2 DEF Notify
    <3>2. events' \in Seq({"note"}) /\ events' # <<>>
      BY <1>1, <3>1
    <3> QED BY <3>2
  <2> QED BY <2>1, <2>2
<1>3. TypeOK'
  <2>1. events' \in Seq({"note", "terminated", "ended"})
    BY <1>2
  <2> QED BY <2>1 DEF BreakpointsInv, TypeOK
<1>4. NamesInv'
  <2>1. ~ carried => \A s \in {list, panel} : s \in Seq(Row) /\ Below(s, next) /\ SamePlace(s, rows)
    BY <1>1 DEF BreakpointsInv, NamesInv, TypeOK
  <2>2. ~ carried => \A s \in {list, panel} : Below(s, next') /\ SamePlace(s, rows')
    BY <2>1
  <2> QED BY <2>2 DEF NamesInv, GoodRows
<1>5. AliveInSession' /\ OpenInv' /\ ClosedInv' /\ CopiesInv'
  BY <1>1, <1>2 DEF BreakpointsInv, AliveInSession, OpenInv, ClosedInv, CopiesInv
<1> QED BY <1>3, <1>4, <1>5 DEF BreakpointsInv

\* What -break-insert does to what gdb has, in the words of LagStep and RefreshStep
LEMMA InsertStep ==
  ASSUME BreakpointsInv, NEW spec, NEW temp \in BOOLEAN, NEW enabled \in BOOLEAN
  PROVE  LET gdb == Inserted(Gdb, spec, temp, enabled)
         IN /\ gdb \in GoodGdb
            /\ \A s \in Seq(Row) : Below(s, next) /\ SamePlace(s, rows)
                                     => Below(s, gdb.next) /\ SamePlace(s, gdb.rows)
<1>1. Gdb \in GoodGdb /\ Gdb.rows = rows /\ Gdb.next = next
  BY DEF Gdb, GoodGdb, BreakpointsInv, NamesInv, TypeOK
<1> QED BY <1>1, InsertedGood

\* Opening a session keeps the invariant: nothing is listed or shown, or the
\* rows of the session it is opened over are carried.
LEMMA OpenStep ==
  ASSUME BreakpointsInv, NEW f \in Files, OpenSession(f)
  PROVE  BreakpointsInv'
<1>1. /\ events = <<>> /\ valid' = TRUE /\ path' = f /\ alive' = TRUE /\ target' \in Targets
      /\ rows' = Loaded(file[f]).rows /\ next' = Loaded(file[f]).next
      /\ unseen' = TRUE /\ carried' = valid
      /\ UNCHANGED <<list, panel, file, hung, events>>
  BY DEF OpenSession
<1>2. ~ valid => list = <<>> /\ panel = <<>>
  BY <1>1 DEF BreakpointsInv, ClosedInv
<1>3. rows' \in Seq(Row) /\ next' \in Nat \ {0} /\ GoodRows(rows', next')
  <2>1. Group(file[f])
    BY DEF BreakpointsInv, TypeOK, Group
  <2> QED BY <1>1, <2>1, LoadedGood DEF GoodGdb
<1>4. NamesInv'
  <2>1. Range(<<>>) = {}
    BY DEF Range
  <2>2. CASE valid
    BY <1>1, <1>3, <2>2 DEF NamesInv, GoodRows
  <2>3. CASE ~ valid
    BY <1>1, <1>2, <1>3, <2>1, <2>3 DEF NamesInv, GoodRows, Below, SamePlace
  <2> QED BY <2>2, <2>3
<1>5. TypeOK'
  BY <1>1, <1>3 DEF BreakpointsInv, TypeOK
<1>6. OpenInv'
  BY <1>1 DEF OpenInv
<1> QED BY <1>1, <1>4, <1>5, <1>6 DEF BreakpointsInv, AliveInSession, ClosedInv, CopiesInv

\* Closing the session keeps the invariant.
LEMMA CloseStep ==
  ASSUME BreakpointsInv, CloseSession
  PROVE  BreakpointsInv'
<1>1. /\ valid /\ valid' = FALSE /\ alive' = FALSE /\ rows' = <<>> /\ next' = 1 /\ unseen' = FALSE
      /\ carried' = FALSE /\ target' = "other" /\ UNCHANGED <<path, list, panel, file, hung>>
  BY DEF CloseSession
<1>2. PICK k \in 0..Len(events) : events' = Append(SubSeq(events, 1, k), "terminated")
  BY DEF CloseSession
<1>3. SubSeq(events, 1, k) \in Seq({"note"})
  BY <1>1 DEF BreakpointsInv, OpenInv
<1>4. <<>> \in Seq(Row) /\ Range(<<>>) = {}
  BY DEF Range
<1>5. TypeOK'
  <2>1. events' \in Seq({"note", "terminated", "ended"})
    BY <1>2, <1>3
  <2>2. rows' \in Seq(Row) /\ list' \in Seq(Row) /\ panel' \in Seq(Row)
    <3>1. rows' \in Seq(Row)
      BY <1>1, <1>4, Zenon
    <3> QED BY <1>1, <3>1 DEF BreakpointsInv, TypeOK
  <2>3. /\ valid' \in BOOLEAN /\ alive' \in BOOLEAN /\ unseen' \in BOOLEAN /\ carried' \in BOOLEAN
        /\ next' \in Nat \ {0} /\ target' \in Targets
        /\ UNCHANGED <<path, file, hung>>
    <3>1. /\ valid' \in BOOLEAN /\ alive' \in BOOLEAN /\ unseen' \in BOOLEAN /\ carried' \in BOOLEAN
          /\ target' \in Targets
      BY <1>1, Zenon DEF Targets
    <3>2. 1 \in Nat \ {0}
      OBVIOUS
    <3> QED BY <1>1, <3>1, <3>2, Zenon
  <2> QED BY <2>1, <2>2, <2>3 DEF BreakpointsInv, TypeOK
<1>6. NamesInv'
  BY <1>1, <1>4 DEF NamesInv, GoodRows, Below, SamePlace, Placed
<1> QED BY <1>1, <1>2, <1>3, <1>5, <1>6 DEF BreakpointsInv, AliveInSession, OpenInv, ClosedInv, CopiesInv

\* The two events of the end, and the file tab that shows the list again
LEMMA EndStep ==
  ASSUME BreakpointsInv, HandleTerminated \/ HandleEnded \/ OpenFile
  PROVE  BreakpointsInv'
<1>1. <<>> \in Seq(Row) /\ Range(<<>>) = {}
  BY DEF Range
<1>2. CASE HandleTerminated
  <2>1. /\ events # <<>> /\ Head(events) = "terminated" /\ events' = Append(Tail(events), "ended")
        /\ target' = "stopped" /\ list' = <<>>
        /\ UNCHANGED <<valid, path, alive, rows, next, panel, file, unseen, hung, carried>>
    BY <1>2 DEF HandleTerminated, Take, gdbVars
  <2>2. ~ valid
    BY <2>1 DEF BreakpointsInv, OpenInv
  <2>3. events' = <<"ended">>
    <3>1. events # <<"ended">>
      BY <2>1
    <3>2. PICK notes \in Seq({"note"}) : events = Append(notes, "terminated")
      BY <2>1, <2>2, <3>1 DEF BreakpointsInv, ClosedInv
    <3>3. notes = <<>>
      <4>1. notes # <<>> => Head(events) = "note"
        BY <3>2
      <4> QED BY <2>1, <4>1
    <3> QED BY <2>1, <3>2, <3>3
  <2>4. TypeOK'
    <3>1. events' \in Seq({"note", "terminated", "ended"})
      BY <2>3
    <3> QED BY <1>1, <2>1, <3>1 DEF BreakpointsInv, TypeOK, Targets
  <2> QED BY <1>1, <2>1, <2>2, <2>3, <2>4
          DEF BreakpointsInv, AliveInSession, OpenInv, ClosedInv, NamesInv, CopiesInv
<1>3. CASE HandleEnded
  <2>1. /\ events # <<>> /\ Head(events) = "ended" /\ events' = Tail(events) /\ panel' = <<>>
        /\ UNCHANGED <<valid, path, target, alive, rows, next, list, file, unseen, hung, carried>>
    BY <1>3 DEF HandleEnded, Take, sessionVars, gdbVars
  <2>2. ~ valid
    BY <2>1 DEF BreakpointsInv, OpenInv
  <2>3. events' = <<>> /\ list = <<>>
    <3>1. ASSUME NEW notes \in Seq({"note"}), events = Append(notes, "terminated") PROVE FALSE
      <4>1. CASE notes = <<>>
        BY <2>1, <3>1, <4>1
      <4>2. CASE notes # <<>>
        BY <2>1, <3>1, <4>2
      <4> QED BY <4>1, <4>2
    <3>2. events = <<"ended">> /\ list = <<>>
      BY <2>1, <2>2, <3>1 DEF BreakpointsInv, ClosedInv
    <3> QED BY <2>1, <3>2
  <2>4. TypeOK'
    <3>1. events' \in Seq({"note", "terminated", "ended"})
      BY <2>3
    <3> QED BY <1>1, <2>1, <3>1 DEF BreakpointsInv, TypeOK
  <2> QED BY <1>1, <2>1, <2>2, <2>3, <2>4
          DEF BreakpointsInv, AliveInSession, OpenInv, ClosedInv, NamesInv, CopiesInv
<1>4. CASE OpenFile
  <2>1. panel' = list
        /\ UNCHANGED <<valid, path, target, alive, rows, next, list, file, unseen, hung, carried, events>>
    BY <1>4 DEF OpenFile, sessionVars, gdbVars
  <2> QED BY <2>1 DEF BreakpointsInv, TypeOK, AliveInSession, OpenInv, ClosedInv, NamesInv, CopiesInv
<1> QED BY <1>2, <1>3, <1>4

\* The program moves, gdb dies, or nothing happens.
LEMMA QuietStep ==
  ASSUME BreakpointsInv, ProgramMoves \/ Die \/ UNCHANGED vars
  PROVE  BreakpointsInv'
<1>1. UNCHANGED <<valid, path, rows, next, list, panel, file, unseen, hung, carried, events>>
  BY DEF ProgramMoves, Die, vars, sessionVars, gdbVars, copies
<1>2. target' \in Targets /\ (alive' = alive \/ alive' = FALSE)
  BY DEF ProgramMoves, Die, vars, sessionVars, gdbVars, Targets, BreakpointsInv, TypeOK
<1>3. TypeOK'
  BY <1>1, <1>2 DEF BreakpointsInv, TypeOK
<1>4. NamesInv'
  BY <1>1 DEF BreakpointsInv, NamesInv
<1>5. AliveInSession' /\ OpenInv' /\ ClosedInv' /\ CopiesInv'
  BY <1>1, <1>2 DEF BreakpointsInv, AliveInSession, OpenInv, ClosedInv, CopiesInv
<1> QED BY <1>3, <1>4, <1>5 DEF BreakpointsInv

\* Every step keeps the invariant.
LEMMA NextInv == BreakpointsInv /\ [Next]_vars => BreakpointsInv'
<1> SUFFICES ASSUME BreakpointsInv, [Next]_vars PROVE BreakpointsInv'
  OBVIOUS
<1>1. Gdb \in GoodGdb /\ Gdb.rows = rows /\ Gdb.next = next
  BY DEF Gdb, GoodGdb, BreakpointsInv, NamesInv, TypeOK
<1>2. rows \in Seq(Row) /\ next \in Nat \ {0} /\ GoodRows(rows, next)
  BY DEF BreakpointsInv, NamesInv, TypeOK
<1>3. ASSUME NEW gdb \in GoodGdb, Refresh(gdb), UNCHANGED <<sessionVars, events>> PROVE BreakpointsInv'
  BY <1>3, RefreshStep
<1>4. ASSUME NEW t \in Seq(Row), GoodRows(t, next) PROVE [Gdb EXCEPT !.rows = t] \in GoodGdb
  BY <1>2, <1>4 DEF Gdb, GoodGdb
<1>5. ASSUME NEW no PROVE [Gdb EXCEPT !.rows = Without(no)] \in GoodGdb
  BY <1>2, <1>4, WithoutGood
<1>6. ASSUME NEW ids, NEW enabled \in BOOLEAN PROVE [Gdb EXCEPT !.rows = Switched(ids, enabled)] \in GoodGdb
  BY <1>2, <1>4, SwitchedGood
<1>7. [Gdb EXCEPT !.rows = <<>>] \in GoodGdb
  <2>1. <<>> \in Seq(Row) /\ Range(<<>>) = {}
    BY DEF Range
  <2>2. GoodRows(<<>>, next)
    BY <2>1 DEF GoodRows, Below, SamePlace, Placed
  <2> QED BY <1>4, <2>1, <2>2
<1>8. ASSUME NEW form \in Forms, SetBreakpoint(form[1], form[2], form[3]) PROVE BreakpointsInv'
  <2>1. form[2] \in BOOLEAN /\ form[3] \in BOOLEAN
    BY PlacesAssumption
  <2>2. Inserted(Gdb, form[1], form[2], form[3]) \in GoodGdb
    BY <2>1, InsertStep
  <2> QED BY <1>3, <1>8, <2>2 DEF SetBreakpoint
<1>9. ASSUME NEW line, ToggleBreakpoint(line) PROVE BreakpointsInv'
  <2>1. Inserted(Gdb, line, FALSE, TRUE) \in GoodGdb
    BY InsertStep
  <2>2. \E gdb \in GoodGdb : Refresh(gdb)
    BY <1>1, <1>5, <1>9, <2>1 DEF ToggleBreakpoint
  <2>3. UNCHANGED <<sessionVars, events>>
    BY <1>9 DEF ToggleBreakpoint
  <2> QED BY <1>3, <2>2, <2>3
<1>10. ASSUME NEW line, Jump(line) PROVE BreakpointsInv'
  <2> DEFINE gdb == Inserted(Gdb, line, TRUE, TRUE)
  <2>1. CASE alive
    <3>1. /\ gdb \in GoodGdb
          /\ \A s \in Seq(Row) : Below(s, next) /\ SamePlace(s, rows)
                                   => Below(s, gdb.next) /\ SamePlace(s, gdb.rows)
      BY InsertStep
    <3>2. /\ rows' = gdb.rows /\ next' = gdb.next /\ unseen' = TRUE
          /\ UNCHANGED <<valid, path, target, alive, list, panel, file, hung, carried, events>>
      BY <1>10, <2>1 DEF Jump, sessionVars
    <3> HIDE DEF gdb
    <3>3. rows' \in Seq(Row) /\ next' \in Nat \ {0} /\ GoodRows(rows', next')
      BY <3>1, <3>2 DEF GoodGdb
    <3>4. target' \in Targets
      BY <3>2 DEF BreakpointsInv, TypeOK
    <3> QED BY <2>1, <3>1, <3>2, <3>3, <3>4, LagStep
  <2>2. CASE ~ alive
    <3>1. Refresh(Gdb) /\ UNCHANGED <<sessionVars, events>>
      BY <1>10, <2>2 DEF Jump, Refresh
    <3> QED BY <1>1, <1>3, <3>1
  <2> QED BY <2>1, <2>2
<1>11. ASSUME NEW row, RemoveBreakpoint(row) \/ \E enabled \in BOOLEAN : SwitchBreakpoint(row, enabled)
       PROVE  BreakpointsInv'
  BY <1>3, <1>5, <1>6, <1>11 DEF RemoveBreakpoint, SwitchBreakpoint
<1>12. CASE RemoveAll \/ \E enabled \in BOOLEAN : SwitchAll(enabled)
  BY <1>3, <1>6, <1>7, <1>12 DEF RemoveAll, SwitchAll
<1>13. CASE \E f \in Files : OpenSession(f)
  BY <1>13, OpenStep
<1>14. CASE CloseSession
  BY <1>14, CloseStep
<1>15. CASE HandleTerminated \/ HandleEnded \/ OpenFile
  BY <1>15, EndStep
<1>16. CASE ProgramMoves \/ Die \/ UNCHANGED vars
  BY <1>16, QuietStep
<1>17. CASE HandleNote
  <2>1. CASE alive
    <3>1. events # <<>> /\ events' = Tail(events) /\ Refresh(Gdb) /\ UNCHANGED sessionVars
      BY <1>17, <2>1 DEF HandleNote, Take
    <3> QED BY <1>1, <2>1, <3>1, RefreshStep
  <2> QED BY <1>17, <2>1, HangStep
<1>18. CASE StartAtMain
  <2> DEFINE gdb == Inserted(Gdb, Main, TRUE, TRUE)
  <2>1. /\ gdb \in GoodGdb
        /\ \A s \in Seq(Row) : Below(s, next) /\ SamePlace(s, rows)
                                 => Below(s, gdb.next) /\ SamePlace(s, gdb.rows)
    BY InsertStep
  <2>2. /\ alive /\ rows' = gdb.rows /\ next' = gdb.next /\ target' = "other" /\ Notify
        /\ UNCHANGED <<valid, path, alive, list, panel, file, unseen, hung, carried>>
    BY <1>18 DEF StartAtMain, MayNotify, copies
  <2> HIDE DEF gdb
  <2>3. rows' \in Seq(Row) /\ next' \in Nat \ {0} /\ GoodRows(rows', next')
    BY <2>1, <2>2 DEF GoodGdb
  <2>4. target' \in Targets
    BY <2>2 DEF Targets
  <2> QED BY <2>1, <2>2, <2>3, <2>4, LagStep
<1>19. CASE HitTemporary \/ Modify
  <2>1. /\ alive /\ next' = next /\ Notify
        /\ UNCHANGED <<valid, path, target, alive, list, panel, file, unseen, hung, carried>>
    BY <1>19 DEF HitTemporary, Modify, MayNotify, sessionVars, gdbVars, copies
  <2>2. rows' = rows \/ \E no : rows' = Without(no)
    BY <1>19 DEF HitTemporary, Modify, gdbVars
  <2>3. /\ rows' \in Seq(Row) /\ GoodRows(rows', next)
        /\ \A s \in Seq(Row) : SamePlace(s, rows) => SamePlace(s, rows')
    BY <1>2, <2>2, WithoutGood
  <2>4. target' \in Targets
    BY <2>1 DEF BreakpointsInv, TypeOK
  <2> QED BY <1>2, <2>1, <2>3, <2>4, LagStep
<1> QED BY <1>8, <1>9, <1>10, <1>11, <1>12, <1>13, <1>14, <1>15, <1>16, <1>17, <1>18, <1>19 DEF Next, User

\* Rows, copies, files and queue always fit together.
THEOREM BreakpointsInvCorrect == Spec => []BreakpointsInv
BY InitInv, NextInv, PTL DEF Spec

\* Every copy of the breakpoints is a list of rows (UpdateBreakpointList,
\* loadBreakpoints).
THEOREM TypeCorrect == Spec => []TypeOK
<1>1. BreakpointsInv => TypeOK
  BY DEF BreakpointsInv
<1> QED BY <1>1, BreakpointsInvCorrect, PTL

\* The list and the panel are what gdb has, unless a notification is under
\* way or the last command was one that does not refresh (UpdateBreakpointList).
THEOREM ListFreshCorrect == Spec => []ListFresh
<1>1. BreakpointsInv => ListFresh
  BY DEF BreakpointsInv, CopiesInv, ListFresh, Seen
<1> QED BY <1>1, BreakpointsInvCorrect, PTL

\* A row of the panel never names another breakpoint than the one it shows,
\* in whatever session, and however stale it is (getBreakpoint,
\* onRemoveBreakpoint), once a session opened over another has refreshed.
THEOREM ShownIsNamedCorrect == Spec => []ShownIsNamed
<1>1. BreakpointsInv => ShownIsNamed
  BY DEF BreakpointsInv, NamesInv, SamePlace, ShownIsNamed
<1> QED BY <1>1, BreakpointsInvCorrect, PTL

\* What is saved, opened again, gives back every breakpoint up to the first
\* with several locations, with its flags (saveBreakpoints, loadBreakpoints).
THEOREM SavedSurvivesCorrect == Spec => []SavedSurvives
<1>1. BreakpointsInv => SavedSurvives
  BY RoundTrip DEF BreakpointsInv, TypeOK, NamesInv, GoodRows, CopiesInv, SavedSurvives, Seen
<1> QED BY <1>1, BreakpointsInvCorrect, PTL
-----------------------------------------------------------------------------
(* The panel and the files mirror gdb's list: MirroredList is implemented. *)

\* The list is what the panel shows, unless it was emptied first.
ShownInv == list = panel \/ (list = <<>> /\ (hung \/ ~ valid))

MirrorInv == BreakpointsInv /\ ShownInv

\* Nothing is listed or shown once the end of the session was handled.
LEMMA ClosedCases ==
  ASSUME BreakpointsInv, ~ valid
  PROVE  /\ events = <<>> => list = <<>> /\ panel = <<>>
         /\ events # <<>> /\ Head(events) = "ended" => list = <<>>
<1>1. ASSUME NEW notes \in Seq({"note"}), events = Append(notes, "terminated")
      PROVE  events # <<>> /\ Head(events) # "ended"
  <2>1. CASE notes = <<>>
    BY <1>1, <2>1
  <2>2. CASE notes # <<>>
    <3>1. Head(notes) = "note" /\ Len(notes) \in Nat /\ Len(notes) > 0
      BY <2>2
    <3> QED BY <1>1, <3>1
  <2> QED BY <2>1, <2>2
<1>2. CASE \E notes \in Seq({"note"}) : events = Append(notes, "terminated")
  BY <1>1, <1>2
<1>3. CASE events = <<>> /\ list = <<>> /\ panel = <<>>
  BY <1>3
<1>4. CASE events = <<"ended">> /\ list = <<>>
  BY <1>4
<1> QED BY <1>2, <1>3, <1>4 DEF BreakpointsInv, ClosedInv

\* A closed session's list is shown as it is, empty once "terminated" came.
LEMMA ShownStep == MirrorInv /\ [Next]_vars => ShownInv'
<1> SUFFICES ASSUME MirrorInv, [Next]_vars PROVE ShownInv'
  OBVIOUS
<1>1. ASSUME NEW gdb, Refresh(gdb), UNCHANGED valid PROVE ShownInv'
  BY <1>1 DEF Refresh, Hang, MirrorInv, ShownInv
<1>2. ASSUME UNCHANGED <<list, panel>>, hung => hung', valid' => valid PROVE ShownInv'
  BY <1>2 DEF MirrorInv, ShownInv
<1>3. CASE (\E form \in Forms : SetBreakpoint(form[1], form[2], form[3])) \/ RemoveAll
           \/ (\E row \in Range(panel) : RemoveBreakpoint(row) \/ \E on \in BOOLEAN : SwitchBreakpoint(row, on))
           \/ (\E on \in BOOLEAN : SwitchAll(on))
  BY <1>1, <1>3 DEF SetBreakpoint, RemoveAll, RemoveBreakpoint, SwitchBreakpoint, SwitchAll, sessionVars
<1>4. ASSUME NEW line, ToggleBreakpoint(line) PROVE ShownInv'
  <2>1. (\E gdb : Refresh(gdb)) /\ UNCHANGED sessionVars
    BY <1>4, Zenon DEF ToggleBreakpoint
  <2> QED BY <1>1, <2>1 DEF sessionVars
<1>5. ASSUME NEW line, Jump(line) PROVE ShownInv'
  <2>1. UNCHANGED <<list, panel, valid>> /\ (hung => hung')
    BY <1>5 DEF Jump, Hang, sessionVars
  <2> QED BY <1>2, <2>1
<1>6. CASE \E f \in Files : OpenSession(f)
  <2>1. ~ hung /\ events = <<>> /\ UNCHANGED <<list, panel>>
    BY <1>6 DEF OpenSession
  <2>2. list = panel
    BY <2>1, ClosedCases DEF MirrorInv, ShownInv
  <2> QED BY <2>1, <2>2 DEF ShownInv
<1>7. CASE CloseSession
  BY <1>7 DEF CloseSession, MirrorInv, ShownInv
<1>12. CASE ProgramMoves \/ StartAtMain \/ HitTemporary \/ Modify \/ Die \/ UNCHANGED vars
  <2>1. UNCHANGED <<list, panel, hung, valid>>
    BY <1>12 DEF ProgramMoves, StartAtMain, HitTemporary, Modify, Die, vars, copies, sessionVars
  <2> QED BY <1>2, <2>1
<1>8. CASE HandleNote
  <2>1. (Refresh(Gdb) \/ (list' = <<>> /\ hung')) /\ UNCHANGED valid
    BY <1>8 DEF HandleNote, Hang, sessionVars
  <2> QED BY <1>1, <2>1 DEF ShownInv
<1>9. CASE HandleTerminated
  <2>1. list' = <<>> /\ UNCHANGED valid /\ events # <<>> /\ Head(events) = "terminated"
    BY <1>9 DEF HandleTerminated, Take
  <2>2. ~ valid
    BY <2>1 DEF MirrorInv, BreakpointsInv, OpenInv
  <2> QED BY <2>1, <2>2 DEF ShownInv
<1>10. CASE HandleEnded
  <2>1. panel' = <<>> /\ UNCHANGED <<list, valid>> /\ events # <<>> /\ Head(events) = "ended"
    BY <1>10 DEF HandleEnded, Take, sessionVars
  <2>2. ~ valid
    BY <2>1 DEF MirrorInv, BreakpointsInv, OpenInv
  <2>3. list = <<>>
    BY <2>1, <2>2, ClosedCases DEF MirrorInv
  <2> QED BY <2>1, <2>3 DEF ShownInv
<1>11. CASE OpenFile
  BY <1>11 DEF OpenFile, ShownInv
<1> QED BY <1>3, <1>4, <1>5, <1>6, <1>7, <1>8, <1>9, <1>10, <1>11, <1>12 DEF Next, User

\* What the refinement rests on always holds.
LEMMA MirrorInvCorrect == Spec => []MirrorInv
<1>1. Init => MirrorInv
  BY InitInv DEF Init, MirrorInv, ShownInv
<1>2. MirrorInv /\ [Next]_vars => MirrorInv'
  BY NextInv, ShownStep DEF MirrorInv
<1> QED BY <1>1, <1>2, PTL DEF Spec

\* What no copy shows is not seen.
LEMMA SameStep ==
  ASSUME UNCHANGED <<valid, path, rows, panel, file>>, Seen' <=> Seen
  PROVE  UNCHANGED Mirror!vars
<1>1. Seen' = Seen
  BY DEF Seen
<1> QED BY <1>1 DEF Mirror!vars

\* A refresh that gdb answers is Show; one that it does not is nothing.
LEMMA ShowStep ==
  ASSUME BreakpointsInv, BreakpointsInv', NEW gdb, Refresh(gdb), UNCHANGED sessionVars
  PROVE  [Mirror!Next]_Mirror!vars
<1>1. UNCHANGED <<valid, path, alive>>
  BY DEF Refresh, Hang, sessionVars, gdbVars
<1>2. CASE alive
  <2>1. valid /\ path # NoSpec
    BY <1>2, PlacesAssumption DEF BreakpointsInv, AliveInSession, OpenInv
  <2>2. /\ rows' \in Seq(Row) /\ panel' = rows'
        /\ file' = [file EXCEPT ![path] = Saved(rows')]
    BY <1>2 DEF Refresh, BreakpointsInv, TypeOK
  <2>3. Seen' \in BOOLEAN
    BY DEF Seen
  <2>4. Mirror!Show
    BY <1>1, <2>1, <2>2, <2>3 DEF Mirror!Show
  <2> QED BY <2>4 DEF Mirror!Next
<1>3. CASE ~ alive
  <2>1. UNCHANGED <<rows, panel, file>> /\ ~ Seen /\ ~ Seen'
    BY <1>1, <1>3 DEF Refresh, Hang, gdbVars, Seen
  <2>2. UNCHANGED Mirror!vars
    BY <1>1, <2>1, SameStep
  <2> QED BY <2>2
<1> QED BY <1>2, <1>3

\* What gdb does unasked, and what is not read again, is Change.
LEMMA ChangeStep ==
  ASSUME BreakpointsInv, BreakpointsInv', valid, UNCHANGED <<valid, path, panel, file>>, ~ Seen'
  PROVE  [Mirror!Next]_Mirror!vars
<1>1. path # NoSpec /\ rows' \in Seq(Row)
  BY PlacesAssumption DEF BreakpointsInv, OpenInv, TypeOK
<1>2. Seen' = FALSE
  BY DEF Seen
<1>3. Mirror!Change
  BY <1>1, <1>2 DEF Mirror!Change
<1> QED BY <1>3 DEF Mirror!Next

\* Every step of Breakpoints is a step of the abstract list, or none.
LEMMA MirrorStep == MirrorInv /\ MirrorInv' /\ [Next]_vars => [Mirror!Next]_Mirror!vars
<1> SUFFICES ASSUME MirrorInv, MirrorInv', [Next]_vars PROVE [Mirror!Next]_Mirror!vars
  OBVIOUS
<1>1. BreakpointsInv /\ BreakpointsInv'
  BY DEF MirrorInv
<1>2. ASSUME NEW gdb, Refresh(gdb), UNCHANGED sessionVars PROVE [Mirror!Next]_Mirror!vars
  BY <1>1, <1>2, ShowStep
<1>3. CASE (\E form \in Forms : SetBreakpoint(form[1], form[2], form[3])) \/ RemoveAll
           \/ (\E row \in Range(panel) : RemoveBreakpoint(row) \/ \E on \in BOOLEAN : SwitchBreakpoint(row, on))
           \/ (\E on \in BOOLEAN : SwitchAll(on))
  BY <1>2, <1>3 DEF SetBreakpoint, RemoveAll, RemoveBreakpoint, SwitchBreakpoint, SwitchAll
<1>4. ASSUME NEW line, ToggleBreakpoint(line) PROVE [Mirror!Next]_Mirror!vars
  <2>1. (\E gdb : Refresh(gdb)) /\ UNCHANGED sessionVars
    BY <1>4, Zenon DEF ToggleBreakpoint
  <2> QED BY <1>2, <2>1
<1>5. ASSUME NEW line, Jump(line) PROVE [Mirror!Next]_Mirror!vars
  <2>1. UNCHANGED <<valid, path, panel, file>> /\ ~ Seen'
    BY <1>5 DEF Jump, Hang, sessionVars, gdbVars, Seen
  <2>2. CASE valid
    BY <1>1, <2>1, <2>2, ChangeStep
  <2>3. CASE ~ valid
    <3>1. ~ alive /\ ~ Seen
      BY <1>1, <2>3 DEF BreakpointsInv, AliveInSession, Seen
    <3>2. UNCHANGED rows
      BY <1>5, <3>1 DEF Jump, Hang, gdbVars
    <3> QED BY <2>1, <3>1, <3>2, SameStep
  <2> QED BY <2>2, <2>3
<1>6. ASSUME NEW f \in Files, OpenSession(f) PROVE [Mirror!Next]_Mirror!vars
  <2>1. /\ events = <<>> /\ valid' = TRUE /\ path' = f /\ unseen' = TRUE
        /\ rows' = Loaded(file[f]).rows /\ UNCHANGED <<panel, file>>
    BY <1>6 DEF OpenSession
  <2>2. (~ valid => panel = <<>>) /\ (valid => path # NoSpec) /\ f \in DOMAIN file
    BY <1>1, <1>6, <2>1, ClosedCases, PlacesAssumption DEF BreakpointsInv, AliveInSession, OpenInv
  <2>3. Seen' = FALSE
    BY <2>1 DEF Seen
  <2>4. Mirror!Begin(f)
    BY <2>1, <2>2, <2>3 DEF Mirror!Begin
  <2> QED BY <2>2, <2>4 DEF Mirror!Next
<1>7. CASE CloseSession
  <2>1. /\ valid /\ valid' = FALSE /\ rows' = <<>> /\ UNCHANGED <<panel, file>>
    BY <1>7 DEF CloseSession
  <2>2. path # NoSpec
    BY <1>1, <2>1, PlacesAssumption DEF BreakpointsInv, OpenInv
  <2>3. Seen' = FALSE
    BY <2>1 DEF Seen
  <2>4. Mirror!End
    BY <2>1, <2>2, <2>3 DEF Mirror!End
  <2> QED BY <2>4 DEF Mirror!Next
<1>8. CASE ProgramMoves \/ UNCHANGED vars
  <2>1. UNCHANGED <<valid, path, alive, rows, panel, file, unseen, events>>
    BY <1>8 DEF ProgramMoves, vars, sessionVars, gdbVars, copies
  <2> QED BY <2>1, SameStep DEF Seen
<1>9. CASE StartAtMain \/ HitTemporary \/ Modify
  <2>1. /\ alive /\ Notify /\ UNCHANGED <<valid, path, panel, file>>
    BY <1>9 DEF StartAtMain, HitTemporary, Modify, MayNotify, sessionVars, gdbVars, copies
  <2>2. valid /\ events' # <<>>
    BY <1>1, <2>1 DEF BreakpointsInv, AliveInSession, OpenInv, Notify
  <2> QED BY <1>1, <2>1, <2>2, ChangeStep DEF Seen
<1>10. CASE Die
  <2>1. alive /\ alive' = FALSE /\ UNCHANGED <<valid, path, panel, file>>
    BY <1>10 DEF Die, sessionVars, copies
  <2>2. valid
    BY <1>1, <2>1 DEF BreakpointsInv, AliveInSession
  <2> QED BY <1>1, <2>1, <2>2, ChangeStep DEF Seen
<1>11. CASE HandleNote
  <2>1. CASE alive
    BY <1>2, <1>11, <2>1 DEF HandleNote
  <2>2. CASE ~ alive
    <3>1. UNCHANGED <<valid, path, alive, rows, panel, file>>
      BY <1>11, <2>2 DEF HandleNote, Hang, sessionVars, gdbVars
    <3> QED BY <2>2, <3>1, SameStep DEF Seen
  <2> QED BY <2>1, <2>2
<1>12. CASE HandleTerminated
  <2>1. /\ events # <<>> /\ Head(events) = "terminated"
        /\ UNCHANGED <<valid, path, alive, rows, panel, file>>
    BY <1>12 DEF HandleTerminated, Take, gdbVars
  <2>2. ~ valid
    BY <1>1, <2>1 DEF BreakpointsInv, OpenInv
  <2> QED BY <2>1, <2>2, SameStep DEF Seen
<1>13. CASE HandleEnded
  <2>1. /\ events # <<>> /\ Head(events) = "ended" /\ panel' = <<>>
        /\ UNCHANGED <<valid, path, rows, file>>
    BY <1>13 DEF HandleEnded, Take, sessionVars, gdbVars
  <2>2. ~ valid
    BY <1>1, <2>1 DEF BreakpointsInv, OpenInv
  <2>3. Seen' = Seen
    BY <2>1, <2>2 DEF Seen
  <2>4. Mirror!Forget
    BY <2>1, <2>2, <2>3 DEF Mirror!Forget
  <2> QED BY <2>4 DEF Mirror!Next
<1>14. CASE OpenFile
  <2>1. ~ hung /\ panel' = list /\ UNCHANGED <<valid, path, alive, rows, file, unseen, events>>
    BY <1>14 DEF OpenFile, sessionVars, gdbVars
  <2>2. Seen' = Seen
    BY <2>1 DEF Seen
  <2>3. CASE list = panel
    BY <2>1, <2>2, <2>3, SameStep
  <2>4. CASE list = <<>> /\ ~ valid
    <3>1. Mirror!Forget
      BY <2>1, <2>2, <2>4 DEF Mirror!Forget
    <3> QED BY <3>1 DEF Mirror!Next
  <2> QED BY <2>1, <2>3, <2>4 DEF MirrorInv, ShownInv
<1> QED BY <1>3, <1>4, <1>5, <1>6, <1>7, <1>8, <1>9, <1>10, <1>11, <1>12, <1>13, <1>14 DEF Next, User

\* Sessions begin with what was saved, and nothing shown unless opened over
\* another, whose rows they begin with then; after that panel and file change
\* as a whole, to what gdb has at that moment, and what is sure to be
\* gdb's list stays it until gdb changes it or dies (loadBreakpoints,
\* UpdateBreakpointList, handleAsyncRecord, OnGdbProcessEnd).
THEOREM MirrorSpecCorrect == Spec => MirrorSpec
<1>1. Init => Mirror!Init
  <2> SUFFICES ASSUME Init PROVE Mirror!Init
    OBVIOUS
  <2>1. Saved(<<>>) = [count |-> 0, bp |-> <<>>]
    <3> DEFINE kept == {i \in DOMAIN <<>> : ~ IsChild(<<>>[i])}
    <3>1. kept = {} /\ Cardinality({}) = 0
      BY FS_EmptySet
    <3>2. [i \in {k - 1 : k \in {}} |-> ToStored(<<>>[i + 1])] = <<>>
      OBVIOUS
    <3>3. Saved(<<>>) = [count |-> Cardinality(kept), bp |-> [i \in {k - 1 : k \in kept} |-> ToStored(<<>>[i + 1])]]
      BY DEF Saved
    <3> HIDE DEF kept
    <3> QED BY <3>1, <3>2, <3>3
  <2>2. \A f \in DOMAIN file : file[f] = Saved(<<>>)
    BY <2>1 DEF Init
  <2>3. Seen = FALSE
    BY DEF Init, Seen
  <2> QED BY <2>2, <2>3 DEF Init, Mirror!Init
<1>2. MirrorInv /\ MirrorInv' /\ [Next]_vars => [Mirror!Next]_Mirror!vars
  BY MirrorStep
<1> QED BY <1>1, <1>2, MirrorInvCorrect, PTL DEF Spec, Mirror!Spec, MirrorSpec

\* The promise itself: what is fresh is shown and saved as it is.
LEMMA MirrorKept == MirrorSpec => []Mirror!Kept
<1>1. Mirror!Init => Mirror!Kept
  BY DEF Mirror!Init, Mirror!Kept
<1>2. Mirror!Kept /\ [Mirror!Next]_Mirror!vars => Mirror!Kept'
  <2> SUFFICES ASSUME Mirror!Kept, [Mirror!Next]_Mirror!vars PROVE Mirror!Kept'
    OBVIOUS
  <2>1. CASE \E f \in DOMAIN file : Mirror!Begin(f)
    BY <2>1 DEF Mirror!Begin, Mirror!Kept
  <2>2. CASE Mirror!Change \/ Mirror!End
    BY <2>2 DEF Mirror!Change, Mirror!End, Mirror!Kept
  <2>3. CASE Mirror!Show
    BY <2>3 DEF Mirror!Show, Mirror!Kept
  <2>4. CASE Mirror!Forget
    BY <2>4 DEF Mirror!Forget, Mirror!Kept
  <2>5. CASE UNCHANGED Mirror!vars
    BY <2>5 DEF Mirror!vars, Mirror!Kept
  <2> QED BY <2>1, <2>2, <2>3, <2>4, <2>5 DEF Mirror!Next
<1> QED BY <1>1, <1>2, PTL DEF MirrorSpec, Mirror!Spec
=============================================================================
