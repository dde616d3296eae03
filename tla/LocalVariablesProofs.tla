------------------------ MODULE LocalVariablesProofs ------------------------
(***************************************************************************)
(* What is proved of LocalVariables for every set of frames, variables and *)
(* members, and without the bounds: no member's object is left when the    *)
(* list is replaced, a number means one variable among all the objects of  *)
(* the stops before, which stay, and the panel shows the selected frame's  *)
(* variables and, of those in the list, members that gdb has.              *)
(***************************************************************************)
EXTENDS LocalVariables, SequenceTheorems, TLAPS

(* Facts about the tree.                                                   *)

\* The rows under an object are its own and begin with the same variable.
LEMMA UnderFacts ==
  ASSUME NEW object, object.path \in Paths, NEW X, NEW r \in Under(object, X)
  PROVE  /\ r \in [id : {object.id}, path : Paths, open : BOOLEAN]
         /\ r.path[1] = object.path[1]
         /\ IsPrefix(object.path, r.path)
<1>1. PICK p \in Paths : /\ IsPrefix(object.path, p)
                         /\ r = [id |-> object.id, path |-> p, open |-> p \in X /\ HasChildren(p)]
  BY DEF Under
<1>2. (p \in X /\ HasChildren(p)) \in BOOLEAN
  BY DEF HasChildren
<1>3. r \in [id : {object.id}, path : Paths, open : BOOLEAN] /\ r.path = p
  BY <1>1, <1>2
<1>4. /\ object.path \in Seq(STRING) /\ p \in Seq(STRING) 
      /\ object.path # <<>> /\ Len(object.path) \in Nat /\ Len(object.path) >= 1
  BY <1>1, VariablesAssumption
<1>5. object.path[1] = p[1]
  <2>1. /\ Len(object.path) <= Len(p)
        /\ SubSeq(object.path, 1, Len(object.path)) = SubSeq(p, 1, Len(object.path))
    BY <1>1 DEF IsPrefix
  <2> QED  BY <1>4, <2>1
<1> QED  BY <1>1, <1>3, <1>5

\* The objects or rows numbered as an entry are of its variable.
NamedBy(entries, things) ==
  \A e \in entries, t \in things : e.id = t.id => t.path[1] = e.name
Injective(entries) == \A e1, e2 \in entries : e1.id = e2.id => e1 = e2

\* No number has been used beyond the counter.
Counted(things, n) == \A t \in things : t.id < n

\* An entry's root is a well-formed object.
LEMMA RootFacts ==
  ASSUME NEW e \in Entry
  PROVE  /\ Root(e) \in Object /\ Root(e).id = e.id /\ Root(e).path = <<e.name>>
         /\ <<e.name>> \in Paths /\ <<e.name>>[1] = e.name
BY VariablesAssumption DEF Entry, Root, Object

\* Each entry's own row is among the rows under it.
LEMMA RootShown ==
  ASSUME NEW e \in Entry, NEW X
  PROVE  Root(e) \in Objects(Under(Root(e), X))
<1> DEFINE root == Root(e)
           p == <<e.name>>
<1>1. root.id = e.id /\ root.path = p /\ p \in Paths /\ root = [id |-> root.id, path |-> p]
  BY RootFacts DEF Root
<1>2. Len(p) = 1 /\ IsPrefix(p, p)
  BY <1>1, VariablesAssumption DEF IsPrefix
<1>3. [id |-> root.id, path |-> p, open |-> p \in X /\ HasChildren(p)] \in Under(root, X)
  <2>1. \A k \in Len(root.path)..(Len(p) - 1) : SubSeq(p, 1, k) \in X
    BY <1>1, <1>2
  <2> HIDE DEF root, p
  <2> QED  BY <1>1, <1>2, <2>1 DEF Under
<1> HIDE DEF root, p
<1>4. \E r \in Under(root, X) : root = [id |-> r.id, path |-> r.path]
  BY <1>1, <1>3
<1> QED  BY <1>4 DEF Objects, root

\* Filling the panel from the entries makes their objects, and no others.
LEMMA RefillFacts ==
  ASSUME NEW entries \in SUBSET Entry, Injective(entries),
         NEW X, NEW before \in SUBSET Object, NamedBy(entries, before),
         NEW n, Counted(entries, n), Counted(before, n), Refill(entries, X, before)
  PROVE  /\ rows' \in SUBSET Row /\ objects' \in SUBSET Object
         /\ NamedBy(entries, objects') /\ NamedBy(entries, rows')
         /\ Counted(objects', n) /\ Counted(rows', n)
         /\ \A e \in entries : Root(e) \in objects'
         /\ \A r \in rows' : r.id \in Ids(entries)
<1>1. /\ rows' = UNION {Under(Root(e), X) : e \in entries}
      /\ objects' = before \union Objects(rows')
  BY DEF Refill
<1>2. ASSUME NEW r \in rows'
      PROVE  r \in Row /\ \E e \in entries : e.id = r.id /\ r.path[1] = e.name
  <2>1. PICK e \in entries : r \in Under(Root(e), X)
    BY <1>1
  <2>2. e \in Entry
    OBVIOUS
  <2>3. Root(e).path \in Paths /\ Root(e).id = e.id /\ Root(e).path[1] = e.name /\ e.id \in Nat
    BY <2>2, RootFacts DEF Entry
  <2>4. r \in [id : {e.id}, path : Paths, open : BOOLEAN] /\ r.path[1] = e.name
    BY <2>1, <2>3, UnderFacts
  <2> QED  BY <2>3, <2>4 DEF Row
<1>3. ASSUME NEW o \in Objects(rows')
      PROVE  o \in Object /\ \E e \in entries : e.id = o.id /\ o.path[1] = e.name
  <2>1. PICK r \in rows' : o = [id |-> r.id, path |-> r.path]
    BY DEF Objects
  <2> QED  BY <1>2, <2>1 DEF Row, Object
<1>4. ASSUME NEW e \in entries
      PROVE  Root(e) \in objects'
  BY <1>1, RootShown DEF Objects
<1>5. rows' \in SUBSET Row /\ objects' \in SUBSET Object
  BY <1>1, <1>2, <1>3
<1>6. NamedBy(entries, rows') /\ NamedBy(entries, objects')
  BY <1>1, <1>2, <1>3 DEF NamedBy, Injective
<1>7. Counted(rows', n) /\ Counted(objects', n)
  BY <1>1, <1>2, <1>3 DEF Counted
<1>8. \A r \in rows' : r.id \in Ids(entries)
  BY <1>2 DEF Ids
<1> QED  BY <1>4, <1>5, <1>6, <1>7, <1>8

\* The entries made in one update have a new number each.
LEMMA CreatedFacts ==
  ASSUME next \in Nat, NEW f \in Frames
  PROVE  /\ Created(f) \in SUBSET Entry /\ Injective(Created(f))
         /\ next + Len(Locals[f]) \in Nat /\ next <= next + Len(Locals[f])
         /\ \A e \in Created(f) : next <= e.id /\ e.id < next + Len(Locals[f])
<1>1. Locals[f] \in Seq(STRING) /\ Len(Locals[f]) \in Nat /\ DOMAIN Locals[f] = 1..Len(Locals[f])
  BY VariablesAssumption
<1> DEFINE entry(i) == [id |-> next + i - 1, name |-> Locals[f][i]]
<1>2. ASSUME NEW e \in Created(f)
      PROVE  \E i \in 1..Len(Locals[f]) : e = entry(i) /\ Locals[f][i] \in Creatable
  BY <1>1 DEF Created
<1>3. \A i \in 1..Len(Locals[f]) :
        next + i - 1 \in Nat /\ next <= next + i - 1 /\ next + i - 1 < next + Len(Locals[f])
  BY <1>1
<1>4. Created(f) \subseteq Entry
  BY <1>2, <1>3 DEF Entry
<1>5. \A i, j \in 1..Len(Locals[f]) : entry(i).id = entry(j).id => i = j
  BY <1>1
<1>6. Injective(Created(f))
  BY <1>2, <1>5 DEF Injective
<1>7. \A e \in Created(f) : next <= e.id /\ e.id < next + Len(Locals[f])
  BY <1>2, <1>3
<1> QED  BY <1>1, <1>4, <1>6, <1>7
-----------------------------------------------------------------------------
(* The inductive invariant.                                                *)

\* The part the GUI thread's flags and the queue make up.
ControlOK ==
  /\ prog \in Programs /\ frame \in Frames
  /\ target \in {"stopped", "other"} /\ stack \in BOOLEAN
  /\ events \in Seq(Events) /\ hung \in BOOLEAN

PanelOK ==
  /\ objects \in SUBSET Object /\ list \in SUBSET Entry /\ rows \in SUBSET Row
  /\ next \in Nat /\ opened \in SUBSET Paths

AllOrNone == \/ \A e \in list : Root(e) \in objects
             \/ \A e \in list : Root(e) \notin objects

\* The rows are those of the list, or the list is empty.
RowsListed == list # {} => \A r \in rows : r.id \in Ids(list)

NumbersInv ==
  /\ Injective(list)
  /\ NamedBy(list, objects) /\ NamedBy(list, rows)
  /\ Counted(list, next) /\ Counted(objects, next) /\ Counted(rows, next)

PanelInv == PanelOK /\ NumbersInv /\ AllOrNone /\ RowsListed

\* Emptying the panel or gdb and leaving the rest disturbs none of it.
LEMMA KeptStep ==
  ASSUME PanelInv, list' = list, next' = next, opened' = opened,
         rows' = rows \/ rows' = {}, objects' = objects \/ objects' = {}
  PROVE  PanelInv'
<1>1. PanelOK' /\ RowsListed'
  BY DEF PanelInv, PanelOK, RowsListed, Ids
<1>2. NumbersInv'
  BY DEF PanelInv, NumbersInv, Injective, NamedBy, Counted
<1>3. AllOrNone'
  BY DEF PanelInv, AllOrNone, Root
<1> QED  BY <1>1, <1>2, <1>3 DEF PanelInv

\* What -var-delete leaves is of what there was.
LEMMA ChildlessFacts ==
  ASSUME NEW ids
  PROVE  Childless(ids) \subseteq objects
BY DEF Childless

\* Filling the list and the panel anew keeps the invariant: the new numbers
\* are beyond those of all that gdb keeps.
LEMMA FillStep ==
  ASSUME PanelInv, NEW entries \in SUBSET Entry, Injective(entries),
         NEW kept, kept \subseteq objects, Fill(entries, kept),
         next' \in Nat, next <= next', \A e \in entries : next <= e.id /\ e.id < next'
  PROVE  PanelInv'
<1>1. list' = entries /\ opened' = opened /\ next \in Nat
  BY DEF Fill, PanelInv, PanelOK
<1>2. /\ objects \in SUBSET Object /\ rows \in SUBSET Row /\ kept \in SUBSET Object
      /\ \A o \in objects : o.id \in Nat /\ o.id < next
      /\ \A r \in rows : r.id \in Nat /\ r.id < next
      /\ \A e \in entries : e.id \in Nat
  BY DEF PanelInv, PanelOK, NumbersInv, Counted, Object, Row, Entry
<1>3. Counted(entries, next') /\ Counted(kept, next') /\ Counted(rows, next')
  BY <1>1, <1>2 DEF Counted
<1>4. CASE entries = {}
  <2>1. objects' = kept /\ rows' = rows
    BY <1>4 DEF Fill
  <2>2. PanelOK' /\ AllOrNone' /\ RowsListed'
    BY <1>1, <1>2, <1>4, <2>1 DEF PanelInv, PanelOK, AllOrNone, RowsListed
  <2>3. NumbersInv'
    BY <1>1, <1>3, <1>4, <2>1 DEF NumbersInv, Injective, NamedBy, Counted
  <2> QED  BY <2>2, <2>3 DEF PanelInv
<1>5. CASE entries # {}
  <2>1. Refill(entries, opened, kept)
    BY <1>5 DEF Fill
  <2>2. NamedBy(entries, kept)
    BY <1>1, <1>2 DEF NamedBy
  <2>3. /\ rows' \in SUBSET Row /\ objects' \in SUBSET Object
        /\ NamedBy(entries, objects') /\ NamedBy(entries, rows')
        /\ Counted(objects', next') /\ Counted(rows', next')
        /\ \A e \in entries : Root(e) \in objects'
        /\ \A r \in rows' : r.id \in Ids(entries)
    BY <1>2, <1>3, <2>1, <2>2, RefillFacts
  <2>4. PanelOK'
    BY <1>1, <2>3 DEF PanelInv, PanelOK
  <2>5. NumbersInv'
    BY <1>1, <1>3, <2>3 DEF NumbersInv, Injective, NamedBy, Counted
  <2>6. AllOrNone' /\ RowsListed'
    BY <1>1, <2>3 DEF AllOrNone, Root, RowsListed, Ids
  <2> QED  BY <2>4, <2>5, <2>6 DEF PanelInv
<1> QED  BY <1>4, <1>5

\* updateLocalVariables keeps the invariant.
LEMMA UpdateStep ==
  ASSUME PanelInv, frame \in Frames, UpdateLocalVariables
  PROVE  PanelInv'
<1>0. next \in Nat /\ Childless(Ids(list)) \subseteq objects
  BY ChildlessFacts DEF PanelInv, PanelOK
<1>1. CASE ~ Alive
  BY <1>1, KeptStep DEF UpdateLocalVariables, Hang, panelVars
<1>2. CASE Alive /\ HasFrame
  <2>1. Fill(Created(frame), Childless(Ids(list))) /\ next' = next + Len(Locals[frame])
    BY <1>2 DEF UpdateLocalVariables
  <2> QED  BY <1>0, <2>1, CreatedFacts, FillStep
<1>3. CASE Alive /\ ~ HasFrame
  <2>1. Fill({}, Childless(Ids(list))) /\ next' = next
    BY <1>3 DEF UpdateLocalVariables
  <2>2. {} \in SUBSET Entry /\ Injective({}) /\ next' \in Nat /\ next <= next'
    BY <1>0, <2>1 DEF Injective
  <2> QED  BY <1>0, <2>1, <2>2, FillStep
<1> QED  BY <1>1, <1>2, <1>3

\* So does opening a row,
LEMMA ExpandStep ==
  ASSUME PanelInv, NEW row \in rows, Expand(row)
  PROVE  PanelInv'
<1> DEFINE object == [id |-> row.id, path |-> row.path]
           shown == IF object \in objects THEN Under(object, opened')
                                          ELSE {[row EXCEPT !.open = TRUE]}
<1>1. list' = list /\ next' = next /\ opened' \in SUBSET Paths /\ row \in Row /\ row.path \in Paths
  BY DEF Expand, PanelInv, PanelOK, Row
<1>2. CASE ~ Alive
  <2>1. UNCHANGED <<rows, objects>>
    BY <1>2 DEF Expand
  <2> QED
    BY <1>1, <2>1 DEF PanelInv, PanelOK, NumbersInv, Injective, NamedBy, Counted,
                      RowsListed, AllOrNone, Root, Ids
<1>3. CASE Alive
  <2>1. /\ rows' = (rows \ {row}) \union shown
        /\ objects' = IF object \in objects THEN objects \union Objects(shown) ELSE objects
    BY <1>3 DEF Expand
  <2>2. ASSUME NEW r \in shown
        PROVE  /\ r \in Row /\ r.id = row.id /\ r.path[1] = row.path[1]
               /\ object \in objects => IsPrefix(row.path, r.path)
    <3>1. CASE object \in objects
      <4>1. object.path = row.path /\ object.id = row.id /\ r \in Under(object, opened')
        BY <3>1
      <4> HIDE DEF object
      <4>2. /\ r \in [id : {row.id}, path : Paths, open : BOOLEAN]
            /\ r.path[1] = row.path[1] /\ IsPrefix(row.path, r.path)
        BY <1>1, <4>1, UnderFacts
      <4> QED  BY <1>1, <4>2 DEF Row
    <3>2. CASE object \notin objects
      BY <1>1, <3>2 DEF Row
    <3> QED  BY <3>1, <3>2
  <2>3. ASSUME NEW o \in objects', o \notin objects
        PROVE  /\ object \in objects /\ o \in Object /\ o.id = row.id
               /\ o.path[1] = row.path[1] /\ IsPrefix(row.path, o.path)
    <3>1. object \in objects /\ o \in Objects(shown)
      BY <2>1, <2>3
    <3> HIDE DEF shown, object
    <3>2. PICK r \in shown : o = [id |-> r.id, path |-> r.path]
      BY <3>1 DEF Objects
    <3> QED  BY <2>2, <3>1, <3>2 DEF Row, Object
  <2> HIDE DEF shown
  <2>4. rows' \in SUBSET Row /\ objects' \in SUBSET Object /\ objects \subseteq objects'
    BY <2>1, <2>2, <2>3 DEF PanelInv, PanelOK
  <2>5. PanelOK'
    BY <1>1, <2>4 DEF PanelInv, PanelOK
  <2>6. NamedBy(list, objects)' /\ Counted(objects, next)'
    <3>1. ASSUME NEW o \in objects', o \notin objects
          PROVE  o.id = row.id /\ o.path[1] = row.path[1]
      BY <2>3, <3>1
    <3> QED  BY <1>1, <3>1 DEF PanelInv, NumbersInv, NamedBy, Counted
  <2>7. NamedBy(list, rows)' /\ Counted(rows, next)' /\ RowsListed'
    BY <1>1, <2>1, <2>2 DEF PanelInv, NumbersInv, NamedBy, Counted, RowsListed, Ids
  <2>8. ASSUME NEW e \in list
        PROVE  Root(e) \in objects' <=> Root(e) \in objects
    <3>1. SUFFICES ASSUME Root(e) \in objects', Root(e) \notin objects
                   PROVE  FALSE
      BY <2>4
    <3>2. e \in Entry /\ Root(e).path = <<e.name>> /\ Root(e).id = e.id /\ <<e.name>> \in Paths
      BY RootFacts DEF PanelInv, PanelOK
    <3>3. object \in objects /\ e.id = row.id /\ IsPrefix(row.path, <<e.name>>)
      BY <2>3, <3>1, <3>2
    <3>4. row.path = <<e.name>>
      <4>1. row.path \in Seq(STRING) /\ row.path # <<>> /\ <<e.name>> \in Seq(STRING)
        BY <1>1, <3>2, VariablesAssumption
      <4>2. Len(row.path) <= 1 /\ SubSeq(row.path, 1, Len(row.path)) = SubSeq(<<e.name>>, 1, Len(row.path))
        BY <3>3 DEF IsPrefix
      <4>3. Len(row.path) = 1
        BY <4>1, <4>2
      <4> QED  BY <4>1, <4>2, <4>3
    <3>5. Root(e) = object
      BY <3>3, <3>4 DEF Root
    <3> QED  BY <3>1, <3>3, <3>5
  <2>9. AllOrNone'
    BY <1>1, <2>8 DEF PanelInv, AllOrNone, Root
  <2>10. Injective(list)' /\ Counted(list, next)'
    BY <1>1 DEF PanelInv, NumbersInv, Injective, Counted
  <2> QED  BY <2>5, <2>6, <2>7, <2>9, <2>10 DEF PanelInv, NumbersInv
<1> QED  BY <1>2, <1>3

\* closing one,
LEMMA CollapseStep ==
  ASSUME PanelInv, NEW row \in rows, Collapse(row)
  PROVE  PanelInv'
<1> DEFINE found == row.id \in Ids(list) /\ Len(row.path) = 1
           before == IF found THEN Childless({row.id}) ELSE objects
<1>1. list' = list /\ next' = next /\ opened' \in SUBSET Paths
  BY DEF Collapse, PanelInv, PanelOK
<1>2. /\ list \in SUBSET Entry /\ Injective(list) /\ Counted(list, next)
      /\ Injective(list)' /\ Counted(list, next)'
  BY <1>1 DEF PanelInv, PanelOK, NumbersInv, Injective, Counted
<1>3. CASE Alive
  <2>1. Refill(list, opened', before)
    BY <1>3 DEF Collapse
  <2>2. before \subseteq objects
    BY ChildlessFacts
  <2> HIDE DEF before
  <2>3. before \in SUBSET Object /\ NamedBy(list, before) /\ Counted(before, next)
    BY <2>2 DEF PanelInv, PanelOK, NumbersInv, NamedBy, Counted
  <2>4. /\ rows' \in SUBSET Row /\ objects' \in SUBSET Object
        /\ NamedBy(list, objects') /\ NamedBy(list, rows')
        /\ Counted(objects', next) /\ Counted(rows', next)
        /\ \A e \in list : Root(e) \in objects'
        /\ \A r \in rows' : r.id \in Ids(list)
    BY <1>2, <2>1, <2>3, RefillFacts
  <2>5. PanelOK'
    BY <1>1, <2>4 DEF PanelInv, PanelOK
  <2>6. NumbersInv'
    BY <1>1, <1>2, <2>4 DEF NumbersInv, NamedBy, Counted
  <2>7. AllOrNone' /\ RowsListed'
    BY <1>1, <2>4 DEF AllOrNone, Root, RowsListed, Ids
  <2> QED  BY <2>5, <2>6, <2>7 DEF PanelInv
<1>4. CASE ~ Alive
  <2>1. /\ objects' = objects
        /\ rows' = rows \/ rows' = UNION {Under(Root(e), opened') : e \in list}
    BY <1>4 DEF Collapse
  <2>2. CASE rows' = rows
    BY <1>1, <2>1, <2>2 DEF PanelInv, PanelOK, NumbersInv, Injective, NamedBy, Counted,
                            RowsListed, AllOrNone, Root, Ids
  <2>3. CASE rows' = UNION {Under(Root(e), opened') : e \in list}
    <3>1. ASSUME NEW r \in rows'
          PROVE  r \in Row /\ \E e \in list : e.id = r.id /\ r.path[1] = e.name
      <4>1. PICK e \in list : r \in Under(Root(e), opened')
        BY <2>3
      <4>2. /\ Root(e).path \in Paths /\ Root(e).id = e.id /\ Root(e).path[1] = e.name
            /\ e.id \in Nat
        BY <1>2, RootFacts DEF Entry
      <4>3. r \in [id : {e.id}, path : Paths, open : BOOLEAN] /\ r.path[1] = e.name
        BY <4>1, <4>2, UnderFacts
      <4> QED  BY <4>2, <4>3 DEF Row
    <3>2. PanelOK' /\ AllOrNone'
      BY <1>1, <2>1, <3>1 DEF PanelInv, PanelOK, AllOrNone, Root
    <3>3. NamedBy(list, objects)' /\ Counted(objects, next)'
      BY <1>1, <2>1 DEF PanelInv, NumbersInv, NamedBy, Counted
    <3>4. NamedBy(list, rows)' /\ Counted(rows, next)' /\ RowsListed'
      BY <1>1, <1>2, <3>1 DEF NamedBy, Counted, Injective, RowsListed, Ids
    <3> QED  BY <1>2, <3>2, <3>3, <3>4 DEF PanelInv, NumbersInv
  <2> QED  BY <2>1, <2>2, <2>3
<1> QED  BY <1>3, <1>4

\* and selecting a frame.
LEMMA SelectStep ==
  ASSUME PanelInv, NEW f \in Frames, frame \in Frames, SelectFrame(f)
  PROVE  PanelInv'
<1>0. next \in Nat /\ Childless(Ids(list)) \subseteq objects
  BY ChildlessFacts DEF PanelInv, PanelOK
<1>1. CASE HasFrame
  <2>1. Fill(Created(f), Childless(Ids(list))) /\ next' = next + Len(Locals[f])
    BY <1>1 DEF SelectFrame
  <2> QED  BY <1>0, <2>1, CreatedFacts, FillStep
<1>2. CASE ~ HasFrame
  BY <1>2, UpdateStep DEF SelectFrame
<1> QED  BY <1>1, <1>2

\* A core dump: the objects are made and the panel is cleared.
LEMMA OpenCoreStep ==
  ASSUME PanelInv, OpenCore
  PROVE  PanelInv'
<1> DEFINE made == Created(frame')
<1>1. /\ frame' \in Frames /\ list' = made /\ next' = next + Len(Locals[frame'])
      /\ objects' = Objects(UNION {Under(Root(e), opened) : e \in made})
      /\ rows' = {} /\ opened' = opened
  BY DEF OpenCore
<1>2. next \in Nat
  BY DEF PanelInv, PanelOK
<1>3. /\ made \in SUBSET Entry /\ Injective(made) /\ next' \in Nat
      /\ \A e \in made : e.id < next'
  BY <1>1, <1>2, CreatedFacts
<1> HIDE DEF made
<1>4. ASSUME NEW r \in UNION {Under(Root(e), opened) : e \in made}
      PROVE  \E e \in made : /\ e.id = r.id /\ r.path[1] = e.name
                             /\ r.id \in Nat /\ r.path \in Paths
  <2>1. PICK e \in made : r \in Under(Root(e), opened)
    OBVIOUS
  <2>2. /\ Root(e).path \in Paths /\ Root(e).id = e.id /\ Root(e).path[1] = e.name
        /\ e.id \in Nat
    BY <1>3, RootFacts DEF Entry
  <2> QED  BY <2>1, <2>2, UnderFacts
<1>5. ASSUME NEW o \in objects'
      PROVE  o \in Object /\ \E e \in made : e.id = o.id /\ o.path[1] = e.name
  <2>1. PICK r \in UNION {Under(Root(e), opened) : e \in made} : o = [id |-> r.id, path |-> r.path]
    BY <1>1 DEF Objects
  <2> QED  BY <1>4, <2>1 DEF Object
<1>6. AllOrNone' /\ RowsListed'
  <2>1. \A e \in made : Root(e) \in objects'
    BY <1>1, <1>3, RootShown DEF Objects
  <2> QED  BY <1>1, <2>1 DEF AllOrNone, Root, RowsListed
<1>7. PanelOK'
  BY <1>1, <1>3, <1>5 DEF PanelInv, PanelOK
<1>8. NumbersInv'
  BY <1>1, <1>3, <1>5 DEF NumbersInv, Injective, NamedBy, Counted
<1> QED  BY <1>6, <1>7, <1>8 DEF PanelInv
-----------------------------------------------------------------------------
\* The flags and the queue keep their types.
LEMMA ControlStep ==
  ASSUME ControlOK, Next
  PROVE  ControlOK'
<1>1. /\ prog \in Programs /\ frame \in Frames /\ stack \in BOOLEAN
      /\ events \in Seq(Events) /\ hung \in BOOLEAN /\ target \in {"stopped", "other"}
  BY DEF ControlOK
<1>2. Alive \in BOOLEAN /\ HasFrame \in BOOLEAN
  BY DEF Alive, HasFrame
<1>3. /\ \A e \in Events : Append(events, e) \in Seq(Events) /\ <<e>> \in Seq(Events)
      /\ \A e \in Events, k \in 0..Len(events) : Append(SubSeq(events, 1, k), e) \in Seq(Events)
      /\ events # <<>> => Tail(events) \in Seq(Events)
      /\ \A e \in Events : events # <<>> => Append(Tail(events), e) \in Seq(Events)
  <2>1. ASSUME NEW k \in 0..Len(events)
        PROVE  SubSeq(events, 1, k) \in Seq(Events)
    BY <1>1, SubSeqProperties
  <2> QED  BY <1>1, <2>1
<1>4. {"running", "hit", "signal", "exit", "terminated", "ended"} \subseteq Events
  BY DEF Events
<1>5. CASE OpenSession
  BY <1>1, <1>3, <1>4, <1>5 DEF OpenSession, ControlOK, Programs
<1>6. CASE OpenCore
  BY <1>1, <1>6 DEF OpenCore, ControlOK, Programs
<1>7. CASE CloseSession
  BY <1>1, <1>3, <1>4, <1>7 DEF CloseSession, ControlOK, Programs
<1>8. CASE Run \/ Execute
  BY <1>1, <1>3, <1>4, <1>8 DEF Run, Execute, ControlOK, Programs
<1>9. ASSUME NEW f \in Frames, SelectFrame(f)
      PROVE  ControlOK'
  <2>1. hung' \in BOOLEAN /\ frame' \in Frames
    BY <1>1, <1>9 DEF SelectFrame, UpdateLocalVariables, Fill, Hang
  <2> QED  BY <1>1, <1>9, <2>1 DEF SelectFrame, ControlOK
<1>10. ASSUME NEW row \in rows, Expand(row) \/ Collapse(row)
       PROVE  ControlOK'
  <2>1. hung' \in BOOLEAN
    BY <1>1, <1>10 DEF Expand, Collapse
  <2> QED  BY <1>1, <1>10, <2>1 DEF Expand, Collapse, ControlOK
<1>11. CASE HandleRunning \/ HandleTerminated \/ HandleEnded
  BY <1>1, <1>3, <1>4, <1>11
     DEF HandleRunning, HandleTerminated, HandleEnded, Take, ControlOK
<1>12. CASE HandleStop \/ HandleSignal
  <2>1. hung' \in BOOLEAN
    BY <1>1, <1>12 DEF HandleStop, HandleSignal, UpdateLocalVariables, Fill, Hang
  <2>2. stack' \in BOOLEAN
    BY <1>1, <1>2, <1>12 DEF HandleStop, HandleSignal
  <2> QED  BY <1>1, <1>3, <1>12, <2>1, <2>2 DEF HandleStop, HandleSignal, Take, ControlOK
<1>13. CASE Stop \/ Die
  BY <1>1, <1>3, <1>4, <1>13 DEF Stop, Die, ControlOK, Programs
<1> QED
  BY <1>5, <1>6, <1>7, <1>8, <1>9, <1>10, <1>11, <1>12, <1>13 DEF Next, User, HandleEvent

\* Every step keeps the invariant of list, panel and objects.
LEMMA PanelStep ==
  ASSUME ControlOK, PanelInv, Next
  PROVE  PanelInv'
<1>1. frame \in Frames
  BY DEF ControlOK
<1>2. CASE OpenSession \/ Run
  BY <1>2, KeptStep DEF OpenSession, Run, ClearWidget
<1>3. CASE OpenCore
  BY <1>3, OpenCoreStep
<1>4. CASE CloseSession
  BY <1>4, KeptStep DEF CloseSession, ClearWidget
<1>5. CASE Execute \/ Stop \/ Die
  BY <1>5, KeptStep DEF Execute, Stop, Die, panelVars
<1>6. ASSUME NEW f \in Frames, SelectFrame(f)
      PROVE  PanelInv'
  BY <1>1, <1>6, SelectStep
<1>7. ASSUME NEW row \in rows, Expand(row) \/ Collapse(row)
      PROVE  PanelInv'
  BY <1>7, ExpandStep, CollapseStep
<1>8. CASE HandleRunning \/ HandleEnded \/ HandleTerminated
  BY <1>8, KeptStep DEF HandleRunning, HandleEnded, HandleTerminated, ClearWidget, panelVars
<1>9. CASE HandleStop
  BY <1>1, <1>9, UpdateStep DEF HandleStop
<1>10. CASE HandleSignal
  BY <1>10, KeptStep DEF HandleSignal, Hang, panelVars
<1> QED
  BY <1>2, <1>3, <1>4, <1>5, <1>6, <1>7, <1>8, <1>9, <1>10 DEF Next, User, HandleEvent

Inv == ControlOK /\ PanelInv

\* The invariant from which the theorems below follow: whatever objects gdb
\* keeps of earlier stops, they are numbered below the counter, one that has
\* a number of the list is of that entry's variable, the list is of one gdb,
\* and the rows are those of the list unless it is empty.
THEOREM InvCorrect == Spec => []Inv
<1>1. Init => Inv
  <2>1. SUFFICES ASSUME Init
                 PROVE  Inv
    OBVIOUS
  <2>2. ControlOK
    <3>1. <<>> \in Seq(Events)
      OBVIOUS
    <3>2. stack \in BOOLEAN /\ hung \in BOOLEAN
      BY <2>1 DEF Init
    <3> QED  BY <2>1, <3>1, <3>2 DEF Init, ControlOK, Programs
  <2>3. PanelInv
    BY <2>1 DEF Init, PanelInv, PanelOK, NumbersInv, Injective, NamedBy, Counted,
                RowsListed, AllOrNone
  <2> QED  BY <2>2, <2>3 DEF Inv
<1>2. Inv /\ [Next]_vars => Inv'
  <2>1. SUFFICES ASSUME Inv, [Next]_vars
                 PROVE  Inv'
    OBVIOUS
  <2>2. CASE Next
    BY <2>1, <2>2, ControlStep, PanelStep DEF Inv
  <2>3. CASE UNCHANGED vars
    <3>1. ControlOK'
      BY <2>1, <2>3 DEF Inv, ControlOK, vars, gdbVars
    <3>2. PanelInv'
      BY <2>1, <2>3, KeptStep DEF Inv, vars, gdbVars, panelVars
    <3> QED  BY <3>1, <3>2 DEF Inv
  <2> QED  BY <2>1, <2>2, <2>3
<1> QED  BY <1>1, <1>2, PTL DEF Spec

\* Every variable has its type, the ids and the queue unbounded.
THEOREM TypeCorrect == Spec => []TypeOK
<1>1. Inv => TypeOK
  BY DEF Inv, ControlOK, PanelInv, PanelOK, TypeOK
<1> QED  BY <1>1, InvCorrect, PTL

\* The numbers of what is made for rows are those of the rows:
LEMMA ObjectsIds ==
  ASSUME NEW entries \in SUBSET Entry, NEW X,
         NEW o \in Objects(UNION {Under(Root(e), X) : e \in entries})
  PROVE  o.id \in Ids(entries)
<1>1. PICK r \in UNION {Under(Root(e), X) : e \in entries} : o = [id |-> r.id, path |-> r.path]
  BY DEF Objects
<1>2. PICK e \in entries : r \in Under(Root(e), X)
  BY <1>1
<1>3. Root(e).path \in Paths /\ Root(e).id = e.id
  BY RootFacts
<1>4. r.id = e.id
  BY <1>2, <1>3, UnderFacts
<1> QED  BY <1>1, <1>4 DEF Ids

\* refilling the panel,
LEMMA RefillIds ==
  ASSUME NEW entries \in SUBSET Entry, NEW X, NEW before, Refill(entries, X, before)
  PROVE  \A o \in objects' : o \in before \/ o.id \in Ids(entries)
<1>1. objects' = before \union Objects(UNION {Under(Root(e), X) : e \in entries})
  BY DEF Refill
<1> QED  BY <1>1, ObjectsIds

\* and expanding a row.
LEMMA ExpandIds ==
  ASSUME Inv, NEW row \in rows, Expand(row)
  PROVE  \A o \in objects' : o \in objects \/ o.id = row.id
<1> DEFINE object == [id |-> row.id, path |-> row.path]
<1>1. row.path \in Paths /\ object.path = row.path /\ object.id = row.id
  BY DEF Inv, PanelInv, PanelOK, Row
<1>2. CASE objects' = objects
  BY <1>2
<1>3. CASE objects' = objects \union Objects(Under(object, opened'))
  <2> HIDE DEF object
  <2> SUFFICES ASSUME NEW o \in Objects(Under(object, opened'))
               PROVE  o.id = row.id
    BY <1>3
  <2>1. PICK r \in Under(object, opened') : o = [id |-> r.id, path |-> r.path]
    BY DEF Objects
  <2>2. r.id = row.id
    BY <1>1, UnderFacts
  <2> QED  BY <2>1, <2>2
<1> QED  BY <1>2, <1>3 DEF Expand

\* Filling leaves no member that the list, the old one, knows.
LEMMA FillMembers ==
  ASSUME NEW entries \in SUBSET Entry, Fill(entries, Childless(Ids(list)))
  PROVE  \A o \in objects' : IsMember(o) /\ o.id \notin Ids(list')
                             => o \in objects /\ o.id \notin Ids(list)
<1>1. ASSUME NEW o \in Childless(Ids(list)), IsMember(o)
      PROVE  o \in objects /\ o.id \notin Ids(list)
  BY <1>1 DEF Childless
<1>2. CASE entries = {}
  BY <1>1, <1>2 DEF Fill
<1>3. CASE entries # {}
  <2>1. Refill(entries, opened, Childless(Ids(list))) /\ list' = entries
    BY <1>3 DEF Fill
  <2>2. \A o \in objects' : o \in Childless(Ids(list)) \/ o.id \in Ids(entries)
    BY <2>1, RefillIds
  <2> QED  BY <1>1, <2>1, <2>2
<1> QED  BY <1>2, <1>3

\* No step makes a member's object that the list does not know, or drops
\* from the list one whose members are there, but with an empty list.
LEMMA MemberStep ==
  ASSUME Inv, [Next]_vars
  PROVE  \A o \in objects' :
           IsMember(o) /\ o.id \notin Ids(list') =>
             \/ o \in objects /\ o.id \notin Ids(list)
             \/ list = {} /\ list' = {}
<1>0. list \in SUBSET Entry /\ next \in Nat /\ frame \in Frames /\ RowsListed
  BY DEF Inv, PanelInv, PanelOK, ControlOK
<1>1. CASE objects' \subseteq objects /\ list' = list
  BY <1>1
<1>2. CASE OpenSession \/ CloseSession \/ Run \/ Execute \/ Stop \/ Die
  BY <1>1, <1>2 DEF OpenSession, CloseSession, Run, Execute, Stop, Die, ClearWidget, panelVars
<1>3. CASE OpenCore
  <2>1. /\ list' = Created(frame') /\ frame' \in Frames
        /\ objects' = Objects(UNION {Under(Root(e), opened) : e \in list'})
    BY <1>3 DEF OpenCore
  <2>2. list' \in SUBSET Entry
    BY <1>0, <2>1, CreatedFacts
  <2>3. \A o \in objects' : o.id \in Ids(list')
    BY <2>1, <2>2, ObjectsIds
  <2> QED  BY <2>3
<1>4. ASSUME UpdateLocalVariables
      PROVE  \A o \in objects' : IsMember(o) /\ o.id \notin Ids(list') =>
               o \in objects /\ o.id \notin Ids(list)
  <2>1. CASE ~ Alive
    BY <1>4, <2>1 DEF UpdateLocalVariables, Hang, panelVars
  <2>2. CASE Alive
    <3>1. \E entries \in SUBSET Entry : Fill(entries, Childless(Ids(list)))
      <4>1. Created(frame) \in SUBSET Entry /\ {} \in SUBSET Entry
        BY <1>0, CreatedFacts
      <4> QED  BY <1>4, <2>2, <4>1 DEF UpdateLocalVariables
    <3> QED  BY <3>1, FillMembers
  <2> QED  BY <2>1, <2>2
<1>5. ASSUME NEW f \in Frames, SelectFrame(f)
      PROVE  \A o \in objects' : IsMember(o) /\ o.id \notin Ids(list') =>
               o \in objects /\ o.id \notin Ids(list)
  <2>1. CASE HasFrame
    <3>1. Fill(Created(f), Childless(Ids(list))) /\ Created(f) \in SUBSET Entry
      BY <1>0, <1>5, <2>1, CreatedFacts DEF SelectFrame
    <3> QED  BY <3>1, FillMembers
  <2>2. CASE ~ HasFrame
    BY <1>4, <1>5, <2>2 DEF SelectFrame
  <2> QED  BY <2>1, <2>2
<1>6. ASSUME NEW row \in rows, Expand(row)
      PROVE  \A o \in objects' : IsMember(o) /\ o.id \notin Ids(list') =>
               \/ o \in objects /\ o.id \notin Ids(list)
               \/ list = {} /\ list' = {}
  <2>1. list' = list
    BY <1>6 DEF Expand
  <2>2. \A o \in objects' : o \in objects \/ o.id = row.id
    BY <1>6, ExpandIds
  <2>3. list # {} => row.id \in Ids(list)
    BY <1>0 DEF RowsListed
  <2> QED  BY <2>1, <2>2, <2>3
<1>7. ASSUME NEW row \in rows, Collapse(row)
      PROVE  \A o \in objects' : IsMember(o) /\ o.id \notin Ids(list') =>
               o \in objects /\ o.id \notin Ids(list)
  <2>1. list' = list
    BY <1>7 DEF Collapse
  <2>2. CASE ~ Alive
    BY <1>7, <2>1, <2>2 DEF Collapse
  <2>3. CASE Alive
    <3>1. \E X, before : before \subseteq objects /\ Refill(list, X, before)
      <4>1. Childless({row.id}) \subseteq objects
        BY ChildlessFacts
      <4> DEFINE before == IF row.id \in Ids(list) /\ Len(row.path) = 1
                             THEN Childless({row.id}) ELSE objects
      <4>2. before \subseteq objects /\ Refill(list, opened', before)
        BY <1>7, <2>3, <4>1 DEF Collapse
      <4> HIDE DEF before
      <4> QED  BY <4>2
    <3>2. \A o \in objects' : o \in objects \/ o.id \in Ids(list)
      BY <1>0, <3>1, RefillIds
    <3> QED  BY <2>1, <3>2
  <2> QED  BY <2>2, <2>3
<1>8. CASE HandleRunning \/ HandleSignal \/ HandleTerminated \/ HandleEnded
  BY <1>1, <1>8
     DEF HandleRunning, HandleSignal, HandleTerminated, HandleEnded, Hang, ClearWidget, panelVars
<1>9. CASE HandleStop
  BY <1>4, <1>9 DEF HandleStop
<1>10. CASE UNCHANGED vars
  BY <1>1, <1>10 DEF vars, gdbVars, panelVars
<1> QED
  BY <1>2, <1>3, <1>5, <1>6, <1>7, <1>8, <1>9, <1>10 DEF Next, User, HandleEvent

\* updateLocalVariables, by the list, reaches every member's object there is
\* but those of rows shown while the list is empty; the variables' own it
\* leaves in gdb, for it asks for the members only.
THEOREM NoLeak == Spec => NoMemberLeft
<1>1. Inv /\ [Next]_vars =>
        [\A o \in objects' :
           IsMember(o) /\ o.id \notin Ids(list') =>
             \/ o \in objects /\ o.id \notin Ids(list)
             \/ list = {} /\ list' = {}]_vars
  BY MemberStep
<1> QED  BY <1>1, InvCorrect, PTL DEF Spec, NoMemberLeft

\* A number is never used for two variables, though gdb keeps the objects of
\* all stops, and whatever session the list and the rows are of.
THEOREM NumbersUnique == Spec => []OneMeaning
<1>1. Inv => OneMeaning
  BY DEF Inv, PanelInv, NumbersInv, Injective, NamedBy, OneMeaning
<1> QED  BY <1>1, InvCorrect, PTL

\* The list never mixes what gdb has with what an earlier gdb had.
THEOREM ListWhole == Spec => []ListOfOneGdb
<1>1. Inv => ListOfOneGdb
  BY DEF Inv, PanelInv, AllOrNone, ListOfOneGdb
<1> QED  BY <1>1, InvCorrect, PTL
-----------------------------------------------------------------------------
(* The members shown.                                                      *)

\* Without a gdb there is no object.
MembersInv == MembersLive /\ (~ Alive => objects = {})

Stem(r) == [id |-> r.id, path |-> SubSeq(r.path, 1, 1)]
Member(r) == [id |-> r.id, path |-> r.path]

\* What Refill shows gdb has.
LEMMA RefillLive ==
  ASSUME NEW entries, NEW X, NEW before, Refill(entries, X, before)
  PROVE  MembersLive'
<1>1. \A r \in rows' : [id |-> r.id, path |-> r.path] \in objects'
  BY DEF Refill, Objects
<1> QED  BY <1>1 DEF MembersLive

\* Nothing is in the list, or what is shown was just made.
LEMMA FillLive ==
  ASSUME NEW entries, NEW kept, Fill(entries, kept)
  PROVE  MembersLive'
<1>1. CASE entries = {}
  BY <1>1 DEF Fill, MembersLive, Ids
<1>2. CASE entries # {}
  BY <1>2, RefillLive DEF Fill
<1> QED  BY <1>1, <1>2

\* After updateLocalVariables gdb has the members that are shown.
LEMMA UpdateLive ==
  ASSUME MembersInv, UpdateLocalVariables
  PROVE  MembersLive'
<1>1. CASE Alive
  BY <1>1, FillLive DEF UpdateLocalVariables, MembersInv
<1>2. CASE ~ Alive
  BY <1>2 DEF UpdateLocalVariables, Hang, panelVars, MembersInv, MembersLive, Ids
<1> QED  BY <1>1, <1>2

\* Expanding makes objects of members, and only under an object gdb has.
LEMMA ExpandLive ==
  ASSUME PanelInv, MembersInv, NEW row \in rows, Expand(row)
  PROVE  MembersLive'
<1> DEFINE object == Member(row)
           shown == IF object \in objects THEN Under(object, opened')
                                          ELSE {[row EXCEPT !.open = TRUE]}
<1>1. row \in Row /\ row.path \in Paths /\ rows \in SUBSET Row
  BY DEF PanelInv, PanelOK, Row
<1>2. CASE ~ Alive
  BY <1>2 DEF Expand, MembersInv, MembersLive
<1>3. CASE Alive
  <2>1. /\ rows' = (rows \ {row}) \union shown
        /\ objects' = IF object \in objects THEN objects \union Objects(shown) ELSE objects
    BY <1>3 DEF Expand, Member
  <2>2. CASE object \notin objects
    <3>1. \A r \in rows' : \E q \in rows : q.id = r.id /\ q.path = r.path
      BY <1>1, <2>1, <2>2 DEF Row
    <3>2. objects' = objects /\ Ids(list') = Ids(list)
      BY <2>1, <2>2 DEF Expand
    <3> QED  BY <3>1, <3>2 DEF MembersInv, MembersLive
  <2>3. CASE object \in objects
    <3>1. object.path = row.path /\ object.id = row.id
      BY DEF Member
    <3>2. shown = Under(object, opened') /\ objects' = objects \union Objects(shown)
      BY <2>1, <2>3
    <3> HIDE DEF shown, object
    <3>3. ASSUME NEW o \in objects', Len(o.path) = 1
          PROVE  o \in objects
      <4> SUFFICES ASSUME o \in Objects(shown)
                   PROVE  o \in objects
        BY <3>2
      <4>1. PICK r \in shown : o = [id |-> r.id, path |-> r.path]
        BY DEF Objects
      <4>2. r \in [id : {row.id}, path : Paths, open : BOOLEAN] /\ IsPrefix(row.path, r.path)
        BY <1>1, <3>1, <3>2, <4>1, UnderFacts
      <4>3. o.path = r.path /\ o.id = row.id /\ r.path \in Paths
        BY <4>1, <4>2
      <4>4. row.path = r.path
        <5>1. row.path \in Seq(STRING) /\ row.path # <<>> /\ r.path \in Seq(STRING)
          BY <1>1, <4>3, VariablesAssumption
        <5>2. Len(row.path) <= 1 /\ SubSeq(row.path, 1, Len(row.path)) = SubSeq(r.path, 1, Len(row.path))
          BY <3>3, <4>2, <4>3 DEF IsPrefix
        <5>3. Len(row.path) = 1 /\ Len(r.path) = 1
          BY <3>3, <4>3, <5>1, <5>2
        <5> QED  BY <5>1, <5>2, <5>3
      <4>5. o = object
        BY <4>1, <4>3, <4>4 DEF Member, object
      <4> QED  BY <4>5, <2>3
    <3>4. ASSUME NEW r \in rows', r.id \in Ids(list'), Stem(r) \in objects'
          PROVE  Member(r) \in objects'
      <4>1. CASE r \in shown
        <5>1. Member(r) \in Objects(shown)
          BY <4>1 DEF Objects, Member
        <5> QED  BY <3>2, <5>1
      <4>2. CASE r \in rows
        <5>1. r.path \in Seq(STRING) /\ Len(r.path) \in Nat /\ Len(r.path) >= 1
          BY <1>1, <4>2, VariablesAssumption DEF Row
        <5>2. Len(SubSeq(r.path, 1, 1)) = 1
          BY <5>1
        <5>3. Stem(r) \in objects
          BY <3>3, <3>4, <5>2 DEF Stem
        <5>4. r.id \in Ids(list)
          BY <3>4 DEF Expand
        <5> QED  BY <3>2, <4>2, <5>3, <5>4 DEF MembersInv, MembersLive, Stem, Member
      <4> QED  BY <2>1, <4>1, <4>2
    <3> QED  BY <3>4 DEF MembersLive, Stem, Member
  <2> QED  BY <2>2, <2>3
<1> QED  BY <1>2, <1>3

\* Every step keeps the members shown among gdb's objects.
LEMMA MembersStep ==
  ASSUME Inv, MembersInv, [Next]_vars
  PROVE  MembersInv'
<1>0. PanelInv
  BY DEF Inv
<1>1. CASE UNCHANGED <<prog, objects, list, rows>>
  BY <1>1 DEF MembersInv, MembersLive, Alive, Ids
<1>2. ASSUME MembersLive', Alive, prog' = prog
      PROVE  MembersInv'
  BY <1>2 DEF MembersInv, Alive
<1>3. ASSUME objects' = {}
      PROVE  MembersInv'
  BY <1>3 DEF MembersInv, MembersLive
<1>4. ASSUME rows' = {}, Alive' \/ objects' = {}
      PROVE  MembersInv'
  BY <1>4 DEF MembersInv, MembersLive
<1>5. CASE OpenSession \/ OpenCore \/ Run
  BY <1>4, <1>5 DEF OpenSession, OpenCore, Run, ClearWidget, Alive
<1>6. CASE CloseSession \/ Die
  BY <1>3, <1>6 DEF CloseSession, Die
<1>7. CASE Execute \/ Stop
  <2>1. UNCHANGED <<objects, list, rows>> /\ Alive'
    BY <1>7 DEF Execute, Stop, panelVars, Alive
  <2> QED  BY <2>1 DEF MembersInv, MembersLive, Ids
<1>8. ASSUME UpdateLocalVariables, prog' = prog
      PROVE  MembersInv'
  <2>1. CASE Alive
    BY <1>2, <1>8, <2>1, UpdateLive
  <2>2. CASE ~ Alive
    BY <1>1, <1>8, <2>2 DEF UpdateLocalVariables, Hang, panelVars
  <2> QED  BY <2>1, <2>2
<1>9. ASSUME NEW f \in Frames, SelectFrame(f)
      PROVE  MembersInv'
  <2>1. CASE HasFrame
    <3>1. Fill(Created(f), Childless(Ids(list))) /\ prog' = prog /\ Alive
      BY <1>9, <2>1 DEF SelectFrame, HasFrame, Alive
    <3> QED  BY <1>2, <3>1, FillLive DEF MembersInv
  <2>2. CASE ~ HasFrame
    BY <1>8, <1>9, <2>2 DEF SelectFrame
  <2> QED  BY <2>1, <2>2
<1>10. ASSUME NEW row \in rows, Expand(row)
       PROVE  MembersInv'
  <2>1. prog' = prog /\ (~ Alive => objects' = objects)
    BY <1>10 DEF Expand
  <2> QED  BY <1>0, <1>2, <1>3, <1>10, <2>1, ExpandLive DEF MembersInv
<1>11. ASSUME NEW row \in rows, Collapse(row)
       PROVE  MembersInv'
  <2>1. CASE Alive
    <3>1. \E entries, X, before : Refill(entries, X, before)
      BY <1>11, <2>1, Zenon DEF Collapse
    <3>2. prog' = prog
      BY <1>11 DEF Collapse
    <3> QED  BY <1>2, <2>1, <3>1, <3>2, RefillLive
  <2>2. CASE ~ Alive
    <3>1. objects' = objects
      BY <1>11, <2>2 DEF Collapse
    <3> QED  BY <1>3, <2>2, <3>1 DEF MembersInv
  <2> QED  BY <2>1, <2>2
<1>12. CASE HandleRunning \/ HandleEnded
  <2>1. rows' = {} /\ prog' = prog /\ objects' = objects
    BY <1>12 DEF HandleRunning, HandleEnded, Take, ClearWidget
  <2> QED  BY <1>4, <2>1 DEF MembersInv, Alive
<1>13. CASE HandleTerminated \/ HandleSignal
  BY <1>1, <1>13 DEF HandleTerminated, HandleSignal, Take, Hang, panelVars
<1>14. CASE HandleStop
  BY <1>8, <1>14 DEF HandleStop, Take
<1>15. CASE UNCHANGED vars
  BY <1>1, <1>15 DEF vars, gdbVars, panelVars
<1> QED
  BY <1>5, <1>6, <1>7, <1>9, <1>10, <1>11, <1>12, <1>13, <1>14, <1>15 DEF Next, User, HandleEvent

\* Of a variable of the list that gdb has, the panel shows no member that gdb
\* has not: what collapsing a row deletes (gdbVarDelete with "-c") it no
\* longer shows.  Rows that a frame without variables left behind, whose
\* members gdb has lost, are of no variable of the list.
THEOREM MembersStayLive == Spec => []MembersLive
<1>1. Init => MembersInv
  BY DEF Init, MembersInv, MembersLive
<1>2. Inv /\ MembersInv /\ [Next]_vars => MembersInv'
  BY MembersStep
<1>3. MembersInv => MembersLive
  BY DEF MembersInv
<1> QED  BY <1>1, <1>2, <1>3, InvCorrect, PTL DEF Spec
-----------------------------------------------------------------------------
(* The variables shown.                                                    *)

Queued(e) == \E i \in 1..Len(events) : events[i] = e

\* What the panel shows and the list has are the variables of the frame.
ShowsFrame ==
  \/ rows = {}
  \/ Showable(frame) = {}
  \/ /\ {r.path[1] : r \in rows} = Showable(frame)
     /\ {e.name : e \in list} = Showable(frame)

\* While the program runs the panel is empty, or will be; while it is stopped
\* the panel shows the frame, or will be emptied or filled.
ShowInv ==
  /\ prog = "running" => Queued("running") \/ rows = {}
  /\ prog = "stopped" => Queued("running") \/ Queued("hit") \/ ShowsFrame

\* What is queued, once an event is queued or taken
LEMMA QueuedFacts ==
  ASSUME events \in Seq(Events)
  PROVE  /\ \A e \in Events : events' = Append(events, e) =>
              Queued(e)' /\ \A x : Queued(x) => Queued(x)'
         /\ \A x : events # <<>> /\ events' = Tail(events) /\ Queued(x) /\ Head(events) # x
              => Queued(x)'
         /\ \A x : events' = events => Queued(x)' = Queued(x)
<1>1. ASSUME NEW e \in Events, events' = Append(events, e)
      PROVE  Queued(e)' /\ \A x : Queued(x) => Queued(x)'
  <2>1. /\ Len(events') = Len(events) + 1 /\ events'[Len(events) + 1] = e
        /\ \A i \in 1..Len(events) : i \in 1..Len(events') /\ events'[i] = events[i]
        /\ Len(events) + 1 \in 1..Len(events')
    BY <1>1
  <2> QED  BY <2>1 DEF Queued
<1>2. ASSUME NEW x, events # <<>>, events' = Tail(events), Queued(x), Head(events) # x
      PROVE  Queued(x)'
  <2>1. PICK i \in 1..Len(events) : events[i] = x
    BY <1>2 DEF Queued
  <2>2. i # 1
    BY <1>2, <2>1
  <2>3. i - 1 \in 1..Len(events') /\ events'[i - 1] = x
    BY <1>2, <2>1, <2>2
  <2> QED  BY <2>3 DEF Queued
<1> QED  BY <1>1, <1>2 DEF Queued

\* The names of what Refill shows are those of the entries.
LEMMA RefillNames ==
  ASSUME NEW entries \in SUBSET Entry, NEW X, NEW before, Refill(entries, X, before)
  PROVE  {r.path[1] : r \in rows'} = {e.name : e \in entries}
<1>1. rows' = UNION {Under(Root(e), X) : e \in entries}
  BY DEF Refill
<1>2. ASSUME NEW r \in rows'
      PROVE  \E e \in entries : r.path[1] = e.name
  <2>1. PICK e \in entries : r \in Under(Root(e), X)
    BY <1>1
  <2>2. Root(e).path \in Paths /\ Root(e).path[1] = e.name
    BY RootFacts
  <2> QED  BY <2>1, <2>2, UnderFacts
<1>3. ASSUME NEW e \in entries
      PROVE  \E r \in rows' : r.path[1] = e.name
  <2>1. Root(e) \in Objects(Under(Root(e), X))
    BY RootShown
  <2>2. PICK r \in Under(Root(e), X) : Root(e) = [id |-> r.id, path |-> r.path]
    BY <2>1 DEF Objects
  <2>3. Root(e).path[1] = e.name
    BY RootFacts
  <2>4. r.path = Root(e).path
    BY <2>2
  <2> QED  BY <1>1, <2>2, <2>3, <2>4
<1> QED  BY <1>2, <1>3

\* The names of what is made are those that can be shown.
LEMMA CreatedNames ==
  ASSUME NEW f \in Frames
  PROVE  {e.name : e \in Created(f)} = Showable(f)
<1>1. ASSUME NEW e \in Created(f)
      PROVE  e.name \in Showable(f)
  BY DEF Created, Showable
<1>2. ASSUME NEW n \in Showable(f)
      PROVE  \E e \in Created(f) : e.name = n
  <2>1. PICK i \in DOMAIN Locals[f] : n = Locals[f][i]
    BY DEF Showable
  <2>2. [id |-> next + i - 1, name |-> n] \in Created(f)
    BY <2>1 DEF Created, Showable
  <2> QED  BY <2>2
<1> QED  BY <1>1, <1>2

\* Filling with the variables of the frame shows the frame.
LEMMA FillShows ==
  ASSUME PanelInv, frame' \in Frames, NEW kept, Fill(Created(frame'), kept)
  PROVE  ShowsFrame'
<1>1. Created(frame') \in SUBSET Entry
  BY CreatedFacts DEF PanelInv, PanelOK
<1>2. CASE Created(frame') = {}
  BY <1>2, CreatedNames DEF ShowsFrame
<1>3. CASE Created(frame') # {}
  <2>1. Refill(Created(frame'), opened, kept) /\ list' = Created(frame')
    BY <1>3 DEF Fill
  <2>2. {r.path[1] : r \in rows'} = {e.name : e \in Created(frame')}
    BY <1>1, <2>1, RefillNames
  <2> QED  BY <2>1, <2>2, CreatedNames DEF ShowsFrame
<1> QED  BY <1>2, <1>3

\* Expanding a row shows no other variable.
LEMMA ExpandShows ==
  ASSUME PanelInv, NEW row \in rows, Expand(row)
  PROVE  {r.path[1] : r \in rows'} = {r.path[1] : r \in rows}
<1> DEFINE object == Member(row)
<1>1. row \in Row /\ row.path \in Paths /\ object.path = row.path /\ object.id = row.id
  BY DEF PanelInv, PanelOK, Row, Member
<1>2. CASE rows' = rows
  BY <1>2
<1>3. CASE rows' = (rows \ {row}) \union Under(object, opened')
  <2>1. \A r \in Under(object, opened') : r.path[1] = row.path[1]
    BY <1>1, UnderFacts
  <2>2. \E r \in Under(object, opened') : r.path = row.path
    <3>1. row.path \in Seq(STRING) /\ IsPrefix(row.path, row.path)
      BY <1>1, VariablesAssumption DEF IsPrefix
    <3>2. \A k \in Len(row.path)..(Len(row.path) - 1) : SubSeq(row.path, 1, k) \in opened'
      BY <3>1
    <3>3. [id |-> object.id, path |-> row.path,
           open |-> row.path \in opened' /\ HasChildren(row.path)] \in Under(object, opened')
      BY <1>1, <3>1, <3>2 DEF Under
    <3> QED  BY <3>3
  <2> QED  BY <1>3, <2>1, <2>2
<1>4. CASE rows' = (rows \ {row}) \union {[row EXCEPT !.open = TRUE]}
  <2>1. [row EXCEPT !.open = TRUE].path = row.path
    BY <1>1 DEF Row
  <2> QED  BY <1>4, <2>1
<1> QED  BY <1>2, <1>3, <1>4 DEF Expand, Member

\* What keeps the rows, or empties the panel
LEMMA ShowKept ==
  ASSUME ShowInv,
         \/ rows' = {}
         \/ /\ rows' = rows /\ list' = list /\ frame' = frame /\ prog' = prog
            /\ \A e \in {"running", "hit"} : Queued(e) => Queued(e)'
  PROVE  ShowInv'
BY DEF ShowInv, ShowsFrame, Showable

\* After updateLocalVariables the panel is of the selected frame, or empty.
LEMMA UpdateShows ==
  ASSUME PanelInv, ControlOK, ShowInv, UNCHANGED <<prog, frame>>,
         Queued("running") /\ prog = "running" => Queued("running")',
         UpdateLocalVariables
  PROVE  ShowInv'
<1>1. CASE prog = "stopped"
  <2>1. Fill(Created(frame'), Childless(Ids(list)))
    BY <1>1 DEF UpdateLocalVariables, Alive, HasFrame
  <2> QED  BY <1>1, <2>1, FillShows DEF ShowInv, ControlOK
<1>2. CASE prog = "running"
  <2>1. rows' = rows
    BY <1>2 DEF UpdateLocalVariables, Alive, HasFrame, Fill
  <2> QED  BY <1>2, <2>1 DEF ShowInv
<1> QED  BY <1>1, <1>2 DEF ShowInv

\* Every step keeps what the panel shows in line with the frame and the queue.
LEMMA ShowStep ==
  ASSUME Inv, ShowInv, [Next]_vars
  PROVE  ShowInv'
<1>0. PanelInv /\ ControlOK /\ events \in Seq(Events)
  BY DEF Inv, ControlOK
<1>a. {"running", "hit", "signal", "exit", "terminated", "ended"} \subseteq Events
  BY DEF Events
<1>1. CASE OpenSession \/ OpenCore \/ CloseSession \/ Run \/ HandleRunning \/ HandleEnded
  <2>1. rows' = {}
    BY <1>1 DEF OpenSession, OpenCore, CloseSession, Run, HandleRunning, HandleEnded, ClearWidget
  <2> QED  BY <2>1, ShowKept
<1>2. CASE Die
  BY <1>2 DEF Die, ShowInv
<1>3. CASE Execute
  <2>1. prog' = "running" /\ events' = Append(events, "running")
    BY <1>3 DEF Execute
  <2> QED  BY <1>0, <1>a, <2>1, QueuedFacts DEF ShowInv
<1>4. CASE Stop
  <2>1. rows' = rows /\ prog = "running" /\ prog' # "running"
    BY <1>4 DEF Stop, panelVars
  <2>2. \E e \in Events : events' = Append(events, e)
    BY <1>4, <1>a DEF Stop
  <2>3. Queued("running") => Queued("running")'
    BY <1>0, <2>2, QueuedFacts
  <2> QED  BY <2>1, <2>3 DEF ShowInv, ShowsFrame
<1>5. ASSUME NEW f \in Frames, SelectFrame(f)
      PROVE  ShowInv'
  <2>1. prog' = prog /\ events' = events
    BY <1>5 DEF SelectFrame
  <2>2. \A x : Queued(x)' = Queued(x)
    BY <1>0, <2>1, QueuedFacts
  <2>3. CASE HasFrame
    <3>1. frame' = f /\ Fill(Created(frame'), Childless(Ids(list)))
      BY <1>5, <2>3 DEF SelectFrame
    <3>2. ShowsFrame'
      BY <1>0, <3>1, FillShows
    <3> QED  BY <2>1, <2>3, <3>2 DEF ShowInv, HasFrame
  <2>4. CASE ~ HasFrame
    <3>1. UpdateLocalVariables /\ frame' = frame
      BY <1>5, <2>4 DEF SelectFrame
    <3> QED  BY <1>0, <2>1, <2>2, <3>1, UpdateShows
  <2> QED  BY <2>3, <2>4
<1>6. ASSUME NEW row \in rows, Expand(row)
      PROVE  ShowInv'
  <2>1. UNCHANGED <<prog, frame, list, events>>
    BY <1>6 DEF Expand
  <2>2. \A x : Queued(x)' = Queued(x)
    BY <1>0, <2>1, QueuedFacts
  <2>3. {r.path[1] : r \in rows'} = {r.path[1] : r \in rows}
    BY <1>0, <1>6, ExpandShows
  <2> QED  BY <1>6, <2>1, <2>2, <2>3 DEF ShowInv, ShowsFrame, Showable
<1>7. ASSUME NEW row \in rows, Collapse(row)
      PROVE  ShowInv'
  <2>1. UNCHANGED <<prog, frame, list, events>>
    BY <1>7 DEF Collapse
  <2>2. \A x : Queued(x)' = Queued(x)
    BY <1>0, <2>1, QueuedFacts
  <2>3. CASE Alive
    <3>1. \E X, before : Refill(list, X, before)
      BY <1>7, <2>3, Zenon DEF Collapse
    <3>2. {r.path[1] : r \in rows'} = {e.name : e \in list'}
      BY <1>0, <2>1, <3>1, RefillNames DEF PanelInv, PanelOK
    <3> QED  BY <1>7, <2>1, <2>2, <3>2 DEF ShowInv, ShowsFrame, Showable
  <2>4. CASE ~ Alive
    BY <2>1, <2>4 DEF Alive, ShowInv
  <2> QED  BY <2>3, <2>4
<1>8. CASE HandleStop
  <2>1. /\ UpdateLocalVariables /\ UNCHANGED <<prog, frame>>
        /\ events # <<>> /\ Head(events) = "hit" /\ events' = Tail(events)
    BY <1>8 DEF HandleStop, Take
  <2>2. Queued("running") => Queued("running")'
    BY <1>0, <2>1, QueuedFacts
  <2> QED  BY <1>0, <2>1, <2>2, UpdateShows
<1>9. CASE HandleSignal
  <2>1. /\ UNCHANGED <<prog, frame, rows, list>>
        /\ events # <<>> /\ Head(events) = "signal" /\ events' = Tail(events)
    BY <1>9 DEF HandleSignal, Take, Hang, panelVars
  <2>2. \A e \in {"running", "hit"} : Queued(e) => Queued(e)'
    BY <1>0, <2>1, QueuedFacts
  <2> QED  BY <2>1, <2>2, ShowKept
<1>10. CASE HandleTerminated
  <2>1. /\ UNCHANGED <<prog, frame, rows, list>>
        /\ events # <<>> /\ Head(events) = "terminated" /\ events' = Append(Tail(events), "ended")
    BY <1>10 DEF HandleTerminated, Take, panelVars
  <2>2. ASSUME NEW e \in {"running", "hit"}, Queued(e)
        PROVE  Queued(e)'
    <3>1. PICK i \in 1..Len(events) : events[i] = e
      BY <2>2 DEF Queued
    <3>2. i # 1
      BY <1>0, <2>1, <2>2, <3>1
    <3>3. i - 1 \in 1..Len(events') /\ events'[i - 1] = events[i]
      <4> DEFINE tail == Tail(events)
      <4>1. tail \in Seq(Events) /\ i - 1 \in 1..Len(tail) /\ tail[i - 1] = events[i]
        BY <1>0, <2>1, <3>1, <3>2
      <4>2. events' = Append(tail, "ended")
        BY <2>1
      <4> HIDE DEF tail
      <4> QED  BY <4>1, <4>2
    <3> QED  BY <3>1, <3>3 DEF Queued
  <2> QED  BY <2>1, <2>2, ShowKept
<1>11. CASE UNCHANGED vars
  <2>1. UNCHANGED <<prog, frame, rows, list, events>>
    BY <1>11 DEF vars, gdbVars, panelVars
  <2> QED  BY <1>0, <2>1, QueuedFacts, ShowKept
<1> QED
  BY <1>1, <1>2, <1>3, <1>4, <1>5, <1>6, <1>7, <1>8, <1>9, <1>10, <1>11
     DEF Next, User, HandleEvent

\* A stopped program's panel shows the variables of the frame gdb has
\* selected, or nothing, once all events are handled: no order of stops,
\* signals, frame selections and collapsed rows leaves another frame's there.
THEOREM ShownFrame == Spec => []ShowsSelectedFrame
<1>1. Init => ShowInv
  BY DEF Init, ShowInv
<1>2. Inv /\ ShowInv /\ [Next]_vars => ShowInv'
  BY ShowStep
<1>3. ShowInv => ShowsSelectedFrame
  <2> SUFFICES ASSUME ShowInv, prog = "stopped", events = <<>>
               PROVE  \/ {r.path[1] : r \in rows} \in {{}, Showable(frame)}
                      \/ Showable(frame) = {}
    BY DEF ShowsSelectedFrame
  <2>1. \A e : ~ Queued(e)
    BY DEF Queued
  <2> QED  BY <2>1 DEF ShowInv, ShowsFrame
<1> QED  BY <1>1, <1>2, <1>3, InvCorrect, PTL DEF Spec
=============================================================================
