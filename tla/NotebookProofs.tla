--------------------------- MODULE NotebookProofs ---------------------------
(***************************************************************************)
(* What is proved of Notebook for every set of files and names, any number *)
(* of pages, breakpoints and events: the marks are those of the list, and  *)
(* a file whose every name is its path is open once.                       *)
(***************************************************************************)
EXTENDS Notebook, SequenceTheorems, WellFoundedInduction, TLAPS

\* The pages are well formed, and their marks are of the places.
PagesOK(pages, places) ==
  /\ pages \in Seq(Tab)
  /\ \A i \in DOMAIN pages : pages[i].marks \subseteq LinesIn(pages[i].path, places)

Abnormal(path) == \E name \in Names : name # path /\ Normal[name] = path
Once(pages) ==
  \A i, j \in DOMAIN pages : i # j /\ pages[i].path = pages[j].path => Abnormal(pages[i].path)

\* A repainting keeps the pages and their paths.
Repaints(new, pages) ==
  /\ DOMAIN new = DOMAIN pages /\ new = [i \in DOMAIN new |-> new[i]]
  /\ \A i \in DOMAIN new : new[i] \in Tab /\ new[i].path = pages[i].path

\* Repainted pages are pages, and no file comes twice that did not.
LEMMA RepaintSeq ==
  ASSUME NEW pages \in Seq(Tab), NEW new, Repaints(new, pages)
  PROVE  /\ new \in Seq(Tab)
         /\ Once(pages) => Once(new)
<1>1. DOMAIN pages = 1..Len(pages) /\ Len(pages) \in Nat
  BY LenProperties
<1>2. new \in [1..Len(pages) -> Tab]
  BY <1>1 DEF Repaints
<1>3. new \in Seq(Tab)
  BY <1>1, <1>2, SeqDef
<1>4. ASSUME Once(pages)
      PROVE  Once(new)
  BY <1>4 DEF Once, Repaints
<1> QED  BY <1>3, <1>4

\* Marking the pages puts the marks of the list on them.
LEMMA MarkedOK ==
  ASSUME NEW pages \in Seq(Tab), NEW places
  PROVE  /\ PagesOK(Marked(pages, places), places)
         /\ Once(pages) => Once(Marked(pages, places))
<1> DEFINE new == Marked(pages, places)
<1>1. ASSUME NEW i \in DOMAIN pages
      PROVE  /\ pages[i] \in Tab
             /\ LinesIn(pages[i].path, places) \in SUBSET Lines
  BY ElementOfSeq, LenProperties DEF LinesIn
<1>2. /\ DOMAIN new = DOMAIN pages
      /\ \A i \in DOMAIN pages : new[i] = [pages[i] EXCEPT !.marks = LinesIn(pages[i].path, places)]
      /\ new = [i \in DOMAIN new |-> new[i]]
  BY DEF Marked
<1> HIDE DEF new
<1>3. \A i \in DOMAIN pages : /\ new[i] \in Tab /\ new[i].path = pages[i].path
                              /\ new[i].marks = LinesIn(pages[i].path, places)
  BY <1>1, <1>2 DEF Tab
<1>4. Repaints(new, pages)
  BY <1>2, <1>3 DEF Repaints
<1>5. new \in Seq(Tab) /\ (Once(pages) => Once(new))
  BY <1>4, RepaintSeq
<1>6. \A i \in DOMAIN new : new[i].marks \subseteq LinesIn(new[i].path, places)
  BY <1>2, <1>3
<1> QED  BY <1>5, <1>6 DEF PagesOK, new

\* Removing marks or moving arrows leaves the pages in order.
LEMMA RepaintOK ==
  ASSUME NEW pages, NEW places, PagesOK(pages, places), Once(pages), NEW new,
         DOMAIN new = DOMAIN pages, new = [i \in DOMAIN new |-> new[i]],
         \A i \in DOMAIN new : /\ new[i] \in Tab /\ new[i].path = pages[i].path
                               /\ new[i].marks \subseteq pages[i].marks
  PROVE  PagesOK(new, places) /\ Once(new)
<1>1. pages \in Seq(Tab) /\ Repaints(new, pages)
  BY DEF PagesOK, Repaints
<1>2. new \in Seq(Tab) /\ Once(new)
  BY <1>1, RepaintSeq
<1>3. \A i \in DOMAIN new : new[i].marks \subseteq LinesIn(new[i].path, places)
  BY DEF PagesOK
<1> QED  BY <1>2, <1>3 DEF PagesOK

\* Taking marks, or marks and arrows, away keeps the pages well formed.
LEMMA DisabledOK ==
  ASSUME NEW pages, NEW places, PagesOK(pages, places), Once(pages)
  PROVE  /\ PagesOK(Disabled(pages), places) /\ Once(Disabled(pages))
         /\ PagesOK(Bare(pages), places) /\ Once(Bare(pages))
<1>1. \A i \in DOMAIN pages : pages[i] \in Tab
  BY ElementOfSeq, LenProperties DEF PagesOK
<1>2. /\ DOMAIN Disabled(pages) = DOMAIN pages
      /\ Disabled(pages) = [i \in DOMAIN Disabled(pages) |-> Disabled(pages)[i]]
      /\ \A i \in DOMAIN pages : Disabled(pages)[i] = [pages[i] EXCEPT !.marks = {}]
  BY DEF Disabled
<1>3. /\ DOMAIN Bare(pages) = DOMAIN pages
      /\ Bare(pages) = [i \in DOMAIN Bare(pages) |-> Bare(pages)[i]]
      /\ \A i \in DOMAIN pages : Bare(pages)[i] = [pages[i] EXCEPT !.marks = {}, !.arrow = NoLine]
  BY DEF Bare
<1>4. PagesOK(Disabled(pages), places) /\ Once(Disabled(pages))
  <2> DEFINE new == Disabled(pages)
  <2> HIDE DEF new
  <2>1. \A i \in DOMAIN new : /\ new[i] \in Tab /\ new[i].path = pages[i].path
                              /\ new[i].marks \subseteq pages[i].marks
    BY <1>1, <1>2 DEF Tab, new
  <2>2. DOMAIN new = DOMAIN pages /\ new = [i \in DOMAIN new |-> new[i]]
    BY <1>2 DEF new
  <2>3. PagesOK(new, places) /\ Once(new)
    BY <2>1, <2>2, RepaintOK
  <2> QED  BY <2>3 DEF new
<1>5. PagesOK(Bare(pages), places) /\ Once(Bare(pages))
  <2> DEFINE new == Bare(pages)
  <2> HIDE DEF new
  <2>1. \A i \in DOMAIN new : /\ new[i] \in Tab /\ new[i].path = pages[i].path
                              /\ new[i].marks \subseteq pages[i].marks
    BY <1>1, <1>3 DEF Tab, NoLine, new
  <2>2. DOMAIN new = DOMAIN pages /\ new = [i \in DOMAIN new |-> new[i]]
    BY <1>3 DEF new
  <2>3. PagesOK(new, places) /\ Once(new)
    BY <2>1, <2>2, RepaintOK
  <2> QED  BY <2>3 DEF new
<1> QED  BY <1>4, <1>5

\* An arrow leaves its page's marks and path alone.
LEMMA PointAtFacts ==
  ASSUME NEW page \in Tab, NEW line
  PROVE  /\ PointAt(page, line) \in Tab
         /\ PointAt(page, line).path = page.path /\ PointAt(page, line).marks = page.marks
<1>1. (IF line \in Lines THEN line ELSE NoLine) \in Lines \union {NoLine}
  OBVIOUS
<1> QED  BY <1>1 DEF PointAt, Tab

\* So does showing a line,
LEMMA GotoLineOK ==
  ASSUME NEW pages, NEW places, PagesOK(pages, places), Once(pages), NEW file, NEW line
  PROVE  PagesOK(GotoLine(pages, file, line), places) /\ Once(GotoLine(pages, file, line))
<1> DEFINE new == GotoLine(pages, file, line)
<1>1. \A i \in DOMAIN pages : pages[i] \in Tab
  BY ElementOfSeq, LenProperties DEF PagesOK
<1>2. /\ DOMAIN new = DOMAIN pages /\ new = [i \in DOMAIN new |-> new[i]]
      /\ \A i \in DOMAIN pages : new[i] = pages[i] \/ new[i] = PointAt(pages[i], line)
  BY DEF GotoLine
<1> HIDE DEF new
<1>3. \A i \in DOMAIN new : /\ new[i] \in Tab /\ new[i].path = pages[i].path
                            /\ new[i].marks \subseteq pages[i].marks
  BY <1>1, <1>2, PointAtFacts
<1>4. PagesOK(new, places) /\ Once(new)
  BY <1>2, <1>3, RepaintOK
<1> QED  BY <1>4 DEF new

\* and pointing at one.
LEMMA PointedOK ==
  ASSUME NEW pages, NEW places, PagesOK(pages, places), Once(pages), NEW page, NEW line
  PROVE  /\ PagesOK([pages EXCEPT ![page] = PointAt(@, line)], places)
         /\ Once([pages EXCEPT ![page] = PointAt(@, line)])
<1> DEFINE new == [pages EXCEPT ![page] = PointAt(@, line)]
<1>0. DOMAIN pages = 1..Len(pages) /\ pages = [i \in 1..Len(pages) |-> pages[i]]
  BY SeqDef, LenProperties DEF PagesOK
<1>1. \A i \in DOMAIN pages : pages[i] \in Tab
  BY ElementOfSeq, LenProperties DEF PagesOK
<1>2. /\ DOMAIN new = DOMAIN pages /\ new = [i \in DOMAIN new |-> new[i]]
      /\ \A i \in DOMAIN pages : new[i] = pages[i] \/ new[i] = PointAt(pages[i], line)
  BY <1>0
<1> HIDE DEF new
<1>3. \A i \in DOMAIN new : /\ new[i] \in Tab /\ new[i].path = pages[i].path
                            /\ new[i].marks \subseteq pages[i].marks
  BY <1>1, <1>2, PointAtFacts
<1>4. PagesOK(new, places) /\ Once(new)
  BY <1>2, <1>3, RepaintOK
<1> QED  BY <1>4 DEF new

\* Opening a file adds a page only if none has the name as its path.
LEMMA OpenedOK ==
  ASSUME tabs \in Seq(Tab), Once(tabs), NEW name \in Names
  PROVE  PagesOK(Opened(name), listed) /\ Once(Opened(name))
<1>1. CASE Showing(name) # {}
  BY <1>1, MarkedOK DEF Opened, PagesOK
<1>2. CASE Showing(name) = {}
  <2> DEFINE pages == Append(tabs, NewPage(name))
  <2>1. NewPage(name) \in Tab /\ NewPage(name).path = Normal[name]
    BY NotebookAssumption DEF NewPage, Tab, NoLine
  <2>2. tabs \in Seq(Tab) /\ Len(tabs) \in Nat /\ DOMAIN tabs = 1..Len(tabs)
    BY LenProperties DEF PagesOK
  <2>3. /\ pages \in Seq(Tab) /\ DOMAIN pages = 1..(Len(tabs) + 1)
        /\ pages[Len(tabs) + 1] = NewPage(name)
        /\ \A i \in DOMAIN tabs : pages[i] = tabs[i]
    BY <2>1, <2>2, AppendProperties
  <2> HIDE DEF pages
  <2>4. ASSUME NEW i \in DOMAIN tabs, tabs[i].path = Normal[name]
        PROVE  Abnormal(Normal[name])
    <3>1. tabs[i].path # name
      BY <1>2 DEF Showing
    <3> QED  BY <2>4, <3>1 DEF Abnormal
  <2>5. Once(pages)
    <3> SUFFICES ASSUME NEW i \in DOMAIN pages, NEW j \in DOMAIN pages,
                        i # j, pages[i].path = pages[j].path
                 PROVE  Abnormal(pages[i].path)
      BY DEF Once
    <3>1. CASE i \in DOMAIN tabs /\ j \in DOMAIN tabs
      BY <2>3, <3>1 DEF Once
    <3>2. CASE i = Len(tabs) + 1
      <4>1. j \in DOMAIN tabs
        BY <2>2, <2>3, <3>2
      <4> QED  BY <2>1, <2>3, <2>4, <3>2, <4>1
    <3>3. CASE j = Len(tabs) + 1
      <4>1. i \in DOMAIN tabs
        BY <2>2, <2>3, <3>3
      <4> QED  BY <2>1, <2>3, <2>4, <3>3, <4>1
    <3> QED  BY <2>2, <2>3, <3>1, <3>2, <3>3
  <2> QED  BY <1>2, <2>3, <2>5, MarkedOK DEF Opened, pages
<1> QED  BY <1>1, <1>2

\* What is left of the pages when one is closed
After(i, k) == IF k < i THEN k ELSE k + 1

\* When a page is closed the ones after it move up.
LEMMA ClosedPages ==
  ASSUME tabs \in Seq(Tab), NEW i \in DOMAIN tabs
  PROVE  /\ RemoveAt(tabs, i) \in Seq(Tab) /\ DOMAIN RemoveAt(tabs, i) = 1..(Len(tabs) - 1)
         /\ \A k \in 1..(Len(tabs) - 1) :
              After(i, k) \in DOMAIN tabs /\ RemoveAt(tabs, i)[k] = tabs[After(i, k)]
<1> DEFINE new == RemoveAt(tabs, i)
           old(k) == IF k < i THEN k ELSE k + 1
<1>1. tabs \in Seq(Tab) /\ Len(tabs) \in Nat /\ DOMAIN tabs = 1..Len(tabs) /\ i \in 1..Len(tabs)
  BY LenProperties
<1>2. \A k \in 1..Len(tabs) : tabs[k] \in Tab
  BY <1>1, ElementOfSeq
<1>3. /\ SubSeq(tabs, 1, i - 1) \in Seq(Tab) /\ Len(SubSeq(tabs, 1, i - 1)) = i - 1
      /\ \A k \in 1..(i - 1) : SubSeq(tabs, 1, i - 1)[k] = tabs[k]
  BY <1>1, <1>2, SubSeqProperties
<1>4. /\ SubSeq(tabs, i + 1, Len(tabs)) \in Seq(Tab)
      /\ Len(SubSeq(tabs, i + 1, Len(tabs))) = Len(tabs) - i
      /\ \A k \in 1..(Len(tabs) - i) : SubSeq(tabs, i + 1, Len(tabs))[k] = tabs[k + i]
  BY <1>1, <1>2, SubSeqProperties
<1>5. /\ new \in Seq(Tab) /\ DOMAIN new = 1..(Len(tabs) - 1)
      /\ \A k \in 1..(Len(tabs) - 1) : old(k) \in DOMAIN tabs /\ new[k] = tabs[old(k)]
  <2> DEFINE front == SubSeq(tabs, 1, i - 1)
             back  == SubSeq(tabs, i + 1, Len(tabs))
  <2>1. new = front \o back
    BY DEF RemoveAt
  <2>2. /\ front \in Seq(Tab) /\ Len(front) = i - 1 /\ \A k \in 1..(i - 1) : front[k] = tabs[k]
        /\ back \in Seq(Tab) /\ Len(back) = Len(tabs) - i
        /\ \A k \in 1..(Len(tabs) - i) : back[k] = tabs[k + i]
    BY <1>3, <1>4, Zenon
  <2> HIDE DEF front, back, new
  <2>3. /\ front \o back \in Seq(Tab) /\ Len(front \o back) = Len(tabs) - 1
        /\ \A k \in 1..(Len(tabs) - 1) :
             (front \o back)[k] = IF k <= i - 1 THEN front[k] ELSE back[k - (i - 1)]
    <3>1. /\ front \o back \in Seq(Tab) /\ Len(front \o back) = Len(front) + Len(back)
          /\ \A k \in 1..(Len(front) + Len(back)) :
               (front \o back)[k] = IF k <= Len(front) THEN front[k] ELSE back[k - Len(front)]
      BY <2>2, ConcatProperties
    <3>2. Len(front) + Len(back) = Len(tabs) - 1
      BY <1>1, <2>2
    <3> QED  BY <2>2, <3>1, <3>2
  <2>4. ASSUME NEW k \in 1..(Len(tabs) - 1)
        PROVE  old(k) \in 1..Len(tabs) /\ new[k] = tabs[old(k)]
    <3>1. CASE k < i
      BY <1>1, <2>1, <2>2, <2>3, <3>1
    <3>2. CASE ~ (k < i)
      <4>1. k - (i - 1) \in 1..(Len(tabs) - i) /\ k - (i - 1) + i = k + 1
        BY <1>1, <3>2
      <4>2. new[k] = back[k - (i - 1)]
        BY <1>1, <2>1, <2>3, <3>2
      <4>3. back[k - (i - 1)] = tabs[k + 1]
        BY <2>2, <4>1
      <4> QED  BY <1>1, <3>2, <4>2, <4>3
    <3> QED  BY <3>1, <3>2
  <2> QED  BY <1>1, <2>1, <2>3, <2>4, LenProperties
<1> QED  BY <1>5 DEF After

\* The pages left keep their marks, and no file comes twice.
LEMMA ClosedOK ==
  ASSUME NEW places, PagesOK(tabs, places), Once(tabs), NEW i \in DOMAIN tabs
  PROVE  PagesOK(RemoveAt(tabs, i), places) /\ Once(RemoveAt(tabs, i))
<1> DEFINE new == RemoveAt(tabs, i)
<1>1. tabs \in Seq(Tab) /\ Len(tabs) \in Nat /\ DOMAIN tabs = 1..Len(tabs) /\ i \in 1..Len(tabs)
  BY LenProperties DEF PagesOK
<1>2. /\ new \in Seq(Tab) /\ DOMAIN new = 1..(Len(tabs) - 1)
      /\ \A k \in 1..(Len(tabs) - 1) : After(i, k) \in DOMAIN tabs /\ new[k] = tabs[After(i, k)]
  BY <1>1, ClosedPages
<1> HIDE DEF new
<1>3. \A j, k \in 1..(Len(tabs) - 1) : j # k => After(i, j) # After(i, k)
  BY <1>1 DEF After
<1>4. Once(new)
  BY <1>2, <1>3 DEF Once
<1>5. \A k \in DOMAIN new : new[k].marks \subseteq LinesIn(new[k].path, places)
  BY <1>2 DEF PagesOK
<1> QED  BY <1>2, <1>4, <1>5 DEF PagesOK, new
-----------------------------------------------------------------------------
Inv ==
  /\ tabs \in Seq(Tab) /\ Once(tabs)
  /\ Closing \/ PagesOK(tabs, listed)

\* Only a closed session is taken leave of.
QueueOK ==
  /\ events \in Seq(Event) /\ listed \subseteq Places
  /\ prog # "none" => \A i \in DOMAIN events : events[i].kind \notin {"terminated", "ended"}

\* Pages in order have marks at lines of theirs.
LEMMA SomePlaces ==
  ASSUME tabs \in Seq(Tab)
  PROVE  \E places : PagesOK(tabs, places)
<1> DEFINE places == {tabs[i].path : i \in DOMAIN tabs} \X Lines
<1>1. ASSUME NEW i \in DOMAIN tabs
      PROVE  tabs[i].marks \subseteq LinesIn(tabs[i].path, places)
  <2>0. tabs[i] \in Tab
    BY ElementOfSeq, LenProperties
  <2>1. tabs[i].marks \subseteq Lines
    BY <2>0 DEF Tab
  <2> QED  BY <2>1 DEF LinesIn
<1> HIDE DEF places
<1>2. PagesOK(tabs, places)
  BY <1>1 DEF PagesOK
<1> QED  BY <1>2

\* What is said of gdb's end stays in the queue until it is handled.
LEMMA ClosingKept ==
  ASSUME QueueOK, Next, ~ HandleEnded
  PROVE  Closing => Closing'
<1>0. events \in Seq(Event) /\ Len(events) \in Nat /\ DOMAIN events = 1..Len(events)
  BY LenProperties DEF QueueOK
<1>1. CASE UNCHANGED events
  BY <1>1 DEF Closing
<1>2. CASE CloseSession
  BY <1>2 DEF CloseSession, Valid, QueueOK, Closing
<1>3. ASSUME NEW e \in Event, events' = Append(events, e)
      PROVE  Closing => Closing'
  <2>1. /\ DOMAIN events' = 1..(Len(events) + 1)
        /\ \A i \in DOMAIN events : events'[i] = events[i]
    BY <1>0, <1>3, AppendProperties
  <2> QED  BY <1>0, <2>1 DEF Closing
<1>4. ASSUME events # <<>>, Head(events).kind # "ended",
             \/ events' = Tail(events)
             \/ events' = Append(Tail(events), [kind |-> "ended"])
      PROVE  Closing => Closing'
  <2> SUFFICES ASSUME NEW i \in 1..Len(events), events[i].kind = "ended"
               PROVE  Closing'
    BY <1>0 DEF Closing
  <2> DEFINE tail == Tail(events)
  <2>1. i # 1
    BY <1>0, <1>4, HeadTailProperties
  <2>2. tail \in Seq(Event) /\ i - 1 \in 1..Len(tail) /\ tail[i - 1] = events[i]
    BY <1>0, <1>4, <2>1, HeadTailProperties
  <2> HIDE DEF tail
  <2>3. CASE events' = tail
    BY <2>2, <2>3, LenProperties DEF Closing
  <2>4. CASE events' = Append(tail, [kind |-> "ended"])
    <3>1. [kind |-> "ended"] \in Event
      BY DEF Event
    <3>2. events'[i - 1] = tail[i - 1] /\ i - 1 \in DOMAIN events'
      BY <2>2, <2>4, <3>1, AppendProperties, LenProperties
    <3> QED  BY <2>2, <3>2 DEF Closing
  <2> QED  BY <1>4, <2>3, <2>4 DEF tail
<1>5. CASE ProgramStops
  <2>1. \E e \in Event : events' = Append(events, e)
    BY <1>5 DEF ProgramStops, Event
  <2> QED  BY <1>3, <2>1
<1>6. CASE HandleStop \/ HandleSignal \/ HandleExit \/ HandleTerminated
  BY <1>4, <1>6 DEF HandleStop, HandleSignal, HandleExit, HandleTerminated, Take
<1>7. CASE OpenSession \/ Resume \/ Continue \/ ListBreakpoints
  BY <1>1, <1>7 DEF OpenSession, Resume, Continue, ListBreakpoints
<1>8. ASSUME NEW name, NEW place, NEW line, NEW i,
             \/ OpenSource(name) \/ GotoBreakpoint(place) \/ SelectFrame(name, line)
             \/ GoToLine(line) \/ SelectTab(i) \/ CloseTab(i)
      PROVE  UNCHANGED events
  BY <1>8 DEF OpenSource, GotoBreakpoint, SelectFrame, GoToLine, SelectTab, CloseTab
<1> QED  BY <1>1, <1>2, <1>5, <1>6, <1>7, <1>8 DEF Next

\* openFile keeps the invariant of the pages.
LEMMA OpenFileStep ==
  ASSUME NEW pages, PagesOK(pages, listed), Once(pages), Inv, UNCHANGED listed,
         Closing => Closing', NEW name, OpenFile(name, pages)
  PROVE  Inv'
<1>1. tabs' = tabs \/ tabs' = pages
  BY DEF OpenFile
<1>2. CASE tabs' = tabs
  BY <1>2 DEF Inv, PagesOK, Once, Abnormal, LinesIn
<1>3. CASE tabs' = pages
  BY <1>3 DEF Inv, PagesOK, Once, Abnormal, LinesIn
<1> QED  BY <1>1, <1>2, <1>3

\* So does opening a file at a line,
LEMMA OpenAtStep ==
  ASSUME Inv, UNCHANGED listed, Closing => Closing',
         NEW name \in Names \union {NoFile}, NEW line, OpenAt(name, line)
  PROVE  Inv'
<1>1. CASE name = NoFile
  <2>1. tabs' = tabs
    BY <1>1 DEF OpenAt
  <2> QED  BY <2>1 DEF Inv, PagesOK, Once, Abnormal, LinesIn
<1>2. CASE name # NoFile
  <2> DEFINE pages == [Opened(name) EXCEPT ![PageOf(name)] = PointAt(@, line)]
  <2>1. OpenFile(name, pages)
    BY <1>2 DEF OpenAt
  <2>2. PagesOK(Opened(name), listed) /\ Once(Opened(name))
    BY <1>2, OpenedOK DEF Inv
  <2>3. PagesOK(pages, listed) /\ Once(pages)
    BY <2>2, PointedOK
  <2> HIDE DEF pages
  <2> QED  BY <2>1, <2>3, OpenFileStep
<1> QED  BY <1>1, <1>2

\* and repainting or closing pages.
LEMMA RepaintStep ==
  ASSUME Inv, UNCHANGED listed, Closing => Closing',
         \/ tabs' = tabs \/ tabs' = Bare(tabs) \/ tabs' = Disabled(tabs)
         \/ \E line : tabs' = GotoLine(tabs, current.file, line)
         \/ \E i \in DOMAIN tabs : tabs' = RemoveAt(tabs, i)
  PROVE  Inv'
<1>1. tabs \in Seq(Tab) /\ Once(tabs)
  BY DEF Inv
<1>2. ASSUME NEW places, PagesOK(tabs, places)
      PROVE  PagesOK(tabs', places) /\ Once(tabs')
  BY <1>1, <1>2, DisabledOK, GotoLineOK, ClosedOK
<1>3. PICK places : PagesOK(tabs, places)
  BY <1>1, SomePlaces
<1>4. tabs' \in Seq(Tab) /\ Once(tabs')
  BY <1>2, <1>3 DEF PagesOK
<1>5. Once(tabs)'
  BY <1>4 DEF Once, Abnormal
<1>6. Closing' \/ PagesOK(tabs', listed)
  BY <1>2 DEF Inv
<1>7. Closing' \/ PagesOK(tabs, listed)'
  BY <1>6 DEF PagesOK, LinesIn
<1> QED  BY <1>4, <1>5, <1>7 DEF Inv

\* One proof step per action.
LEMMA InvStep ==
  ASSUME Inv, Next, QueueOK
  PROVE  Inv'
<1>1. CASE HandleEnded
  BY <1>1 DEF HandleEnded, Inv, PagesOK, Once
<1> SUFFICES ASSUME ~ HandleEnded, Closing => Closing'
             PROVE  Inv'
  BY <1>1, ClosingKept
<1>2. CASE OpenSession \/ CloseSession \/ HandleExit \/ Resume \/ Continue \/ HandleSignal
           \/ ProgramStops
  BY <1>2, RepaintStep
     DEF OpenSession, CloseSession, HandleExit, Resume, Continue, HandleSignal, ProgramStops
<1>3. CASE ListBreakpoints
  <2>1. PagesOK(Marked(tabs, listed'), listed') /\ Once(Marked(tabs, listed'))
    BY MarkedOK DEF Inv
  <2>2. tabs' = Marked(tabs, listed')
    BY <1>3 DEF ListBreakpoints
  <2>3. PagesOK(tabs', listed') /\ Once(tabs')
    BY <2>1, <2>2
  <2> QED  BY <2>3 DEF Inv, PagesOK, Once, Abnormal, LinesIn
<1>4. ASSUME NEW name \in Names, OpenSource(name)
      PROVE  Inv'
  BY <1>4, OpenedOK, OpenFileStep DEF OpenSource, Inv
<1>5. ASSUME NEW place \in listed, GotoBreakpoint(place)
      PROVE  Inv'
  <2>1. place[1] \in Names
    BY NotebookAssumption DEF QueueOK
  <2> QED  BY <1>5, <2>1, OpenAtStep DEF GotoBreakpoint
<1>6. ASSUME NEW name \in Names \union {NoFile}, NEW line \in Lines, SelectFrame(name, line)
      PROVE  Inv'
  BY <1>6, OpenAtStep DEF SelectFrame
<1>7. ASSUME NEW line \in Lines, GoToLine(line)
      PROVE  Inv'
  BY <1>7, RepaintStep DEF GoToLine
<1>8. ASSUME NEW i \in DOMAIN tabs, SelectTab(i) \/ CloseTab(i)
      PROVE  Inv'
  BY <1>8, RepaintStep DEF SelectTab, CloseTab
<1>9. CASE HandleStop
  <2> DEFINE stop == Head(events)
             pages == GotoLine(Opened(stop.file), stop.file, stop.line)
  <2>1. UNCHANGED listed /\ stop \in Event /\ stop.kind = "stop"
    BY <1>9, HeadTailProperties DEF HandleStop, Take, QueueOK
  <2>2. stop.file \in Names \union {NoFile}
    BY <2>1 DEF Event, Stop
  <2>3. CASE stop.file = NoFile
    <3>1. tabs' = Disabled(tabs)
      BY <1>9, <2>3 DEF HandleStop
    <3> QED  BY <2>1, <3>1, RepaintStep
  <2>4. CASE stop.file # NoFile
    <3>1. OpenFile(stop.file, pages)
      BY <1>9, <2>4 DEF HandleStop
    <3>2. PagesOK(Opened(stop.file), listed) /\ Once(Opened(stop.file))
      BY <2>2, <2>4, OpenedOK DEF Inv
    <3>3. PagesOK(pages, listed) /\ Once(pages)
      BY <3>2, GotoLineOK
    <3> HIDE DEF pages
    <3> QED  BY <2>1, <3>1, <3>3, OpenFileStep
  <2> QED  BY <2>3, <2>4
<1>10. CASE HandleTerminated
  <2>1. Closing'
    <3>1. events' = Append(Tail(events), [kind |-> "ended"]) /\ events # <<>>
      BY <1>10 DEF HandleTerminated, Take
    <3> DEFINE tail == Tail(events)
    <3>2. tail \in Seq(Event) /\ [kind |-> "ended"] \in Event
      BY <3>1, HeadTailProperties DEF QueueOK, Event
    <3> HIDE DEF tail
    <3>3. /\ DOMAIN Append(tail, [kind |-> "ended"]) = 1..(Len(tail) + 1) /\ Len(tail) \in Nat
          /\ Append(tail, [kind |-> "ended"])[Len(tail) + 1] = [kind |-> "ended"]
      BY <3>2, AppendProperties, LenProperties
    <3> QED  BY <3>1, <3>3 DEF Closing, tail
  <2>2. tabs' = tabs
    BY <1>10 DEF HandleTerminated
  <2> QED  BY <2>1, <2>2 DEF Inv, Once, Abnormal
<1> QED
  BY <1>2, <1>3, <1>4, <1>5, <1>6, <1>7, <1>8, <1>9, <1>10 DEF Next

\* The queue holds events, and the list places.
LEMMA QueueStep ==
  ASSUME QueueOK, Next
  PROVE  QueueOK'
<1> DEFINE Plain(queue) == \A i \in DOMAIN queue : queue[i].kind \notin {"terminated", "ended"}
<1>1. /\ events \in Seq(Event) /\ listed \subseteq Places
      /\ prog # "none" => Plain(events)
  BY DEF QueueOK
<1>2. \A k \in 0..Len(events), e \in Event : Append(SubSeq(events, 1, k), e) \in Seq(Event)
  <2>1. ASSUME NEW k \in 0..Len(events)
        PROVE  SubSeq(events, 1, k) \in Seq(Event)
    <3>1. \A j \in 1..k : events[j] \in Event
      BY <1>1, ElementOfSeq, LenProperties
    <3> QED  BY <3>1, SubSeqProperties
  <2> QED  BY <2>1, AppendProperties
<1>3. /\ \A e \in Event : Append(events, e) \in Seq(Event)
      /\ events # <<>> => Tail(events) \in Seq(Event)
      /\ events # <<>> => \A e \in Event : Append(Tail(events), e) \in Seq(Event)
  BY <1>1, AppendProperties, HeadTailProperties
<1>4. /\ [kind |-> "ended"] \in Event /\ [kind |-> "exit"] \in Event
      /\ [kind |-> "terminated"] \in Event /\ [kind |-> "signal"] \in Event
      /\ \A e \in Stop : e \in Event /\ e.kind = "stop"
  BY DEF Event, Stop
<1>a. events # <<>> /\ Plain(events) => Plain(Tail(events)) /\ Head(events).kind # "terminated"
  <2> SUFFICES ASSUME events # <<>>, Plain(events)
               PROVE  Plain(Tail(events)) /\ Head(events).kind # "terminated"
    OBVIOUS
  <2>1. /\ Len(Tail(events)) = Len(events) - 1 /\ Len(events) \in Nat /\ Len(events) >= 1
        /\ DOMAIN events = 1..Len(events) /\ DOMAIN Tail(events) = 1..Len(Tail(events))
        /\ \A i \in 1..Len(Tail(events)) : Tail(events)[i] = events[i + 1]
        /\ Head(events) = events[1]
    BY <1>1, HeadTailProperties, LenProperties, EmptySeq
  <2> QED  BY <2>1
<1>b. \A e \in Event : e.kind \notin {"terminated", "ended"} /\ Plain(events) => Plain(Append(events, e))
  <2> SUFFICES ASSUME NEW e \in Event, e.kind \notin {"terminated", "ended"}, Plain(events)
               PROVE  Plain(Append(events, e))
    OBVIOUS
  <2>1. /\ DOMAIN Append(events, e) = 1..(Len(events) + 1) /\ Append(events, e)[Len(events) + 1] = e
        /\ \A i \in 1..Len(events) : Append(events, e)[i] = events[i]
        /\ Len(events) \in Nat /\ DOMAIN events = 1..Len(events)
    BY <1>1, AppendProperties, LenProperties
  <2> QED  BY <2>1
<1> HIDE DEF Plain
<1>5. ASSUME events' \in Seq(Event), listed' \subseteq Places, prog' # "none" => Plain(events')
      PROVE  QueueOK'
  BY <1>5 DEF QueueOK, Plain
<1>6. CASE CloseSession
  BY <1>1, <1>2, <1>4, <1>5, <1>6 DEF CloseSession
<1>7. CASE ProgramStops
  <2>1. \E e \in Event : e.kind \notin {"terminated", "ended"} /\ events' = Append(events, e)
    BY <1>4, <1>7 DEF ProgramStops
  <2>2. prog # "none" /\ UNCHANGED listed
    BY <1>7 DEF ProgramStops
  <2> QED  BY <1>1, <1>3, <1>5, <1>b, <2>1, <2>2
<1>8. CASE HandleStop \/ HandleSignal \/ HandleExit \/ HandleEnded
  <2>1. events # <<>> /\ events' = Tail(events) /\ UNCHANGED <<prog, listed>>
    BY <1>8 DEF HandleStop, HandleSignal, HandleExit, HandleEnded, Take
  <2> QED  BY <1>1, <1>3, <1>5, <1>a, <2>1
<1>9. CASE HandleTerminated
  <2>1. /\ events # <<>> /\ Head(events).kind = "terminated" /\ UNCHANGED prog
        /\ listed' = {} /\ events' = Append(Tail(events), [kind |-> "ended"])
    BY <1>9 DEF HandleTerminated, Take
  <2>2. prog = "none" /\ events' \in Seq(Event)
    BY <1>1, <1>3, <1>4, <1>a, <2>1
  <2> QED  BY <1>5, <2>1, <2>2
<1>10. CASE OpenSession
  <2>1. events' = <<>> /\ UNCHANGED listed
    BY <1>10 DEF OpenSession
  <2> QED  BY <1>1, <1>5, <2>1 DEF Plain
<1>11. CASE Resume \/ Continue \/ ListBreakpoints
  <2>1. /\ UNCHANGED events /\ prog # "none"
        /\ UNCHANGED listed \/ listed' \subseteq Places
    BY <1>11 DEF Resume, Continue, ListBreakpoints, Valid
  <2> QED  BY <1>1, <1>5, <2>1
<1>12. ASSUME NEW name, NEW place, NEW line, NEW i,
             \/ OpenSource(name) \/ GotoBreakpoint(place) \/ SelectFrame(name, line)
             \/ GoToLine(line) \/ SelectTab(i) \/ CloseTab(i)
      PROVE  QueueOK'
  <2>1. UNCHANGED <<events, prog, listed>>
    BY <1>12 DEF OpenSource, GotoBreakpoint, SelectFrame, GoToLine, SelectTab, CloseTab
  <2> QED  BY <1>1, <1>5, <2>1
<1> QED  BY <1>6, <1>7, <1>8, <1>9, <1>10, <1>11, <1>12 DEF Next

\* The pages, the list and the queue are in order, in any session.
THEOREM InvCorrect == Spec => [](Inv /\ QueueOK)
<1>1. Init => Inv /\ QueueOK
  <2>1. SUFFICES ASSUME Init
                 PROVE  Inv /\ QueueOK
    OBVIOUS
  <2>2. <<>> \in Seq(Event) /\ <<>> \in Seq(Tab)
    OBVIOUS
  <2> QED  BY <2>1, <2>2 DEF Init, Inv, QueueOK, PagesOK, Once
<1>2. Inv /\ QueueOK /\ [Next]_vars => (Inv /\ QueueOK)'
  <2>1. SUFFICES ASSUME Inv, QueueOK, [Next]_vars
                 PROVE  (Inv /\ QueueOK)'
    OBVIOUS
  <2>2. CASE Next
    BY <2>1, <2>2, InvStep, QueueStep
  <2>3. CASE UNCHANGED vars
    BY <2>1, <2>3 DEF Inv, QueueOK, Closing, PagesOK, Once, Abnormal, LinesIn, vars
  <2> QED  BY <2>1, <2>2, <2>3
<1> QED  BY <1>1, <1>2, PTL DEF Spec

\* Every mark of a page is a breakpoint of the list, till gdb has ended.
THEOREM MarksCorrect == Spec => []MarksAreListed
<1>1. Inv => MarksAreListed
  BY DEF Inv, PagesOK, MarksAreListed
<1> QED  BY <1>1, InvCorrect, PTL

\* Two pages of one file need a name that is not its path.
THEOREM OpenOnceCorrect == Spec => []OpenOnce
<1>1. Inv => OpenOnce
  BY DEF Inv, Once, Abnormal, OpenOnce
<1> QED  BY <1>1, InvCorrect, PTL
-----------------------------------------------------------------------------
(* The arrows, and the page in view.                                       *)

Clear(pages) == \A i \in DOMAIN pages : pages[i].arrow = NoLine

\* A repainting that leaves the arrows
Keeps(new, pages) ==
  /\ DOMAIN new = DOMAIN pages
  /\ \A i \in DOMAIN pages : new[i].path = pages[i].path /\ new[i].arrow = pages[i].arrow

\* Setting or taking away marks leaves the arrows; deleteAllMarkers leaves none.
LEMMA KeepsArrows ==
  ASSUME NEW pages \in Seq(Tab), NEW places
  PROVE  /\ Keeps(Marked(pages, places), pages) /\ Keeps(Disabled(pages), pages)
         /\ Clear(Bare(pages))
<1>1. \A i \in DOMAIN pages : pages[i] \in Tab
  BY ElementOfSeq, LenProperties
<1>2. /\ DOMAIN Marked(pages, places) = DOMAIN pages /\ DOMAIN Disabled(pages) = DOMAIN pages
      /\ \A i \in DOMAIN pages :
           /\ Marked(pages, places)[i] = [pages[i] EXCEPT !.marks = LinesIn(pages[i].path, places)]
           /\ Disabled(pages)[i] = [pages[i] EXCEPT !.marks = {}]
  BY DEF Marked, Disabled
<1>3. /\ DOMAIN Bare(pages) = DOMAIN pages
      /\ \A i \in DOMAIN pages : Bare(pages)[i] = [pages[i] EXCEPT !.marks = {}, !.arrow = NoLine]
  BY DEF Bare
<1>4. Keeps(Marked(pages, places), pages) /\ Keeps(Disabled(pages), pages)
  BY <1>1, <1>2 DEF Keeps, Tab
<1>5. Clear(Bare(pages))
  BY <1>1, <1>3 DEF Clear, Tab
<1> QED  BY <1>4, <1>5

\* Pages without arrows stay without them when none is made.
LEMMA KeepsClear ==
  ASSUME NEW pages, NEW new, Keeps(new, pages), Clear(pages)
  PROVE  Clear(new)
BY DEF Keeps, Clear

\* A set of page numbers that is not empty has a last.
LEMMA LastShowing ==
  ASSUME tabs \in Seq(Tab), NEW name, Showing(name) # {}
  PROVE  \E i \in Showing(name) : \A j \in Showing(name) : j <= i
<1> DEFINE R == OpToRel(<, Nat)
           T == {Len(tabs) - i : i \in Showing(name)}
<1>1. Len(tabs) \in Nat /\ Showing(name) \subseteq 1..Len(tabs)
  BY LenProperties DEF Showing
<1>2. T \subseteq Nat /\ T # {}
  BY <1>1
<1>3. \E x \in T : \A y \in T : ~ (<<y, x>> \in R)
  <2>1. IsWellFoundedOn(R, Nat)
    BY NatLessThanWellFounded
  <2> HIDE DEF R, T
  <2> QED  BY <1>2, <2>1, WFMin
<1>4. PICK x \in T : \A y \in T : ~ (<<y, x>> \in R)
  BY <1>3
<1>5. \A y \in T : ~ (y < x)
  BY <1>2, <1>4 DEF OpToRel
<1>6. PICK i \in Showing(name) : x = Len(tabs) - i
  OBVIOUS
<1>7. \A j \in Showing(name) : ~ (Len(tabs) - j < Len(tabs) - i)
  BY <1>5, <1>6
<1>8. \A j \in Showing(name) : j <= i
  BY <1>1, <1>7
<1> QED  BY <1>8

\* The page of a file opened is one of the pages, and the file's.
LEMMA OpenedPage ==
  ASSUME tabs \in Seq(Tab), NEW name \in Names
  PROVE  /\ Opened(name) \in Seq(Tab)
         /\ PageOf(name) \in DOMAIN Opened(name)
         /\ Opened(name)[PageOf(name)].path \in {name, Normal[name]}
         /\ Clear(tabs) => Clear(Opened(name))
<1> DEFINE pages == IF Showing(name) = {} THEN Append(tabs, NewPage(name)) ELSE tabs
<1>1. NewPage(name) \in Tab /\ NewPage(name).path = Normal[name] /\ NewPage(name).arrow = NoLine
  BY NotebookAssumption DEF NewPage, Tab, NoLine
<1>2. Len(tabs) \in Nat /\ DOMAIN tabs = 1..Len(tabs)
  BY LenProperties
<1>3. /\ pages \in Seq(Tab) /\ PageOf(name) \in DOMAIN pages
      /\ pages[PageOf(name)].path \in {name, Normal[name]}
      /\ Clear(tabs) => Clear(pages)
  <2>1. CASE Showing(name) = {}
    <3>1. /\ Append(tabs, NewPage(name)) \in Seq(Tab)
          /\ DOMAIN Append(tabs, NewPage(name)) = 1..(Len(tabs) + 1)
          /\ Append(tabs, NewPage(name))[Len(tabs) + 1] = NewPage(name)
          /\ \A i \in DOMAIN tabs : Append(tabs, NewPage(name))[i] = tabs[i]
      BY <1>1, <1>2, AppendProperties
    <3>2. pages = Append(tabs, NewPage(name)) /\ PageOf(name) = Len(tabs) + 1
      BY <2>1 DEF PageOf
    <3> HIDE DEF pages
    <3>3. Clear(tabs) => Clear(pages)
      BY <1>1, <1>2, <3>1, <3>2 DEF Clear
    <3> QED  BY <1>1, <1>2, <3>1, <3>2, <3>3
  <2>2. CASE Showing(name) # {}
    <3>1. PageOf(name) \in Showing(name)
      BY <2>2, LastShowing DEF PageOf
    <3> QED  BY <2>2, <3>1 DEF Showing
  <2> QED  BY <2>1, <2>2
<1>4. Opened(name) = Marked(pages, listed)
  BY DEF Opened
<1> HIDE DEF pages
<1>5. Opened(name) \in Seq(Tab)
  BY <1>3, <1>4, MarkedOK DEF PagesOK
<1>6. Keeps(Opened(name), pages)
  BY <1>3, <1>4, KeepsArrows
<1> QED  BY <1>3, <1>5, <1>6, KeepsClear DEF Keeps

SelectedOK == selected \in 0..Len(tabs) /\ (selected = 0 <=> tabs = <<>>)

RestOK ==
  /\ prog \in {"none", "loaded", "running", "stopped", "exited", "killed"}
  /\ current \in [file : Names \union {NoFile}, line : Lines \union {NoLine}]
  /\ sources \in BOOLEAN /\ crashed \in BOOLEAN /\ view \in {"clear", "stop", "user"}
  /\ SelectedOK

\* Arrows are there after a stop or at the user's wish; a session or program
\* that is over still has its last event in the queue, which removes them.
Over == prog \in {"none", "loaded", "exited"}
Ends(queue) == queue # <<>> /\ queue[Len(queue)].kind \in {"exit", "terminated", "ended"}

ArrowsOK ==
  /\ view = "clear" => Clear(tabs)
  /\ prog = "loaded" => events = <<>> /\ view # "stop"
  /\ Over /\ (events # <<>> \/ view = "stop") => Ends(events)

ViewInv == RestOK /\ ArrowsOK /\ StopInView

\* As many pages as before, and the same one selected
LEMMA SameSelected ==
  ASSUME SelectedOK, tabs \in Seq(Tab), tabs' \in Seq(Tab), DOMAIN tabs' = DOMAIN tabs, UNCHANGED selected
  PROVE  SelectedOK'
<1>1. Len(tabs') = Len(tabs) /\ Len(tabs) \in Nat
  BY LenProperties
<1>2. tabs' = <<>> <=> tabs = <<>>
  BY <1>1, EmptySeq, LenProperties
<1> QED  BY <1>1, <1>2 DEF SelectedOK

\* Repainting opens and closes no page.
LEMMA RepaintDomains ==
  ASSUME NEW pages, NEW places, NEW file, NEW line
  PROVE  /\ DOMAIN Marked(pages, places) = DOMAIN pages /\ DOMAIN Disabled(pages) = DOMAIN pages
         /\ DOMAIN Bare(pages) = DOMAIN pages /\ DOMAIN GotoLine(pages, file, line) = DOMAIN pages
BY DEF Marked, Disabled, Bare, GotoLine

\* openFile selects a page that is there, and makes no arrow.
LEMMA OpenFileView ==
  ASSUME tabs \in Seq(Tab), RestOK, NEW name \in Names, NEW pages \in Seq(Tab),
         DOMAIN pages = DOMAIN Opened(name), OpenFile(name, pages)
  PROVE  /\ SelectedOK' /\ crashed' \in BOOLEAN
         /\ Clear(tabs) /\ Clear(pages) => Clear(tabs')
<1>1. CASE Full(name)
  BY <1>1 DEF OpenFile, RestOK, SelectedOK
<1>2. CASE ~ Full(name)
  <2>1. tabs' = pages /\ selected' = PageOf(name) /\ crashed' = crashed
    BY <1>2 DEF OpenFile
  <2>2. PageOf(name) \in 1..Len(pages) /\ Len(pages) \in Nat
    BY OpenedPage, LenProperties
  <2>3. pages # <<>>
    BY <2>2, EmptySeq
  <2> QED  BY <2>1, <2>2, <2>3 DEF RestOK, SelectedOK
<1> QED  BY <1>1, <1>2

\* Opening a file at a line selects a page that is there.
LEMMA OpenAtView ==
  ASSUME Inv, RestOK, NEW name \in Names \union {NoFile}, NEW line, OpenAt(name, line)
  PROVE  SelectedOK' /\ crashed' \in BOOLEAN
<1>1. CASE name = NoFile
  BY <1>1 DEF OpenAt, RestOK, SelectedOK
<1>2. CASE name # NoFile
  <2> DEFINE pages == [Opened(name) EXCEPT ![PageOf(name)] = PointAt(@, line)]
  <2>1. OpenFile(name, pages) /\ name \in Names /\ DOMAIN pages = DOMAIN Opened(name)
    BY <1>2 DEF OpenAt
  <2>2. tabs \in Seq(Tab) /\ PagesOK(Opened(name), listed) /\ Once(Opened(name))
    BY <2>1, OpenedOK DEF Inv, PagesOK
  <2>3. pages \in Seq(Tab)
    BY <2>2, PointedOK DEF PagesOK
  <2> HIDE DEF pages
  <2> QED  BY <2>1, <2>2, <2>3, OpenFileView
<1> QED  BY <1>1, <1>2

\* Taking an event leaves the last one, unless it was that.
LEMMA TakeQueue ==
  ASSUME QueueOK, NEW kind, Take(kind), events' = Tail(events)
  PROVE  /\ events # <<>> /\ Head(events) \in Event /\ Head(events).kind = kind
         /\ events' # <<>> => events'[Len(events')] = events[Len(events)]
         /\ events' = <<>> => events[Len(events)].kind = kind
<1>1. /\ events \in Seq(Event) /\ events # <<>> /\ events' = Tail(events)
      /\ Head(events).kind = kind
  BY DEF QueueOK, Take
<1>2. Head(events) \in Event /\ Head(events) = events[1]
  BY <1>1, HeadTailProperties
<1>3. /\ Tail(events) \in Seq(Event) /\ Len(Tail(events)) = Len(events) - 1
      /\ \A i \in 1..Len(Tail(events)) : Tail(events)[i] = events[i + 1]
      /\ Len(events) \in Nat /\ Len(events) >= 1
  BY <1>1, HeadTailProperties, EmptySeq, LenProperties
<1>4. Tail(events) = <<>> <=> Len(events) = 1
  <2>1. Tail(events) = <<>> <=> Len(Tail(events)) = 0
    BY <1>3, EmptySeq, Zenon
  <2> QED  BY <1>3, <2>1
<1>5. Tail(events) # <<>> => Tail(events)[Len(Tail(events))] = events[Len(events)]
  BY <1>3, <1>4
<1> QED  BY <1>1, <1>2, <1>4, <1>5

\* One proof step per action, in each of the three lemmas.
LEMMA RestStep ==
  ASSUME Inv, Inv', QueueOK, RestOK, Next
  PROVE  RestOK'
<1>0. /\ tabs \in Seq(Tab) /\ tabs' \in Seq(Tab)
      /\ NoFile \in Names \union {NoFile}
  BY DEF Inv, PagesOK
<1> USE DEF RestOK
<1>1. CASE OpenSession \/ CloseSession \/ Resume \/ Continue
  <2>1. DOMAIN tabs' = DOMAIN tabs /\ UNCHANGED selected
    BY <1>1, RepaintDomains DEF OpenSession, CloseSession, Resume, Continue
  <2> QED  BY <1>0, <1>1, <2>1, SameSelected DEF OpenSession, CloseSession, Resume, Continue
<1>2. CASE ListBreakpoints
  <2>1. DOMAIN tabs' = DOMAIN tabs
    BY <1>2, RepaintDomains DEF ListBreakpoints
  <2> QED  BY <1>0, <1>2, <2>1, SameSelected DEF ListBreakpoints
<1>3. ASSUME NEW name \in Names, OpenSource(name)
      PROVE  RestOK'
  <2>1. SelectedOK' /\ crashed' \in BOOLEAN
    BY <1>0, <1>3, OpenedPage, OpenFileView DEF OpenSource
  <2> QED  BY <1>3, <2>1 DEF OpenSource, Moved
<1>4. ASSUME NEW place \in listed, GotoBreakpoint(place)
      PROVE  RestOK'
  <2>1. place[1] \in Names
    BY NotebookAssumption DEF QueueOK
  <2>2. SelectedOK' /\ crashed' \in BOOLEAN
    BY <1>4, <2>1, OpenAtView DEF GotoBreakpoint
  <2> QED  BY <1>4, <2>2 DEF GotoBreakpoint
<1>5. ASSUME NEW name \in Names \union {NoFile}, NEW line \in Lines, SelectFrame(name, line)
      PROVE  RestOK'
  <2>1. SelectedOK' /\ crashed' \in BOOLEAN
    BY <1>5, OpenAtView DEF SelectFrame
  <2> QED  BY <1>5, <2>1 DEF SelectFrame
<1>6. ASSUME NEW line \in Lines, GoToLine(line)
      PROVE  RestOK'
  <2>1. DOMAIN tabs' = DOMAIN tabs
    BY <1>6, RepaintDomains DEF GoToLine
  <2> QED  BY <1>0, <1>6, <2>1, SameSelected DEF GoToLine
<1>7. ASSUME NEW i \in DOMAIN tabs, SelectTab(i)
      PROVE  RestOK'
  <2>1. i \in 1..Len(tabs) /\ Len(tabs) \in Nat /\ tabs # <<>>
    BY <1>0, LenProperties, EmptySeq
  <2> QED  BY <1>7, <2>1 DEF SelectTab, SelectedOK, Moved
<1>8. ASSUME NEW i \in DOMAIN tabs, CloseTab(i)
      PROVE  RestOK'
  <2>1. i \in 1..Len(tabs) /\ Len(tabs) \in Nat
    BY <1>0, LenProperties
  <2>2. tabs' = RemoveAt(tabs, i) /\ Len(tabs') \in Nat /\ DOMAIN tabs' = 1..Len(tabs')
    BY <1>0, <1>8, LenProperties DEF CloseTab
  <2>3. DOMAIN tabs' = 1..(Len(tabs) - 1)
    BY <1>0, <2>2, ClosedPages
  <2>4. Len(tabs') = Len(tabs) - 1
    BY <2>1, <2>2, <2>3
  <2>5. tabs' = <<>> <=> Len(tabs) = 1
    <3>1. tabs' = <<>> <=> Len(tabs') = 0
      BY <1>0, EmptySeq, Zenon
    <3> QED  BY <2>1, <2>4, <3>1
  <2>6. selected' \in IF Len(tabs) = 1 THEN {0} ELSE 1..(Len(tabs) - 1)
    BY <1>8 DEF CloseTab
  <2>7. SelectedOK'
    BY <2>1, <2>4, <2>5, <2>6 DEF SelectedOK
  <2> QED  BY <1>8, <2>7 DEF CloseTab, Moved
<1>9. CASE HandleStop
  <2> DEFINE stop == Head(events)
             pages == GotoLine(Opened(stop.file), stop.file, stop.line)
  <2>1. /\ stop.file \in Names \union {NoFile} /\ stop.line \in Lines
        /\ UNCHANGED <<prog, listed, sources>> /\ view' = "stop"
        /\ current' = [file |-> stop.file, line |-> stop.line]
    BY <1>9, TakeQueue DEF HandleStop, Take, Event, Stop
  <2>2. CASE stop.file = NoFile
    <3>1. DOMAIN tabs' = DOMAIN tabs /\ UNCHANGED <<selected, crashed>>
      BY <1>9, <2>2, RepaintDomains DEF HandleStop
    <3> QED  BY <1>0, <2>1, <3>1, SameSelected
  <2>3. CASE stop.file # NoFile
    <3>1. OpenFile(stop.file, pages) /\ stop.file \in Names
      BY <1>9, <2>1, <2>3 DEF HandleStop
    <3>2. pages \in Seq(Tab) /\ DOMAIN pages = DOMAIN Opened(stop.file)
      <4>1. PagesOK(Opened(stop.file), listed) /\ Once(Opened(stop.file))
        BY <3>1, OpenedOK DEF Inv
      <4>2. PagesOK(pages, listed)
        BY <4>1, GotoLineOK
      <4>3. DOMAIN pages = DOMAIN Opened(stop.file)
        BY RepaintDomains
      <4> HIDE DEF pages
      <4> QED  BY <4>2, <4>3 DEF PagesOK
    <3> HIDE DEF pages
    <3>3. SelectedOK' /\ crashed' \in BOOLEAN
      BY <1>0, <3>1, <3>2, OpenFileView
    <3> QED  BY <2>1, <3>3
  <2> QED  BY <2>2, <2>3
<1>10. CASE HandleSignal \/ HandleExit
  <2>1. DOMAIN tabs' = DOMAIN tabs /\ UNCHANGED selected
    BY <1>10, RepaintDomains DEF HandleSignal, HandleExit
  <2> QED  BY <1>0, <1>10, <2>1, SameSelected DEF HandleSignal, HandleExit, Take
<1>11. CASE HandleEnded \/ HandleTerminated
  BY <1>11, EmptySeq DEF HandleEnded, HandleTerminated, Take, SelectedOK
<1>12. CASE ProgramStops
  BY <1>12 DEF ProgramStops, SelectedOK
<1> QED
  BY <1>1, <1>2, <1>3, <1>4, <1>5, <1>6, <1>7, <1>8, <1>9, <1>10, <1>11, <1>12 DEF Next

\* Every step keeps the arrows in a session, or what clears them at the end of the queue.
LEMMA ArrowStep ==
  ASSUME Inv, QueueOK, QueueOK', RestOK, ArrowsOK, Next
  PROVE  ArrowsOK'
<1>0. tabs \in Seq(Tab) /\ events \in Seq(Event) /\ Len(events) \in Nat
  BY LenProperties DEF Inv, PagesOK, QueueOK
<1>1. CASE OpenSession
  BY <1>0, <1>1, KeepsArrows DEF OpenSession, ArrowsOK, Ends, Over
<1>2. CASE CloseSession
  <2>1. PICK k \in 0..Len(events) : events' = Append(SubSeq(events, 1, k), [kind |-> "terminated"])
    BY <1>2 DEF CloseSession
  <2>2. SubSeq(events, 1, k) \in Seq(Event) /\ [kind |-> "terminated"] \in Event
    <3>1. \A j \in 1..k : events[j] \in Event
      BY <1>0, ElementOfSeq
    <3> QED  BY <3>1, SubSeqProperties DEF Event
  <2>3. Ends(events')
    <3> DEFINE front == SubSeq(events, 1, k)
               new   == Append(front, [kind |-> "terminated"])
    <3> HIDE DEF front
    <3>1. front \in Seq(Event) /\ Len(front) \in Nat
      BY <2>2, LenProperties DEF front
    <3>2. new \in Seq(Event) /\ Len(new) = Len(front) + 1 /\ new[Len(new)] = [kind |-> "terminated"]
      BY <2>2, <3>1, AppendProperties
    <3>3. new # <<>>
      BY <3>1, <3>2, EmptySeq
    <3> QED  BY <2>1, <3>2, <3>3 DEF Ends, front
  <2> QED  BY <1>0, <1>2, <2>3, KeepsArrows DEF CloseSession, ArrowsOK
<1>3. CASE Resume \/ Continue
  <2>1. Clear(tabs) => Clear(tabs')
    BY <1>0, <1>3, KeepsArrows, KeepsClear DEF Resume, Continue
  <2> QED  BY <1>3, <2>1 DEF Resume, Continue, ArrowsOK, Over
<1>4. CASE ListBreakpoints
  <2>1. Clear(tabs) => Clear(tabs')
    BY <1>0, <1>4, KeepsArrows, KeepsClear DEF ListBreakpoints
  <2> QED  BY <1>4, <2>1 DEF ListBreakpoints, ArrowsOK, Over
<1>5. ASSUME NEW name \in Names, OpenSource(name)
      PROVE  ArrowsOK'
  <2>1. Opened(name) \in Seq(Tab) /\ (Clear(tabs) => Clear(Opened(name)))
    BY <1>0, OpenedPage
  <2>2. OpenFile(name, Opened(name))
    BY <1>5 DEF OpenSource
  <2>3. Clear(tabs) => Clear(tabs')
    BY <1>0, <1>5, <2>1, <2>2, OpenFileView
  <2> QED  BY <1>5, <2>3 DEF OpenSource, ArrowsOK, Over, Moved, RestOK
<1>6. ASSUME NEW place, NEW name, NEW line,
             GotoBreakpoint(place) \/ SelectFrame(name, line) \/ GoToLine(line)
      PROVE  ArrowsOK'
  BY <1>6 DEF GotoBreakpoint, SelectFrame, GoToLine, ArrowsOK, Over
<1>7. ASSUME NEW i \in DOMAIN tabs, SelectTab(i)
      PROVE  ArrowsOK'
  BY <1>7 DEF SelectTab, ArrowsOK, Over, Moved, RestOK
<1>8. ASSUME NEW i \in DOMAIN tabs, CloseTab(i)
      PROVE  ArrowsOK'
  <2>1. /\ DOMAIN tabs' = 1..(Len(tabs) - 1)
        /\ \A k \in 1..(Len(tabs) - 1) : After(i, k) \in DOMAIN tabs /\ tabs'[k] = tabs[After(i, k)]
    <3>1. tabs' = RemoveAt(tabs, i)
      BY <1>8 DEF CloseTab
    <3> QED  BY <1>0, <3>1, ClosedPages
  <2>2. Clear(tabs) => Clear(tabs')
    BY <2>1 DEF Clear
  <2> QED  BY <1>8, <2>2 DEF CloseTab, ArrowsOK, Over, Moved, RestOK
<1>9. ASSUME NEW kind \in {"stop", "signal"}, Take(kind), events' = Tail(events)
      PROVE  /\ prog # "loaded" /\ UNCHANGED prog
             /\ Over /\ (events' # <<>> \/ view' = "stop") => Ends(events')
  <2>1. events # <<>> /\ UNCHANGED prog
    BY <1>9, TakeQueue DEF Take
  <2>2. CASE Over
    <3>1. events[Len(events)].kind \in {"exit", "terminated", "ended"}
      BY <2>1, <2>2 DEF ArrowsOK, Ends
    <3> QED  BY <1>9, <2>1, <3>1, TakeQueue DEF Ends, ArrowsOK
  <2> QED  BY <2>1, <2>2 DEF ArrowsOK
<1>10. CASE HandleStop
  <2>1. view' = "stop" /\ Take("stop") /\ events' = Tail(events)
    BY <1>10 DEF HandleStop
  <2> QED  BY <1>9, <2>1 DEF ArrowsOK, Over
<1>11. CASE HandleSignal
  <2>1. Clear(tabs) => Clear(tabs')
    BY <1>0, <1>11, KeepsArrows, KeepsClear DEF HandleSignal
  <2>2. Take("signal") /\ events' = Tail(events) /\ UNCHANGED view
    BY <1>11 DEF HandleSignal
  <2>3. /\ prog # "loaded" /\ UNCHANGED prog
        /\ Over /\ (events' # <<>> \/ view' = "stop") => Ends(events')
    BY <1>9, <2>2
  <2> QED  BY <2>1, <2>2, <2>3 DEF ArrowsOK, Over
<1>12. ASSUME NEW kind, Take(kind), events' = Tail(events), view' = "clear", Clear(tabs')
       PROVE  ArrowsOK'
  <2>1. /\ events # <<>> /\ UNCHANGED prog
        /\ events' # <<>> => events'[Len(events')] = events[Len(events)]
    BY <1>12, TakeQueue DEF Take
  <2>2. Over /\ events' # <<>> => Ends(events')
    BY <2>1 DEF ArrowsOK, Ends
  <2> QED  BY <1>12, <2>1, <2>2 DEF ArrowsOK, Over
<1>13. CASE HandleExit
  BY <1>0, <1>12, <1>13, KeepsArrows DEF HandleExit
<1>14. CASE HandleEnded
  BY <1>12, <1>14 DEF HandleEnded, Clear
<1>16. CASE HandleTerminated
  <2> DEFINE tail == Tail(events)
             ended == [kind |-> "ended"]
  <2>1. /\ events # <<>> /\ Head(events).kind = "terminated"
        /\ UNCHANGED <<prog, tabs, view>> /\ events' = Append(tail, ended)
    BY <1>16 DEF HandleTerminated, Take
  <2>2. tail \in Seq(Event) /\ ended \in Event /\ Len(tail) \in Nat
    BY <1>0, <2>1, HeadTailProperties, LenProperties DEF Event
  <2> HIDE DEF tail
  <2>3. /\ Append(tail, ended) \in Seq(Event) /\ Len(Append(tail, ended)) = Len(tail) + 1
        /\ Append(tail, ended)[Len(tail) + 1] = ended
    BY <2>2, AppendProperties
  <2>4. Append(tail, ended) # <<>>
    BY <2>2, <2>3, EmptySeq
  <2>5. Ends(events')
    BY <2>1, <2>3, <2>4 DEF Ends
  <2> QED  BY <2>1, <2>5 DEF ArrowsOK, Over, Clear
<1>15. CASE ProgramStops
  <2>1. \A e \in Event : /\ Append(events, e) # <<>>
                         /\ Append(events, e)[Len(Append(events, e))] = e
    BY <1>0, AppendProperties, EmptySeq
  <2>2. UNCHANGED <<tabs, view>> /\ prog' \in {"stopped", "exited", "killed"}
    BY <1>15 DEF ProgramStops
  <2>3. prog' = "exited" => Ends(events')
    <3>1. [kind |-> "exit"] \in Event
      BY DEF Event
    <3> QED  BY <1>15, <2>1, <3>1 DEF ProgramStops, Ends
  <2> QED  BY <2>2, <2>3 DEF ArrowsOK, Over
<1> QED
  BY <1>1, <1>2, <1>3, <1>4, <1>5, <1>6, <1>7, <1>8, <1>10, <1>11, <1>13, <1>14, <1>15, <1>16 DEF Next

\* Every step keeps the stop's line in view.
LEMMA StopStep ==
  ASSUME Inv, QueueOK, RestOK, StopInView, Next
  PROVE  StopInView'
<1>0. tabs \in Seq(Tab)
  BY DEF Inv, PagesOK
<1>1. ASSUME Keeps(tabs', tabs), UNCHANGED <<selected, current, crashed>>, view' = "stop" => view = "stop"
      PROVE  StopInView'
  <2> SUFFICES ASSUME view' = "stop", ~ crashed', current'.file \in Files
               PROVE  selected' # 0 /\ tabs'[selected'].path = current'.file
                                    /\ tabs'[selected'].arrow = current'.line
    BY DEF StopInView
  <2>1. selected # 0 /\ tabs[selected].path = current.file /\ tabs[selected].arrow = current.line
    BY <1>1 DEF StopInView
  <2>2. selected \in DOMAIN tabs
    BY <1>0, <2>1, LenProperties DEF RestOK, SelectedOK
  <2> QED  BY <1>1, <2>1, <2>2 DEF Keeps
<1>2. ASSUME view' # "stop"
      PROVE  StopInView'
  BY <1>2 DEF StopInView
<1>3. CASE OpenSession \/ CloseSession \/ HandleExit \/ HandleEnded
  BY <1>2, <1>3 DEF OpenSession, CloseSession, HandleExit, HandleEnded
<1>4. CASE \E name \in Names : OpenSource(name)
  BY <1>2, <1>4 DEF OpenSource, Moved, RestOK
<1>5. CASE \E i \in DOMAIN tabs : SelectTab(i) \/ CloseTab(i)
  BY <1>2, <1>5 DEF SelectTab, CloseTab, Moved, RestOK
<1>6. ASSUME NEW place, NEW name, NEW line,
             GotoBreakpoint(place) \/ SelectFrame(name, line) \/ GoToLine(line)
      PROVE  StopInView'
  BY <1>2, <1>6 DEF GotoBreakpoint, SelectFrame, GoToLine
<1>7. CASE Resume \/ Continue \/ ListBreakpoints \/ HandleSignal \/ HandleTerminated \/ ProgramStops
  <2>1. Keeps(tabs', tabs)
    BY <1>0, <1>7, KeepsArrows
       DEF Resume, Continue, ListBreakpoints, HandleSignal, HandleTerminated, ProgramStops, Keeps
  <2> QED
    BY <1>1, <1>7, <2>1
       DEF Resume, Continue, ListBreakpoints, HandleSignal, HandleTerminated, ProgramStops
<1>8. CASE HandleStop
  <2> DEFINE file == Head(events).file
             line == Head(events).line
  <2> SUFFICES ASSUME ~ crashed', file \in Files
               PROVE  selected' # 0 /\ tabs'[selected'].path = file /\ tabs'[selected'].arrow = line
    BY <1>8 DEF HandleStop, StopInView
  <2>1. file \in Names \union {NoFile} /\ line \in Lines
    BY <1>8, TakeQueue DEF HandleStop, Event, Stop
  <2>2. file \in Names /\ Normal[file] = file /\ file # NoFile
    BY <2>1, NotebookAssumption DEF NoFile
  <2> HIDE DEF file, line
  <2>3. /\ tabs' = GotoLine(Opened(file), file, line)
        /\ selected' = PageOf(file)
    BY <1>8, <2>2 DEF HandleStop, OpenFile, file, line
  <2>4. /\ Opened(file) \in Seq(Tab) /\ PageOf(file) \in DOMAIN Opened(file)
        /\ Opened(file)[PageOf(file)].path = file
    BY <1>0, <2>2, OpenedPage
  <2>5. PageOf(file) # 0 /\ Opened(file)[PageOf(file)] \in Tab
    BY <2>4, ElementOfSeq, LenProperties
  <2>6. tabs'[PageOf(file)] = PointAt(Opened(file)[PageOf(file)], line)
    BY <2>3, <2>4 DEF GotoLine
  <2>7. tabs'[PageOf(file)].path = file /\ tabs'[PageOf(file)].arrow = line
    BY <2>1, <2>4, <2>5, <2>6 DEF PointAt, Tab
  <2> QED  BY <2>3, <2>5, <2>7
<1> QED  BY <1>3, <1>4, <1>5, <1>6, <1>7, <1>8 DEF Next
-----------------------------------------------------------------------------
\* The invariant of all pages, arrows and events
THEOREM ViewCorrect == Spec => [](Inv /\ QueueOK /\ ViewInv)
<1>1. Init => ViewInv
  <2> SUFFICES ASSUME Init PROVE ViewInv
    OBVIOUS
  <2>1. Len(tabs) = 0 /\ tabs = <<>> /\ DOMAIN tabs = {}
    BY DEF Init
  <2>2. RestOK
    <3>1. SelectedOK
      BY <2>1 DEF Init, SelectedOK
    <3>2. current \in [file : Names \union {NoFile}, line : Lines \union {NoLine}]
      BY DEF Init
    <3> QED  BY <3>1, <3>2 DEF Init, RestOK
  <2>3. view = "clear" /\ events = <<>> /\ Clear(tabs)
    BY <2>1 DEF Init, Clear
  <2> QED  BY <2>2, <2>3 DEF ViewInv, ArrowsOK, StopInView
<1>2. Inv /\ QueueOK /\ (Inv /\ QueueOK)' /\ ViewInv /\ [Next]_vars => ViewInv'
  <2> SUFFICES ASSUME Inv, QueueOK, Inv', QueueOK', ViewInv, [Next]_vars PROVE ViewInv'
    OBVIOUS
  <2>1. CASE Next
    BY <2>1, RestStep, ArrowStep, StopStep DEF ViewInv
  <2>2. CASE UNCHANGED vars
    BY <2>2 DEF vars, ViewInv, RestOK, SelectedOK, ArrowsOK, StopInView, Clear, Over, Ends
  <2> QED  BY <2>1, <2>2
<1> QED  BY <1>1, <1>2, InvCorrect, PTL DEF Spec

\* Every variable of the notebook keeps its type.
THEOREM TypeCorrect == Spec => []TypeOK
<1>1. Inv /\ QueueOK /\ ViewInv => TypeOK
  BY DEF Inv, PagesOK, QueueOK, ViewInv, RestOK, SelectedOK, TypeOK
<1> QED  BY <1>1, ViewCorrect, PTL

\* The page of a stop stays in view with the arrow at its line.
THEOREM StopStaysInView == Spec => []StopInView
<1>1. ViewInv => StopInView
  BY DEF ViewInv
<1> QED  BY <1>1, ViewCorrect, PTL

\* No arrow is left once a program has exited or its session is closed, in
\* whatever order stops, the exit and the end of gdb are handled; where a
\* signal ended the program nothing is said, for there the arrow stays.
THEOREM ArrowsGo == Spec => []NoArrowLeft
<1>1. ViewInv => NoArrowLeft
  BY DEF ViewInv, RestOK, ArrowsOK, NoArrowLeft, Over, Ends, Clear
<1> QED  BY <1>1, ViewCorrect, PTL
=============================================================================
