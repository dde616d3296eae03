-------------------------- MODULE WorkspaceProofs ---------------------------
(***************************************************************************)
(* The View menu tells what is shown, and no panel is used after it was    *)
(* destroyed, for any sessions, files and tabs closed.  One lemma says     *)
(* what each helper of the desk does to its fields; the notebooks' and the *)
(* menu's functions follow from these, and they keep what DeskOK says.     *)
(* Then the lists under a search box: what the loop of a search takes      *)
(* (Only), and that it is what the user asks for, for any names and texts. *)
(***************************************************************************)
EXTENDS Workspace, SequenceTheorems, WellFoundedInduction, TLAPS

Shown == SUBSET (Panes \union {"left", "right"})

\* The fields of a desk
LEMMA DeskFields ==
  ASSUME NEW d \in Desk
  PROVE  /\ d.tabs \in [Tabbed -> Nat] /\ d.shown \in Shown
         /\ d.checked \in SUBSET Items /\ d.alive \in SUBSET Tabbed
         /\ d.crashed \in BOOLEAN /\ d.astray \in SUBSET Items
BY DEF Desk, Shown

\* Two desks that differ in the field named at most
SameBut(e, d, field) ==
  /\ field = "tabs" \/ e.tabs = d.tabs
  /\ field = "shown" \/ e.shown = d.shown
  /\ field = "checked" \/ e.checked = d.checked
  /\ field = "alive" \/ e.alive = d.alive
  /\ field = "crashed" \/ e.crashed = d.crashed
  /\ field = "astray" \/ e.astray = d.astray

\* What the helpers do
LEMMA PagedFields ==
  ASSUME NEW d \in Desk, NEW panel \in Tabbed, NEW n \in Nat
  PROVE  /\ Paged(d, panel, n) \in Desk
         /\ Paged(d, panel, n).tabs = [d.tabs EXCEPT ![panel] = n]
         /\ SameBut(Paged(d, panel, n), d, "tabs")
<1> DEFINE X == [d.tabs EXCEPT ![panel] = n]
<1>1. X \in [Tabbed -> Nat]
  BY DeskFields
<1>2. Paged(d, panel, n) = [d EXCEPT !.tabs = X]
  BY DEF Paged
<1> HIDE DEF X
<1>3. /\ [d EXCEPT !.tabs = X] \in Desk
      /\ [d EXCEPT !.tabs = X].tabs = X
      /\ SameBut([d EXCEPT !.tabs = X], d, "tabs")
  BY <1>1, SMTT(20) DEF Desk, SameBut
<1> QED  BY <1>2, <1>3 DEF X

\* Showing or hiding a pane changes what is shown, and nothing else.
LEMMA ShownFields ==
  ASSUME NEW d \in Desk, NEW pane \in Panes \union {"left", "right"}
  PROVE  /\ Revealed(d, pane) \in Desk /\ Concealed(d, pane) \in Desk
         /\ Revealed(d, pane).shown = d.shown \union {pane}
         /\ Concealed(d, pane).shown = d.shown \ {pane}
         /\ SameBut(Revealed(d, pane), d, "shown")
         /\ SameBut(Concealed(d, pane), d, "shown")
<1>1. /\ d.shown \union {pane} \in Shown
      /\ d.shown \ {pane} \in Shown
  BY DeskFields DEF Shown
<1>2. ASSUME NEW X \in Shown
      PROVE  /\ [d EXCEPT !.shown = X] \in Desk
             /\ [d EXCEPT !.shown = X].shown = X
             /\ SameBut([d EXCEPT !.shown = X], d, "shown")
  BY SMTT(20) DEF Desk, SameBut, Shown
<1>3. /\ Revealed(d, pane) = [d EXCEPT !.shown = d.shown \union {pane}]
      /\ Concealed(d, pane) = [d EXCEPT !.shown = d.shown \ {pane}]
  BY DEF Revealed, Concealed
<1> QED  BY <1>1, <1>2, <1>3

\* Checking an item changes the menu only.
LEMMA CheckFields ==
  ASSUME NEW d \in Desk, NEW item \in Items, NEW on \in BOOLEAN
  PROVE  /\ Check(d, item, on) \in Desk
         /\ Check(d, item, on).checked = (IF on THEN d.checked \union {item} ELSE d.checked \ {item})
         /\ SameBut(Check(d, item, on), d, "checked")
<1> DEFINE X == IF on THEN d.checked \union {item} ELSE d.checked \ {item}
<1>1. X \in SUBSET Items
  BY DeskFields
<1>2. Check(d, item, on) = [d EXCEPT !.checked = X]
  BY DEF Check
<1> HIDE DEF X
<1>3. /\ [d EXCEPT !.checked = X] \in Desk
      /\ [d EXCEPT !.checked = X].checked = X
      /\ SameBut([d EXCEPT !.checked = X], d, "checked")
  BY <1>1, SMTT(20) DEF Desk, SameBut
<1> QED  BY <1>2, <1>3 DEF X

\* Destroying a panel only makes it one that is not alive.
LEMMA DestroyedFields ==
  ASSUME NEW d \in Desk, NEW panel \in Tabbed
  PROVE  /\ Destroyed(d, panel) \in Desk
         /\ Destroyed(d, panel).alive = d.alive \ {panel}
         /\ SameBut(Destroyed(d, panel), d, "alive")
<1> DEFINE X == d.alive \ {panel}
<1>1. X \in SUBSET Tabbed
  BY DeskFields
<1>2. Destroyed(d, panel) = [d EXCEPT !.alive = X]
  BY DEF Destroyed
<1> HIDE DEF X
<1>3. /\ [d EXCEPT !.alive = X] \in Desk
      /\ [d EXCEPT !.alive = X].alive = X
      /\ SameBut([d EXCEPT !.alive = X], d, "alive")
  BY <1>1, SMTT(20) DEF Desk, SameBut
<1> QED  BY <1>2, <1>3 DEF X

\* Using panels only crashes the program, if one of them is destroyed.
LEMMA UsedFields ==
  ASSUME NEW d \in Desk, NEW panels
  PROVE  /\ Used(d, panels) \in Desk
         /\ Used(d, panels).crashed = (d.crashed \/ ~ panels \subseteq d.alive)
         /\ SameBut(Used(d, panels), d, "crashed")
<1> DEFINE X == d.crashed \/ ~ panels \subseteq d.alive
<1>1. X \in BOOLEAN
  OBVIOUS
<1>2. Used(d, panels) = [d EXCEPT !.crashed = X]
  BY DEF Used
<1> HIDE DEF X
<1>3. /\ [d EXCEPT !.crashed = X] \in Desk
      /\ [d EXCEPT !.crashed = X].crashed = X
      /\ SameBut([d EXCEPT !.crashed = X], d, "crashed")
  BY <1>1, SMTT(20) DEF Desk, SameBut
<1> QED  BY <1>2, <1>3 DEF X

\* The histories of what went astray are kept and cleared by themselves.
LEMMA AstrayFields ==
  ASSUME NEW d \in Desk, NEW items \in SUBSET Items, NEW item
  PROVE  /\ Strayed(d, items) \in Desk /\ Settled(d, item) \in Desk
         /\ Strayed(d, items).astray = d.astray \union items
         /\ Settled(d, item).astray = d.astray \ {item}
         /\ SameBut(Strayed(d, items), d, "astray")
         /\ SameBut(Settled(d, item), d, "astray")
<1>1. /\ d.astray \union items \in SUBSET Items
      /\ d.astray \ {item} \in SUBSET Items
  BY DeskFields
<1>2. ASSUME NEW X \in SUBSET Items
      PROVE  /\ [d EXCEPT !.astray = X] \in Desk
             /\ [d EXCEPT !.astray = X].astray = X
             /\ SameBut([d EXCEPT !.astray = X], d, "astray")
  BY SMTT(20) DEF Desk, SameBut
<1>3. /\ Strayed(d, items) = [d EXCEPT !.astray = d.astray \union items]
      /\ Settled(d, item) = [d EXCEPT !.astray = d.astray \ {item}]
  BY DEF Strayed, Settled
<1> QED  BY <1>1, <1>2, <1>3
-----------------------------------------------------------------------------
(* What the notebooks' and the menu's functions do.                        *)

\* A panel's side is a notebook.
LEMMA Sides ==
  ASSUME NEW panel \in Tabbed
  PROVE  Side(panel) \in Panes \union {"left", "right"}
BY DEF Side, Panes

\* removePage takes at most one page of that panel away, and changes nothing else.
LEMMA RemoveFields ==
  ASSUME NEW d \in Desk, NEW panel \in Tabbed
  PROVE  /\ RemovePage(d, panel) \in Desk
         /\ SameBut(RemovePage(d, panel), d, "tabs")
         /\ \A other \in Tabbed \ {panel} : RemovePage(d, panel).tabs[other] = d.tabs[other]
         /\ RemovePage(d, panel).tabs[panel] = (IF d.tabs[panel] = 0 THEN 0 ELSE d.tabs[panel] - 1)
<1>1. d.tabs \in [Tabbed -> Nat] /\ d.tabs[panel] \in Nat
  BY DeskFields
<1>2. CASE d.tabs[panel] = 0
  BY <1>2 DEF RemovePage, SameBut
<1>3. CASE d.tabs[panel] # 0
  <2> DEFINE n == d.tabs[panel] - 1
  <2>1. n \in Nat
    BY <1>1, <1>3
  <2>2. RemovePage(d, panel) = Paged(d, panel, n)
    BY <1>3 DEF RemovePage
  <2>3. n = d.tabs[panel] - 1
    OBVIOUS
  <2> HIDE DEF n
  <2>4. /\ Paged(d, panel, n) \in Desk /\ SameBut(Paged(d, panel, n), d, "tabs")
        /\ Paged(d, panel, n).tabs = [d.tabs EXCEPT ![panel] = n]
    BY <2>1, PagedFields
  <2>5. /\ \A other \in Tabbed \ {panel} : Paged(d, panel, n).tabs[other] = d.tabs[other]
        /\ Paged(d, panel, n).tabs[panel] = d.tabs[panel] - 1
    BY <1>1, <2>3, <2>4
  <2> QED  BY <1>3, <2>2, <2>4, <2>5
<1> QED  BY <1>2, <1>3

\* addPage adds a page of a panel that is alive; of another it crashes.
LEMMA AddFields ==
  ASSUME NEW d \in Desk, NEW panel \in Tabbed
  PROVE  /\ AddPage(d, panel) \in Desk
         /\ panel \in d.alive =>
              /\ SameBut(AddPage(d, panel), d, "tabs")
              /\ \A other \in Tabbed \ {panel} : AddPage(d, panel).tabs[other] = d.tabs[other]
              /\ AddPage(d, panel).tabs[panel] = d.tabs[panel] + 1
         /\ panel \notin d.alive =>
              SameBut(AddPage(d, panel), d, "crashed") /\ AddPage(d, panel).crashed
<1>1. d.tabs \in [Tabbed -> Nat] /\ d.tabs[panel] \in Nat
  BY DeskFields
<1>2. CASE panel \in d.alive
  <2> DEFINE n == d.tabs[panel] + 1
  <2>1. n \in Nat
    BY <1>1
  <2>2. AddPage(d, panel) = Paged(d, panel, n)
    BY <1>2 DEF AddPage
  <2>3. n = d.tabs[panel] + 1
    OBVIOUS
  <2> HIDE DEF n
  <2>4. /\ Paged(d, panel, n) \in Desk /\ SameBut(Paged(d, panel, n), d, "tabs")
        /\ Paged(d, panel, n).tabs = [d.tabs EXCEPT ![panel] = n]
    BY <2>1, PagedFields
  <2>5. /\ \A other \in Tabbed \ {panel} : Paged(d, panel, n).tabs[other] = d.tabs[other]
        /\ Paged(d, panel, n).tabs[panel] = d.tabs[panel] + 1
    BY <1>1, <2>3, <2>4
  <2> QED  BY <1>2, <2>2, <2>4, <2>5
<1>3. CASE panel \notin d.alive
  <2>1. AddPage(d, panel) = Used(d, {panel})
    BY <1>3 DEF AddPage
  <2> QED  BY <1>3, <2>1, UsedFields
<1> QED  BY <1>2, <1>3

\* The page of a panel is shown, or taken out if it is found
LEMMA ShowFields ==
  ASSUME NEW d \in Desk, NEW panel \in Tabbed
  PROVE  LET e == ShowPage(d, panel)
         IN  /\ e \in Desk /\ e.checked = d.checked /\ e.alive = d.alive
             /\ e.shown = d.shown \union {Side(panel)}
             /\ e.astray = IF d.tabs[panel] > 0 THEN d.astray \union {panel} ELSE d.astray
             /\ \A other \in Tabbed \ {panel} : e.tabs[other] = d.tabs[other]
             /\ FoundAndRemoved(d, panel) => e.crashed = d.crashed /\ e.tabs[panel] = d.tabs[panel] - 1
             /\ ~ FoundAndRemoved(d, panel) =>
                  IF panel \in d.alive THEN e.crashed = d.crashed /\ e.tabs[panel] = d.tabs[panel] + 1
                                       ELSE e.crashed
<1> DEFINE paged == IF FoundAndRemoved(d, panel) THEN RemovePage(d, panel) ELSE AddPage(d, panel)
           shown == Revealed(paged, Side(panel))
           new   == IF d.tabs[panel] > 0 THEN Strayed(shown, {panel}) ELSE shown
<1>1. ShowPage(d, panel) = new
  BY DEF ShowPage
<1>2. d.tabs \in [Tabbed -> Nat] /\ {panel} \in SUBSET Items
  BY DeskFields DEF Items
<1>3. /\ paged \in Desk
      /\ paged.shown = d.shown /\ paged.checked = d.checked /\ paged.alive = d.alive /\ paged.astray = d.astray
      /\ \A other \in Tabbed \ {panel} : paged.tabs[other] = d.tabs[other]
      /\ FoundAndRemoved(d, panel) => paged.crashed = d.crashed /\ paged.tabs[panel] = d.tabs[panel] - 1
      /\ ~ FoundAndRemoved(d, panel) =>
           IF panel \in d.alive THEN paged.crashed = d.crashed /\ paged.tabs[panel] = d.tabs[panel] + 1
                                ELSE paged.crashed
  <2>1. CASE FoundAndRemoved(d, panel)
    <3>1. paged = RemovePage(d, panel) /\ d.tabs[panel] # 0
      BY <1>2, <2>1 DEF FoundAndRemoved
    <3> HIDE DEF paged
    <3> QED  BY <2>1, <3>1, RemoveFields DEF SameBut
  <2>2. CASE ~ FoundAndRemoved(d, panel)
    <3>1. paged = AddPage(d, panel)
      BY <2>2
    <3> HIDE DEF paged
    <3> QED  BY <2>2, <3>1, AddFields DEF SameBut
  <2> QED  BY <2>1, <2>2
<1> HIDE DEF paged
<1>4. /\ shown \in Desk /\ shown.shown = paged.shown \union {Side(panel)}
      /\ SameBut(shown, paged, "shown")
  BY <1>3, Sides, ShownFields
<1> HIDE DEF shown
<1>5. /\ new \in Desk /\ SameBut(new, shown, "astray")
      /\ new.astray = IF d.tabs[panel] > 0 THEN shown.astray \union {panel} ELSE shown.astray
  <2>1. CASE d.tabs[panel] > 0
    BY <1>2, <1>4, <2>1, AstrayFields
  <2>2. CASE ~ d.tabs[panel] > 0
    BY <1>4, <2>2 DEF SameBut
  <2> QED  BY <2>1, <2>2
<1> HIDE DEF new
<1> QED  BY <1>1, <1>3, <1>4, <1>5 DEF SameBut

\* The page of a panel is taken out, and its notebook hidden with the last
LEMMA HideFields ==
  ASSUME NEW d \in Desk, NEW panel \in Tabbed
  PROVE  LET e == HidePage(d, panel)
             p == RemovePage(d, panel)
         IN  /\ e \in Desk /\ e.checked = d.checked /\ e.alive = d.alive /\ e.crashed = d.crashed
             /\ e.tabs = p.tabs
             /\ e.shown = IF Pages(p, Side(panel)) = 0 THEN d.shown \ {Side(panel)} ELSE d.shown
             /\ e.astray = IF p.tabs[panel] = 0 THEN d.astray \ {panel} ELSE d.astray
<1> DEFINE p     == RemovePage(d, panel)
           shown == IF Pages(p, Side(panel)) = 0 THEN Concealed(p, Side(panel)) ELSE p
           new   == SettledIfGone(shown, panel)
<1>1. HidePage(d, panel) = new
  BY DEF HidePage
<1>2. p \in Desk /\ SameBut(p, d, "tabs")
  BY RemoveFields
<1>3. RemovePage(d, panel) = p
  OBVIOUS
<1> HIDE DEF p
<1>4. /\ shown \in Desk /\ SameBut(shown, p, "shown")
      /\ shown.shown = IF Pages(p, Side(panel)) = 0 THEN p.shown \ {Side(panel)} ELSE p.shown
  <2>1. CASE Pages(p, Side(panel)) = 0
    BY <1>2, <2>1, Sides, ShownFields
  <2>2. CASE Pages(p, Side(panel)) # 0
    BY <1>2, <2>2 DEF SameBut
  <2> QED  BY <2>1, <2>2
<1> HIDE DEF shown
<1>5. /\ new \in Desk /\ SameBut(new, shown, "astray")
      /\ new.astray = IF shown.tabs[panel] = 0 THEN shown.astray \ {panel} ELSE shown.astray
  <2>1. {panel} \in SUBSET Items
    BY DEF Items
  <2>2. CASE shown.tabs[panel] = 0
    BY <1>4, <2>1, <2>2, AstrayFields DEF SettledIfGone
  <2>3. CASE shown.tabs[panel] # 0
    BY <1>4, <2>3 DEF SettledIfGone, SameBut
  <2> QED  BY <2>2, <2>3
<1> HIDE DEF new
<1> QED  BY <1>1, <1>2, <1>3, <1>4, <1>5 DEF SameBut

\* Hiding a pane leaves menu, pages and panels alone.
LEMMA HidePaneFields ==
  ASSUME NEW d \in Desk, NEW pane \in Panes
  PROVE  LET e == HidePane(d, pane)
         IN  /\ e \in Desk /\ e.checked = d.checked /\ e.alive = d.alive /\ e.crashed = d.crashed
             /\ e.tabs = d.tabs
             /\ e.shown = d.shown \ {pane} /\ e.astray = d.astray \ {pane}
<1> DEFINE hidden == Concealed(d, pane)
<1>1. hidden \in Desk /\ hidden.shown = d.shown \ {pane} /\ SameBut(hidden, d, "shown")
  BY ShownFields
<1>2. HidePane(d, pane) = Settled(hidden, pane)
  BY DEF HidePane
<1> HIDE DEF hidden
<1>3. /\ Settled(hidden, pane) \in Desk /\ Settled(hidden, pane).astray = hidden.astray \ {pane}
      /\ SameBut(Settled(hidden, pane), hidden, "astray")
  BY <1>1, AstrayFields
<1> QED  BY <1>1, <1>2, <1>3 DEF SameBut
-----------------------------------------------------------------------------
(* What every desk satisfies on which no destroyed panel has been used: a  *)
(* panel destroyed has no tab; the panels on the left have one at most;    *)
(* an item that is not checked has nothing to show, the stack excepted;    *)
(* and one that is not astray shows its panel if it is checked.            *)

Clean(d, item) ==
  IF item \in Tabbed
    THEN /\ item \in d.checked => d.tabs[item] = 1 /\ Side(item) \in d.shown
         /\ item \notin d.checked => d.tabs[item] = 0
    ELSE item \in d.checked => item \in d.shown

DeskOK(d) ==
  /\ \A panel \in Tabbed \ d.alive : d.tabs[panel] = 0
  /\ \A panel \in Tabbed \ {"stack"} : d.tabs[panel] <= 1 /\ (panel \notin d.checked => d.tabs[panel] = 0)
  /\ \A pane \in Panes : pane \notin d.checked => pane \notin d.shown
  /\ \A item \in Items \ d.astray : Clean(d, item)

\* A step from desk d to desk e: only a panel that was destroyed may crash it
Follows(e, d) ==
  /\ e \in Desk
  /\ e.alive = d.alive
  /\ e.crashed => d.crashed \/ d.alive # Tabbed
  /\ (~ d.crashed => DeskOK(d)) => (~ e.crashed => DeskOK(e))

\* What keeps the menu in line may be done one after the other.
LEMMA FollowsOn ==
  ASSUME NEW d, NEW e, NEW f, Follows(e, d), Follows(f, e)
  PROVE  Follows(f, d)
BY DEF Follows

\* An item is a tab or a pane, and no pane is a panel's side.
LEMMA ItemsAre ==
  /\ \A item : item \in Items <=> item \in Tabbed \/ item \in Panes
  /\ \A item \in Panes : item \notin Tabbed
  /\ \A item \in Tabbed : item \notin Panes /\ Side(item) \notin Panes
  /\ \A pane \in Panes, item \in Tabbed : Side(item) # pane
BY DEF Items, Tabbed, Panes, Side

\* Displaying a panel keeps the menu in line,
LEMMA ShowFollows ==
  ASSUME NEW d \in Desk, NEW panel \in Tabbed
  PROVE  Follows(DisplayPanel(d, panel, TRUE), d)
<1> DEFINE e == ShowPage(d, panel)
           new == Check(e, panel, TRUE)
<1>1. DisplayPanel(d, panel, TRUE) = new
  BY DEF DisplayPanel, OnView
<1>2. /\ e \in Desk /\ e.checked = d.checked /\ e.alive = d.alive
      /\ e.shown = d.shown \union {Side(panel)}
      /\ e.astray = IF d.tabs[panel] > 0 THEN d.astray \union {panel} ELSE d.astray
      /\ \A other \in Tabbed \ {panel} : e.tabs[other] = d.tabs[other]
      /\ FoundAndRemoved(d, panel) => e.crashed = d.crashed /\ e.tabs[panel] = d.tabs[panel] - 1
      /\ ~ FoundAndRemoved(d, panel) =>
           IF panel \in d.alive THEN e.crashed = d.crashed /\ e.tabs[panel] = d.tabs[panel] + 1
                                ELSE e.crashed
  BY ShowFields
<1> HIDE DEF e
<1>3. /\ new \in Desk /\ new.checked = e.checked \union {panel}
      /\ new.tabs = e.tabs /\ new.shown = e.shown /\ new.alive = e.alive
      /\ new.crashed = e.crashed /\ new.astray = e.astray
  <2>1. panel \in Items /\ e \in Desk
    BY <1>2, ItemsAre
  <2>2. new \in Desk /\ new.checked = e.checked \union {panel} /\ SameBut(new, e, "checked")
    BY <2>1, CheckFields
  <2> HIDE DEF new
  <2> QED  BY <2>2 DEF SameBut
<1> HIDE DEF new
<1>4. /\ d.tabs \in [Tabbed -> Nat] /\ d.alive \in SUBSET Tabbed
      /\ \A other \in Tabbed : d.tabs[other] \in Nat
  BY DeskFields
<1>5. new.crashed => d.crashed \/ d.alive # Tabbed
  BY <1>2, <1>3
<1>6. ASSUME ~ d.crashed, DeskOK(d), ~ new.crashed
      PROVE  DeskOK(new)
  <2>1. d.tabs[panel] > 0 => panel \in d.alive
    BY <1>4, <1>6 DEF DeskOK
  <2>2. FoundAndRemoved(d, panel) => new.tabs[panel] = 0
    BY <1>2, <1>3, <1>4, <1>6 DEF DeskOK, FoundAndRemoved
  <2>3. ~ FoundAndRemoved(d, panel) => panel \in d.alive /\ new.tabs[panel] = d.tabs[panel] + 1
    BY <1>2, <1>3, <1>6
  <2>4. \A p \in Tabbed \ new.alive : new.tabs[p] = 0
    BY <1>2, <1>3, <1>6, <2>2, <2>3 DEF DeskOK
  <2>5. \A p \in Tabbed \ {"stack"} : new.tabs[p] <= 1 /\ (p \notin new.checked => new.tabs[p] = 0)
    BY <1>2, <1>3, <1>4, <1>6, <2>2, <2>3 DEF DeskOK, FoundAndRemoved
  <2>6. \A pane \in Panes : pane \notin new.checked => pane \notin new.shown
    BY <1>2, <1>3, <1>6, ItemsAre DEF DeskOK
  <2>7. ASSUME NEW item \in Items \ new.astray
        PROVE  Clean(new, item)
    <3>1. item \notin d.astray /\ Clean(d, item)
      BY <1>2, <1>3, <1>6, <2>7 DEF DeskOK
    <3>2. CASE item # panel
      BY <1>2, <1>3, <3>1, <3>2, ItemsAre DEF Clean
    <3>3. CASE item = panel
      <4>1. d.tabs[panel] = 0
        BY <1>2, <1>3, <1>4, <2>7, <3>3
      <4>2. new.tabs[panel] = 1
        BY <2>3, <4>1 DEF FoundAndRemoved
      <4> QED  BY <1>2, <1>3, <3>3, <4>2 DEF Clean
    <3> QED  BY <3>2, <3>3
  <2> QED  BY <2>4, <2>5, <2>6, <2>7 DEF DeskOK
<1>7. d.crashed => new.crashed
  BY <1>2, <1>3
<1>8. new \in Desk /\ new.alive = d.alive
  BY <1>2, <1>3
<1>9. Follows(new, d)
  BY <1>5, <1>6, <1>7, <1>8 DEF Follows
<1> QED  BY <1>1, <1>9

\* so does hiding it,
LEMMA HideFollows ==
  ASSUME NEW d \in Desk, NEW panel \in Tabbed
  PROVE  Follows(DisplayPanel(d, panel, FALSE), d)
<1> DEFINE p == RemovePage(d, panel)
           e == HidePage(d, panel)
           new == Check(e, panel, FALSE)
<1>1. DisplayPanel(d, panel, FALSE) = new
  BY DEF DisplayPanel, OnView
<1>2. /\ e \in Desk /\ e.checked = d.checked /\ e.alive = d.alive /\ e.crashed = d.crashed
      /\ e.tabs = p.tabs
      /\ e.shown = IF Pages(p, Side(panel)) = 0 THEN d.shown \ {Side(panel)} ELSE d.shown
      /\ e.astray = IF p.tabs[panel] = 0 THEN d.astray \ {panel} ELSE d.astray
  BY HideFields
<1>3. /\ p \in Desk
      /\ \A other \in Tabbed \ {panel} : p.tabs[other] = d.tabs[other]
      /\ p.tabs[panel] = (IF d.tabs[panel] = 0 THEN 0 ELSE d.tabs[panel] - 1)
  BY RemoveFields
<1> HIDE DEF e, p
<1>4. /\ new \in Desk /\ new.checked = e.checked \ {panel}
      /\ new.tabs = e.tabs /\ new.shown = e.shown /\ new.alive = e.alive
      /\ new.crashed = e.crashed /\ new.astray = e.astray
  <2>1. panel \in Items /\ e \in Desk
    BY <1>2, ItemsAre
  <2>2. new \in Desk /\ new.checked = e.checked \ {panel} /\ SameBut(new, e, "checked")
    BY <2>1, CheckFields
  <2> HIDE DEF new
  <2> QED  BY <2>2 DEF SameBut
<1> HIDE DEF new
<1>5. /\ d.tabs \in [Tabbed -> Nat]
      /\ \A other \in Tabbed : d.tabs[other] \in Nat /\ p.tabs[other] \in Nat
  BY <1>3, DeskFields
<1>6. ASSUME ~ d.crashed, DeskOK(d)
      PROVE  DeskOK(new)
  <2>1. \A q \in Tabbed \ new.alive : new.tabs[q] = 0
    BY <1>2, <1>3, <1>4, <1>6 DEF DeskOK
  <2>2. \A q \in Tabbed \ {"stack"} : new.tabs[q] <= 1 /\ (q \notin new.checked => new.tabs[q] = 0)
    BY <1>2, <1>3, <1>4, <1>5, <1>6 DEF DeskOK
  <2>3. \A pane \in Panes : pane \notin new.checked => pane \notin new.shown
    BY <1>2, <1>4, <1>6, ItemsAre DEF DeskOK
  <2>4. ASSUME NEW item \in Items \ new.astray
        PROVE  Clean(new, item)
    <3>1. CASE item \in Panes
      BY <1>2, <1>4, <1>6, <2>4, <3>1, ItemsAre DEF DeskOK, Clean
    <3>2. CASE item \in Tabbed /\ item # panel
      <4>1. Clean(d, item) /\ item \in Tabbed
        BY <1>2, <1>4, <1>6, <2>4, <3>2 DEF DeskOK
      <4>2. new.tabs[item] = d.tabs[item] /\ (item \in new.checked <=> item \in d.checked)
        BY <1>2, <1>3, <1>4, <3>2
      <4>3. d.tabs[item] = 1 /\ Side(item) \in d.shown => Side(item) \in new.shown
        <5>1. CASE Side(item) # Side(panel)
          BY <1>2, <1>4, <5>1
        <5>2. CASE Side(item) = Side(panel)
          <6>1. Side(panel) = "left" /\ item \in {"sessions", "breakpoints"}
            BY <3>2, <5>2 DEF Side, Tabbed
          <6>2. p.tabs[item] = d.tabs[item] /\ p.tabs["sessions"] \in Nat /\ p.tabs["breakpoints"] \in Nat
            BY <1>3, <1>5, <3>2 DEF Tabbed
          <6>3. d.tabs[item] = 1 => Pages(p, Side(panel)) # 0
            BY <6>1, <6>2 DEF Pages
          <6> QED  BY <1>2, <1>4, <6>3
        <5> QED  BY <5>1, <5>2
      <4> QED  BY <4>1, <4>2, <4>3 DEF Clean
    <3>3. CASE item = panel
      <4>1. new.tabs[panel] = 0
        <5>1. CASE panel \in d.astray
          BY <1>2, <1>4, <2>4, <3>3, <5>1
        <5>2. CASE panel \notin d.astray
          <6>1. Clean(d, panel)
            BY <1>6, <5>2, ItemsAre DEF DeskOK
          <6> QED  BY <1>2, <1>3, <1>4, <6>1 DEF Clean
        <5> QED  BY <5>1, <5>2
      <4> QED  BY <1>4, <3>3, <4>1 DEF Clean
    <3> QED  BY <3>1, <3>2, <3>3, <2>4, ItemsAre
  <2> QED  BY <2>1, <2>2, <2>3, <2>4 DEF DeskOK
<1>7. new \in Desk /\ new.alive = d.alive /\ new.crashed = d.crashed
  BY <1>2, <1>4
<1>8. Follows(new, d)
  BY <1>6, <1>7 DEF Follows
<1> QED  BY <1>1, <1>8

\* displaying or hiding a pane,
LEMMA PaneFollows ==
  ASSUME NEW d \in Desk, NEW pane \in Panes, NEW on \in BOOLEAN
  PROVE  Follows(DisplayPanel(d, pane, on), d)
<1> DEFINE e == IF on THEN Revealed(d, pane) ELSE HidePane(d, pane)
           new == Check(e, pane, on)
<1>1. DisplayPanel(d, pane, on) = new
  BY ItemsAre DEF DisplayPanel, OnView, ShowPane
<1>2. /\ e \in Desk /\ e.checked = d.checked /\ e.alive = d.alive /\ e.crashed = d.crashed
      /\ e.tabs = d.tabs
      /\ e.shown = (IF on THEN d.shown \union {pane} ELSE d.shown \ {pane})
      /\ e.astray = (IF on THEN d.astray ELSE d.astray \ {pane})
  <2>1. CASE on
    BY <2>1, ShownFields DEF SameBut
  <2>2. CASE ~ on
    BY <2>2, HidePaneFields
  <2> QED  BY <2>1, <2>2
<1> HIDE DEF e
<1>3. /\ new \in Desk /\ new.checked = (IF on THEN e.checked \union {pane} ELSE e.checked \ {pane})
      /\ new.tabs = e.tabs /\ new.shown = e.shown /\ new.alive = e.alive
      /\ new.crashed = e.crashed /\ new.astray = e.astray
  <2>1. pane \in Items /\ e \in Desk
    BY <1>2, ItemsAre
  <2>2. new \in Desk /\ new.checked = (IF on THEN e.checked \union {pane} ELSE e.checked \ {pane}) /\ SameBut(new, e, "checked")
    BY <2>1, CheckFields
  <2> HIDE DEF new
  <2> QED  BY <2>2 DEF SameBut
<1> HIDE DEF new
<1>4. ASSUME ~ d.crashed, DeskOK(d)
      PROVE  DeskOK(new)
  <2>1. /\ \A q \in Tabbed \ new.alive : new.tabs[q] = 0
        /\ \A q \in Tabbed \ {"stack"} : new.tabs[q] <= 1 /\ (q \notin new.checked => new.tabs[q] = 0)
    BY <1>2, <1>3, <1>4, ItemsAre DEF DeskOK
  <2>2. \A other \in Panes : other \notin new.checked => other \notin new.shown
    BY <1>2, <1>3, <1>4 DEF DeskOK
  <2>3. ASSUME NEW item \in Items \ new.astray
        PROVE  Clean(new, item)
    <3>1. CASE item # pane
      <4>1. Clean(d, item)
        BY <1>2, <1>3, <1>4, <2>3, <3>1 DEF DeskOK
      <4> QED  BY <1>2, <1>3, <3>1, <4>1, ItemsAre DEF Clean
    <3>2. CASE item = pane
      BY <1>2, <1>3, <3>2, ItemsAre DEF Clean
    <3> QED  BY <3>1, <3>2
  <2> QED  BY <2>1, <2>2, <2>3 DEF DeskOK
<1>5. new \in Desk /\ new.alive = d.alive /\ new.crashed = d.crashed
  BY <1>2, <1>3
<1>6. Follows(new, d)
  BY <1>4, <1>5 DEF Follows
<1> QED  BY <1>1, <1>6

\* and so displayPanel,
LEMMA DisplayFollows ==
  ASSUME NEW d \in Desk, NEW item \in Items, NEW on \in BOOLEAN
  PROVE  Follows(DisplayPanel(d, item, on), d)
<1>1. CASE item \in Tabbed /\ on
  BY <1>1, ShowFollows
<1>2. CASE item \in Tabbed /\ ~ on
  BY <1>2, HideFollows
<1>3. CASE item \in Panes
  BY <1>3, PaneFollows
<1> QED  BY <1>1, <1>2, <1>3, ItemsAre

\* using panels,
LEMMA UsedFollows ==
  ASSUME NEW d \in Desk, NEW panels \in SUBSET Tabbed
  PROVE  Follows(Used(d, panels), d)
<1> DEFINE e == Used(d, panels)
<1>1. /\ e \in Desk /\ e.crashed = (d.crashed \/ ~ panels \subseteq d.alive)
      /\ e.tabs = d.tabs /\ e.shown = d.shown /\ e.alive = d.alive
      /\ e.checked = d.checked /\ e.astray = d.astray
  BY UsedFields DEF SameBut
<1> HIDE DEF e
<1>2. DeskOK(d) => DeskOK(e)
  BY <1>1 DEF DeskOK, Clean
<1>3. e.crashed => d.crashed \/ d.alive # Tabbed
  BY <1>1
<1>4. d.crashed => e.crashed
  BY <1>1
<1>5. Follows(e, d)
  BY <1>1, <1>2, <1>3, <1>4 DEF Follows
<1> QED  BY <1>5 DEF e

\* closing a pane or a notebook by its cross,
LEMMA ConcealedFollows ==
  ASSUME NEW d \in Desk, NEW pane \in Panes \union {"left", "right"}
  PROVE  Follows(Strayed(Concealed(d, pane), Within(pane)), d)
<1> DEFINE c == Concealed(d, pane)
           e == Strayed(c, Within(pane))
<1>1. /\ c \in Desk /\ c.shown = d.shown \ {pane}
      /\ c.tabs = d.tabs /\ c.alive = d.alive /\ c.crashed = d.crashed
      /\ c.checked = d.checked /\ c.astray = d.astray
  BY ShownFields DEF SameBut
<1> HIDE DEF c
<1>2. Within(pane) \in SUBSET Items
  BY ItemsAre DEF Within
<1>3. /\ e \in Desk /\ e.astray = c.astray \union Within(pane)
      /\ e.tabs = c.tabs /\ e.shown = c.shown /\ e.alive = c.alive
      /\ e.crashed = c.crashed /\ e.checked = c.checked
  BY <1>1, <1>2, AstrayFields DEF SameBut
<1> HIDE DEF e
<1>4. ASSUME DeskOK(d)
      PROVE  DeskOK(e)
  <2>1. /\ \A q \in Tabbed \ e.alive : e.tabs[q] = 0
        /\ \A q \in Tabbed \ {"stack"} : e.tabs[q] <= 1 /\ (q \notin e.checked => e.tabs[q] = 0)
        /\ \A other \in Panes : other \notin e.checked => other \notin e.shown
    BY <1>1, <1>3, <1>4 DEF DeskOK
  <2>2. ASSUME NEW item \in Items \ e.astray
        PROVE  Clean(e, item)
    <3>1. Clean(d, item) /\ item \notin Within(pane)
      BY <1>1, <1>3, <1>4, <2>2 DEF DeskOK
    <3>2. CASE item \in Tabbed
      <4>1. Side(item) # pane
        BY <3>1, <3>2, ItemsAre DEF Within
      <4> QED  BY <1>1, <1>3, <3>1, <3>2, <4>1 DEF Clean
    <3>3. CASE item \in Panes
      <4>1. item # pane
        BY <3>1, <3>3 DEF Within
      <4> QED  BY <1>1, <1>3, <3>1, <3>3, <4>1, ItemsAre DEF Clean
    <3> QED  BY <2>2, <3>2, <3>3, ItemsAre
  <2> QED  BY <2>1, <2>2 DEF DeskOK
<1>5. e.alive = d.alive /\ e.crashed = d.crashed
  BY <1>1, <1>3
<1>6. Follows(e, d)
  BY <1>3, <1>4, <1>5 DEF Follows
<1> QED  BY <1>6 DEF e, c

\* Opening and closing a session displays five panels, one after the other.
LEMMA FiveFollow ==
  ASSUME NEW d \in Desk, NEW a \in BOOLEAN, NEW b \in BOOLEAN
  PROVE  Follows(DisplayPanel(DisplayPanel(DisplayPanel(DisplayPanel(DisplayPanel(d,
           "sessions", a), "breakpoints", b), "stack", b), "locals", b), "files", b), d)
<1> DEFINE d1 == DisplayPanel(d, "sessions", a)
           d2 == DisplayPanel(d1, "breakpoints", b)
           d3 == DisplayPanel(d2, "stack", b)
           d4 == DisplayPanel(d3, "locals", b)
           d5 == DisplayPanel(d4, "files", b)
<1>1. {"sessions", "breakpoints", "stack", "locals", "files"} = Items
  BY DEF Items, Tabbed, Panes
<1>2. Follows(d1, d)
  BY <1>1, DisplayFollows
<1> HIDE DEF d1
<1>3. d1 \in Desk
  BY <1>2 DEF Follows
<1>4. Follows(d2, d1)
  BY <1>1, <1>3, DisplayFollows
<1> HIDE DEF d2
<1>5. d2 \in Desk
  BY <1>4 DEF Follows
<1>6. Follows(d3, d2)
  BY <1>1, <1>5, DisplayFollows
<1> HIDE DEF d3
<1>7. d3 \in Desk
  BY <1>6 DEF Follows
<1>8. Follows(d4, d3)
  BY <1>1, <1>7, DisplayFollows
<1> HIDE DEF d4
<1>9. d4 \in Desk
  BY <1>8 DEF Follows
<1>10. Follows(d5, d4)
  BY <1>1, <1>9, DisplayFollows
<1> HIDE DEF d5
<1>11. Follows(d2, d)
  BY <1>2, <1>4, FollowsOn
<1>12. Follows(d3, d)
  BY <1>11, <1>6, FollowsOn
<1>13. Follows(d4, d)
  BY <1>12, <1>8, FollowsOn
<1>14. Follows(d5, d)
  BY <1>13, <1>10, FollowsOn
<1> QED  BY <1>14 DEF d1, d2, d3, d4, d5

\* and the calls of openSession and closeSession.
LEMMA SessionFollows ==
  ASSUME NEW d \in Desk
  PROVE  Follows(Working(d), d) /\ Follows(Resting(d), d)
<1>1. Follows(Working(d), d)
  BY FiveFollow DEF Working
<1>2. Follows(Resting(d), d)
  BY FiveFollow DEF Resting
<1> QED  BY <1>1, <1>2
-----------------------------------------------------------------------------
(* The invariant.                                                          *)

DeskInv ==
  /\ TypeOK
  /\ ~ desk.crashed => DeskOK(desk)
  /\ desk.crashed \/ desk.alive # Tabbed => byHand # {}

\* The cross of a tab: the only step that destroys a panel, and the user's
LEMMA CloseTabKeeps ==
  ASSUME DeskInv, NEW panel \in Tabbed, CloseTab(panel)
  PROVE  DeskInv'
<1> DEFINE p == RemovePage(desk, panel)
           g == Destroyed(p, panel)
           c == Strayed(g, {panel})
<1>1. desk \in Desk /\ ~ desk.crashed /\ DeskOK(desk)
  BY DEF DeskInv, TypeOK, CloseTab, UserActs
<1>2. /\ p \in Desk /\ SameBut(p, desk, "tabs")
      /\ \A other \in Tabbed \ {panel} : p.tabs[other] = desk.tabs[other]
      /\ p.tabs[panel] = (IF desk.tabs[panel] = 0 THEN 0 ELSE desk.tabs[panel] - 1)
  BY <1>1, RemoveFields
<1>3. /\ c = Strayed(Destroyed(RemovePage(desk, panel), panel), {panel})
      /\ g = Destroyed(p, panel) /\ c = Strayed(g, {panel})
  OBVIOUS
<1> HIDE DEF p
<1>4. g \in Desk /\ g.alive = p.alive \ {panel} /\ SameBut(g, p, "alive")
  BY <1>2, DestroyedFields
<1> HIDE DEF g
<1>5. c \in Desk /\ c.astray = g.astray \union {panel} /\ SameBut(c, g, "astray")
  <2>1. {panel} \in SUBSET Items
    BY ItemsAre
  <2> QED  BY <1>4, <2>1, AstrayFields
<1> HIDE DEF c
<1>6. /\ c.tabs = p.tabs /\ c.shown = desk.shown /\ c.checked = desk.checked
      /\ c.alive = desk.alive \ {panel} /\ c.astray = desk.astray \union {panel}
      /\ c.crashed = desk.crashed
  BY <1>2, <1>4, <1>5 DEF SameBut
<1>7. /\ \A other \in Tabbed : desk.tabs[other] \in Nat
      /\ desk.tabs[panel] > 0
  BY <1>1, DeskFields DEF CloseTab
<1>8. desk' = IF desk.tabs[panel] > 1 THEN Used(c, {panel}) ELSE c
  BY <1>3 DEF CloseTab
<1>9. desk' \in Desk
  BY <1>5, <1>8, UsedFields
<1>10. byHand' = byHand \union {panel}
  BY DEF CloseTab
<1>11. TypeOK'
  BY <1>9, <1>10 DEF DeskInv, TypeOK, CloseTab, filesVars, dialogVars
<1>12. ASSUME ~ desk'.crashed
       PROVE  DeskOK(desk')
  <2>1. desk' = c /\ desk.tabs[panel] = 1
    <3>1. CASE desk.tabs[panel] > 1
      <4>1. Used(c, {panel}).crashed
        BY <1>5, <1>6, UsedFields
      <4> QED  BY <1>8, <1>12, <3>1, <4>1
    <3> QED  BY <1>7, <1>8, <3>1
  <2>2. p.tabs[panel] = 0
    BY <1>2, <2>1
  <2>3. DeskOK(c)
    BY <1>1, <1>2, <1>6, <2>2 DEF DeskOK, Clean
  <2> QED  BY <2>1, <2>3
<1> QED  BY <1>10, <1>11, <1>12 DEF DeskInv

\* The invariant of the desk holds when the program starts,
LEMMA InvInit == Init => DeskInv
<1> SUFFICES ASSUME Init PROVE DeskInv
  OBVIOUS
<1>1. /\ NewDesk \in Desk /\ ~ NewDesk.crashed /\ NewDesk.alive = Tabbed
      /\ NewDesk.tabs = [panel \in Tabbed |-> 0]
      /\ NewDesk.shown = {} /\ NewDesk.checked = {} /\ NewDesk.astray = {}
  BY DEF NewDesk, Desk
<1>2. DeskOK(NewDesk)
  BY <1>1, ItemsAre DEF DeskOK, Clean
<1>3. Follows(desk, NewDesk)
  BY <1>1, ItemsAre, DisplayFollows DEF Init, Tabbed
<1>4. desk \in Desk /\ ~ desk.crashed /\ desk.alive = Tabbed /\ DeskOK(desk)
  BY <1>1, <1>2, <1>3 DEF Follows
<1> QED  BY <1>4 DEF Init, DeskInv, TypeOK

\* every step keeps it,
LEMMA InvStep == DeskInv /\ [Next]_vars => DeskInv'
<1> SUFFICES ASSUME DeskInv, [Next]_vars PROVE DeskInv'
  OBVIOUS
<1> USE DEF DeskInv
<1>1. desk \in Desk
  BY DEF TypeOK
<1>2. ASSUME Follows(desk', desk), byHand' = byHand,
             valid' \in BOOLEAN, ending' \in BOOLEAN, choosing' \in BOOLEAN, refilled' \in BOOLEAN
      PROVE  DeskInv'
  BY <1>1, <1>2 DEF Follows, TypeOK
<1>3. Follows(desk, desk)
  BY <1>1 DEF Follows
<1>4. \A panels \in SUBSET Tabbed : Uses(panels) => Follows(desk', desk)
  BY <1>1, UsedFollows DEF Uses
<1>5. {"sessions"} \in SUBSET Tabbed /\ {"breakpoints"} \in SUBSET Tabbed
      /\ {"stack"} \in SUBSET Tabbed /\ {"breakpoints", "stack"} \in SUBSET Tabbed
  BY DEF Tabbed
<1>6. valid \in BOOLEAN /\ ending \in BOOLEAN /\ choosing \in BOOLEAN /\ refilled \in BOOLEAN
  BY DEF TypeOK
<1> HIDE DEF DeskInv
<1> USE DEF filesVars, dialogVars
<1>7. ASSUME NEW item \in Items, Toggle(item)
      PROVE  DeskInv'
  BY <1>1, <1>2, <1>6, <1>7, DisplayFollows DEF Toggle
<1>8. ASSUME NEW panel \in Tabbed \intersect Crosses, CloseTab(panel)
      PROVE  DeskInv'
  BY <1>8, CloseTabKeeps
<1>9. ASSUME NEW pane \in Crosses \ Tabbed, ClosePane(pane)
      PROVE  DeskInv'
  <2>1. pane \in Panes \union {"left", "right"}
    BY WorkspaceAssumption DEF Tabbed, Panes
  <2>2. Follows(desk', desk)
    BY <1>1, <1>9, <2>1, ConcealedFollows DEF ClosePane
  <2> QED  BY <1>2, <1>6, <1>9, <2>2 DEF ClosePane
<1>10. ASSUME NEW answer \in Answers, OpenFromPanel(answer) \/ ChooseSession(answer)
       PROVE  DeskInv'
  <2>1. OpenSession(answer) /\ choosing' \in BOOLEAN
    BY <1>6, <1>10 DEF OpenFromPanel, ChooseSession, DialogGone
  <2>2. Follows(desk', desk)
    BY <1>1, <2>1, SessionFollows DEF OpenSession
  <2> QED  BY <1>2, <1>6, <2>1, <2>2 DEF OpenSession, SetFiles
<1>11. ASSUME CloseSession
       PROVE  DeskInv'
  BY <1>1, <1>2, <1>6, <1>11, SessionFollows DEF CloseSession
<1>12. CASE ReloadSessions
  BY <1>2, <1>4, <1>5, <1>6, <1>12 DEF ReloadSessions
<1>13. CASE SearchFiles
  BY <1>2, <1>3, <1>6, <1>13 DEF SearchFiles
<1>14. CASE OpenFile
  BY <1>2, <1>4, <1>5, <1>6, <1>14 DEF OpenFile
<1>15. CASE OpenDialog
  BY <1>2, <1>4, <1>5, <1>6, <1>15 DEF OpenDialog
<1>16. CASE SearchSessions
  BY <1>2, <1>3, <1>6, <1>16 DEF SearchSessions
<1>17. CASE CancelDialog
  BY <1>2, <1>3, <1>6, <1>17 DEF CancelDialog, DialogGone
<1>18. CASE HandleState
  BY <1>2, <1>4, <1>5, <1>6, <1>18 DEF HandleState
<1>19. CASE HandleBreakpoints
  BY <1>2, <1>4, <1>5, <1>6, <1>19 DEF HandleBreakpoints
<1>20. CASE HandleEnded
  BY <1>2, <1>4, <1>5, <1>6, <1>20 DEF HandleEnded
<1>21. CASE UNCHANGED vars
  BY <1>2, <1>3, <1>6, <1>21 DEF vars
<1> QED  BY <1>7, <1>8, <1>9, <1>10, <1>11, <1>12, <1>13, <1>14, <1>15, <1>16, <1>17, <1>18, <1>19, <1>20, <1>21 DEF Next

\* so it always holds.
LEMMA InvAlways == Spec => []DeskInv
BY InvInit, InvStep, PTL DEF Spec

\* The View menu tells what is shown, for any sequence of toggles, sessions
\* opened and closed, tabs and panes closed (displayPanel, onView...Panel).
THEOREM MenuTells == Spec => []ChecksTell
<1>1. DeskInv => ChecksTell
  <2> SUFFICES ASSUME DeskInv, ~ desk.crashed, NEW item \in Items
               PROVE  /\ item \notin desk.astray => /\ item \in desk.checked <=> Visible(item)
                                                    /\ item \in Tabbed => desk.tabs[item] <= 1
                      /\ item # "stack" /\ Visible(item) => item \in desk.checked
    BY DEF ChecksTell
  <2>1. DeskOK(desk) /\ desk \in Desk
    BY DEF DeskInv, TypeOK
  <2>2. \A panel \in Tabbed : desk.tabs[panel] \in Nat
    BY <2>1, DeskFields
  <2>3. item # "stack" /\ Visible(item) => item \in desk.checked
    BY <2>1, <2>2, ItemsAre DEF DeskOK, Visible
  <2>4. ASSUME item \notin desk.astray
        PROVE  /\ item \in desk.checked <=> Visible(item)
               /\ item \in Tabbed => desk.tabs[item] <= 1
    <3>1. Clean(desk, item)
      BY <2>1, <2>4 DEF DeskOK
    <3>2. CASE item \in Tabbed
      BY <3>1, <3>2, <2>2 DEF Clean, Visible
    <3>3. CASE item \in Panes
      BY <2>1, <3>1, <3>3, ItemsAre DEF DeskOK, Clean, Visible
    <3> QED  BY <3>2, <3>3, ItemsAre
  <2> QED  BY <2>3, <2>4
<1> QED  BY <1>1, InvAlways, PTL

\* No handler uses a destroyed panel, unless the user closed a tab by hand
\* (the events' handlers of MainFrame, RemovePage).
THEOREM PanelsStayAlive == Spec => []PanelsLive
<1>1. DeskInv => PanelsLive
  BY DEF DeskInv, PanelsLive
<1> QED  BY <1>1, InvAlways, PTL

\* Every variable of the workspace keeps its type, the lists' apart.
THEOREM TypeCorrect == Spec => []TypeOK
<1>1. DeskInv => TypeOK
  BY DEF DeskInv
<1> QED  BY <1>1, InvAlways, PTL
-----------------------------------------------------------------------------
(* Induction over the numbers below a bound, and the functions it defines. *)

\* A set of numbers that is not empty has a smallest.
LEMMA SmallestNumber ==
  ASSUME NEW T \in SUBSET Nat, T # {}
  PROVE  \E n \in T : \A m \in T : n <= m
<1> DEFINE R == OpToRel(<, Nat)
<1>1. \E x \in T : \A y \in T : ~ (<<y, x>> \in R)
  <2>1. IsWellFoundedOn(R, Nat)
    BY NatLessThanWellFounded
  <2> HIDE DEF R
  <2> QED BY <2>1, WFMin
<1>2. \A x, y \in Nat : y < x => <<y, x>> \in R
  BY DEF OpToRel
<1> HIDE DEF R
<1>3. PICK n \in T : \A y \in T : ~ (<<y, n>> \in R)
  BY <1>1
<1>4. ASSUME NEW m \in T PROVE n <= m
  <2>1. m \in Nat /\ n \in Nat /\ ~ (m < n)
    BY <1>2, <1>3
  <2> QED BY <2>1
<1> QED BY <1>4

\* Induction up to k, over a set
LEMMA UpTo ==
  ASSUME NEW k \in Nat, NEW T, 0 \in T, \A n \in 1..k : n - 1 \in T => n \in T
  PROVE  0..k \subseteq T
<1> SUFFICES ASSUME (0..k) \ T # {} PROVE FALSE
  OBVIOUS
<1>1. PICK n \in (0..k) \ T : \A m \in (0..k) \ T : n <= m
  <2>1. (0..k) \ T \in SUBSET Nat
    OBVIOUS
  <2> QED BY <2>1, SmallestNumber
<1>2. n \in 1..k /\ n - 1 \in 0..k /\ ~ (n <= n - 1)
  BY <1>1
<1>3. n - 1 \in T
  BY <1>1, <1>2
<1> QED BY <1>1, <1>2, <1>3

\* A function may be defined on 0..k step by step: if F stays in X ...
Steps(X, base, k, F) ==
  base \in X /\ k \in Nat /\ \A n \in 1..k, x \in X : F[<<n, x>>] \in X

\* ... there is a function that starts at base and goes on as F says.
Defines(X, base, k, F) ==
  \E f \in [0..k -> X] : f[0] = base /\ \A n \in 1..k : f[n] = F[<<n, f[n - 1]>>]

\* Given a function for its steps and a base, the function computed step by step exists.
LEMMA Stepwise ==
  ASSUME NEW X, NEW base, NEW k, NEW F, Steps(X, base, k, F)
  PROVE  Defines(X, base, k, F)
<1> DEFINE Good(m, f) == f[0] = base /\ \A n \in 1..m : f[n] = F[<<n, f[n - 1]>>]
           T == {m \in 0..k : \E f \in [0..m -> X] : Good(m, f)}
<1>0. base \in X /\ k \in Nat /\ \A n \in 1..k, x \in X : F[<<n, x>>] \in X
  BY DEF Steps
<1>1. 0 \in T
  <2>1. [n \in 0..0 |-> base] \in [0..0 -> X] /\ Good(0, [n \in 0..0 |-> base])
    BY <1>0
  <2>2. \E f \in [0..0 -> X] : Good(0, f)
    BY <2>1
  <2>3. 0 \in 0..k
    BY <1>0
  <2> HIDE DEF Good
  <2> QED BY <2>2, <2>3
<1>2. ASSUME NEW m \in 1..k, m - 1 \in T PROVE m \in T
  <2>1. PICK f \in [0..(m - 1) -> X] : Good(m - 1, f)
    BY <1>2
  <2> DEFINE g == [n \in 0..m |-> IF n = m THEN F[<<m, f[m - 1]>>] ELSE f[n]]
  <2>2. m - 1 \in 0..(m - 1) /\ m \in 0..m
    BY <1>0
  <2>3. F[<<m, f[m - 1]>>] \in X
    BY <1>0, <2>1, <2>2
  <2>4. \A n \in 0..(m - 1) : n \in 0..m /\ n # m /\ g[n] = f[n]
    BY <1>0
  <2>5. g \in [0..m -> X]
    BY <2>3
  <2>6. g[0] = base
    BY <2>1, <2>4
  <2>7. ASSUME NEW n \in 1..m PROVE g[n] = F[<<n, g[n - 1]>>]
    <3>1. n - 1 \in 0..(m - 1)
      BY <1>0
    <3>2. g[n - 1] = f[n - 1]
      BY <2>4, <3>1
    <3>3. CASE n = m
      BY <2>2, <3>2, <3>3
    <3>4. CASE n # m
      <4>1. n \in 1..(m - 1) /\ n \in 0..(m - 1)
        BY <3>4
      <4> QED BY <2>1, <2>4, <3>2, <4>1
    <3> QED BY <3>3, <3>4
  <2> HIDE DEF g
  <2>8. Good(m, g)
    BY <2>6, <2>7
  <2>9. m \in 0..k
    BY <1>0
  <2> QED BY <2>5, <2>8, <2>9
<1>3. k \in T
  <2> HIDE DEF T
  <2>1. 0..k \subseteq T
    BY <1>0, <1>1, <1>2, UpTo
  <2> QED BY <1>0, <2>1
<1> QED BY <1>3 DEF Defines
-----------------------------------------------------------------------------
(* The entries of a sequence that are in a set.                            *)

\* The function Only is computed with
OnlyUpTo(s, set) ==
  LET kept[n \in 0..Len(s)] == IF n = 0 THEN <<>>
                               ELSE IF s[n] \in set THEN Append(kept[n - 1], s[n])
                               ELSE kept[n - 1]
  IN kept

\* It is what its definition says.
LEMMA OnlyStep ==
  ASSUME NEW S, NEW s \in Seq(S), NEW set
  PROVE  /\ OnlyUpTo(s, set) \in [0..Len(s) -> Seq(S)]
         /\ Only(s, set) = OnlyUpTo(s, set)[Len(s)]
         /\ OnlyUpTo(s, set)[0] = <<>>
         /\ \A n \in 1..Len(s) :
               OnlyUpTo(s, set)[n] = IF s[n] \in set THEN Append(OnlyUpTo(s, set)[n - 1], s[n])
                                                    ELSE OnlyUpTo(s, set)[n - 1]
<1> DEFINE k == Len(s)
           Step(n, x) == IF s[n] \in set THEN Append(x, s[n]) ELSE x
           F == [p \in (1..k) \X Seq(S) |-> Step(p[1], p[2])]
           Is(g) == g = [n \in 0..k |-> IF n = 0 THEN <<>> ELSE Step(n, g[n - 1])]
           f == OnlyUpTo(s, set)
<1>1. k \in Nat /\ <<>> \in Seq(S)
  OBVIOUS
<1>2. ASSUME NEW n \in 1..k, NEW x \in Seq(S) PROVE Step(n, x) \in Seq(S) /\ F[<<n, x>>] = Step(n, x)
  <2>1. s[n] \in S
    OBVIOUS
  <2>2. Step(n, x) \in Seq(S)
    BY <2>1, AppendProperties
  <2> QED BY <2>2
<1>3. \E g : g \in [0..k -> Seq(S)] /\ Is(g)
  <2>1. PICK g \in [0..k -> Seq(S)] : g[0] = <<>> /\ \A n \in 1..k : g[n] = F[<<n, g[n - 1]>>]
    <3> HIDE DEF k, F, Step
    <3>1. Steps(Seq(S), <<>>, k, F)
      BY <1>1, <1>2 DEF Steps
    <3>2. Defines(Seq(S), <<>>, k, F)
      BY <3>1, Stepwise
    <3> QED BY <3>2 DEF Defines
  <2>2. ASSUME NEW n \in 1..k PROVE g[n] = Step(n, g[n - 1])
    <3>1. n - 1 \in 0..k /\ g[n - 1] \in Seq(S)
      BY <1>1
    <3> HIDE DEF k, F, Step
    <3> QED BY <1>2, <2>1, <3>1
  <2> HIDE DEF k, F, Step
  <2>3. Is(g)
    <3>1. \A n \in 0..k : n = 0 \/ n \in 1..k
      BY <1>1
    <3> QED BY <2>1, <2>2, <3>1
  <2> QED BY <2>3
<1>4. f = CHOOSE g : Is(g)
  BY DEF OnlyUpTo
<1>5. Is(f)
  <2> HIDE DEF Is, f
  <2> QED BY <1>3, <1>4
<1>6. Only(s, set) = f[k]
  BY DEF Only, OnlyUpTo
<1>7. f[0] = <<>> /\ \A n \in 1..k : f[n] = Step(n, f[n - 1])
  <2> HIDE DEF f, Step, k
  <2>1. 0 \in 0..k /\ \A n \in 1..k : n \in 0..k /\ n # 0
    BY <1>1
  <2> QED BY <1>5, <2>1
<1>8. \A n \in 0..k : f[n] \in Seq(S)
  <2> DEFINE T == {n \in 0..k : f[n] \in Seq(S)}
  <2> HIDE DEF f, Step, k, F
  <2>1. 0 \in T
    <3>1. 0 \in 0..k
      BY <1>1
    <3>2. f[0] \in Seq(S)
      BY <1>1, <1>7, Zenon
    <3> QED BY <3>1, <3>2
  <2>2. ASSUME NEW n \in 1..k, n - 1 \in T PROVE n \in T
    <3>1. f[n - 1] \in Seq(S) /\ n \in 0..k
      BY <1>1, <2>2
    <3> QED BY <1>2, <1>7, <3>1
  <2> HIDE DEF T
  <2>3. 0..k \subseteq T
    BY <1>1, <2>1, <2>2, UpTo
  <2> QED BY <2>3 DEF T
<1>9. f \in [0..k -> Seq(S)]
  <2> HIDE DEF f, Step, k
  <2> QED BY <1>5, <1>8
<1> QED BY <1>6, <1>7, <1>9, Zenon

\* It keeps the entries that are in the set, and no others.
LEMMA OnlyEntries ==
  ASSUME NEW S, NEW s \in Seq(S), NEW set
  PROVE  Only(s, set) \in Seq(S) /\ ToSet(Only(s, set)) = ToSet(s) \intersect set
<1> DEFINE k == Len(s)
           f == OnlyUpTo(s, set)
           Read(n) == {s[i] : i \in 1..n}
           T == {n \in 0..k : ToSet(f[n]) = Read(n) \intersect set}
<1>1. /\ f \in [0..k -> Seq(S)] /\ Only(s, set) = f[k] /\ f[0] = <<>>
      /\ \A n \in 1..k : f[n] = IF s[n] \in set THEN Append(f[n - 1], s[n]) ELSE f[n - 1]
  BY OnlyStep
<1>2. k \in Nat
  OBVIOUS
<1> HIDE DEF f
<1>3. 0 \in T
  BY <1>1, <1>2 DEF ToSet
<1>4. ASSUME NEW n \in 1..k, n - 1 \in T PROVE n \in T
  <2>1. n - 1 \in 0..k /\ n \in 0..k /\ f[n - 1] \in Seq(S) /\ s[n] \in S
    BY <1>1
  <2>2. ToSet(f[n - 1]) = Read(n - 1) \intersect set
    BY <1>4
  <2>3. Read(n) = Read(n - 1) \union {s[n]}
    <3>1. 1..n = 1..(n - 1) \union {n}
      OBVIOUS
    <3> QED BY <3>1
  <2> HIDE DEF Read
  <2>4. CASE s[n] \in set
    <3>1. f[n] = Append(f[n - 1], s[n])
      BY <1>1, <2>4
    <3>2. /\ Append(f[n - 1], s[n]) \in Seq(S) /\ Len(Append(f[n - 1], s[n])) = Len(f[n - 1]) + 1
          /\ Append(f[n - 1], s[n])[Len(f[n - 1]) + 1] = s[n]
          /\ \A i \in 1..Len(f[n - 1]) : Append(f[n - 1], s[n])[i] = f[n - 1][i]
      BY <2>1, AppendProperties
    <3>3. ToSet(f[n]) = ToSet(f[n - 1]) \union {s[n]}
      <4>1. DOMAIN f[n] = 1..Len(f[n - 1]) + 1 /\ DOMAIN f[n - 1] = 1..Len(f[n - 1]) /\ Len(f[n - 1]) \in Nat
        BY <2>1, <3>1, <3>2
      <4>2. ASSUME NEW i \in DOMAIN f[n] PROVE f[n][i] \in ToSet(f[n - 1]) \union {s[n]}
        <5>1. CASE i = Len(f[n - 1]) + 1
          BY <3>1, <3>2, <5>1
        <5>2. CASE i \in 1..Len(f[n - 1])
          BY <3>1, <3>2, <4>1, <5>2 DEF ToSet
        <5> QED BY <4>1, <5>1, <5>2
      <4>3. ASSUME NEW i \in DOMAIN f[n - 1] PROVE f[n - 1][i] \in ToSet(f[n])
        <5>1. i \in DOMAIN f[n] /\ f[n][i] = f[n - 1][i]
          BY <3>1, <3>2, <4>1
        <5> QED BY <5>1 DEF ToSet
      <4>4. s[n] \in ToSet(f[n])
        <5>1. Len(f[n - 1]) + 1 \in DOMAIN f[n] /\ f[n][Len(f[n - 1]) + 1] = s[n]
          BY <3>1, <3>2, <4>1
        <5> QED BY <5>1 DEF ToSet
      <4> QED BY <4>2, <4>3, <4>4 DEF ToSet
    <3>4. ToSet(f[n]) = Read(n) \intersect set
      BY <2>2, <2>3, <2>4, <3>3
    <3> QED BY <2>1, <3>4
  <2>5. CASE s[n] \notin set
    <3>1. f[n] = f[n - 1]
      BY <1>1, <2>5
    <3>2. ToSet(f[n]) = Read(n) \intersect set
      BY <2>2, <2>3, <2>5, <3>1
    <3> QED BY <2>1, <3>2
  <2> QED BY <2>4, <2>5
<1>5. 0..k \subseteq T
  <2> HIDE DEF T, k
  <2> QED BY <1>2, <1>3, <1>4, UpTo
<1>6. k \in 0..k
  BY <1>2
<1>7. ToSet(f[k]) = Read(k) \intersect set
  BY <1>5, <1>6
<1>8. ToSet(s) = Read(k)
  BY DEF ToSet
<1> QED BY <1>1, <1>6, <1>7, <1>8

\* One more entry
LEMMA OnlyAppend ==
  ASSUME NEW S, NEW s \in Seq(S), NEW x \in S, NEW set
  PROVE  Only(Append(s, x), set) = IF x \in set THEN Append(Only(s, set), x) ELSE Only(s, set)
<1> DEFINE u == Append(s, x)
           f == OnlyUpTo(s, set)
           g == OnlyUpTo(u, set)
           T == {n \in 0..Len(s) : g[n] = f[n]}
<1>1. /\ u \in Seq(S) /\ Len(u) = Len(s) + 1 /\ Len(s) \in Nat /\ u[Len(s) + 1] = x
      /\ \A n \in 1..Len(s) : u[n] = s[n]
  BY AppendProperties
<1>2. /\ f \in [0..Len(s) -> Seq(S)] /\ Only(s, set) = f[Len(s)] /\ f[0] = <<>>
      /\ \A n \in 1..Len(s) : f[n] = IF s[n] \in set THEN Append(f[n - 1], s[n]) ELSE f[n - 1]
  BY OnlyStep
<1>3. /\ g \in [0..Len(u) -> Seq(S)] /\ Only(u, set) = g[Len(u)] /\ g[0] = <<>>
      /\ \A n \in 1..Len(u) : g[n] = IF u[n] \in set THEN Append(g[n - 1], u[n]) ELSE g[n - 1]
  <2> HIDE DEF u
  <2>1. u \in Seq(S)
    BY <1>1
  <2> QED BY <2>1, OnlyStep
<1> HIDE DEF u, f, g
<1>4. 0 \in T
  BY <1>1, <1>2, <1>3
<1>5. ASSUME NEW n \in 1..Len(s), n - 1 \in T PROVE n \in T
  <2>1. n \in 0..Len(s) /\ n \in 1..Len(u) /\ u[n] = s[n]
    BY <1>1
  <2>2. g[n - 1] = f[n - 1]
    BY <1>5
  <2> QED BY <1>2, <1>3, <2>1, <2>2
<1>6. 0..Len(s) \subseteq T
  <2> HIDE DEF T
  <2> QED BY <1>1, <1>4, <1>5, UpTo
<1>7. g[Len(s)] = f[Len(s)]
  BY <1>1, <1>6
<1>8. Len(u) \in 1..Len(u) /\ Len(u) - 1 = Len(s) /\ u[Len(u)] = x
  BY <1>1
<1>9. g[Len(u)] = IF x \in set THEN Append(g[Len(s)], x) ELSE g[Len(s)]
  BY <1>3, <1>8
<1> QED BY <1>2, <1>3, <1>7, <1>9 DEF u

\* Nothing is taken of nothing.
LEMMA OnlyNothing == ASSUME NEW set PROVE Only(<<>>, set) = <<>>
<1> DEFINE s == <<>>
           S == {}
<1>1. s \in Seq(S) /\ Len(s) = 0
  OBVIOUS
<1> HIDE DEF s, S
<1>2. s \in Seq(S)
  BY <1>1
<1>3. Only(s, set) = OnlyUpTo(s, set)[Len(s)] /\ OnlyUpTo(s, set)[0] = <<>>
  BY <1>2, OnlyStep
<1> QED BY <1>1, <1>3, Zenon DEF s

\* What is taken of what was taken
LEMMA OnlyOnly ==
  ASSUME NEW S, NEW s \in Seq(S), NEW A, NEW B
  PROVE  Only(Only(s, A), B) = Only(s, A \intersect B)
<1> DEFINE k == Len(s)
           C == A \intersect B
           f == OnlyUpTo(s, A)
           g == OnlyUpTo(s, C)
           T == {n \in 0..k : Only(f[n], B) = g[n]}
<1>1. /\ f \in [0..k -> Seq(S)] /\ Only(s, A) = f[k] /\ f[0] = <<>>
      /\ \A n \in 1..k : f[n] = IF s[n] \in A THEN Append(f[n - 1], s[n]) ELSE f[n - 1]
  BY OnlyStep
<1>2. /\ g \in [0..k -> Seq(S)] /\ Only(s, C) = g[k] /\ g[0] = <<>>
      /\ \A n \in 1..k : g[n] = IF s[n] \in C THEN Append(g[n - 1], s[n]) ELSE g[n - 1]
  BY OnlyStep
<1>3. k \in Nat
  OBVIOUS
<1> HIDE DEF f, g
<1>4. 0 \in T
  <2>1. Only(<<>>, B) = <<>>
    BY OnlyNothing
  <2>2. Only(f[0], B) = g[0]
    BY <1>1, <1>2, <2>1, Zenon
  <2> QED BY <1>3, <2>2
<1>5. ASSUME NEW n \in 1..k, n - 1 \in T PROVE n \in T
  <2>1. n - 1 \in 0..k /\ n \in 0..k /\ f[n - 1] \in Seq(S) /\ s[n] \in S
    BY <1>1
  <2>2. Only(f[n - 1], B) = g[n - 1]
    BY <1>5
  <2>3. CASE s[n] \in A
    <3>1. f[n] = Append(f[n - 1], s[n]) /\ (s[n] \in C <=> s[n] \in B)
      BY <1>1, <2>3
    <3>2. Only(f[n], B) = IF s[n] \in B THEN Append(Only(f[n - 1], B), s[n]) ELSE Only(f[n - 1], B)
      <4>1. Only(Append(f[n - 1], s[n]), B) =
              IF s[n] \in B THEN Append(Only(f[n - 1], B), s[n]) ELSE Only(f[n - 1], B)
        <5> DEFINE w == f[n - 1]
                   x == s[n]
        <5>1. w \in Seq(S) /\ x \in S
          BY <2>1
        <5> HIDE DEF w, x
        <5>2. Only(Append(w, x), B) = IF x \in B THEN Append(Only(w, B), x) ELSE Only(w, B)
          BY <5>1, OnlyAppend
        <5> QED BY <5>2 DEF w, x
      <4> QED BY <3>1, <4>1, Zenon
    <3>3. Only(f[n], B) = g[n]
      BY <1>2, <2>2, <3>1, <3>2
    <3> QED BY <2>1, <3>3
  <2>4. CASE s[n] \notin A
    <3>1. f[n] = f[n - 1] /\ s[n] \notin C
      BY <1>1, <2>4
    <3>2. g[n] = g[n - 1]
      BY <1>2, <3>1
    <3> QED BY <2>1, <2>2, <3>1, <3>2
  <2> QED BY <2>3, <2>4
<1>6. 0..k \subseteq T
  <2> HIDE DEF T, k
  <2> QED BY <1>3, <1>4, <1>5, UpTo
<1>7. k \in 0..k
  BY <1>3
<1>8. Only(f[k], B) = g[k]
  BY <1>6, <1>7
<1> QED BY <1>1, <1>2, <1>8

\* Two sets that do not tell the entries apart take the same of them.
LEMMA OnlySame ==
  ASSUME NEW S, NEW s \in Seq(S), NEW A, NEW B, \A i \in DOMAIN s : s[i] \in A <=> s[i] \in B
  PROVE  Only(s, A) = Only(s, B)
<1> DEFINE k == Len(s)
           f == OnlyUpTo(s, A)
           g == OnlyUpTo(s, B)
           T == {n \in 0..k : f[n] = g[n]}
<1>1. /\ f \in [0..k -> Seq(S)] /\ Only(s, A) = f[k] /\ f[0] = <<>>
      /\ \A n \in 1..k : f[n] = IF s[n] \in A THEN Append(f[n - 1], s[n]) ELSE f[n - 1]
  BY OnlyStep
<1>2. /\ g \in [0..k -> Seq(S)] /\ Only(s, B) = g[k] /\ g[0] = <<>>
      /\ \A n \in 1..k : g[n] = IF s[n] \in B THEN Append(g[n - 1], s[n]) ELSE g[n - 1]
  BY OnlyStep
<1>3. k \in Nat /\ DOMAIN s = 1..k
  OBVIOUS
<1> HIDE DEF f, g, k
<1>4. 0 \in T
  BY <1>1, <1>2, <1>3
<1>5. ASSUME NEW n \in 1..k, n - 1 \in T PROVE n \in T
  <2>1. n \in 0..k /\ f[n - 1] = g[n - 1] /\ (s[n] \in A <=> s[n] \in B)
    BY <1>3, <1>5
  <2> QED BY <1>1, <1>2, <2>1
<1>6. 0..k \subseteq T
  <2> HIDE DEF T
  <2> QED BY <1>3, <1>4, <1>5, UpTo
<1> QED BY <1>1, <1>2, <1>3, <1>6

\* A set that has all of them takes all of them.
LEMMA OnlyAll ==
  ASSUME NEW S, NEW s \in Seq(S), NEW A, \A i \in DOMAIN s : s[i] \in A
  PROVE  Only(s, A) = s
<1> DEFINE k == Len(s)
           f == OnlyUpTo(s, A)
           T == {n \in 0..k : Len(f[n]) = n /\ \A i \in 1..n : f[n][i] = s[i]}
<1>1. /\ f \in [0..k -> Seq(S)] /\ Only(s, A) = f[k] /\ f[0] = <<>>
      /\ \A n \in 1..k : f[n] = IF s[n] \in A THEN Append(f[n - 1], s[n]) ELSE f[n - 1]
  BY OnlyStep
<1>2. k \in Nat /\ DOMAIN s = 1..k
  OBVIOUS
<1> HIDE DEF f
<1>3. 0 \in T
  BY <1>1, <1>2
<1>4. ASSUME NEW n \in 1..k, n - 1 \in T PROVE n \in T
  <2>0. n \in DOMAIN s /\ s[n] \in S
    BY <1>2
  <2>1. n - 1 \in 0..k /\ n \in 0..k /\ f[n - 1] \in Seq(S) /\ s[n] \in S /\ s[n] \in A
    BY <1>1, <1>2, <2>0
  <2>2. Len(f[n - 1]) = n - 1 /\ \A i \in 1..(n - 1) : f[n - 1][i] = s[i]
    BY <1>4
  <2>3. f[n] = Append(f[n - 1], s[n])
    BY <1>1, <2>1
  <2>4. /\ Len(f[n]) = (n - 1) + 1 /\ f[n][(n - 1) + 1] = s[n]
        /\ \A i \in 1..(n - 1) : f[n][i] = f[n - 1][i]
    BY <2>1, <2>2, <2>3, AppendProperties
  <2>5. (n - 1) + 1 = n /\ \A i \in 1..n : i \in 1..(n - 1) \/ i = n
    OBVIOUS
  <2>6. Len(f[n]) = n /\ \A i \in 1..n : f[n][i] = s[i]
    BY <2>2, <2>4, <2>5
  <2> QED BY <2>1, <2>6
<1>5. 0..k \subseteq T
  <2> HIDE DEF T, k
  <2> QED BY <1>2, <1>3, <1>4, UpTo
<1>6. k \in 0..k
  BY <1>2
<1>7. Len(f[k]) = k /\ \A i \in 1..k : f[k][i] = s[i]
  BY <1>5, <1>6
<1>8. f[k] \in Seq(S)
  BY <1>1, <1>6
<1>9. f[k] = s
  BY <1>2, <1>7, <1>8
<1> QED BY <1>1, <1>9
-----------------------------------------------------------------------------
(* What a search finds.                                                    *)

Low(s) == [i \in DOMAIN s |-> IF s[i] \in DOMAIN Capitals THEN Capitals[s[i]] ELSE s[i]]
Starting(list, t) == {item \in ToSet(list) : IsPrefix(t, item.name)}

\* Both lists search in the same way.
LEMMA SameSearch ==
  ASSUME NEW list, NEW t
  PROVE  /\ Files!Lower(t) = Low(t) /\ Dialog!Lower(t) = Low(t)
         /\ Files!Found(list, t) = Only(list, Starting(list, Low(t)))
         /\ Dialog!Found(list, t) = Only(list, Starting(list, Low(t)))
         /\ Files!Asked(list, t) = Only(list, {item \in ToSet(list) : IsPrefix(Low(t), Low(item.name))})
         /\ Dialog!Asked(list, t) = Only(list, {item \in ToSet(list) : IsPrefix(Low(t), Low(item.name))})
<1>1. /\ \A s : Files!Lower(s) = Low(s) /\ Dialog!Lower(s) = Low(s)
      /\ \A s, u : Files!IsPrefix(s, u) = IsPrefix(s, u) /\ Dialog!IsPrefix(s, u) = IsPrefix(s, u)
      /\ \A s : Files!ToSet(s) = ToSet(s) /\ Dialog!ToSet(s) = ToSet(s)
      /\ \A s, set : Files!Only(s, set) = Only(s, set) /\ Dialog!Only(s, set) = Only(s, set)
  BY DEF Files!Lower, Dialog!Lower, Low, Files!IsPrefix, Dialog!IsPrefix, IsPrefix,
         Files!ToSet, Dialog!ToSet, ToSet, Files!Only, Dialog!Only, Only
<1> QED BY <1>1 DEF Starting, Files!Found, Dialog!Found, Files!Asked, Dialog!Asked

\* Lower case keeps the places of the letters, and is kept by itself.
LEMMA LowFacts ==
  ASSUME NEW s \in Seq(STRING)
  PROVE  /\ Low(s) \in Seq(STRING) /\ Len(Low(s)) = Len(s)
         /\ \A i \in 1..Len(s) :
               Low(s)[i] = IF s[i] \in DOMAIN Capitals THEN Capitals[s[i]] ELSE s[i]
         /\ \A i \in 1..Len(s) : Low(s)[i] \notin DOMAIN Capitals
         /\ Low(Low(s)) = Low(s)
<1>1. DOMAIN s = 1..Len(s) /\ Len(s) \in Nat /\ \A i \in 1..Len(s) : s[i] \in STRING
  OBVIOUS
<1>2. DOMAIN Low(s) = 1..Len(s) /\ \A i \in 1..Len(s) :
         /\ Low(s)[i] = IF s[i] \in DOMAIN Capitals THEN Capitals[s[i]] ELSE s[i]
         /\ Low(s)[i] \in STRING /\ Low(s)[i] \notin DOMAIN Capitals
  BY <1>1, ListsAssumption DEF Low
<1>3. Low(s) \in [1..Len(s) -> STRING]
  <2>1. Low(s) = [i \in 1..Len(s) |-> Low(s)[i]]
    BY <1>1 DEF Low
  <2> QED BY <1>2, <2>1
<1>4. Low(s) \in Seq(STRING) /\ Len(Low(s)) = Len(s)
  BY <1>1, <1>3
<1>5. Low(Low(s)) = Low(s)
  <2>1. Low(Low(s)) = [i \in 1..Len(s) |-> Low(s)[i]]
    BY <1>2 DEF Low
  <2> QED BY <1>3, <2>1
<1> QED BY <1>2, <1>4, <1>5

\* A prefix, letter by letter
LEMMA PrefixFacts ==
  ASSUME NEW s \in Seq(STRING), NEW t \in Seq(STRING)
  PROVE  IsPrefix(s, t) <=> Len(s) <= Len(t) /\ \A i \in 1..Len(s) : s[i] = t[i]
<1>1. Len(s) \in Nat /\ Len(t) \in Nat
  OBVIOUS
<1>2. ASSUME Len(s) <= Len(t)
      PROVE  SubSeq(s, 1, Len(s)) = SubSeq(t, 1, Len(s)) <=> \A i \in 1..Len(s) : s[i] = t[i]
  <2>1. SubSeq(s, 1, Len(s)) = [i \in 1..Len(s) |-> s[i]] /\ SubSeq(t, 1, Len(s)) = [i \in 1..Len(s) |-> t[i]]
    BY <1>1, <1>2
  <2>2. (\A i \in 1..Len(s) : s[i] = t[i]) => [i \in 1..Len(s) |-> s[i]] = [i \in 1..Len(s) |-> t[i]]
    OBVIOUS
  <2>3. [i \in 1..Len(s) |-> s[i]] = [i \in 1..Len(s) |-> t[i]] =>
          \A i \in 1..Len(s) : [k \in 1..Len(s) |-> s[k]][i] = [k \in 1..Len(s) |-> t[k]][i]
    OBVIOUS
  <2> QED BY <2>1, <2>2, <2>3
<1> QED BY <1>2 DEF IsPrefix
-----------------------------------------------------------------------------
(* What a search finds is what the user asks for: the names of the files   *)
(* are in lower case, and so are those of the sessions that count.         *)

\* Entries that begin with nothing, and an entry that begins as it is asked
LEMMA SmallPrefix ==
  ASSUME NEW t \in Seq(STRING), NEW name \in Seq(STRING)
  PROVE  /\ t = <<>> => IsPrefix(Low(t), name)
         /\ IsPrefix(Low(t), name) => IsPrefix(Low(t), Low(name))
         /\ name = <<>> /\ IsPrefix(Low(t), name) => t = <<>>
<1>1. /\ Low(t) \in Seq(STRING) /\ Len(Low(t)) = Len(t)
      /\ \A i \in 1..Len(t) : Low(t)[i] \notin DOMAIN Capitals
  BY LowFacts
<1>2. /\ Low(name) \in Seq(STRING) /\ Len(Low(name)) = Len(name)
      /\ \A i \in 1..Len(name) :
            Low(name)[i] = IF name[i] \in DOMAIN Capitals THEN Capitals[name[i]] ELSE name[i]
  BY LowFacts
<1>3. Len(t) \in Nat /\ Len(name) \in Nat
  OBVIOUS
<1> DEFINE u == Low(t)
           v == Low(name)
<1>4. u \in Seq(STRING) /\ v \in Seq(STRING)
  BY <1>1, <1>2
<1> HIDE DEF u, v
<1>5. /\ IsPrefix(u, name) <=> Len(u) <= Len(name) /\ \A i \in 1..Len(u) : u[i] = name[i]
      /\ IsPrefix(u, v) <=> Len(u) <= Len(v) /\ \A i \in 1..Len(u) : u[i] = v[i]
  BY <1>4, PrefixFacts
<1>6. /\ Len(u) = Len(t) /\ \A i \in 1..Len(t) : u[i] \notin DOMAIN Capitals
  BY <1>1 DEF u
<1>7. /\ Len(v) = Len(name)
      /\ \A i \in 1..Len(name) : v[i] = IF name[i] \in DOMAIN Capitals THEN Capitals[name[i]] ELSE name[i]
  BY <1>2 DEF v
<1>8. t = <<>> => IsPrefix(u, name)
  <2>1. t = <<>> => Len(u) = 0
    BY <1>6
  <2>2. Len(u) = 0 => Len(u) <= Len(name) /\ \A i \in 1..Len(u) : u[i] = name[i]
    BY <1>3
  <2> QED BY <1>5, <2>1, <2>2
<1>9. IsPrefix(u, name) => IsPrefix(u, v)
  <2> SUFFICES ASSUME Len(u) <= Len(name), \A i \in 1..Len(u) : u[i] = name[i]
               PROVE  Len(u) <= Len(v) /\ \A i \in 1..Len(u) : u[i] = v[i]
    BY <1>5
  <2>1. \A i \in 1..Len(u) : i \in 1..Len(name)
    BY <1>3, <1>6
  <2> QED BY <1>6, <1>7, <2>1
<1>10. name = <<>> /\ IsPrefix(u, name) => t = <<>>
  <2> SUFFICES ASSUME name = <<>>, Len(u) <= Len(name) PROVE t = <<>>
    BY <1>5
  <2>1. Len(t) <= 0
    BY <1>6
  <2> QED BY <1>3, <2>1
<1> QED BY <1>8, <1>9, <1>10 DEF u, v

SmallFiles(list) ==
  \A i \in DOMAIN list : list[i].name = IF list[i].exists THEN Low(list[i].name) ELSE <<>>

FilesInv ==
  /\ files \in Seq(SourceFile) /\ search \in Seq(STRING)
  /\ SmallFiles(files)
  /\ \/ ~ refilled /\ fileRows = Only(files, Starting(files, Low(search)))
     \/ (refilled <=> search # <<>>) /\ fileRows = Existing(files)

DialogInv ==
  /\ offered \in Seq(Session) /\ sought \in Seq(STRING)
  /\ offers = Only(offered, Starting(offered, Low(sought)))

\* The rows are those of the files that the user asks for.
LEMMA FilesFit == FilesInv => FilesShown
<1> SUFFICES ASSUME FilesInv PROVE FilesShown
  OBVIOUS
<1> DEFINE There == {file \in ToSet(files) : file.exists}
           Begin == Starting(files, Low(search))
           Want  == {item \in ToSet(Existing(files)) : IsPrefix(Low(search), Low(item.name))}
           Seen  == {file \in ToSet(fileRows) : file.exists}
<1>1. files \in Seq(SourceFile) /\ search \in Seq(STRING) /\ SmallFiles(files)
  BY DEF FilesInv
<1>2. /\ Existing(files) = Only(files, There)
      /\ Existing(fileRows) = Only(fileRows, Seen)
      /\ Files!Asked(Existing(files), search) = Only(Existing(files), Want)
  BY SameSearch DEF Existing
<1>3. ASSUME NEW i \in DOMAIN files
      PROVE  /\ files[i] \in SourceFile /\ files[i] \in ToSet(files)
             /\ files[i].name \in Seq(STRING) /\ files[i].exists \in BOOLEAN
             /\ files[i].name = IF files[i].exists THEN Low(files[i].name) ELSE <<>>
  <2>1. files[i] \in SourceFile /\ files[i] \in ToSet(files)
    BY <1>1 DEF ToSet
  <2> QED BY <1>1, <2>1 DEF SourceFile, SmallFiles
<1>4. ToSet(Existing(files)) = ToSet(files) \intersect There
  BY <1>1, <1>2, OnlyEntries
<1>5. Files!Asked(Existing(files), search) = Only(files, There \intersect Want)
  <2>1. Files!Asked(Existing(files), search) = Only(Only(files, There), Want)
    BY <1>2
  <2> HIDE DEF There, Want
  <2>2. Only(Only(files, There), Want) = Only(files, There \intersect Want)
    BY <1>1, OnlyOnly
  <2> QED BY <2>1, <2>2
<1>6. CASE ~ refilled /\ fileRows = Only(files, Begin)
  <2>1. ToSet(fileRows) = ToSet(files) \intersect Begin
    BY <1>1, <1>6, OnlyEntries
  <2>2. Existing(fileRows) = Only(files, Begin \intersect Seen)
    BY <1>1, <1>2, <1>6, OnlyOnly
  <2>3. ASSUME NEW i \in DOMAIN files
        PROVE  files[i] \in Begin \intersect Seen <=> files[i] \in There \intersect Want
    BY <1>3, <1>4, <2>1 DEF Starting
  <2>4. Only(files, Begin \intersect Seen) = Only(files, There \intersect Want)
    <3> DEFINE A == Begin \intersect Seen
               B == There \intersect Want
    <3>1. \A i \in DOMAIN files : files[i] \in A <=> files[i] \in B
      BY <2>3
    <3> HIDE DEF A, B
    <3>2. Only(files, A) = Only(files, B)
      BY <1>1, <3>1, OnlySame
    <3> QED BY <3>2 DEF A, B
  <2>5. ASSUME NEW i \in DOMAIN fileRows
        PROVE  fileRows[i].exists \/ (search = <<>> /\ fileRows[i].name = <<>>)
    <3>1. fileRows[i] \in ToSet(files) /\ fileRows[i] \in Begin
      <4>1. fileRows[i] \in ToSet(fileRows)
        BY DEF ToSet
      <4> QED BY <2>1, <4>1
    <3>2. PICK k \in DOMAIN files : files[k] = fileRows[i]
      BY <3>1 DEF ToSet
    <3>3. IsPrefix(Low(search), files[k].name)
      BY <3>1, <3>2 DEF Starting
    <3>4. files[k].name = <<>> => search = <<>>
      BY <1>1, <1>3, <3>3, SmallPrefix
    <3> QED BY <1>3, <3>2, <3>4
  <2> QED BY <1>5, <2>2, <2>4, <2>5 DEF FilesShown
<1>7. CASE (refilled <=> search # <<>>) /\ fileRows = Existing(files)
  <2>1. Existing(fileRows) = Only(files, There \intersect Seen)
    <3>1. Existing(fileRows) = Only(Only(files, There), Seen)
      BY <1>2, <1>7
    <3> HIDE DEF There, Seen
    <3>2. Only(Only(files, There), Seen) = Only(files, There \intersect Seen)
      BY <1>1, OnlyOnly
    <3> QED BY <3>1, <3>2
  <2>2. ASSUME ~ refilled
        PROVE  Existing(fileRows) = Files!Asked(Existing(files), search)
    <3>1. search = <<>>
      BY <1>7, <2>2
    <3>2. ASSUME NEW i \in DOMAIN files
          PROVE  files[i] \in There \intersect Seen <=> files[i] \in There \intersect Want
      <4>1. Low(files[i].name) \in Seq(STRING)
        BY <1>3, LowFacts
      <4>2. IsPrefix(Low(search), Low(files[i].name))
        BY <1>1, <3>1, <4>1, SmallPrefix
      <4> QED BY <1>3, <1>4, <1>7, <4>2
    <3> DEFINE A == There \intersect Seen
               B == There \intersect Want
    <3>3. \A i \in DOMAIN files : files[i] \in A <=> files[i] \in B
      BY <3>2
    <3>4. Existing(fileRows) = Only(files, A) /\ Files!Asked(Existing(files), search) = Only(files, B)
      BY <1>5, <2>1
    <3> HIDE DEF A, B
    <3>5. Only(files, A) = Only(files, B)
      BY <1>1, <3>3, OnlySame
    <3> QED BY <3>4, <3>5
  <2>3. ASSUME NEW i \in DOMAIN fileRows PROVE fileRows[i].exists
    <3>1. fileRows[i] \in ToSet(fileRows)
      BY DEF ToSet
    <3> QED BY <1>4, <1>7, <3>1
  <2> QED BY <2>2, <2>3 DEF FilesShown
<1> QED BY <1>6, <1>7 DEF FilesInv

\* The dialog's rows are what was asked for, if the names are small.
LEMMA SessionsFit == DialogInv => SessionsShown
<1> SUFFICES ASSUME DialogInv PROVE SessionsShown
  OBVIOUS
<1> DEFINE Begin == Starting(offered, Low(sought))
           Want  == {item \in ToSet(offered) : IsPrefix(Low(sought), Low(item.name))}
           asked == Only(offered, Want)
           Seen  == {session \in ToSet(offers) : session.name = Low(session.name)}
           Due   == {session \in ToSet(asked) : session.name = Low(session.name)}
<1>1. offered \in Seq(Session) /\ sought \in Seq(STRING) /\ offers = Only(offered, Begin)
  BY DEF DialogInv
<1>2. Dialog!Asked(offered, sought) = asked /\ \A s : Dialog!Lower(s) = Low(s)
  BY SameSearch
<1>3. ToSet(offers) = ToSet(offered) \intersect Begin /\ ToSet(asked) = ToSet(offered) \intersect Want
  <2> HIDE DEF Begin, Want
  <2> QED BY <1>1, OnlyEntries
<1>4. ASSUME NEW i \in DOMAIN offered
      PROVE  /\ offered[i] \in ToSet(offered) /\ offered[i].name \in Seq(STRING)
             /\ sought = <<>> => IsPrefix(Low(sought), offered[i].name)
             /\ IsPrefix(Low(sought), offered[i].name) => IsPrefix(Low(sought), Low(offered[i].name))
  <2>1. offered[i] \in Session /\ offered[i] \in ToSet(offered)
    BY <1>1 DEF ToSet
  <2>2. offered[i].name \in Seq(STRING)
    BY <2>1 DEF Session
  <2> QED BY <1>1, <2>1, <2>2, SmallPrefix
<1>5. Only(offers, Seen) = Only(asked, Due)
  <2>1. ASSUME NEW i \in DOMAIN offered
        PROVE  offered[i] \in Begin \intersect Seen <=> offered[i] \in Want \intersect Due
    BY <1>3, <1>4 DEF Starting
  <2>2. offers = Only(offered, Begin) /\ asked = Only(offered, Want)
    BY <1>1
  <2> HIDE DEF Begin, Want, Seen, Due, asked
  <2>3. /\ Only(offers, Seen) = Only(offered, Begin \intersect Seen)
        /\ Only(asked, Due) = Only(offered, Want \intersect Due)
    BY <1>1, <2>2, OnlyOnly
  <2> DEFINE A == Begin \intersect Seen
             B == Want \intersect Due
  <2>4. \A i \in DOMAIN offered : offered[i] \in A <=> offered[i] \in B
    BY <2>1
  <2>5. Only(offers, Seen) = Only(offered, A) /\ Only(asked, Due) = Only(offered, B)
    BY <2>3
  <2> HIDE DEF A, B
  <2>6. Only(offered, A) = Only(offered, B)
    BY <1>1, <2>4, OnlySame
  <2> QED BY <2>5, <2>6
<1>6. ASSUME sought = <<>> PROVE offers = offered
  <2>1. \A i \in DOMAIN offered : offered[i] \in Begin
    BY <1>4, <1>6 DEF Starting
  <2> HIDE DEF Begin
  <2> QED BY <1>1, <2>1, OnlyAll
<1>7. ToSet(offers) \subseteq ToSet(asked)
  <2>1. ASSUME NEW session \in ToSet(offered), session \in Begin PROVE session \in Want
    <3>1. PICK i \in DOMAIN offered : offered[i] = session
      BY DEF ToSet
    <3> QED BY <1>4, <2>1, <3>1 DEF Starting
  <2> QED BY <1>3, <2>1
<1> QED BY <1>2, <1>5, <1>6, <1>7 DEF SessionsShown
-----------------------------------------------------------------------------
(* The steps keep both.                                                    *)

\* The function that Sources is computed with
SourcesUpTo(answer) ==
  LET list[n \in 0..Len(answer)] ==
        IF n = 0 THEN <<>>
        ELSE IF answer[n].relative /\ \A i \in DOMAIN list[n - 1] : list[n - 1][i].full # answer[n].full
             THEN Append(list[n - 1], answer[n])
        ELSE list[n - 1]
  IN list

\* The files of an answer are files.
LEMMA SourcesAre ==
  ASSUME NEW answer \in Seq(SourceFile)
  PROVE  Sources(answer) \in Seq(SourceFile)
<1> DEFINE k == Len(answer)
           X == Seq(SourceFile)
           Step(n, x) == IF answer[n].relative /\ \A i \in DOMAIN x : x[i].full # answer[n].full
                         THEN Append(x, answer[n]) ELSE x
           F == [p \in (1..k) \X X |-> Step(p[1], p[2])]
           Is(g) == g = [n \in 0..k |-> IF n = 0 THEN <<>> ELSE Step(n, g[n - 1])]
           f == SourcesUpTo(answer)
<1>1. k \in Nat /\ <<>> \in X
  OBVIOUS
<1>2. ASSUME NEW n \in 1..k, NEW x \in X PROVE Step(n, x) \in X /\ F[<<n, x>>] = Step(n, x)
  <2>1. answer[n] \in SourceFile
    OBVIOUS
  <2>2. Append(x, answer[n]) \in X
    BY <2>1, AppendProperties
  <2>3. Step(n, x) \in X
    BY <2>2
  <2> QED BY <2>3
<1>3. \E g : g \in [0..k -> X] /\ Is(g)
  <2>1. PICK g \in [0..k -> X] : g[0] = <<>> /\ \A n \in 1..k : g[n] = F[<<n, g[n - 1]>>]
    <3> HIDE DEF k, F, Step, X
    <3>1. Steps(X, <<>>, k, F)
      BY <1>1, <1>2 DEF Steps
    <3>2. Defines(X, <<>>, k, F)
      BY <3>1, Stepwise
    <3> QED BY <3>2 DEF Defines
  <2>2. ASSUME NEW n \in 1..k PROVE g[n] = Step(n, g[n - 1])
    <3>1. n - 1 \in 0..k /\ g[n - 1] \in X
      BY <1>1
    <3> HIDE DEF k, F, Step, X
    <3> QED BY <1>2, <2>1, <3>1
  <2> HIDE DEF k, F, Step
  <2>3. Is(g)
    <3>1. \A n \in 0..k : n = 0 \/ n \in 1..k
      BY <1>1
    <3> QED BY <2>1, <2>2, <3>1
  <2> QED BY <2>3
<1>4. f = CHOOSE g : Is(g)
  BY DEF SourcesUpTo
<1>5. Is(f)
  <2> HIDE DEF Is, f
  <2> QED BY <1>3, <1>4
<1>6. Sources(answer) = f[k]
  BY DEF Sources, SourcesUpTo
<1>7. f[0] = <<>> /\ \A n \in 1..k : f[n] = Step(n, f[n - 1])
  <2> HIDE DEF f, Step, k
  <2>1. 0 \in 0..k /\ \A n \in 1..k : n \in 0..k /\ n # 0
    BY <1>1
  <2> QED BY <1>5, <2>1
<1> DEFINE T == {n \in 0..k : f[n] \in X}
<1> HIDE DEF f, Step, k, F, X
<1>8. 0 \in T
  <2>1. 0 \in 0..k
    BY <1>1
  <2>2. f[0] \in X
    BY <1>1, <1>7, Zenon
  <2> QED BY <2>1, <2>2
<1>9. ASSUME NEW n \in 1..k, n - 1 \in T PROVE n \in T
  <2>1. f[n - 1] \in X /\ n \in 0..k
    BY <1>1, <1>9
  <2> QED BY <1>2, <1>7, <2>1
<1>10. 0..k \subseteq T
  <2> HIDE DEF T
  <2> QED BY <1>1, <1>8, <1>9, UpTo
<1>11. f[k] \in X
  BY <1>1, <1>10
<1> QED BY <1>6, <1>11 DEF X

\* A session's files are set: the rows are those that exist.
LEMMA SetFilesKeeps ==
  ASSUME FilesInv, NEW answer \in Answers, SetFiles(answer)
  PROVE  FilesInv'
<1> DEFINE list == Sources(answer)
           name(i) == IF list[i].exists THEN Low(list[i].name) ELSE <<>>
<1>1. list \in Seq(SourceFile) /\ search \in Seq(STRING)
  BY ListsAssumption, SourcesAre DEF FilesInv
<1>2. /\ files' = [i \in DOMAIN list |-> [list[i] EXCEPT !.name = IF list[i].exists THEN Files!Lower(@) ELSE <<>>]]
      /\ fileRows' = Existing(files') /\ refilled' = (search # <<>>) /\ search' = search
  BY DEF SetFiles
<1>3. \A s : Files!Lower(s) = Low(s)
  BY SameSearch
<1> HIDE DEF list
<1>4. ASSUME NEW i \in DOMAIN list
      PROVE  /\ files'[i] \in SourceFile /\ files'[i].exists = list[i].exists
             /\ files'[i].name = IF list[i].exists THEN Low(files'[i].name) ELSE <<>>
  <2>1. list[i] \in SourceFile
    BY <1>1
  <2>2. list[i].name \in Seq(STRING)
    BY <2>1 DEF SourceFile
  <2>3. /\ Low(list[i].name) \in Seq(STRING) /\ Low(Low(list[i].name)) = Low(list[i].name)
        /\ name(i) \in Seq(STRING)
    <3> DEFINE u == list[i].name
    <3>1. u \in Seq(STRING)
      BY <2>2
    <3>2. name(i) = IF list[i].exists THEN Low(u) ELSE <<>>
      OBVIOUS
    <3> HIDE DEF u, name
    <3>3. Low(u) \in Seq(STRING) /\ Low(Low(u)) = Low(u)
      BY <3>1, LowFacts
    <3>4. <<>> \in Seq(STRING)
      OBVIOUS
    <3>5. name(i) \in Seq(STRING)
      BY <3>2, <3>3, <3>4, Zenon
    <3> QED BY <3>3, <3>5 DEF u
  <2>4. files'[i] = [list[i] EXCEPT !.name = name(i)]
    BY <1>2, <1>3
  <2>5. name(i) = IF list[i].exists THEN Low(name(i)) ELSE <<>>
    BY <2>3
  <2>6. name(i) \in Seq(STRING)
    BY <2>3
  <2> HIDE DEF name
  <2>7. files'[i] \in SourceFile /\ files'[i].exists = list[i].exists /\ files'[i].name = name(i)
    BY <2>1, <2>4, <2>6 DEF SourceFile
  <2> QED BY <2>5, <2>7
<1>5. files' \in Seq(SourceFile) /\ DOMAIN files' = DOMAIN list
  <2>1. DOMAIN files' = DOMAIN list /\ DOMAIN list = 1..Len(list) /\ Len(list) \in Nat
    BY <1>1, <1>2
  <2>2. files' = [i \in 1..Len(list) |-> files'[i]]
    BY <1>2, <2>1
  <2>3. files' \in [1..Len(list) -> SourceFile]
    BY <1>4, <2>1, <2>2
  <2> QED BY <2>1, <2>3
<1>6. SmallFiles(files)'
  BY <1>4, <1>5 DEF SmallFiles
<1>7. (refilled' <=> search' # <<>>) /\ fileRows' = Existing(files')
  BY <1>2
<1>8. Existing(files') = Existing(files)'
  BY DEF Existing
<1> QED BY <1>1, <1>2, <1>5, <1>6, <1>7, <1>8 DEF FilesInv

\* A text is typed into the search box, or the box is cleared.
LEMMA SearchKeeps ==
  ASSUME FilesInv, NEW t \in Seq(STRING), Files!OnSearchText(t), refilled' = FALSE
  PROVE  FilesInv'
<1>1. files' = files /\ search' = t /\ fileRows' = Only(files, Starting(files, Low(t)))
  BY SameSearch DEF Files!OnSearchText
<1>2. files' \in Seq(SourceFile) /\ search' \in Seq(STRING) /\ SmallFiles(files')
  BY <1>1 DEF FilesInv
<1>3. ~ refilled' /\ fileRows' = Only(files', Starting(files', Low(search')))
  BY <1>1
<1> QED BY <1>2, <1>3 DEF FilesInv, SmallFiles

\* What does not touch the files leaves their list right.
LEMMA FilesStay ==
  ASSUME FilesInv, UNCHANGED <<files, search, fileRows, refilled>>
  PROVE  FilesInv'
BY DEF FilesInv, SmallFiles, Existing, Starting

\* What does not touch the dialog leaves its list right.
LEMMA DialogStays ==
  ASSUME DialogInv, UNCHANGED <<offered, sought, offers>>
  PROVE  DialogInv'
BY DEF DialogInv, Starting

\* A dialog that is gone lists nothing.
LEMMA DialogCleared ==
  ASSUME DialogGone
  PROVE  DialogInv'
<1>1. offered' = <<>> /\ sought' = <<>> /\ offers' = <<>>
  BY DEF DialogGone
<1>2. Only(<<>>, Starting(offered', Low(sought'))) = <<>>
  BY OnlyNothing
<1> QED BY <1>1, <1>2 DEF DialogInv

\* No text is typed yet: every session is offered.
LEMMA DialogOpened ==
  ASSUME OpenDialog
  PROVE  DialogInv'
<1>1. offered' = Sessions /\ sought' = <<>> /\ offers' = Sessions
  BY DEF OpenDialog
<1>2. Sessions \in Seq(Session) /\ <<>> \in Seq(STRING)
  BY ListsAssumption
<1>3. ASSUME NEW i \in DOMAIN Sessions PROVE Sessions[i] \in Starting(Sessions, Low(<<>>))
  <2>1. Sessions[i] \in Session /\ Sessions[i] \in ToSet(Sessions)
    BY <1>2 DEF ToSet
  <2>2. Sessions[i].name \in Seq(STRING)
    BY <2>1 DEF Session
  <2>3. IsPrefix(Low(<<>>), Sessions[i].name)
    BY <1>2, <2>2, SmallPrefix
  <2> QED BY <2>1, <2>3 DEF Starting
<1>4. Only(Sessions, Starting(Sessions, Low(<<>>))) = Sessions
  BY <1>2, <1>3, OnlyAll
<1> QED BY <1>1, <1>2, <1>4 DEF DialogInv

\* A search in the dialog lists what it should.
LEMMA DialogSearched ==
  ASSUME DialogInv, NEW t \in Seq(STRING), Dialog!OnSearchText(t)
  PROVE  DialogInv'
<1>1. offered' = offered /\ sought' = t /\ offers' = Only(offered, Starting(offered, Low(t)))
  BY SameSearch DEF Dialog!OnSearchText
<1> QED BY <1>1 DEF DialogInv

ListsInv == FilesInv /\ DialogInv

\* Both lists are right when the program starts,
LEMMA ListsInit == Init => ListsInv
<1> SUFFICES ASSUME Init PROVE ListsInv
  OBVIOUS
<1>1. /\ files = <<>> /\ search = <<>> /\ fileRows = <<>> /\ refilled = FALSE
      /\ offered = <<>> /\ sought = <<>> /\ offers = <<>>
  BY DEF Init, Files!Empty, Dialog!Empty
<1>2. /\ Only(<<>>, Starting(<<>>, Low(<<>>))) = <<>>
      /\ <<>> \in Seq(SourceFile) /\ <<>> \in Seq(Session) /\ <<>> \in Seq(STRING)
  BY OnlyNothing
<1>3. SmallFiles(files)
  BY <1>1 DEF SmallFiles
<1>4. FilesInv
  BY <1>1, <1>2, <1>3 DEF FilesInv
<1>5. DialogInv
  BY <1>1, <1>2 DEF DialogInv
<1> QED BY <1>4, <1>5 DEF ListsInv

\* and every step keeps them so.
LEMMA ListsStep == ListsInv /\ [Next]_vars => ListsInv'
<1> SUFFICES ASSUME ListsInv, [Next]_vars PROVE ListsInv'
  OBVIOUS
<1> USE DEF filesVars, dialogVars
<1>1. FilesInv /\ DialogInv
  BY DEF ListsInv
<1>2. UNCHANGED filesVars /\ UNCHANGED dialogVars => ListsInv'
  BY <1>1, FilesStay, DialogStays DEF ListsInv
<1>3. UNCHANGED dialogVars /\ FilesInv' => ListsInv'
  BY <1>1, DialogStays DEF ListsInv
<1>4. UNCHANGED filesVars /\ DialogInv' => ListsInv'
  BY <1>1, FilesStay DEF ListsInv
<1> HIDE DEF filesVars, dialogVars
<1>5. ASSUME NEW item \in Items, Toggle(item) PROVE ListsInv'
  BY <1>2, <1>5 DEF Toggle
<1>6. ASSUME NEW panel \in Tabbed, CloseTab(panel) PROVE ListsInv'
  BY <1>2, <1>6 DEF CloseTab
<1>7. ASSUME NEW pane \in Crosses, ClosePane(pane) PROVE ListsInv'
  BY <1>2, <1>7 DEF ClosePane
<1>8. ASSUME NEW answer \in Answers, OpenFromPanel(answer) PROVE ListsInv'
  BY <1>1, <1>3, <1>8, SetFilesKeeps DEF OpenFromPanel, OpenSession
<1>9. ASSUME NEW answer \in Answers, ChooseSession(answer) PROVE ListsInv'
  BY <1>1, <1>9, SetFilesKeeps, DialogCleared DEF ChooseSession, OpenSession, ListsInv
<1>10. CASE CloseSession
  BY <1>2, <1>10 DEF CloseSession
<1>11. CASE ReloadSessions
  BY <1>2, <1>11 DEF ReloadSessions
<1>12. CASE SearchFiles
  <2>1. ASSUME NEW t \in Texts, Files!OnSearchText(t), refilled' = FALSE PROVE FilesInv'
    <3>1. t \in Seq(STRING)
      BY ListsAssumption
    <3> QED BY <1>1, <2>1, <3>1, SearchKeeps
  <2>2. ASSUME Files!KeyUp \/ Files!KeyDown, UNCHANGED refilled PROVE FilesInv'
    BY <1>1, <2>2, FilesStay DEF Files!KeyUp, Files!KeyDown, Files!Select
  <2> QED BY <1>3, <1>12, <2>1, <2>2 DEF SearchFiles
<1>13. CASE OpenFile
  <2>1. <<>> \in Seq(STRING) /\ Files!OnSearchText(<<>>) /\ refilled' = FALSE
    BY <1>13 DEF OpenFile
  <2>2. FilesInv'
    BY <1>1, <2>1, SearchKeeps
  <2> QED BY <1>3, <1>13, <2>2 DEF OpenFile
<1>14. CASE OpenDialog
  BY <1>4, <1>14, DialogOpened DEF OpenDialog
<1>15. CASE SearchSessions
  <2>1. ASSUME NEW t \in Texts, Dialog!OnSearchText(t) PROVE DialogInv'
    <3>1. t \in Seq(STRING)
      BY ListsAssumption
    <3> QED BY <1>1, <2>1, <3>1, DialogSearched
  <2>2. ASSUME Dialog!KeyUp \/ Dialog!KeyDown PROVE DialogInv'
    BY <1>1, <2>2, DialogStays DEF Dialog!KeyUp, Dialog!KeyDown, Dialog!Select
  <2> QED BY <1>4, <1>15, <2>1, <2>2 DEF SearchSessions
<1>16. CASE CancelDialog
  BY <1>4, <1>16, DialogCleared DEF CancelDialog
<1>17. CASE HandleState
  BY <1>2, <1>17 DEF HandleState
<1>18. CASE HandleBreakpoints
  BY <1>2, <1>18 DEF HandleBreakpoints
<1>19. CASE HandleEnded
  BY <1>2, <1>19 DEF HandleEnded
<1>20. CASE UNCHANGED vars
  BY <1>2, <1>20 DEF vars
<1> QED BY <1>5, <1>6, <1>7, <1>8, <1>9, <1>10, <1>11, <1>12, <1>13, <1>14, <1>15, <1>16, <1>17, <1>18, <1>19, <1>20
        DEF Next

\* The rows of both lists follow from what they list and what was typed,
\* whatever the answers, the sessions and the texts are (setFiles,
\* onSearchText, onSearchKeyDown).
THEOREM ListsCorrect == Spec => []ListsInv
BY ListsInit, ListsStep, PTL DEF Spec

\* The list of files is that of the last session opened: its files that exist
\* and begin with what was typed, unless they were set under a text left there
\* (setFiles, onSearchText).
THEOREM FilesShownCorrect == Spec => []FilesShown
<1>1. ListsInv => FilesShown
  BY FilesFit DEF ListsInv
<1> QED BY <1>1, ListsCorrect, PTL

\* The dialog offers the sessions that begin with what was typed, those with a
\* capital in their name only until something is (onSearchText).
THEOREM SessionsShownCorrect == Spec => []SessionsShown
<1>1. ListsInv => SessionsShown
  BY SessionsFit DEF ListsInv
<1> QED BY <1>1, ListsCorrect, PTL
=============================================================================
