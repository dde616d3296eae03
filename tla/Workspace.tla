----------------------------- MODULE Workspace ------------------------------
(***************************************************************************)
(* The panels around the source tabs, and the View menu whose items are    *)
(* checked for those that are shown.  Three panels are pages of two        *)
(* notebooks at the bottom, which are hidden when they have no page; two   *)
(* are panes of the frame.  Opening and closing a session displays some    *)
(* and hides others; the user toggles the items, and may close tabs and    *)
(* panes without the menu.  The list of source files and the dialog that   *)
(* opens a session by its name are lists under a search box.               *)
(***************************************************************************)
EXTENDS Naturals, Sequences, FiniteSets, SequencesExt, Selection

CONSTANTS
  Answers,    \* gdb's answers to -file-list-exec-source-files
  Sessions,   \* the sessions of the session panel, in order
  Texts,      \* what is typed into search boxes
  Capitals,   \* capital letters, and the small ones
  Crosses,    \* the tabs and panes that the user may close by their cross
  MaxTabs     \* bound on the tabs of one panel

ASSUME WorkspaceAssumption ==
  /\ MaxTabs \in Nat
  /\ Crosses \subseteq {"sessions", "breakpoints", "stack", "locals", "files", "left", "right"}

\* Names and texts are letters, and a capital letter becomes a small one.
SourceFile == [full : STRING, relative : BOOLEAN, exists : BOOLEAN, name : Seq(STRING)]
Session    == [name : Seq(STRING)]
ASSUME ListsAssumption ==
  /\ \A capital \in DOMAIN Capitals : Capitals[capital] \in STRING \ DOMAIN Capitals
  /\ Texts \subseteq Seq(STRING)
  /\ Sessions \in Seq(Session) /\ Answers \subseteq Seq(SourceFile)

VARIABLES
  desk,       \* what is shown, and what the View menu says
  valid,      \* is a session open?
  ending,     \* is a wxEVT_DEBUGGER_GDB_PROCESS_ENDED queued?
  files, search, fileRows, fileCursor,          \* SourceFilesPanel
  choosing, offered, sought, offers, offer,     \* SessionOpenDialog
  byHand,     \* history: panels whose tab the user closed
  refilled    \* history: were the files set with a text in the search box?

filesVars  == <<files, search, fileRows, fileCursor, refilled>>
dialogVars == <<choosing, offered, sought, offers, offer>>
vars       == <<desk, valid, ending, filesVars, dialogVars, byHand>>

Files  == INSTANCE SearchList
            WITH Small <- Capitals, items <- files, text <- search, rows <- fileRows, cursor <- fileCursor
Dialog == INSTANCE SearchList
            WITH Small <- Capitals, items <- offered, text <- sought, rows <- offers, cursor <- offer

Tabbed == {"sessions", "breakpoints", "stack"}
Panes  == {"locals", "files"}
Items  == Tabbed \union Panes
Side(panel) == IF panel = "stack" THEN "right" ELSE "left"

Desk == [tabs    : [Tabbed -> Nat],                        \* pages of each panel
         shown   : SUBSET (Panes \union {"left", "right"}),
         checked : SUBSET Items,
         alive   : SUBSET Tabbed,                          \* panels not destroyed
         crashed : BOOLEAN,                                \* has a destroyed one been used?
         astray  : SUBSET Items]                           \* history: see Astray

TypeOK ==
  /\ desk \in Desk
  /\ valid \in BOOLEAN /\ ending \in BOOLEAN /\ choosing \in BOOLEAN /\ refilled \in BOOLEAN
  /\ byHand \in SUBSET Tabbed
-----------------------------------------------------------------------------
(* MainFrame's notebooks and menu, as functions of the desk.  Astray is an *)
(* item whose panel was displayed when it was there already, or was closed *)
(* without the menu, until the item is unchecked and the panel gone.       *)

Paged(d, panel, n) == [d EXCEPT !.tabs = [@ EXCEPT ![panel] = n]]
Revealed(d, pane)  == [d EXCEPT !.shown = @ \union {pane}]
Concealed(d, pane) == [d EXCEPT !.shown = @ \ {pane}]
Destroyed(d, panel) == [d EXCEPT !.alive = @ \ {panel}]
Used(d, panels)    == [d EXCEPT !.crashed = @ \/ ~ panels \subseteq d.alive]
Strayed(d, items)  == [d EXCEPT !.astray = @ \union items]
Settled(d, item)   == [d EXCEPT !.astray = @ \ {item}]

Pages(d, side) ==
  IF side = "left" THEN d.tabs["sessions"] + d.tabs["breakpoints"] ELSE d.tabs["stack"]

\* Mutant: DeletePage.
RemovePageDeleting(d, panel) ==
  IF d.tabs[panel] = 0 THEN d ELSE Destroyed(Paged(d, panel, d.tabs[panel] - 1), panel)

RemovePage(d, panel) == IF d.tabs[panel] = 0 THEN d ELSE Paged(d, panel, d.tabs[panel] - 1)

AddPage(d, panel) ==
  IF panel \in d.alive THEN Paged(d, panel, d.tabs[panel] + 1) ELSE Used(d, {panel})

\* findPage takes the page out that it finds.  The stack is looked for under
\* the identifier of the breakpoints, which are not in its notebook.
FoundAndRemoved(d, panel) == panel # "stack" /\ d.tabs[panel] > 0

ShowPage(d, panel) ==
  LET paged == IF FoundAndRemoved(d, panel) THEN RemovePage(d, panel) ELSE AddPage(d, panel)
      shown == Revealed(paged, Side(panel))
  IN  IF d.tabs[panel] > 0 THEN Strayed(shown, {panel}) ELSE shown

SettledIfGone(d, panel) == IF d.tabs[panel] = 0 THEN Settled(d, panel) ELSE d

\* Mutant: the notebook is hidden although it has another page.
HidePageAndNotebook(d, panel) == SettledIfGone(Concealed(RemovePage(d, panel), Side(panel)), panel)

HidePage(d, panel) ==
  LET paged == RemovePage(d, panel)
  IN  SettledIfGone(IF Pages(paged, Side(panel)) = 0 THEN Concealed(paged, Side(panel)) ELSE paged, panel)

ShowPane(d, pane) == Revealed(d, pane)
HidePane(d, pane) == Settled(Concealed(d, pane), pane)

\* onView...Panel
OnView(d, item, on) ==
  IF item \in Tabbed THEN IF on THEN ShowPage(d, item) ELSE HidePage(d, item)
                     ELSE IF on THEN ShowPane(d, item) ELSE HidePane(d, item)

\* displayPanel; and what wxWidgets does when an item is clicked
Check(d, item, on)        == [d EXCEPT !.checked = IF on THEN @ \union {item} ELSE @ \ {item}]
DisplayPanel(d, item, on) == Check(OnView(d, item, on), item, on)

\* openSession and closeSession
Working(d) ==
  DisplayPanel(DisplayPanel(DisplayPanel(DisplayPanel(DisplayPanel(d,
    "sessions", FALSE), "breakpoints", TRUE), "stack", TRUE), "locals", TRUE), "files", TRUE)
Resting(d) ==
  DisplayPanel(DisplayPanel(DisplayPanel(DisplayPanel(DisplayPanel(d,
    "sessions", TRUE), "breakpoints", FALSE), "stack", FALSE), "locals", FALSE), "files", FALSE)

\* A handler that uses these panels
Uses(panels) == desk' = Used(desk, panels)

NewDesk == [tabs |-> [panel \in Tabbed |-> 0], shown |-> {}, checked |-> {}, alive |-> Tabbed,
            crashed |-> FALSE, astray |-> {}]

\* The constructor displays the session panel.
Init ==
  /\ desk = DisplayPanel(NewDesk, "sessions", TRUE)
  /\ valid = FALSE /\ ending = FALSE
  /\ Files!Empty /\ refilled = FALSE
  /\ Dialog!Empty /\ choosing = FALSE
  /\ byHand = {}
-----------------------------------------------------------------------------
(* The user.                                                               *)

\* The dialog is modal.
UserActs == ~ desk.crashed /\ ~ choosing

Toggle(item) ==
  /\ UserActs
  /\ item = "stack" /\ item \notin desk.checked => desk.tabs[item] < MaxTabs
  /\ desk' = DisplayPanel(desk, item, item \notin desk.checked)
  /\ UNCHANGED <<valid, ending, filesVars, dialogVars, byHand>>

\* The cross of a tab: wxAuiNotebook destroys the page, which a second tab
\* of it still shows.
CloseTab(panel) ==
  /\ UserActs
  /\ desk.tabs[panel] > 0 /\ Side(panel) \in desk.shown
  /\ LET closed == Strayed(Destroyed(RemovePage(desk, panel), panel), {panel})
     IN  desk' = IF desk.tabs[panel] > 1 THEN Used(closed, {panel}) ELSE closed
  /\ byHand' = byHand \union {panel}
  /\ UNCHANGED <<valid, ending, filesVars, dialogVars>>

Within(pane) == IF pane \in Panes THEN {pane} ELSE {panel \in Tabbed : Side(panel) = pane}

\* The cross of a pane: wxAuiManager hides it.
ClosePane(pane) ==
  /\ UserActs
  /\ pane \in desk.shown
  /\ desk' = Strayed(Concealed(desk, pane), Within(pane))
  /\ UNCHANGED <<valid, ending, filesVars, dialogVars, byHand>>

\* gdbFileListExecSourceFiles: files named by a relative path, each once
Sources(answer) ==
  LET list[n \in 0..Len(answer)] ==
        IF n = 0 THEN <<>>
        ELSE IF answer[n].relative /\ \A i \in DOMAIN list[n - 1] : list[n - 1][i].full # answer[n].full
             THEN Append(list[n - 1], answer[n])
        ELSE list[n - 1]
  IN list[Len(answer)]

\* The files that exist
Existing(list) == Only(list, {file \in ToSet(list) : file.exists})

\* Mutant: the names are shown as gdb has them.
SetFilesAsNamed(answer) ==
  /\ files' = [i \in DOMAIN Sources(answer) |->
                IF Sources(answer)[i].exists THEN Sources(answer)[i]
                                             ELSE [Sources(answer)[i] EXCEPT !.name = <<>>]]
  /\ fileRows' = Existing(files') /\ fileCursor' = 0
  /\ refilled' = (search # <<>>)
  /\ UNCHANGED search

\* setFiles: a file that does not exist gets no row and no name, and stays
\* valid.  The search box is not looked at.
SetFiles(answer) ==
  /\ files' = [i \in DOMAIN Sources(answer) |->
                [Sources(answer)[i] EXCEPT !.name = IF Sources(answer)[i].exists THEN Files!Lower(@) ELSE <<>>]]
  /\ fileRows' = Existing(files') /\ fileCursor' = 0
  /\ refilled' = (search # <<>>)
  /\ UNCHANGED search

\* openSession, also over a session that is open
OpenSession(answer) ==
  /\ ~ desk.crashed
  /\ desk.tabs["stack"] < MaxTabs
  /\ desk' = Working(desk)
  /\ valid' = TRUE
  /\ SetFiles(answer)
  /\ UNCHANGED <<ending, byHand>>

OpenFromPanel(answer) == UserActs /\ OpenSession(answer) /\ UNCHANGED dialogVars

CloseSession ==
  /\ UserActs
  /\ valid
  /\ valid' = FALSE /\ ending' = TRUE
  /\ desk' = Resting(desk)
  /\ UNCHANGED <<filesVars, dialogVars, byHand>>

\* onSessionNew..., editSession: the session panel is loaded again.
ReloadSessions ==
  /\ UserActs
  /\ Uses({"sessions"})
  /\ UNCHANGED <<valid, ending, filesVars, dialogVars, byHand>>
-----------------------------------------------------------------------------
(* The source files panel.                                                 *)

InFiles == UserActs /\ "files" \in desk.shown

SearchFiles ==
  /\ InFiles
  /\ \/ \E t \in Texts \ {search} : Files!OnSearchText(t) /\ refilled' = FALSE
     \/ (Files!KeyUp \/ Files!KeyDown) /\ UNCHANGED refilled
  /\ UNCHANGED <<desk, valid, ending, dialogVars, byHand>>

\* A row is activated, or Return chooses the selected one: openFile, which
\* shows the breakpoints again, and the search box is cleared.
OpenFile ==
  /\ InFiles
  /\ fileRows # <<>>
  /\ Uses({"breakpoints"})
  /\ Files!OnSearchText(<<>>) /\ refilled' = FALSE
  /\ UNCHANGED <<valid, ending, dialogVars, byHand>>
-----------------------------------------------------------------------------
(* The dialog.                                                             *)

\* onSessionOpen
OpenDialog ==
  /\ UserActs
  /\ Uses({"sessions"})
  /\ choosing' = TRUE
  /\ offered' = Sessions /\ sought' = <<>> /\ offers' = Sessions /\ offer' = 0
  /\ UNCHANGED <<valid, ending, filesVars, byHand>>

InDialog == choosing /\ ~ desk.crashed

SearchSessions ==
  /\ InDialog
  /\ \/ \E t \in Texts \ {sought} : Dialog!OnSearchText(t)
     \/ Dialog!KeyUp \/ Dialog!KeyDown
  /\ UNCHANGED <<desk, valid, ending, filesVars, choosing, byHand>>

DialogGone ==
  choosing' = FALSE /\ offered' = <<>> /\ sought' = <<>> /\ offers' = <<>> /\ offer' = 0

\* EndModal, and the session found by its name is run.
ChooseSession(answer) ==
  /\ InDialog
  /\ offers # <<>>
  /\ OpenSession(answer)
  /\ DialogGone

CancelDialog ==
  /\ InDialog
  /\ DialogGone
  /\ UNCHANGED <<desk, valid, ending, filesVars, byHand>>
-----------------------------------------------------------------------------
(* Events of the debugger, which come while the dialog is open too.        *)

\* onGdbStateChanged, onGdbStackChanged
HandleState ==
  /\ valid /\ ~ desk.crashed
  /\ Uses({"stack"})
  /\ UNCHANGED <<valid, ending, filesVars, dialogVars, byHand>>

\* onGdbBreakpointsChanged, and onGdbStopped when it opens a file
HandleBreakpoints ==
  /\ valid /\ ~ desk.crashed
  /\ Uses({"breakpoints"})
  /\ UNCHANGED <<valid, ending, filesVars, dialogVars, byHand>>

\* onDebuggerStopped
HandleEnded ==
  /\ ending /\ ~ desk.crashed
  /\ ending' = FALSE
  /\ Uses({"breakpoints", "stack"})
  /\ UNCHANGED <<valid, filesVars, dialogVars, byHand>>

Next ==
  \/ \E item \in Items : Toggle(item)
  \/ \E panel \in Tabbed \intersect Crosses : CloseTab(panel)
  \/ \E pane \in Crosses \ Tabbed : ClosePane(pane)
  \/ \E answer \in Answers : OpenFromPanel(answer) \/ ChooseSession(answer)
  \/ CloseSession \/ ReloadSessions
  \/ SearchFiles \/ OpenFile
  \/ OpenDialog \/ SearchSessions \/ CancelDialog
  \/ HandleState \/ HandleBreakpoints \/ HandleEnded

Spec == Init /\ [][Next]_vars
-----------------------------------------------------------------------------
Visible(item) ==
  IF item \in Tabbed THEN desk.tabs[item] > 0 /\ Side(item) \in desk.shown ELSE item \in desk.shown

\* The View menu tells what is shown: whatever is toggled by hand and by
\* opening and closing sessions, in any order, an item is checked if and only
\* if its panel is in view, in one tab; but a panel that is displayed when it
\* is there already (the breakpoints vanish, the stack gets a second tab), or
\* closed by its cross, need not be.  Even then nothing is in view that is
\* not checked, the stack excepted (onView...Panel, displayPanel).
ChecksTell ==
  ~ desk.crashed => \A item \in Items :
    /\ item \notin desk.astray => /\ item \in desk.checked <=> Visible(item)
                                  /\ item \in Tabbed => desk.tabs[item] <= 1
    /\ item # "stack" /\ Visible(item) => item \in desk.checked

\* The panels are made once and used by every event, shown or not: none is
\* used after it was destroyed, unless the user closed its tab (RemovePage).
PanelsLive == desk.crashed => byHand # {}

\* The list of files is that of the last session opened: its files that exist
\* and begin with what is in the search box, capitals or not, unless they were
\* set under a text left there.  The others are there without a name, after
\* the text is cleared (setFiles, onSearchText).
FilesShown ==
  /\ ~ refilled => Existing(fileRows) = Files!Asked(Existing(files), search)
  /\ \A i \in DOMAIN fileRows : fileRows[i].exists \/ (search = <<>> /\ fileRows[i].name = <<>>)

\* The dialog offers the sessions that begin with what was typed; those with
\* a capital in their name only until something is (onSearchText).
SessionsShown ==
  LET asked       == Dialog!Asked(offered, sought)
      InSmall(list) == Only(list, {session \in ToSet(list) : session.name = Dialog!Lower(session.name)})
  IN  /\ InSmall(offers) = InSmall(asked)
      /\ IF sought = <<>> THEN offers = offered ELSE ToSet(offers) \subseteq ToSet(asked)
=============================================================================
