---------------------------- MODULE SessionFiles ----------------------------
(***************************************************************************)
(* The session files <name>.vz in the user's data directory, and the list  *)
(* of sessions the panel and the open dialog show.  A file has two groups, *)
(* "session" and "breakpoints", with different writers: the dialogs write  *)
(* the first and keep the second, the open session the other way round.    *)
(* A file is kept as what loadFromConfig reads of it, so one without the   *)
(* group "session" is an executable's without a name.                      *)
(***************************************************************************)
EXTENDS Naturals, FiniteSets

CONSTANTS
  Names,    \* the names the user enters
  NoName,   \* the empty name, whose file is ".vz"
  Marks,    \* breakpoints
  NoPath    \* no session

ASSUME NamesAssumption == NoName \notin Names /\ NoPath \notin Names \union {NoName}

VARIABLES
  files,    \* the files, by the name in their path
  list,     \* _sessionInfoList, and the rows of the panel
  open,     \* the path of the open session
  crashed,  \* has a command used the session of a row that has none?
  touched   \* history: the path of the session the last command was about

vars == <<files, list, open, crashed, touched>>

\* "junk" is what an uninitialised _sessionType may be otherwise.
Kinds == {"exe", "attach", "core", "remote", "junk"}
Paths == Names \union {NoName}
File  == [name : Paths, kind : Kinds, bps : SUBSET Marks]
Entry == [path : Paths, name : Paths, kind : Kinds]

TypeOK ==
  /\ DOMAIN files \subseteq Paths
  /\ files \in [DOMAIN files -> File]
  /\ list \subseteq Entry
  /\ open \in Paths \union {NoPath} /\ touched \in Paths \union {NoPath}
  /\ crashed \in BOOLEAN
-----------------------------------------------------------------------------
(* Files.                                                                  *)

Without(path) == [p \in DOMAIN files \ {path} |-> files[p]]
Bps(fs, path) == IF path \in DOMAIN fs THEN fs[path].bps ELSE {}

\* saveToConfig into the file of a session's name: other groups are kept.
SavedIn(fs, name, kind) ==
  [p \in DOMAIN fs \union {name} |->
     IF p = name THEN [name |-> name, kind |-> kind, bps |-> Bps(fs, name)] ELSE fs[p]]

EntryOf(fs, path) == [path |-> path, name |-> fs[path].name, kind |-> fs[path].kind]

LoadSessions == list' = {EntryOf(files', p) : p \in DOMAIN files'}

Init ==
  /\ \E paths \in SUBSET Names, kind \in [Names -> Kinds \ {"junk"}] :
       files = [p \in paths |-> [name |-> p, kind |-> kind[p], bps |-> {}]]
  /\ list = {EntryOf(files, p) : p \in DOMAIN files}
  /\ open = NoPath /\ crashed = FALSE /\ touched = NoPath
-----------------------------------------------------------------------------
(* The user.                                                               *)

UserActs == ~ crashed

\* Mutant: the name is not looked up.
NewSessionUnasked(name, kind) ==
  /\ UserActs
  /\ files' = SavedIn(files, name, kind)
  /\ LoadSessions
  /\ touched' = NoPath
  /\ UNCHANGED <<open, crashed>>

\* saveSession: "Session name already exists"
NewSession(name, kind) ==
  /\ UserActs
  /\ files' = IF name \in DOMAIN files THEN files ELSE SavedIn(files, name, kind)
  /\ LoadSessions
  /\ touched' = NoPath
  /\ UNCHANGED <<open, crashed>>

\* A session with a row.  One of an unknown kind is listed without.
Rows == {s \in list : s.kind # "junk"}

\* What the dialogs make of a session; there is none for the other kinds,
\* and what is saved then has no name and whatever kind.
Edited(s) ==
  IF s.kind \in {"exe", "remote"} THEN Names \X {s.kind} ELSE {NoName} \X Kinds

\* Mutant: the new name is written into the file of the old one.
EditSessionInPlace(s) ==
  /\ UserActs
  /\ \E new \in Edited(s) :
       files' = [p \in DOMAIN files \union {s.name} |->
                   IF p = s.name THEN [name |-> new[1], kind |-> new[2], bps |-> Bps(files, p)]
                                 ELSE files[p]]
  /\ LoadSessions
  /\ touched' = s.path
  /\ UNCHANGED <<open, crashed>>

\* editSession: the file of the old name, if it is another, is removed, and
\* that of the new one written.
EditSession(s) ==
  /\ UserActs
  /\ \E new \in Edited(s) :
       files' = SavedIn(IF new[1] # s.name THEN Without(s.name) ELSE files, new[1], new[2])
  /\ LoadSessions
  /\ touched' = s.path
  /\ UNCHANGED <<open, crashed>>

\* Mutant: the list is left as it is.
DeleteSessionUnlisted(s) ==
  /\ UserActs
  /\ files' = Without(s.path)
  /\ touched' = s.path
  /\ UNCHANGED <<list, open, crashed>>

\* onDeleteSession, by the path
DeleteSession(s) ==
  /\ UserActs
  /\ files' = Without(s.path)
  /\ LoadSessions
  /\ touched' = s.path
  /\ UNCHANGED <<open, crashed>>

\* openSession: attaching opens none, and an unknown kind neither (DebugSession
\* has what comes of it).
Opens(s) == IF s.kind \in {"exe", "core", "remote"} THEN open' = s.path ELSE UNCHANGED open

\* From a row
OpenSession(s) ==
  /\ UserActs
  /\ Opens(s)
  /\ touched' = s.path
  /\ UNCHANGED <<files, list, crashed>>

\* onSessionOpen: a session of the name of the one chosen
OpenByName(chosen) ==
  /\ UserActs
  /\ \E s \in list : s.name = chosen.name /\ Opens(s)
  /\ touched' = chosen.path
  /\ UNCHANGED <<files, list, crashed>>

CloseSession ==
  /\ UserActs
  /\ open # NoPath
  /\ open' = NoPath
  /\ touched' = NoPath
  /\ UNCHANGED <<files, list, crashed>>

\* onOpenSession, onEditSession, onDeleteSession, on a heading or a detail
ChooseOtherRow ==
  /\ UserActs
  /\ crashed' = TRUE
  /\ UNCHANGED <<files, list, open, touched>>

\* What saveBreakpoints makes of the open session's file
BpsSaved(bps) ==
  [p \in DOMAIN files \union {open} |->
     IF p # open THEN files[p]
     ELSE IF open \in DOMAIN files THEN [files[open] EXCEPT !.bps = bps]
     ELSE [name |-> NoName, kind |-> "exe", bps |-> bps]]

\* saveBreakpoints, in the file of the open session, which it makes anew if
\* there is none any more: then with the group "breakpoints" alone.
SaveBreakpoints(bps) ==
  /\ UserActs
  /\ open # NoPath
  /\ files' = BpsSaved(bps)
  /\ touched' = NoPath
  /\ UNCHANGED <<list, open, crashed>>

\* The program is started again, with or without a session to run, which the
\* command line gives by its name or its executable.
Restart ==
  /\ UNCHANGED files
  /\ LoadSessions
  /\ \/ open' = NoPath
     \/ \E s \in list' : /\ s.name # NoName /\ s.kind \in {"exe", "core", "remote"}
                         /\ open' = s.path
  /\ crashed' = FALSE /\ touched' = NoPath
-----------------------------------------------------------------------------
Next ==
  \/ \E name \in Names, kind \in {"exe", "remote"} : NewSession(name, kind)
  \/ \E s \in Rows : EditSession(s) \/ DeleteSession(s) \/ OpenSession(s)
  \/ \E chosen \in list : OpenByName(chosen)
  \/ CloseSession \/ ChooseOtherRow \/ Restart
  \/ \E bps \in SUBSET Marks : SaveBreakpoints(bps)

Spec == Init /\ [][Next]_vars
-----------------------------------------------------------------------------
\* Every entry is a file as it is on disk, and the files not listed are those
\* that saveBreakpoints made anew: nobody reloads the list after it.
ListFresh ==
  /\ \A s \in list : s.path \in DOMAIN files /\ s = EntryOf(files, s.path)
  /\ \A p \in DOMAIN files :
       EntryOf(files, p) \in list \/ (files[p].name = NoName /\ files[p].kind = "exe")

\* A session that has a name is the only one found by it, and editSession,
\* which goes by the name, finds the file that the panel shows.
NamesFound ==
  \A s \in list : s.name # NoName =>
    /\ s.path = s.name
    /\ \A t \in list : t.name = s.name => t = s

\* A file with a name, other than that of the session a command is about, is
\* changed only by a session that is renamed to it, which keeps the
\* breakpoints; the open session changes only its breakpoints.
OthersKept ==
  [][\A p \in DOMAIN files :
       files[p].name # NoName /\ p # touched' =>
         /\ p \in DOMAIN files'
         /\ \/ files'[p] = files[p]
            \/ p = open /\ files'[p] = [files[p] EXCEPT !.bps = files'[p].bps]
            \/ touched' # NoPath /\ files'[p].name = p /\ files'[p].bps = files[p].bps]_vars
=============================================================================
