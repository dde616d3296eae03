------------------------- MODULE SessionFilesProofs -------------------------
(***************************************************************************)
(* Proofs about SessionFiles.  A file's name is that in its path or none,  *)
(* whatever was renamed, made anew or overwritten; so the list, which is   *)
(* that of the files but for those made anew since, has no name twice.     *)
(***************************************************************************)
EXTENDS SessionFiles, TLAPS

\* A file is of a session of its own name or of none.
NameIsFile == \A p \in DOMAIN files : files[p].name \in {p, NoName}

Inv == TypeOK /\ NameIsFile /\ ListFresh

-----------------------------------------------------------------------------
(* The operators on files.                                                 *)

\* What a set of files is
Disk(fs) ==
  /\ DOMAIN fs \subseteq Paths
  /\ fs = [p \in DOMAIN fs |-> fs[p]]
  /\ \A p \in DOMAIN fs : fs[p] \in File /\ fs[p].name \in {p, NoName}

\* The files of a state that satisfies the invariant are one.
LEMMA InvDisk == Inv => Disk(files)
  BY DEF Inv, TypeOK, NameIsFile, Disk

\* Removing a file leaves the others as they are.
LEMMA WithoutDisk ==
  ASSUME Disk(files), NEW path
  PROVE  Disk(Without(path))
  BY DEF Disk, Without

\* Saving a session makes a file of its own name.
LEMMA SavedDisk ==
  ASSUME NEW fs, Disk(fs), NEW name \in Paths, NEW kind \in Kinds
  PROVE  Disk(SavedIn(fs, name, kind))
<1>1. Bps(fs, name) \in SUBSET Marks
  BY DEF Disk, Bps, File
<1>2. [name |-> name, kind |-> kind, bps |-> Bps(fs, name)] \in File
  BY <1>1 DEF File
<1> QED  BY <1>2 DEF Disk, SavedIn

\* So does saving breakpoints, or one without a name.
LEMMA BpsDisk ==
  ASSUME Disk(files), open \in Paths, NEW bps \in SUBSET Marks
  PROVE  Disk(BpsSaved(bps))
<1>1. [name |-> NoName, kind |-> "exe", bps |-> bps] \in File
  BY DEF File, Paths, Kinds
<1>2. ASSUME NEW f \in File
      PROVE  [f EXCEPT !.bps = bps] \in File /\ [f EXCEPT !.bps = bps].name = f.name
  BY DEF File
<1> QED  BY <1>1, <1>2 DEF Disk, BpsSaved

\* Loading the list of such files establishes the invariant's part about it.
LEMMA LoadedFresh ==
  ASSUME Disk(files)', LoadSessions
  PROVE  /\ (list \subseteq Entry)'
         /\ ListFresh'
<1>1. ASSUME NEW p \in DOMAIN files'
      PROVE  EntryOf(files', p) \in Entry /\ EntryOf(files', p).path = p
  BY DEF Disk, EntryOf, Entry, File
<1>2. list' = {EntryOf(files', p) : p \in DOMAIN files'}
  BY DEF LoadSessions
<1> QED  BY <1>1, <1>2 DEF ListFresh

\* What a step has to show.
LEMMA Reloaded ==
  ASSUME Disk(files)', LoadSessions, open' \in Paths \union {NoPath},
         touched' \in Paths \union {NoPath}, crashed' \in BOOLEAN
  PROVE  Inv'
<1>1. (list \subseteq Entry)' /\ ListFresh'
  BY LoadedFresh
<1> QED  BY <1>1 DEF Disk, Inv, TypeOK, NameIsFile
-----------------------------------------------------------------------------
\* The invariant holds when the program starts.
LEMMA InitInv == Init => Inv
<1> SUFFICES ASSUME Init PROVE Inv
  OBVIOUS
<1>1. PICK paths \in SUBSET Names, kind \in [Names -> Kinds \ {"junk"}] :
        files = [p \in paths |-> [name |-> p, kind |-> kind[p], bps |-> {}]]
  BY DEF Init
<1>2. ASSUME NEW p \in DOMAIN files
      PROVE  files[p] \in File /\ files[p].name = p
  BY <1>1 DEF File, Paths
<1>3. ASSUME NEW p \in DOMAIN files
      PROVE  EntryOf(files, p) \in Entry /\ EntryOf(files, p).path = p
  BY <1>1, <1>2 DEF EntryOf, Entry, File, Paths
<1>4. TypeOK
  <2>1. DOMAIN files \subseteq Paths /\ files \in [DOMAIN files -> File]
    BY <1>1, <1>2 DEF Paths
  <2>2. list \subseteq Entry
    BY <1>3 DEF Init
  <2> QED  BY <2>1, <2>2 DEF Init, TypeOK
<1>5. NameIsFile
  BY <1>2 DEF NameIsFile
<1>6. ListFresh
  BY <1>3 DEF Init, ListFresh
<1> QED  BY <1>4, <1>5, <1>6 DEF Inv

\* Every command keeps the invariant.
LEMMA StepInv == Inv /\ [Next]_vars => Inv'
<1> SUFFICES ASSUME Inv, [Next]_vars PROVE Inv'
  OBVIOUS
<1> USE InvDisk
<1>0. /\ TypeOK /\ ListFresh /\ NameIsFile /\ Disk(files)
      /\ open \in Paths \union {NoPath} /\ touched \in Paths \union {NoPath} /\ crashed \in BOOLEAN
  BY DEF Inv, TypeOK
<1>e. \A s \in list : s \in Entry /\ s.path \in Paths /\ s.name \in Paths /\ s.kind \in Kinds
  BY <1>0 DEF TypeOK, Entry
<1>r. Rows \subseteq list
  BY DEF Rows
<1>o. ASSUME NEW s \in list, Opens(s) PROVE open' \in Paths \union {NoPath}
  BY <1>o, <1>0, <1>e DEF Opens
<1>1. ASSUME NEW name \in Names, NEW kind \in {"exe", "remote"}, NewSession(name, kind)
      PROVE  Inv'
  <2>1. Disk(files')
    BY <1>0, <1>1, SavedDisk DEF NewSession, Paths, Kinds
  <2> QED  BY <1>0, <1>1, <2>1, Reloaded DEF NewSession, Disk
<1>2. ASSUME NEW s \in Rows, EditSession(s)
      PROVE  Inv'
  <2>1. PICK new \in Edited(s) :
          files' = SavedIn(IF new[1] # s.name THEN Without(s.name) ELSE files, new[1], new[2])
    BY <1>2 DEF EditSession
  <2>2. new[1] \in Paths /\ new[2] \in Kinds
    BY <1>e, <1>r DEF Edited, Paths
  <2>3. Disk(IF new[1] # s.name THEN Without(s.name) ELSE files)
    BY <1>0, WithoutDisk
  <2>4. Disk(files')
    BY <2>1, <2>2, <2>3, SavedDisk
  <2> QED  BY <1>0, <1>2, <1>e, <1>r, <2>4, Reloaded DEF EditSession, Disk
<1>3. ASSUME NEW s \in Rows, DeleteSession(s)
      PROVE  Inv'
  <2>1. Disk(files')
    BY <1>0, <1>3, WithoutDisk DEF DeleteSession
  <2> QED  BY <1>0, <1>3, <1>e, <1>r, <2>1, Reloaded DEF DeleteSession, Disk
<1>4. ASSUME NEW s \in Rows, OpenSession(s)
      PROVE  Inv'
  BY <1>0, <1>4, <1>e, <1>r, <1>o DEF OpenSession, Inv, TypeOK, NameIsFile, ListFresh
<1>5. ASSUME NEW chosen \in list, OpenByName(chosen)
      PROVE  Inv'
  BY <1>0, <1>5, <1>e, <1>o DEF OpenByName, Inv, TypeOK, NameIsFile, ListFresh
<1>6. CASE CloseSession
  BY <1>0, <1>6 DEF CloseSession, Inv, TypeOK, NameIsFile, ListFresh
<1>7. CASE ChooseOtherRow
  BY <1>0, <1>7 DEF ChooseOtherRow, Inv, TypeOK, NameIsFile, ListFresh
<1>8. CASE Restart
  <2>1. \A s \in list' : s.path \in Paths
    BY <1>0, <1>8 DEF Restart, LoadSessions, EntryOf, Disk
  <2>2. open' \in Paths \union {NoPath}
    BY <1>8, <2>1 DEF Restart
  <2> QED  BY <1>0, <1>8, <2>2, Reloaded DEF Restart, Disk
<1>9. ASSUME NEW bps \in SUBSET Marks, SaveBreakpoints(bps)
      PROVE  Inv'
  <2>1. open \in Paths /\ files' = BpsSaved(bps)
    BY <1>0, <1>9 DEF SaveBreakpoints
  <2>2. Disk(files')
    BY <1>0, <2>1, BpsDisk
  <2>3. /\ DOMAIN files' = DOMAIN files \union {open}
        /\ \A p \in DOMAIN files : EntryOf(files', p) = EntryOf(files, p)
    BY <1>0, <2>1 DEF BpsSaved, EntryOf, Disk, File
  <2>4. open \notin DOMAIN files => files'[open].name = NoName /\ files'[open].kind = "exe"
    BY <2>1 DEF BpsSaved
  <2>5. ASSUME NEW p \in DOMAIN files
        PROVE  files'[p].name = files[p].name /\ files'[p].kind = files[p].kind
    BY <2>3 DEF EntryOf
  <2>6. list' = list
    BY <1>9 DEF SaveBreakpoints
  <2>7. ListFresh'
    BY <1>0, <2>3, <2>4, <2>5, <2>6 DEF ListFresh
  <2> QED  BY <1>0, <1>9, <2>2, <2>6, <2>7 DEF SaveBreakpoints, Inv, TypeOK, NameIsFile, Disk
<1>10. CASE UNCHANGED vars
  BY <1>0, <1>10 DEF vars, Inv, TypeOK, NameIsFile, ListFresh, Disk
<1> QED  BY <1>1, <1>2, <1>3, <1>4, <1>5, <1>6, <1>7, <1>8, <1>9, <1>10 DEF Next

\* A file's name is that in its path or none, and the list is that of the
\* files but for those made anew.
THEOREM InvCorrect == Spec => []Inv
  BY InitInv, StepInv, PTL DEF Spec

\* Type correctness of files and list.
THEOREM TypeCorrect == Spec => []TypeOK
<1>1. Inv => TypeOK
  BY DEF Inv
<1> QED  BY <1>1, InvCorrect, PTL

\* The list the user sees is that of the files on disk (loadSessions).
THEOREM ListCorrect == Spec => []ListFresh
<1>1. Inv => ListFresh
  BY DEF Inv
<1> QED  BY <1>1, InvCorrect, PTL

\* A name leads to one session, and to the file the panel shows.
THEOREM NamesCorrect == Spec => []NamesFound
<1>1. ASSUME Inv PROVE NamesFound
  <2>1. ASSUME NEW s \in list PROVE s.name \in {s.path, NoName}
    BY <1>1 DEF Inv, ListFresh, NameIsFile, EntryOf
  <2>2. ASSUME NEW s \in list, NEW t \in list, s.path = t.path PROVE s = t
    BY <1>1, <2>2 DEF Inv, ListFresh
  <2> QED  BY <2>1, <2>2 DEF NamesFound
<1> QED  BY <1>1, InvCorrect, PTL

\* No command changes the file of another session that has a name, but a
\* renaming to that name: for any names and breakpoints.
THEOREM OthersCorrect == Spec => OthersKept
<1> DEFINE Kept == \A p \in DOMAIN files :
             files[p].name # NoName /\ p # touched' =>
               /\ p \in DOMAIN files'
               /\ \/ files'[p] = files[p]
                  \/ p = open /\ files'[p] = [files[p] EXCEPT !.bps = files'[p].bps]
                  \/ touched' # NoPath /\ files'[p].name = p /\ files'[p].bps = files[p].bps
<1>1. ASSUME Inv, Next PROVE Kept
  <2> SUFFICES ASSUME NEW p \in DOMAIN files, files[p].name # NoName, p # touched'
               PROVE  /\ p \in DOMAIN files'
                      /\ \/ files'[p] = files[p]
                         \/ p = open /\ files'[p] = [files[p] EXCEPT !.bps = files'[p].bps]
                         \/ /\ touched' # NoPath
                            /\ files'[p].name = p /\ files'[p].bps = files[p].bps
    OBVIOUS
  <2>0. \A s \in list : s.name \in {s.path, NoName} /\ s.path # NoPath
    BY <1>1, NamesAssumption DEF Inv, TypeOK, Entry, Paths, ListFresh, NameIsFile, EntryOf
  <2>p. files[p].name = p /\ p # NoName /\ files[p] \in File
    BY <1>1 DEF Inv, TypeOK, NameIsFile
  <2>r. Rows \subseteq list
    BY DEF Rows
  <2>1. ASSUME NEW name \in Names, NEW kind \in {"exe", "remote"}, NewSession(name, kind)
        PROVE  p \in DOMAIN files' /\ files'[p] = files[p]
    BY <2>1 DEF NewSession, SavedIn
  <2>2. ASSUME NEW s \in Rows, EditSession(s)
        PROVE  /\ p \in DOMAIN files' /\ touched' # NoPath
               /\ \/ files'[p] = files[p]
                  \/ files'[p].name = p /\ files'[p].bps = files[p].bps
    <3> DEFINE old(new) == IF new[1] # s.name THEN Without(s.name) ELSE files
    <3>1. PICK new \in Edited(s) : files' = SavedIn(old(new), new[1], new[2])
      BY <2>2 DEF EditSession
    <3>2. p # s.name /\ touched' # NoPath
      BY <2>2, <2>0, <2>p, <2>r DEF EditSession
    <3>3. p \in DOMAIN old(new) /\ old(new)[p] = files[p]
      BY <3>2 DEF Without
    <3>4. Bps(old(new), p) = files[p].bps
      BY <3>3 DEF Bps
    <3> HIDE DEF old
    <3> QED  BY <3>1, <3>2, <3>3, <3>4 DEF SavedIn
  <2>3. ASSUME NEW s \in Rows, DeleteSession(s)
        PROVE  p \in DOMAIN files' /\ files'[p] = files[p]
    BY <2>3 DEF DeleteSession, Without
  <2>4. ASSUME NEW bps \in SUBSET Marks, SaveBreakpoints(bps)
        PROVE  /\ p \in DOMAIN files'
               /\ \/ files'[p] = files[p]
                  \/ p = open /\ files'[p] = [files[p] EXCEPT !.bps = files'[p].bps]
    BY <2>4, <2>p DEF SaveBreakpoints, BpsSaved, File
  <2>5. ASSUME \/ \E s \in Rows : OpenSession(s)
               \/ \E chosen \in list : OpenByName(chosen)
               \/ CloseSession \/ ChooseOtherRow \/ Restart
        PROVE  files' = files
    BY <2>5 DEF OpenSession, OpenByName, CloseSession, ChooseOtherRow, Restart
  <2> QED  BY <1>1, <2>1, <2>2, <2>3, <2>4, <2>5 DEF Next
<1>2. ASSUME Inv, [Next]_vars PROVE [Kept]_vars
  <2> HIDE DEF Kept
  <2> QED  BY <1>1, <1>2
<1>3. Spec => [][Kept]_vars
  <2> HIDE DEF Kept
  <2> QED  BY <1>2, InvCorrect, PTL DEF Spec
<1> QED  BY <1>3 DEF OthersKept
=============================================================================
