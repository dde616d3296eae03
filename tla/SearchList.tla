----------------------------- MODULE SearchList -----------------------------
(***************************************************************************)
(* A list under a search box: SourceFilesPanel and SessionOpenDialog have  *)
(* the same.  Typing fills the list again with what begins with the text;  *)
(* Up, Down and Return, typed into the box, move along the list and choose.*)
(* Names and texts are sequences of letters.                               *)
(***************************************************************************)
EXTENDS Naturals, Sequences, SequencesExt, Selection

CONSTANT Small    \* wxString::Lower: the capital letters and what becomes of them

VARIABLES
  items,   \* what may be listed: records with a name
  text,    \* what is in the search box
  rows,    \* the items listed
  cursor   \* the row selected, 0 if none is

Lower(s) == [i \in DOMAIN s |-> IF s[i] \in DOMAIN Small THEN Small[s[i]] ELSE s[i]]

\* Mutant: the text is taken as it is, too.
FoundAsTyped(list, t) == Only(list, {item \in ToSet(list) : IsPrefix(t, item.name)})

\* The text is made lower case, the names are taken as they are.
Found(list, t) == Only(list, {item \in ToSet(list) : IsPrefix(Lower(t), item.name)})

\* What the user asks for
Asked(list, t) == Only(list, {item \in ToSet(list) : IsPrefix(Lower(t), Lower(item.name))})

Empty == items = <<>> /\ text = <<>> /\ rows = <<>> /\ cursor = 0

\* onSearchText
OnSearchText(t) ==
  /\ text' = t /\ rows' = Found(items, t) /\ cursor' = 0
  /\ UNCHANGED items

Select(row) == cursor' = row /\ UNCHANGED <<items, text, rows>>

\* onSearchKeyDown, Up and Down: round the end
KeyUp ==
  /\ rows # <<>>
  /\ Select(IF cursor \in {0, 1} THEN Len(rows) ELSE cursor - 1)
KeyDown ==
  /\ rows # <<>>
  /\ Select(IF cursor \in {0, Len(rows)} THEN 1 ELSE cursor + 1)
=============================================================================
