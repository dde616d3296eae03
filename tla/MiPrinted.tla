------------------------------ MODULE MiPrinted ------------------------------
(***************************************************************************)
(* Lines as gdb prints them: how a text is quoted, and where in a line     *)
(* each node of a record is.  MiOutput is to read back what was printed.   *)
(***************************************************************************)
EXTENDS MiOutput

CONSTANT Octal  \* what gdb writes for the characters that are not printable

\* gdb's letters for characters in a C string
Letters == [LF |-> "n", BS |-> "b", TAB |-> "t", FF |-> "f", CR |-> "r", ESC |-> "e",
            BEL |-> "a", quote |-> "quote", backslash |-> "backslash"]

Quote(c) ==
  IF c \in DOMAIN Letters THEN <<"backslash", Letters[c]>>
  ELSE IF c \in DOMAIN Octal THEN Octal[c]
  ELSE <<c>>

Quoted(s) ==
  LET From[i \in 1..Len(s) + 1] == IF i > Len(s) THEN <<>> ELSE Quote(s[i]) \o From[i + 1]
  IN  From[1]

Plain(s) == ToSet(s) \intersect DOMAIN Octal = {}
-----------------------------------------------------------------------------
(* A layout d of a record on the tokens t: its nodes, the record last, in  *)
(* the order in which they end; where each begins (at), and the place      *)
(* after its end (to).  The prompt has no nodes.                           *)

Opening == [tuple |-> "{", list |-> "["]

\* Where the value of a result begins, its variable before it
Inside(d, i) == d.at[i] + (IF d.nodes[i].name = "" THEN 0 ELSE 2)

\* The members of a list that begins at p come one after the other ...
InRow(t, d, kids, p) ==
  \A k \in DOMAIN kids :
    IF k = 1 THEN d.at[kids[k]] = p
    ELSE t[d.to[kids[k - 1]]].kind = "," /\ d.at[kids[k]] = d.to[kids[k - 1]] + 1

\* ... and this is the place after them, or after what is before them.
Behind(d, kids, p) == IF kids = <<>> THEN p ELSE d.to[Last(kids)]

PrintsVariable(t, d, i) ==
  d.nodes[i].name # "" => /\ t[d.at[i]].kind = "STRING" /\ t[d.at[i]].val = d.nodes[i].name
                          /\ t[d.at[i] + 1].kind = "="

PrintsConst(t, d, i) ==
  LET node == d.nodes[i] p == Inside(d, i) IN
  /\ node.type = "const" /\ node.kids = <<>>
  /\ t[p].kind = "CSTRING" /\ t[p].val = Quoted(node.text)
  /\ d.to[i] = p + 1

PrintsList(t, d, i) ==
  LET node == d.nodes[i] p == Inside(d, i) end == Behind(d, node.kids, p + 1) IN
  /\ node.type \in {"tuple", "list"} /\ node.text = <<>>
  /\ t[p].kind = Opening[node.type]
  /\ InRow(t, d, node.kids, p + 1)
  /\ t[end].kind = Closing[node.type]
  /\ d.to[i] = end + 1

\* A result or asynchronous record, of a class the program knows
PrintsRecord(t, d) ==
  LET n == Len(d.nodes) node == d.nodes[n]
      mark == IF node.text = <<>> THEN 1 ELSE 2
      end  == Behind(d, node.kids, mark + 2)
  IN /\ n > 0
     /\ node.text # <<>> => t[1].kind = "INTEGER" /\ t[1].val = node.text
     /\ t[mark].kind \in {"^", "*", "+", "="} /\ node.type = RecordType(t[mark].kind)
     /\ t[mark + 1].kind = "STRING" /\ t[mark + 1].val = node.name
     /\ node.name = Class(node.type, node.name)
     /\ node.kids # <<>> => t[mark + 2].kind = ","
     /\ InRow(t, d, node.kids, mark + 3)
     /\ t[end].kind = "NL" /\ Len(t) = end /\ d.to[n] = end + 1
     /\ \A i \in 1..(n - 1) : PrintsVariable(t, d, i) /\ (PrintsConst(t, d, i) \/ PrintsList(t, d, i))

PrintsStream(t, d) ==
  LET node == d.nodes[1] IN
  /\ Len(d.nodes) = 1 /\ node.name = "" /\ node.kids = <<>>
  /\ t[1].kind \in {"~", "@", "&"} /\ node.type = StreamType(t[1].kind)
  /\ t[2].kind = "CSTRING" /\ t[2].val = Quoted(node.text)
  /\ t[3].kind = "NL" /\ Len(t) = 3

PrintsPrompt(t, d) ==
  /\ d.nodes = <<>>
  /\ Len(t) = 4 /\ [p \in 1..4 |-> t[p].kind] = <<"(", "STRING", ")", "NL">>

\* Nodes are numbered by their ends, have an inside and are made of earlier ones.
IsLayout(d, length) ==
  LET n == Len(d.nodes) IN
  /\ d.nodes \in Seq(Node) /\ d.at \in [1..n -> 1..length] /\ d.to \in [1..n -> 1..length + 1]
  /\ \A i \in 1..n : d.nodes[i].kids \in Seq(1..(i - 1)) /\ Inside(d, i) < d.to[i]
  /\ \A i, j \in 1..n : i < j => d.to[i] < d.to[j]

\* The line l prints what it is sent for as d says.
PrintedAs(l, d) ==
  LET t == Tokens(l.text) n == Len(d.nodes) IN
  /\ l.text \in Seq(ToSet(l.text)) /\ IsLayout(d, Len(t))
  /\ PrintsRecord(t, d) \/ PrintsStream(t, d) \/ PrintsPrompt(t, d)
  /\ l.sent.type = "prompt" <=> d.nodes = <<>>
  /\ d.nodes # <<>> => l.sent = Meaning(d.nodes, n)
  /\ l.plain => \A i \in 1..n : Plain(d.nodes[i].text)

Printed(l) == \E d : PrintedAs(l, d)
==============================================================================
