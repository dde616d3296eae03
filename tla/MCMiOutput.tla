----------------------------- MODULE MCMiOutput -----------------------------
(***************************************************************************)
(* Lines for MiOutput: every record of a bounded size, printed as gdb      *)
(* prints it, and those lines with a lexeme taken out or put in.           *)
(***************************************************************************)
EXTENDS MiPrinted

CONSTANTS
  Depth,   \* how deep tuples and lists may nest
  Width    \* how many members each may have

Lex(kind, val) == [kind |-> kind, val |-> val]
Mark(kind) == Lex(kind, "")

Texts == {<<>>, <<"x">>, <<"backslash", "n">>, <<"LF">>, <<"quote", "backslash">>, <<"eAcute">>}

Const(n, s) == [type |-> "const", name |-> n, text |-> s, kids |-> <<>>]
Names == {"", "v"}

\* Values: constants of every text at the top, of one text below
RECURSIVE Values(_)
Values(d) ==
  {Const(n, s) : n \in Names, s \in IF d = Depth THEN Texts ELSE {<<"x">>}} \union
  IF d = 0 THEN {}
  ELSE {[type |-> t, name |-> n, text |-> <<>>, kids |-> k] :
           t \in {"tuple", "list"}, n \in Names,
           k \in UNION {[1..m -> Values(d - 1)] : m \in 0..Width}}

RECURSIVE PlainValue(_), Written(_), Laid(_, _, _)
PlainValue(v) == Plain(v.text) /\ \A k \in ToSet(v.kids) : PlainValue(k)

OctalOf == [eAcute |-> <<"backslash", "3", "5", "1">>]

Commas(texts) ==
  FlattenSeq([i \in DOMAIN texts |-> IF i = 1 THEN texts[i] ELSE <<Mark(",")>> \o texts[i]])

Written(v) ==
  (IF v.name = "" THEN <<>> ELSE <<Lex("word", v.name), Mark("=")>>) \o
  CASE v.type = "const" -> <<Lex("quoted", Quoted(v.text))>>
    [] v.type = "tuple" -> <<Mark("{")>> \o Commas([i \in DOMAIN v.kids |-> Written(v.kids[i])]) \o <<Mark("}")>>
    [] v.type = "list"  -> <<Mark("[")>> \o Commas([i \in DOMAIN v.kids |-> Written(v.kids[i])]) \o <<Mark("]")>>

\* A layout with the value v put at the end, printed from p; the members of v first.
Laid(d, v, p) ==
  LET inside == p + (IF v.name = "" THEN 0 ELSE 2)
      inner  == FoldLeft(LAMBDA m, k : LET e == Laid(m.d, k, m.next)
                                       IN [d |-> e, next |-> Last(e.to) + 1, kids |-> Append(m.kids, Len(e.to))],
                         [d |-> d, next |-> inside + 1, kids |-> <<>>], v.kids)
      end    == IF v.kids = <<>> /\ v.type # "const" THEN inside + 2
                ELSE IF v.type = "const" THEN inside + 1 ELSE inner.next
  IN [nodes |-> Append(inner.d.nodes, [v EXCEPT !.kids = inner.kids]),
      at |-> Append(inner.d.at, p), to |-> Append(inner.d.to, end)]

Layout(l) ==
  LET none == [nodes |-> <<>>, at |-> <<>>, to |-> <<>>]
      mark == IF l.sent.text = <<>> THEN 1 ELSE 2
      body == Laid(none, [l.sent EXCEPT !.name = ""], mark + 2)
  IN CASE l.sent.type = "prompt" -> none
       [] l.sent.type \in Streams -> [nodes |-> <<l.sent>>, at |-> <<1>>, to |-> <<2>>]
       [] OTHER -> [nodes |-> Append(Front(body.nodes), [Last(body.nodes) EXCEPT !.name = l.sent.name]),
                    at |-> Append(Front(body.at), 1), to |-> Append(Front(body.to), Len(Tokens(l.text)) + 1)]

\* A result or asynchronous record.  gdb ends its lines with LF, the pty
\* makes CR LF of it.
RecordLine(type, mark, class, token, values, end) ==
  [text |-> (IF token = <<>> THEN <<>> ELSE <<Lex("number", token)>>)
            \o <<Mark(mark), Lex("word", class)>>
            \o FlattenSeq([i \in DOMAIN values |-> <<Mark(",")>> \o Written(values[i])])
            \o <<Mark(end)>>,
   sent |-> [type |-> type, name |-> class, text |-> token, kids |-> values],
   plain |-> \A i \in DOMAIN values : PlainValue(values[i])]

StreamLine(type, mark, s) ==
  [text |-> <<Mark(mark), Lex("quoted", Quoted(s)), Mark("crlf")>>,
   sent |-> [type |-> type, name |-> "", text |-> s, kids |-> <<>>],
   plain |-> Plain(s)]

PromptLine ==
  [text |-> <<Mark("("), Lex("word", "gdb"), Mark(")"), Mark("blank"), Mark("crlf")>>,
   sent |-> [type |-> "prompt", name |-> "", text |-> <<>>, kids |-> <<>>],
   plain |-> TRUE]

Shallow == {Const(n, <<"x">>) : n \in Names}
GoodLines ==
  {RecordLine("result", "^", "done", <<>>, <<v>>, "crlf") : v \in Values(Depth)} \union
  {RecordLine("exec", "*", c, t, vs, e) :
     c \in {"stopped", "running"}, t \in {<<>>, <<"7">>}, e \in {"lf", "crlf"},
     vs \in UNION {[1..m -> Shallow] : m \in 0..2}} \union
  {RecordLine("notify", "=", "breakpoint-modified", <<>>, <<v>>, "crlf") : v \in Values(1)} \union
  {RecordLine("result", "^", c, <<>>, <<>>, "crlf") : c \in ResultClasses} \union
  {StreamLine("console", "~", s) : s \in Texts} \union
  {StreamLine("log", "&", <<"x">>), StreamLine("target", "@", <<"x">>),
   RecordLine("status", "+", "stopped", <<>>, <<>>, "lf"), PromptLine}

\* Lines gdb did not mean: an echo, or text of the program, fell into one.
Garbled(l) ==
  {[text |-> RemoveAt(l.text, i), sent |-> None, plain |-> TRUE] : i \in DOMAIN l.text} \union
  {[text |-> InsertAt(l.text, i, x), sent |-> None, plain |-> TRUE] :
      i \in DOMAIN l.text, x \in {Lex("other", "-"), Mark("lf"), Mark("}")}}

ASSUME AllPrinted == \A l \in GoodLines : PrintedAs(l, Layout(l))

AllLines ==
  GoodLines \union
  UNION {Garbled(RecordLine("exec", "*", "stopped", <<"7">>, <<v>>, "crlf")) : v \in Values(1)}
        \union Garbled(StreamLine("console", "~", <<"x">>)) \union Garbled(PromptLine)
=============================================================================
