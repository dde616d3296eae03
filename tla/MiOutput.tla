------------------------------ MODULE MiOutput ------------------------------
(***************************************************************************)
(* What becomes of one line of gdb/MI output: GdbMiScanner cuts it into    *)
(* tokens, GdbMiParser recognises a record, GdbMiDriver makes its nodes on *)
(* the heap, and the record changes hands: it is the driver's (_output)    *)
(* until parse returns it, then the caller's, who deletes it while or      *)
(* after the driver is destroyed.                                          *)
(*                                                                         *)
(* The grammar is LALR(1) and unambiguous.  The parser is written here as  *)
(* what it has shifted: where it is in a production (mode) and the         *)
(* resultLists begun and not yet closed (open), the record's at the        *)
(* bottom.  A production's action is taken where bison takes it.           *)
(***************************************************************************)
EXTENDS Naturals, Sequences, FiniteSets, SequencesExt, Selection

CONSTANTS
  Lines,    \* [text, sent, plain]: a line, what gdb meant by it, and whether
            \* it is free of characters that gdb writes in octal
  None      \* no pointer, and what a line without meaning means

ASSUME LinesAssumption == None \notin Nat /\ \A l \in Lines : l.plain \in BOOLEAN

VARIABLES
  line,    \* the line, as it was written
  rest,    \* the tokens not yet shifted
  mode,    \* where the parser is
  tag,     \* $1 of optionalToken
  name,    \* $1 of optionalVariable
  open,    \* the resultLists not closed: [type, name, kids]
  heap,    \* the nodes allocated and not freed
  made,    \* the nodes allocated so far
  held,    \* $$ of outputVariant, for a stream record
  output,  \* the driver's _output
  driver,  \* "alive" or "gone"
  given,   \* the record handed to the caller and not deleted
  twice    \* history: was a record deleted that was deleted before?

parser   == <<rest, mode, tag, name, open, held>>
lineVars == <<line, parser, heap, made, output, driver, given, twice>>
-----------------------------------------------------------------------------
(* GdbMiLexer.l: blanks vanish, every end of line is one token, and what   *)
(* no rule knows (a lone quote, say) is a STRING_LITERAL.                  *)

Token(lexeme) ==
  CASE lexeme.kind = "number"             -> [lexeme EXCEPT !.kind = "INTEGER"]
    [] lexeme.kind \in {"word", "other"}  -> [lexeme EXCEPT !.kind = "STRING"]
    [] lexeme.kind = "quoted"             -> [lexeme EXCEPT !.kind = "CSTRING"]
    [] lexeme.kind \in {"lf", "crlf", "cr"} -> [lexeme EXCEPT !.kind = "NL"]
    [] OTHER                              -> lexeme

Tokens(text) ==
  LET shown == Only(text, {lexeme \in ToSet(text) : lexeme.kind # "blank"})
  IN  [i \in DOMAIN shown |-> Token(shown[i])]

\* GdbMiDriver::unescapeString, the quotes off
Escapes == [n |-> "LF", b |-> "BS", t |-> "TAB", f |-> "FF", r |-> "CR", e |-> "ESC",
            a |-> "BEL", quote |-> "quote", backslash |-> "backslash"]

\* Mutant: the character after the backslash is not skipped.
UnescapeTwice(s) ==
  LET From[i \in 1..Len(s) + 1] ==
        IF i > Len(s) THEN <<>>
        ELSE IF s[i] = "backslash" /\ i < Len(s) /\ s[i + 1] \in DOMAIN Escapes
             THEN <<Escapes[s[i + 1]]>> \o From[i + 1]
             ELSE <<s[i]>> \o From[i + 1]
  IN  From[1]

\* A backslash before any other character stays, and so does the character.
Unescape(s) ==
  LET From[i \in 1..Len(s) + 1] ==
        IF i > Len(s) THEN <<>>
        ELSE IF s[i] = "backslash" /\ i < Len(s) /\ s[i + 1] \in DOMAIN Escapes
             THEN <<Escapes[s[i + 1]]>> \o From[i + 2]
             ELSE <<s[i]>> \o From[i + 1]
  IN  From[1]
-----------------------------------------------------------------------------
(* GdbMiResp: the nodes, what a record's class is taken for, deletion.     *)

ResultClasses == {"done", "running", "connected", "error", "exit"}
AsyncClasses  ==
  {"stopped", "running", "thread-group-added", "thread-group-removed",
   "thread-group-started", "thread-group-exited", "thread-created", "thread-exited",
   "thread-selected", "library-loaded", "library-unloaded", "traceframe-changed",
   "tsv-created", "tsv-modified", "tsv-deleted", "breakpoint-created",
   "breakpoint-modified", "breakpoint-deleted", "record-started", "record-stopped",
   "cmd-param-changed", "memory-changed"}

RecordType(mark) ==
  CASE mark = "^" -> "result" [] mark = "*" -> "exec" [] mark = "+" -> "status" [] mark = "=" -> "notify"
StreamType(mark) ==
  CASE mark = "~" -> "console" [] mark = "@" -> "target" [] mark = "&" -> "log"

\* getResultClass, getAsyncClass
Class(type, word) ==
  IF word \in (IF type = "result" THEN ResultClasses ELSE AsyncClasses)
  THEN word ELSE "unknown"

\* The nodes a record is made of: its destructor deletes its children, and theirs.
Whole(h, root) ==
  LET Below[i \in DOMAIN h] == {i} \union UNION {Below[k] : k \in ToSet(h[i].kids)}
  IN  Below[root]

\* delete root
Free(h, root) ==
  IF root \in DOMAIN h THEN [i \in DOMAIN h \ Whole(h, root) |-> h[i]] ELSE h

\* delete root, a null pointer or one that points nowhere included
Delete(root) ==
  /\ heap' = Free(heap, root)
  /\ twice' = (twice \/ (root # None /\ root \notin DOMAIN heap))

\* new: the node gets the next number
Make(node) ==
  /\ made' = made + 1
  /\ heap' = [i \in DOMAIN heap \union {made + 1} |-> IF i = made + 1 THEN node ELSE heap[i]]
  /\ UNCHANGED twice

Node == [type : STRING, name : STRING, text : Seq(STRING), kids : Seq(Nat)]

\* A node that is held by a hand or a list is there.  What names and texts
\* are is up to Lines.
LineTypeOK ==
  /\ mode \in {"start", "number", "class", "after", "item", "first", "named", "value",
               "stream", "prompt", "paren", "whole", "end", "accepted", "refused"}
  /\ made \in Nat /\ DOMAIN heap \subseteq 1..made
  /\ {held, output, given} \subseteq DOMAIN heap \union {None}
  /\ \A k \in DOMAIN open : open[k].kids \in Seq(DOMAIN heap)
  /\ driver \in {"alive", "gone"} /\ twice \in BOOLEAN

LineInit ==
  /\ line \in Lines
  /\ rest = Tokens(line.text)
  /\ mode = "start" /\ tag = <<>> /\ name = "" /\ open = <<>> /\ held = None
  /\ heap = <<>> /\ made = 0
  /\ output = None /\ driver = "alive" /\ given = None /\ twice = FALSE
-----------------------------------------------------------------------------
(* GdbMiGrammer.g, token by token.                                         *)

\* The next token is one of these, and is shifted.
At(kinds) == rest # <<>> /\ Head(rest).kind \in kinds
Shift(next) == rest' = Tail(rest) /\ mode' = next

Expects(modes, kinds) ==
  /\ mode \in modes
  /\ At(kinds)
  /\ UNCHANGED <<line, output, driver, given>>

NoNode == UNCHANGED <<heap, made, twice>>

Push(type, word) == open' = Append(open, [type |-> type, name |-> word, kids |-> <<>>])

\* resultList: the result just made joins the list it is in.
Adopt(lists) == open' = [lists EXCEPT ![Len(lists)].kids = Append(@, made + 1)]

\* optionalToken
ReadToken ==
  /\ Expects({"start"}, {"INTEGER"})
  /\ Shift("number") /\ tag' = Head(rest).val
  /\ NoNode /\ UNCHANGED <<name, open, held>>

\* CARET or asyncRecordClass, kept in name until the class is there
ReadRecordMark ==
  /\ Expects({"start", "number"}, {"^", "*", "+", "="})
  /\ Shift("class") /\ name' = RecordType(Head(rest).kind)
  /\ NoNode /\ UNCHANGED <<tag, open, held>>

\* resultClass, asyncClass
ReadClass ==
  /\ Expects({"class"}, {"STRING"})
  /\ Shift("after")
  /\ Push(name, Class(name, Head(rest).val)) /\ name' = ""
  /\ NoNode /\ UNCHANGED <<tag, held>>

ReadComma ==
  /\ Expects({"after"}, {","})
  /\ Shift("item")
  /\ NoNode /\ UNCHANGED <<tag, name, open, held>>

\* variable EQUAL
ReadVariable ==
  /\ Expects({"item", "first"}, {"STRING"})
  /\ Shift("named") /\ name' = Head(rest).val
  /\ NoNode /\ UNCHANGED <<tag, open, held>>

ReadEqual ==
  /\ Expects({"named"}, {"="})
  /\ Shift("value")
  /\ NoNode /\ UNCHANGED <<tag, name, open, held>>

\* createConst
ReadConst ==
  /\ Expects({"item", "first", "value"}, {"CSTRING"})
  /\ Shift("after")
  /\ Make([type |-> "const", name |-> name, text |-> Unescape(Head(rest).val), kids |-> <<>>])
  /\ Adopt(open) /\ name' = ""
  /\ UNCHANGED <<tag, held>>

\* OPEN_BRACE, OPEN_BRACKET
OpenList ==
  /\ Expects({"item", "first", "value"}, {"{", "["})
  /\ Shift("first")
  /\ Push(IF At({"{"}) THEN "tuple" ELSE "list", name) /\ name' = ""
  /\ NoNode /\ UNCHANGED <<tag, held>>

Closing == [tuple |-> "}", list |-> "]"]
Inner   == Last(open)
Nested  == Len(open) > 1

\* createTuple, createList
CloseList ==
  /\ Nested /\ Expects({"first", "after"}, {Closing[Inner.type]})
  /\ Shift("after")
  /\ Make([type |-> Inner.type, name |-> Inner.name, text |-> <<>>, kids |-> Inner.kids])
  /\ Adopt(Front(open))
  /\ UNCHANGED <<tag, name, held>>

\* createResultRecord or createAsyncRecord, then setOutput
EndRecord ==
  /\ ~ Nested
  /\ mode = "after" /\ At({"NL"}) /\ Shift("end")
  /\ Make([type |-> Inner.type, name |-> Inner.name, text |-> tag, kids |-> Inner.kids])
  /\ output' = made + 1 /\ open' = <<>>
  /\ UNCHANGED <<line, tag, name, held, driver, given>>

\* streamRecordClass
ReadStreamMark ==
  /\ Expects({"start"}, {"~", "@", "&"})
  /\ Shift("stream") /\ name' = StreamType(Head(rest).kind)
  /\ NoNode /\ UNCHANGED <<tag, open, held>>

\* createStreamRecord
ReadStream ==
  /\ Expects({"stream"}, {"CSTRING"})
  /\ Shift("whole")
  /\ Make([type |-> name, name |-> "", text |-> Unescape(Head(rest).val), kids |-> <<>>])
  /\ held' = made + 1
  /\ UNCHANGED <<tag, name, open>>

\* The prompt makes no output: OPEN_PAREN, variable, CLOSED_PAREN.
ReadPrompt ==
  /\ \/ Expects({"start"}, {"("}) /\ Shift("prompt")
     \/ Expects({"prompt"}, {"STRING"}) /\ Shift("paren")
     \/ Expects({"paren"}, {")"}) /\ Shift("whole")
  /\ NoNode /\ UNCHANGED <<tag, name, open, held>>

\* outputVariant NL: setOutput
EndOutput ==
  /\ mode = "whole" /\ At({"NL"}) /\ Shift("end")
  /\ output' = held /\ held' = None
  /\ NoNode /\ UNCHANGED <<line, tag, name, open, driver, given>>

\* What may come next; anything else, the end of the line included, is a
\* syntax error.
Acceptable ==
  CASE mode = "start"  -> At({"INTEGER", "^", "*", "+", "=", "~", "@", "&", "("})
    [] mode = "number" -> At({"^", "*", "+", "="})
    [] mode = "class"  -> At({"STRING"})
    [] mode = "after"  -> At({",", IF Nested THEN Closing[Inner.type] ELSE "NL"})
    [] mode = "item"   -> At({"STRING", "CSTRING", "{", "["})
    [] mode = "first"  -> At({"STRING", "CSTRING", "{", "[", Closing[Inner.type]})
    [] mode = "named"  -> At({"="})
    [] mode = "value"  -> At({"CSTRING", "{", "["})
    [] mode = "stream" -> At({"CSTRING"})
    [] mode = "prompt" -> At({"STRING"})
    [] mode = "paren"  -> At({")"})
    [] mode = "whole"  -> At({"NL"})
    [] mode = "end"    -> rest = <<>>

\* Mutant: parse keeps what it returns.
AcceptAndKeep ==
  /\ mode = "end" /\ rest = <<>>
  /\ mode' = "accepted"
  /\ given' = output
  /\ NoNode /\ UNCHANGED <<line, rest, tag, name, open, held, output, driver>>

\* parse succeeds: what it returns is the caller's.
Accept ==
  /\ mode = "end" /\ rest = <<>>
  /\ mode' = "accepted"
  /\ given' = output /\ output' = None
  /\ NoNode /\ UNCHANGED <<line, rest, tag, name, open, held, driver>>

\* parse fails: the output, if there is one, is deleted; the nodes on the
\* parser's stack are forgotten with it.
Refuse ==
  /\ mode \notin {"accepted", "refused"} /\ ~ Acceptable
  /\ mode' = "refused"
  /\ Delete(output) /\ output' = None
  /\ open' = <<>> /\ held' = None
  /\ UNCHANGED <<line, rest, tag, name, made, driver, given>>

\* The loop of handleData ends its turn: ~GdbMiDriver.
DestroyDriver ==
  /\ mode \in {"accepted", "refused"} /\ driver = "alive"
  /\ driver' = "gone"
  /\ Delete(output) /\ output' = None
  /\ UNCHANGED <<line, parser, made, given>>

Streams == {"console", "target", "log"}

\* deleteResultRecord, or the end of OnGdbProcessData, on the GUI thread's
\* own time; a stream record is never deleted (see MiCommand).
DeleteRecord ==
  /\ given # None /\ heap[given].type \notin Streams
  /\ Delete(given) /\ given' = None
  /\ UNCHANGED <<line, parser, made, output, driver>>

Parse ==
  \/ ReadToken \/ ReadRecordMark \/ ReadClass \/ ReadComma \/ ReadVariable \/ ReadEqual
  \/ ReadConst \/ OpenList \/ CloseList \/ EndRecord
  \/ ReadStreamMark \/ ReadStream \/ ReadPrompt \/ EndOutput
  \/ Accept \/ Refuse

LineNext == Parse \/ DestroyDriver \/ DeleteRecord

LineSpec == LineInit /\ [][LineNext]_lineVars
-----------------------------------------------------------------------------
(* What a line comes to.                                                   *)

\* The record as a tree, without the numbers of its nodes
Meaning(nodes, root) ==
  LET Tree[i \in DOMAIN nodes] ==
        [type |-> nodes[i].type, name |-> nodes[i].name, text |-> nodes[i].text,
         kids |-> [k \in DOMAIN nodes[i].kids |-> Tree[nodes[i].kids[k]]]]
  IN  Tree[root]

\* What gdb printed is what the program reads: the kind of record, its class
\* and token, and the names, values and order of everything in it, except
\* for the characters gdb writes in octal, which stay as written.  A prompt
\* yields nothing and is no error.
ReadBack ==
  line.sent # None =>
    /\ mode # "refused"
    /\ line.plain /\ given # None => Meaning(heap, given) = line.sent
    /\ mode = "accepted" => (given = None /\ made = 0) <=> line.sent.type = "prompt"

\* The places a node may be held from
Holders(i) ==
  Cardinality({k \in DOMAIN heap : i \in ToSet(heap[k].kids)})
  + Cardinality({k \in DOMAIN open : i \in ToSet(open[k].kids)})
  + Cardinality({p \in {"held", "output", "given"} : i = [held |-> held, output |-> output, given |-> given][p]})

\* Every node has one owner from the moment it is made: deleting the record
\* deletes each of its nodes, once, whichever of the reader's driver and the
\* GUI thread comes first, and leaves nothing behind.  A line refused in its
\* middle is the exception: its nodes have no owner any more.
OwnedOnce ==
  /\ ~ twice
  /\ {held, output, given} \subseteq DOMAIN heap \union {None}
  /\ mode # "refused" => \A i \in DOMAIN heap : Holders(i) = 1

=============================================================================
