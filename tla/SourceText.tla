----------------------------- MODULE SourceText -----------------------------
(***************************************************************************)
(* The text of functions that came without a source (TextBuilder), the     *)
(* places of their statements in it (srcrefs), and the marks that say      *)
(* which statements of a line take breakpoints and which need their        *)
(* extended position sent (SrcrefPreprocessor).                            *)
(*                                                                         *)
(* An expression is a record; `id` stands for the address of a block, a    *)
(* text is a sequence of tokens and a column counts tokens.  The names of  *)
(* a call have a first slot for the function, as in R.  How strings,       *)
(* numbers and names are quoted is left out.                               *)
(***************************************************************************)
EXTENDS Integers, SequencesExt

CONSTANTS Functions,   \* the functions and the parsed expressions of an instance
          Layouts      \* a sequence of sets of token gaps that hold a line break

Node(kind, name, args, names) == [kind |-> kind, name |-> name, args |-> args, names |-> names, id |-> <<>>]
Text(s) == Node("text", s, <<>>, <<>>)
Symbol(s) == Node("symbol", s, <<>>, <<>>)
Call(f, args, names) == Node("call", f, args, names)
Block(id, args) == [Node("call", "{", args, <<>>) EXCEPT !.id = id]

Unary == {"!", "+", "-"}
Tight == {"::", ":::", "$"}
Binary == Tight \cup {"+", "-", "*", "<-", "==", "%in%"}

-----------------------------------------------------------------------------
\* What the builder writes for one expression: tokens, and expressions to be
\* written in their turn.

NameAt(names, i) == IF i <= Len(names) THEN names[i] ELSE ""
Named(name, arg) == (IF name # "" THEN <<Text(name), Text(" = ")>> ELSE <<>>) \o <<arg>>

\* args[first], args[first + 1], ... with their names, `shift` slots further on
Arguments(args, names, first, shift) ==
  FlattenSeq([k \in 1..(Len(args) - first + 1) |->
    (IF k > 1 THEN <<Text(", ")>> ELSE <<>>)
      \o Named(NameAt(names, first + k - 1 + shift), args[first + k - 1])])

Header(formals) ==
  <<Text("function(")>>
    \o FlattenSeq([k \in 1..Len(formals.args) |->
         (IF k > 1 THEN <<Text(", ")>> ELSE <<>>) \o <<Text(formals.names[k])>>
           \o (IF formals.args[k] = Symbol("") THEN <<>> ELSE <<Text(" = "), formals.args[k]>>)])
    \o <<Text(")")>>

Literal(e) ==
  CASE Len(e.args) = 0 -> <<Text(IF e.name = "logical" THEN "integer" ELSE e.name), Text("(0)")>>
    [] Len(e.args) = 1 -> e.args
    [] OTHER -> <<Text("c(")>> \o Arguments(e.args, <<>>, 1, 0) \o <<Text(")")>>

CallPieces(e) ==
  LET f == e.name  a == e.args  n == Len(e.args) IN
  CASE f = "if" /\ n \in 2..3 ->
         <<Text("if ("), a[1], Text(") "), a[2]>> \o (IF n = 3 THEN <<Text(" else "), a[3]>> ELSE <<>>)
    [] f = "(" /\ n = 1 -> <<Text("("), a[1], Text(")")>>
    [] f = "function" /\ n >= 2 -> Header(a[1]) \o <<Text(" "), a[2]>>
    [] f \in Unary /\ n = 1 -> <<Text(f), a[1]>>
    [] f \in Tight /\ n = 2 -> <<a[1], Text(f), a[2]>>
    [] f \in Binary \ Tight /\ n = 2 -> <<a[1], Text(" "), Text(f), Text(" "), a[2]>>
    [] f \in {"[", "[["} /\ n >= 1 ->
         <<a[1], Text(f)>> \o Arguments(a, e.names, 2, 1) \o <<Text(IF f = "[" THEN "]" ELSE "]]")>>
    [] f \in {"break", "next"} /\ n = 0 -> <<Text(f)>>
    [] f = "for" /\ n = 3 -> <<Text("for ("), a[1], Text(" in "), a[2], Text(") "), a[3]>>
    [] f = "while" /\ n = 2 -> <<Text("while ("), a[1], Text(") "), a[2]>>
    [] f = "repeat" /\ n = 1 -> <<Text("repeat "), a[1]>>
    [] OTHER -> <<Text(f), Text("(")>> \o Arguments(a, e.names, 1, 1) \o <<Text(")")>>

\* A closure whose body debug() wrapped in a block is shown without that block.
Body(closure) == closure.args[2]
Shown(body) == IF body.name = "generated {" /\ Len(body.args) = 1 THEN body.args[1] ELSE body

Pieces(e) ==
  CASE e.kind = "symbol" -> <<Text(e.name)>>
    [] e.kind = "opaque" -> <<Text(e.name)>>       \* environments, promises, ...
    [] e.kind = "vector" -> Literal(e)
    [] e.kind = "list" ->                        \* list, pairlist, expression
         <<Text(e.name), Text("(")>> \o Arguments(e.args, e.names, 1, 0) \o <<Text(")")>>
    [] e.kind = "closure" -> Header(e.args[1]) \o <<Text(" "), Shown(Body(e))>>
    [] e.kind = "primitive" ->
         <<Text("function(")>> \o Arguments(e.args, <<>>, 1, 0)
           \o <<Text(")"), Text(" "), Text(".Primitive("), Text(e.name), Text(")")>>
    [] e.kind = "call" -> CallPieces(e)

-----------------------------------------------------------------------------
\* The builder: its text, the indent, the line it is on and where that starts,
\* and the srcrefs of the blocks it has finished.

NoText == [text |-> <<>>, indent |-> 0, line |-> 0, lineStart |-> 0, newSrcrefs |-> <<>>]
Put(b, s) == [b EXCEPT !.text = Append(@, s)]
Position(b) == Len(b.text) - b.lineStart

\* Mutant of Newline: the line starts after its indent.
NewlineIndented(b) ==
  LET t == Append(b.text, "\n") \o [i \in 1..b.indent |-> "  "] IN
  [b EXCEPT !.text = t, !.lineStart = Len(t), !.line = @ + 1]

Newline(b) ==
  [b EXCEPT !.text = Append(@, "\n") \o [i \in 1..b.indent |-> "  "],
            !.lineStart = Len(b.text) + 1, !.line = @ + 1]

\* addText counts the lines of a title but does not move lineStart.
Titled(b, title) == [b EXCEPT !.text = @ \o <<"# ", title, "\n">>, !.line = @ + 1]

Srcref(b1, b2) == [startLine |-> b1.line + 1, startPosition |-> Position(b1) + 1,
                   endLine |-> b2.line + 1, endPosition |-> Position(b2)]

RECURSIVE Build(_, _)
BuildAll(b, pieces) == FoldLeft(Build, b, pieces)

Open(b) == [Put(b, "{") EXCEPT !.indent = @ + 1]
Close(b, id, refs) ==
  [Put(Newline([b EXCEPT !.indent = @ - 1]), "}") EXCEPT !.newSrcrefs = Append(@, [id |-> id, refs |-> refs])]

BuildBlock(b, e) ==
  LET Statement(st, arg) ==
        LET from == Newline(st.b)  to == Build(from, arg)
        IN [b |-> to, refs |-> Append(st.refs, Srcref(from, to))]
      last == FoldLeft(Statement, [b |-> Open(b), refs |-> <<Srcref(b, Put(b, "{"))>>], e.args)
  IN Close(last.b, e.id, last.refs)

Build(b, e) ==
  CASE e.kind = "text" -> Put(b, e.name)
    [] e.kind = "call" /\ e.name = "{" -> BuildBlock(b, e)
    [] OTHER -> BuildAll(b, Pieces(e))

-----------------------------------------------------------------------------
\* Texts and places in them.

Layout == {"\n", "  "}
Tokens(text) == SelectSeq(text, LAMBDA s: s \notin Layout)

LineStart(text, line) ==
  IF line = 1 THEN 0
  ELSE CHOOSE i \in 1..Len(text) : text[i] = "\n" /\ Cardinality({j \in 1..i : text[j] = "\n"}) = line - 1
Spanned(text, r) ==
  SubSeq(text, LineStart(text, r.startLine) + r.startPosition, LineStart(text, r.endLine) + r.endPosition)

RefsOf(b) == [id \in {n.id : n \in ToSet(b.newSrcrefs)} |->
                (CHOOSE n \in ToSet(b.newSrcrefs) : n.id = id).refs]

\* The same tokens read from a file with its own line breaks: the srcrefs R's
\* parser gives the statements.
Relaid(b, breaks) ==
  LET TokenAt(line, position) == Len(Tokens(SubSeq(b.text, 1, LineStart(b.text, line) + position)))
      LineOf(token) == 1 + Cardinality({g \in breaks : g < token})
      refs == RefsOf(b)
  IN [id \in DOMAIN refs |-> [i \in 1..Len(refs[id]) |->
       LET r == refs[id][i] IN
       [r EXCEPT !.startLine = LineOf(TokenAt(r.startLine, r.startPosition)),
                 !.endLine = LineOf(TokenAt(r.endLine, r.endPosition))]]]

-----------------------------------------------------------------------------
\* The preprocessor.  A statement is <<the id of its block, its index>>.

Unprocessed == [breakpointLine |-> -1, positionLine |-> -1, positionSrcref |-> <<>>,
                noBreakpoint |-> {}, extended |-> {}]

\* line[t] is the first line of statement t
Entered(p, s, first, line) ==
  [p EXCEPT !.noBreakpoint = IF first = p.breakpointLine THEN @ \cup {s} ELSE @,
            !.breakpointLine = IF first > @ THEN first ELSE @,
            !.extended = IF first = p.positionLine
                         THEN @ \cup {s} \cup {t \in {p.positionSrcref} \ {<<>>} : line[t] = first} ELSE @,
            !.positionLine = first]

Left(p, s, r) ==
  [p EXCEPT !.positionLine = r.endLine,
            !.positionSrcref = IF r.startLine = r.endLine THEN s ELSE @]

RECURSIVE Preprocess(_, _, _)
Preprocess(p, e, srcrefs) ==
  LET line == [s \in UNION {{id} \X (1..(Len(srcrefs[id]) - 1)) : id \in DOMAIN srcrefs} |->
                 srcrefs[s[1]][s[2] + 1].startLine]
      Statement(q, i) ==
        LET s == <<e.id, i>>  r == srcrefs[e.id][i + 1]
        IN Left(Preprocess(Entered(q, s, r.startLine, line), e.args[i], srcrefs), s, r)
      Argument(q, arg) == Preprocess(q, arg, srcrefs)
  IN CASE e.name \in {"{", "generated {"} -> IF e.id \in DOMAIN srcrefs
                            THEN FoldLeft(Statement, p, [i \in 1..Len(e.args) |-> i])
                            ELSE p
       [] e.kind = "call" /\ e.name # "function" -> FoldLeft(Argument, p, e.args)
       [] OTHER -> p

-----------------------------------------------------------------------------
VARIABLES
  func,       \* the function
  phase,      \* "new", "written" or "read", then "marked"
  builder,    \* the builder when the function was written
  srcrefs,    \* the srcrefs of the blocks
  marks       \* what the preprocessor found

vars == <<func, phase, builder, srcrefs, marks>>

Init ==
  /\ func \in Functions
  /\ phase = "new"
  /\ builder = NoText
  /\ srcrefs = <<>>
  /\ marks = Unprocessed

\* getFunctionSrcref of a function without a srcref; a library function has a title.
WriteText ==
  /\ phase = "new"
  /\ \E titled \in BOOLEAN :
       builder' = Build(IF titled THEN Titled(NoText, "base::f") ELSE NoText, func)
  /\ srcrefs' = RefsOf(builder')
  /\ phase' = "written"
  /\ UNCHANGED <<func, marks>>

\* R's parser reads the function from a file.
ReadText ==
  /\ phase = "new"
  /\ \E breaks \in Layouts : srcrefs' = Relaid(Build(NoText, func), breaks)
  /\ phase' = "read"
  /\ UNCHANGED <<func, builder, marks>>

PreprocessSrcrefs ==
  /\ phase \in {"written", "read"}
  /\ marks' = Preprocess(Unprocessed, IF func.kind = "closure" THEN Body(func) ELSE func, srcrefs)
  /\ phase' = IF phase = "written" THEN "marked" ELSE "read and marked"
  /\ UNCHANGED <<func, builder, srcrefs>>

Next == WriteText \/ ReadText \/ PreprocessSrcrefs
Spec == Init /\ [][Next]_vars

-----------------------------------------------------------------------------
\* Properties

RECURSIVE BlocksIn(_)
BlocksIn(e) ==
  (IF e.name = "{" THEN {e} ELSE {}) \cup UNION {BlocksIn(e.args[i]) : i \in DOMAIN e.args}

\* The statements one preprocessing sees: those of functions inside have their own.
RECURSIVE StatementsIn(_)
StatementsIn(e) ==
  IF e.kind \notin {"call", "closure"} \/ e.name \in {"function", "generated {"} THEN {}
  ELSE (IF e.name = "{" THEN {<<e.id, i>> : i \in DOMAIN e.args} ELSE {})
       \cup UNION {StatementsIn(e.args[i]) : i \in DOMAIN e.args}

\* The srcref of a statement in a written text spans the statement's own text, whatever was
\* written before it: titles, indents, blocks that ended on the same line (currentLineStart).
StatementsSpanTheirText ==
  phase = "written" =>
    \A e \in BlocksIn(func) : e.id \in DOMAIN srcrefs =>
      /\ Len(srcrefs[e.id]) = Len(e.args) + 1
      /\ \A i \in DOMAIN e.args :
           Tokens(Spanned(builder.text, srcrefs[e.id][i + 1])) = Tokens(Build(NoText, e.args[i]).text)

RECURSIVE Anonymous(_)
Anonymous(e) == [e EXCEPT !.id = <<>>, !.args = [i \in DOMAIN e.args |-> Anonymous(e.args[i])]]
TextOf(f) == Tokens(Build(NoText, f).text)

\* The parser makes one function of both.
Alike(f, g) == Anonymous(f) = Anonymous(g)

\* In a text the builder wrote every statement has a line of its own: none is marked.
WrittenLinesAreUnmarked == phase = "marked" => marks.noBreakpoint = {} /\ marks.extended = {}

StartsOn(s) == srcrefs[s[1]][s[2] + 1].startLine
Marked == IF phase = "read and marked"
          THEN StatementsIn(IF func.kind = "closure" THEN Body(func) ELSE func) ELSE {}

\* Of the statements that start on one line exactly one takes the breakpoint of that line
\* (checkBreakpoint skips those with noBreakpointFlag).
OneBreakpointPerLine ==
  \A s \in Marked : Cardinality({t \in Marked \ marks.noBreakpoint : StartsOn(t) = StartsOn(s)}) = 1

Inside(t, s) ==
  \E e \in BlocksIn(func) : e.id = s[1] /\ t \in StatementsIn(e.args[s[2]])

\* A statement whose extended position is not sent is the outermost one that starts on its line:
\* its line alone tells the client which statement is meant.
UnextendedIsOutermost ==
  \A s \in Marked \ marks.extended : \A t \in Marked \ {s} : StartsOn(t) = StartsOn(s) => Inside(t, s)
=============================================================================
