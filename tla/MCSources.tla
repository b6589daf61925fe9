---------------------------- MODULE MCSources ----------------------------
(* Source files, side by side and told apart by `part`:                    *)
(*   "files"            VirtualFiles in one session: two texts without a   *)
(*                      path, one file and three pointers                  *)
(*   "restored"         VirtualFiles in two sessions, two srcfiles and     *)
(*                      breakpoints at once, the first session saves       *)
(*   "written", "read"  SourceText: functions whose text the builder       *)
(*                      writes, and functions read from a file with any of *)
(*                      the line breaks of McLayouts                       *)
(* The variables of the other part rest.                                   *)
EXTENDS VirtualFiles, Sequences, TLC
CONSTANTS s1, s2, s3, p1, p2, p3
VARIABLES part, func, phase, builder, srcrefs, marks

McPathOf == s1 :> NoId @@ s2 :> NoId @@ s3 :> <<"rlocal", 1>>

(* Functions as the parser builds them: a block has an id by its place,    *)
(* the operands of an operator are no operators, a `then` is no `if`.      *)
NoSource == INSTANCE SourceText WITH Functions <- {<<>>}, Layouts <- {}
Text(s) == NoSource!Text(s)
Node(kind, name, args, names) == NoSource!Node(kind, name, args, names)
Symbol(s) == NoSource!Symbol(s)
Call(f, args, names) == NoSource!Call(f, args, names)
Block(id, args) == NoSource!Block(id, args)

X == Symbol("x")
Y == Symbol("y")
NoFormals == Node("formals", "", <<>>, <<>>)
Formals == {NoFormals, Node("formals", "", <<Symbol("")>>, <<"x">>),
            Node("formals", "", <<Symbol(""), Node("vector", "logical", <<>>, <<>>)>>, <<"x", "y">>)}

Blocks(id) == {Block(id, <<>>), Block(id, <<X>>), Block(id, <<X, Y>>)}
Args(id) == {X, Block(id, <<X>>), Block(id, <<X, Y>>)}

Compound(id) ==
  UNION {{Call("if", <<X, a>>, <<>>), Call("while", <<X, a>>, <<>>), Call("repeat", <<a>>, <<>>),
          Call("for", <<X, Y, a>>, <<>>), Call("(", <<a>>, <<>>), Call("-", <<a>>, <<>>),
          Call("<-", <<X, a>>, <<>>), Call("f", <<a>>, <<"", "">>)} : a \in Args(id \o <<1>>)}
  \cup UNION {{Call("if", <<X, a, b>>, <<>>), Call("g", <<a, b>>, <<"", "", "y">>)} :
              a \in Args(id \o <<1>>), b \in Args(id \o <<2>>)}
  \cup {Call("function", <<h, a>>, <<>>) : h \in Formals, a \in Args(id \o <<1>>)}

Simple ==
  {Call("f", <<X, Y>>, <<"", n, "">>) : n \in {"", "x", "y"}}
  \cup {Call("f", <<X, Y>>, <<"", "", n>>) : n \in {"x", "y"}}
  \cup {Call("[", <<X, Y, Y>>, <<"", "", n, "">>) : n \in {"", "drop"}}
  \cup {Call("[[", <<X, Y>>, <<>>), Call("$", <<X, Y>>, <<>>), Call("==", <<X, Y>>, <<>>),
        Call("break", <<>>, <<>>), Call("f", <<>>, <<>>), Call("-", <<X>>, <<>>), X,
        Node("list", "list", <<X, Y>>, <<"a", "">>), Node("list", "expression", <<X>>, <<>>),
        Node("opaque", "environment", <<>>, <<>>), Node("vector", "numeric", <<Text("1"), Text("2")>>, <<>>),
        Node("vector", "numeric", <<>>, <<>>), Node("vector", "character", <<Text("a")>>, <<>>)}

Wrapped(e) == [Call("generated {", <<e>>, <<>>) EXCEPT !.id = <<9>>]
Closures(bodies) == {Node("closure", "", <<h, b>>, <<>>) : h \in Formals, b \in bodies}

McWritten ==
  Closures({Block(<<0>>, <<s>>) : s \in Simple \cup Compound(<<1>>)} \cup Blocks(<<0>>))
  \cup {Node("closure", "", <<NoFormals, Block(<<0>>, <<s, t>>)>>, <<>>) :
        s \in Compound(<<1>>), t \in {X} \cup Blocks(<<2>>)}
  \cup {Node("closure", "", <<NoFormals, Wrapped(s)>>, <<>>) : s \in Simple}
  \cup {Node("primitive", "sin", <<Text("e1")>>, <<>>), Node("primitive", "c", <<Text("...")>>, <<>>)}
McStatements(id) == {X, Block(id, <<X>>), Block(id, <<X, Y>>), Call("if", <<X, Block(id, <<X>>)>>, <<>>),
                     Call("f", <<X, Y>>, <<>>)}
McRead == {Block(<<0>>, <<s, t>>) : s \in McStatements(<<1>>), t \in McStatements(<<2>>)}
          \cup {Block(<<0>>, <<X, Block(<<1>>, <<Block(<<2>>, <<X, Y>>), X>>), Y>>),
                Block(<<0>>, <<Call("g", <<Block(<<1>>, <<X>>), Block(<<2>>, <<Y>>)>>, <<>>), Y>>),
                Block(<<0>>, <<Call("function", <<NoFormals, Block(<<1>>, <<X, Y>>)>>, <<>>), Y>>)}
McLayouts == {S \in SUBSET (1..12) : Cardinality(S) <= 4}

Written == INSTANCE SourceText WITH Functions <- McWritten, Layouts <- {{}}
Read == INSTANCE SourceText WITH Functions <- McRead, Layouts <- McLayouts
TextOf == [f \in McWritten |-> NoSource!TextOf(f)]

\* Two functions that the parser tells apart have different texts: an `else`
\* stays with its `if`, an argument with its name, a statement with its block.
TextTellsFunctions ==
    phase = "new" =>
        \A f \in McWritten : TextOf[f] = TextOf[func] => NoSource!Alike(f, func)

TwoAtOnce == Cardinality(alive) + Cardinality(breakpoints) <= 2
FirstSaves == session = 1 \/ saving = Idle

sourceVars == <<func, phase, builder, srcrefs, marks>>
--------------------------------------------------------------------------
MCInit ==
    /\ part \in {"files", "restored", "written", "read"}
    /\ Init
    /\ CASE part = "written" -> Written!Init
         [] part = "read" -> Read!Init
         [] OTHER -> NoSource!Init

MCNext ==
    /\ \/ /\ \/ part = "files" /\ Next /\ session' = 1 /\ saving' = Idle
             \/ part = "restored" /\ Next /\ TwoAtOnce' /\ FirstSaves'
          /\ UNCHANGED sourceVars
       \/ /\ \/ part = "written" /\ Written!Next
             \/ part = "read" /\ Read!Next
          /\ UNCHANGED vars
    /\ UNCHANGED part

MCSpec == MCInit /\ [][MCNext]_<<vars, sourceVars, part>>

MCSymmetry == Permutations({s1, s2}) \cup Permutations({p1, p2, p3})

\* Positions mean their statements: in a text TextBuilder has written every
\* srcref spans the text of its statement, and no two functions share a text; in
\* a text R has read the breakpoint of a line is one statement's
\* (SrcrefPreprocessor).
SourcesMeanTheirStatements ==
    /\ part = "written" => /\ Written!StatementsSpanTheirText
                           /\ TextTellsFunctions
                           /\ Written!WrittenLinesAreUnmarked
    /\ part = "read" => Read!OneBreakpointPerLine /\ Read!UnextendedIsOutermost
==========================================================================
