----------------------------- MODULE DebugFlags -----------------------------
(***************************************************************************)
(* debug(), undebug(), isdebugged() and debugonce() as RDebugger replaces  *)
(* them: the flag of a function is an attribute of its body, which must be *)
(* a `{` for it, so a body that is none is wrapped into a generated block. *)
(* Bodies are shared: the closures that one `function` expression makes,   *)
(* and copies of a closure, have the same body object.                     *)
(*                                                                         *)
(* A body is the record of what can be told of it.  Left out: what happens *)
(* at the prompt (Stepping), functions marked doNotStop, names given       *)
(* instead of functions, and primitives, of which nothing changes.         *)
(***************************************************************************)
CONSTANTS Functions,    \* closures
          Expressions,  \* `function` expressions of the program
          Blocks,       \* those whose body is a `{`
          MadeBy        \* the expression that makes each closure at first

ASSUME DebugFlagsAssumption ==
    Blocks \subseteq Expressions /\ MadeBy \in [Functions -> Expressions]

VARIABLES body,     \* BODY_EXPR of each closure
          shares,   \* the closures whose body is the same object
          stops,    \* whether the last call stopped at its beginning
          asked,    \* ghost: the flags asked for each closure
          mixed     \* ghost: closures that were copied, or copies made,
                    \* while their body carried a flag

vars == <<body, shares, stops, asked, mixed>>

Flags == {"debug", "once"}
Written(e) == [of |-> e, block |-> e \in Blocks, generated |-> FALSE, flags |-> {}]

\* Every closure of an expression has the body of the expression.
Init ==
    /\ body = [f \in Functions |-> Written(MadeBy[f])]
    /\ shares = [f \in Functions |-> {g \in Functions : MadeBy[g] = MadeBy[f]}]
    /\ stops = FALSE
    /\ asked = [f \in Functions |-> {}]
    /\ mixed = {}
--------------------------------------------------------------------------
HasFlag(f, flag) == body[f].block /\ flag \in body[f].flags

\* f no longer shares its body with others / g shares that of f.
Alone(f) ==
    [g \in Functions |-> IF g = f THEN {f} ELSE shares[g] \ {f}]
With(f, g) ==
    [h \in Functions |-> IF h \in shares[f] \cup {g} THEN shares[f] \cup {g} ELSE shares[h] \ {g}]

\* SET_BODY with an object of its own; a change of the object in place.
SetBody(f, node) ==
    /\ body' = [body EXCEPT ![f] = node]
    /\ shares' = Alone(f)

ChangeBody(f, node) ==
    [g \in Functions |-> IF g \in shares[f] THEN node ELSE body[g]]

Block(node) == IF node.block THEN node ELSE [node EXCEPT !.block = TRUE, !.generated = TRUE]

\* Mutant of WithoutBlock: the flags are not looked at, the block stays.
WithoutBlockNever(node) == node

\* The body inside a generated block that carries no flag any more.
WithoutBlock(node) ==
    IF node.generated /\ node.flags = {}
    THEN [node EXCEPT !.block = FALSE, !.generated = FALSE] ELSE node

\* Mutant of SetFlag: the flag is set on the body as it is.
SetFlagInPlace(f, flag) ==
    /\ body' = ChangeBody(f, [Block(body[f]) EXCEPT !.flags = @ \cup {flag}])
    /\ asked' = [asked EXCEPT ![f] = @ \cup {flag}]
    /\ UNCHANGED <<shares, stops, mixed>>

\* debug(f) and debugonce(f): f gets a body of its own, with the flag.
SetFlag(f, flag) ==
    /\ SetBody(f, [Block(body[f]) EXCEPT !.flags = @ \cup {flag}])
    /\ asked' = [asked EXCEPT ![f] = @ \cup {flag}]
    /\ UNCHANGED <<stops, mixed>>

\* undebug(f): the flag goes in place, then maybe the generated block.
Undebug(f) ==
    /\ HasFlag(f, "debug")
    /\ LET node == [body[f] EXCEPT !.flags = @ \ {"debug"}]
       IN  IF WithoutBlock(node) = node
           THEN body' = ChangeBody(f, node) /\ UNCHANGED shares
           ELSE /\ body' = [ChangeBody(f, node) EXCEPT ![f] = WithoutBlock(node)]
                /\ shares' = Alone(f)
    /\ asked' = [asked EXCEPT ![f] = @ \ {"debug"}]
    /\ UNCHANGED <<stops, mixed>>

IsDebugged(f) == HasFlag(f, "debug")

\* doBegin at the body of f, with the debugger enabled: debugonce() has
\* precedence and is over with this call.
Call(f) ==
    /\ IF HasFlag(f, "once")
       THEN SetBody(f, WithoutBlock([body[f] EXCEPT !.flags = @ \ {"once"}]))
       ELSE UNCHANGED <<body, shares>>
    /\ stops' = (HasFlag(f, "once") \/ HasFlag(f, "debug"))
    /\ asked' = [asked EXCEPT ![f] = @ \ {"once"}]
    /\ UNCHANGED mixed

\* With the debugger disabled the primitive `{` of R is used.
CallUndebugged(f) ==
    /\ stops' = FALSE
    /\ UNCHANGED <<body, shares, asked, mixed>>

\* R copies a closure, e.g. to set an attribute: g is a copy of f then.
Copy(f, g) ==
    /\ f # g
    /\ body' = [body EXCEPT ![g] = body[f]]
    /\ shares' = With(f, g)
    /\ asked' = [asked EXCEPT ![g] = {}]
    /\ mixed' = IF f \in mixed \/ body[f].flags # {}
                THEN mixed \cup {f, g} ELSE mixed \ {g}
    /\ UNCHANGED stops

Next ==
    \/ \E f \in Functions, flag \in Flags : SetFlag(f, flag)
    \/ \E f \in Functions : Undebug(f) \/ Call(f) \/ CallUndebugged(f)
    \/ \E f, g \in Functions : Copy(f, g)

Spec == Init /\ [][Next]_vars
--------------------------------------------------------------------------
(* A call stops at its beginning if and only if debug() holds for the      *)
(* closure or a debugonce() has not been used up, whatever was done to     *)
(* closures that share the body, and isdebugged() tells the same.          *)
(* Closures copied while flagged are another matter: the code changes the  *)
(* flags of such a pair together.                                          *)
StopsAsAsked ==
    [][\A f \in Functions \ mixed :
          /\ Call(f) => (stops' <=> asked[f] # {})
          /\ IsDebugged(f) <=> "debug" \in asked[f]]_vars

(* Without a flag a closure has the body that was written: no generated    *)
(* block is left behind, in whatever order flags were set, used up and     *)
(* taken away (body(f) and identical() of R show the body).                *)
BodiesComeBack ==
    \A f \in Functions \ mixed :
        asked[f] = {} => body[f] = Written(body[f].of)

(* Types, and that closures sharing a body object have the same body.      *)
TypeOK ==
    /\ body \in [Functions -> [of : Expressions, block : BOOLEAN,
                                generated : BOOLEAN, flags : SUBSET Flags]]
    /\ shares \in [Functions -> SUBSET Functions]
    /\ \A f \in Functions : f \in shares[f] /\ \A g \in shares[f] : body[g] = body[f]
    /\ stops \in BOOLEAN
    /\ asked \in [Functions -> SUBSET Flags]
    /\ mixed \subseteq Functions
=============================================================================
