-------------------------- MODULE Debugger_proofs --------------------------
(***************************************************************************)
(* For any number of closures and expressions: calls stop as was asked,    *)
(* and bodies come back.                                                   *)
(*                                                                         *)
(* That a flag can be taken away in place although bodies are shared is    *)
(* due to what the invariant says of sharing: a closure that shares its    *)
(* body carries no flag, since setting one gives it a body of its own, and *)
(* only copying a flagged closure can break this, which `mixed` records    *)
(* for both.                                                               *)
(*                                                                         *)
(* For stacks of any height and any number of runs: stepping follows the   *)
(* stack.  What holds now comes back when calls and runs end, since every  *)
(* entry will put `enabled` back to what the stack below it says           *)
(* (EnabledFits), a step command keeps the contexts it saw only as long as *)
(* the run it was given in is there (StepsFit), and whatever asks the      *)
(* client makes was heard by the innermost run or by none (AsksFit).       *)
(*                                                                         *)
(* For any number of breakpoints: the lists and the links stay in step.    *)
(* While removeBreakpointById works, the table is a value that             *)
(* setMasterBreakpoint changes several times, so what is kept is said of   *)
(* any table (Linked): who is in a list is in it once, and is in it        *)
(* exactly if the table says so.                                           *)
(***************************************************************************)
EXTENDS DebugFlags, Stepping, Breakpoints, SequenceTheorems, FiniteSetTheorems,
        WellFoundedInduction, TLAPS

Node == [of : Expressions, block : BOOLEAN, generated : BOOLEAN, flags : SUBSET Flags]

Types ==
    /\ body \in [Functions -> Node]
    /\ shares \in [Functions -> SUBSET Functions]
    /\ stops \in BOOLEAN
    /\ asked \in [Functions -> SUBSET Flags]
    /\ mixed \subseteq Functions

\* `shares` is an equivalence, and those equivalent have one body.
Shared ==
    /\ \A f \in Functions : f \in shares[f]
    /\ \A f \in Functions : \A g \in shares[f] : shares[g] = shares[f] /\ body[g] = body[f]

\* Who shares a body carries no flag.
SharedIsPlain ==
    \A f \in Functions \ mixed : \A g \in shares[f] :
        g \notin mixed /\ (g # f => body[f].flags = {})

FlagsAsAsked == \A f \in Functions \ mixed : body[f].flags = asked[f]

\* A generated block is there exactly for the flags of a body that is none.
WellFormed(node) ==
    /\ node.generated <=> node.flags # {} /\ node.of \notin Blocks
    /\ node.block <=> node.generated \/ node.of \in Blocks
BlocksForFlags == \A f \in Functions \ mixed : WellFormed(body[f])

IInv == Types /\ Shared /\ SharedIsPlain /\ FlagsAsAsked /\ BlocksForFlags
----------------------------------------------------------------------------
(* What the operations make of a body.                                     *)
LEMMA Bodies ==
    ASSUME NEW node \in Node, NEW flag \in Flags
    PROVE  LET set   == [Block(node) EXCEPT !.flags = @ \cup {flag}]
               clear == [node EXCEPT !.flags = @ \ {flag}]
           IN  /\ set \in Node /\ set.flags = node.flags \cup {flag}
               /\ clear \in Node /\ clear.flags = node.flags \ {flag}
               /\ WithoutBlock(clear) \in Node
               /\ WithoutBlock(clear).flags = node.flags \ {flag}
               /\ WellFormed(node) => WellFormed(set) /\ WellFormed(WithoutBlock(clear))
<1> DEFINE set   == [Block(node) EXCEPT !.flags = @ \cup {flag}]
           clear == [node EXCEPT !.flags = @ \ {flag}]
<1>1. set \in Node /\ set.flags = node.flags \cup {flag} /\ set.of = node.of
          /\ set.block /\ (set.generated <=> node.generated \/ ~node.block)
  BY DEF Block, Node
<1>2. clear \in Node /\ clear.flags = node.flags \ {flag} /\ clear.of = node.of
          /\ clear.block = node.block /\ clear.generated = node.generated
  BY DEF Node
<1>3. CASE clear.generated /\ clear.flags = {}
  BY <1>1, <1>2, <1>3 DEF WithoutBlock, WellFormed, Node
<1>4. CASE ~(clear.generated /\ clear.flags = {})
  BY <1>1, <1>2, <1>4 DEF WithoutBlock, WellFormed
<1> QED
  BY <1>3, <1>4

LEMMA Start == Init => IInv
<1> SUFFICES ASSUME Init PROVE IInv
  OBVIOUS
<1>1. \A e \in Expressions : Written(e) \in Node /\ Written(e).flags = {} /\ WellFormed(Written(e))
  <2> SUFFICES ASSUME NEW e \in Expressions
               PROVE  Written(e) \in Node /\ Written(e).flags = {} /\ WellFormed(Written(e))
    OBVIOUS
  <2>1. CASE e \in Blocks
    BY <2>1 DEF Written, Node, WellFormed
  <2>2. CASE e \notin Blocks
    <3>1. (e \in Blocks) = FALSE
      BY <2>2
    <3>2. Written(e) = [of |-> e, block |-> FALSE, generated |-> FALSE, flags |-> {}]
      BY <3>1, Zenon DEF Written
    <3> QED
      BY <2>2, <3>2 DEF Node, WellFormed
  <2> QED
    BY <2>1, <2>2
<1>2. body \in [Functions -> Node] /\ \A f \in Functions : body[f] = Written(MadeBy[f])
  BY <1>1, DebugFlagsAssumption DEF Init
<1>3. Types
  BY <1>2, Zenon DEF Init, Types
<1>4. Shared
  BY <1>2 DEF Init, Shared
<1>5. SharedIsPlain /\ FlagsAsAsked /\ BlocksForFlags
  BY <1>1, <1>2, DebugFlagsAssumption DEF Init, SharedIsPlain, FlagsAsAsked, BlocksForFlags
<1> QED
  BY <1>3, <1>4, <1>5 DEF IInv

(* A closure that gets a body of its own leaves those it shared one with,  *)
(* whose body may have changed in place before.                            *)
LEMMA OwnBodyKeeps ==
    ASSUME IInv, NEW f \in Functions, NEW node \in Node, NEW rest \in Node,
           NEW flags \in SUBSET Flags,
           body' = [ChangeBody(f, rest) EXCEPT ![f] = node], shares' = Alone(f),
           asked' = [asked EXCEPT ![f] = flags],
           mixed' = mixed, stops' \in BOOLEAN,
           rest = body[f] \/ HasFlag(f, "debug"),
           f \notin mixed => node.flags = flags /\ WellFormed(node)
    PROVE  IInv'
<1> USE DEF IInv, Types
<1>1. /\ \A g \in Functions : body'[g] = IF g = f THEN node ELSE IF g \in shares[f] THEN rest ELSE body[g]
      /\ shares'[f] = {f} /\ \A g \in Functions : g # f => shares'[g] = shares[g] \ {f}
      /\ \A g \in Functions : asked'[g] = IF g = f THEN flags ELSE asked[g]
  BY DEF ChangeBody, Alone
<1>2. Types'
  <2>1. body' \in [Functions -> Node]
    BY DEF ChangeBody
  <2>2. shares' \in [Functions -> SUBSET Functions]
    BY DEF Alone
  <2>3. asked' \in [Functions -> SUBSET Flags]
    OBVIOUS
  <2> QED
    BY <2>1, <2>2, <2>3, Zenon
<1>3. Shared'
  <2>1. \A g \in Functions : g \in shares'[g]
    BY <1>1 DEF Shared
  <2>2. ASSUME NEW g \in Functions, NEW h \in shares'[g]
        PROVE  shares'[h] = shares'[g] /\ body'[h] = body'[g]
    <3>1. CASE g = f
      BY <1>1, <2>2, <3>1
    <3>2. CASE g # f
      <4>1. h \in Functions /\ h # f /\ h \in shares[g]
        BY <1>1, <2>2, <3>2
      <4>2. shares[h] = shares[g] /\ body[h] = body[g]
        BY <4>1 DEF Shared
      <4>3. h \in shares[f] <=> g \in shares[f]
        BY <4>1, <4>2 DEF Shared
      <4>4. shares'[h] = shares[h] \ {f} /\ shares'[g] = shares[g] \ {f}
        BY <1>1, <3>2, <4>1, Zenon
      <4>5. body'[h] = body'[g]
        BY <1>1, <3>2, <4>1, <4>2, <4>3
      <4> QED
        BY <4>2, <4>4, <4>5
    <3> QED
      BY <3>1, <3>2
  <2> QED
    BY <2>1, <2>2 DEF Shared
<1>4. \A g \in Functions \ mixed : g # f => body'[g] = body[g]
  <2> SUFFICES ASSUME NEW g \in Functions \ mixed, g # f, g \in shares[f] PROVE rest = body[g]
    BY <1>1
  <2>1. f \in shares[g] /\ body[g] = body[f]
    BY DEF Shared
  <2>2. body[g].flags = {}
    BY <2>1 DEF SharedIsPlain
  <2> QED
    BY <2>1, <2>2 DEF HasFlag
<1>5. SharedIsPlain'
  <2> SUFFICES ASSUME NEW g \in Functions \ mixed, NEW h \in shares'[g]
               PROVE  h \notin mixed /\ (h # g => body'[g].flags = {})
    BY DEF SharedIsPlain
  <2>1. CASE g = f
    BY <1>1, <2>1
  <2>2. CASE g # f
    BY <1>1, <1>4, <2>2 DEF SharedIsPlain
  <2> QED
    BY <2>1, <2>2
<1>6. FlagsAsAsked' /\ BlocksForFlags'
  <2>1. \A g \in Functions \ mixed : body'[g].flags = asked'[g]
    BY <1>1, <1>4 DEF FlagsAsAsked
  <2>2. \A g \in Functions \ mixed : WellFormed(body'[g])
    BY <1>1, <1>4 DEF BlocksForFlags
  <2> QED
    BY <2>1, <2>2 DEF FlagsAsAsked, BlocksForFlags, WellFormed
<1> QED
  BY <1>2, <1>3, <1>5, <1>6

LEMMA SetBodyIsOwn ==
    ASSUME IInv, NEW f \in Functions, NEW node, SetBody(f, node)
    PROVE  body' = [ChangeBody(f, body[f]) EXCEPT ![f] = node] /\ shares' = Alone(f)
<1>1. ChangeBody(f, body[f]) = body
  BY DEF ChangeBody, IInv, Types, Shared
<1> QED
  BY <1>1 DEF SetBody

(* A flag that goes in place goes from f alone, unless f was copied.       *)
LEMMA InPlaceKeeps ==
    ASSUME IInv, NEW f \in Functions, NEW node \in Node, NEW flags \in SUBSET Flags,
           HasFlag(f, "debug"), body' = ChangeBody(f, node), shares' = shares,
           asked' = [asked EXCEPT ![f] = flags], mixed' = mixed, stops' = stops,
           f \notin mixed => node.flags = flags /\ WellFormed(node)
    PROVE  IInv'
<1> USE DEF IInv, Types
<1>1. /\ \A g \in Functions : body'[g] = IF g \in shares[f] THEN node ELSE body[g]
      /\ \A g \in Functions : asked'[g] = IF g = f THEN flags ELSE asked[g]
  BY DEF ChangeBody
<1>2. f \notin mixed => shares[f] = {f}
  BY DEF SharedIsPlain, HasFlag, Shared
<1>3. f \in mixed => shares[f] \subseteq mixed
  BY DEF SharedIsPlain, Shared
<1>4. Types'
  <2>1. body' \in [Functions -> Node]
    BY DEF ChangeBody
  <2>2. asked' \in [Functions -> SUBSET Flags]
    OBVIOUS
  <2> QED
    BY <2>1, <2>2, Zenon
<1>5. Shared'
  BY <1>1 DEF Shared
<1>6. SharedIsPlain'
  BY <1>1, <1>2, <1>3 DEF SharedIsPlain
<1>7. FlagsAsAsked' /\ BlocksForFlags'
  <2>1. \A g \in Functions \ mixed : body'[g].flags = asked'[g]
    BY <1>1, <1>2, <1>3 DEF FlagsAsAsked
  <2>2. \A g \in Functions \ mixed : WellFormed(body'[g])
    BY <1>1, <1>2, <1>3 DEF BlocksForFlags
  <2> QED
    BY <2>1, <2>2 DEF FlagsAsAsked, BlocksForFlags, WellFormed
<1> QED
  BY <1>4, <1>5, <1>6, <1>7

LEMMA FlagStepsKeep ==
    ASSUME IInv, NEW f \in Functions,
           (\E flag \in Flags : SetFlag(f, flag)) \/ Undebug(f) \/ Call(f)
    PROVE  IInv'
<1> DEFINE node(flag) == [body[f] EXCEPT !.flags = @ \ {flag}]
<1>1. body[f] \in Node /\ asked[f] \in SUBSET Flags /\ "debug" \in Flags /\ "once" \in Flags
  BY DEF IInv, Types, Flags
<1>2. f \notin mixed => body[f].flags = asked[f] /\ WellFormed(body[f])
  BY DEF IInv, FlagsAsAsked, BlocksForFlags
<1>3. ASSUME NEW flag \in Flags, SetFlag(f, flag) PROVE IInv'
  <2> DEFINE set == [Block(body[f]) EXCEPT !.flags = @ \cup {flag}]
  <2>1. set \in Node /\ set.flags = body[f].flags \cup {flag}
            /\ (WellFormed(body[f]) => WellFormed(set))
    BY <1>1, Bodies
  <2>2. SetBody(f, set) /\ asked' = [asked EXCEPT ![f] = asked[f] \cup {flag}]
            /\ mixed' = mixed /\ stops' = stops
    BY <1>3 DEF SetFlag
  <2>3. stops' \in BOOLEAN /\ asked[f] \cup {flag} \in SUBSET Flags
    BY <1>1, <2>2, Zenon DEF IInv, Types
  <2> QED
    BY <1>1, <1>2, <2>1, <2>2, <2>3, SetBodyIsOwn, OwnBodyKeeps
<1>4. CASE Undebug(f)
  <2>1. /\ node("debug") \in Node /\ node("debug").flags = body[f].flags \ {"debug"}
        /\ WithoutBlock(node("debug")) \in Node
        /\ WithoutBlock(node("debug")).flags = body[f].flags \ {"debug"}
        /\ WellFormed(body[f]) => WellFormed(WithoutBlock(node("debug")))
    BY <1>1, Bodies
  <2>2. /\ HasFlag(f, "debug")
        /\ asked' = [asked EXCEPT ![f] = asked[f] \ {"debug"}]
        /\ mixed' = mixed /\ stops' = stops
    BY <1>4 DEF Undebug
  <2>3. stops' \in BOOLEAN /\ asked[f] \ {"debug"} \in SUBSET Flags
    BY <1>1, <2>2, Zenon DEF IInv, Types
  <2>4. CASE WithoutBlock(node("debug")) = node("debug")
    <3>1. body' = ChangeBody(f, node("debug")) /\ shares' = shares
      BY <1>4, <2>4 DEF Undebug
    <3> QED
      BY <1>2, <2>1, <2>2, <2>3, <2>4, <3>1, InPlaceKeeps
  <2>5. CASE WithoutBlock(node("debug")) # node("debug")
    <3>1. /\ body' = [ChangeBody(f, node("debug")) EXCEPT ![f] = WithoutBlock(node("debug"))]
          /\ shares' = Alone(f)
      BY <1>4, <2>5 DEF Undebug
    <3> QED
      BY <1>2, <2>1, <2>2, <2>3, <3>1, OwnBodyKeeps
  <2> QED
    BY <2>4, <2>5
<1>5. CASE Call(f) /\ HasFlag(f, "once")
  <2>1. /\ WithoutBlock(node("once")) \in Node
        /\ WithoutBlock(node("once")).flags = body[f].flags \ {"once"}
        /\ WellFormed(body[f]) => WellFormed(WithoutBlock(node("once")))
    BY <1>1, Bodies
  <2>2. /\ SetBody(f, WithoutBlock(node("once")))
        /\ asked' = [asked EXCEPT ![f] = asked[f] \ {"once"}]
        /\ mixed' = mixed /\ stops' \in BOOLEAN
    BY <1>5, Zenon DEF Call
  <2>3. asked[f] \ {"once"} \in SUBSET Flags
    BY <1>1
  <2>4. body' = [ChangeBody(f, body[f]) EXCEPT ![f] = WithoutBlock(node("once"))] /\ shares' = Alone(f)
    BY <2>2, SetBodyIsOwn
  <2> QED
    BY <1>1, <1>2, <2>1, <2>2, <2>3, <2>4, OwnBodyKeeps
<1>6. CASE Call(f) /\ ~HasFlag(f, "once")
  <2>1. stops' \in BOOLEAN /\ UNCHANGED <<body, shares, mixed>>
            /\ asked' = [asked EXCEPT ![f] = asked[f] \ {"once"}]
    BY <1>6, Zenon DEF Call
  <2>2. f \notin mixed => asked' = asked
    <3>1. f \notin mixed => asked[f] \ {"once"} = asked[f]
      BY <1>2, <1>6 DEF HasFlag, WellFormed
    <3> QED
      BY <2>1, <3>1 DEF IInv, Types
  <2>3. asked' \in [Functions -> SUBSET Flags]
    BY <1>1, <2>1 DEF IInv, Types
  <2>4. Types'
    BY <2>1, <2>3, Zenon DEF IInv, Types
  <2>5. FlagsAsAsked'
    BY <2>1, <2>2 DEF IInv, Types, FlagsAsAsked
  <2>6. Shared' /\ SharedIsPlain' /\ BlocksForFlags'
    BY <2>1 DEF IInv, Shared, SharedIsPlain, BlocksForFlags, WellFormed
  <2> QED
    BY <2>4, <2>5, <2>6 DEF IInv
<1> QED
  BY <1>3, <1>4, <1>5, <1>6

(* A copy of a flagged closure is the one way to share a flag.             *)
LEMMA CopyKeeps ==
    ASSUME IInv, NEW f \in Functions, NEW g \in Functions, Copy(f, g)
    PROVE  IInv'
<1> USE DEF IInv, Types
<1> DEFINE both == shares[f] \cup {g}
<1>1. /\ f # g /\ stops' = stops
      /\ \A h \in Functions : body'[h] = IF h = g THEN body[f] ELSE body[h]
      /\ \A h \in Functions : h \in both => shares'[h] = both
      /\ \A h \in Functions : h \notin both => shares'[h] = shares[h] \ {g}
      /\ \A h \in Functions : asked'[h] = IF h = g THEN {} ELSE asked[h]
  BY DEF Copy, With
<1>2. mixed' = IF f \in mixed \/ body[f].flags # {} THEN mixed \cup {f, g} ELSE mixed \ {g}
  BY DEF Copy
<1>3. Types'
  <2>1. body' \in [Functions -> Node]
    BY DEF Copy
  <2>2. shares' \in [Functions -> SUBSET Functions]
    BY DEF Copy, With
  <2>3. asked' \in [Functions -> SUBSET Flags]
    BY DEF Copy
  <2>4. mixed' \subseteq Functions
    BY <1>2
  <2> QED
    BY <1>1, <2>1, <2>2, <2>3, <2>4, Zenon
<1>4. \A h \in Functions : h \in shares[f] => shares[h] = shares[f] /\ body[h] = body[f]
  BY DEF Shared
<1>5. \A h, i \in Functions : h \in shares[i] => (i \in shares[f] <=> h \in shares[f])
  BY DEF Shared
<1>6. Shared'
  <2>1. \A h \in Functions : h \in shares'[h]
    BY <1>1 DEF Shared
  <2>2. ASSUME NEW h \in Functions, NEW i \in shares'[h]
        PROVE  shares'[i] = shares'[h] /\ body'[i] = body'[h]
    <3>1. CASE h \in both
      <4>1. i \in both /\ i \in Functions
        BY <1>1, <2>2, <3>1
      <4>2. \A j \in both : body'[j] = body[f]
        BY <1>1, <1>4
      <4> QED
        BY <1>1, <3>1, <4>1, <4>2
    <3>2. CASE h \notin both
      <4>1. i \in Functions /\ i # g /\ i \in shares[h]
        BY <1>1, <2>2, <3>2
      <4>2. shares[i] = shares[h] /\ body[i] = body[h] /\ i \notin both
        BY <1>5, <3>2, <4>1 DEF Shared
      <4>3. shares'[h] = shares[h] \ {g} /\ shares'[i] = shares[i] \ {g}
        BY <1>1, <3>2, <4>1, <4>2
      <4>4. h # g /\ body'[h] = body[h] /\ body'[i] = body[i]
        BY <1>1, <3>2, <4>1
      <4> QED
        BY <4>2, <4>3, <4>4
    <3> QED
      BY <3>1, <3>2
  <2> QED
    BY <2>1, <2>2 DEF Shared
<1>7. CASE f \in mixed \/ body[f].flags # {}
  <2>1. \A h \in Functions \ mixed' : h \notin both /\ h \notin mixed
    BY <1>2, <1>4, <1>7 DEF SharedIsPlain, Shared
  <2>2. SharedIsPlain'
    <3> SUFFICES ASSUME NEW h \in Functions \ mixed', NEW i \in shares'[h]
                 PROVE  i \notin mixed' /\ (i # h => body'[h].flags = {})
      BY DEF SharedIsPlain
    <3>1. h \notin mixed /\ h # g /\ i \in shares[h] /\ i # g
      BY <1>1, <2>1
    <3>2. i # f
      BY <1>5, <2>1, <3>1 DEF Shared
    <3> QED
      BY <1>1, <1>2, <3>1, <3>2 DEF SharedIsPlain
  <2>3. FlagsAsAsked' /\ BlocksForFlags'
    BY <1>1, <2>1 DEF FlagsAsAsked, BlocksForFlags, WellFormed
  <2> QED
    BY <1>3, <1>6, <2>2, <2>3
<1>8. CASE ~(f \in mixed \/ body[f].flags # {})
  <2>1. mixed' = mixed \ {g} /\ f \notin mixed /\ body[f].flags = {} /\ WellFormed(body[f])
    BY <1>2, <1>8 DEF BlocksForFlags
  <2>2. SharedIsPlain'
    <3> SUFFICES ASSUME NEW h \in Functions \ mixed', NEW i \in shares'[h]
                 PROVE  i \notin mixed' /\ (i # h => body'[h].flags = {})
      BY DEF SharedIsPlain
    <3>1. CASE h \in both
      BY <1>1, <1>4, <2>1, <3>1 DEF SharedIsPlain
    <3>2. CASE h \notin both
      BY <1>1, <2>1, <3>2 DEF SharedIsPlain
    <3> QED
      BY <3>1, <3>2
  <2>3. FlagsAsAsked'
    BY <1>1, <2>1 DEF FlagsAsAsked
  <2>4. \A h \in Functions \ mixed' : WellFormed(body'[h])
    BY <1>1, <2>1 DEF BlocksForFlags
  <2> QED
    BY <1>3, <1>6, <2>2, <2>3, <2>4 DEF BlocksForFlags, WellFormed
<1> QED
  BY <1>7, <1>8

LEMMA StepKeeps == IInv /\ [Next]_vars => IInv'
<1> SUFFICES ASSUME IInv, [Next]_vars PROVE IInv'
  OBVIOUS
<1>1. CASE UNCHANGED vars
  BY <1>1 DEF vars, IInv, Types, Shared, SharedIsPlain, FlagsAsAsked, BlocksForFlags, WellFormed
<1>2. ASSUME NEW f \in Functions, CallUndebugged(f) PROVE IInv'
  <2>1. stops' \in BOOLEAN /\ UNCHANGED <<body, shares, asked, mixed>>
    BY <1>2, Zenon DEF CallUndebugged
  <2>2. Types'
    BY <2>1, Zenon DEF IInv, Types
  <2> QED
    BY <2>1, <2>2 DEF IInv, Shared, SharedIsPlain, FlagsAsAsked, BlocksForFlags, WellFormed
<1> QED
  BY <1>1, <1>2, FlagStepsKeep, CopyKeeps DEF Next

(* The invariant holds always.                                             *)
THEOREM Inductive == Spec => []IInv
<1>1. Spec => Init /\ [][Next]_vars
  BY PTL DEF Spec
<1> QED
  BY <1>1, Start, StepKeeps, PTL

(* However debug, undebug, debugonce and calls follow each other, what is  *)
(* left without a flag is the body that was written.                       *)
THEOREM AlwaysBodiesComeBack == Spec => []BodiesComeBack
<1>1. IInv => BodiesComeBack
  <2> SUFFICES ASSUME IInv, NEW f \in Functions \ mixed, asked[f] = {}
               PROVE  body[f] = Written(body[f].of)
    BY DEF BodiesComeBack
  <2>1. body[f] \in Node /\ body[f].flags = {} /\ WellFormed(body[f])
    BY DEF IInv, Types, FlagsAsAsked, BlocksForFlags
  <2>2. body[f].generated = FALSE /\ body[f].block = (body[f].of \in Blocks)
    BY <2>1 DEF WellFormed, Node
  <2> QED
    BY <2>1, <2>2 DEF Written, Node
<1> QED
  BY <1>1, Inductive, PTL

(* Calls stop exactly where a flag asks for it.                            *)
THEOREM AlwaysStopsAsAsked == Spec => StopsAsAsked
<1>1. ASSUME IInv, NEW f \in Functions \ mixed
      PROVE  (Call(f) => (stops' <=> asked[f] # {})) /\ (IsDebugged(f) <=> "debug" \in asked[f])
  <2>1. /\ body[f] \in Node /\ body[f].flags = asked[f] /\ WellFormed(body[f])
        /\ asked[f] \subseteq Flags
    BY <1>1 DEF IInv, Types, FlagsAsAsked, BlocksForFlags
  <2>2. HasFlag(f, "debug") <=> "debug" \in asked[f]
    BY <2>1 DEF HasFlag, WellFormed
  <2>3. HasFlag(f, "once") <=> "once" \in asked[f]
    BY <2>1 DEF HasFlag, WellFormed
  <2>4. asked[f] # {} <=> "debug" \in asked[f] \/ "once" \in asked[f]
    BY <2>1 DEF Flags
  <2>5. Call(f) => (stops' <=> HasFlag(f, "once") \/ HasFlag(f, "debug"))
    BY Zenon DEF Call
  <2> QED
    BY <2>2, <2>3, <2>4, <2>5 DEF IsDebugged
<1>2. IInv /\ [Next]_vars =>
          [\A f \in Functions \ mixed :
              /\ Call(f) => (stops' <=> asked[f] # {})
              /\ IsDebugged(f) <=> "debug" \in asked[f]]_vars
  BY <1>1
<1> QED
  BY <1>2, Inductive, PTL DEF Spec, StopsAsAsked
-----------------------------------------------------------------------------
(* Stepping.                                                               *)
Entries == [kind : CallKinds \cup {"run", "prompt"}, env : Envs \cup {Global}, was : BOOLEAN]

SteppingTypes ==
    /\ SteppingTypeOK /\ stack \in Seq(Entries) /\ Len(stack) <= MaxHeight

\* Runs are at the bottom and above prompts, prompts above statements.
StackShape ==
    /\ \A i \in 1..Len(stack) :
         /\ stack[i].kind = "run" <=> i = 1 \/ stack[i - 1].kind = "prompt"
         /\ stack[i].kind = "prompt" => stack[i - 1].kind \in {"run", "stepped"}
    /\ stopping # "no" => Top \in {"run", "stepped"}

\* No quiet call above the last run of the n oldest entries.
Loud(n) ==
    \A j \in 1..n : stack[j].kind = "quiet" => \E k \in j..n : stack[k].kind = "run"

\* The debugger is enabled as the stack says, and every entry will put back
\* what the stack says below it.
EnabledFits ==
    /\ \A i \in 1..Len(stack) :
         /\ stack[i].kind = "run" => (stack[i].was <=> i # 1)
         /\ stack[i].kind \in CallKinds => (stack[i].was <=> Loud(i - 1))
         /\ stack[i].kind = "prompt" => Loud(i)
    /\ Top = "none" => ~enabled
    /\ Top \in CallKinds \cup {"prompt"} => (enabled <=> Loud(Len(stack)))
    /\ stopping # "no" => enabled

\* contextsToStop holds no context above the limit of the command, and for each
\* of those that are left one of its environment that is not below it.
Limit == IF command = "STEP_OVER" THEN given ELSE given - 1
StepsFit ==
    /\ low <= Len(stack)
    /\ Busy /\ command \in {"STEP_OVER", "STEP_OUT"} =>
         /\ \A p \in toStop : p[2] <= Limit
         /\ \A i \in Contexts : i <= low /\ i <= Limit =>
                \E p \in toStop : p[1] = EnvAt(i) /\ p[2] >= i

AsksFit == asks \subseteq heard /\ (Busy /\ command \in {"PAUSE", "ABORT"} => command \in heard)

SteppingInv == SteppingTypes /\ StackShape /\ EnabledFits /\ StepsFit /\ AsksFit
-----------------------------------------------------------------------------
(* Least and greatest numbers.                                             *)
LEMMA Least ==
    ASSUME NEW S \in SUBSET Nat, S # {}
    PROVE  \E m \in S : \A i \in S : m <= i
<1> DEFINE below == {0..(m - 1) : m \in S}
<1>1. below \subseteq FiniteSubsetsOf(Nat) /\ below # {}
  <2>1. \A m \in S : 0..(m - 1) \subseteq Nat /\ IsFiniteSet(0..(m - 1))
    BY FS_Interval
  <2> QED
    BY <2>1 DEF FiniteSubsetsOf
<1>2. PICK B \in below : \A R \in below : ~(<<R, B>> \in StrictSubsetOrdering(Nat))
  <2> HIDE DEF below
  <2> QED
    BY <1>1, FS_StrictSubsetOrderingWellFounded, WFMin
<1>3. PICK m \in S : B = 0..(m - 1)
  BY <1>2
<1>4. ASSUME NEW i \in S, i < m PROVE FALSE
  <2> DEFINE R == 0..(i - 1)
  <2>1. i \in Nat /\ m \in Nat
    OBVIOUS
  <2>2. R \in below /\ R \subseteq Nat /\ B \subseteq Nat
    BY <1>3, <2>1
  <2>3. i \in B /\ i \notin R
    BY <1>3, <1>4, <2>1
  <2>4. R \subseteq B
    BY <1>3, <1>4, <2>1
  <2> HIDE DEF R, below
  <2> QED
    BY <1>2, <2>2, <2>3, <2>4 DEF StrictSubsetOrdering
<1> QED
  BY <1>4

LEMMA Greatest ==
    ASSUME NEW n \in Nat, NEW S \in SUBSET (1..n), S # {}
    PROVE  \E m \in S : \A i \in S : i <= m
<1> DEFINE T == {n - i : i \in S}
<1>1. T \in SUBSET Nat /\ T # {}
  <2>1. \A i \in S : n - i \in Nat
    OBVIOUS
  <2> QED
    BY <2>1
<1>2. PICK t \in T : \A u \in T : t <= u
  <2> HIDE DEF T
  <2> QED
    BY <1>1, Least
<1>3. PICK m \in S : t = n - m
  BY <1>2
<1>4. ASSUME NEW i \in S PROVE i <= m
  <2>1. n - i \in T
    OBVIOUS
  <2>2. n - m <= n - i
    BY <1>2, <1>3, <2>1
  <2> QED
    BY <2>2
<1> QED
  BY <1>4

LEMMA MaxIs ==
    ASSUME NEW S \in SUBSET Nat, NEW m \in S, \A i \in S : i <= m
    PROVE  Max(S) = m
<1>1. \A x \in S : (\A y \in S : x >= y) => x = m
  <2>1. ASSUME NEW x \in S, \A y \in S : x >= y PROVE x = m
    <3>1. x >= m /\ x <= m /\ x \in Nat /\ m \in Nat
      BY <2>1
    <3> QED
      BY <3>1
  <2> QED
    BY <2>1
<1>2. \A y \in S : m >= y
  OBVIOUS
<1> QED
  BY <1>1, <1>2 DEF Max

LEMMA MinOfOne == ASSUME NEW m \in Nat PROVE Min({m}) = m
BY DEF Min

-----------------------------------------------------------------------------
(* The stack.                                                              *)
LEMMA StackFacts ==
    ASSUME SteppingTypes
    PROVE  /\ Len(stack) \in Nat /\ Len(stack) \in 0..MaxHeight
           /\ \A i \in 1..Len(stack) :
                /\ stack[i] \in Entries
                /\ stack[i].kind \in {"stepped", "unstepped", "quiet", "run", "prompt"}
                /\ stack[i].was \in BOOLEAN
           /\ stack = <<>> <=> Len(stack) = 0
           /\ stack = <<>> => Top = "none"
           /\ stack # <<>> => Top = stack[Len(stack)].kind /\ Len(stack) \in 1..Len(stack)
<1>1. Len(stack) \in Nat /\ Len(stack) \in 0..MaxHeight
  BY SteppingAssumption DEF SteppingTypes
<1>2. \A i \in 1..Len(stack) : stack[i] \in Entries
  BY DEF SteppingTypes
<1>3. stack = <<>> <=> Len(stack) = 0
  BY DEF SteppingTypes
<1> QED
  BY <1>1, <1>2, <1>3 DEF Entries, CallKinds, Top

LEMMA BottomIs ==
    ASSUME SteppingTypes, NEW b \in 1..Len(stack), stack[b].kind = "run",
           \A j \in 1..Len(stack) : stack[j].kind = "run" => j <= b
    PROVE  Bottom = b
<1>1. DOMAIN stack = 1..Len(stack)
  BY DEF SteppingTypes
<1>2. Runs \in SUBSET Nat /\ b \in Runs /\ \A j \in Runs : j <= b
  BY <1>1, StackFacts DEF Runs
<1> QED
  BY <1>2, MaxIs DEF Bottom

LEMMA BottomFacts ==
    ASSUME SteppingTypes, StackShape, stack # <<>>
    PROVE  /\ Bottom \in 1..Len(stack) /\ stack[Bottom].kind = "run"
           /\ \A j \in 1..Len(stack) : stack[j].kind = "run" => j <= Bottom
<1>1. DOMAIN stack = 1..Len(stack) /\ Len(stack) \in Nat /\ 1 \in 1..Len(stack)
  BY StackFacts DEF SteppingTypes
<1>2. Runs \in SUBSET (1..Len(stack)) /\ Runs # {}
  BY <1>1 DEF Runs, StackShape
<1>3. PICK b \in Runs : \A j \in Runs : j <= b
  BY <1>1, <1>2, Greatest
<1>4. b \in 1..Len(stack) /\ stack[b].kind = "run"
      /\ \A j \in 1..Len(stack) : stack[j].kind = "run" => j <= b
  BY <1>1, <1>3 DEF Runs
<1>5. Bottom = b
  BY <1>4, BottomIs
<1> QED
  BY <1>4, <1>5

\* Above the innermost run there are calls, with a prompt on top of them at most.
LEMMA AboveBottom ==
    ASSUME SteppingTypes, StackShape, NEW i \in 1..Len(stack), i > Bottom, i < Len(stack)
    PROVE  stack[i].kind \in {"stepped", "unstepped", "quiet"}
<1>1. i + 1 \in 1..Len(stack) /\ i + 1 # 1 /\ (i + 1) - 1 = i
  BY StackFacts
<1>2. stack # <<>>
  BY StackFacts
<1>3. stack[i].kind # "run" /\ stack[i + 1].kind # "run"
  BY <1>1, <1>2, BottomFacts
<1>4. stack[i].kind # "prompt"
  BY <1>1, <1>3 DEF StackShape
<1> QED
  BY <1>3, <1>4, StackFacts

LEMMA TopContext ==
    ASSUME SteppingTypes, Busy
    PROVE  Max(Contexts) = Len(stack) /\ Len(stack) \in Contexts
<1>1. DOMAIN stack = 1..Len(stack) /\ Len(stack) \in 1..Len(stack) /\ Len(stack) \in Nat
  BY StackFacts DEF SteppingTypes, Busy, InLoop
<1>2. Contexts \in SUBSET Nat /\ Len(stack) \in Contexts /\ \A i \in Contexts : i <= Len(stack)
  BY <1>1, StackFacts DEF Contexts, Busy, InLoop
<1> QED
  BY <1>2, MaxIs

LEMMA LoudKept ==
    ASSUME NEW n \in Nat, \A i \in 1..n : stack'[i] = stack[i]
    PROVE  Loud(n)' <=> Loud(n)
BY DEF Loud


\* An entry is pushed.
LEMMA PushFacts ==
    ASSUME SteppingTypes, NEW e \in Entries, stack' = Append(stack, e)
    PROVE  /\ stack' \in Seq(Entries) /\ Len(stack') = Len(stack) + 1
           /\ stack'[Len(stack) + 1] = e
           /\ \A i \in 1..Len(stack) : stack'[i] = stack[i]
           /\ Top' = e.kind
<1>1. stack \in Seq(Entries) /\ Len(stack) \in Nat
  BY StackFacts DEF SteppingTypes
<1>2. stack' \in Seq(Entries) /\ Len(stack') = Len(stack) + 1
  BY <1>1
<1>3. stack'[Len(stack) + 1] = e
  BY <1>1
<1>4. \A i \in 1..Len(stack) : stack'[i] = stack[i]
  BY <1>1
<1>5. stack' # <<>>
  BY <1>1, <1>2
<1> QED
  BY <1>2, <1>3, <1>4, <1>5 DEF Top

LEMMA LoudPush ==
    ASSUME SteppingTypes, NEW e \in Entries, stack' = Append(stack, e), e.kind # "run"
    PROVE  (Loud(Len(stack)))' <=> Loud(Len(stack)) /\ e.kind # "quiet"
<1> DEFINE n == Len(stack)
<1>1. n \in Nat /\ Len(stack') = n + 1 /\ stack'[n + 1] = e
      /\ \A i \in 1..n : stack'[i] = stack[i]
  BY PushFacts, StackFacts
<1> HIDE DEF n
<1>2. ASSUME NEW j \in 1..n
      PROVE  (\E k \in j..n + 1 : stack'[k].kind = "run") <=> (\E k \in j..n : stack[k].kind = "run")
  <2>1. \A k \in j..n : k \in 1..n /\ k \in j..n + 1
    BY <1>1
  <2>2. \A k \in j..n + 1 : k = n + 1 \/ k \in j..n
    BY <1>1
  <2> QED
    BY <1>1, <2>1, <2>2
<1>3. (\E k \in n + 1..n + 1 : stack'[k].kind = "run") <=> FALSE
  BY <1>1
<1>4. \A j \in 1..n + 1 : j = n + 1 \/ j \in 1..n
  BY <1>1
<1>5. \A j \in 1..n : j \in 1..n + 1
  BY <1>1
<1>6. n + 1 \in 1..n + 1
  BY <1>1
<1>7. (Loud(Len(stack)))' <=>
        \A j \in 1..n + 1 : stack'[j].kind = "quiet" => \E k \in j..n + 1 : stack'[k].kind = "run"
  BY <1>1 DEF Loud
<1>8. Loud(Len(stack)) <=>
        \A j \in 1..n : stack[j].kind = "quiet" => \E k \in j..n : stack[k].kind = "run"
  BY DEF Loud, n
<1>9. ASSUME (Loud(Len(stack)))' PROVE Loud(Len(stack)) /\ e.kind # "quiet"
  <2>1. ASSUME NEW j \in 1..n, stack[j].kind = "quiet" PROVE \E k \in j..n : stack[k].kind = "run"
    BY <1>1, <1>2, <1>5, <1>7, <1>9, <2>1
  <2>2. e.kind # "quiet"
    BY <1>1, <1>3, <1>6, <1>7, <1>9
  <2> QED
    BY <2>1, <2>2, <1>8
<1>10. ASSUME Loud(Len(stack)), e.kind # "quiet" PROVE (Loud(Len(stack)))'
  <2>1. ASSUME NEW j \in 1..n + 1, stack'[j].kind = "quiet"
        PROVE  \E k \in j..n + 1 : stack'[k].kind = "run"
    <3>1. j \in 1..n
      BY <1>1, <1>4, <1>10, <2>1
    <3> QED
      BY <1>1, <1>2, <1>8, <1>10, <2>1, <3>1
  <2> QED
    BY <2>1, <1>7
<1> QED
  BY <1>9, <1>10

\* A run, a call or a prompt is pushed, and `enabled` becomes what it says.
LEMMA PushKeeps ==
    ASSUME SteppingTypes, StackShape, EnabledFits,
           NEW e \in Entries, stack' = Append(stack, e), stopping' = "no",
           e.kind = "run" <=> InLoop,
           e.kind = "run" => e.was = enabled /\ enabled' = FALSE,
           e.kind \in CallKinds =>
               /\ Top = "run" => enabled
               /\ e.was = enabled /\ enabled' = (enabled /\ e.kind # "quiet"),
           e.kind = "prompt" => Top \in {"run", "stepped"} /\ enabled /\ enabled'
    PROVE  StackShape' /\ EnabledFits'
<1>. PICK n \in Nat : n = Len(stack)
  BY StackFacts
<1>1. n \in Nat /\ Len(stack') = n + 1 /\ stack'[n + 1] = e /\ Top' = e.kind
      /\ \A i \in 1..n : stack'[i] = stack[i]
  BY PushFacts, StackFacts
<1>2. /\ n = 0 => Top = "none" /\ stack = <<>>
      /\ n # 0 => Top = stack[n].kind /\ n \in 1..n
      /\ n # 0 => Top \in {"stepped", "unstepped", "quiet", "run", "prompt"}
  BY StackFacts
<1>3. e.kind \in {"stepped", "unstepped", "quiet", "run", "prompt"} /\ e.was \in BOOLEAN
  BY DEF Entries, CallKinds
<1>4. \A i \in 1..n + 1 : i = n + 1 \/ i \in 1..n
  BY <1>1
<1>5. \A i \in 1..n : i - 1 \in 0..n /\ (i # 1 => i - 1 \in 1..n)
  BY <1>1
<1>6. Top \in CallKinds \cup {"run"} => (enabled <=> Loud(n)) \/ Top = "run"
  BY DEF EnabledFits
<1>7. Top = "run" => Loud(n)
  <2> SUFFICES ASSUME Top = "run" PROVE Loud(n)
    OBVIOUS
  <2>1. n \in 1..n /\ stack[n].kind = "run"
    BY <1>2
  <2>2. \A j \in 1..n : n \in j..n
    BY <1>1
  <2> QED
    BY <2>1, <2>2 DEF Loud
<1>8. \A m \in 0..n : Loud(m)' <=> Loud(m)
  <2> SUFFICES ASSUME NEW m \in 0..n PROVE Loud(m)' <=> Loud(m)
    OBVIOUS
  <2>1. m \in Nat /\ \A i \in 1..m : stack'[i] = stack[i]
    BY <1>1
  <2> QED
    BY <2>1, LoudKept
<1>9. StackShape'
  <2>1. ASSUME NEW i \in 1..n + 1
        PROVE  /\ stack'[i].kind = "run" <=> i = 1 \/ stack'[i - 1].kind = "prompt"
               /\ stack'[i].kind = "prompt" => stack'[i - 1].kind \in {"run", "stepped"}
    <3>1. CASE i \in 1..n
      BY <1>1, <1>5, <3>1 DEF StackShape
    <3>2. CASE i = n + 1
      <4>1. n # 0 => stack'[i - 1].kind = Top /\ i # 1
        BY <1>1, <1>2, <3>2
      <4> QED
        BY <1>1, <1>2, <3>2, <4>1 DEF InLoop
    <3> QED
      BY <1>4, <3>1, <3>2
  <2> QED
    BY <1>1, <2>1 DEF StackShape
<1>10. \A i \in 1..n :
         /\ stack'[i].kind = "run" => (stack'[i].was <=> i # 1)
         /\ stack'[i].kind \in CallKinds => (stack'[i].was <=> Loud(i - 1)')
         /\ stack'[i].kind = "prompt" => Loud(i)'
  <2> SUFFICES ASSUME NEW i \in 1..n
        PROVE  /\ stack'[i].kind = "run" => (stack'[i].was <=> i # 1)
               /\ stack'[i].kind \in CallKinds => (stack'[i].was <=> Loud(i - 1)')
               /\ stack'[i].kind = "prompt" => Loud(i)'
    OBVIOUS
  <2>1. /\ stack[i].kind = "run" => (stack[i].was <=> i # 1)
        /\ stack[i].kind \in CallKinds => (stack[i].was <=> Loud(i - 1))
        /\ stack[i].kind = "prompt" => Loud(i)
    BY DEF EnabledFits
  <2>2. stack'[i] = stack[i] /\ i \in 0..n /\ i - 1 \in 0..n
    BY <1>1, <1>5
  <2>3. (Loud(i)' <=> Loud(i)) /\ (Loud(i - 1)' <=> Loud(i - 1))
    BY <1>8, <2>2
  <2> QED
    BY <2>1, <2>2, <2>3
<1>11. n \in 0..n
  BY <1>1
<1>12. CASE e.kind = "run"
  <2>1. n = 0 => e.was = FALSE /\ enabled = FALSE
    BY <1>2, <1>12, <1>3 DEF EnabledFits
  <2>2. n # 0 => Top = "prompt" /\ Loud(n) /\ enabled
    BY <1>2, <1>12 DEF EnabledFits, InLoop
  <2>3. e.was <=> n + 1 # 1
    BY <1>1, <1>12, <2>1, <2>2
  <2>4. \A i \in 1..n + 1 :
         /\ stack'[i].kind = "run" => (stack'[i].was <=> i # 1)
         /\ stack'[i].kind \in CallKinds => (stack'[i].was <=> Loud(i - 1)')
         /\ stack'[i].kind = "prompt" => Loud(i)'
    BY <1>1, <1>4, <1>10, <1>12, <2>3 DEF CallKinds
  <2> QED
    BY <1>1, <1>9, <1>12, <2>4 DEF EnabledFits, CallKinds
<1>13. CASE e.kind \in CallKinds
  <2>1. Top \notin {"none", "prompt"} /\ n # 0
    BY <1>2, <1>13 DEF InLoop, CallKinds
  <2>2. enabled <=> Loud(n)
    BY <1>2, <1>6, <1>7, <1>13, <2>1 DEF CallKinds
  <2>3. Loud(n)' <=> Loud(n)
    BY <1>8, <1>11
  <2>4. (Loud(Len(stack)))' <=> Loud(n) /\ e.kind # "quiet"
    BY <1>13, LoudPush DEF CallKinds
  <2>5. enabled' <=> (Loud(Len(stack)))'
    BY <1>13, <2>2, <2>4
  <2>6. \A i \in 1..n + 1 :
         /\ stack'[i].kind = "run" => (stack'[i].was <=> i # 1)
         /\ stack'[i].kind \in CallKinds => (stack'[i].was <=> Loud(i - 1)')
         /\ stack'[i].kind = "prompt" => Loud(i)'
    <3>1. (n + 1) - 1 = n
      BY <1>1
    <3> QED
      BY <1>1, <1>4, <1>10, <1>13, <2>2, <2>3, <3>1 DEF CallKinds
  <2> QED
    BY <1>1, <1>9, <1>13, <2>5, <2>6 DEF EnabledFits, CallKinds
<1>14. CASE e.kind = "prompt"
  <2>1. enabled <=> Loud(n)
    BY <1>6, <1>7, <1>14 DEF CallKinds
  <2>2. (Loud(Len(stack)))' <=> Loud(n) /\ e.kind # "quiet"
    BY <1>14, LoudPush
  <2>3. enabled' /\ (Loud(Len(stack)))' /\ Loud(n + 1)'
    <3>1. enabled' /\ (Loud(Len(stack)))'
      BY <1>14, <2>1, <2>2
    <3> QED
      BY <3>1, <1>1
  <2>4. \A i \in 1..n + 1 :
         /\ stack'[i].kind = "run" => (stack'[i].was <=> i # 1)
         /\ stack'[i].kind \in CallKinds => (stack'[i].was <=> Loud(i - 1)')
         /\ stack'[i].kind = "prompt" => Loud(i)'
    BY <1>1, <1>4, <1>10, <1>14, <2>3 DEF CallKinds
  <2> QED
    BY <1>1, <1>9, <1>14, <2>3, <2>4 DEF EnabledFits, CallKinds
<1> QED
  BY <1>3, <1>12, <1>13, <1>14 DEF CallKinds


\* The stack is cut.
LEMMA CutFacts ==
    ASSUME SteppingTypes, NEW h \in 0..(Len(stack) - 1), stack' = SubSeq(stack, 1, h)
    PROVE  /\ h \in Nat /\ h < Len(stack)
           /\ stack' \in Seq(Entries) /\ Len(stack') = h
           /\ \A i \in 1..h : stack'[i] = stack[i] /\ i \in 1..Len(stack)
           /\ h = 0 => Top' = "none"
           /\ h # 0 => Top' = stack[h].kind /\ h \in 1..h
<1>1. stack \in Seq(Entries) /\ Len(stack) \in Nat
  BY StackFacts DEF SteppingTypes
<1>2. h \in Nat /\ h < Len(stack)
  BY <1>1
<1>3. stack' \in Seq(Entries) /\ Len(stack') = h
  BY <1>1, <1>2
<1>4. \A i \in 1..h : stack'[i] = stack[i] /\ i \in 1..Len(stack)
  BY <1>1, <1>2
<1>5. stack' = <<>> <=> h = 0
  BY <1>2, <1>3
<1>6. h # 0 => h \in 1..h
  BY <1>2
<1> QED
  BY <1>2, <1>3, <1>4, <1>5, <1>6 DEF Top

LEMMA CutKeepsEntries ==
    ASSUME SteppingTypes, StackShape, EnabledFits,
           NEW h \in 0..(Len(stack) - 1), stack' = SubSeq(stack, 1, h), stopping' = "no"
    PROVE  /\ StackShape'
           /\ \A i \in 1..h :
                /\ stack'[i].kind = "run" => (stack'[i].was <=> i # 1)
                /\ stack'[i].kind \in CallKinds => (stack'[i].was <=> Loud(i - 1)')
                /\ stack'[i].kind = "prompt" => Loud(i)'
           /\ (Loud(Len(stack)))' <=> Loud(h)
<1>1. /\ h \in Nat /\ Len(stack') = h
      /\ \A i \in 1..h : stack'[i] = stack[i] /\ i \in 1..Len(stack)
  BY CutFacts
<1>2. \A i \in 1..h : i - 1 \in 0..h /\ i \in 0..h /\ (i # 1 => i - 1 \in 1..h)
  BY <1>1
<1>3. \A m \in 0..h : Loud(m)' <=> Loud(m)
  <2> SUFFICES ASSUME NEW m \in 0..h PROVE Loud(m)' <=> Loud(m)
    OBVIOUS
  <2>1. m \in Nat /\ \A i \in 1..m : stack'[i] = stack[i]
    BY <1>1
  <2> QED
    BY <2>1, LoudKept
<1>4. StackShape'
  <2>1. ASSUME NEW i \in 1..h
        PROVE  /\ stack'[i].kind = "run" <=> i = 1 \/ stack'[i - 1].kind = "prompt"
               /\ stack'[i].kind = "prompt" => stack'[i - 1].kind \in {"run", "stepped"}
    <3>1. /\ stack[i].kind = "run" <=> i = 1 \/ stack[i - 1].kind = "prompt"
          /\ stack[i].kind = "prompt" => stack[i - 1].kind \in {"run", "stepped"}
      BY <1>1 DEF StackShape
    <3>2. CASE i = 1
      BY <1>1, <3>1, <3>2
    <3>3. CASE i # 1
      BY <1>1, <1>2, <3>1, <3>3
    <3> QED
      BY <3>2, <3>3
  <2> QED
    BY <1>1, <2>1 DEF StackShape
<1>5. ASSUME NEW i \in 1..h
      PROVE  /\ stack'[i].kind = "run" => (stack'[i].was <=> i # 1)
             /\ stack'[i].kind \in CallKinds => (stack'[i].was <=> Loud(i - 1)')
             /\ stack'[i].kind = "prompt" => Loud(i)'
  <2>1. /\ stack[i].kind = "run" => (stack[i].was <=> i # 1)
        /\ stack[i].kind \in CallKinds => (stack[i].was <=> Loud(i - 1))
        /\ stack[i].kind = "prompt" => Loud(i)
    BY <1>1 DEF EnabledFits
  <2>2. (Loud(i)' <=> Loud(i)) /\ (Loud(i - 1)' <=> Loud(i - 1))
    BY <1>2, <1>3
  <2> QED
    BY <1>1, <2>1, <2>2
<1>6. (Loud(Len(stack)))' <=> Loud(h)
  <2>1. h \in 0..h
    BY <1>1
  <2>2. Loud(h)' <=> Loud(h)
    BY <1>3, <2>1
  <2>3. (Loud(Len(stack)))' <=> Loud(h)'
    BY <1>1
  <2> QED
    BY <2>2, <2>3
<1> QED
  BY <1>4, <1>5, <1>6

\* No run goes, and quiet calls that do put `enabled` back to what it was.
LEMMA CallsGo ==
    ASSUME SteppingTypes, StackShape, EnabledFits, Top # "run",
           NEW h \in 0..(Len(stack) - 1), h >= Bottom, stack # <<>>
    PROVE  LET quiet == {i \in DOMAIN stack : i > h /\ stack[i].kind = "quiet" /\ stack[i].was}
           IN  (enabled \/ quiet # {}) <=> Loud(h)
<1> DEFINE quiet == {i \in DOMAIN stack : i > h /\ stack[i].kind = "quiet" /\ stack[i].was}
<1>. PICK n \in Nat : n = Len(stack)
  BY StackFacts
<1>1. DOMAIN stack = 1..n /\ h \in Nat /\ h < n /\ n \in 1..n
  BY StackFacts DEF SteppingTypes
<1>2. /\ Bottom \in 1..n /\ \A j \in 1..n : stack[j].kind = "run" => j <= Bottom
  BY BottomFacts
<1>3. \A j \in 1..n : j > h => stack[j].kind # "run"
  <2> SUFFICES ASSUME NEW j \in 1..n, j > h, stack[j].kind = "run" PROVE FALSE
    OBVIOUS
  <2>1. j <= Bottom /\ j \in Nat /\ Bottom \in Nat
    BY <1>2
  <2> QED
    BY <2>1, <1>1
<1>4. enabled <=> Loud(n)
  BY <1>1, StackFacts DEF EnabledFits, CallKinds
\* Below a height above h, Loud is Loud(h) unless a quiet call is between.
<1>5. ASSUME NEW m \in h..n, Loud(m) PROVE Loud(h)
  <2> SUFFICES ASSUME NEW j \in 1..h, stack[j].kind = "quiet"
               PROVE  \E k \in j..h : stack[k].kind = "run"
    BY DEF Loud
  <2>1. j \in 1..m
    BY <1>1
  <2>2. PICK k \in j..m : stack[k].kind = "run"
    BY <1>5, <2>1 DEF Loud
  <2>3. k \in 1..n /\ k \in Nat /\ j \in Nat
    BY <1>1
  <2>4. k <= h
    BY <1>1, <1>3, <2>2, <2>3
  <2> QED
    BY <2>2, <2>3, <2>4
<1>6. ASSUME NEW m \in h..n, Loud(h), \A j \in 1..n : j > h /\ j <= m => stack[j].kind # "quiet"
      PROVE  Loud(m)
  <2> SUFFICES ASSUME NEW j \in 1..m, stack[j].kind = "quiet"
               PROVE  \E k \in j..m : stack[k].kind = "run"
    BY DEF Loud
  <2>1. j \in 1..n /\ j \in Nat /\ j <= m /\ m \in Nat
    BY <1>1
  <2>2. j \in 1..h
    BY <1>1, <1>6, <2>1
  <2>3. PICK k \in j..h : stack[k].kind = "run"
    BY <1>6, <2>2 DEF Loud
  <2>4. k \in j..m
    BY <1>1, <2>1
  <2> QED
    BY <2>3, <2>4
<1>7. \A i \in 1..n : stack[i].kind = "quiet" => (stack[i].was <=> Loud(i - 1))
  BY DEF EnabledFits, CallKinds
<1>8. ASSUME enabled \/ quiet # {} PROVE Loud(h)
  <2>1. CASE enabled
    <3>1. n \in h..n
      BY <1>1
    <3> QED
      BY <1>4, <1>5, <2>1, <3>1
  <2>2. CASE quiet # {}
    <3>1. PICK i \in 1..n : i > h /\ stack[i].kind = "quiet" /\ stack[i].was
      BY <1>1, <2>2
    <3>2. PICK m \in Nat : m = i - 1
      BY <3>1
    <3>3. Loud(m) /\ m \in h..n
      BY <1>1, <1>7, <3>1, <3>2
    <3> QED
      BY <1>5, <3>3
  <2> QED
    BY <1>8, <2>1, <2>2
<1>9. ASSUME Loud(h), ~enabled PROVE quiet # {}
  <2> DEFINE S == {i \in 1..n : i > h /\ stack[i].kind = "quiet"}
  <2>1. S # {}
    <3> SUFFICES ASSUME S = {} PROVE FALSE
      OBVIOUS
    <3>1. \A j \in 1..n : j > h /\ j <= n => stack[j].kind # "quiet"
      OBVIOUS
    <3>2. n \in h..n
      BY <1>1
    <3> QED
      BY <1>4, <1>6, <1>9, <3>1, <3>2
  <2>2. S \in SUBSET Nat
    OBVIOUS
  <2>3. PICK i \in S : \A j \in S : i <= j
    <3> HIDE DEF S
    <3> QED
      BY <2>1, <2>2, Least
  <2>4. PICK m \in Nat : m = i - 1
    BY <2>2
  <2>5. m \in h..n
    BY <1>1, <2>4
  <2>6. \A j \in 1..n : j > h /\ j <= m => stack[j].kind # "quiet"
    BY <2>3, <2>4
  <2>7. Loud(m)
    BY <1>6, <1>9, <2>5, <2>6
  <2>8. stack[i].was
    BY <1>7, <2>4, <2>7
  <2> QED
    BY <1>1, <2>8
<1> QED
  BY <1>8, <1>9

\* The stack is unwound to what is below its innermost run, or higher.
LEMMA UnwindKeeps ==
    ASSUME SteppingTypes, StackShape, EnabledFits, stack # <<>>, stopping' = "no",
           NEW h \in 0..(Len(stack) - 1), h >= Bottom - 1, Unwind(h)
    PROVE  /\ StackShape' /\ EnabledFits'
           /\ enabled' \in BOOLEAN
           /\ h < Bottom => InLoop'
<1>1. /\ h \in Nat /\ h < Len(stack) /\ Len(stack') = h
      /\ \A i \in 1..h : stack'[i] = stack[i] /\ i \in 1..Len(stack)
      /\ h = 0 => Top' = "none"
      /\ h # 0 => Top' = stack[h].kind /\ h \in 1..h
  BY CutFacts DEF Unwind
<1>2. /\ StackShape'
      /\ \A i \in 1..h :
           /\ stack'[i].kind = "run" => (stack'[i].was <=> i # 1)
           /\ stack'[i].kind \in CallKinds => (stack'[i].was <=> Loud(i - 1)')
           /\ stack'[i].kind = "prompt" => Loud(i)'
      /\ (Loud(Len(stack)))' <=> Loud(h)
  BY CutKeepsEntries DEF Unwind
<1>3. /\ Bottom \in 1..Len(stack) /\ stack[Bottom].kind = "run"
      /\ \A j \in 1..Len(stack) : stack[j].kind = "run" => j <= Bottom
  BY BottomFacts
<1>4. Len(stack) \in Nat /\ Bottom \in Nat /\ DOMAIN stack = 1..Len(stack)
  BY <1>3, StackFacts DEF SteppingTypes
<1> DEFINE gone == {i \in DOMAIN stack : i > h}
           lost == {i \in gone : stack[i].kind = "run"}
           quiet == {i \in gone : stack[i].kind = "quiet" /\ stack[i].was}
<1>5. enabled' = IF lost # {} THEN stack[Min(lost)].was ELSE enabled \/ quiet # {}
  BY DEF Unwind
<1>6. CASE h < Bottom
  <2>1. h = Bottom - 1
    BY <1>1, <1>4, <1>6
  <2>2. lost = {Bottom}
    <3>1. \A i \in 1..Len(stack) : i > h /\ stack[i].kind = "run" <=> i = Bottom
      BY <1>1, <1>3, <1>4, <2>1
    <3> QED
      BY <1>3, <1>4, <3>1
  <2>3. enabled' = stack[Bottom].was
    <3> HIDE DEF lost
    <3> QED
      BY <1>4, <1>5, <2>2, MinOfOne
  <2>4. stack[Bottom].was \in BOOLEAN /\ (stack[Bottom].was <=> Bottom # 1)
    BY <1>3, StackFacts DEF EnabledFits
  <2>5. CASE h = 0
    BY <1>1, <1>2, <2>1, <2>3, <2>4, <2>5, <1>4 DEF EnabledFits, CallKinds, InLoop
  <2>6. CASE h # 0
    <3>1. stack[h].kind = "prompt" /\ Bottom # 1
      BY <1>3, <1>4, <2>1, <2>6 DEF StackShape
    <3>2. Top' = "prompt" /\ enabled' = TRUE
      BY <1>1, <2>3, <2>4, <2>6, <3>1
    <3>3. Loud(h)
      BY <1>1, <2>6, <3>1 DEF EnabledFits
    <3> QED
      BY <1>1, <1>2, <3>2, <3>3 DEF EnabledFits, InLoop
  <2> QED
    BY <2>5, <2>6
<1>7. CASE h >= Bottom
  <2>1. lost = {}
    BY <1>1, <1>3, <1>4, <1>7
  <2>2. Top # "run"
    <3> SUFFICES ASSUME Top = "run" PROVE FALSE
      OBVIOUS
    <3>1. stack[Len(stack)].kind = "run" /\ Len(stack) \in 1..Len(stack)
      BY StackFacts
    <3> QED
      BY <1>1, <1>3, <1>4, <1>7, <3>1
  <2>3. (enabled \/ quiet # {}) <=> Loud(h)
    <3>1. quiet = {i \in DOMAIN stack : i > h /\ stack[i].kind = "quiet" /\ stack[i].was}
      OBVIOUS
    <3> HIDE DEF quiet
    <3> QED
      BY <1>7, <2>2, <3>1, CallsGo
  <2>4. enabled \in BOOLEAN
    BY DEF SteppingTypes, SteppingTypeOK
  <2>5. enabled' \in BOOLEAN /\ (enabled' <=> Loud(h))
    <3> HIDE DEF lost, quiet
    <3> QED
      BY <1>5, <2>1, <2>3, <2>4, Zenon
  <2>6. h # 0
    BY <1>1, <1>3, <1>7
  <2>7. Top' # "none"
    BY <1>1, <2>6, StackFacts
  <2> QED
    BY <1>1, <1>2, <1>4, <1>7, <2>5, <2>7 DEF EnabledFits
<1> QED
  BY <1>1, <1>4, <1>6, <1>7


\* The innermost run stays: nothing above it is a run.
LEMMA RunsAfterPush ==
    ASSUME SteppingTypes, NEW e \in Entries, stack' = Append(stack, e), e.kind # "run"
    PROVE  Runs' = Runs
<1>. PICK n \in Nat : n = Len(stack)
  BY StackFacts
<1>1. /\ Len(stack') = n + 1 /\ stack'[n + 1] = e
      /\ \A i \in 1..n : stack'[i] = stack[i]
      /\ DOMAIN stack' = 1..n + 1 /\ DOMAIN stack = 1..n
  BY PushFacts DEF SteppingTypes
<1>2. \A i : i \in 1..n + 1 <=> i \in 1..n \/ i = n + 1
  OBVIOUS
<1>3. n + 1 \notin 1..n
  OBVIOUS
<1> QED
  BY <1>1, <1>2, <1>3 DEF Runs

LEMMA RunsAfterCut ==
    ASSUME SteppingTypes, StackShape, stack # <<>>,
           NEW h \in 0..(Len(stack) - 1), h >= Bottom, stack' = SubSeq(stack, 1, h)
    PROVE  Runs' = Runs
<1>. PICK n \in Nat : n = Len(stack)
  BY StackFacts
<1>1. /\ Len(stack') = h /\ h \in Nat /\ h < n
      /\ \A i \in 1..h : stack'[i] = stack[i] /\ i \in 1..n
      /\ DOMAIN stack' = 1..h /\ DOMAIN stack = 1..n
  BY CutFacts DEF SteppingTypes
<1>2. Bottom \in 1..n /\ \A j \in 1..n : stack[j].kind = "run" => j <= Bottom
  BY BottomFacts
<1>3. \A i \in 1..n : stack[i].kind = "run" => i \in 1..h
  <2> SUFFICES ASSUME NEW i \in 1..n, stack[i].kind = "run" PROVE i \in 1..h
    OBVIOUS
  <2>1. i <= Bottom
    BY <1>2
  <2> QED
    BY <1>1, <1>2, <2>1
<1> QED
  BY <1>1, <1>3 DEF Runs

-----------------------------------------------------------------------------
(* Step commands.                                                          *)
LEMMA StepsKept ==
    ASSUME SteppingTypes, StepsFit, UNCHANGED <<command, toStop, given>>,
           stack' \in Seq(Entries), low' \in Nat, low' <= low, low' <= Len(stack'),
           \A i \in 1..low' : stack'[i] = stack[i],
           Busy' => Busy /\ Runs' = Runs
    PROVE  StepsFit'
<1>1. low \in Nat /\ low <= Len(stack) /\ Len(stack) \in Nat
  BY StackFacts, SteppingAssumption DEF StepsFit, SteppingTypes, SteppingTypeOK
<1>2. DOMAIN stack = 1..Len(stack) /\ DOMAIN stack' = 1..Len(stack')
  BY DEF SteppingTypes
<1>3. Limit' = Limit
  BY DEF Limit
<1>4. ASSUME Busy', command \in {"STEP_OVER", "STEP_OUT"}, NEW i \in Contexts',
             i <= low', i <= Limit'
      PROVE  \E p \in toStop' : p[1] = EnvAt(i)' /\ p[2] >= i
  <2>1. i \in 1..Len(stack') /\ stack'[i].kind # "prompt"
    BY <1>2, <1>4 DEF Contexts
  <2>2. i \in 1..low' /\ i \in 1..Len(stack) /\ i <= low
    BY <1>1, <1>4, <2>1
  <2>3. stack'[i] = stack[i]
    BY <2>2
  <2>4. i \in Contexts
    BY <1>2, <2>1, <2>2, <2>3 DEF Contexts
  <2>5. Bottom' = Bottom
    BY <1>4 DEF Bottom
  <2>6. EnvAt(i)' = EnvAt(i)
    BY <2>3, <2>5 DEF EnvAt
  <2>7. \E p \in toStop : p[1] = EnvAt(i) /\ p[2] >= i
    BY <1>3, <1>4, <2>2, <2>4 DEF StepsFit
  <2> QED
    BY <2>6, <2>7
<1>5. ASSUME Busy', command \in {"STEP_OVER", "STEP_OUT"} PROVE \A p \in toStop' : p[2] <= Limit'
  BY <1>3, <1>5 DEF StepsFit
<1> QED
  BY <1>4, <1>5 DEF StepsFit

\* What contextsToStop holds when the command is given at a prompt.
LEMMA StepsBegin ==
    ASSUME SteppingTypes, StackShape, Top = "prompt", NEW c \in {"STEP_OVER", "STEP_OUT"}
    PROVE  LET limit == IF c = "STEP_OVER" THEN Len(stack) - 1 ELSE Len(stack) - 2
           IN  /\ \A p \in ContextsToStop(c) : p[2] \in 1..Len(stack) /\ p[2] <= limit
               /\ \A i \in Contexts : i <= limit =>
                      \E p \in ContextsToStop(c) : p[1] = EnvAt(i) /\ p[2] >= i
<1>. PICK n \in Nat : n = Len(stack)
  BY StackFacts
<1>1. DOMAIN stack = 1..n /\ n \in 1..n /\ stack[n].kind = "prompt"
  BY StackFacts DEF SteppingTypes
<1>2. n # 1 /\ stack[n - 1].kind # "prompt"
  BY <1>1 DEF StackShape
<1>. PICK m \in Nat : m = n - 1
  BY <1>1
<1>3. m \in 1..n /\ m \in Contexts /\ Contexts \in SUBSET (1..m) /\ Contexts \in SUBSET Nat
  BY <1>1, <1>2 DEF Contexts
<1>4. Max(Contexts) = m
  BY <1>3, MaxIs
<1> DEFINE seen == IF c = "STEP_OUT" THEN Contexts \ {Max(Contexts)} ELSE Contexts
           limit == IF c = "STEP_OVER" THEN Len(stack) - 1 ELSE Len(stack) - 2
<1>5. \A i \in Contexts : i \in seen <=> i <= limit
  BY <1>3, <1>4
<1>6. seen \subseteq Contexts
  OBVIOUS
<1>7. ContextsToStop(c) = {<<EnvAt(i), i>> : i \in {j \in seen :
                                \A k \in seen : EnvAt(k) = EnvAt(j) => k <= j}}
  BY DEF ContextsToStop
<1>8. ASSUME NEW p \in ContextsToStop(c) PROVE p[2] \in 1..Len(stack) /\ p[2] <= limit
  <2>1. PICK i \in seen : p = <<EnvAt(i), i>>
    <3> HIDE DEF seen
    <3> QED
      BY <1>7
  <2>2. i \in Contexts /\ i <= limit /\ i \in 1..n
    <3> HIDE DEF seen, limit
    <3> QED
      BY <1>3, <1>5, <1>6
  <2> QED
    BY <2>1, <2>2
<1>9. ASSUME NEW i \in Contexts, i <= limit
      PROVE  \E p \in ContextsToStop(c) : p[1] = EnvAt(i) /\ p[2] >= i
  <2> HIDE DEF seen, limit
  <2> DEFINE same == {k \in seen : EnvAt(k) = EnvAt(i)}
  <2>1. i \in same /\ same \in SUBSET (1..m)
    BY <1>3, <1>5, <1>6, <1>9
  <2>2. PICK k \in same : \A j \in same : j <= k
    <3> HIDE DEF same
    <3> QED
      BY <2>1, Greatest
  <2>3. k \in seen /\ EnvAt(k) = EnvAt(i) /\ \A j \in seen : EnvAt(j) = EnvAt(k) => j <= k
    BY <2>2
  <2>4. <<EnvAt(k), k>> \in ContextsToStop(c)
    BY <1>7, <2>3
  <2>5. i <= k /\ i \in Nat /\ k \in Nat
    BY <2>1, <2>2
  <2> QED
    BY <2>3, <2>4, <2>5
<1> QED
  BY <1>8, <1>9


-----------------------------------------------------------------------------
(* Every step keeps the invariant.                                         *)
StepCommands == {"STEP_OVER", "STEP_OUT"}
AskCommands == {"PAUSE", "ABORT"}

LEMMA TypesOf ==
    ASSUME SteppingTypes
    PROVE  /\ enabled \in BOOLEAN /\ command \in Commands
           /\ \A p \in toStop : p[2] \in 1..MaxHeight
           /\ stopping \in {"no", "breakpoint", "command"}
           /\ tasks \in Seq({"run", "stop"})
           /\ asks \subseteq AskCommands /\ heard \subseteq AskCommands
           /\ given \in 0..MaxHeight /\ low \in 0..given /\ low \in Nat
BY SteppingAssumption DEF SteppingTypes, SteppingTypeOK, AskCommands

LEMMA EntriesTyped ==
    ASSUME NEW s \in Seq(Entries), NEW i \in DOMAIN s
    PROVE  /\ s[i].kind \in CallKinds \cup {"run", "prompt"}
           /\ s[i].env \in Envs \cup {Global} /\ s[i].was \in BOOLEAN
<1>1. s[i] \in Entries
  OBVIOUS
<1> QED
  BY <1>1 DEF Entries

LEMMA TypesAgain ==
    ASSUME stack' \in Seq(Entries), Len(stack') <= MaxHeight,
           enabled' \in BOOLEAN, command' \in Commands,
           \A p \in toStop' : p[2] \in 1..MaxHeight,
           stopping' \in {"no", "breakpoint", "command"}, tasks' \in Seq({"run", "stop"}),
           asks' \subseteq AskCommands, heard' \subseteq AskCommands,
           given' \in 0..MaxHeight, low' \in 0..given'
    PROVE  SteppingTypes'
<1>1. \A i \in DOMAIN stack' :
         /\ stack'[i].kind \in CallKinds \cup {"run", "prompt"}
         /\ stack'[i].env \in Envs \cup {Global} /\ stack'[i].was \in BOOLEAN
  BY EntriesTyped
<1> QED
  BY <1>1 DEF SteppingTypes, SteppingTypeOK, AskCommands

\* The stack stays as it is.
LEMMA SameStack ==
    ASSUME SteppingInv, UNCHANGED <<stack, given, low>>,
           enabled' \in BOOLEAN, command' \in Commands, toStop' = toStop,
           stopping' \in {"no", "breakpoint", "command"}, tasks' \in Seq({"run", "stop"}),
           asks' \subseteq AskCommands, heard' \subseteq AskCommands, asks' \subseteq heard',
           Top # "run" => enabled' = enabled,
           stopping' # "no" => Top \in {"run", "stepped"} /\ enabled',
           command' \in StepCommands => command' = command,
           Busy /\ command' \in AskCommands => command' \in heard'
    PROVE  SteppingInv'
<1>1. SteppingTypes /\ StackShape /\ EnabledFits /\ StepsFit
  BY DEF SteppingInv
<1>2. /\ Top' = Top /\ Runs' = Runs /\ Busy' = Busy
      /\ \A i : EnvAt(i)' = EnvAt(i)
      /\ Contexts' = Contexts /\ \A n : Loud(n)' <=> Loud(n)
  BY DEF Top, Runs, Busy, InLoop, Loud, EnvAt, Bottom, Contexts
<1>3. SteppingTypes'
  BY <1>1, TypesOf, TypesAgain DEF SteppingTypes
<1>4. StackShape'
  BY <1>1, <1>2 DEF StackShape
<1>5. EnabledFits'
  <2>1. \A i \in 1..Len(stack') :
         /\ stack'[i].kind = "run" => (stack'[i].was <=> i # 1)
         /\ stack'[i].kind \in CallKinds => (stack'[i].was <=> Loud(i - 1)')
         /\ stack'[i].kind = "prompt" => Loud(i)'
    BY <1>1, <1>2 DEF EnabledFits
  <2>2. Top = "none" => ~enabled'
    BY <1>1 DEF EnabledFits
  <2>3. Top \in CallKinds \cup {"prompt"} => (enabled' <=> Loud(Len(stack)))
    BY <1>1 DEF EnabledFits, CallKinds
  <2>4. (Loud(Len(stack)))' <=> Loud(Len(stack))
    BY <1>2
  <2> QED
    BY <1>2, <2>1, <2>2, <2>3, <2>4 DEF EnabledFits
<1>6. StepsFit'
  <2>1. CASE command' \in StepCommands
    <3>1. Limit' = Limit
      BY <2>1 DEF Limit
    <3> QED
      BY <1>1, <1>2, <2>1, <3>1 DEF StepsFit, StepCommands
  <2>2. CASE command' \notin StepCommands
    BY <1>1, <2>2 DEF StepsFit, StepCommands
  <2> QED
    BY <2>1, <2>2
<1>7. AsksFit'
  BY <1>2 DEF AsksFit, AskCommands
<1> QED
  BY <1>3, <1>4, <1>5, <1>6, <1>7 DEF SteppingInv

\* The stack is unwound, by an error, an abort or the end of what is on top.
LEMMA UnwindStep ==
    ASSUME SteppingInv, stack # <<>>, stopping' = "no",
           NEW h \in 0..(Len(stack) - 1), h >= Bottom - 1, Unwind(h),
           given' = given, toStop' = toStop, tasks' \in Seq({"run", "stop"}),
           command' \in Commands, asks' = asks, heard' \subseteq AskCommands,
           asks \subseteq heard',
           \/ command' = "CONTINUE"
           \/ command' = command /\ Busy /\ (h >= Bottom => heard' = heard)
    PROVE  SteppingInv'
<1>1. SteppingTypes /\ StackShape /\ EnabledFits /\ StepsFit /\ AsksFit
  BY DEF SteppingInv
<1>2. StackShape' /\ EnabledFits' /\ enabled' \in BOOLEAN /\ (h < Bottom => InLoop')
  BY <1>1, UnwindKeeps
<1>3. /\ stack' \in Seq(Entries) /\ Len(stack') = h /\ h \in Nat /\ h < Len(stack)
      /\ \A i \in 1..h : stack'[i] = stack[i]
  BY <1>1, CutFacts DEF Unwind
<1>4. Len(stack) \in Nat /\ Len(stack) <= MaxHeight /\ MaxHeight \in Nat
  BY <1>1, StackFacts, SteppingAssumption
<1>5. low' = IF h < low THEN h ELSE low
  BY DEF Unwind
<1>6. low \in Nat /\ given \in 0..MaxHeight /\ low \in 0..given
  BY <1>1, TypesOf
<1>7. low' \in Nat /\ low' <= low /\ low' <= h /\ low' \in 0..given
  BY <1>3, <1>4, <1>5, <1>6
<1>8. Bottom \in Nat
  BY <1>1, BottomFacts
<1>9. SteppingTypes'
  BY <1>1, <1>2, <1>3, <1>4, <1>6, <1>7, TypesOf, TypesAgain
<1>10. Busy' => h >= Bottom
  BY <1>2, <1>3, <1>8 DEF Busy
<1>11. StepsFit'
  <2>1. CASE command' = "CONTINUE"
    BY <1>3, <1>7, <2>1 DEF StepsFit
  <2>2. CASE command' = command /\ Busy
    <3>1. Busy' => Busy /\ Runs' = Runs
      BY <1>1, <1>10, <2>2, RunsAfterCut DEF Unwind
    <3>2. \A i \in 1..low' : stack'[i] = stack[i]
      BY <1>3, <1>7
    <3> QED
      BY <1>1, <1>3, <1>7, <2>2, <3>1, <3>2, StepsKept
  <2> QED
    BY <2>1, <2>2
<1>12. AsksFit'
  BY <1>1, <1>10 DEF AsksFit
<1> QED
  BY <1>2, <1>9, <1>11, <1>12 DEF SteppingInv

\* A run, a call or a prompt comes on top.
LEMMA PushStep ==
    ASSUME SteppingInv, NEW e \in Entries, stack' = Append(stack, e), stopping' = "no",
           Len(stack) < MaxHeight,
           UNCHANGED <<toStop, given, low, asks>>, enabled' \in BOOLEAN,
           tasks' \in Seq({"run", "stop"}), command' \in Commands,
           heard' \subseteq AskCommands, asks \subseteq heard',
           e.kind = "run" <=> InLoop,
           e.kind = "run" => e.was = enabled /\ enabled' = FALSE,
           e.kind \in CallKinds =>
               /\ Top = "run" => enabled
               /\ e.was = enabled /\ enabled' = (enabled /\ e.kind # "quiet"),
           e.kind = "prompt" => Top \in {"run", "stepped"} /\ enabled /\ enabled',
           \/ command' \in {"CONTINUE", "STEP_INTO"}
           \/ Busy /\ UNCHANGED <<command, heard>>
    PROVE  SteppingInv'
<1>1. SteppingTypes /\ StackShape /\ EnabledFits /\ StepsFit /\ AsksFit
  BY DEF SteppingInv
<1>2. StackShape' /\ EnabledFits'
  BY <1>1, PushKeeps
<1>3. /\ stack' \in Seq(Entries) /\ Len(stack') = Len(stack) + 1
      /\ \A i \in 1..Len(stack) : stack'[i] = stack[i]
  BY <1>1, PushFacts
<1>4. Len(stack) \in Nat /\ MaxHeight \in Nat
  BY <1>1, StackFacts, SteppingAssumption
<1>5. low \in Nat /\ low <= Len(stack)
  BY <1>1, TypesOf DEF StepsFit
<1>6. SteppingTypes'
  <2>1. Len(stack') <= MaxHeight
    BY <1>3, <1>4
  <2> QED
    BY <1>1, <1>3, <2>1, TypesOf, TypesAgain
<1>7. StepsFit'
  <2>1. low' <= Len(stack')
    BY <1>3, <1>4, <1>5
  <2>2. CASE command' \in {"CONTINUE", "STEP_INTO"}
    BY <2>1, <2>2 DEF StepsFit
  <2>3. CASE Busy /\ UNCHANGED <<command, heard>>
    <3>1. Runs' = Runs
      BY <1>1, <2>3, RunsAfterPush DEF Busy
    <3>2. \A i \in 1..low' : stack'[i] = stack[i]
      BY <1>3, <1>4, <1>5
    <3>3. low' \in Nat /\ low' <= low
      BY <1>5
    <3> QED
      BY <1>1, <1>3, <2>1, <2>3, <3>1, <3>2, <3>3, StepsKept
  <2> QED
    BY <2>2, <2>3
<1>8. AsksFit'
  BY <1>1 DEF AsksFit
<1> QED
  BY <1>2, <1>6, <1>7, <1>8 DEF SteppingInv


\* A command given at a prompt ends it.
LEMMA CommandGiven ==
    ASSUME SteppingInv, NEW c \in Commands \ AskCommands, ClientCommand(c)
    PROVE  SteppingInv'
<1>1. SteppingTypes /\ StackShape /\ EnabledFits /\ StepsFit /\ AsksFit
  BY DEF SteppingInv
<1>. PICK n \in Nat : n = Len(stack)
  BY <1>1, StackFacts
<1>2. Top = "prompt" /\ stack[n].kind = "prompt" /\ n \in 1..n /\ stack # <<>>
  BY <1>1, StackFacts DEF ClientCommand
<1>3. n # 1 /\ stack[n - 1].kind \in {"run", "stepped"}
  BY <1>1, <1>2 DEF StackShape
<1>. PICK h \in Nat : h = n - 1
  BY <1>2
<1>4. /\ h \in 0..(Len(stack) - 1) /\ stack' = SubSeq(stack, 1, h)
      /\ given' = h /\ low' = h /\ SetCommand(c)
      /\ UNCHANGED <<enabled, stopping, tasks, asks, count, heard>>
  BY <1>2 DEF ClientCommand
<1>5. /\ stack' \in Seq(Entries) /\ Len(stack') = h
      /\ \A i \in 1..h : stack'[i] = stack[i] /\ i \in 1..n
      /\ Top' = stack[h].kind /\ h \in 1..h
  BY <1>1, <1>2, <1>3, <1>4, CutFacts
<1>6. stopping = "no" /\ stopping' = "no"
  BY <1>1, <1>2, <1>4, TypesOf DEF StackShape
<1>7. /\ StackShape'
      /\ \A i \in 1..h :
           /\ stack'[i].kind = "run" => (stack'[i].was <=> i # 1)
           /\ stack'[i].kind \in CallKinds => (stack'[i].was <=> Loud(i - 1)')
           /\ stack'[i].kind = "prompt" => Loud(i)'
      /\ (Loud(Len(stack)))' <=> Loud(h)
  BY <1>1, <1>4, <1>6, CutKeepsEntries
<1>8. stack[h].kind \in {"run", "stepped"}
  BY <1>3
<1>9. enabled /\ Loud(n)
  BY <1>1, <1>2 DEF EnabledFits
<1>10. stack[h].kind = "stepped" => Loud(h)
  <2> SUFFICES ASSUME NEW j \in 1..h, stack[j].kind = "quiet"
               PROVE  \E k \in j..h : stack[k].kind = "run"
    BY DEF Loud
  <2>1. PICK k \in j..n : stack[k].kind = "run"
    BY <1>9 DEF Loud
  <2>2. k # n
    BY <1>2, <2>1
  <2>3. k \in j..h
    BY <2>2
  <2> QED
    BY <2>1, <2>3
<1>11. EnabledFits'
  BY <1>4, <1>5, <1>6, <1>7, <1>8, <1>9, <1>10 DEF EnabledFits, CallKinds
<1>12. Bottom \in Nat /\ h >= Bottom
  <2>1. Bottom \in 1..n /\ stack[Bottom].kind = "run"
    BY <1>1, <1>2, BottomFacts
  <2>2. Bottom # n
    BY <1>2, <2>1
  <2> QED
    BY <2>1, <2>2
<1>13. Runs' = Runs
  BY <1>1, <1>2, <1>4, <1>12, RunsAfterCut
<1>14. /\ DOMAIN stack = 1..n /\ DOMAIN stack' = 1..h
       /\ \A i \in 1..n : i = n \/ i \in 1..h
  BY <1>1, <1>5 DEF SteppingTypes
<1>15. Contexts' = Contexts
  BY <1>2, <1>5, <1>14 DEF Contexts
<1>16. \A i \in 1..h : EnvAt(i)' = EnvAt(i)
  BY <1>5, <1>13 DEF EnvAt, Bottom
<1>17. CASE c \in StepCommands
  <2>1. command' = c /\ toStop' = ContextsToStop(c)
    BY <1>4, <1>17 DEF SetCommand, StepCommands
  <2>2. LET limit == IF c = "STEP_OVER" THEN n - 1 ELSE n - 2
        IN  /\ \A p \in toStop' : p[2] \in 1..n /\ p[2] <= limit
            /\ \A i \in Contexts : i <= limit =>
                   \E p \in toStop' : p[1] = EnvAt(i) /\ p[2] >= i
    BY <1>1, <1>2, <1>17, <2>1, StepsBegin DEF StepCommands
  <2>3. Limit' = IF c = "STEP_OVER" THEN n - 1 ELSE n - 2
    BY <1>4, <2>1 DEF Limit
  <2>4. \A i \in Contexts : i \in 1..h
    BY <1>5, <1>14, <1>15 DEF Contexts
  <2>5. \A i \in Contexts' : i <= Limit' => \E p \in toStop' : p[1] = EnvAt(i)' /\ p[2] >= i
    BY <1>15, <1>16, <2>2, <2>3, <2>4
  <2>6. \A p \in toStop' : p[2] <= Limit'
    BY <2>2, <2>3
  <2>7. StepsFit'
    BY <1>4, <1>5, <2>5, <2>6 DEF StepsFit
  <2>8. AsksFit'
    BY <1>1, <1>4, <1>17, <2>1 DEF AsksFit, StepCommands
  <2>9. \A p \in toStop' : p[2] \in 1..MaxHeight
    BY <1>1, <2>2, SteppingAssumption DEF SteppingTypes
  <2>10. SteppingTypes'
    <3>1. h <= MaxHeight /\ given' \in 0..MaxHeight /\ low' \in 0..given'
      BY <1>1, <1>4, SteppingAssumption DEF SteppingTypes
    <3> QED
      BY <1>1, <1>4, <1>5, <2>1, <2>9, <3>1, TypesOf, TypesAgain
  <2> QED
    BY <1>7, <1>11, <2>7, <2>8, <2>10 DEF SteppingInv
<1>18. CASE c \notin StepCommands
  <2>1. command' = c /\ toStop' = toStop
    BY <1>4, <1>18 DEF SetCommand, StepCommands
  <2>2. StepsFit'
    BY <1>4, <1>5, <1>18, <2>1 DEF StepsFit, StepCommands
  <2>3. AsksFit'
    BY <1>1, <1>4, <2>1 DEF AsksFit, AskCommands
  <2>4. SteppingTypes'
    <3>1. h <= MaxHeight /\ given' \in 0..MaxHeight /\ low' \in 0..given'
      BY <1>1, <1>4, SteppingAssumption DEF SteppingTypes
    <3> QED
      BY <1>1, <1>4, <1>5, <2>1, <3>1, TypesOf, TypesAgain
  <2> QED
    BY <1>7, <1>11, <2>2, <2>3, <2>4 DEF SteppingInv
<1> QED
  BY <1>17, <1>18

\* An error or an abort goes no further than the innermost run.
LEMMA ThrowStep ==
    ASSUME SteppingInv, stack # <<>>, stopping' = "no",
           NEW h \in DOMAIN stack \cup {0}, Throw(h),
           given' = given, toStop' = toStop, tasks' \in Seq({"run", "stop"}),
           asks' = asks, command' = "CONTINUE" \/ (command' = command /\ Busy)
    PROVE  SteppingInv'
<1>1. SteppingTypes /\ StackShape /\ AsksFit
  BY DEF SteppingInv
<1>2. Bottom \in 1..Len(stack) /\ Len(stack) \in Nat
  BY <1>1, BottomFacts, StackFacts
<1>3. h \in 0..(Len(stack) - 1) /\ h >= Bottom - 1 /\ Unwind(h)
      /\ heard' = IF h < Bottom THEN asks ELSE heard
  BY <1>2 DEF Throw
<1>4. heard' \subseteq AskCommands /\ asks \subseteq heard' /\ (h >= Bottom => heard' = heard)
  BY <1>1, <1>2, <1>3, TypesOf DEF AsksFit
<1>5. command' \in Commands
  BY <1>1, TypesOf DEF Commands
<1> QED
  BY <1>3, <1>4, <1>5, UnwindStep

LEMMA SteppingStepKeeps == ASSUME SteppingInv, [SteppingNext]_steppingVars PROVE SteppingInv'
<1>1. SteppingTypes /\ StackShape /\ EnabledFits /\ StepsFit /\ AsksFit
  BY DEF SteppingInv
<1>2. /\ enabled \in BOOLEAN /\ command \in Commands
      /\ stopping \in {"no", "breakpoint", "command"} /\ tasks \in Seq({"run", "stop"})
      /\ asks \subseteq AskCommands /\ heard \subseteq AskCommands /\ asks \subseteq heard
  BY <1>1, TypesOf DEF AsksFit
<1>3. /\ stack = <<>> => Top = "none"
      /\ Busy \/ Top = "prompt" => stack # <<>>
      /\ Top \in {"none", "stepped", "unstepped", "quiet", "run", "prompt"}
      /\ stopping # "no" => enabled /\ Top \in {"run", "stepped"}
  <2>1. Top \in {"none", "stepped", "unstepped", "quiet", "run", "prompt"}
    BY <1>1, StackFacts
  <2> QED
    BY <1>1, <2>1, StackFacts DEF Busy, InLoop, EnabledFits, StackShape
<1>4. {"CONTINUE", "STEP_INTO"} \subseteq Commands /\ AskCommands \subseteq Commands
  BY DEF Commands, AskCommands
<1>5. tasks # <<>> => Tail(tasks) \in Seq({"run", "stop"})
  BY <1>2
<1>6. CASE StartRun
  <2>1. Run(enabled) \in Entries /\ Run(enabled).kind = "run" /\ Run(enabled).was = enabled
    BY <1>2 DEF Run, Entries
  <2>2. PICK c \in {"CONTINUE", "STEP_INTO"} : SetCommand(c)
    BY <1>6 DEF StartRun
  <2>3. command' = c /\ toStop' = toStop
    BY <2>2 DEF SetCommand
  <2>4. stopping = "no"
    BY <1>3, <1>6 DEF StartRun, InLoop
  <2> QED
    BY <1>2, <1>4, <1>5, <1>6, <2>1, <2>3, <2>4, PushStep DEF StartRun, CallKinds
<1>7. CASE StatementEnds
  <2>1. /\ UNCHANGED <<stack, command, toStop, stopping, tasks, asks, heard, given, low>>
        /\ enabled' = FALSE /\ Top = "run" /\ stopping = "no"
    BY <1>7 DEF StatementEnds, history
  <2>2. enabled' \in BOOLEAN /\ (Busy /\ command' \in AskCommands => command' \in heard')
    BY <1>1, <2>1 DEF AsksFit, AskCommands
  <2> QED
    BY <1>2, <2>1, <2>2, SameStack
<1>8. CASE RunEnds
  <2>1. Busy /\ stack # <<>> /\ stopping = "no"
    BY <1>3, <1>8 DEF RunEnds, Busy, InLoop
  <2>2. PICK n \in Nat : n = Len(stack)
    BY <1>1, StackFacts
  <2>3. n \in 1..n /\ stack[n].kind = "run"
    BY <1>1, <1>8, <2>1, <2>2, StackFacts DEF RunEnds
  <2>4. Bottom = n
    BY <1>1, <2>2, <2>3, BottomIs
  <2>5. n - 1 \in 0..(Len(stack) - 1) /\ n - 1 >= Bottom - 1 /\ ~(n - 1 >= Bottom)
    BY <2>2, <2>3, <2>4
  <2>6. Unwind(n - 1)
    BY <1>8, <2>2 DEF RunEnds
  <2> QED
    BY <1>2, <1>8, <2>1, <2>5, <2>6, UnwindStep DEF RunEnds
<1>9. CASE Error
  <2>1. PICK h \in DOMAIN stack \cup {0} : Throw(h)
    BY <1>9 DEF Error
  <2> QED
    BY <1>2, <1>3, <1>9, <2>1, ThrowStep DEF Error
<1>10. CASE Statement
  <2>1. stopping' \in {"no", "breakpoint", "command"} /\ enabled' = TRUE
    BY <1>10 DEF Statement
  <2>2. Busy /\ Top \in {"run", "stepped"} /\ (Top # "run" => enabled)
    BY <1>10 DEF Statement, AtStatement, Busy, InLoop
  <2>3. UNCHANGED <<stack, command, toStop, tasks, asks, heard, given, low>>
    BY <1>10 DEF Statement, history
  <2>4. enabled' \in BOOLEAN /\ (Busy /\ command' \in AskCommands => command' \in heard')
    BY <1>1, <2>1, <2>3 DEF AsksFit, AskCommands
  <2>5. Top # "run" => enabled' = enabled
    BY <1>2, <2>1, <2>2
  <2> QED
    BY <1>2, <2>1, <2>2, <2>3, <2>4, <2>5, SameStack
<1>11. CASE AbortStatement
  <2>1. PICK h \in DOMAIN stack \cup {0} : Throw(h)
    BY <1>11 DEF AbortStatement
  <2>2. command' = "CONTINUE" /\ toStop' = toStop
    BY <1>11 DEF AbortStatement, SetCommand
  <2>3. stack # <<>> /\ stopping = "no"
    BY <1>3, <1>11 DEF AbortStatement, AtStatement
  <2>4. stopping' = "no" /\ tasks' \in Seq({"run", "stop"}) /\ asks' = asks /\ given' = given
    BY <1>2, <1>11, <2>3 DEF AbortStatement
  <2> QED
    BY <2>1, <2>2, <2>3, <2>4, ThrowStep
<1>12. CASE Return
  <2>1. Busy /\ stack # <<>> /\ stopping = "no" /\ Top \in {"stepped", "unstepped", "quiet"}
    BY <1>3, <1>12 DEF Return, Busy, InLoop, CallKinds
  <2>2. PICK n \in Nat : n = Len(stack)
    BY <1>1, StackFacts
  <2>3. n \in 1..n /\ stack[n].kind # "run"
    BY <1>1, <2>1, <2>2, StackFacts
  <2>4. Bottom \in 1..n /\ Bottom # n
    BY <1>1, <2>1, <2>2, <2>3, BottomFacts
  <2>5. n - 1 \in 0..(Len(stack) - 1) /\ n - 1 >= Bottom - 1
    BY <2>2, <2>3, <2>4
  <2>6. Unwind(n - 1)
    BY <1>12, <2>2 DEF Return
  <2> QED
    BY <1>2, <1>12, <2>1, <2>5, <2>6, UnwindStep DEF Return
<1>13. CASE OpenPrompt
  <2>1. Prompt \in Entries /\ Prompt.kind = "prompt"
    BY DEF Prompt, Entries
  <2>2. command' = "CONTINUE" /\ toStop' = toStop
    BY <1>13 DEF OpenPrompt, SetCommand
  <2>3. /\ UNCHANGED <<enabled, tasks, asks, heard, given, low>> /\ stopping # "no"
        /\ stack' = Append(stack, Prompt) /\ stopping' = "no" /\ Len(stack) < MaxHeight
    BY <1>13 DEF OpenPrompt, history
  <2>4. enabled /\ enabled' /\ enabled' \in BOOLEAN /\ Top \in {"run", "stepped"} /\ ~InLoop
    BY <1>2, <1>3, <2>3 DEF InLoop
  <2>5. Prompt.kind \notin CallKinds \cup {"run"} /\ command' \in Commands
    BY <1>4, <2>1, <2>2 DEF CallKinds
  <2> QED
    BY <1>2, <2>1, <2>2, <2>3, <2>4, <2>5, PushStep
<1>14. CASE StopTask
  <2>1. tasks' \in Seq({"run", "stop"})
    BY <1>5, <1>14 DEF StopTask
  <2>2. CASE Top = "prompt"
    <3>1. PICK h \in DOMAIN stack \cup {0} : Throw(h)
      BY <1>14, <2>2 DEF StopTask
    <3>2. stopping = "no" /\ stack # <<>>
      BY <1>3, <2>2
    <3>3. /\ stopping' = "no" /\ toStop' = toStop /\ asks' = asks /\ given' = given
          /\ command' = "CONTINUE"
      BY <1>14, <2>2, <3>2 DEF StopTask
    <3> QED
      BY <2>1, <3>1, <3>2, <3>3, ThrowStep
  <2>3. CASE Top # "prompt"
    <3>1. UNCHANGED <<stack, enabled, command, low, heard, toStop, stopping, asks, count, given>>
      BY <1>14, <2>3 DEF StopTask
    <3> QED
      BY <1>1, <1>2, <1>3, <2>1, <3>1, SameStack DEF AsksFit, AskCommands
  <2> QED
    BY <2>2, <2>3
<1>15. CASE PostRun
  <2>1. Append(tasks, "run") \in Seq({"run", "stop"})
    BY <1>2
  <2> QED
    BY <1>1, <1>2, <1>3, <1>15, <2>1, SameStack DEF PostRun, AsksFit, AskCommands, debugger, history
<1>16. ASSUME NEW kind \in Kinds, NEW env \in Envs \cup {Global}, EnterCall(kind, env)
       PROVE  SteppingInv'
  <2>1. kind \in CallKinds
    BY SteppingAssumption DEF CallKinds
  <2> DEFINE e == [Context(kind, env) EXCEPT !.was = enabled]
  <2>2. e \in Entries /\ e.kind = kind /\ e.was = enabled
    BY <1>2, <2>1 DEF Context, Entries
  <2>3. stack' = Append(stack, e)
    BY <1>16 DEF EnterCall
  <2>4. kind \notin {"run", "prompt"}
    BY <2>1 DEF CallKinds
  <2>5. enabled' = (enabled /\ kind # "quiet") /\ enabled' \in BOOLEAN
    BY <1>16 DEF EnterCall
  <2>6. /\ UNCHANGED <<command, toStop, stopping, tasks, asks, heard, given, low>>
        /\ Busy /\ stopping = "no" /\ (Top = "run" => enabled) /\ Len(stack) < MaxHeight
    BY <1>16 DEF EnterCall, history
  <2> HIDE DEF e
  <2>7. ~InLoop
    BY <2>6 DEF Busy
  <2> QED
    BY <1>2, <2>1, <2>2, <2>3, <2>4, <2>5, <2>6, <2>7, PushStep
<1>17. ASSUME NEW c \in Commands \ {"PAUSE", "ABORT"}, ClientCommand(c) PROVE SteppingInv'
  BY <1>17, CommandGiven DEF AskCommands
<1>18. ASSUME NEW a \in {"PAUSE", "ABORT"}, Ask(a) PROVE SteppingInv'
  <2>1. tasks' \in Seq({"run", "stop"})
    <3>1. Append(tasks, "stop") \in Seq({"run", "stop"})
      BY <1>2
    <3> QED
      BY <1>2, <1>18, <3>1 DEF Ask
  <2>2. heard' = heard \cup {a} /\ asks' \subseteq asks \cup {a}
    BY <1>18 DEF Ask
  <2>3. heard' \subseteq AskCommands /\ asks' \subseteq AskCommands /\ asks' \subseteq heard'
    BY <1>2, <2>2 DEF AskCommands
  <2>4. UNCHANGED <<stack, enabled, command, toStop, stopping, given, low>>
    BY <1>18 DEF Ask, debugger
  <2>5. Busy /\ command' \in AskCommands => command' \in heard'
    BY <1>1, <2>2, <2>4 DEF AsksFit, AskCommands
  <2> QED
    BY <1>2, <1>3, <2>1, <2>3, <2>4, <2>5, SameStack
<1>19. ASSUME NEW a \in {"PAUSE", "ABORT"}, LateCommand(a) PROVE SteppingInv'
  <2>1. command' = a /\ toStop' = toStop /\ a \in asks /\ asks' = asks \ {a}
    BY <1>19 DEF LateCommand, SetCommand
  <2>2. command' \in Commands /\ command' \notin StepCommands /\ command' \in heard
    BY <1>2, <2>1 DEF StepCommands, Commands
  <2>3. UNCHANGED <<stack, enabled, stopping, tasks, count, history>>
    BY <1>19 DEF LateCommand
  <2> QED
    BY <1>2, <1>3, <2>1, <2>2, <2>3, SameStack DEF history
<1>20. CASE UNCHANGED steppingVars
  <2>1. UNCHANGED <<stack, enabled, command, toStop, stopping, tasks, asks, heard, given, low>>
    BY <1>20 DEF steppingVars, debugger, history
  <2>2. Busy /\ command' \in AskCommands => command' \in heard'
    BY <1>1, <2>1 DEF AsksFit, AskCommands
  <2> QED
    BY <1>2, <1>3, <2>1, <2>2, SameStack
<1> QED
  BY <1>6, <1>7, <1>8, <1>9, <1>10, <1>11, <1>12, <1>13, <1>14, <1>15, <1>16, <1>17, <1>18,
     <1>19, <1>20 DEF SteppingNext

\* However often runs nest, prompts open and stacks unwind, every entry, step
\* command and ask fits the stack.
THEOREM SteppingInvariance == SteppingSpec => []SteppingInv
<1>1. SteppingInit => SteppingInv
  <2> SUFFICES ASSUME SteppingInit PROVE SteppingInv
    OBVIOUS
  <2>1. stack = <<>> /\ Len(stack) = 0 /\ Top = "none" /\ stack \in Seq(Entries)
    BY DEF SteppingInit, Top
  <2>2. tasks \in Seq({"run", "stop"})
    BY DEF SteppingInit
  <2>3. SteppingTypes
    <3>1. given \in 0..MaxHeight /\ low \in 0..given /\ Len(stack) <= MaxHeight
      BY <2>1, SteppingAssumption DEF SteppingInit
    <3>2. DOMAIN stack = {} /\ toStop = {} /\ asks = {} /\ heard = {}
      BY <2>1 DEF SteppingInit
    <3>3. command \in Commands /\ stopping \in {"no", "breakpoint", "command"}
      BY DEF SteppingInit, Commands
    <3>4. enabled \in BOOLEAN
      BY DEF SteppingInit
    <3> QED
      BY <2>1, <2>2, <3>1, <3>2, <3>3, <3>4 DEF SteppingTypes, SteppingTypeOK
  <2>4. StackShape
    BY <2>1 DEF SteppingInit, StackShape
  <2>5. EnabledFits
    BY <2>1 DEF SteppingInit, EnabledFits, CallKinds
  <2>6. StepsFit /\ AsksFit
    BY <2>1 DEF SteppingInit, StepsFit, AsksFit
  <2> QED
    BY <2>3, <2>4, <2>5, <2>6 DEF SteppingInv
<1> QED
  BY <1>1, SteppingStepKeeps, PTL DEF SteppingSpec

\* A step command stops where it should, the debugger is enabled exactly where
\* the stack says so, and a pause or stop of the client reaches no later call,
\* for stacks of any height (doStep, setCommand, WithDebuggerEnabled,
\* debugCommandPause).
THEOREM SteppingIsSound == SteppingSpec => []SteppingFollowsTheStack
<1>1. SteppingInv => SteppingFollowsTheStack
  <2> SUFFICES ASSUME SteppingInv PROVE SteppingFollowsTheStack
    OBVIOUS
  <2>1. SteppingTypes /\ StackShape /\ EnabledFits /\ StepsFit /\ AsksFit
    BY DEF SteppingInv
  <2>. PICK n \in Nat : n = Len(stack)
    BY <2>1, StackFacts
  <2>2. AtStatement => Busy
    BY DEF AtStatement, Busy, InLoop
  <2>3. StepsStopWhereTheyShould
    <3> SUFFICES ASSUME AtStatement, command \in {"STEP_OVER", "STEP_OUT"}
                 PROVE  /\ CommandStops => Max(Contexts) <= Limit
                        /\ Max(Contexts) <= low /\ Max(Contexts) <= Limit => CommandStops
      BY DEF StepsStopWhereTheyShould, Limit
    <3>1. Max(Contexts) = n /\ n \in Contexts
      BY <2>1, <2>2, TopContext
    <3>2. /\ \A p \in toStop : p[2] <= Limit /\ p[2] \in Nat
          /\ \A i \in Contexts : i <= low /\ i <= Limit =>
                \E p \in toStop : p[1] = EnvAt(i) /\ p[2] >= i
      BY <2>1, <2>2, TypesOf DEF StepsFit
    <3>3. Limit \in Int
      BY <2>1, TypesOf DEF Limit
    <3>4. CommandStops <=> \E p \in toStop : p[1] = EnvAt(n) /\ p[2] >= n
      BY <3>1 DEF CommandStops
    <3>5. CommandStops => n <= Limit
      BY <3>2, <3>3, <3>4
    <3>6. n <= low /\ n <= Limit => CommandStops
      BY <3>1, <3>2, <3>4
    <3> QED
      BY <3>1, <3>5, <3>6
  <2>4. EnabledFitsStack
    <3>1. Top = "none" => ~enabled
      BY <2>1 DEF EnabledFits
    <3>2. Top = "prompt" => enabled
      <4> SUFFICES ASSUME Top = "prompt" PROVE enabled
        OBVIOUS
      <4>1. n \in 1..n /\ stack[n].kind = "prompt"
        BY <2>1, StackFacts
      <4> QED
        BY <2>1, <4>1 DEF EnabledFits
    <3>3. ASSUME Top \in CallKinds
          PROVE  enabled <=> \A i \in DOMAIN stack : i > Bottom => stack[i].kind # "quiet"
      <4>1. DOMAIN stack = 1..n /\ stack # <<>>
        BY <2>1, <3>3, StackFacts DEF SteppingTypes, CallKinds
      <4>2. /\ Bottom \in 1..n /\ stack[Bottom].kind = "run"
            /\ \A j \in 1..n : stack[j].kind = "run" => j <= Bottom
        BY <2>1, <4>1, BottomFacts
      <4>3. enabled <=> Loud(n)
        BY <2>1, <3>3 DEF EnabledFits
      <4>4. ASSUME Loud(n), NEW i \in 1..n, i > Bottom, stack[i].kind = "quiet" PROVE FALSE
        <5>1. PICK k \in i..n : stack[k].kind = "run"
          BY <4>4 DEF Loud
        <5>2. k \in 1..n /\ k >= i
          OBVIOUS
        <5> QED
          BY <4>2, <4>4, <5>1, <5>2
      <4>5. ASSUME \A i \in 1..n : i > Bottom => stack[i].kind # "quiet" PROVE Loud(n)
        <5> SUFFICES ASSUME NEW j \in 1..n, stack[j].kind = "quiet"
                     PROVE  \E k \in j..n : stack[k].kind = "run"
          BY DEF Loud
        <5>1. Bottom \in j..n
          BY <4>2, <4>5
        <5> QED
          BY <4>2, <5>1
      <4> QED
        BY <4>1, <4>3, <4>4, <4>5
    <3> QED
      BY <3>1, <3>2, <3>3 DEF EnabledFitsStack
  <2>5. AsksAreFresh
    BY <2>1, <2>2 DEF AsksFit, AsksAreFresh
  <2> QED
    BY <2>1, <2>3, <2>4, <2>5 DEF SteppingFollowsTheStack, SteppingTypes
<1> QED
  BY <1>1, SteppingInvariance, PTL

----------------------------------------------------------------------------
(* Vectors of breakpoints: what is in one once, or not at all.             *)
Occurs(s, x) == \E i \in 1..Len(s) : s[i] = x
Once(s, x) == \E i \in 1..Len(s) : s[i] = x /\ \A j \in 1..Len(s) : s[j] = x => j = i
Listed(s, x, yes) == IF yes THEN Once(s, x) ELSE ~Occurs(s, x)

LEMMA Counting ==
    ASSUME NEW S, NEW s \in Seq(S), NEW x, NEW yes \in BOOLEAN
    PROVE  Count(s, x) = (IF yes THEN 1 ELSE 0) <=> Listed(s, x, yes)
<1> DEFINE at == {i \in DOMAIN s : s[i] = x}
<1>1. DOMAIN s = 1..Len(s) /\ Len(s) \in Nat
  BY LenProperties
<1>2. IsFiniteSet(at)
  <2>1. IsFiniteSet(1..Len(s))
    BY <1>1, FS_Interval
  <2> QED
    BY <1>1, <2>1, FS_Subset
<1>3. Cardinality(at) = 0 <=> ~Occurs(s, x)
  <2>1. at = {} <=> ~Occurs(s, x)
    BY <1>1 DEF Occurs
  <2> QED
    BY <1>2, <2>1, FS_EmptySet
<1>4. Cardinality(at) = 1 <=> Once(s, x)
  <2>1. ASSUME NEW i, at = {i} PROVE Once(s, x)
    <3>1. i \in 1..Len(s) /\ s[i] = x /\ \A j \in 1..Len(s) : s[j] = x => j = i
      BY <1>1, <2>1
    <3> QED
      BY <3>1 DEF Once
  <2>2. ASSUME Once(s, x) PROVE \E i : at = {i}
    <3>1. PICK i \in 1..Len(s) : s[i] = x /\ \A j \in 1..Len(s) : s[j] = x => j = i
      BY <2>2 DEF Once
    <3>2. at = {i}
      BY <1>1, <3>1
    <3> QED
      BY <3>2
  <2> QED
    BY <1>2, <2>1, <2>2, FS_Singleton
<1> QED
  BY <1>3, <1>4 DEF Count, Listed

\* removeFromVector takes out the first of the cells that hold x.
LEMMA Removing ==
    ASSUME NEW S, NEW s \in Seq(S), NEW x
    PROVE  /\ ~Occurs(s, x) => RemoveFromVector(s, x) = s
           /\ Occurs(s, x) =>
                \E k \in 1..Len(s) :
                   /\ s[k] = x
                   /\ RemoveFromVector(s, x) \in Seq(S)
                   /\ Len(RemoveFromVector(s, x)) = Len(s) - 1
                   /\ \A i \in 1..Len(s) - 1 :
                         RemoveFromVector(s, x)[i] = s[IF i < k THEN i ELSE i + 1]
<1> DEFINE at == {i \in 1..Len(s) : s[i] = x}
           k == CHOOSE i \in at : \A j \in at : i <= j
           before == SubSeq(s, 1, k - 1)
           after == SubSeq(s, k + 1, Len(s))
<1>1. Len(s) \in Nat /\ \A i \in 1..Len(s) : s[i] \in S
  BY LenProperties, ElementOfSeq
<1>2. at = {} <=> ~Occurs(s, x)
  BY DEF Occurs
<1>3. CASE at = {}
  BY <1>2, <1>3 DEF RemoveFromVector
<1>4. CASE at # {}
  <2>1. k \in at
    <3>1. at \in SUBSET Nat
      BY <1>1
    <3> HIDE DEF at
    <3>2. \E i \in at : \A j \in at : i <= j
      BY <1>4, <3>1, Least
    <3> QED
      BY <3>2
  <2>2. RemoveFromVector(s, x) = before \o after
    BY <1>4 DEF RemoveFromVector
  <2> HIDE DEF k
  <2>3. k \in 1..Len(s) /\ s[k] = x
    BY <2>1
  <2>4. /\ before \in Seq(S) /\ Len(before) = k - 1
        /\ \A i \in 1..k - 1 : before[i] = s[i]
    <3>1. \A i \in 1..k - 1 : s[i] \in S
      BY <1>1, <2>3
    <3>2. k \in Int /\ k - 1 \in Int /\ 1 \in Int /\ k >= 1
      BY <1>1, <2>3
    <3> HIDE DEF before
    <3>3. /\ before \in Seq(S)
          /\ Len(before) = IF 1 <= k - 1 THEN k - 1 - 1 + 1 ELSE 0
          /\ \A i \in 1..k - 1 - 1 + 1 : before[i] = s[1 + i - 1]
      BY <3>1, <3>2, SubSeqProperties DEF before
    <3>4. k - 1 - 1 + 1 = k - 1 /\ \A i \in 1..k - 1 : 1 + i - 1 = i
      BY <3>2
    <3>5. Len(before) = k - 1
      BY <3>2, <3>3
    <3> QED
      BY <3>3, <3>4, <3>5
  <2>5. /\ after \in Seq(S) /\ Len(after) = Len(s) - k
        /\ \A i \in 1..Len(s) - k : after[i] = s[k + i]
    <3>1. \A i \in k + 1..Len(s) : s[i] \in S
      BY <1>1, <2>3
    <3>2. k + 1 \in Int /\ Len(s) \in Int /\ k \in Nat /\ k <= Len(s)
      BY <1>1, <2>3
    <3> HIDE DEF after
    <3>3. /\ after \in Seq(S)
          /\ Len(after) = IF k + 1 <= Len(s) THEN Len(s) - (k + 1) + 1 ELSE 0
          /\ \A i \in 1..Len(s) - (k + 1) + 1 : after[i] = s[k + 1 + i - 1]
      BY <3>1, <3>2, SubSeqProperties DEF after
    <3>4. Len(s) - (k + 1) + 1 = Len(s) - k /\ \A i \in 1..Len(s) - k : k + 1 + i - 1 = k + i
      BY <3>2
    <3>5. Len(after) = Len(s) - k
      BY <3>2, <3>3
    <3> QED
      BY <3>3, <3>4, <3>5
  <2> HIDE DEF before, after
  <2>6. /\ before \o after \in Seq(S) /\ Len(before \o after) = Len(s) - 1
        /\ \A i \in 1..Len(s) - 1 : (before \o after)[i] = s[IF i < k THEN i ELSE i + 1]
    <3>1. /\ before \o after \in Seq(S)
          /\ Len(before \o after) = Len(before) + Len(after)
          /\ \A i \in 1..Len(before) + Len(after) : (before \o after)[i] =
                IF i <= Len(before) THEN before[i] ELSE after[i - Len(before)]
      BY <2>4, <2>5, ConcatProperties
    <3>2. Len(before) + Len(after) = Len(s) - 1
      BY <1>1, <2>3, <2>4, <2>5
    <3>3. ASSUME NEW i \in 1..Len(s) - 1
          PROVE  (before \o after)[i] = s[IF i < k THEN i ELSE i + 1]
      <4>1. CASE i < k
        BY <1>1, <2>3, <2>4, <3>1, <3>2, <4>1
      <4>2. CASE i >= k
        <5>1. (before \o after)[i] = after[i - (k - 1)]
          BY <1>1, <2>3, <2>4, <3>1, <3>2, <4>2
        <5>2. i - (k - 1) \in 1..Len(s) - k
          BY <1>1, <2>3, <4>2
        <5>3. k + (i - (k - 1)) = i + 1
          BY <1>1, <2>3
        <5> QED
          BY <2>5, <4>2, <5>1, <5>2, <5>3, <2>3
      <4>3. i < k \/ i >= k
        BY <1>1, <2>3
      <4> QED
        BY <4>1, <4>2, <4>3
    <3> QED
      BY <3>1, <3>2, <3>3
  <2> QED
    BY <1>2, <1>4, <2>2, <2>3, <2>6
<1> QED
  BY <1>3, <1>4

\* The others stay as they are, and what was there once is gone.
LEMMA RemovingKeeps ==
    ASSUME NEW S, NEW s \in Seq(S), NEW x, Once(s, x) \/ ~Occurs(s, x)
    PROVE  /\ RemoveFromVector(s, x) \in Seq(S)
           /\ ~Occurs(RemoveFromVector(s, x), x)
           /\ \A y : y # x =>
                /\ Once(s, y) => Once(RemoveFromVector(s, x), y)
                /\ ~Occurs(s, y) => ~Occurs(RemoveFromVector(s, x), y)
<1>1. CASE ~Occurs(s, x)
  BY <1>1, Removing
<1>2. CASE Once(s, x)
  <2>1. Len(s) \in Nat
    BY LenProperties
  <2>2. Occurs(s, x)
    BY <1>2 DEF Once, Occurs
  <2> DEFINE r == RemoveFromVector(s, x)
  <2>3. PICK k \in 1..Len(s) :
          /\ s[k] = x
          /\ r \in Seq(S)
          /\ Len(r) = Len(s) - 1
          /\ \A i \in 1..Len(s) - 1 : r[i] = s[IF i < k THEN i ELSE i + 1]
    BY <2>2, Removing
  <2> HIDE DEF r
  <2>4. \A i \in 1..Len(s) : s[i] = x => i = k
    BY <1>2, <2>3 DEF Once
  <2>5. ~Occurs(r, x)
    <3> SUFFICES ASSUME NEW i \in 1..Len(s) - 1, r[i] = x PROVE FALSE
      BY <2>3 DEF Occurs
    <3>1. i \in 1..Len(s) /\ i + 1 \in 1..Len(s) /\ k \in Int
      BY <2>1
    <3>2. CASE i < k
      BY <2>3, <2>4, <3>1, <3>2
    <3>3. CASE i >= k
      BY <2>3, <2>4, <3>1, <3>3
    <3> QED
      BY <3>1, <3>2, <3>3
  <2>6. ASSUME NEW y, y # x, Once(s, y) PROVE Once(r, y)
    <3>1. PICK i \in 1..Len(s) : s[i] = y /\ \A j \in 1..Len(s) : s[j] = y => j = i
      BY <2>6 DEF Once
    <3>2. i # k
      BY <2>3, <2>6, <3>1
    <3>3. PICK n \in 1..Len(s) - 1 : (n < k /\ n = i) \/ (n >= k /\ n + 1 = i)
      <4>1. CASE i < k
        BY <2>1, <2>3, <4>1
      <4>2. CASE i > k
        <5>1. i - 1 \in 1..Len(s) - 1 /\ i - 1 >= k /\ (i - 1) + 1 = i
          BY <2>1, <2>3, <4>2
        <5> QED
          BY <5>1
      <4> QED
        BY <2>3, <3>2, <4>1, <4>2
    <3>4. r[n] = y
      BY <2>1, <2>3, <3>1, <3>3
    <3>5. \A j \in 1..Len(s) - 1 : r[j] = y => j = n
      <4> SUFFICES ASSUME NEW j \in 1..Len(s) - 1, r[j] = y PROVE j = n
        OBVIOUS
      <4>1. CASE j < k
        <5>1. s[j] = y /\ j \in 1..Len(s)
          BY <2>1, <2>3, <4>1
        <5> QED
          BY <2>1, <2>3, <3>1, <3>3, <4>1, <5>1
      <4>2. CASE j >= k
        <5>0. j + 1 \in 1..Len(s) /\ ~(j < k)
          BY <2>1, <2>3, <4>2
        <5>1. s[j + 1] = y /\ j + 1 \in 1..Len(s)
          BY <2>3, <5>0
        <5> QED
          BY <2>1, <2>3, <3>1, <3>3, <4>2, <5>1
      <4> QED
        BY <2>1, <2>3, <4>1, <4>2
    <3> QED
      BY <2>3, <3>4, <3>5 DEF Once
  <2>7. ASSUME NEW y, ~Occurs(s, y) PROVE ~Occurs(r, y)
    <3> SUFFICES ASSUME NEW i \in 1..Len(s) - 1, r[i] = y PROVE FALSE
      BY <2>3 DEF Occurs
    <3>1. (IF i < k THEN i ELSE i + 1) \in 1..Len(s)
      BY <2>1, <2>3, <2>4
    <3> QED
      BY <2>3, <2>7, <3>1 DEF Occurs
  <2> QED
    BY <2>3, <2>5, <2>6, <2>7 DEF r
<1> QED
  BY <1>1, <1>2

LEMMA AppendingKeeps ==
    ASSUME NEW S, NEW s \in Seq(S), NEW x \in S
    PROVE  /\ Append(s, x) \in Seq(S)
           /\ ~Occurs(s, x) => Once(Append(s, x), x)
           /\ \A y : y # x =>
                /\ Once(s, y) => Once(Append(s, x), y)
                /\ ~Occurs(s, y) => ~Occurs(Append(s, x), y)
<1>1. Len(s) \in Nat
  BY LenProperties
<1> DEFINE r == Append(s, x)
<1>2. /\ r \in Seq(S) /\ Len(r) = Len(s) + 1 /\ r[Len(s) + 1] = x
      /\ \A i \in 1..Len(s) : r[i] = s[i]
  BY AppendProperties
<1> HIDE DEF r
<1>3. \A i : i \in 1..Len(r) <=> i \in 1..Len(s) \/ i = Len(s) + 1
  BY <1>1, <1>2
<1>4. Len(s) + 1 \notin 1..Len(s)
  BY <1>1
<1>5. ~Occurs(s, x) => Once(r, x)
  BY <1>2, <1>3 DEF Occurs, Once
<1>6. ASSUME NEW y, y # x, Once(s, y) PROVE Once(r, y)
  BY <1>2, <1>3, <1>6 DEF Once
<1>7. ASSUME NEW y, y # x, ~Occurs(s, y) PROVE ~Occurs(r, y)
  BY <1>2, <1>3, <1>7 DEF Occurs
<1> QED
  BY <1>2, <1>5, <1>6, <1>7 DEF r

-----------------------------------------------------------------------------
(* Tables of breakpoints, while an operation changes them.                 *)
Tables == [Ids -> Breakpoint \cup {None}]
LiveIn(t) == {b \in Ids : t[b] # None}
Linked(t) ==
    /\ t \in Tables
    /\ \A m \in LiveIn(t), b \in Ids :
          Listed(t[m].slaves, b, b \in LiveIn(t) /\ t[b].master = m)
    /\ \A b \in LiveIn(t) : t[b].master \in LiveIn(t) \cup {None, PassedOver}

LEMMA LiveEntry ==
    ASSUME NEW t \in Tables, NEW b \in LiveIn(t)
    PROVE  b \in Ids /\ t[b] \in Breakpoint
BY DEF Tables, LiveIn

\* What setMasterBreakpoint makes of the fields.
LEMMA SetMasterFields ==
    ASSUME NEW t \in Tables, NEW b \in LiveIn(t), NEW m \in LiveIn(t) \cup {None},
           NEW leave \in BOOLEAN,
           t[b].master \in LiveIn(t) \cup {None, PassedOver},
           \A x \in LiveIn(t) : RemoveFromVector(t[x].slaves, b) \in Seq(Ids)
    PROVE  LET u == SetMaster(t, b, m, leave)
           IN  /\ u \in Tables /\ LiveIn(u) = LiveIn(t)
               /\ \A x \in LiveIn(t) :
                    /\ u[x].at = t[x].at /\ u[x].settings = t[x].settings
                    /\ u[x].master = IF x = b THEN m ELSE t[x].master
                    /\ u[x].masterWasHit => t[x].masterWasHit
                    /\ x # b => u[x].masterWasHit = t[x].masterWasHit
               /\ t[b].master = m => \A x \in LiveIn(t) : u[x].slaves = t[x].slaves
               /\ t[b].master # m => \A x \in LiveIn(t) :
                     u[x].slaves = IF x = t[b].master THEN RemoveFromVector(t[x].slaves, b)
                                   ELSE IF x = m THEN Append(t[x].slaves, b)
                                   ELSE t[x].slaves
<1> DEFINE old == t[b].master
           left == [t EXCEPT ![b].slaveLeaveEnabled = leave]
           apart == IF old \notin Ids THEN left
                    ELSE [left EXCEPT ![old].slaves = RemoveFromVector(@, b)]
           linked == [apart EXCEPT ![b].master = m, ![b].masterWasHit = FALSE]
           last == IF m = None THEN linked
                   ELSE [linked EXCEPT ![m].slaves = Append(@, b)]
<1>0. \A x \in LiveIn(t) : x \in Ids /\ t[x] \in Breakpoint /\ x # None
  BY LiveEntry, BreakpointsAssumption
<1>1. /\ left \in Tables /\ LiveIn(left) = LiveIn(t)
      /\ \A x \in LiveIn(t) :
            /\ left[x].at = t[x].at /\ left[x].settings = t[x].settings
            /\ left[x].master = t[x].master /\ left[x].slaves = t[x].slaves
            /\ left[x].masterWasHit = t[x].masterWasHit
  <2> DEFINE r == [t[b] EXCEPT !.slaveLeaveEnabled = leave]
  <2>1. /\ r \in Breakpoint /\ r.at = t[b].at /\ r.settings = t[b].settings
        /\ r.master = t[b].master /\ r.slaves = t[b].slaves
        /\ r.masterWasHit = t[b].masterWasHit
    BY <1>0 DEF Breakpoint
  <2>2. left = [t EXCEPT ![b] = r]
    BY DEF Tables
  <2> HIDE DEF r, left
  <2>3. left \in Tables /\ \A x \in Ids : left[x] = IF x = b THEN r ELSE t[x]
    BY <2>1, <2>2, LiveEntry DEF Tables
  <2>4. LiveIn(left) = LiveIn(t)
    BY <2>1, <2>2, <2>3, BreakpointsAssumption DEF LiveIn
  <2> QED
    BY <1>0, <2>1, <2>3, <2>4
<1>2. /\ apart \in Tables /\ LiveIn(apart) = LiveIn(t)
      /\ \A x \in LiveIn(t) :
            /\ apart[x].at = t[x].at /\ apart[x].settings = t[x].settings
            /\ apart[x].master = t[x].master
            /\ apart[x].slaves = IF x = old THEN RemoveFromVector(t[x].slaves, b) ELSE t[x].slaves
            /\ apart[x].masterWasHit = t[x].masterWasHit
  <2>1. CASE old \notin Ids
    BY <1>0, <1>1, <2>1
  <2>2. CASE old \in Ids
    <3> HIDE DEF left
    <3> DEFINE r == [left[old] EXCEPT !.slaves = RemoveFromVector(@, b)]
    <3>0. old \in LiveIn(t) /\ left[old] \in Breakpoint
      BY <1>1, <2>2, LiveEntry, BreakpointsAssumption
    <3>1. /\ r \in Breakpoint /\ r.at = t[old].at /\ r.settings = t[old].settings
          /\ r.master = t[old].master /\ r.slaves = RemoveFromVector(t[old].slaves, b)
          /\ r.masterWasHit = t[old].masterWasHit
      BY <1>1, <3>0 DEF Breakpoint
    <3>2. apart = [left EXCEPT ![old] = r]
      BY <2>2
    <3> HIDE DEF r, apart, old
    <3>3. apart \in Tables /\ \A x \in Ids : apart[x] = IF x = old THEN r ELSE left[x]
      BY <1>1, <3>0, <3>1, <3>2, LiveEntry DEF Tables
    <3>4. LiveIn(apart) = LiveIn(left)
      BY <1>1, <3>0, <3>1, <3>2, <3>3, BreakpointsAssumption DEF LiveIn
    <3> QED
      BY <1>0, <1>1, <3>1, <3>3, <3>4
  <2> QED
    BY <2>1, <2>2
<1>3. /\ linked \in Tables /\ LiveIn(linked) = LiveIn(t)
      /\ \A x \in LiveIn(t) :
            /\ linked[x].at = t[x].at /\ linked[x].settings = t[x].settings
            /\ linked[x].master = IF x = b THEN m ELSE t[x].master
            /\ linked[x].slaves = IF x = old THEN RemoveFromVector(t[x].slaves, b) ELSE t[x].slaves
            /\ linked[x].masterWasHit = IF x = b THEN FALSE ELSE t[x].masterWasHit
  <2> HIDE DEF apart
  <2> DEFINE r == [apart[b] EXCEPT !.master = m, !.masterWasHit = FALSE]
  <2>0. m \in Ids \cup {None} /\ apart[b] \in Breakpoint
    BY <1>0, <1>2, LiveEntry
  <2>1. /\ r \in Breakpoint /\ r.at = apart[b].at /\ r.settings = apart[b].settings
        /\ r.master = m /\ r.slaves = apart[b].slaves
        /\ r.masterWasHit = FALSE
    BY <2>0 DEF Breakpoint
  <2>2. linked = [apart EXCEPT ![b] = r]
    BY <1>0, <1>2 DEF Tables
  <2> HIDE DEF r, linked, old
  <2>3. linked \in Tables /\ \A x \in Ids : linked[x] = IF x = b THEN r ELSE apart[x]
    BY <1>2, <2>1, <2>2, LiveEntry DEF Tables
  <2>4. LiveIn(linked) = LiveIn(apart)
    BY <1>2, <2>1, <2>2, <2>3, BreakpointsAssumption DEF LiveIn
  <2>5. linked[b] = r /\ \A x \in LiveIn(t) : x # b => linked[x] = apart[x]
    BY <1>0, <2>3
  <2>6. linked \in Tables /\ LiveIn(linked) = LiveIn(t)
    BY <1>2, <2>3, <2>4
  <2> HIDE DEF apart
  <2>7. ASSUME NEW x \in LiveIn(t)
        PROVE  /\ linked[x].at = t[x].at /\ linked[x].settings = t[x].settings
               /\ linked[x].master = IF x = b THEN m ELSE t[x].master
               /\ linked[x].slaves = IF x = old THEN RemoveFromVector(t[x].slaves, b) ELSE t[x].slaves
               /\ linked[x].masterWasHit = IF x = b THEN FALSE ELSE t[x].masterWasHit
    <3>1. CASE x = b
      BY <1>2, <2>1, <2>5, <3>1
    <3>2. CASE x # b
      BY <1>2, <2>5, <3>2
    <3> QED
      BY <3>1, <3>2
  <2> QED
    BY <2>6, <2>7
<1>4. ASSUME old # m
      PROVE  /\ last \in Tables /\ LiveIn(last) = LiveIn(t)
             /\ \A x \in LiveIn(t) :
                  /\ last[x].at = t[x].at /\ last[x].settings = t[x].settings
                  /\ last[x].master = IF x = b THEN m ELSE t[x].master
                  /\ last[x].slaves = IF x = old THEN RemoveFromVector(t[x].slaves, b)
                                      ELSE IF x = m THEN Append(t[x].slaves, b)
                                      ELSE t[x].slaves
                  /\ last[x].masterWasHit = IF x = b THEN FALSE ELSE t[x].masterWasHit
  <2> HIDE DEF linked
  <2>1. CASE m = None
    BY <1>0, <1>3, <2>1
  <2>2. CASE m # None
    <3> DEFINE r == [linked[m] EXCEPT !.slaves = Append(@, b)]
    <3>0. m \in LiveIn(t) /\ linked[m] \in Breakpoint /\ b \in Ids
      BY <1>0, <1>3, <2>2, LiveEntry
    <3>1. /\ r \in Breakpoint /\ r.at = linked[m].at /\ r.settings = linked[m].settings
          /\ r.master = linked[m].master /\ r.slaves = Append(linked[m].slaves, b)
          /\ r.masterWasHit = linked[m].masterWasHit
      <4>1. linked[m].slaves \in Seq(Ids)
        BY <3>0 DEF Breakpoint
      <4>2. Append(linked[m].slaves, b) \in Seq(Ids)
        BY <3>0, <4>1, AppendProperties
      <4> QED
        BY <3>0, <4>2 DEF Breakpoint
    <3>2. last = [linked EXCEPT ![m] = r]
      BY <2>2
    <3> HIDE DEF r, last, old
    <3>3. last \in Tables /\ \A x \in Ids : last[x] = IF x = m THEN r ELSE linked[x]
      BY <1>3, <3>0, <3>1, <3>2, LiveEntry DEF Tables
    <3>4. LiveIn(last) = LiveIn(linked)
      BY <1>3, <3>0, <3>1, <3>2, <3>3, BreakpointsAssumption DEF LiveIn
    <3>5. ASSUME NEW x \in LiveIn(t)
          PROVE  /\ last[x].at = t[x].at /\ last[x].settings = t[x].settings
                 /\ last[x].master = IF x = b THEN m ELSE t[x].master
                 /\ last[x].slaves = IF x = old THEN RemoveFromVector(t[x].slaves, b)
                                     ELSE IF x = m THEN Append(t[x].slaves, b)
                                     ELSE t[x].slaves
                 /\ last[x].masterWasHit = IF x = b THEN FALSE ELSE t[x].masterWasHit
      <4>1. CASE x = m
        BY <1>0, <1>3, <1>4, <3>0, <3>1, <3>3, <4>1
      <4>2. CASE x # m
        BY <1>0, <1>3, <3>3, <4>2
      <4> QED
        BY <4>1, <4>2
    <3> QED
      BY <1>3, <3>3, <3>4, <3>5
  <2> QED
    BY <2>1, <2>2
<1>5. SetMaster(t, b, m, leave) = IF old = m THEN left ELSE last
  BY DEF SetMaster
<1> HIDE DEF left, apart, linked, last
<1>6. CASE old = m
  <2>1. SetMaster(t, b, m, leave) = left
    BY <1>5, <1>6
  <2> QED
    BY <1>0, <1>1, <1>6, <2>1
<1>7. CASE old # m
  <2>1. SetMaster(t, b, m, leave) = last
    BY <1>5, <1>7
  <2> QED
    BY <1>0, <1>4, <1>7, <2>1
<1> QED
  BY <1>6, <1>7

\* setMasterBreakpoint keeps the links in step.
SameButLinks(t, u) ==
    /\ LiveIn(u) = LiveIn(t)
    /\ \A x \in LiveIn(t) : /\ u[x].at = t[x].at /\ u[x].settings = t[x].settings
                            /\ u[x].masterWasHit => t[x].masterWasHit

LEMMA SetMasterKeeps ==
    ASSUME NEW t, Linked(t), NEW b \in LiveIn(t), NEW m \in LiveIn(t) \cup {None},
           NEW leave \in BOOLEAN
    PROVE  LET u == SetMaster(t, b, m, leave)
           IN  /\ Linked(u) /\ SameButLinks(t, u)
               /\ \A x \in LiveIn(t) : u[x].master = IF x = b THEN m ELSE t[x].master
               /\ t[b].master = m => \A x \in LiveIn(t) : u[x].slaves = t[x].slaves
               /\ t[b].master # m => \A x \in LiveIn(t) :
                     u[x].slaves = IF x = t[b].master THEN RemoveFromVector(t[x].slaves, b)
                                   ELSE IF x = m THEN Append(t[x].slaves, b)
                                   ELSE t[x].slaves
<1> DEFINE u == SetMaster(t, b, m, leave)
           old == t[b].master
<1>1. /\ t \in Tables /\ b \in Ids /\ old \in LiveIn(t) \cup {None, PassedOver}
      /\ \A x \in LiveIn(t) : x \in Ids /\ t[x].slaves \in Seq(Ids)
  BY LiveEntry DEF Linked, Breakpoint, LiveIn
<1>2. \A x \in LiveIn(t), y \in Ids :
         Listed(t[x].slaves, y, y \in LiveIn(t) /\ t[y].master = x)
  BY DEF Linked
<1>3. \A x \in LiveIn(t) :
        /\ RemoveFromVector(t[x].slaves, b) \in Seq(Ids)
        /\ ~Occurs(RemoveFromVector(t[x].slaves, b), b)
        /\ \A y : y # b =>
             /\ Once(t[x].slaves, y) => Once(RemoveFromVector(t[x].slaves, b), y)
             /\ ~Occurs(t[x].slaves, y) => ~Occurs(RemoveFromVector(t[x].slaves, b), y)
  <2> SUFFICES ASSUME NEW x \in LiveIn(t)
               PROVE  /\ RemoveFromVector(t[x].slaves, b) \in Seq(Ids)
                      /\ ~Occurs(RemoveFromVector(t[x].slaves, b), b)
                      /\ \A y : y # b =>
                           /\ Once(t[x].slaves, y) => Once(RemoveFromVector(t[x].slaves, b), y)
                           /\ ~Occurs(t[x].slaves, y) => ~Occurs(RemoveFromVector(t[x].slaves, b), y)
    OBVIOUS
  <2>1. Once(t[x].slaves, b) \/ ~Occurs(t[x].slaves, b)
    BY <1>1, <1>2 DEF Listed
  <2> QED
    BY <1>1, <2>1, RemovingKeeps
<1>4. /\ u \in Tables /\ LiveIn(u) = LiveIn(t)
      /\ \A x \in LiveIn(t) :
           /\ u[x].at = t[x].at /\ u[x].settings = t[x].settings
           /\ u[x].master = IF x = b THEN m ELSE t[x].master
           /\ u[x].masterWasHit => t[x].masterWasHit
      /\ old = m => \A x \in LiveIn(t) : u[x].slaves = t[x].slaves
      /\ old # m => \A x \in LiveIn(t) :
            u[x].slaves = IF x = old THEN RemoveFromVector(t[x].slaves, b)
                          ELSE IF x = m THEN Append(t[x].slaves, b)
                          ELSE t[x].slaves
  BY <1>1, <1>3, SetMasterFields
<1> HIDE DEF u, old
<1>5. ASSUME NEW x \in LiveIn(t), NEW y \in Ids
      PROVE  Listed(u[x].slaves, y, y \in LiveIn(t) /\ u[y].master = x)
  <2>1. Listed(t[x].slaves, y, y \in LiveIn(t) /\ t[y].master = x)
    BY <1>2
  <2>2. Listed(t[x].slaves, b, old = x)
    BY <1>1, <1>2 DEF old
  <2>3. u[b].master = m /\ (y \in LiveIn(t) /\ y # b => u[y].master = t[y].master)
    BY <1>4
  <2>4. CASE old = m
    <3>1. y \in LiveIn(t) => u[y].master = t[y].master
      BY <1>4, <2>4 DEF old
    <3> QED
      BY <1>4, <2>1, <2>4, <3>1
  <2>5. CASE old # m /\ x = old
    <3>1. u[x].slaves = RemoveFromVector(t[x].slaves, b)
      BY <1>4, <2>5
    <3>2. CASE y = b
      BY <1>3, <2>3, <2>5, <3>1, <3>2 DEF Listed
    <3>3. CASE y # b
      BY <1>3, <2>1, <2>3, <3>1, <3>3 DEF Listed
    <3> QED
      BY <3>2, <3>3
  <2>6. CASE old # m /\ x # old /\ x = m
    <3>1. u[x].slaves = Append(t[x].slaves, b)
      BY <1>4, <2>6
    <3>2. /\ ~Occurs(t[x].slaves, b) => Once(u[x].slaves, b)
          /\ \A z : z # b => /\ Once(t[x].slaves, z) => Once(u[x].slaves, z)
                             /\ ~Occurs(t[x].slaves, z) => ~Occurs(u[x].slaves, z)
      BY <1>1, <3>1, AppendingKeeps
    <3>3. CASE y = b
      BY <2>2, <2>3, <2>6, <3>2, <3>3 DEF Listed
    <3>4. CASE y # b
      BY <2>1, <2>3, <3>2, <3>4 DEF Listed
    <3> QED
      BY <3>3, <3>4
  <2>7. CASE old # m /\ x # old /\ x # m
    <3>1. u[x].slaves = t[x].slaves
      BY <1>4, <2>7
    <3>2. CASE y = b
      BY <2>2, <2>3, <2>7, <3>1, <3>2 DEF Listed
    <3>3. CASE y # b
      BY <2>1, <2>3, <3>1, <3>3 DEF Listed
    <3> QED
      BY <3>2, <3>3
  <2> QED
    BY <2>4, <2>5, <2>6, <2>7
<1>6. \A x \in LiveIn(t) : u[x].master \in LiveIn(t) \cup {None, PassedOver}
  BY <1>4 DEF Linked
<1>7. Linked(u) /\ SameButLinks(t, u)
  BY <1>4, <1>5, <1>6 DEF Linked, SameButLinks
<1> QED
  BY <1>4, <1>7 DEF u, old

\* A breakpoint loses its master.
LEMMA LetGoKeeps ==
    ASSUME NEW t, Linked(t), NEW b \in LiveIn(t)
    PROVE  LET u == SetMaster(t, b, None, FALSE)
           IN  /\ Linked(u) /\ SameButLinks(t, u)
               /\ \A x \in LiveIn(t) : u[x].master = IF x = b THEN None ELSE t[x].master
               /\ \A x \in LiveIn(t) : u[x].slaves \in {t[x].slaves, RemoveFromVector(t[x].slaves, b)}
<1> DEFINE u == SetMaster(t, b, None, FALSE)
<1>1. None \in LiveIn(t) \cup {None} /\ FALSE \in BOOLEAN
  OBVIOUS
<1>2. \A m \in LiveIn(t) \cup {None}, leave \in BOOLEAN :
         LET v == SetMaster(t, b, m, leave)
         IN  /\ Linked(v) /\ SameButLinks(t, v)
             /\ \A x \in LiveIn(t) : v[x].master = IF x = b THEN m ELSE t[x].master
             /\ t[b].master = m => \A x \in LiveIn(t) : v[x].slaves = t[x].slaves
             /\ t[b].master # m => \A x \in LiveIn(t) :
                   v[x].slaves = IF x = t[b].master THEN RemoveFromVector(t[x].slaves, b)
                                 ELSE IF x = m THEN Append(t[x].slaves, b)
                                 ELSE t[x].slaves
  BY SetMasterKeeps
<1>3. /\ Linked(u) /\ SameButLinks(t, u)
      /\ \A x \in LiveIn(t) : u[x].master = IF x = b THEN None ELSE t[x].master
      /\ t[b].master = None => \A x \in LiveIn(t) : u[x].slaves = t[x].slaves
      /\ t[b].master # None => \A x \in LiveIn(t) :
            u[x].slaves = IF x = t[b].master THEN RemoveFromVector(t[x].slaves, b)
                          ELSE IF x = None THEN Append(t[x].slaves, b)
                          ELSE t[x].slaves
  BY <1>1, <1>2, Zenon
<1> HIDE DEF u
<1>4. \A x \in LiveIn(t) : x # None
  BY BreakpointsAssumption DEF LiveIn
<1>5. \A x \in LiveIn(t) : u[x].slaves \in {t[x].slaves, RemoveFromVector(t[x].slaves, b)}
  BY <1>3, <1>4
<1> QED
  BY <1>3, <1>5 DEF u

LEMMA UpToTwo == \A n \in 0..2 : \A i \in 0..n : i = 0 \/ i = 1 \/ i = 2
OBVIOUS

\* What the loop of removeBreakpointById does, turn by turn.
LEMMA Turns ==
    ASSUME NEW t, NEW b, NEW n \in 0..2, n = Len(t[b].slaves)
    PROVE  LET first == Turn([t |-> t, memory |-> t[b].slaves], 1, b)
           IN  FreeSlaves(t, b) = CASE n = 0 -> t
                                    [] n = 1 -> first.t
                                    [] n = 2 -> Turn(first, 2, b).t
<1> DEFINE start == [t |-> t, memory |-> t[b].slaves]
           first == Turn(start, 1, b)
           second == Turn(first, 2, b)
           Is(f) == f = [i \in 0..n |-> IF i = 0 THEN start ELSE Turn(f[i - 1], i, b)]
           turns == CHOOSE f : Is(f)
           f0 == [i \in 0..n |-> IF i = 0 THEN start ELSE IF i = 1 THEN first ELSE second]
<1>1. Is(f0)
  <2>1. ASSUME NEW i \in 0..n
        PROVE  f0[i] = IF i = 0 THEN start ELSE Turn(f0[i - 1], i, b)
    <3> HIDE DEF start, first, second
    <3>1. CASE i = 0
      BY <3>1
    <3>2. CASE i = 1
      BY <3>2 DEF first
    <3>3. CASE i = 2
      <4>1. i - 1 = 1 /\ 1 \in 0..n
        BY <3>3
      <4> QED
        BY <3>3, <4>1 DEF second
    <3>4. i = 0 \/ i = 1 \/ i = 2
      BY UpToTwo
    <3> QED
      BY <3>1, <3>2, <3>3, <3>4
  <2> HIDE DEF start, first, second
  <2> QED
    BY <2>1
<1>2. Is(turns)
  BY <1>1
<1>3. FreeSlaves(t, b) = turns[n].t
  BY DEF FreeSlaves
<1> HIDE DEF turns, start
<1>4. \A i \in 0..n : turns[i] = IF i = 0 THEN start ELSE Turn(turns[i - 1], i, b)
  BY <1>2
<1> HIDE DEF Is
<1>5. turns[0] = start
  BY <1>4
<1>6. n >= 1 => turns[1] = first
  <2>1. n >= 1 => 1 \in 0..n /\ 1 - 1 = 0
    OBVIOUS
  <2> QED
    BY <1>4, <1>5, <2>1
<1>7. n = 2 => turns[2] = second
  <2>1. n = 2 => 2 \in 0..n /\ 2 - 1 = 1
    OBVIOUS
  <2> QED
    BY <1>4, <1>6, <2>1
<1>8. start.t = t
  BY DEF start
<1> HIDE DEF first, second
<1>9. n \in {0, 1, 2}
  OBVIOUS
<1> QED
  <2>1. CASE n = 0
    BY <1>3, <1>5, <1>8, <2>1
  <2>2. CASE n = 1
    BY <1>3, <1>6, <2>2 DEF first, start
  <2>3. CASE n = 2
    BY <1>3, <1>7, <2>3 DEF first, second, start
  <2> QED
    BY <1>9, <2>1, <2>2, <2>3

\* The first of two is erased; the loop then finds the second in its cell.
LEMMA SecondCell ==
    ASSUME NEW S, NEW s \in Seq(S), Len(s) = 2, s[1] # s[2]
    PROVE  EraseInPlace(s, 2, s[1])[2] = s[2]
<1> DEFINE left == RemoveFromVector(s, s[1])
           rest == SubSeq(s, 2, 2)
<1>1. SubSeq(s, 1, 2) = s
  BY SubSeqFull
<1>2. Occurs(s, s[1])
  BY DEF Occurs
<1>3. left \in Seq(S) /\ Len(left) = 1
  <2> HIDE DEF left
  <2>1. left \in Seq(S) /\ Len(left) = Len(s) - 1
    BY <1>2, Removing DEF left
  <2> QED
    BY <2>1
<1>4. rest \in Seq(S) /\ Len(rest) = 1 /\ rest[1] = s[2]
  <2>1. \A i \in 2..2 : s[i] \in S
    BY ElementOfSeq
  <2> HIDE DEF rest
  <2>2. /\ rest \in Seq(S) /\ Len(rest) = IF 2 <= 2 THEN 2 - 2 + 1 ELSE 0
        /\ \A i \in 1..2 - 2 + 1 : rest[i] = s[2 + i - 1]
    BY <2>1, SubSeqProperties DEF rest
  <2>3. 1 \in 1..2 - 2 + 1 /\ 2 + 1 - 1 = 2
    OBVIOUS
  <2> QED
    BY <2>2, <2>3
<1>5. EraseInPlace(s, 2, s[1]) = left \o rest
  <2> DEFINE erased == RemoveFromVector(SubSeq(s, 1, 2), s[1])
  <2>1. EraseInPlace(s, 2, s[1]) = erased \o SubSeq(s, Len(erased) + 1, Len(s))
    BY DEF EraseInPlace
  <2>2. erased = left
    BY <1>1
  <2> HIDE DEF erased, left
  <2>3. Len(erased) + 1 = 2
    BY <1>3, <2>2
  <2> QED
    BY <2>1, <2>2, <2>3
<1> HIDE DEF left, rest
<1>6. \A i \in 1..Len(left) + Len(rest) :
         (left \o rest)[i] = IF i <= Len(left) THEN left[i] ELSE rest[i - Len(left)]
  BY <1>3, <1>4, ConcatProperties
<1>7. 2 \in 1..1 + 1 /\ ~(2 <= 1) /\ 2 - 1 = 1
  OBVIOUS
<1>8. (left \o rest)[2] = rest[1]
  BY <1>3, <1>4, <1>6, <1>7
<1> QED
  BY <1>4, <1>5, <1>8

\* The loop frees up to LoopFrees slaves.
LEMMA LoopFreesThem ==
    ASSUME NEW t, Linked(t), NEW b \in LiveIn(t), t[b].master = None,
           Len(t[b].slaves) <= LoopFrees
    PROVE  LET u == FreeSlaves(t, b)
           IN  /\ Linked(u) /\ SameButLinks(t, u)
               /\ u[b].master = None /\ \A x \in LiveIn(t) : u[x].master # b
<1> DEFINE slaves == t[b].slaves
           n == Len(slaves)
           first == Turn([t |-> t, memory |-> slaves], 1, b)
<1>1. slaves \in Seq(Ids) /\ b \in Ids /\ b # None
  BY LiveEntry, BreakpointsAssumption DEF Linked, Breakpoint
<1>2. PICK k \in 0..2 : k = n
  <2>1. n \in Nat /\ n <= 2
    BY <1>1, LenProperties DEF LoopFrees
  <2> HIDE DEF n
  <2>2. n \in 0..2
    BY <2>1
  <2> QED
    BY <2>2
<1>3. \A x \in LiveIn(t) : t[x].master = b => Once(slaves, x)
  BY DEF Linked, Listed, LiveIn
<1>4. \A i \in 1..n : slaves[i] \in LiveIn(t) /\ t[slaves[i]].master = b
  <2> SUFFICES ASSUME NEW i \in 1..n PROVE slaves[i] \in LiveIn(t) /\ t[slaves[i]].master = b
    OBVIOUS
  <2>1. slaves[i] \in Ids
    BY <1>1, ElementOfSeq
  <2>2. Occurs(slaves, slaves[i])
    BY DEF Occurs
  <2> HIDE DEF slaves
  <2>3. Listed(slaves, slaves[i], slaves[i] \in LiveIn(t) /\ t[slaves[i]].master = b)
    BY <2>1 DEF Linked, slaves
  <2> QED
    BY <2>2, <2>3 DEF Listed
<1>5. FreeSlaves(t, b) = CASE k = 0 -> t [] k = 1 -> first.t [] k = 2 -> Turn(first, 2, b).t
  BY <1>2, Turns
<1>6. first.t = SetMaster(t, slaves[1], None, FALSE)
  BY DEF Turn
<1>7. SameButLinks(t, t)
  BY DEF SameButLinks
<1> HIDE DEF slaves
<1>8. CASE k = 0
  <2>1. \A x : ~Once(slaves, x)
    BY <1>2, <1>8 DEF Once
  <2> QED
    BY <1>3, <1>5, <1>7, <1>8, <2>1
<1>9. ASSUME k # 0
      PROVE  /\ Linked(first.t) /\ SameButLinks(t, first.t)
             /\ slaves[1] \in LiveIn(t) /\ slaves[1] # b
             /\ \A x \in LiveIn(t) :
                   first.t[x].master = IF x = slaves[1] THEN None ELSE t[x].master
  <2>1. 1 \in 1..n
    BY <1>2, <1>9
  <2>2. slaves[1] \in LiveIn(t) /\ t[slaves[1]].master = b /\ slaves[1] # b
    BY <1>1, <1>4, <2>1
  <2> DEFINE s1 == slaves[1]
  <2> HIDE DEF first, s1
  <2>3. LET u == SetMaster(t, s1, None, FALSE)
        IN  /\ Linked(u) /\ SameButLinks(t, u)
            /\ \A x \in LiveIn(t) : u[x].master = IF x = s1 THEN None ELSE t[x].master
    BY <2>2, LetGoKeeps DEF s1
  <2> QED
    BY <1>6, <2>2, <2>3 DEF s1
<1>10. CASE k = 1
  <2>1. \A x : Once(slaves, x) => x = slaves[1]
    <3>1. \A i \in 1..n : i = 1
      BY <1>2, <1>10
    <3> QED
      BY <3>1 DEF Once
  <2>2. FreeSlaves(t, b) = first.t
    BY <1>5, <1>10
  <2> HIDE DEF first
  <2> QED
    BY <1>1, <1>3, <1>9, <1>10, <2>1, <2>2
<1>11. CASE k = 2
  <2> DEFINE t1 == first.t
             last == SetMaster(t1, slaves[2], None, FALSE)
  <2>1. 1 \in 1..n /\ 2 \in 1..n /\ n = 2
    BY <1>2, <1>11
  <2>2. slaves[1] # slaves[2]
    BY <1>3, <1>4, <2>1 DEF Once
  <2>3. first.memory = EraseInPlace(slaves, 2, slaves[1])
    BY <1>4, <2>1 DEF Turn, slaves
  <2>4. first.memory[2] = slaves[2]
    BY <1>1, <2>1, <2>2, <2>3, SecondCell
  <2>5. FreeSlaves(t, b) = last
    <3> HIDE DEF first
    <3>1. Turn(first, 2, b).t = SetMaster(first.t, first.memory[2], None, FALSE)
      BY DEF Turn
    <3>2. FreeSlaves(t, b) = Turn(first, 2, b).t
      BY <1>5, <1>11
    <3> QED
      BY <2>4, <3>1, <3>2
  <2>6. \A x : Once(slaves, x) => x = slaves[1] \/ x = slaves[2]
    <3>1. \A i \in 1..n : i = 1 \/ i = 2
      BY <2>1
    <3> QED
      BY <3>1 DEF Once
  <2>7. slaves[2] \in LiveIn(t) /\ slaves[2] # b
    BY <1>1, <1>4, <2>1
  <2> HIDE DEF t1, first
  <2>8. /\ Linked(t1) /\ SameButLinks(t, t1) /\ LiveIn(t1) = LiveIn(t)
        /\ \A x \in LiveIn(t) : t1[x].master = IF x = slaves[1] THEN None ELSE t[x].master
    BY <1>9, <1>11 DEF t1, SameButLinks
  <2>9. /\ Linked(last) /\ SameButLinks(t1, last)
        /\ \A x \in LiveIn(t) : last[x].master = IF x = slaves[2] THEN None ELSE t1[x].master
    <3> DEFINE s2 == slaves[2]
    <3> HIDE DEF s2
    <3>1. s2 \in LiveIn(t1)
      BY <2>7, <2>8 DEF s2
    <3>2. LET u == SetMaster(t1, s2, None, FALSE)
          IN  /\ Linked(u) /\ SameButLinks(t1, u)
              /\ \A x \in LiveIn(t1) : u[x].master = IF x = s2 THEN None ELSE t1[x].master
      BY <2>8, <3>1, LetGoKeeps
    <3> QED
      BY <2>8, <3>2 DEF s2
  <2> HIDE DEF last
  <2>10. SameButLinks(t, last)
    BY <2>8, <2>9 DEF SameButLinks
  <2>11. \A x \in LiveIn(t) : last[x].master # b
    BY <1>1, <1>3, <2>6, <2>8, <2>9
  <2>12. last[b].master = None
    BY <1>9, <1>11, <2>7, <2>8, <2>9
  <2> QED
    BY <2>5, <2>9, <2>10, <2>11, <2>12
<1> QED
  BY <1>8, <1>10, <1>11, UpToTwo

\* removeFromVector never makes a vector longer, and erase within a vector's
\* memory leaves the memory its size.
LEMMA RemovingShrinks ==
    ASSUME NEW S, NEW s \in Seq(S), NEW x
    PROVE  RemoveFromVector(s, x) \in Seq(S) /\ Len(RemoveFromVector(s, x)) <= Len(s)
<1>1. Len(s) \in Nat
  BY LenProperties
<1> DEFINE r == RemoveFromVector(s, x)
<1>2. CASE ~Occurs(s, x)
  <2>1. r = s
    BY <1>2, Removing
  <2> HIDE DEF r
  <2> QED
    BY <1>1, <2>1 DEF r
<1>3. CASE Occurs(s, x)
  <2>1. r \in Seq(S) /\ Len(r) = Len(s) - 1
    BY <1>3, Removing
  <2> HIDE DEF r
  <2> QED
    BY <1>1, <2>1 DEF r
<1> QED
  BY <1>2, <1>3

LEMMA ErasingKeepsMemory ==
    ASSUME NEW S, NEW memory \in Seq(S), NEW size \in 0..Len(memory), NEW x
    PROVE  /\ EraseInPlace(memory, size, x) \in Seq(S)
           /\ Len(EraseInPlace(memory, size, x)) = Len(memory)
<1> DEFINE before == SubSeq(memory, 1, size)
           left == RemoveFromVector(before, x)
           rest == SubSeq(memory, Len(left) + 1, Len(memory))
<1>1. Len(memory) \in Nat /\ \A i \in 1..Len(memory) : memory[i] \in S
  BY LenProperties, ElementOfSeq
<1>2. before \in Seq(S) /\ Len(before) = size
  <2>1. \A i \in 1..size : memory[i] \in S
    BY <1>1
  <2> HIDE DEF before
  <2>2. before \in Seq(S) /\ Len(before) = IF 1 <= size THEN size - 1 + 1 ELSE 0
    BY <1>1, <2>1, SubSeqProperties DEF before
  <2> QED
    BY <1>1, <2>2
<1> HIDE DEF before
<1>3. left \in Seq(S) /\ Len(left) \in Nat /\ Len(left) <= size
  <2>1. left \in Seq(S) /\ Len(left) <= Len(before)
    BY <1>2, RemovingShrinks
  <2> HIDE DEF left
  <2> QED
    BY <1>2, <2>1, LenProperties
<1> HIDE DEF left
<1>4. rest \in Seq(S) /\ Len(rest) = Len(memory) - Len(left)
  <2>1. \A i \in (Len(left) + 1)..Len(memory) : memory[i] \in S
    BY <1>1, <1>3
  <2> HIDE DEF rest
  <2>2. /\ rest \in Seq(S)
        /\ Len(rest) = IF Len(left) + 1 <= Len(memory)
                       THEN Len(memory) - (Len(left) + 1) + 1 ELSE 0
    BY <1>1, <1>3, <2>1, SubSeqProperties DEF rest
  <2> QED
    BY <1>1, <1>3, <2>2
<1> HIDE DEF rest
<1>5. left \o rest \in Seq(S) /\ Len(left \o rest) = Len(left) + Len(rest)
  BY <1>3, <1>4, ConcatProperties
<1>6. EraseInPlace(memory, size, x) = left \o rest
  BY DEF EraseInPlace, left, rest, before
<1> QED
  BY <1>1, <1>3, <1>4, <1>5, <1>6

\* The turns of the loop of removeBreakpointById, however many.
AreTurns(f, start, n, b) ==
    f = [i \in 0..n |-> IF i = 0 THEN start ELSE Turn(f[i - 1], i, b)]

LEMMA TurnsExist ==
    ASSUME NEW start, NEW b, NEW n \in Nat
    PROVE  \E f : AreTurns(f, start, n, b)
<1> DEFINE bad == {k \in Nat : ~\E f : AreTurns(f, start, k, b)}
<1>1. ASSUME bad # {} PROVE FALSE
  <2>1. PICK m \in bad : \A k \in bad : m <= k
    BY <1>1, Least
  <2>2. m \in Nat /\ ~\E f : AreTurns(f, start, m, b)
    BY <2>1
  <2>3. CASE m = 0
    <3> DEFINE f == [i \in 0..0 |-> start]
    <3>1. f = [i \in 0..0 |-> IF i = 0 THEN start ELSE Turn(f[i - 1], i, b)]
      BY DEF f
    <3> HIDE DEF f
    <3>2. AreTurns(f, start, 0, b)
      BY <3>1 DEF AreTurns
    <3> QED
      BY <2>2, <2>3, <3>2
  <2>4. CASE m # 0
    <3>1. m - 1 \in Nat /\ ~(m <= m - 1)
      BY <2>2, <2>4
    <3>2. m - 1 \notin bad
      BY <2>1, <3>1
    <3>3. PICK f : AreTurns(f, start, m - 1, b)
      BY <3>1, <3>2
    <3> DEFINE g == [i \in 0..m |-> IF i = m THEN Turn(f[m - 1], m, b) ELSE f[i]]
    <3>4. ASSUME NEW i \in 0..m
          PROVE  g[i] = IF i = 0 THEN start ELSE Turn(g[i - 1], i, b)
      <4>1. CASE i = m
        <5>1. m - 1 \in 0..m /\ m - 1 # m
          BY <2>2, <2>4
        <5>2. g[m - 1] = f[m - 1]
          BY <5>1
        <5> QED
          BY <2>4, <4>1, <5>2
      <4>2. CASE i # m
        <5>1. i \in 0..(m - 1)
          BY <2>2, <4>2
        <5>2. f[i] = IF i = 0 THEN start ELSE Turn(f[i - 1], i, b)
          BY <3>3, <5>1 DEF AreTurns
        <5>3. i # 0 => i - 1 \in 0..m /\ i - 1 # m
          BY <2>2, <5>1
        <5>4. g[i] = f[i] /\ (i # 0 => g[i - 1] = f[i - 1])
          BY <4>2, <5>3
        <5> QED
          BY <5>2, <5>4
      <4> QED
        BY <4>1, <4>2
    <3>5. g = [i \in 0..m |-> g[i]]
      OBVIOUS
    <3> HIDE DEF g
    <3>6. AreTurns(g, start, m, b)
      BY <3>4, <3>5 DEF AreTurns
    <3> QED
      BY <2>2, <3>6
  <2> QED
    BY <2>3, <2>4
<1> QED
  BY <1>1

\* However many slaves there are, the loop keeps the links of all in step: what
\* it takes out of the memory is always a slave the master had.
TurnFits(t, b, s) ==
    /\ Linked(s.t) /\ SameButLinks(t, s.t) /\ s.t[b].master = None
    /\ s.memory \in Seq(LiveIn(t) \ {b}) /\ Len(s.memory) = Len(t[b].slaves)
    /\ Len(s.t[b].slaves) <= Len(t[b].slaves)

LEMMA TurnKeeps ==
    ASSUME NEW t, Linked(t), NEW b \in LiveIn(t), NEW s, TurnFits(t, b, s),
           NEW i \in 1..Len(t[b].slaves)
    PROVE  TurnFits(t, b, Turn(s, i, b))
<1> DEFINE x == s.memory[i]
           u == SetMaster(s.t, x, None, FALSE)
           size == Len(s.t[b].slaves)
           gone == IF s.t[x].master = b THEN x ELSE None
           memory == EraseInPlace(s.memory, size, gone)
<1>1. x \in LiveIn(t) /\ x # b
  BY ElementOfSeq DEF TurnFits
<1>2. Linked(s.t) /\ LiveIn(s.t) = LiveIn(t)
  BY DEF TurnFits, SameButLinks
<1>3. s.t[b].slaves \in Seq(Ids) /\ size \in Nat
  BY <1>2, LiveEntry, LenProperties DEF Linked, Breakpoint
<1>4. Turn(s, i, b) = [t |-> u, memory |-> memory]
  BY DEF Turn
<1> HIDE DEF x
<1>5. /\ Linked(u) /\ SameButLinks(s.t, u)
      /\ \A y \in LiveIn(s.t) : u[y].master = IF y = x THEN None ELSE s.t[y].master
      /\ \A y \in LiveIn(s.t) : u[y].slaves \in {s.t[y].slaves, RemoveFromVector(s.t[y].slaves, x)}
  BY <1>1, <1>2, LetGoKeeps
<1> HIDE DEF u
<1>6. SameButLinks(t, u) /\ u[b].master = None
  BY <1>1, <1>2, <1>5 DEF SameButLinks, TurnFits
<1>7. Len(u[b].slaves) <= Len(t[b].slaves)
  <2>1. u[b].slaves \in {s.t[b].slaves, RemoveFromVector(s.t[b].slaves, x)}
    BY <1>2, <1>5
  <2>2. /\ RemoveFromVector(s.t[b].slaves, x) \in Seq(Ids)
        /\ Len(RemoveFromVector(s.t[b].slaves, x)) <= size
    BY <1>3, RemovingShrinks
  <2>3. Len(u[b].slaves) \in Nat /\ Len(u[b].slaves) <= size
    BY <1>3, <2>1, <2>2, LenProperties
  <2>4. Len(t[b].slaves) \in Nat /\ size <= Len(t[b].slaves)
    BY LiveEntry, LenProperties DEF TurnFits, Linked, Breakpoint
  <2> HIDE DEF size
  <2> QED
    BY <1>3, <2>3, <2>4
<1>8. memory \in Seq(LiveIn(t) \ {b}) /\ Len(memory) = Len(t[b].slaves)
  <2>1. s.memory \in Seq(LiveIn(t) \ {b}) /\ Len(s.memory) = Len(t[b].slaves)
    BY DEF TurnFits
  <2>2. size \in 0..Len(s.memory)
    BY <1>3, <2>1, LenProperties DEF TurnFits
  <2> HIDE DEF size, gone
  <2> QED
    BY <2>1, <2>2, ErasingKeepsMemory
<1> HIDE DEF memory
<1> QED
  BY <1>4, <1>5, <1>6, <1>7, <1>8 DEF TurnFits

LEMMA LoopKeeps ==
    ASSUME NEW t, Linked(t), NEW b \in LiveIn(t), t[b].master = None
    PROVE  LET u == FreeSlaves(t, b)
           IN  Linked(u) /\ SameButLinks(t, u) /\ u[b].master = None
<1> DEFINE slaves == t[b].slaves
           n == Len(slaves)
           start == [t |-> t, memory |-> slaves]
           turns == CHOOSE f : AreTurns(f, start, n, b)
<1>1. slaves \in Seq(Ids) /\ n \in Nat
  BY LiveEntry, LenProperties DEF Linked, Breakpoint
<1>2. FreeSlaves(t, b) = turns[n].t
  BY DEF FreeSlaves, AreTurns
<1>3. AreTurns(turns, start, n, b)
  <2>1. \E f : AreTurns(f, start, n, b)
    BY <1>1, TurnsExist
  <2> QED
    BY <2>1
<1>4. TurnFits(t, b, start)
  <2>1. \A i \in 1..n : slaves[i] \in LiveIn(t) \ {b}
    <3> SUFFICES ASSUME NEW i \in 1..n PROVE slaves[i] \in LiveIn(t) \ {b}
      OBVIOUS
    <3>1. slaves[i] \in Ids
      BY <1>1, ElementOfSeq
    <3>2. Occurs(slaves, slaves[i])
      BY DEF Occurs
    <3> HIDE DEF slaves
    <3>3. Listed(slaves, slaves[i], slaves[i] \in LiveIn(t) /\ t[slaves[i]].master = b)
      BY <3>1 DEF Linked, slaves
    <3>4. b # None
      BY BreakpointsAssumption DEF LiveIn
    <3> QED
      BY <3>2, <3>3, <3>4 DEF Listed
  <2>2. slaves \in Seq(LiveIn(t) \ {b})
    <3>1. slaves = [i \in 1..n |-> slaves[i]]
      BY <1>1, LenProperties
    <3> HIDE DEF slaves
    <3> QED
      BY <1>1, <2>1, <3>1, IsASeq
  <2>3. n <= n
    BY <1>1
  <2> QED
    BY <2>2, <2>3 DEF TurnFits, SameButLinks
<1> HIDE DEF turns, start
<1>5. turns[0] = start /\ \A i \in 1..n : turns[i] = Turn(turns[i - 1], i, b)
  <2>1. 0 \in 0..n /\ \A i \in 1..n : i \in 0..n /\ i # 0
    BY <1>1
  <2> QED
    BY <1>3, <2>1 DEF AreTurns
<1> DEFINE bad == {i \in 0..n : ~TurnFits(t, b, turns[i])}
<1>6. ASSUME bad # {} PROVE FALSE
  <2>1. bad \in SUBSET Nat
    OBVIOUS
  <2>2. PICK m \in bad : \A k \in bad : m <= k
    BY <1>6, <2>1, Least
  <2>3. m # 0 /\ m \in 0..n
    BY <1>4, <1>5, <2>2
  <2>4. m - 1 \in 0..n /\ ~(m <= m - 1) /\ m \in 1..n
    BY <1>1, <2>3
  <2>5. TurnFits(t, b, turns[m - 1])
    BY <2>2, <2>4
  <2>6. turns[m] = Turn(turns[m - 1], m, b)
    BY <1>5, <2>4
  <2> HIDE DEF bad
  <2>7. TurnFits(t, b, turns[m])
    BY <2>4, <2>5, <2>6, TurnKeeps
  <2> QED
    BY <2>2, <2>7 DEF bad
<1>7. TurnFits(t, b, turns[n])
  <2>1. n \in 0..n
    BY <1>1
  <2> QED
    BY <1>6, <2>1
<1> QED
  BY <1>2, <1>7 DEF TurnFits

-----------------------------------------------------------------------------
(* The lists by line.                                                      *)
OnLines(t, lines) ==
    /\ lines \in [Positions -> Seq(Ids)]
    /\ \A p \in Positions, b \in Ids : Listed(lines[p], b, b \in LiveIn(t) /\ t[b].at = p)

\* b is gone from the list of the line it was at.
LEMMA LineLeft ==
    ASSUME NEW t, t \in Tables, NEW lines, OnLines(t, lines), NEW b \in LiveIn(t)
    PROVE  LET left == [lines EXCEPT ![t[b].at] = RemoveFromVector(@, b)]
           IN  /\ left \in [Positions -> Seq(Ids)]
               /\ \A p \in Positions : ~Occurs(left[p], b)
               /\ \A p \in Positions, c \in Ids : c # b =>
                     Listed(left[p], c, c \in LiveIn(t) /\ t[c].at = p)
<1> DEFINE at == t[b].at
           left == [lines EXCEPT ![at] = RemoveFromVector(@, b)]
<1>1. at \in Positions /\ b \in Ids /\ lines \in [Positions -> Seq(Ids)]
  BY LiveEntry DEF OnLines, Breakpoint
<1>2. \A p \in Positions, c \in Ids : Listed(lines[p], c, c \in LiveIn(t) /\ t[c].at = p)
  BY DEF OnLines
<1>3. Once(lines[at], b) /\ \A p \in Positions : p # at => ~Occurs(lines[p], b)
  BY <1>1, <1>2 DEF Listed
<1> HIDE DEF at
<1>4. /\ RemoveFromVector(lines[at], b) \in Seq(Ids)
      /\ ~Occurs(RemoveFromVector(lines[at], b), b)
      /\ \A c : c # b =>
           /\ Once(lines[at], c) => Once(RemoveFromVector(lines[at], b), c)
           /\ ~Occurs(lines[at], c) => ~Occurs(RemoveFromVector(lines[at], b), c)
  <2>1. lines[at] \in Seq(Ids)
    BY <1>1
  <2> QED
    BY <1>3, <2>1, RemovingKeeps
<1>5. /\ left \in [Positions -> Seq(Ids)]
      /\ left[at] = RemoveFromVector(lines[at], b)
      /\ \A p \in Positions : p # at => left[p] = lines[p]
  BY <1>1, <1>4
<1> HIDE DEF left
<1>6. \A p \in Positions : ~Occurs(left[p], b)
  BY <1>3, <1>4, <1>5
<1>7. ASSUME NEW p \in Positions, NEW c \in Ids, c # b
      PROVE  Listed(left[p], c, c \in LiveIn(t) /\ t[c].at = p)
  <2>1. Listed(lines[p], c, c \in LiveIn(t) /\ t[c].at = p)
    BY <1>2
  <2>2. CASE p = at
    BY <1>4, <1>5, <1>7, <2>1, <2>2 DEF Listed
  <2>3. CASE p # at
    BY <1>5, <2>1, <2>3
  <2> QED
    BY <2>2, <2>3
<1> QED
  BY <1>5, <1>6, <1>7 DEF left, at

\* b comes to the list of the line it is now at.
LEMMA LineReached ==
    ASSUME NEW lines \in [Positions -> Seq(Ids)], NEW at \in Positions, NEW b \in Ids,
           \A p \in Positions : ~Occurs(lines[p], b),
           NEW u, b \in LiveIn(u), u[b].at = at,
           \A p \in Positions, c \in Ids : c # b =>
              Listed(lines[p], c, c \in LiveIn(u) /\ u[c].at = p)
    PROVE  OnLines(u, [lines EXCEPT ![at] = Append(@, b)])
<1> DEFINE reached == [lines EXCEPT ![at] = Append(@, b)]
<1>1. /\ Append(lines[at], b) \in Seq(Ids) /\ Once(Append(lines[at], b), b)
      /\ \A c : c # b => /\ Once(lines[at], c) => Once(Append(lines[at], b), c)
                         /\ ~Occurs(lines[at], c) => ~Occurs(Append(lines[at], b), c)
  BY AppendingKeeps
<1>2. /\ reached \in [Positions -> Seq(Ids)]
      /\ reached[at] = Append(lines[at], b)
      /\ \A p \in Positions : p # at => reached[p] = lines[p]
  BY <1>1
<1> HIDE DEF reached
<1>3. ASSUME NEW p \in Positions, NEW c \in Ids PROVE Listed(reached[p], c, c \in LiveIn(u) /\ u[c].at = p)
  <2>1. CASE p = at /\ c = b
    BY <1>1, <1>2, <2>1 DEF Listed
  <2>2. CASE p = at /\ c # b
    BY <1>1, <1>2, <2>2 DEF Listed
  <2>3. CASE p # at /\ c = b
    BY <1>2, <2>3 DEF Listed
  <2>4. CASE p # at /\ c # b
    BY <1>2, <2>4 DEF Listed
  <2> QED
    BY <2>1, <2>2, <2>3, <2>4
<1> QED
  BY <1>2, <1>3 DEF reached, OnLines

-----------------------------------------------------------------------------
(* What the steps keep.                                                    *)
BreakpointsInv ==
    /\ Linked(table) /\ OnLines(table, byLine)
    /\ muted \in BOOLEAN
    /\ \/ phase = "idle" /\ checked = None
       \/ phase \in {"condition", "log"} /\ checked \in LiveIn(table)

LEMMA RemovalKeeps ==
    ASSUME Linked(table), OnLines(table, byLine), NEW b \in LiveIn(table), Removed(b)
    PROVE  /\ Linked(table') /\ OnLines(table', byLine')
           /\ LiveIn(table') = LiveIn(table) \ {b}
           /\ \A x \in LiveIn(table') : table'[x].masterWasHit => table[x].masterWasHit
<1> DEFINE alone == SetMaster(table, b, None, FALSE)
           freed == FreeSlaves(alone, b)
           left == IF Len(alone[b].slaves) > LoopFrees THEN PassedOver ELSE Gone
           kept(s) == [freed[s] EXCEPT !.master = left]
<1>1. /\ table' = [s \in Ids |-> IF s = b THEN None
                                 ELSE IF freed[s] # None /\ freed[s].master = b
                                 THEN kept(s) ELSE freed[s]]
      /\ byLine' = [byLine EXCEPT ![table[b].at] = RemoveFromVector(@, b)]
  BY DEF Removed
<1>2. /\ Linked(alone) /\ SameButLinks(table, alone) /\ alone[b].master = None
      /\ b \in LiveIn(alone)
  BY LetGoKeeps DEF SameButLinks
<1>3. /\ Linked(freed) /\ SameButLinks(alone, freed) /\ freed[b].master = None
      /\ left = PassedOver \/ \A x \in LiveIn(alone) : freed[x].master # b
  <2>1. Len(alone[b].slaves) \in Nat
    BY <1>2, LiveEntry, LenProperties DEF Linked, Breakpoint
  <2> HIDE DEF alone
  <2>2. CASE Len(alone[b].slaves) <= LoopFrees
    BY <1>2, <2>2, LoopFreesThem
  <2>3. CASE ~(Len(alone[b].slaves) <= LoopFrees)
    <3>1. left = PassedOver
      BY <2>1, <2>3 DEF LoopFrees
    <3> HIDE DEF left
    <3> QED
      BY <1>2, <3>1, LoopKeeps
  <2> QED
    BY <2>2, <2>3
<1> HIDE DEF alone, freed, left
<1>4. /\ LiveIn(freed) = LiveIn(table) /\ freed \in Tables /\ b \in Ids
      /\ \A x \in LiveIn(table) : /\ freed[x].at = table[x].at
                                  /\ freed[x].masterWasHit => table[x].masterWasHit
                                  /\ freed[x].master = b => left = PassedOver
  BY <1>2, <1>3 DEF SameButLinks, Linked, LiveIn
<1>5. ASSUME NEW x \in LiveIn(freed), left = PassedOver
      PROVE  /\ kept(x) \in Breakpoint /\ kept(x).at = freed[x].at
             /\ kept(x).slaves = freed[x].slaves /\ kept(x).master = PassedOver
             /\ kept(x).masterWasHit = freed[x].masterWasHit
  <2>1. freed[x] \in Breakpoint
    BY <1>4, LiveEntry
  <2> QED
    BY <1>5, <2>1 DEF Breakpoint
<1> HIDE DEF kept
<1>6. /\ table'[b] = None /\ b \notin LiveIn(table')
      /\ \A x \in LiveIn(freed) : x # b =>
            /\ table'[x] \in Breakpoint
            /\ table'[x].at = freed[x].at /\ table'[x].slaves = freed[x].slaves
            /\ table'[x].masterWasHit = freed[x].masterWasHit
            /\ table'[x].master = IF freed[x].master = b THEN PassedOver ELSE freed[x].master
  <2>1. table'[b] = None
    BY <1>1, <1>4
  <2>2. ASSUME NEW x \in LiveIn(freed), x # b
        PROVE  /\ table'[x] \in Breakpoint
               /\ table'[x].at = freed[x].at /\ table'[x].slaves = freed[x].slaves
               /\ table'[x].masterWasHit = freed[x].masterWasHit
               /\ table'[x].master = IF freed[x].master = b THEN PassedOver ELSE freed[x].master
    <3>1. x \in Ids /\ freed[x] \in Breakpoint /\ freed[x] # None
      BY <1>4, LiveEntry DEF LiveIn
    <3>2. CASE freed[x].master = b
      BY <1>1, <1>4, <1>5, <2>2, <3>1, <3>2
    <3>3. CASE freed[x].master # b
      BY <1>1, <2>2, <3>1, <3>3
    <3> QED
      BY <3>2, <3>3
  <2> QED
    BY <2>1, <2>2 DEF LiveIn
<1>7. table' \in Tables /\ LiveIn(table') = LiveIn(freed) \ {b}
  <2>1. \A x \in Ids : x = b \/ x \in LiveIn(freed) \/ (freed[x] = None /\ table'[x] = None)
    BY <1>1 DEF LiveIn
  <2>2. \A x \in Ids : table'[x] \in Breakpoint \cup {None}
    BY <1>6, <2>1
  <2>3. table' = [x \in Ids |-> table'[x]]
    BY <1>1
  <2>4. \A x \in LiveIn(freed) : x \in Ids /\ (x # b => table'[x] # None)
    BY <1>6, BreakpointsAssumption DEF LiveIn
  <2>5. \A x \in LiveIn(table') : x \in Ids /\ x # b /\ x \in LiveIn(freed)
    BY <1>6, <2>1 DEF LiveIn
  <2>6. \A x \in LiveIn(freed) : x # b => x \in LiveIn(table')
    BY <2>4 DEF LiveIn
  <2> QED
    BY <2>2, <2>3, <2>5, <2>6 DEF Tables
<1>8. Linked(table')
  <2>1. ASSUME NEW m \in LiveIn(table'), NEW c \in Ids
        PROVE  Listed(table'[m].slaves, c, c \in LiveIn(table') /\ table'[c].master = m)
    <3>1. m \in LiveIn(freed) /\ m # b /\ m # None /\ m # PassedOver /\ m \in Ids
      BY <1>7, BreakpointsAssumption DEF LiveIn
    <3>2. Listed(freed[m].slaves, c, c \in LiveIn(freed) /\ freed[c].master = m)
      BY <1>3, <3>1 DEF Linked
    <3>3. table'[m].slaves = freed[m].slaves
      BY <1>6, <3>1
    <3>4. (c \in LiveIn(table') /\ table'[c].master = m)
          <=> (c \in LiveIn(freed) /\ freed[c].master = m)
      <4>1. CASE c = b
        BY <1>3, <1>6, <3>1, <4>1
      <4>2. CASE c # b
        BY <1>6, <1>7, <3>1, <4>2
      <4> QED
        BY <4>1, <4>2
    <3> QED
      BY <3>2, <3>3, <3>4 DEF Listed
  <2>2. \A c \in LiveIn(table') : table'[c].master \in LiveIn(table') \cup {None, PassedOver}
    <3> SUFFICES ASSUME NEW c \in LiveIn(table')
                 PROVE  table'[c].master \in LiveIn(table') \cup {None, PassedOver}
      OBVIOUS
    <3>1. c \in LiveIn(freed) /\ c # b
      BY <1>7
    <3>2. freed[c].master \in LiveIn(freed) \cup {None, PassedOver}
      BY <1>3, <3>1 DEF Linked
    <3> QED
      BY <1>6, <1>7, <3>1, <3>2
  <2> QED
    BY <1>7, <2>1, <2>2 DEF Linked
<1>9. OnLines(table', byLine')
  <2>1. table \in Tables
    BY DEF Linked
  <2>2. /\ byLine' \in [Positions -> Seq(Ids)]
        /\ \A p \in Positions : ~Occurs(byLine'[p], b)
        /\ \A p \in Positions, c \in Ids : c # b =>
              Listed(byLine'[p], c, c \in LiveIn(table) /\ table[c].at = p)
    BY <1>1, <2>1, LineLeft
  <2>3. ASSUME NEW p \in Positions, NEW c \in Ids
        PROVE  Listed(byLine'[p], c, c \in LiveIn(table') /\ table'[c].at = p)
    <3>1. CASE c = b
      BY <1>7, <2>2, <3>1 DEF Listed
    <3>2. CASE c # b
      <4>1. /\ c \in LiveIn(table') <=> c \in LiveIn(table)
            /\ c \in LiveIn(table) => table'[c].at = table[c].at
        BY <1>4, <1>6, <1>7, <3>2
      <4> QED
        BY <2>2, <3>2, <4>1 DEF Listed
    <3> QED
      BY <3>1, <3>2
  <2> QED
    BY <2>2, <2>3 DEF OnLines
<1>10. ASSUME NEW x \in LiveIn(table'), table'[x].masterWasHit PROVE table[x].masterWasHit
  <2>1. x \in LiveIn(freed) /\ x # b
    BY <1>7
  <2> QED
    BY <1>4, <1>6, <1>10, <2>1
<1> QED
  BY <1>4, <1>7, <1>8, <1>9, <1>10

\* addOrModifyBreakpoint: a new one has no links, another keeps its own.
LEMMA AddOrModifyKeeps ==
    ASSUME BreakpointsInv, NEW b \in Ids, NEW at \in Positions, NEW settings \in Settings,
           AddOrModifyBreakpoint(b, at, settings)
    PROVE  BreakpointsInv' /\ ArmedByMaster
<1> DEFINE moved == [table[b] EXCEPT !.at = at, !.settings = settings]
           new == [at |-> at, settings |-> settings, master |-> None,
                   slaveLeaveEnabled |-> FALSE, slaves |-> <<>>, masterWasHit |-> FALSE]
<1>1. table \in Tables /\ None \notin Breakpoint /\ None \notin Ids
  BY BreakpointsAssumption DEF BreakpointsInv, Linked
<1>2. UNCHANGED <<muted, checked, phase>>
  BY DEF AddOrModifyBreakpoint
<1>3. \A m \in LiveIn(table), c \in Ids :
         Listed(table[m].slaves, c, c \in LiveIn(table) /\ table[c].master = m)
  BY DEF BreakpointsInv, Linked
<1>4. \A c \in LiveIn(table) : table[c].master \in LiveIn(table) \cup {None, PassedOver}
  BY DEF BreakpointsInv, Linked
<1>5. byLine \in [Positions -> Seq(Ids)] /\
      \A p \in Positions, c \in Ids : Listed(byLine[p], c, c \in LiveIn(table) /\ table[c].at = p)
  BY DEF BreakpointsInv, OnLines
<1>6. CASE table[b] = None
  <2>1. table' = [table EXCEPT ![b] = new] /\ byLine' = [byLine EXCEPT ![at] = Append(@, b)]
    BY <1>6 DEF AddOrModifyBreakpoint
  <2>2. new \in Breakpoint /\ new.slaves = <<>> /\ new.master = None /\ new.at = at
        /\ new.masterWasHit = FALSE
    <3>1. <<>> \in Seq(Ids)
      OBVIOUS
    <3> QED
      BY <3>1 DEF Breakpoint
  <2> HIDE DEF new
  <2>3. table' \in Tables /\ \A x \in Ids : table'[x] = IF x = b THEN new ELSE table[x]
    BY <1>1, <2>1, <2>2 DEF Tables
  <2>4. LiveIn(table') = LiveIn(table) \cup {b} /\ b \notin LiveIn(table)
    BY <1>1, <1>6, <2>2, <2>3 DEF LiveIn
  <2>5. \A x \in LiveIn(table) : x # b /\ x \in Ids /\ table'[x] = table[x] /\ table[x].master # b
    BY <1>1, <1>4, <2>3, <2>4, BreakpointsAssumption DEF LiveIn
  <2>6. Linked(table')
    <3>1. ASSUME NEW m \in LiveIn(table'), NEW c \in Ids
          PROVE  Listed(table'[m].slaves, c, c \in LiveIn(table') /\ table'[c].master = m)
      <4>1. CASE m = b
        <5>1. table'[m].slaves = <<>> /\ ~Occurs(<<>>, c)
          BY <2>2, <2>3, <4>1 DEF Occurs
        <5>2. ~(c \in LiveIn(table') /\ table'[c].master = m)
          BY <1>1, <2>2, <2>3, <2>4, <2>5, <4>1
        <5> QED
          BY <5>1, <5>2 DEF Listed
      <4>2. CASE m # b
        <5>1. m \in LiveIn(table) /\ table'[m] = table[m] /\ m # None
          BY <1>1, <2>4, <2>5, <4>2
        <5>2. (c \in LiveIn(table') /\ table'[c].master = m)
              <=> (c \in LiveIn(table) /\ table[c].master = m)
          BY <2>2, <2>3, <2>4, <2>5, <5>1
        <5> QED
          BY <1>3, <5>1, <5>2 DEF Listed
      <4> QED
        BY <4>1, <4>2
    <3>2. \A c \in LiveIn(table') : table'[c].master \in LiveIn(table') \cup {None, PassedOver}
      BY <1>4, <2>2, <2>3, <2>4, <2>5
    <3> QED
      BY <2>3, <3>1, <3>2 DEF Linked
  <2>7. OnLines(table', byLine')
    <3>1. \A p \in Positions : ~Occurs(byLine[p], b)
      BY <1>5, <2>4 DEF Listed
    <3>2. \A p \in Positions, c \in Ids : c # b =>
             Listed(byLine[p], c, c \in LiveIn(table') /\ table'[c].at = p)
      BY <1>5, <2>4, <2>5 DEF Listed
    <3>3. b \in LiveIn(table') /\ table'[b].at = at
      BY <2>2, <2>3, <2>4
    <3> QED
      BY <1>5, <2>1, <3>1, <3>2, <3>3, LineReached
  <2>8. ArmedByMaster
    BY <1>1, <1>2, <2>3, <2>4, <2>5 DEF ArmedByMaster, Live, LiveIn
  <2> QED
    BY <1>2, <2>4, <2>6, <2>7, <2>8 DEF BreakpointsInv
<1>7. CASE table[b] # None
  <2>0. b \in LiveIn(table) /\ table[b] \in Breakpoint
    BY <1>1, <1>7 DEF LiveIn, Tables
  <2>1. table' = [table EXCEPT ![b] = moved]
    BY <1>7 DEF AddOrModifyBreakpoint
  <2>2. moved \in Breakpoint /\ moved.slaves = table[b].slaves /\ moved.master = table[b].master
        /\ moved.at = at /\ moved.masterWasHit = table[b].masterWasHit
    BY <2>0 DEF Breakpoint
  <2> HIDE DEF moved
  <2>3. table' \in Tables /\ \A x \in Ids : table'[x] = IF x = b THEN moved ELSE table[x]
    BY <1>1, <2>1, <2>2 DEF Tables
  <2>4. LiveIn(table') = LiveIn(table)
    BY <1>1, <2>0, <2>2, <2>3 DEF LiveIn
  <2>5. \A x \in LiveIn(table) :
           /\ table'[x].slaves = table[x].slaves /\ table'[x].master = table[x].master
           /\ table'[x].masterWasHit = table[x].masterWasHit
           /\ table'[x].at = IF x = b THEN at ELSE table[x].at
    BY <2>2, <2>3 DEF LiveIn
  <2>6. Linked(table')
    BY <1>3, <1>4, <2>3, <2>4, <2>5 DEF Linked, Listed
  <2>7. OnLines(table', byLine')
    <3>1. CASE table[b].at = at
      <4>1. byLine' = byLine
        BY <1>7, <3>1 DEF AddOrModifyBreakpoint
      <4> QED
        BY <1>5, <2>4, <2>5, <3>1, <4>1 DEF OnLines, Listed
    <3>2. CASE table[b].at # at
      <4> DEFINE left == [byLine EXCEPT ![table[b].at] = RemoveFromVector(@, b)]
      <4>1. byLine' = [left EXCEPT ![at] = Append(@, b)]
        BY <1>7, <3>2 DEF AddOrModifyBreakpoint
      <4>2. OnLines(table, byLine)
        BY DEF BreakpointsInv
      <4>3. /\ left \in [Positions -> Seq(Ids)]
            /\ \A p \in Positions : ~Occurs(left[p], b)
            /\ \A p \in Positions, c \in Ids : c # b =>
                  Listed(left[p], c, c \in LiveIn(table) /\ table[c].at = p)
        BY <1>1, <2>0, <4>2, LineLeft
      <4> HIDE DEF left
      <4>4. \A p \in Positions, c \in Ids : c # b =>
               Listed(left[p], c, c \in LiveIn(table') /\ table'[c].at = p)
        BY <2>4, <2>5, <4>3 DEF Listed
      <4>5. b \in LiveIn(table') /\ table'[b].at = at
        BY <2>0, <2>4, <2>5
      <4> QED
        BY <4>1, <4>3, <4>4, <4>5, LineReached
    <3> QED
      BY <3>1, <3>2
  <2>8. ArmedByMaster
    BY <1>2, <2>4, <2>5 DEF ArmedByMaster, Live, LiveIn
  <2> QED
    BY <1>2, <2>4, <2>6, <2>7, <2>8 DEF BreakpointsInv
<1> QED
  BY <1>6, <1>7

LEMMA SetMasterBreakpointKeeps ==
    ASSUME BreakpointsInv, NEW b \in Ids, NEW m \in Ids \cup {None}, NEW leave \in BOOLEAN,
           SetMasterBreakpoint(b, m, leave)
    PROVE  BreakpointsInv' /\ ArmedByMaster
<1> DEFINE master == IF m \in Live THEN m ELSE None
<1>1. /\ b \in LiveIn(table) /\ master \in LiveIn(table) \cup {None}
      /\ \/ table' = SetMaster(table, b, master, leave)
         \/ table' = [table EXCEPT ![b].slaveLeaveEnabled = leave]
      /\ UNCHANGED <<byLine, muted, checked, phase>>
  BY DEF SetMasterBreakpoint, Live, LiveIn
<1> HIDE DEF master
<1>2. Linked(table)
  BY DEF BreakpointsInv
<1>3. Linked(table') /\ SameButLinks(table, table')
  <2>1. CASE table' = SetMaster(table, b, master, leave)
    BY <1>1, <1>2, <2>1, SetMasterKeeps
  <2>2. CASE table' = [table EXCEPT ![b].slaveLeaveEnabled = leave]
    <3> DEFINE r == [table[b] EXCEPT !.slaveLeaveEnabled = leave]
    <3>1. table \in Tables /\ table[b] \in Breakpoint /\ None \notin Breakpoint
      BY <1>1, <1>2, LiveEntry, BreakpointsAssumption DEF Linked
    <3>2. /\ r \in Breakpoint /\ r.at = table[b].at /\ r.settings = table[b].settings
          /\ r.master = table[b].master /\ r.slaves = table[b].slaves
          /\ r.masterWasHit = table[b].masterWasHit
      BY <3>1 DEF Breakpoint
    <3>3. table' = [table EXCEPT ![b] = r]
      BY <2>2, <3>1 DEF Tables
    <3> HIDE DEF r
    <3>4. table' \in Tables /\ \A x \in Ids : table'[x] = IF x = b THEN r ELSE table[x]
      BY <3>1, <3>2, <3>3 DEF Tables
    <3>5. LiveIn(table') = LiveIn(table)
      BY <1>1, <3>1, <3>2, <3>4 DEF LiveIn
    <3>6. \A x \in LiveIn(table) :
             /\ table'[x].at = table[x].at /\ table'[x].settings = table[x].settings
             /\ table'[x].master = table[x].master /\ table'[x].slaves = table[x].slaves
             /\ table'[x].masterWasHit = table[x].masterWasHit
      BY <3>2, <3>4 DEF LiveIn
    <3> QED
      BY <1>2, <3>4, <3>5, <3>6 DEF Linked, Listed, SameButLinks
  <2> QED
    BY <1>1, <2>1, <2>2
<1>4. OnLines(table', byLine')
  BY <1>1, <1>3 DEF BreakpointsInv, OnLines, SameButLinks, Listed
<1>5. ArmedByMaster
  BY <1>1, <1>3 DEF ArmedByMaster, SameButLinks, Live, LiveIn, BreakpointsInv
<1> QED
  BY <1>1, <1>3, <1>4, <1>5 DEF BreakpointsInv, SameButLinks

LEMMA RemoveBreakpointByIdKeeps ==
    ASSUME BreakpointsInv, NEW b \in Ids, RemoveBreakpointById(b)
    PROVE  BreakpointsInv' /\ ArmedByMaster
<1>1. /\ b \in LiveIn(table) /\ b # checked /\ Removed(b)
      /\ UNCHANGED <<muted, checked, phase>>
  BY DEF RemoveBreakpointById, Live, LiveIn
<1>2. /\ Linked(table') /\ OnLines(table', byLine')
      /\ LiveIn(table') = LiveIn(table) \ {b}
      /\ \A x \in LiveIn(table') : table'[x].masterWasHit => table[x].masterWasHit
  BY <1>1, RemovalKeeps DEF BreakpointsInv
<1>3. ArmedByMaster
  BY <1>1, <1>2 DEF ArmedByMaster, Live, LiveIn
<1> QED
  BY <1>1, <1>2, <1>3 DEF BreakpointsInv

LEMMA CheckBreakpointKeeps ==
    ASSUME BreakpointsInv, NEW at \in Positions, CheckBreakpoint(at)
    PROVE  BreakpointsInv' /\ ArmedByMaster
<1> DEFINE b == Head(byLine[at])
<1>1. /\ byLine[at] \in Seq(Ids) /\ byLine[at] # <<>>
      /\ phase = "idle" /\ phase' = "condition" /\ checked' = b
      /\ UNCHANGED <<table, byLine, muted>>
  BY DEF CheckBreakpoint, BreakpointsInv, OnLines
<1>2. b \in LiveIn(table)
  <2>1. 1 \in 1..Len(byLine[at]) /\ byLine[at][1] = b
    BY <1>1
  <2>2. b \in Ids /\ Occurs(byLine[at], b)
    BY <1>1, <2>1, ElementOfSeq DEF Occurs
  <2>3. Listed(byLine[at], b, b \in LiveIn(table) /\ table[b].at = at)
    BY <2>2 DEF BreakpointsInv, OnLines
  <2> QED
    BY <2>2, <2>3 DEF Listed
<1> HIDE DEF b
<1>3. ArmedByMaster
  BY <1>1 DEF ArmedByMaster
<1> QED
  BY <1>1, <1>2, <1>3 DEF BreakpointsInv

LEMMA HitKeeps ==
    ASSUME BreakpointsInv, Hit
    PROVE  BreakpointsInv' /\ ArmedByMaster
<1> DEFINE b == checked
           armed(s) == \E i \in DOMAIN table[b].slaves : table[b].slaves[i] = s
           used == [table EXCEPT ![b].masterWasHit = @ /\ table[b].slaveLeaveEnabled]
<1>1. /\ phase = "condition" /\ phase' = "log" /\ UNCHANGED <<byLine, muted, checked>>
      /\ table' = [s \in Ids |-> IF armed(s) THEN [used[s] EXCEPT !.masterWasHit = TRUE]
                                 ELSE used[s]]
  BY DEF Hit
<1>2. table \in Tables /\ b \in LiveIn(table) /\ table[b] \in Breakpoint /\ b \in Ids
      /\ None \notin Breakpoint
  BY <1>1, LiveEntry, BreakpointsAssumption DEF BreakpointsInv, Linked
<1>3. \A s \in Ids : armed(s) <=> s \in LiveIn(table) /\ table[s].master = b
  <2>1. DOMAIN table[b].slaves = 1..Len(table[b].slaves)
    BY <1>2, LenProperties DEF Breakpoint
  <2>2. \A s \in Ids : Listed(table[b].slaves, s, s \in LiveIn(table) /\ table[s].master = b)
    BY <1>2 DEF BreakpointsInv, Linked
  <2> QED
    BY <2>1, <2>2 DEF Listed, Once, Occurs
<1> HIDE DEF armed
<1>4. /\ used \in Tables /\ LiveIn(used) = LiveIn(table)
      /\ \A x \in LiveIn(table) :
           /\ used[x].at = table[x].at /\ used[x].settings = table[x].settings
           /\ used[x].master = table[x].master /\ used[x].slaves = table[x].slaves
           /\ used[x].masterWasHit => table[x].masterWasHit
  <2> DEFINE r == [table[b] EXCEPT !.masterWasHit = @ /\ table[b].slaveLeaveEnabled]
  <2>1. /\ r \in Breakpoint /\ r.at = table[b].at /\ r.settings = table[b].settings
        /\ r.master = table[b].master /\ r.slaves = table[b].slaves
        /\ r.masterWasHit => table[b].masterWasHit
    BY <1>2 DEF Breakpoint
  <2>2. used = [table EXCEPT ![b] = r]
    BY <1>2 DEF Tables
  <2> HIDE DEF r, used
  <2>3. used \in Tables /\ \A x \in Ids : used[x] = IF x = b THEN r ELSE table[x]
    BY <1>2, <2>1, <2>2 DEF Tables
  <2>4. LiveIn(used) = LiveIn(table)
    BY <1>2, <2>1, <2>3 DEF LiveIn
  <2> QED
    BY <2>1, <2>3, <2>4 DEF LiveIn
<1> HIDE DEF used
<1>5. ASSUME NEW x \in LiveIn(table)
      PROVE  /\ table'[x] \in Breakpoint
             /\ table'[x].at = table[x].at /\ table'[x].settings = table[x].settings
             /\ table'[x].master = table[x].master /\ table'[x].slaves = table[x].slaves
             /\ armed(x) => table'[x].masterWasHit
             /\ table'[x].masterWasHit => armed(x) \/ table[x].masterWasHit
  <2>1. x \in Ids /\ used[x] \in Breakpoint
    BY <1>4, LiveEntry
  <2>2. table'[x] = IF armed(x) THEN [used[x] EXCEPT !.masterWasHit = TRUE] ELSE used[x]
    BY <1>1, <2>1
  <2>3. CASE armed(x)
    BY <1>4, <2>1, <2>2, <2>3 DEF Breakpoint
  <2>4. CASE ~armed(x)
    BY <1>4, <2>1, <2>2, <2>4
  <2> QED
    BY <2>3, <2>4
<1>6. \A x \in Ids \ LiveIn(table) : table'[x] = None
  BY <1>1, <1>3, <1>4 DEF LiveIn
<1>7. table' \in Tables
  <2>1. DOMAIN table' = Ids /\ table' = [s \in Ids |-> table'[s]]
    BY <1>1
  <2>2. \A x \in Ids : table'[x] \in Breakpoint \cup {None}
    BY <1>5, <1>6
  <2> QED
    BY <2>1, <2>2 DEF Tables
<1>8. LiveIn(table') = LiveIn(table)
  BY <1>2, <1>5, <1>6 DEF LiveIn
<1>9. Linked(table')
  BY <1>5, <1>7, <1>8 DEF BreakpointsInv, Linked, Listed
<1>10. OnLines(table', byLine')
  <2>1. byLine' = byLine /\ byLine \in [Positions -> Seq(Ids)]
    BY <1>1 DEF BreakpointsInv, OnLines
  <2>2. \A p \in Positions, c \in Ids :
           Listed(byLine[p], c, c \in LiveIn(table) /\ table[c].at = p)
    BY DEF BreakpointsInv, OnLines
  <2>3. \A c : c \in LiveIn(table) => table'[c].at = table[c].at
    BY <1>5
  <2> QED
    BY <1>8, <2>1, <2>2, <2>3 DEF OnLines, Listed
<1>11. ArmedByMaster
  BY <1>1, <1>3, <1>5 DEF ArmedByMaster, Live, LiveIn
<1> QED
  BY <1>1, <1>2, <1>8, <1>9, <1>10, <1>11 DEF BreakpointsInv

LEMMA HitEndsKeeps ==
    ASSUME BreakpointsInv, HitEnds
    PROVE  BreakpointsInv' /\ ArmedByMaster
<1>1. phase = "log" /\ phase' = "idle" /\ checked' = None /\ UNCHANGED muted
      /\ checked \in LiveIn(table)
  BY DEF HitEnds, BreakpointsInv
<1>2. CASE Removed(checked)
  <2>1. /\ Linked(table') /\ OnLines(table', byLine')
        /\ LiveIn(table') = LiveIn(table) \ {checked}
        /\ \A x \in LiveIn(table') : table'[x].masterWasHit => table[x].masterWasHit
    BY <1>1, <1>2, RemovalKeeps DEF BreakpointsInv
  <2>2. ArmedByMaster
    BY <1>1, <2>1 DEF ArmedByMaster, Live, LiveIn
  <2> QED
    BY <1>1, <2>1, <2>2 DEF BreakpointsInv
<1>3. CASE UNCHANGED <<table, byLine>>
  BY <1>1, <1>3 DEF BreakpointsInv, ArmedByMaster
<1> QED
  BY <1>2, <1>3 DEF HitEnds

\* Every step keeps the links, and arms by the master's hit only.
LEMMA BreakpointsStep ==
    ASSUME BreakpointsInv, [BreakpointsNext]_breakpointVars
    PROVE  BreakpointsInv' /\ (ArmedByMaster \/ UNCHANGED breakpointVars)
<1>1. ASSUME NEW b \in Ids, NEW at \in Positions, NEW settings \in Settings,
             AddOrModifyBreakpoint(b, at, settings)
      PROVE  BreakpointsInv' /\ ArmedByMaster
  BY <1>1, AddOrModifyKeeps
<1>2. ASSUME NEW b \in Ids, NEW m \in Ids \cup {None}, NEW leave \in BOOLEAN,
             SetMasterBreakpoint(b, m, leave)
      PROVE  BreakpointsInv' /\ ArmedByMaster
  BY <1>2, SetMasterBreakpointKeeps
<1>3. ASSUME NEW b \in Ids, RemoveBreakpointById(b)
      PROVE  BreakpointsInv' /\ ArmedByMaster
  BY <1>3, RemoveBreakpointByIdKeeps
<1>4. ASSUME NEW mute \in BOOLEAN, MuteBreakpoints(mute)
      PROVE  BreakpointsInv' /\ ArmedByMaster
  BY <1>4 DEF MuteBreakpoints, BreakpointsInv, ArmedByMaster
<1>5. ASSUME NEW at \in Positions, CheckBreakpoint(at)
      PROVE  BreakpointsInv' /\ ArmedByMaster
  BY <1>5, CheckBreakpointKeeps
<1>6. CASE ConditionFails
  BY <1>6 DEF ConditionFails, BreakpointsInv, ArmedByMaster
<1>7. CASE Hit
  BY <1>7, HitKeeps
<1>8. CASE HitEnds
  BY <1>8, HitEndsKeeps
<1>9. CASE UNCHANGED breakpointVars
  BY <1>9 DEF breakpointVars, BreakpointsInv
<1> QED
  BY <1>1, <1>2, <1>3, <1>4, <1>5, <1>6, <1>7, <1>8, <1>9 DEF BreakpointsNext

LEMMA BreakpointsStart == BreakpointsInit => BreakpointsInv
<1> SUFFICES ASSUME BreakpointsInit PROVE BreakpointsInv
  OBVIOUS
<1>1. table \in Tables /\ LiveIn(table) = {}
  BY DEF BreakpointsInit, Tables, LiveIn
<1>2. Linked(table)
  BY <1>1 DEF Linked
<1>3. OnLines(table, byLine)
  <2>1. byLine \in [Positions -> Seq(Ids)] /\ \A p \in Positions : byLine[p] = <<>>
    BY DEF BreakpointsInit
  <2>2. \A b : ~Occurs(<<>>, b)
    BY DEF Occurs
  <2> QED
    BY <1>1, <2>1, <2>2 DEF OnLines, Listed
<1> QED
  BY <1>2, <1>3 DEF BreakpointsInit, BreakpointsInv

LEMMA BreakpointsInvariance == BreakpointsSpec => []BreakpointsInv
BY BreakpointsStart, BreakpointsStep, PTL DEF BreakpointsSpec

\* What the lists and links say is counted.
LEMMA LinksCounted ==
    BreakpointsInv => BreakpointsTypeOK /\ EachOnItsLine /\ LinksAgree /\ MastersExist
<1> SUFFICES ASSUME BreakpointsInv
             PROVE  BreakpointsTypeOK /\ EachOnItsLine /\ LinksAgree /\ MastersExist
  OBVIOUS
<1>0. Live = LiveIn(table)
  BY DEF Live, LiveIn
<1>1. EachOnItsLine
  <2> SUFFICES ASSUME NEW p \in Positions, NEW b \in Ids
               PROVE  Count(byLine[p], b) = IF b \in Live /\ table[b].at = p THEN 1 ELSE 0
    BY DEF EachOnItsLine
  <2> DEFINE yes == b \in Live /\ table[b].at = p
  <2>1. byLine[p] \in Seq(Ids) /\ Listed(byLine[p], b, yes) /\ yes \in BOOLEAN
    BY <1>0 DEF BreakpointsInv, OnLines
  <2> HIDE DEF yes
  <2>2. Count(byLine[p], b) = IF yes THEN 1 ELSE 0
    BY <2>1, Counting
  <2> QED
    BY <2>2 DEF yes
<1>2. LinksAgree
  <2> SUFFICES ASSUME NEW m \in Live, NEW b \in Ids
               PROVE  Count(table[m].slaves, b) =
                         IF b \in Live /\ table[b].master = m THEN 1 ELSE 0
    BY DEF LinksAgree
  <2> DEFINE yes == b \in Live /\ table[b].master = m
  <2>1. table[m].slaves \in Seq(Ids) /\ Listed(table[m].slaves, b, yes) /\ yes \in BOOLEAN
    BY <1>0, LiveEntry DEF BreakpointsInv, Linked, Breakpoint
  <2> HIDE DEF yes
  <2>2. Count(table[m].slaves, b) = IF yes THEN 1 ELSE 0
    BY <2>1, Counting
  <2> QED
    BY <2>2 DEF yes
<1>3. MastersExist
  BY <1>0 DEF MastersExist, BreakpointsInv, Linked
<1>4. BreakpointsTypeOK
  BY DEF BreakpointsTypeOK, BreakpointsInv, Linked, OnLines, Tables, LiveIn
<1> QED
  BY <1>1, <1>2, <1>3, <1>4

\* Breakpoints, their lists by line and their links stay in step, and a slave
\* is armed by its master's hit and by nothing else, for any breakpoints,
\* lines and settings and any number of slaves, while nobody removes the
\* breakpoint doStep looks at.  The exception is a slave that the removal of a
\* master with more than LoopFrees slaves has passed over: it keeps a pointer to
\* freed memory until it is given another master (RDebugger).
THEOREM BreakpointsAlwaysKeepTheirLinks == BreakpointsSpec => BreakpointsKeepTheirLinks
<1>1. BreakpointsInv /\ [BreakpointsNext]_breakpointVars => [ArmedByMaster]_breakpointVars
  BY BreakpointsStep
<1>2. BreakpointsInv => BreakpointsTypeOK /\ EachOnItsLine /\ LinksAgree /\ MastersExist
  BY LinksCounted
<1> QED
  BY <1>1, <1>2, BreakpointsInvariance, PTL DEF BreakpointsSpec, BreakpointsKeepTheirLinks
============================================================================
