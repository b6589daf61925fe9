---------------------------- MODULE References ----------------------------
(***************************************************************************)
(* What the client's variable view does: it lists environments and lists   *)
(* page by page (loaderGetVariables), walks enclosing environments         *)
(* (loaderGetParentEnvs), reads the value behind a reference (dereference) *)
(* and writes there (setValueImpl).  A reference is a variable of an       *)
(* environment and a path into its value: elements and attributes.         *)
(*                                                                         *)
(* R's values are never changed in place: `[[<-` and `attributes<-` make   *)
(* new ones, which are assigned along the path up to the variable.  Calls  *)
(* to R are calls of R code, so an argument that is itself a call is       *)
(* evaluated.  Left out: persistent references (PersistentRefs),           *)
(* references to frames and to expressions other than as values that       *)
(* cannot be set, promises, classes with their own `[[<-`, element         *)
(* assignment to anything but lists, and the text of previews.             *)
(***************************************************************************)
EXTENDS Naturals, Sequences, SequencesExt, FiniteSets

CONSTANTS Envs, Global,    \* environments, Global among them
          NameOrder,       \* the names of variables in the order of ls()
          Hidden,          \* names that begin with a dot
          Given,           \* values that user code assigns
          Sent,            \* values that the client sets
          MaxIndex,        \* bound: indices of elements
          MaxSets,         \* bound: values set after the last assignment of user code
          MaxParents       \* bound: parentEnv counts

VARIABLES value,   \* the value of each variable, or Unbound
          parent,  \* the enclosing environment of each
          last,    \* ghost: what the client has set by its last request
          sets     \* ghost: how much was set since user code assigned something

vars == <<value, parent, last, sets>>

Names == Range(NameOrder)
Empty == "R_EmptyEnv"
V(type, atom, elems, attrs) == [type |-> type, atom |-> atom, elems |-> elems, attrs |-> attrs]
Atom(a) == V("atom", a, <<>>, <<>>)
List(s) == V("list", "", s, <<>>)
Call(a) == V("call", a, <<>>, <<>>)     \* a call whose value is Atom(a)
Function == V("function", "", <<>>, <<>>)
Null == V("NULL", "", <<>>, <<>>)
Unbound == V("unbound", "", <<>>, <<>>)
Fails == V("error", "", <<>>, <<>>)     \* R throws

Element(i) == [kind |-> "element", index |-> i]
Attributes == [kind |-> "attributes", index |-> 0]
Parts == {Element(i) : i \in 0..MaxIndex} \cup {Attributes}
\* Up to two parts; attributes of attributes (but names) are left out.
Paths ==
    {<<>>} \cup {<<p>> : p \in Parts}
        \cup ({<<p, q>> : p, q \in Parts} \ {<<Attributes, Attributes>>})
\* The environment of a reference: that many parentEnvs up from Global.
Refs == [up : 0..MaxParents, name : Names, path : Paths]

Init ==
    /\ value = [e \in Envs |-> [n \in Names |-> Unbound]]
    /\ parent \in [Envs -> {Empty}]
    /\ last = [set |-> FALSE] /\ sets = 0
--------------------------------------------------------------------------
(* Reading.                                                                *)
\* kParentEnv: "nil" when the way leads beyond the empty environment.
EnvUp(up) ==
    LET env[i \in Nat] == IF i = 0 THEN Global
                          ELSE IF env[i - 1] \in Envs THEN parent[env[i - 1]] ELSE "nil"
    IN  env[up]

\* getVar looks into the frame of the environment only.
Variable(env, name) ==
    IF env \notin Envs \/ value[env][name] = Unbound THEN Null ELSE value[env][name]

\* An argument of a call that is made to R.
Arg(v) == IF v.type = "call" THEN Atom(v.atom) ELSE v

\* `[[`(x, index + 1)
Subscript2(x, index) ==
    IF x.type = "list" /\ index < Len(x.elems) THEN x.elems[index + 1]
    ELSE IF x.type = "atom" /\ index = 0 THEN Atom(x.atom)
    ELSE IF x.type = "NULL" THEN Null ELSE Fails

Get(x, part) ==
    IF x = Fails THEN Fails
    ELSE IF part.kind = "element" THEN Subscript2(Arg(x), part.index)
    ELSE IF x.attrs = <<>> THEN Null ELSE List(x.attrs)

\* The values along a path, the variable's first.
Along(x, path) ==
    LET at[k \in 0..Len(path)] == IF k = 0 THEN x ELSE Get(at[k - 1], path[k])
    IN  at

Dereference(ref) ==
    Along(Variable(EnvUp(ref.up), ref.name), ref.path)[Len(ref.path)]
--------------------------------------------------------------------------
(* Writing.                                                                *)
\* `[[<-`(x, index + 1, v): NULL takes the element away.
Assign2(x, index, v) ==
    IF x.type # "list" THEN Fails
    ELSE IF v = Null
    THEN [x EXCEPT !.elems = IF index < Len(@) THEN RemoveAt(@, index + 1) ELSE @]
    ELSE [x EXCEPT !.elems = [i \in 1..(IF index < Len(@) THEN Len(@) ELSE index + 1) |->
                                 IF i = index + 1 THEN v ELSE IF i <= Len(@) THEN @[i] ELSE Null]]

\* `attributes<-`(x, v)
AssignAttributes(x, v) ==
    IF v.type \notin {"list", "NULL"} THEN Fails
    ELSE IF x.type = "NULL" /\ v.elems # <<>> THEN [List(<<>>) EXCEPT !.attrs = v.elems]
    ELSE [x EXCEPT !.attrs = v.elems]

\* Mutant of Put: the index of the reference is taken for R's.
PutShifted(x, part, v) ==
    IF x = Fails \/ v = Fails THEN Fails
    ELSE IF part.kind = "element"
    THEN IF part.index = 0 THEN Fails ELSE Assign2(Arg(x), part.index - 1, Arg(v))
    ELSE AssignAttributes(Arg(x), Arg(v))

Put(x, part, v) ==
    IF x = Fails \/ v = Fails THEN Fails
    ELSE IF part.kind = "element" THEN Assign2(Arg(x), part.index, Arg(v))
    ELSE AssignAttributes(Arg(x), Arg(v))

\* The value to assign to the variable, from the end of the path to its start.
NewValue(x, path, v) ==
    LET old == Along(x, path)
        new[k \in 0..Len(path)] ==
            IF k = Len(path) THEN v ELSE Put(old[k], path[k + 1], new[k + 1])
    IN  new[0]

\* setValue: nothing is changed when R fails anywhere on the way.
SetValue(ref, v) ==
    LET env == EnvUp(ref.up)
        new == NewValue(Variable(env, ref.name), ref.path, v)
    IN  /\ sets < MaxSets /\ sets' = sets + 1
        /\ env \in Envs /\ new # Fails
        /\ Len(new.elems) <= MaxIndex + 1 /\ Len(new.attrs) <= 1
        /\ value' = [value EXCEPT ![env][ref.name] = Arg(new)]
        /\ last' = [set |-> TRUE, ref |-> ref, v |-> v]
        /\ UNCHANGED parent

\* User code.
UserAssigns(env, name, v) ==
    /\ value' = [value EXCEPT ![env][name] = v]
    /\ last' = [set |-> FALSE] /\ sets' = 0 /\ UNCHANGED parent

\* `parent.env<-`: R does not keep users from making circles.
SetParentEnv(env, p) ==
    /\ parent' = [parent EXCEPT ![env] = p]
    /\ last' = [set |-> FALSE] /\ UNCHANGED <<value, sets>>

Next ==
    \/ \E ref \in Refs, v \in Sent : SetValue(ref, v)
    \/ \E env \in Envs, name \in Names, v \in Given \cup {Unbound} : UserAssigns(env, name, v)
    \/ \E env \in Envs, p \in Envs \cup {Empty} : SetParentEnv(env, p)

Spec == Init /\ [][Next]_vars
--------------------------------------------------------------------------
(* Listing.  A page is <<total count, what is listed>>.                    *)
Entry(name, v) == [name |-> name, value |-> v]
Slice(s, start, end) == SubSeq(s, start + 1, IF end < Len(s) THEN end ELSE Len(s))

Ls(env, noHidden) ==
    SelectSeq(NameOrder, LAMBDA n : value[env][n] # Unbound /\ ~(noHidden /\ n \in Hidden))

\* onlyFunctions and noFunctions: the page counts only what passes.
PageOfEnv(env, noHidden, only, no, start, end) ==
    LET ls == Ls(env, noHidden)
        passes(n) == (only \/ no) => ((value[env][n].type = "function") <=> only)
        shown == SelectSeq(ls, passes)
        entries == [i \in 1..Len(shown) |-> Entry(shown[i], value[env][shown[i]])]
    IN  IF only /\ no THEN <<0, <<>>>> ELSE <<Len(shown), Slice(entries, start, end)>>

\* a:b of R, which counts down when b is less.
Colon(a, b) ==
    IF a <= b THEN [i \in 1..(b - a + 1) |-> a + i - 1] ELSE [i \in 1..(a - b + 1) |-> a - i + 1]

\* unclassed[(start+1):min(length, end)]: index 0 is dropped, what is
\* beyond the end is NULL.
PageOfList(x, start, end) ==
    LET n == Len(x.elems)
        at == SelectSeq(Colon(start + 1, IF end < n THEN end ELSE n), LAMBDA i : i > 0)
    IN  <<n, [i \in 1..Len(at) |-> IF at[i] <= n THEN x.elems[at[i]] ELSE Null]>>

\* parentEnv: beyond the empty environment there is nothing.
ParentEnv(env) == IF env \in Envs THEN parent[env] ELSE "nil"
Nth(env, n) ==
    LET at[i \in Nat] == IF i = 0 THEN env ELSE ParentEnv(at[i - 1]) IN at[n]

\* The loop of loaderGetParentEnvs with its cycleDetector, which makes two
\* steps for each: it ends at the empty environment or where the two meet.
Meets(env, n) == Nth(env, n) = Empty \/ Nth(env, n) = Nth(env, 2 * n)
LoopEnds(env) ==
    CHOOSE n \in 1..(2 * Cardinality(Envs) + 1) :
        Meets(env, n) /\ \A m \in 1..(n - 1) : ~Meets(env, m)

ParentEnvs(env) == [i \in 1..LoopEnds(env) |-> Nth(env, i)]
--------------------------------------------------------------------------
(* What the client sets is what it reads by the same reference, through    *)
(* elements of elements and attributes - but for NULL, which takes an      *)
(* element away, and calls, which R evaluates on the way.                  *)
GetAfterSet ==
    last.set /\ last.v.type \notin {"NULL", "call"} => Dereference(last.ref) = last.v

\* References whose paths part, or that are about different variables.
Apart(r, s) ==
    \/ r.name # s.name \/ EnvUp(r.up) # EnvUp(s.up)
    \/ \E k \in 1..Len(r.path) : k <= Len(s.path) /\ r.path[k] # s.path[k]

(* Setting one value leaves what all other references read as it was,      *)
(* unless they could not be read before.                                   *)
OthersStay ==
    last'.set /\ last'.v # Null =>
        \A r \in Refs :
            Apart(r, last'.ref) /\ Dereference(r) \notin {Fails, Null} =>
                Dereference(r)' = Dereference(r)

\* The pages of a listing with the size k: a page for every start below n.
Pages(page(_, _), n, k) ==
    FlattenSeq([i \in 1..((n + k - 1) \div k) |-> page((i - 1) * k, i * k)[2]])

(* Asking for page after page lists every variable that passes the filter  *)
(* once and with the value a reference to it reads; the total count says   *)
(* how many there are.                                                     *)
PagesOfEnvs ==
    \A env \in Envs, noHidden, only, no \in BOOLEAN, k \in 1..2 :
        LET page(start, end) == PageOfEnv(env, noHidden, only, no, start, end)
            n == page(0, k)[1]
            listed == Pages(page, n, k)
        IN  /\ Len(listed) = n
            /\ Cardinality({listed[i].name : i \in 1..n}) = n
            /\ \A i \in 1..n : listed[i].value = Variable(env, listed[i].name)
            /\ ~(only /\ no) =>
                   {listed[i].name : i \in 1..n} =
                       {m \in Names : /\ value[env][m] # Unbound
                                      /\ noHidden => m \notin Hidden
                                      /\ only => value[env][m].type = "function"
                                      /\ no => value[env][m].type # "function"}

(* The same of lists: position i of the listing is what a reference to     *)
(* element i reads.  (A page that begins beyond the end is not empty: R    *)
(* counts down.  So is the first page of an empty list.)                   *)
PagesOfLists ==
    \A env \in Envs, name \in Names, k \in 1..3 :
        LET x == Variable(env, name)
            page(start, end) == PageOfList(x, start, end)
            listed == Pages(page, Len(x.elems), k)
        IN  x.type = "list" =>
                /\ Len(listed) = Len(x.elems)
                /\ \A i \in 1..Len(listed) : listed[i] = Get(x, Element(i - 1))

(* The environments listed are the enclosing ones in their order, none     *)
(* twice; when there is no circle it is all of them.  (On some circles the *)
(* loop ends before it has seen all of it.)                                *)
ParentsOnceEach ==
    \A env \in Envs :
        LET listed == ParentEnvs(env)
        IN  /\ IsInjective(listed)
            /\ Empty \in {Nth(env, n) : n \in 0..Cardinality(Envs)} => Last(listed) = Empty
=============================================================================
