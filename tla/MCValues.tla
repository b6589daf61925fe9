----------------------------- MODULE MCValues -----------------------------
(* How values reach the client, side by side and told apart by `part`:     *)
(*   "exclusive", "shared"        PersistentRefs, without and with indices *)
(*                                that are given again too early           *)
(*   "lists", "pages", "parents"  References: a list of lists of one       *)
(*                                variable; two variables of two           *)
(*                                environments; four environments          *)
(* The variables of the other parts rest.                                  *)
EXTENDS PersistentRefs, TLC
CONSTANTS t1, t2, g, h, i, j, v1, v2
VARIABLES part,
          value, parent, last, sets

SharedFrames == INSTANCE PersistentRefs
    WITH MaxSlots <- 3, MaxPending <- 1, MaxGiven <- 2

Val == INSTANCE References
    WITH Envs <- {}, Global <- g, NameOrder <- <<>>, Hidden <- {}, Given <- {}, Sent <- {},
         MaxIndex <- 0, MaxSets <- 0, MaxParents <- 0
Nested == Val!List(<<Val!List(<<Val!Atom("a")>>), Val!Atom("b")>>)
ToSend == {Val!Atom("a"), Val!Null, Val!List(<<Val!Atom("b")>>), Val!Call("b")}
Lists == INSTANCE References
    WITH Envs <- {g}, Global <- g, NameOrder <- <<v1>>, Hidden <- {}, Sent <- ToSend,
         Given <- ToSend \cup {Nested, [Nested EXCEPT !.attrs = <<Val!Atom("c")>>]},
         MaxIndex <- 1, MaxSets <- 3, MaxParents <- 0
Pages == INSTANCE References
    WITH Envs <- {g, h}, Global <- g, NameOrder <- <<v1, v2>>, Hidden <- {v2},
         Sent <- {Val!Atom("a")}, Given <- {Val!Atom("a"), Val!Function, Nested},
         MaxIndex <- 0, MaxSets <- 1, MaxParents <- 2
Parents == INSTANCE References
    WITH Envs <- {g, h, i, j}, Global <- g, NameOrder <- <<v1>>, Hidden <- {}, Sent <- {},
         Given <- {}, MaxIndex <- 0, MaxSets <- 0, MaxParents <- 0
referenceVars == <<value, parent, last, sets>>

MCInit ==
    /\ part \in {"exclusive", "shared", "lists", "pages", "parents"}
    /\ RefsInit
    /\ CASE part = "lists" -> Lists!Init
         [] part = "pages" -> Pages!Init
         [] part = "parents" -> Parents!Init
         [] OTHER -> Val!Init

MCNext ==
    /\ \/ /\ \/ part = "exclusive" /\ RefsNext /\ ~regiven'
             \/ part = "shared" /\ SharedFrames!RefsNext
          /\ UNCHANGED referenceVars
       \/ /\ \/ part = "lists" /\ Lists!Next
             \/ part = "pages" /\ Pages!Next
             \/ part = "parents" /\ Parents!Next
          /\ UNCHANGED refsVars
    /\ UNCHANGED part

MCSpec == MCInit /\ [][MCNext]_<<refsVars, referenceVars, part>>

TableSymmetry == Permutations({t1, t2})

\* What a reference reads is what was set through it, other references read
\* what they did, and pages of lists and environments and the enclosing
\* environments are listed completely and once (RRefs, loaderGetVariables,
\* setValue, loaderGetParentEnvs).
ReferencesMeanTheirValues ==
    /\ [](part = "lists" => Lists!GetAfterSet /\ Lists!PagesOfLists)
    /\ [](part = "pages" => Pages!PagesOfEnvs)
    /\ [](part = "parents" => Parents!ParentsOnceEach)
    /\ [][part = "lists" => Lists!OthersStay]_referenceVars
=============================================================================
