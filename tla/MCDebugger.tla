---------------------------- MODULE MCDebugger ----------------------------
(* The debugger, side by side and told apart by `part`:                    *)
(*   "flags"           DebugFlags: two closures of one expression, whose   *)
(*                     body is a block, and one whose body is none         *)
(*   "links", "lines"  Breakpoints: three on one position that may have    *)
(*                     masters; three on two positions without masters     *)
(*   "crowd"           Breakpoints: four on one position, whose masters    *)
(*                     have no master themselves and slaves that never     *)
(*                     stay armed                                          *)
(*   "steps", "asks"   Stepping: one run with two environments; two runs   *)
(*                     that threads of the client pause and stop, with one *)
(* The variables of the other parts rest.                                  *)
EXTENDS DebugFlags, Stepping, Breakpoints, TLC
CONSTANTS f1, f2, f3, e1, e2, b1, b2, b3, b4, p1, p2, v1
VARIABLES part

McMadeBy == f1 :> e1 @@ f2 :> e1 @@ f3 :> e2

Three == {b1, b2, b3}
McIds == Three \cup {b4}
Setting(enable, once) == [enabled |-> enable, removeAfterHit |-> once]
OnceOrOften == {Setting(TRUE, FALSE), Setting(TRUE, TRUE)}
McSettings == OnceOrOften \cup {Setting(FALSE, FALSE)}
OnOneLine == \A b \in Live' : table'[b].at = p1 /\ table'[b].settings \in OnceOrOften
WithoutMasters == \A b \in Live' : table'[b].master = None
OnlyThree == Live' \subseteq Three
OneLevel == \A b \in Live' :
    /\ table'[b].settings = Setting(TRUE, FALSE) /\ ~table'[b].slaveLeaveEnabled
    /\ table'[b].master \in Live' => table'[table'[b].master].master \notin Live'

Steps == INSTANCE Stepping
    WITH Kinds <- {"stepped", "unstepped"}, MaxRuns <- 1, MaxAsks <- 0
Asks == INSTANCE Stepping
    WITH Envs <- {}, Kinds <- {"stepped", "quiet"}, MaxHeight <- 4

MCInit ==
    /\ part \in {"flags", "links", "lines", "crowd", "steps", "asks"}
    /\ Init /\ SteppingInit /\ BreakpointsInit

MCNext ==
    /\ \/ part = "flags" /\ Next /\ UNCHANGED <<breakpointVars, steppingVars>>
       \/ /\ part \in {"links", "lines", "crowd"} /\ BreakpointsNext
          /\ part = "links" => OnOneLine /\ OnlyThree
          /\ part = "lines" => WithoutMasters /\ OnlyThree
          /\ part = "crowd" => OnOneLine /\ OneLevel
          /\ UNCHANGED <<vars, steppingVars>>
       \/ /\ \/ part = "steps" /\ Steps!SteppingNext
             \/ part = "asks" /\ Asks!SteppingNext
          /\ UNCHANGED <<vars, breakpointVars>>
    /\ UNCHANGED part

MCSpec == MCInit /\ [][MCNext]_<<vars, breakpointVars, steppingVars, part>>

IdSymmetry == Permutations(Three)
===========================================================================
