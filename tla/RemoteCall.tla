---------------------------- MODULE RemoteCall ----------------------------
(***************************************************************************)
(* What a gRPC handler that calls executeOnMainThread is promised: its     *)
(* function runs on the main thread at most once, and while it is being    *)
(* run or may still be run the handler's frame, which the function uses by *)
(* reference, exists.  Only the end of the process sets a handler free     *)
(* earlier, and from then on the main thread runs nothing.                 *)
(***************************************************************************)
CONSTANT Calls

VARIABLES stage,   \* [Calls -> "new", "asked", "runs", "ran", "answered"]
          dying    \* the process is ending

callVars == <<stage, dying>>

CallInit == stage = [c \in Calls |-> "new"] /\ dying = FALSE

Ask(c) ==
    /\ stage[c] = "new"
    /\ stage' = [stage EXCEPT ![c] = "asked"]
    /\ UNCHANGED dying

Execute(c) ==
    /\ stage[c] = "asked" /\ ~dying
    /\ stage' = [stage EXCEPT ![c] = "runs"]
    /\ UNCHANGED dying

Complete(c) ==
    /\ stage[c] = "runs" /\ ~dying
    /\ stage' = [stage EXCEPT ![c] = "ran"]
    /\ UNCHANGED dying

Answer(c) ==
    /\ stage[c] = "ran" \/ (dying /\ stage[c] \in {"asked", "runs"})
    /\ stage' = [stage EXCEPT ![c] = "answered"]
    /\ UNCHANGED dying

Die == dying' = TRUE /\ UNCHANGED stage

CallNext == Die \/ \E c \in Calls : Ask(c) \/ Execute(c) \/ Complete(c) \/ Answer(c)

CallSpec == CallInit /\ [][CallNext]_callVars
===========================================================================
