---------------------------- MODULE TaskQueue ----------------------------
(***************************************************************************)
(* What callers of eventLoopExecute are promised: the main thread starts   *)
(* every task they hand over once, ordinary tasks in the order they were   *)
(* handed over, immediate ones likewise, and never a task nobody posted.   *)
(***************************************************************************)
EXTENDS Naturals, Sequences

CONSTANTS Tasks, ImmediateTasks

VARIABLES waiting,   \* ordinary tasks, oldest first
          urgent,    \* immediate tasks, oldest first
          begun      \* tasks the main thread has started

taskVars == <<waiting, urgent, begun>>

TaskInit == waiting = <<>> /\ urgent = <<>> /\ begun = {}

Known == {waiting[i] : i \in 1..Len(waiting)}
           \cup {urgent[i] : i \in 1..Len(urgent)} \cup begun

Submit(t) ==
    /\ t \notin Known
    /\ IF t \in ImmediateTasks
         THEN urgent' = Append(urgent, t) /\ UNCHANGED waiting
         ELSE waiting' = Append(waiting, t) /\ UNCHANGED urgent
    /\ UNCHANGED begun

\* An ordinary task is taken off its queue (begun) before its first
\* instruction; what is taken is what starts next.
Begin ==
    /\ waiting # <<>>
    /\ begun' = begun \cup {Head(waiting)}
    /\ waiting' = Tail(waiting)
    /\ UNCHANGED urgent

BeginUrgent ==
    /\ urgent # <<>>
    /\ begun' = begun \cup {Head(urgent)}
    /\ urgent' = Tail(urgent)
    /\ UNCHANGED waiting

TaskNext == (\E t \in Tasks : Submit(t)) \/ Begin \/ BeginUrgent

TaskSpec == TaskInit /\ [][TaskNext]_taskVars
==========================================================================
