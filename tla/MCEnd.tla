------------------------------- MODULE MCEnd -------------------------------
(* Beginnings and ends, side by side and told apart by `part`:             *)
(*   "timer"    Termination: a tick is a second, and a round is shortened  *)
(*              from 60 ticks to 7                                         *)
(*   "session"  Session: two sessions, two versions of the data, two       *)
(*              failing steps                                              *)
(*   "pipes"    ForkPipes: descriptors run out for the first, the second   *)
(*              or no pipe of two forks                                    *)
EXTENDS Termination, Session, ForkPipes
VARIABLE part

mcVars == <<vars, sessionVars, pipesVars, part>>

MCInit ==
    /\ Init /\ SessionInit /\ PipesInit
    /\ part \in {"timer", "session", "pipes"}

MCNext ==
    /\ \/ part = "timer" /\ Next /\ UNCHANGED <<sessionVars, pipesVars>>
       \/ part = "session" /\ SessionNext /\ UNCHANGED <<vars, pipesVars>>
       \/ part = "pipes" /\ PipesNext /\ UNCHANGED <<vars, sessionVars>>
    /\ UNCHANGED part

\* The fairness of each part.
MCFairness ==
    /\ WF_vars(part = "timer" /\ Tick)
    /\ WF_vars(part = "timer" /\ Timer)
    /\ WF_vars(part = "timer" /\ ReadEvents)
    /\ WF_vars(part = "timer" /\ (Tell \/ Proceed \/ Shutdown \/ StopTimer \/ Joined))
    /\ WF_sessionVars(part = "session" /\ (Step \/ QuitRWrapper))
    /\ WF_pipesVars(part = "pipes" /\ ForkSteps)
    /\ WF_pipesVars(part = "pipes" /\ ReaderEnds)

MCSpec == MCInit /\ [][MCNext]_mcVars /\ MCFairness

\* Quitting ends the process, also when its client dies or never answers; so
\* does the client's quit request, wherever .Last or the saving fails, except
\* when .Last jumps to the top level; and a fork leaves nothing open once its
\* child has exited (quitRPIService, RPIServiceImpl::quit, parentHandler).
EndsAreReached == QuittingEnds /\ ClientsQuitEnds /\ PipesAreClosed
============================================================================
