----------------------------- MODULE ForkPipes -----------------------------
(***************************************************************************)
(* The handlers of pthread_atfork: before a fork two pipes are made and a  *)
(* thread is started for each, after it parent and child close the ends    *)
(* that are the other's.  Descriptors are numbers that the system gives    *)
(* again as soon as they are free, and other threads open and close theirs *)
(* at any time, so a number closed twice may be somebody else's.           *)
(*                                                                         *)
(* What the pipes carry is the matter of Output.  Left out: forks that     *)
(* children make, and threads that cannot be started.                      *)
(***************************************************************************)
EXTENDS Naturals, FiniteSets, FiniteSetsExt

CONSTANTS MaxFds,      \* the process can have that many descriptors
          MaxForks     \* bound: forks

ASSUME PipesAssumption == MaxFds \in Nat /\ MaxForks \in Nat

VARIABLES fds,          \* whose each number is in the parent: an end or Free
          globalStdoutPipeFd, globalStderrPipeFd,   \* <<read, write>>, or Unset
          forker,       \* where the forking thread is
          forks,        \* how many forks there were
          children,     \* children alive, with the ends they hold
          readers,      \* handlerThreads: the number each reads, and for which pipe
          foreign       \* ghost: a number was closed that was not one's own

globals == <<globalStdoutPipeFd, globalStderrPipeFd>>
pipesVars == <<fds, globals, forker, forks, children, readers, foreign>>

Numbers == 1..MaxFds
Free == <<"free">>
Other == <<"other">>                      \* a descriptor of other code
End(k, id, end) == <<"pipe", k, id, end>> \* of the pipe id of the fork k
Unset == <<0, 0>>                         \* -1 in the code

PipesInit ==
    /\ fds = [n \in Numbers |-> Free]
    /\ globalStdoutPipeFd = Unset /\ globalStderrPipeFd = Unset
    /\ forker = "runs" /\ forks = 0
    /\ children = {} /\ readers = {} /\ foreign = FALSE
--------------------------------------------------------------------------
FreeNumbers(table) == {n \in Numbers : table[n] = Free}

\* pipe(2): the two lowest numbers, or an error and nothing changed.
CanPipe == Cardinality(FreeNumbers(fds)) >= 2
PipeNumbers ==
    LET n == Min(FreeNumbers(fds))
    IN  <<n, Min(FreeNumbers(fds) \ {n})>>
Opened(k, id, p) ==
    [fds EXCEPT ![p[1]] = End(k, id, "read"), ![p[2]] = End(k, id, "write")]

\* close(2) of numbers by code that takes them for those of the fork k.
OfFork(e, k) == e[1] = "pipe" /\ e[2] = k
Close(ns, k) ==
    /\ fds' = [n \in Numbers |-> IF n \in ns THEN Free ELSE fds[n]]
    /\ foreign' = (foreign \/ \E n \in ns \cap Numbers : fds[n] # Free /\ ~OfFork(fds[n], k))

Others ==
    /\ \E n \in Numbers :
           \/ fds[n] = Other /\ fds' = [fds EXCEPT ![n] = Free]
           \/ /\ n \in FreeNumbers(fds) /\ n = Min(FreeNumbers(fds))
              /\ fds' = [fds EXCEPT ![n] = Other]
    /\ UNCHANGED <<globals, forker, forks, children, readers, foreign>>

\* prepareHandler, with rpiService there, to its first pipe ...
Prepare ==
    /\ forker = "runs" /\ forks < MaxForks
    /\ forks' = forks + 1
    /\ globalStderrPipeFd' = Unset
    /\ IF CanPipe
       THEN /\ globalStdoutPipeFd' = PipeNumbers
            /\ fds' = Opened(forks', "stdout", PipeNumbers)
            /\ forker' = "pipes"
       ELSE /\ globalStdoutPipeFd' = Unset /\ UNCHANGED fds
            /\ forker' = "forks"
    /\ UNCHANGED <<children, readers, foreign>>

\* ... the second pipe and the threads ...
PipeStderr ==
    /\ forker = "pipes" /\ CanPipe
    /\ globalStderrPipeFd' = PipeNumbers
    /\ fds' = Opened(forks, "stderr", PipeNumbers)
    /\ readers' = readers \cup {[fork |-> forks, id |-> "stdout", fd |-> globalStdoutPipeFd[1]],
                                [fork |-> forks, id |-> "stderr", fd |-> PipeNumbers[1]]}
    /\ forker' = "forks"
    /\ UNCHANGED <<globalStdoutPipeFd, forks, children, foreign>>

\* ... or, when it cannot be made, the end of the first: its numbers stay.
PipeStderrFails ==
    /\ forker = "pipes" /\ ~CanPipe
    /\ Close({globalStdoutPipeFd[1], globalStdoutPipeFd[2]}, forks)
    /\ forker' = "forks"
    /\ UNCHANGED <<globals, forks, children, readers>>

\* Mutant of HasPipes: the first pipe is looked at.
HasStdoutPipe == globalStdoutPipeFd # Unset
HasPipes == globalStderrPipeFd # Unset

WriteEnds == {globalStdoutPipeFd[2], globalStderrPipeFd[2]}

\* fork(2) and childHandler: the child keeps the write ends and, without
\* them, writes as its parent would.
Fork ==
    /\ forker = "forks"
    /\ forker' = "parent"
    /\ children' = children \cup
           {[fork |-> forks,
             ends |-> IF HasPipes THEN {fds[n] : n \in WriteEnds \cap Numbers} ELSE {}]}
    /\ UNCHANGED <<fds, globals, forks, readers, foreign>>

\* Mutant of ParentCloses: the second pipe is forgotten.
ParentClosesFirst == {globalStdoutPipeFd[2]}
ParentCloses == WriteEnds

\* parentHandler.
Parent ==
    /\ forker = "parent"
    /\ forker' = "runs"
    /\ IF HasPipes THEN Close(ParentCloses, forks) ELSE UNCHANGED <<fds, foreign>>
    /\ UNCHANGED <<globals, forks, children, readers>>

\* The child exits, and its descriptors are closed.
ChildExits ==
    /\ \E c \in children : children' = children \ {c}
    /\ UNCHANGED <<fds, globals, forker, forks, readers, foreign>>

\* read(2) reports the end of a pipe when nobody can write to it any more.
HasWriter(r) ==
    \/ \E n \in Numbers : fds[n] = End(r.fork, r.id, "write")
    \/ \E c \in children : End(r.fork, r.id, "write") \in c.ends

\* CloseOnExit.
ReaderEnds ==
    \E r \in readers :
        /\ ~HasWriter(r)
        /\ Close({r.fd}, r.fork)
        /\ readers' = readers \ {r}
        /\ UNCHANGED <<globals, forker, forks, children>>

ForkSteps == PipeStderr \/ PipeStderrFails \/ Fork \/ Parent

PipesNext == Others \/ Prepare \/ ForkSteps \/ ChildExits \/ ReaderEnds

\* A fork goes on and threads notice the end; children may live for ever.
PipesFairness == WF_pipesVars(ForkSteps) /\ WF_pipesVars(ReaderEnds)

PipesSpec == PipesInit /\ [][PipesNext]_pipesVars /\ PipesFairness
--------------------------------------------------------------------------
\* The handlers and threads close no descriptor of other code, whichever
\* pipe could not be made and whoever took its numbers since
\* (prepareHandler, parentHandler, CloseOnExit).
ClosesOwnOnly == ~foreign

\* A child with pipes has both, each its own, so no text of it appears as
\* another's (childHandler).
ChildrenHaveTheirEnds ==
    \A c \in children : c.ends \in {{}, {End(c.fork, id, "write") : id \in {"stdout", "stderr"}}}

\* A fork closes no descriptor of other code and gives its child both its own
\* ends, whichever pipe could not be made (prepareHandler, parentHandler,
\* childHandler).
PipesBelongToTheirFork == ClosesOwnOnly /\ ChildrenHaveTheirEnds

\* When a child has exited its threads end, and nothing of its pipes stays
\* open (the parent has closed its write ends).
PipesAreClosed ==
    \A k \in 1..MaxForks :
        (k <= forks /\ \A c \in children : c.fork # k)
            ~> \/ \E c \in children : c.fork = k
               \/ \A n \in Numbers : ~OfFork(fds[n], k)
=============================================================================
