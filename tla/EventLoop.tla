---------------------------- MODULE EventLoop ----------------------------
(***************************************************************************)
(* EventLoopUnix.cpp.  Threads hand tasks to the main thread through two   *)
(* queues and wake it by writing one byte to a pipe.  The main thread runs *)
(* runEventLoop, nested as deep as running tasks call it again (readline,  *)
(* debug prompt, system(), requests to the client); a task ends the        *)
(* innermost loop by calling breakEventLoop.                               *)
(*                                                                         *)
(* A poster is known by its task.  Between its push and its release of     *)
(* pipeMutex (eventLoopExecute) its post is "pushed".  main is the stack   *)
(* of activations on the main thread, innermost last: a record says where  *)
(* it stands and which task it runs.                                       *)
(***************************************************************************)
EXTENDS Naturals, Sequences, FiniteSets

CONSTANTS Normal,      \* tasks posted with immediate = false
          Immediate,   \* tasks posted with immediate = true
          Breakers,    \* ordinary tasks that call breakEventLoop
          Nesters,     \* tasks that run a nested event loop
          Jumpers,     \* tasks that leave by a jump to top level
          NoTask

Tasks == Normal \cup Immediate

ASSUME TaskAssumption ==
    /\ Normal \cap Immediate = {}
    /\ Breakers \subseteq Normal
    /\ Nesters \subseteq Tasks
    /\ Jumpers \subseteq Normal
    /\ Breakers \cap Nesters = {} /\ Breakers \cap Jumpers = {}
    /\ NoTask \notin Tasks

VARIABLES queue, immediateQueue,   \* oldest task first
          pipeBytes,               \* bytes in the pipe
          pipeFilled,              \* the flag pipeMutex guards
          doBreak,                 \* doBreakEventLoop
          post,                    \* progress of each eventLoopExecute
          main                     \* the stack of the main thread

vars == <<queue, immediateQueue, pipeBytes, pipeFilled, doBreak, post, main>>

\* Where an activation can stand: the first poll of a batch, before the
\* immediate tasks of an ordinary one, in f(), at the test of doBreak, the
\* next poll of the batch, in R_checkActivity, at the lock of the input
\* handler, in the handler after it; running an immediate task; or in the
\* input handler run by the R code of a task.
Places == {"first", "before", "running", "after", "again", "block",
           "handler", "drained", "immediate", "handling"}
Frames == [at : Places, task : Tasks \cup {NoTask}]

TypeOK ==
    /\ queue \in Seq(Normal)
    /\ immediateQueue \in Seq(Immediate)
    /\ pipeBytes \in 0..1
    /\ pipeFilled \in BOOLEAN
    /\ doBreak \in BOOLEAN
    /\ post \in [Tasks -> {"idle", "pushed", "posted"}]
    /\ main \in Seq(Frames)
    /\ main # <<>>

FreshLoop == [at |-> "first", task |-> NoTask]

Init ==
    /\ queue = <<>> /\ immediateQueue = <<>>
    /\ pipeBytes = 0
    /\ pipeFilled = FALSE
    /\ doBreak = FALSE
    /\ post = [t \in Tasks |-> "idle"]
    /\ main = <<FreshLoop>>

PipeMutexFree == \A t \in Tasks : post[t] # "pushed"
--------------------------------------------------------------------------
(* eventLoopExecute.  immediate also asks the later package to call        *)
(* runImmediateTasks: that call is StartImmediate inside a running task.   *)

\* Mutant: the newest task goes first.
PostPushInFront(t) ==
    /\ post[t] = "idle"
    /\ PipeMutexFree
    /\ IF t \in Immediate
         THEN immediateQueue' = <<t>> \o immediateQueue /\ UNCHANGED queue
         ELSE queue' = <<t>> \o queue /\ UNCHANGED immediateQueue
    /\ post' = [post EXCEPT ![t] = "pushed"]
    /\ UNCHANGED <<pipeBytes, pipeFilled, doBreak, main>>

PostPush(t) ==
    /\ post[t] = "idle"
    /\ PipeMutexFree
    /\ IF t \in Immediate
         THEN immediateQueue' = Append(immediateQueue, t) /\ UNCHANGED queue
         ELSE queue' = Append(queue, t) /\ UNCHANGED immediateQueue
    /\ post' = [post EXCEPT ![t] = "pushed"]
    /\ UNCHANGED <<pipeBytes, pipeFilled, doBreak, main>>

PostSignal(t) ==
    /\ post[t] = "pushed"
    /\ pipeBytes' = IF pipeFilled THEN pipeBytes ELSE pipeBytes + 1
    /\ pipeFilled' = TRUE
    /\ post' = [post EXCEPT ![t] = "posted"]
    /\ UNCHANGED <<queue, immediateQueue, doBreak, main>>
--------------------------------------------------------------------------
(* The main thread.                                                        *)

Top == main[Len(main)]
Below == SubSeq(main, 1, Len(main) - 1)
TopGoes(place) == main' = [main EXCEPT ![Len(main)].at = place]

\* queue.poll: the batch clears doBreak only when it begins.
Poll ==
    /\ Top.at \in {"first", "again"}
    /\ \/ /\ queue # <<>>
          /\ queue' = Tail(queue)
          /\ main' = Append(Below, [at |-> "before", task |-> Head(queue)])
          /\ doBreak' = (Top.at = "again" /\ doBreak)
       \/ /\ queue = <<>>
          /\ TopGoes("block")
          /\ UNCHANGED <<queue, doBreak>>
    /\ UNCHANGED <<immediateQueue, pipeBytes, pipeFilled, post>>

\* runImmediateTasks: called before an ordinary task, by the input handler,
\* and by R (its own input handling, the later package) inside any task.
StartImmediate ==
    /\ Top.at \in {"before", "drained", "running", "immediate", "handling"}
    /\ immediateQueue # <<>>
    /\ immediateQueue' = Tail(immediateQueue)
    /\ main' = Append(main, [at |-> "immediate", task |-> Head(immediateQueue)])
    /\ UNCHANGED <<queue, pipeBytes, pipeFilled, doBreak, post>>

ImmediateDone ==
    /\ Top.at = "immediate"
    /\ main' = Below
    /\ UNCHANGED <<queue, immediateQueue, pipeBytes, pipeFilled, doBreak, post>>

StartTask ==
    /\ Top.at = "before"
    /\ immediateQueue = <<>>
    /\ TopGoes("running")
    /\ UNCHANGED <<queue, immediateQueue, pipeBytes, pipeFilled, doBreak, post>>

TaskDone ==
    /\ Top.at = "running"
    /\ TopGoes("after")
    /\ doBreak' = (doBreak \/ Top.task \in Breakers)
    /\ UNCHANGED <<queue, immediateQueue, pipeBytes, pipeFilled, post>>

\* A task calls runEventLoop.
OpenLoop ==
    /\ Top.at \in {"running", "immediate"}
    /\ Top.task \in Nesters
    /\ main' = Append(main, FreshLoop)
    /\ UNCHANGED <<queue, immediateQueue, pipeBytes, pipeFilled, doBreak, post>>

\* A jump to top level unwinds every activation; mainLoop calls runEventLoop
\* again.
JumpToTopLevel ==
    /\ Top.at = "running"
    /\ Top.task \in Jumpers
    /\ main' = <<FreshLoop>>
    /\ UNCHANGED <<queue, immediateQueue, pipeBytes, pipeFilled, doBreak, post>>

\* Mutant: the loop forgets to take the break back.
CheckBreakKeepsIt ==
    /\ Top.at = "after"
    /\ \/ /\ doBreak
          /\ main' = IF Len(main) = 1 THEN <<FreshLoop>> ELSE Below
       \/ /\ ~doBreak
          /\ main' = Append(Below, [at |-> "again", task |-> NoTask])
    /\ UNCHANGED <<queue, immediateQueue, pipeBytes, pipeFilled, doBreak, post>>

\* Mutant: one task for each byte (if for do-while).
CheckBreakThenBlock ==
    /\ Top.at = "after"
    /\ main' = IF ~doBreak THEN Append(Below, [at |-> "block", task |-> NoTask])
               ELSE IF Len(main) = 1 THEN <<FreshLoop>> ELSE Below
    /\ doBreak' = FALSE
    /\ UNCHANGED <<queue, immediateQueue, pipeBytes, pipeFilled, post>>

\* The test after f(): the loop returns to the task that called it, the
\* outermost one to mainLoop, which calls it again.
CheckBreak ==
    /\ Top.at = "after"
    /\ \/ /\ doBreak
          /\ main' = IF Len(main) = 1 THEN <<FreshLoop>> ELSE Below
       \/ /\ ~doBreak
          /\ main' = Append(Below, [at |-> "again", task |-> NoTask])
    /\ doBreak' = FALSE
    /\ UNCHANGED <<queue, immediateQueue, pipeBytes, pipeFilled, post>>

\* R_checkActivity(-1) returns when the pipe can be read.
Activity ==
    /\ Top.at = "block"
    /\ pipeBytes > 0
    /\ TopGoes("handler")
    /\ UNCHANGED <<queue, immediateQueue, pipeBytes, pipeFilled, doBreak, post>>

\* Mutant: the handler leaves the flag up.
DrainKeepsFlag ==
    /\ Top.at = "handler"
    /\ PipeMutexFree
    /\ pipeBytes' = IF pipeFilled THEN pipeBytes - 1 ELSE pipeBytes
    /\ TopGoes("drained")
    /\ UNCHANGED <<queue, immediateQueue, pipeFilled, doBreak, post>>

\* R_runHandlers: the handler of initEventLoop takes the byte out.
Drain ==
    /\ Top.at = "handler"
    /\ PipeMutexFree
    /\ pipeBytes' = IF pipeFilled THEN pipeBytes - 1 ELSE pipeBytes
    /\ pipeFilled' = FALSE
    /\ TopGoes("drained")
    /\ UNCHANGED <<queue, immediateQueue, doBreak, post>>

\* R code of a task waits for input itself (Sys.sleep, later::run_now) and
\* so runs the same handler; its immediate tasks follow by StartImmediate.
DrainInTask ==
    /\ Top.at \in {"running", "immediate"}
    /\ pipeBytes > 0
    /\ PipeMutexFree
    /\ pipeBytes' = IF pipeFilled THEN pipeBytes - 1 ELSE pipeBytes
    /\ pipeFilled' = FALSE
    /\ main' = Append(main, [at |-> "handling", task |-> NoTask])
    /\ UNCHANGED <<queue, immediateQueue, doBreak, post>>

\* The handler has no immediate task left: back to the first poll of the
\* loop, or to the task whose R code ran the handler.
HandlerDone ==
    /\ immediateQueue = <<>>
    /\ \/ Top.at = "drained" /\ TopGoes("first")
       \/ Top.at = "handling" /\ main' = Below
    /\ UNCHANGED <<queue, immediateQueue, pipeBytes, pipeFilled, doBreak, post>>

MainStep == \/ Poll \/ StartImmediate \/ ImmediateDone \/ StartTask
            \/ TaskDone \/ OpenLoop \/ JumpToTopLevel \/ CheckBreak
            \/ Activity \/ Drain \/ DrainInTask \/ HandlerDone

Next == MainStep \/ \E t \in Tasks : PostPush(t) \/ PostSignal(t)

Spec == Init /\ [][Next]_vars

\* The main thread and a thread inside eventLoopExecute keep running; tasks
\* end (but one that runs a nested loop ends only after that loop's break).
Fairness ==
    /\ WF_vars(MainStep)
    /\ \A t \in Tasks : WF_vars(PostSignal(t))

FairSpec == Spec /\ Fairness
--------------------------------------------------------------------------
\* The one assumption under which immediate tasks are served as well: R code
\* evaluated by one does not itself run an event loop.  A loop opened there
\* blocks without looking at immediateQueue, whose byte is already gone.
ImmediateTasksDoNotNest == Nesters \cap Immediate = {}

\* No wake-up is lost: when the main thread is about to block, or blocks,
\* with nothing in the pipe, both queues are empty, or the thread that put
\* the task there has yet to write its byte (eventLoopExecute against the
\* handler of initEventLoop and runEventLoop, nested loops included).
NoLostWakeup ==
    Top.at = "block" /\ pipeBytes = 0 /\ PipeMutexFree
        => /\ queue = <<>>
           /\ ImmediateTasksDoNotNest => immediateQueue = <<>>

\* The flag tells the truth about the pipe, so the read in the handler never
\* blocks with pipeMutex held and the pipe never fills up.
FlagMatchesPipe == pipeFilled <=> pipeBytes = 1

\* A requested break ends the loop whose task requested it and no other: it
\* is pending only until the test that follows that task.
BreakBelongsToTop ==
    doBreak => Top.at = "after" /\ Top.task \in Breakers

Queued(t) == \/ \E i \in 1..Len(queue) : queue[i] = t
             \/ \E i \in 1..Len(immediateQueue) : immediateQueue[i] = t
Begun == {t \in Tasks : post[t] # "idle" /\ ~Queued(t)}

\* Tasks are started once each, in the order they were posted, whatever
\* loop, handler or nested loop starts them.
Promise == INSTANCE TaskQueue
    WITH ImmediateTasks <- Immediate, waiting <- queue, urgent <- immediateQueue,
         begun <- Begun
ImplementsTaskQueue == Promise!TaskSpec

\* Every posted task is started, even when it arrives while the main thread
\* blocks in the innermost of several loops or runs immediate tasks.
PostedTasksStart ==
    \A t \in Tasks :
        t \in Normal \/ ImmediateTasksDoNotNest
            => (post[t] = "pushed" ~> t \in Begun)
==========================================================================
