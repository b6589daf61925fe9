-------------------------- MODULE MainThreadCall --------------------------
(***************************************************************************)
(* RPIServiceImpl::executeOnMainThread and the end of the process.  A gRPC *)
(* handler posts a function to the main thread and polls until it has run; *)
(* when its client cancels, it raises R's interrupt flag, once, and only   *)
(* while its own function is running.  state, mutex and condVar live in    *)
(* the handler's frame; the posted closure uses them by reference.         *)
(*                                                                         *)
(* The event loop is taken as TaskQueue describes it: two queues, served   *)
(* while the main thread is idle, in a nested loop of a running call       *)
(* (ordinary calls), or whenever R lets handlers run (immediate ones).     *)
(***************************************************************************)
EXTENDS Naturals, Sequences, FiniteSets

CONSTANTS Calls,            \* one call of executeOnMainThread each
          ImmediateCalls,   \* those with immediate = true
          Nesters,          \* calls whose function runs a nested event loop
          Endless,          \* calls whose function ends only if interrupted
          Jumpers,          \* calls whose function may jump to top level
          Quitters          \* calls whose function may end R: q()

ASSUME CallAssumption ==
    /\ ImmediateCalls \subseteq Calls /\ Nesters \subseteq Calls
    /\ Endless \subseteq Calls /\ Jumpers \subseteq Calls /\ Quitters \subseteq Calls

VARIABLES queue, immediateQueue,   \* posted closures, oldest first
          stack,                   \* closures on the main thread, innermost last
          phase,                   \* where each of those closures stands
          state,                   \* executeOnMainThread: state
          rpc,                     \* where the handler of each call stands
          cancelled,               \* executeOnMainThread: cancelled
          clientGone,              \* context->IsCancelled()
          interrupt,               \* R_interrupts_pending
          unwinding,               \* a jump to top level is under way
          quitAsked,               \* progress of the RPC quit
          terminate, terminateProceed,
          serviceGone              \* quitRPIService has returned

mainVars == <<stack, phase, unwinding>>
quitVars == <<quitAsked, terminate, terminateProceed, serviceGone>>
vars == <<queue, immediateQueue, mainVars, state, rpc, cancelled, clientGone,
          interrupt, quitVars>>

OrdinaryCalls == Calls \ ImmediateCalls

TypeOK ==
    /\ queue \in Seq(OrdinaryCalls)
    /\ immediateQueue \in Seq(ImmediateCalls)
    /\ stack \in Seq(Calls)
    /\ phase \in [Calls -> {"none", "starting", "running", "finishing"}]
    /\ state \in [Calls -> {"PENDING", "RUNNING", "INTERRUPTING",
                            "INTERRUPTED", "DONE"}]
    /\ rpc \in [Calls -> {"idle", "check", "raise", "store", "waiting",
                          "returned"}]
    /\ cancelled \in [Calls -> BOOLEAN]
    /\ clientGone \in [Calls -> BOOLEAN]
    /\ quitAsked \in {"no", "raised", "posted", "taken"}
    /\ interrupt \in BOOLEAN /\ unwinding \in BOOLEAN
    /\ terminate \in BOOLEAN /\ terminateProceed \in BOOLEAN
    /\ serviceGone \in BOOLEAN

Init ==
    /\ queue = <<>> /\ immediateQueue = <<>> /\ stack = <<>>
    /\ phase = [c \in Calls |-> "none"]
    /\ state = [c \in Calls |-> "PENDING"]
    /\ rpc = [c \in Calls |-> "idle"]
    /\ cancelled = [c \in Calls |-> FALSE]
    /\ clientGone = [c \in Calls |-> FALSE]
    /\ interrupt = FALSE /\ unwinding = FALSE
    /\ quitAsked = "no"
    /\ terminate = FALSE /\ terminateProceed = FALSE /\ serviceGone = FALSE

\* The handler holds the call's mutex except in condVar.wait_for.
InFlight(c) == rpc[c] \in {"check", "raise", "store", "waiting"}
MutexFree(c) == rpc[c] \notin {"check", "raise", "store"}
--------------------------------------------------------------------------
(* The gRPC handler.                                                       *)

Post(c) ==
    /\ rpc[c] = "idle" /\ ~serviceGone
    /\ rpc' = [rpc EXCEPT ![c] = "check"]
    /\ IF c \in ImmediateCalls
         THEN immediateQueue' = Append(immediateQueue, c) /\ UNCHANGED queue
         ELSE queue' = Append(queue, c) /\ UNCHANGED immediateQueue
    /\ UNCHANGED <<mainVars, state, cancelled, clientGone, interrupt, quitVars>>

\* Mutant: a cancelled handler returns at once.
CheckReturnsCancelled(c) ==
    /\ rpc[c] = "check"
    /\ rpc' = [rpc EXCEPT ![c] = IF \/ terminateProceed \/ state[c] = "DONE"
                                    \/ clientGone[c] THEN "returned" ELSE "waiting"]
    /\ UNCHANGED <<queue, immediateQueue, mainVars, state, cancelled, clientGone,
                   interrupt, quitVars>>

\* The while condition and the two tests of its body.
Check(c) ==
    /\ rpc[c] = "check"
    /\ \/ /\ terminateProceed \/ state[c] = "DONE"
          /\ rpc' = [rpc EXCEPT ![c] = "returned"]
          /\ UNCHANGED <<state, cancelled>>
       \/ /\ ~terminateProceed
          /\ state[c] = "RUNNING" /\ ~cancelled[c] /\ clientGone[c]
          /\ state' = [state EXCEPT ![c] = "INTERRUPTING"]
          /\ cancelled' = [cancelled EXCEPT ![c] = TRUE]
          /\ rpc' = [rpc EXCEPT ![c] = "raise"]
       \/ /\ ~terminateProceed /\ state[c] # "DONE"
          /\ ~(state[c] = "RUNNING" /\ ~cancelled[c] /\ clientGone[c])
          /\ rpc' = [rpc EXCEPT ![c] = "waiting"]
          /\ UNCHANGED <<state, cancelled>>
    /\ UNCHANGED <<queue, immediateQueue, mainVars, clientGone, interrupt, quitVars>>

\* asyncInterrupt().
Raise(c) ==
    /\ rpc[c] = "raise"
    /\ interrupt' = TRUE
    /\ rpc' = [rpc EXCEPT ![c] = "store"]
    /\ UNCHANGED <<queue, immediateQueue, mainVars, state, cancelled, clientGone,
                   quitVars>>

StoreInterrupted(c) ==
    /\ rpc[c] = "store"
    /\ state' = [state EXCEPT ![c] = "INTERRUPTED"]
    /\ rpc' = [rpc EXCEPT ![c] = "waiting"]
    /\ UNCHANGED <<queue, immediateQueue, mainVars, cancelled, clientGone, interrupt,
                   quitVars>>

\* wait_for ends: notified, or after 25 ms.
Wake(c) ==
    /\ rpc[c] = "waiting"
    /\ rpc' = [rpc EXCEPT ![c] = "check"]
    /\ UNCHANGED <<queue, immediateQueue, mainVars, state, cancelled, clientGone,
                   interrupt, quitVars>>

\* External: the client cancels, or its connection breaks.
ClientCancels(c) ==
    /\ InFlight(c) /\ ~clientGone[c]
    /\ clientGone' = [clientGone EXCEPT ![c] = TRUE]
    /\ UNCHANGED <<queue, immediateQueue, mainVars, state, rpc, cancelled, interrupt,
                   quitVars>>
--------------------------------------------------------------------------
(* The posted closure, on the main thread.  After terminate the main       *)
(* thread is in quitRPIService and then in exit: it runs no closure.       *)

Top == stack[Len(stack)]
OnTop(c, p) == ~terminate /\ stack # <<>> /\ c = Top /\ phase[c] = p

\* Places where the event loop may take an ordinary / an immediate closure.
AtEventLoop == ~terminate /\ (stack = <<>> \/ (OnTop(Top, "running") /\ Top \in Nesters))
AtHandler == ~terminate /\ (stack = <<>> \/ OnTop(Top, "running"))

\* A closure is taken and clears R_interrupts_pending ...
Enter(c) ==
    /\ interrupt' = FALSE
    /\ stack' = Append(stack, c)
    /\ phase' = [phase EXCEPT ![c] = "starting"]
    /\ UNCHANGED <<unwinding, state, rpc, cancelled, clientGone, quitVars>>

Begin ==
    /\ AtEventLoop /\ immediateQueue = <<>> /\ queue # <<>>
    /\ queue' = Tail(queue)
    /\ Enter(Head(queue))
    /\ UNCHANGED immediateQueue

BeginImmediate ==
    /\ AtHandler /\ immediateQueue # <<>>
    /\ immediateQueue' = Tail(immediateQueue)
    /\ Enter(Head(immediateQueue))
    /\ UNCHANGED queue

\* Mutant: R_interrupts_pending is cleared after the compare-and-swap.
RunThenClear(c) ==
    /\ OnTop(c, "starting")
    /\ \/ /\ state[c] = "PENDING"
          /\ state' = [state EXCEPT ![c] = "RUNNING"]
          /\ UNCHANGED <<phase, interrupt>>
       \/ /\ state[c] # "PENDING"
          /\ interrupt' = FALSE
          /\ phase' = [phase EXCEPT ![c] = "running"]
          /\ UNCHANGED state
    /\ UNCHANGED <<queue, immediateQueue, stack, unwinding, rpc, cancelled,
                   clientGone, quitVars>>

\* ... before its compare-and-swap makes the call one that can be interrupted.
Run(c) ==
    /\ OnTop(c, "starting")
    /\ state[c] = "PENDING"
    /\ state' = [state EXCEPT ![c] = "RUNNING"]
    /\ phase' = [phase EXCEPT ![c] = "running"]
    /\ UNCHANGED <<queue, immediateQueue, stack, unwinding, rpc, cancelled,
                   clientGone, interrupt, quitVars>>

Return(c) ==
    /\ OnTop(c, "running") /\ c \notin Endless
    /\ phase' = [phase EXCEPT ![c] = "finishing"]
    /\ UNCHANGED <<queue, immediateQueue, stack, unwinding, state, rpc, cancelled,
                   clientGone, interrupt, quitVars>>

\* R notices the flag: the function ends with RInterruptedException.
Interrupted(c) ==
    /\ OnTop(c, "running") /\ interrupt
    /\ interrupt' = FALSE
    /\ phase' = [phase EXCEPT ![c] = "finishing"]
    /\ UNCHANGED <<queue, immediateQueue, stack, unwinding, state, rpc, cancelled,
                   clientGone, quitVars>>

\* RUnwindException is thrown on, so every closure on the stack is left
\* through its Finally.
JumpToTopLevel(c) ==
    /\ OnTop(c, "running") /\ c \in Jumpers
    /\ unwinding' = TRUE
    /\ phase' = [phase EXCEPT ![c] = "finishing"]
    /\ UNCHANGED <<queue, immediateQueue, stack, state, rpc, cancelled, clientGone,
                   interrupt, quitVars>>

\* Mutant: the Finally does not wait for the handler's second store.
ConcludeAnyState(c) ==
    /\ OnTop(c, "finishing")
    /\ state' = [state EXCEPT ![c] = "DONE"]
    /\ interrupt' = FALSE
    /\ stack' = SubSeq(stack, 1, Len(stack) - 1)
    /\ LET left == [phase EXCEPT ![c] = "none"]
       IN  phase' = IF unwinding /\ Len(stack) > 1
                      THEN [left EXCEPT ![stack[Len(stack) - 1]] = "finishing"]
                      ELSE left
    /\ unwinding' = (unwinding /\ Len(stack) > 1)
    /\ UNCHANGED <<queue, immediateQueue, rpc, cancelled, clientGone, quitVars>>

\* The Finally: with the mutex, and not between the two stores of the
\* handler's cancellation.
Conclude(c) ==
    /\ OnTop(c, "finishing")
    /\ MutexFree(c) /\ state[c] # "INTERRUPTING"
    /\ state' = [state EXCEPT ![c] = "DONE"]
    /\ interrupt' = FALSE
    /\ stack' = SubSeq(stack, 1, Len(stack) - 1)
    /\ LET left == [phase EXCEPT ![c] = "none"]
       IN  phase' = IF unwinding /\ Len(stack) > 1
                      THEN [left EXCEPT ![stack[Len(stack) - 1]] = "finishing"]
                      ELSE left
    /\ unwinding' = (unwinding /\ Len(stack) > 1)
    /\ UNCHANGED <<queue, immediateQueue, rpc, cancelled, clientGone, quitVars>>
--------------------------------------------------------------------------
(* The end of the process.                                                 *)

\* The RPC quit: asyncInterrupt, then an immediate task that calls q().  Its
\* order among the other immediate tasks is left open.
QuitRaise ==
    /\ quitAsked = "no" /\ ~serviceGone
    /\ quitAsked' = "raised"
    /\ interrupt' = TRUE
    /\ UNCHANGED <<queue, immediateQueue, mainVars, state, rpc, cancelled, clientGone,
                   terminate, terminateProceed, serviceGone>>

QuitPost ==
    /\ quitAsked = "raised"
    /\ quitAsked' = "posted"
    /\ UNCHANGED <<queue, immediateQueue, mainVars, state, rpc, cancelled, clientGone,
                   interrupt, terminate, terminateProceed, serviceGone>>

QuitTask ==
    /\ AtHandler /\ quitAsked = "posted"
    /\ quitAsked' = "taken"
    /\ interrupt' = FALSE
    /\ terminate' = TRUE
    /\ UNCHANGED <<queue, immediateQueue, mainVars, state, rpc, cancelled, clientGone,
                   terminateProceed, serviceGone>>

\* The function of a call ends R: quitRPIService starts.
CallQuits(c) ==
    /\ OnTop(c, "running") /\ c \in Quitters
    /\ terminate' = TRUE
    /\ UNCHANGED <<queue, immediateQueue, mainVars, state, rpc, cancelled, clientGone,
                   interrupt, quitAsked, terminateProceed, serviceGone>>

\* Mutant: quitProceed does not look at terminate.
QuitProceedAnyTime ==
    /\ ~serviceGone
    /\ terminateProceed' = TRUE
    /\ UNCHANGED <<queue, immediateQueue, mainVars, state, rpc, cancelled, clientGone,
                   interrupt, quitAsked, terminate, serviceGone>>

\* The RPC quitProceed, which any client may send at any time.
QuitProceed ==
    /\ ~serviceGone
    /\ terminateProceed' = (terminateProceed \/ terminate)
    /\ UNCHANGED <<queue, immediateQueue, mainVars, state, rpc, cancelled, clientGone,
                   interrupt, quitAsked, terminate, serviceGone>>

\* quitRPIService waits for it at most 100 * 25 ms.
QuitTimeout ==
    /\ terminate /\ ~terminateProceed
    /\ terminateProceed' = TRUE
    /\ UNCHANGED <<queue, immediateQueue, mainVars, state, rpc, cancelled, clientGone,
                   interrupt, quitAsked, terminate, serviceGone>>

\* server->Shutdown waits for the handlers; the service is then destroyed.
Shutdown ==
    /\ terminateProceed /\ terminate /\ ~serviceGone
    /\ \A c \in Calls : ~InFlight(c)
    /\ quitAsked # "raised"
    /\ serviceGone' = TRUE
    /\ interrupt' = FALSE
    /\ UNCHANGED <<queue, immediateQueue, mainVars, state, rpc, cancelled, clientGone,
                   quitAsked, terminate, terminateProceed>>
--------------------------------------------------------------------------
Handler(c) == Check(c) \/ Raise(c) \/ StoreInterrupted(c) \/ Wake(c)

Closure(c) == \/ Run(c) \/ Return(c) \/ Interrupted(c)
              \/ JumpToTopLevel(c) \/ CallQuits(c) \/ Conclude(c)

MainStep == \/ Begin \/ BeginImmediate \/ QuitTask \/ QuitTimeout \/ Shutdown
            \/ \E c \in Calls : Closure(c)

Next == \/ MainStep \/ QuitRaise \/ QuitPost \/ QuitProceed
        \/ \E c \in Calls : Post(c) \/ Handler(c) \/ ClientCancels(c)

Spec == Init /\ [][Next]_vars

\* Threads are scheduled; functions not in Endless end, R notices its
\* interrupt flag; the main thread gets the mutex that a handler leaves free
\* for 25 ms in every round.  Clients need not do anything.
Fairness == /\ WF_vars(MainStep) /\ WF_vars(QuitPost)
            /\ SF_vars(\E c \in Calls : Conclude(c))
            /\ \A c \in Calls : WF_vars(Handler(c))

FairSpec == Spec /\ Fairness
--------------------------------------------------------------------------
\* The handler's frame outlives every use of it: a closure that is queued or
\* running belongs to a handler that has not returned, up to the point where
\* the main thread will run none any more (the references captured by the
\* lambda in executeOnMainThread; the test of terminate in quitProceed).
NoDanglingFrame ==
    ~terminate =>
        \A c \in Calls :
            (\E i \in 1..Len(queue) : queue[i] = c)
              \/ (\E i \in 1..Len(immediateQueue) : immediateQueue[i] = c)
              \/ phase[c] # "none"
            => InFlight(c)

\* An interrupt raised for a cancelled call ends with that call: whenever the
\* flag is up, a cancelled call is on the main thread's stack or the client
\* has asked to quit.  So the next call is never hit by an old interrupt.
NoStrayInterrupt ==
    interrupt => \/ \E c \in Calls : cancelled[c] /\ phase[c] # "none"
                 \/ quitAsked # "no"

\* Each call implements the promise made to its handler.
Stage(c) ==
    IF rpc[c] = "idle" THEN "new"
    ELSE IF rpc[c] = "returned" THEN "answered"
    ELSE IF state[c] = "DONE" THEN "ran"
    ELSE IF state[c] = "PENDING" THEN "asked"
    ELSE "runs"
Promise == INSTANCE RemoteCall
    WITH stage <- [c \in Calls |-> Stage(c)], dying <- terminate
ImplementsRemoteCall == Promise!CallSpec

\* A call whose client has gone ends even if its function would run for
\* ever (flat configurations: a nested call clears the one flag there is).
CancelledCallsReturn ==
    \A c \in Calls : state[c] = "RUNNING" /\ clientGone[c] ~> rpc[c] = "returned"

\* Once R has begun to end, every handler returns and the service goes.
QuitCompletes == terminate ~> serviceGone
===========================================================================
