---------------------------- MODULE Termination ----------------------------
(***************************************************************************)
(* The end of a kernel no client talks to: TerminationTimer, which looks   *)
(* for calls once per CLIENT_RPC_TIMEOUT, has the main thread quit and     *)
(* aborts a process that does not; and quitRPIService, which tells the     *)
(* client, waits for its answer, shuts the server down and stops the timer.*)
(*                                                                         *)
(* Time passes in ticks, and only when no thread has something to do at    *)
(* once.  What takes as long as it likes: R code that no interrupt ends,   *)
(* saving the workspace, the push into a full queue of events.  Started    *)
(* with --with-timeout.  Spurious wake-ups are left out.                   *)
(***************************************************************************)
EXTENDS Naturals

CONSTANTS RpcTimeout,     \* CLIENT_RPC_TIMEOUT_MILLIS
          Grace,          \* the timer's 5 seconds after q()
          ProceedWait,    \* 100 rounds of 25 ms
          ShutdownWait    \* the deadline of Server::Shutdown, 1 second

ASSUME TerminationAssumption ==
    /\ RpcTimeout \in Nat \ {0} /\ ProceedWait \in Nat /\ ShutdownWait \in Nat
    /\ Grace \in Nat /\ Grace > ProceedWait + ShutdownWait

VARIABLES rpcHappened, termination,
          timer,        \* the step of the timer's thread
          phase,        \* it watches for calls or gives grace
          left,         \* ticks to the time it computed
          notified,     \* it sleeps and was notified
          main, wait,   \* what the main thread does, for how long still
          posted,       \* a closure that quits is queued
          done,         \* quitRWrapper's
          proceed,      \* terminateProceed
          alive, full,  \* the client, and the queue it should read
          silent,       \* ghost: ticks since the last call
          spent,        \* ghost: ticks of grace spent before quitRPIService
          aborted

thread == <<timer, phase, left, notified, rpcHappened, aborted>>
kernel == <<main, wait, posted, done, proceed, termination>>
client == <<alive, full, silent>>
vars == <<thread, kernel, client, spent>>

MaxSilence == 2 * RpcTimeout + Grace

Init ==
    /\ rpcHappened = FALSE /\ termination = FALSE
    /\ timer = "clears" /\ phase = "watch" /\ left = 0 /\ notified = FALSE
    /\ main = "free" /\ wait = 0 /\ posted = FALSE /\ done = FALSE /\ proceed = FALSE
    /\ alive = TRUE /\ full = FALSE
    /\ silent = 0 /\ spent = 0 /\ aborted = FALSE
--------------------------------------------------------------------------
(* The client.                                                             *)

Serving == main \notin {"shuts", "joins", "joined", "gone"}

\* PreSynchronousRequest, before any handler.
RpcBegins ==
    /\ alive /\ Serving
    /\ rpcHappened' = TRUE
    /\ silent' = 0

Call ==
    /\ RpcBegins
    /\ UNCHANGED <<timer, phase, left, notified, aborted, kernel, alive, full, spent>>

\* quit: a closure and an interrupt for the main thread.
CallQuit ==
    /\ RpcBegins
    /\ posted' = TRUE
    /\ UNCHANGED <<timer, phase, left, notified, aborted, main, wait, done,
                   proceed, termination, alive, full, spent>>

\* quitProceed, which counts once quitRPIService has set terminate.
CallProceed ==
    /\ RpcBegins
    /\ main \in {"tells", "waits"}
    /\ proceed' = TRUE
    /\ UNCHANGED <<timer, phase, left, notified, aborted, main, wait, posted,
                   done, termination, alive, full, spent>>

\* External: the client reads events, more of them come, it dies.
ReadEvents == alive /\ full /\ full' = FALSE /\ UNCHANGED <<thread, kernel, alive, silent, spent>>
FillEvents == ~full /\ main \in {"free", "busy"} /\ full' = TRUE /\ UNCHANGED <<thread, kernel, alive, silent, spent>>
ClientDies == alive /\ alive' = FALSE /\ UNCHANGED <<thread, kernel, full, silent, spent>>
--------------------------------------------------------------------------
(* The timer's thread.                                                     *)

\* Mutant of ClearRpc: the flag is cleared before the loop, not in it.
KeepRpc == rpcHappened
ClearRpc == FALSE

\* Mutant of Deadline: the time of the grace.
DeadlineOfGrace == Grace
Deadline == RpcTimeout

Clears ==
    /\ timer = "clears"
    /\ rpcHappened' = ClearRpc
    /\ left' = Deadline
    /\ timer' = "checks"
    /\ UNCHANGED <<phase, notified, aborted, kernel, client, spent>>

\* The predicate of wait_until, with the mutex held ...
Checks ==
    /\ timer = "checks"
    /\ timer' = IF termination \/ left = 0 THEN "decides" ELSE "dozes"
    /\ UNCHANGED <<phase, left, notified, rpcHappened, aborted, kernel, client, spent>>

\* ... which the wait lets go: a notification given without the mutex finds
\* nobody before.
FallsAsleep ==
    /\ timer = "dozes"
    /\ timer' = "sleeps" /\ notified' = FALSE
    /\ UNCHANGED <<phase, left, rpcHappened, aborted, kernel, client, spent>>

Wakes ==
    /\ timer = "sleeps" /\ (left = 0 \/ notified)
    /\ timer' = "checks"
    /\ UNCHANGED <<phase, left, notified, rpcHappened, aborted, kernel, client, spent>>

\* After a round without a call: asyncInterrupt, q() and grace.
Watches ==
    /\ timer = "decides" /\ phase = "watch"
    /\ \/ /\ termination /\ timer' = "ended"
          /\ UNCHANGED <<phase, left, posted, spent>>
       \/ /\ ~termination /\ rpcHappened /\ timer' = "clears"
          /\ UNCHANGED <<phase, left, posted, spent>>
       \/ /\ ~termination /\ ~rpcHappened
          /\ timer' = "checks" /\ phase' = "grace" /\ left' = Grace
          /\ posted' = TRUE /\ spent' = 0
    /\ UNCHANGED <<notified, rpcHappened, aborted, main, wait, done, proceed,
                   termination, client>>

GivesUp ==
    /\ timer = "decides" /\ phase = "grace"
    /\ timer' = "ended"
    /\ aborted' = ~termination
    /\ main' = IF termination THEN main ELSE "gone"
    /\ UNCHANGED <<phase, left, notified, rpcHappened, wait, posted, done,
                   proceed, termination, client, spent>>

Timer == Clears \/ Checks \/ FallsAsleep \/ Wakes \/ Watches \/ GivesUp
--------------------------------------------------------------------------
(* The main thread.                                                        *)

Goes(from, to) == main = from /\ main' = to
RunCode ==
    /\ \/ Goes("free", "busy")
       \/ Goes("busy", "free")
    /\ UNCHANGED <<thread, wait, posted, done, proceed, termination, client, spent>>

\* q(), called by R code or by a closure, to quitRWrapper: its second call
\* does nothing and R exits.
Quit ==
    /\ \/ main = "free" /\ posted /\ posted' = FALSE
       \/ main = "busy" /\ UNCHANGED posted
    /\ main' = IF done THEN "gone" ELSE "saves"
    /\ done' = TRUE
    /\ UNCHANGED <<thread, wait, proceed, termination, client, spent>>

\* .Last fails, or saveWorkspace is left by an interrupt.
QuitFails ==
    /\ Goes("saves", "free")
    /\ UNCHANGED <<thread, wait, posted, done, proceed, termination, client, spent>>

Saved ==
    /\ Goes("saves", "tells")
    /\ UNCHANGED <<thread, wait, posted, done, proceed, termination, client, spent>>

\* Mutant of WaitTime: twice as many rounds.
WaitTimeDoubled == 2 * ProceedWait
WaitTime == ProceedWait

\* quitRPIService: the event termination, for which there must be room ...
Tell ==
    /\ Goes("tells", "waits") /\ ~full
    /\ wait' = WaitTime
    /\ UNCHANGED <<thread, posted, done, proceed, termination, client, spent>>

\* ... the answer quitProceed or the last round ...
Proceed ==
    /\ Goes("waits", "shuts") /\ (proceed \/ wait = 0)
    /\ proceed' = TRUE /\ wait' = ShutdownWait
    /\ UNCHANGED <<thread, posted, done, termination, client, spent>>

\* ... Shutdown, which ends when the calls have or at its deadline ...
Shutdown ==
    /\ Goes("shuts", "joins")
    /\ UNCHANGED <<thread, wait, posted, done, proceed, termination, client, spent>>

\* ... and TerminationTimer::quit.
StopTimer ==
    /\ Goes("joins", "joined")
    /\ termination' = TRUE
    /\ notified' = (timer = "sleeps")
    /\ UNCHANGED <<timer, phase, left, rpcHappened, aborted, wait, posted, done,
                   proceed, client, spent>>

Joined ==
    /\ Goes("joined", "gone") /\ timer = "ended"
    /\ UNCHANGED <<thread, wait, posted, done, proceed, termination, client, spent>>

MainQuits == Saved \/ Tell \/ Proceed \/ Shutdown \/ StopTimer \/ Joined
--------------------------------------------------------------------------
\* Something is due at once.
Due ==
    \/ timer \in {"clears", "checks", "dozes", "decides"}
    \/ timer = "sleeps" /\ (left = 0 \/ notified)
    \/ main = "tells" /\ ~full
    \/ main = "waits" /\ (proceed \/ wait = 0)
    \/ main = "shuts" /\ wait = 0
    \/ main = "joins"
    \/ main = "joined" /\ timer = "ended"

\* silent stops counting once it has passed the bound GoneInTime gives.
Minus(n) == IF n = 0 THEN 0 ELSE n - 1

Tick ==
    /\ main # "gone" /\ ~Due
    /\ silent' = IF silent > MaxSilence THEN silent ELSE silent + 1
    /\ left' = Minus(left) /\ wait' = Minus(wait)
    /\ spent' = IF phase = "grace" /\ main \in {"free", "busy", "saves", "tells"}
                THEN spent + 1 ELSE spent
    /\ UNCHANGED <<timer, phase, notified, rpcHappened, aborted, main, posted,
                   done, proceed, termination, alive, full>>

Next ==
    \/ main # "gone" /\ (\/ Call \/ CallQuit \/ CallProceed
                         \/ ReadEvents \/ FillEvents \/ ClientDies
                         \/ Timer \/ RunCode \/ Quit \/ QuitFails \/ MainQuits)
    \/ Tick

\* Time passes, threads take their steps, a living client reads its events.
\* Saving may last for ever.
Fairness ==
    /\ WF_vars(Tick) /\ WF_vars(Timer) /\ WF_vars(ReadEvents)
    /\ WF_vars(Tell \/ Proceed \/ Shutdown \/ StopTimer \/ Joined)

Spec == Init /\ [][Next]_vars /\ Fairness
--------------------------------------------------------------------------
\* The kernel is made to quit only after RpcTimeout without a call: a call
\* counts whenever it comes, before, at or after the moment the flag is
\* cleared (TerminationTimer, rpcHappened).
NoEarlyEnd ==
    [][phase = "watch" /\ phase' = "grace" => silent >= RpcTimeout]_vars

\* A kernel whose client has gone is gone two rounds and the grace later at
\* the latest, whatever its main thread does: R code no interrupt ends, a
\* failing q(), a full queue, or a quit whose notification comes to nobody
\* (TerminationTimer, quitRPIService).
GoneInTime == main # "gone" => silent <= MaxSilence

\* The grace is enough for the kernel to wait for the client and for the
\* server: it aborts only when what comes before has used the rest
\* (5 s, 100 times 25 ms and 1 s).
AbortOnlyWhenStuck == aborted => spent >= Grace - ProceedWait - ShutdownWait

\* Once the kernel begins to tell its client, it ends, also when the client
\* dies with the queue full or never answers (quitRPIService).
QuittingEnds == main = "tells" ~> main = "gone"
=============================================================================
