------------------------------- MODULE Repl -------------------------------
(***************************************************************************)
(* The conversation between the console of the client and the R code it    *)
(* runs: executeCode, readLineHandler, debugPromptHandler and              *)
(* subprocessHandler on the main thread, sendReadLn, sendEof, the debugger *)
(* commands and replInterrupt on gRPC threads, and the events that tell    *)
(* the client which prompt to show.                                        *)
(*                                                                         *)
(* The client acts on what it was last told (seen): it sends a command at  *)
(* a prompt, one answer to each request, and interrupts at any time.  The  *)
(* event loop is taken as TaskQueue describes it, the event queue as       *)
(* FifoQueue does.  R code is a choice: run on, ask, stop at a breakpoint, *)
(* start a process, end.                                                   *)
(*                                                                         *)
(* Left out: the other events (output, errors), code run outside the       *)
(* console, which leaves replState alone, system() called then, which asks *)
(* for no input, and event handlers; a stop that is not an answer to a     *)
(* debug prompt and what the debugger does with a stored one (Stepping).   *)
(* When an interrupt jumps out of subprocessHandler, myDoSystem's locals   *)
(* die under its two threads; they are taken to go on as if nothing had    *)
(* happened.                                                               *)
(***************************************************************************)
EXTENDS Naturals, Sequences

CONSTANTS MaxCommands,     \* bound: commands the client sends
          MaxRequests,     \* bound: prompts and processes R code opens
          MaxInterrupts,   \* bound: calls of replInterrupt
          MaxTexts,        \* bound: lines and ends of file sent to processes
          StreamLimit      \* limit of asyncEvents (8)

ASSUME ReplAssumption ==
    /\ MaxCommands \in Nat /\ MaxRequests \in Nat /\ MaxInterrupts \in Nat
    /\ MaxTexts \in Nat /\ StreamLimit \in Nat \ {0}

VARIABLES replState,     \* RPIServiceImpl::replState
          stack,         \* activations above mainLoop's event loop
          interrupt,     \* R_interrupts_pending
          active,        \* subprocessActive
          running,       \* processes of system(), named by their request
          ended,         \* those that have exited, not yet reported
          tasks,         \* closures posted to the main thread, oldest first
          stream,        \* asyncEvents: events the client has not read
          seen,          \* the event the client acts on, or Answered
          reading,       \* what a replInterrupt under way has read
          cut,           \* requests that ended before their answer came; 0
                         \* once a command has run in a loop it was not sent to
          count,         \* how much of each bound is used
          stored         \* history: requests whose stop was taken for one of
                         \* running code

processes == <<running, ended>>
client == <<seen, count, stored>>
main == <<replState, stack, interrupt, active, cut>>
vars == <<main, processes, tasks, stream, reading, client>>

States == {"PROMPT", "DEBUG_PROMPT", "READ_LINE", "REPL_BUSY", "SUBPROCESS_INPUT"}
Requests == {"readline", "debug", "subprocess"}
Ids == 0..MaxRequests
Event(type, id) == [type |-> type, id |-> id]
Events == [type : {"prompt", "busy"} \cup Requests, id : Ids]
Answered == Event("busy", 0)

\* A request stands before its event (ask), between the event and the
\* assignment to replState (asked), in its loop, before the event busy, and
\* before its return (done); a command before the event busy (ask), in R
\* code (run) and before its prompt (end).
Frames == [kind : {"command"} \cup Requests, saved : States, id : Ids,
           at : {"ask", "asked", "loop", "busy", "done", "run", "end"}]
Tasks == [op : {"execute", "readln", "eof", "continue", "stop", "nothing",
                "interruptLine", "interruptProcess", "processEnded"},
          to : Events]

TypeOK ==
    /\ replState \in States
    /\ stack \in Seq(Frames)
    /\ interrupt \in BOOLEAN /\ active \in BOOLEAN
    /\ running \subseteq Ids /\ ended \subseteq Ids
    /\ tasks \in Seq(Tasks)
    /\ stream \in Seq(Events) /\ Len(stream) <= StreamLimit
    /\ seen \in Events
    /\ reading \in States \cup {"nothing"}
    /\ cut \subseteq Ids
    /\ count \in [commands : 0..MaxCommands, requests : Ids,
                  interrupts : 0..MaxInterrupts, texts : 0..MaxTexts]
    /\ stored \subseteq Ids

\* mainLoop has pushed its prompt and waits.
Init ==
    /\ replState = "PROMPT" /\ stack = <<>>
    /\ interrupt = FALSE /\ active = FALSE
    /\ running = {} /\ ended = {} /\ cut = {} /\ stored = {}
    /\ tasks = <<>>
    /\ stream = <<Event("prompt", 0)>>
    /\ seen = Answered /\ reading = "nothing"
    /\ count = [commands |-> 0, requests |-> 0, interrupts |-> 0, texts |-> 0]
--------------------------------------------------------------------------
(* The client and the gRPC threads that serve it.                          *)

Top == stack[Len(stack)]
TopIs(kind, at) == stack # <<>> /\ Top.kind = kind /\ Top.at = at

Post(op, to) == tasks' = Append(tasks, [op |-> op, to |-> to])

\* External: the client reads the event stream; what it shows follows.
Read ==
    /\ stream # <<>>
    /\ seen' = Head(stream)
    /\ stream' = Tail(stream)
    /\ UNCHANGED <<main, processes, tasks, reading, count, stored>>

SendCommand ==
    /\ seen.type \in {"prompt", "debug"} /\ count.commands < MaxCommands
    /\ Post("execute", seen)
    /\ seen' = Answered
    /\ count' = [count EXCEPT !.commands = @ + 1]
    /\ UNCHANGED <<main, processes, stream, reading, stored>>

\* sendReadLn and debugCommandContinue (any step command) post a closure, and
\* so does debugCommandStop, unless code runs with the debugger enabled.
SendAnswer ==
    /\ \/ seen.type = "readline" /\ Post("readln", seen)
       \/ seen.type = "debug" /\ Post("continue", seen)
       \/ seen.type = "debug" /\ ~TopIs("debug", "asked") /\ Post("stop", seen)
    /\ seen' = Answered
    /\ UNCHANGED <<main, processes, stream, reading, count, stored>>

\* Then debugCommandStop only stores ABORT for the next statement: so it does
\* between the event of a debug prompt, which is only sent while the debugger
\* is enabled, and the assignment to replState.  Elsewhere in running code the
\* debugger may be enabled or not.
StopIsStored ==
    /\ seen.type = "debug" /\ replState = "REPL_BUSY"
    /\ seen' = Answered
    /\ stored' = stored \cup {seen.id}
    /\ UNCHANGED <<main, processes, tasks, stream, reading, count>>

\* Lines and the end of file for a process: as many as the user types.
SendInput ==
    /\ seen.type = "subprocess" /\ count.texts < MaxTexts
    /\ \/ Post("readln", seen)
       \/ Post("eof", seen)
    /\ count' = [count EXCEPT !.texts = @ + 1]
    /\ UNCHANGED <<main, processes, stream, reading, seen, stored>>

\* replInterrupt reads replState without a lock ...
InterruptReads ==
    /\ reading = "nothing" /\ count.interrupts < MaxInterrupts
    /\ reading' = replState
    /\ count' = [count EXCEPT !.interrupts = @ + 1]
    /\ UNCHANGED <<main, processes, tasks, stream, seen, stored>>

\* ... and acts on what it has read.
InterruptActs ==
    /\ \/ reading = "REPL_BUSY" /\ interrupt' = TRUE /\ Post("nothing", Answered)
       \/ reading = "READ_LINE" /\ Post("interruptLine", Answered) /\ UNCHANGED interrupt
       \/ /\ reading = "SUBPROCESS_INPUT" /\ active
          /\ Post("interruptProcess", Answered) /\ UNCHANGED interrupt
       \/ /\ \/ reading \in {"PROMPT", "DEBUG_PROMPT"}
             \/ reading = "SUBPROCESS_INPUT" /\ ~active
          /\ UNCHANGED <<tasks, interrupt>>
    /\ reading' = "nothing"
    /\ UNCHANGED <<replState, stack, active, cut, processes, stream, client>>
--------------------------------------------------------------------------
(* The main thread in a loop.                                              *)

Below == SubSeq(stack, 1, Len(stack) - 1)
Running == TopIs("command", "run")
AtLoop == stack # <<>> => Top.at = "loop"
Goes(at) == stack' = [stack EXCEPT ![Len(stack)].at = at]

\* asyncEvents.push: waits while the queue is full.
Push(e) == Len(stream) < StreamLimit /\ stream' = Append(stream, e)

\* The request whose loop is running, or the prompt.
Current == IF stack = <<>> THEN Event("prompt", 0) ELSE Event(Top.kind, Top.id)

\* executeCode, up to its try block: it runs in whatever loop comes to it.
Execute(t) ==
    /\ t.op = "execute"
    /\ stack' = Append(stack, [kind |-> "command", saved |-> replState, id |-> 0,
                               at |-> "ask"])
    /\ replState' = "REPL_BUSY"
    /\ interrupt' = FALSE
    /\ cut' = IF t.to = Current THEN cut ELSE cut \cup {0}
    /\ UNCHANGED <<active, processes>>

\* The closure of sendReadLn or of a debugger command ends the loop it
\* finds: also when it was made for a request that has ended since.  After
\* debugCommandStop the code below the loop is interrupted.
Answer(t) ==
    /\ \/ t.op = "readln" /\ replState = "READ_LINE"
       \/ t.op \in {"continue", "stop"} /\ replState = "DEBUG_PROMPT"
    /\ Goes("busy")
    /\ interrupt' = (interrupt \/ t.op = "stop")
    /\ cut' = cut \cup ({Top.id} \ {t.to.id})
    /\ UNCHANGED <<replState, active, processes>>

\* Input or end of file: the loop ends, inputCallback hands it to the
\* process, the loop begins again.
Input(t) ==
    /\ t.op \in {"readln", "eof"} /\ replState = "SUBPROCESS_INPUT"
    /\ interrupt' = (interrupt /\ t.op # "eof")
    /\ UNCHANGED <<replState, stack, active, cut, processes>>

InterruptLine(t) ==
    /\ t.op = "interruptLine" /\ replState = "READ_LINE"
    /\ Goes("busy")
    /\ interrupt' = TRUE
    /\ cut' = cut \cup {Top.id}
    /\ UNCHANGED <<replState, active, processes>>

\* The loop ends, interruptCallback kills the process, the loop begins again.
InterruptProcess(t) ==
    /\ t.op = "interruptProcess" /\ replState = "SUBPROCESS_INPUT" /\ active
    /\ running' = running \ {Top.id}
    /\ ended' = ended \cup (running \cap {Top.id})
    /\ UNCHANGED main

\* The closure of subprocessHandlerStop breaks the loop it runs in: that of
\* its process unless an interrupt has jumped out of that one.
ProcessEnded(t) ==
    /\ t.op = "processEnded" /\ active
    /\ active' = FALSE
    /\ IF stack = <<>> THEN UNCHANGED <<stack, cut>>
                       ELSE Goes("busy") /\ cut' = cut \cup ({Top.id} \ {t.to.id})
    /\ UNCHANGED <<replState, interrupt, processes>>

\* Closures whose test of replState or of subprocessActive fails do nothing,
\* but for the interrupt flag that executeOnMainThread clears.
Ignore(t) ==
    /\ \/ t.op = "nothing"
       \/ t.op = "readln" /\ replState \notin {"READ_LINE", "SUBPROCESS_INPUT"}
       \/ t.op = "eof" /\ replState # "SUBPROCESS_INPUT"
       \/ t.op = "interruptLine" /\ replState # "READ_LINE"
       \/ t.op = "interruptProcess" /\ (replState # "SUBPROCESS_INPUT" \/ ~active)
       \/ t.op = "processEnded" /\ ~active
       \/ t.op \in {"continue", "stop"} /\ replState # "DEBUG_PROMPT"
    /\ interrupt' = (interrupt /\ t.op # "eof")
    /\ UNCHANGED <<replState, stack, active, cut, processes>>

RunTask ==
    /\ AtLoop /\ tasks # <<>>
    /\ tasks' = Tail(tasks)
    /\ LET t == Head(tasks)
       IN  \/ Execute(t) \/ Answer(t) \/ Input(t) \/ InterruptLine(t)
           \/ InterruptProcess(t) \/ ProcessEnded(t) \/ Ignore(t)
    /\ UNCHANGED <<stream, reading, client>>

\* External: R_checkActivity finds the interrupt flag up (a task may come
\* while it does) and jumps out of the loop, to mainLoop, to executeCode's
\* handler (whose try block gives replState back), or to a handler of the R
\* code that opened the loop (and then replState stays).  The destructors of
\* the C++ frames in between do not run.
LoopInterrupted ==
    /\ AtLoop /\ interrupt
    /\ interrupt' = FALSE
    /\ \/ stack = <<>> /\ UNCHANGED <<stack, replState, cut>>
       \/ /\ stack # <<>>
          /\ cut' = cut \cup {Top.id}
          /\ \/ /\ stack' = [Below EXCEPT ![Len(stack) - 1].at = "end"]
                /\ replState' = Below[Len(stack) - 1].saved
             \/ stack' = Below /\ UNCHANGED replState
    /\ UNCHANGED <<active, processes, tasks, stream, reading, client>>

\* runEventLoop takes the flag back after the handlers: an interrupt that
\* came while the loop was blocked is lost.
HandlersDone ==
    /\ AtLoop /\ interrupt
    /\ interrupt' = FALSE
    /\ UNCHANGED <<replState, stack, active, cut, processes, tasks, stream, reading, client>>
--------------------------------------------------------------------------
(* The main thread in R code and in the handlers it calls.                 *)

\* R code calls readline, stops at a breakpoint, or calls system.
Ask(kind) ==
    /\ Running /\ replState = "REPL_BUSY" /\ count.requests < MaxRequests
    /\ LET id == count.requests + 1
       IN  /\ stack' = Append(stack, [kind |-> kind, saved |-> replState,
                                      id |-> id, at |-> "ask"])
           /\ IF kind = "subprocess"
                THEN running' = running \cup {id} /\ active' = TRUE
                ELSE UNCHANGED <<running, active>>
           /\ count' = [count EXCEPT !.requests = id]
    /\ UNCHANGED <<replState, interrupt, cut, ended, tasks, stream, reading, seen, stored>>

\* The event of a request, or the event busy of a command.
Announce ==
    /\ stack # <<>> /\ Top.at = "ask"
    /\ \/ Top.kind = "command" /\ Push(Answered) /\ Goes("run")
       \/ Top.kind # "command" /\ Push(Event(Top.kind, Top.id)) /\ Goes("asked")
    /\ UNCHANGED <<replState, interrupt, active, cut, processes, tasks, reading, client>>

StateOf == [readline |-> "READ_LINE", debug |-> "DEBUG_PROMPT",
            subprocess |-> "SUBPROCESS_INPUT"]

\* Mutant of OpenLoop: debugPromptHandler without its ScopedAssign.
OpenLoopStaysBusy ==
    /\ stack # <<>> /\ Top.at = "asked"
    /\ replState' = IF Top.kind = "debug" THEN replState ELSE StateOf[Top.kind]
    /\ Goes("loop")
    /\ UNCHANGED <<interrupt, active, cut, processes, tasks, stream, reading, client>>

OpenLoop ==
    /\ stack # <<>> /\ Top.at = "asked"
    /\ replState' = StateOf[Top.kind]
    /\ Goes("loop")
    /\ UNCHANGED <<interrupt, active, cut, processes, tasks, stream, reading, client>>

AnnounceBusy ==
    /\ stack # <<>> /\ Top.at = "busy"
    /\ Push(Answered) /\ Goes("done")
    /\ UNCHANGED <<replState, interrupt, active, cut, processes, tasks, reading, client>>

\* The end of a handler: ScopedAssign gives replState back.  myDoSystem
\* waits for the thread that waits for its process.
Leave ==
    /\ stack # <<>> /\ Top.at = "done"
    /\ Top.id \notin running \cup ended
    /\ replState' = Top.saved
    /\ stack' = Below
    /\ UNCHANGED <<interrupt, active, cut, processes, tasks, stream, reading, client>>

\* R notices the flag: its code handles the interrupt or ends with it.
Interrupted ==
    /\ Running /\ interrupt
    /\ interrupt' = FALSE
    /\ \/ UNCHANGED <<stack, replState>>
       \/ Goes("end") /\ replState' = Top.saved
    /\ UNCHANGED <<active, cut, processes, tasks, stream, reading, client>>

\* The code ends, with or without an error: the try block is left.
Finish ==
    /\ Running
    /\ Goes("end")
    /\ replState' = Top.saved
    /\ UNCHANGED <<interrupt, active, cut, processes, tasks, stream, reading, client>>

\* Mutant of Prompt: no event at the end of a command of the debugger console.
PromptOnlyAtTop ==
    /\ TopIs("command", "end")
    /\ \/ replState = "DEBUG_PROMPT" /\ UNCHANGED stream
       \/ replState # "DEBUG_PROMPT" /\ Push(Event("prompt", 0))
    /\ stack' = Below
    /\ interrupt' = FALSE
    /\ UNCHANGED <<replState, active, cut, processes, tasks, reading, client>>

\* Mutant of Prompt: the same event whatever loop the command ran in.
PromptAlways ==
    /\ TopIs("command", "end")
    /\ Push(Event("prompt", 0))
    /\ stack' = Below
    /\ interrupt' = FALSE
    /\ UNCHANGED <<replState, active, cut, processes, tasks, reading, client>>

\* The Finally of executeCode, then the one of executeOnMainThread.
Prompt ==
    /\ TopIs("command", "end")
    /\ \/ replState = "DEBUG_PROMPT" /\ Push(Event("debug", Below[Len(Below)].id))
       \/ replState # "DEBUG_PROMPT" /\ Push(Event("prompt", 0))
    /\ stack' = Below
    /\ interrupt' = FALSE
    /\ UNCHANGED <<replState, active, cut, processes, tasks, reading, client>>
--------------------------------------------------------------------------
\* External: a process ends ...
ProcessExits(id) ==
    /\ id \in running
    /\ running' = running \ {id}
    /\ ended' = ended \cup {id}
    /\ UNCHANGED <<main, tasks, stream, reading, client>>

\* ... and its terminationThread calls subprocessHandlerStop.
SubprocessHandlerStop(id) ==
    /\ id \in ended
    /\ ended' = ended \ {id}
    /\ Post("processEnded", Event("subprocess", id))
    /\ UNCHANGED <<main, running, stream, reading, client>>
--------------------------------------------------------------------------
MainStep == \/ RunTask \/ LoopInterrupted \/ HandlersDone \/ Announce \/ OpenLoop \/ AnnounceBusy
            \/ Leave \/ Interrupted \/ Finish \/ Prompt
            \/ \E kind \in Requests : Ask(kind)

ProcessStep == \E id \in Ids : ProcessExits(id) \/ SubprocessHandlerStop(id)

Next == MainStep \/ ProcessStep \/ Read \/ SendCommand \/ SendAnswer \/ StopIsStored
        \/ SendInput \/ InterruptReads \/ InterruptActs

Spec == Init /\ [][Next]_vars

\* The main thread runs, R code and processes end, the client reads events.
\* It need not send anything.
Fairness == WF_vars(MainStep) /\ WF_vars(ProcessStep) /\ WF_vars(Read)

FairSpec == Spec /\ Fairness
--------------------------------------------------------------------------
\* The main thread waits at a debug prompt that the client has answered with a
\* stop while it opened.
StopLost == TopIs("debug", "loop") /\ Top.id \in stored

\* Neither side waits for the other: when the main thread sits in a loop,
\* nothing is queued and nothing is left to read, then the client shows the
\* request this loop waits for (executeCode, readLineHandler,
\* debugPromptHandler, subprocessHandler).  Two exceptions.  A command typed at
\* a debug prompt that an interrupt closed under it runs in the next loop, and
\* what it tells the client afterwards is PROMPT whatever loop it is.  And the
\* client that has stopped the debugger while its prompt opened has answered,
\* but the loop of this prompt goes on waiting (debugCommandStop).
QuietMeansTold ==
    AtLoop /\ tasks = <<>> /\ stream = <<>> /\ 0 \notin cut
    => seen = Current \/ (seen = Answered /\ StopLost)

\* What the client sends goes where the client meant it to: a command runs in
\* the loop of the prompt it was typed at, an answer ends the loop of its
\* request, unless that request has been cut short by an interrupt or by what
\* an interrupt has left behind, or a command has gone astray that way before
\* (executeCode, sendReadLn, debugCommandContinue, debugCommandStop).
AnswersCount ==
    [][RunTask /\ Head(tasks).op \in {"execute", "readln", "continue", "stop"}
               /\ Head(tasks).to.type # "subprocess"
               /\ {Head(tasks).to.id, 0} \cap cut = {}
         => /\ Head(tasks).to = Current
            /\ Head(tasks).op # "execute" => stack'[Len(stack)].at = "busy"]_vars

\* What the client has sent is answered: it is told of the next prompt or
\* request (the Finally of executeCode, the event busy of each handler), unless
\* the main thread comes to wait at a debug prompt whose stop was stored.
ClientIsTold == seen = Answered ~> seen # Answered \/ StopLost
==========================================================================
