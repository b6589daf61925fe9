------------------------------ MODULE Stepping ------------------------------
(***************************************************************************)
(* How the debugger stops, steps and gives up: RDebugger's command and     *)
(* contextsToStop, doStep and doBegin on the main thread, the debug prompt *)
(* with code run at it, and debugCommandPause and debugCommandStop, which  *)
(* set the command from a gRPC thread after a test made earlier.           *)
(*                                                                         *)
(* The stack holds R's call contexts, the executeCode calls between them   *)
(* and the debug prompts, oldest first; evaldepth is the height in it.  An *)
(* environment belongs to one call until eval() opens another context in   *)
(* it (the model also reuses those of calls that have ended).  R code is a *)
(* choice: statements, returns, errors, calls of functions that are        *)
(* stepped, not stepped (doNotStopFlag) or quiet with all they call        *)
(* (doNotStopRecursiveFlag).  Breakpoints and debug() are a reason to stop *)
(* that may come anywhere.  R code does not suspend interrupts.            *)
(* Pause and stop are taken in their two steps, the other commands, which  *)
(* are tasks, when they are run.                                           *)
(***************************************************************************)
EXTENDS Integers, Sequences, FiniteSets, FiniteSetsExt

CONSTANTS Envs,        \* environments of calls
          Global,      \* the environment code of the console runs in
          Kinds,       \* kinds of functions R code calls
          MaxHeight,   \* bound: entries of the stack
          MaxRuns,     \* bound: executeCode calls
          MaxAsks      \* bound: calls of debugCommandPause and Stop

ASSUME SteppingAssumption ==
    MaxHeight \in Nat /\ Kinds \subseteq {"stepped", "unstepped", "quiet"}

VARIABLES stack,       \* contexts, runs and prompts
          enabled,     \* _isEnabled
          command,     \* currentCommand
          toStop,      \* contextsToStop, environments with their depths
          stopping,    \* why sendDebugPrompt was called, or "no"
          tasks,       \* ordinary tasks not yet run
          asks,        \* pause and stop calls between their test and setCommand
          count,       \* runs and asks so far
          given,       \* history: height when the command was given
          low,         \* history: lowest height since then
          heard        \* history: the asks under way in the innermost run so far

debugger == <<enabled, command, toStop, stopping>>
history == <<given, low, heard>>
steppingVars == <<stack, debugger, tasks, asks, count, history>>

\* Commands that look at the position of the statement, which is a choice.
Positional == {"STEP_INTO_MY_CODE", "RUN_TO_POSITION"}
Commands == {"CONTINUE", "STEP_INTO", "STEP_OVER", "STEP_OUT", "ABORT", "PAUSE"}
            \cup Positional
CallKinds == {"stepped", "unstepped", "quiet"}
Context(kind, env) == [kind |-> kind, env |-> env, was |-> FALSE]
\* A run keeps the value of enabled that WithDebuggerEnabled puts back.
Run(was) == [kind |-> "run", env |-> Global, was |-> was]
Prompt == [kind |-> "prompt", env |-> Global, was |-> FALSE]

SteppingInit ==
    /\ stack = <<>> /\ enabled = FALSE /\ command = "CONTINUE"
    /\ toStop = {} /\ stopping = "no" /\ tasks = <<>> /\ asks = {}
    /\ count = [runs |-> 0, asks |-> 0]
    /\ given = 0 /\ low = 0 /\ heard = {}

Top == IF stack = <<>> THEN "none" ELSE stack[Len(stack)].kind
InLoop == Top \in {"none", "prompt"}
Busy == ~InLoop
Runs == {i \in DOMAIN stack : stack[i].kind = "run"}
\* bottomContext: the context of the innermost run.
Bottom == Max(Runs)
Contexts == {i \in DOMAIN stack : stack[i].kind # "prompt"}
\* The environment setCommand and doStep see at height i.
EnvAt(i) == IF stack[i].kind = "run" /\ i # Bottom THEN <<i>> ELSE stack[i].env

\* contextsToStop as setCommand makes it: insert keeps the first depth of an
\* environment, that of its innermost context.
ContextsToStop(c) ==
    LET seen == IF c = "STEP_OUT" THEN Contexts \ {Max(Contexts)} ELSE Contexts
    IN {<<EnvAt(i), i>> : i \in {j \in seen :
            \A k \in seen : EnvAt(k) = EnvAt(j) => k <= j}}

SetCommand(c) ==
    /\ command' = c
    /\ toStop' = IF c \in {"STEP_OVER", "STEP_OUT"} THEN ContextsToStop(c)
                 ELSE toStop

(***************************************************************************)
(* The main thread: executeCode.                                           *)
(***************************************************************************)

\* runEventLoop runs the task of executeCode, with the debugger disabled.
StartRun ==
    /\ InLoop /\ tasks # <<>> /\ Head(tasks) = "run"
    /\ Len(stack) < MaxHeight
    /\ tasks' = Tail(tasks)
    /\ stack' = Append(stack, Run(enabled))
    /\ enabled' = FALSE
    /\ \E c \in {"CONTINUE", "STEP_INTO"} : SetCommand(c)
    /\ heard' = asks
    /\ UNCHANGED <<stopping, asks, count, given, low>>

\* The stack loses what is above height h, with the on.exit code of the calls
\* and runs that go: executeCodeImpl disables, a quiet call enables.
Unwind(h) ==
    LET gone == {i \in DOMAIN stack : i > h}
        lost == {i \in gone : stack[i].kind = "run"}
        quiet == {i \in gone : stack[i].kind = "quiet" /\ stack[i].was}
    IN /\ stack' = SubSeq(stack, 1, h)
       /\ enabled' = IF lost # {} THEN stack[Min(lost)].was
                     ELSE enabled \/ quiet # {}
       /\ low' = IF h < low THEN h ELSE low

\* Between two statements of the console the debugger is disabled.
StatementEnds ==
    /\ Top = "run" /\ enabled /\ stopping = "no"
    /\ enabled' = FALSE
    /\ UNCHANGED <<stack, command, toStop, stopping, tasks, asks, count, history>>

RunEnds ==
    /\ Top = "run" /\ ~enabled
    /\ Unwind(Len(stack) - 1)
    /\ heard' = asks
    /\ UNCHANGED <<command, toStop, stopping, tasks, asks, count, given>>

\* An error, caught by R code at height h or by executeCode itself.
Throw(h) ==
    /\ h \in (Bottom - 1)..(Len(stack) - 1)
    /\ Unwind(h)
    /\ heard' = IF h < Bottom THEN asks ELSE heard

Error ==
    /\ Busy /\ stopping = "no"
    /\ \E h \in DOMAIN stack \cup {0} : Throw(h)
    /\ UNCHANGED <<command, toStop, stopping, tasks, asks, count, given>>

(***************************************************************************)
(* doStep and doBegin.                                                     *)
(***************************************************************************)
\* The statement to come is at the top of a run, or in a function doBegin
\* steps through.
AtStatement ==
    /\ stopping = "no"
    /\ Top = "stepped" => enabled
    /\ Top \in {"run", "stepped"}

\* Mutant of CommandStops: a context is known by its environment alone.
CommandStopsInEnv ==
    \/ command \in {"PAUSE", "STEP_INTO"}
    \/ /\ command \in {"STEP_OVER", "STEP_OUT"}
       /\ \E p \in toStop : p[1] = EnvAt(Max(Contexts))

CommandStops ==
    \/ command \in {"PAUSE", "STEP_INTO"}
    \/ /\ command \in {"STEP_OVER", "STEP_OUT"}
       /\ \E p \in toStop : p[1] = EnvAt(Max(Contexts)) /\ p[2] >= Max(Contexts)

\* doStep enters a statement; the top level enables the debugger first.
Statement ==
    /\ AtStatement /\ command # "ABORT"
    /\ enabled' = TRUE
    /\ \E breakpoint, there \in BOOLEAN :
         stopping' = IF CommandStops \/ (there /\ command \in Positional)
                     THEN "command" ELSE IF breakpoint THEN "breakpoint" ELSE "no"
    /\ UNCHANGED <<stack, command, toStop, tasks, asks, count, history>>

AbortStatement ==
    /\ AtStatement /\ command = "ABORT"
    /\ SetCommand("CONTINUE")
    /\ \E h \in DOMAIN stack \cup {0} : Throw(h)
    /\ UNCHANGED <<stopping, tasks, asks, count, given>>

\* A call made by a statement, or by a function nobody steps through.
EnterCall(kind, env) ==
    /\ Busy /\ stopping = "no"
    /\ Top = "run" => enabled
    /\ Len(stack) < MaxHeight
    /\ stack' = Append(stack, [Context(kind, env) EXCEPT !.was = enabled])
    /\ enabled' = (enabled /\ kind # "quiet")
    /\ UNCHANGED <<command, toStop, stopping, tasks, asks, count, history>>

Return ==
    /\ Top \in CallKinds /\ stopping = "no"
    /\ Unwind(Len(stack) - 1)
    /\ UNCHANGED <<command, toStop, stopping, tasks, asks, count, given, heard>>

(***************************************************************************)
(* sendDebugPrompt.                                                        *)
(***************************************************************************)
OpenPrompt ==
    /\ stopping # "no"
    /\ Len(stack) < MaxHeight
    /\ SetCommand("CONTINUE")
    /\ stack' = Append(stack, Prompt)
    /\ stopping' = "no"
    /\ UNCHANGED <<enabled, tasks, asks, count, history>>

\* A command of the client ends the loop.
ClientCommand(c) ==
    /\ Top = "prompt"
    /\ SetCommand(c)
    /\ stack' = SubSeq(stack, 1, Len(stack) - 1)
    /\ given' = Len(stack) - 1 /\ low' = Len(stack) - 1
    /\ UNCHANGED <<enabled, stopping, tasks, asks, count, heard>>

\* The stop that came at a prompt, or while the debugger was disabled.
StopTask ==
    /\ InLoop /\ tasks # <<>> /\ Head(tasks) = "stop"
    /\ tasks' = Tail(tasks)
    /\ IF Top = "prompt"
       THEN /\ command' = "CONTINUE"
            /\ \E h \in DOMAIN stack \cup {0} : h < Len(stack) - 1 /\ Throw(h)
       ELSE UNCHANGED <<stack, enabled, command, low, heard>>
    /\ UNCHANGED <<toStop, stopping, asks, count, given>>

(***************************************************************************)
(* gRPC threads.                                                           *)
(***************************************************************************)
PostRun ==
    /\ InLoop /\ count.runs < MaxRuns
    /\ \A i \in DOMAIN tasks : tasks[i] # "run"
    /\ tasks' = Append(tasks, "run")
    /\ count' = [count EXCEPT !.runs = @ + 1]
    /\ UNCHANGED <<stack, debugger, asks, history>>

\* debugCommandPause and debugCommandStop test, then set.
Ask(a) ==
    /\ count.asks < MaxAsks /\ a \notin asks
    /\ count' = [count EXCEPT !.asks = @ + 1]
    /\ IF Busy /\ (a = "ABORT" => enabled)
       THEN asks' = asks \cup {a} /\ UNCHANGED tasks
       ELSE /\ UNCHANGED asks
            /\ tasks' = IF a = "ABORT" THEN Append(tasks, "stop") ELSE tasks
    /\ heard' = heard \cup {a}
    /\ UNCHANGED <<stack, debugger, given, low>>

LateCommand(a) ==
    /\ a \in asks
    /\ asks' = asks \ {a}
    /\ SetCommand(a)
    /\ UNCHANGED <<stack, enabled, stopping, tasks, count, history>>

SteppingNext ==
    \/ StartRun \/ StatementEnds \/ RunEnds \/ Error
    \/ Statement \/ AbortStatement \/ Return \/ OpenPrompt \/ StopTask \/ PostRun
    \/ \E kind \in Kinds, env \in Envs \cup {Global} : EnterCall(kind, env)
    \/ \E c \in Commands \ {"PAUSE", "ABORT"} : ClientCommand(c)
    \/ \E a \in {"PAUSE", "ABORT"} : Ask(a) \/ LateCommand(a)

SteppingSpec == SteppingInit /\ [][SteppingNext]_steppingVars

-----------------------------------------------------------------------------
\* The variables have their types.
SteppingTypeOK ==
    /\ \A i \in DOMAIN stack :
         /\ stack[i].kind \in CallKinds \cup {"run", "prompt"}
         /\ stack[i].env \in Envs \cup {Global} /\ stack[i].was \in BOOLEAN
    /\ enabled \in BOOLEAN /\ command \in Commands
    /\ \A p \in toStop : p[2] \in 1..MaxHeight
    /\ stopping \in {"no", "breakpoint", "command"}
    /\ tasks \in Seq({"run", "stop"})
    /\ asks \subseteq {"PAUSE", "ABORT"} /\ heard \subseteq {"PAUSE", "ABORT"}
    /\ given \in 0..MaxHeight /\ low \in 0..given

\* Step over and step out (setCommand, doStep) stop before the next statement
\* of a call that was on the stack when the command was given, the innermost
\* one only for step over, however eval() shares environments, what is called
\* in between and how calls end; and never in a call made deeper than that.
StepsStopWhereTheyShould ==
    AtStatement /\ command \in {"STEP_OVER", "STEP_OUT"} =>
        LET top == Max(Contexts)
            limit == IF command = "STEP_OVER" THEN given ELSE given - 1
        IN /\ CommandStops => top <= limit
           /\ top <= low /\ top <= limit => CommandStops

\* disable, enable and WithDebuggerEnabled keep in step with the stack through
\* returns, errors, aborts and runs at a prompt: no stop inside a quiet
\* call, stops possible again after it, and the debugger off between runs.
EnabledFitsStack ==
    /\ Top = "none" => ~enabled
    /\ Top = "prompt" => enabled
    /\ Top \in CallKinds =>
         (enabled <=> \A i \in DOMAIN stack : i > Bottom => stack[i].kind # "quiet")

\* A late setCommand of debugCommandPause or debugCommandStop may reach a later
\* run than the one it tested, but only while the call is still under way:
\* what a finished call has left behind stops and aborts nothing.
AsksAreFresh ==
    AtStatement /\ command \in {"PAUSE", "ABORT"} => command \in heard

\* A step command stops where it should, the debugger is enabled exactly where
\* the stack says so, and a pause or stop of the client reaches no later call
\* (doStep, setCommand, WithDebuggerEnabled, debugCommandPause).
SteppingFollowsTheStack ==
    /\ SteppingTypeOK /\ StepsStopWhereTheyShould
    /\ EnabledFitsStack /\ AsksAreFresh
=============================================================================
