-------------------------- MODULE ClientRequests --------------------------
(***************************************************************************)
(* R code asks the client for something and waits in a nested event loop:  *)
(* sendAsyncRequestAndWait (View, show a file) until the client says it is *)
(* done, rStudioApiRequest until it responds or a Timer fires.  The        *)
(* answers carry no number: two flags say that some request is open, and   *)
(* the answer ends the innermost loop, whichever request that belongs to.  *)
(*                                                                         *)
(* A closure run by one of these loops may itself make a request.  The     *)
(* event loop is taken as TaskQueue describes it; that the event of a      *)
(* request may wait for room in asyncEvents is left out.                   *)
(***************************************************************************)
EXTENDS Naturals, Sequences

CONSTANTS MaxRequests,   \* bound: requests made
          MaxDepth,      \* bound: requests open at once
          MaxJumps       \* bound: interrupts that jump out of a loop

ASSUME RequestAssumption ==
    MaxRequests \in Nat /\ MaxDepth \in Nat /\ MaxJumps \in Nat

VARIABLES nesting,    \* whether closures run by these loops make requests
          stack,      \* the requests that wait, innermost last
          inRequest,  \* isInClientRequest and isInRStudioApiRequest
          response,   \* rStudioResponse: where it comes from
          timer,      \* the Timer of each request
          tasks,      \* closures posted to the main thread, oldest first
          asked,      \* requests the client has not answered
          made,       \* requests made so far
          result,     \* what each request has returned
          jumps,      \* interrupts that have jumped so far
          left        \* requests over before the client's answer came

loopVars == <<stack, inRequest, response, result, left>>
vars == <<nesting, loopVars, timer, tasks, asked, made, jumps>>

Kinds == {"view", "api"}
Ids == 1..MaxRequests
Sources == [from : {"nobody", "client", "timer"}, id : Ids \cup {0}]
Nobody == [from |-> "nobody", id |-> 0]
Frames == [kind : Kinds, id : Ids, at : {"loop", "join"}, saved : BOOLEAN]
Timers == {"none",    \* no Timer: a view, or a request yet to come
           "dead",    \* its thread has read finished before it was set
           "waits", "fired",   \* the action is waiting for the main thread
           "ran",     \* the closure of the action has run
           "done"}

TypeOK ==
    /\ nesting \in BOOLEAN
    /\ stack \in Seq(Frames) /\ Len(stack) <= MaxDepth
    /\ \A i \in 1..Len(stack) - 1 : stack[i].at = "loop"
    /\ \A i \in 1..Len(stack) : stack[i].id <= made
    /\ inRequest \in [Kinds -> BOOLEAN]
    /\ response \in Sources
    /\ timer \in [Ids -> Timers]
    /\ tasks \in Seq([from : {"client", "timer"}, kind : Kinds, id : Ids])
    /\ asked \subseteq [kind : Kinds, id : Ids]
    /\ made \in 0..MaxRequests
    /\ result \in [Ids -> Sources]
    /\ jumps \in 0..MaxJumps
    /\ left \subseteq Ids

Init ==
    /\ nesting \in BOOLEAN
    /\ stack = <<>> /\ tasks = <<>> /\ asked = {} /\ left = {}
    /\ inRequest = [k \in Kinds |-> FALSE]
    /\ response = Nobody
    /\ timer = [i \in Ids |-> "none"]
    /\ result = [i \in Ids |-> Nobody]
    /\ made = 0 /\ jumps = 0

Top == stack[Len(stack)]
Below == SubSeq(stack, 1, Len(stack) - 1)
AtLoop == stack # <<>> => Top.at = "loop"
--------------------------------------------------------------------------

\* The event goes out, the flag is set, the Timer starts.  Its thread starts
\* before its members action and finished are initialised; what it reads of
\* finished decides whether it waits at all.
Request(kind) ==
    /\ AtLoop /\ (nesting \/ stack = <<>>)
    /\ Len(stack) < MaxDepth /\ made < MaxRequests
    /\ made' = made + 1
    /\ asked' = asked \cup {[kind |-> kind, id |-> made']}
    /\ stack' = Append(stack, [kind |-> kind, id |-> made', at |-> "loop",
                               saved |-> inRequest[kind]])
    /\ inRequest' = [inRequest EXCEPT ![kind] = TRUE]
    /\ \/ kind = "view" /\ UNCHANGED timer
       \/ kind = "api" /\ \E how \in {"waits", "dead"} : timer' = [timer EXCEPT ![made'] = how]
    /\ UNCHANGED <<nesting, response, result, left, tasks, jumps>>

\* clientRequestFinished or rStudioApiResponse, called once per request.
Answer ==
    \E a \in asked :
        /\ asked' = asked \ {a}
        /\ tasks' = Append(tasks, [from |-> "client", kind |-> a.kind, id |-> a.id])
        /\ UNCHANGED <<nesting, loopVars, timer, made, jumps>>

\* Mutant of Fire: the test of finished after the wait the wrong way round.
FireInverted(id) ==
    /\ timer[id] = "waits"
    /\ timer' = [timer EXCEPT ![id] = "done"]
    /\ UNCHANGED <<nesting, loopVars, tasks, asked, made, jumps>>

\* The deadline: the thread runs the action with the Timer's mutex held.
Fire(id) ==
    /\ timer[id] = "waits"
    /\ timer' = [timer EXCEPT ![id] = "fired"]
    /\ tasks' = Append(tasks, [from |-> "timer", kind |-> "api", id |-> id])
    /\ UNCHANGED <<nesting, loopVars, asked, made, jumps>>

\* executeOnMainThread returns, the mutex is released, the thread ends.
ActionReturns(id) ==
    /\ timer[id] = "ran"
    /\ timer' = [timer EXCEPT ![id] = "done"]
    /\ UNCHANGED <<nesting, loopVars, tasks, asked, made, jumps>>
--------------------------------------------------------------------------
(* The main thread.                                                        *)

\* Mutant of EndLoop: the flag is cleared, not put back.
EndLoopClears(t) ==
    IF stack = <<>> THEN UNCHANGED <<stack, inRequest, result>>
    ELSE /\ result' = [result EXCEPT ![Top.id] = response']
         /\ stack' = IF Top.kind = "api" THEN [stack EXCEPT ![Len(stack)].at = "join"]
                                         ELSE Below
         /\ inRequest' = [inRequest EXCEPT ![Top.kind] = FALSE]

\* Mutant of EndLoop: the response is copied before the closure stores it.
EndLoopStale(t) ==
    IF stack = <<>> THEN UNCHANGED <<stack, inRequest, result>>
    ELSE /\ result' = [result EXCEPT ![Top.id] = response]
         /\ stack' = IF Top.kind = "api" THEN [stack EXCEPT ![Len(stack)].at = "join"]
                                         ELSE Below
         /\ inRequest' = [inRequest EXCEPT !["view"] = @ /\ Top.kind = "api"]

\* breakEventLoop: the innermost request returns.  rStudioApiRequest copies
\* the response before it leaves the scope of its Timer.
EndLoop(t) ==
    IF stack = <<>> THEN UNCHANGED <<stack, inRequest, result>>
    ELSE /\ result' = [result EXCEPT ![Top.id] =
                         IF Top.kind = "api" THEN response' ELSE [from |-> t.from, id |-> t.id]]
         /\ IF Top.kind = "api"
              THEN /\ stack' = [stack EXCEPT ![Len(stack)].at = "join"]
                   /\ UNCHANGED inRequest
              ELSE /\ stack' = Below
                   /\ inRequest' = [inRequest EXCEPT !["view"] = Top.saved]

\* A request that ends without the closure of its own answer.
Leaves(t) == left' = IF stack = <<>> \/ (t.from = "client" /\ t.id = Top.id)
                       THEN left ELSE left \cup {Top.id}

\* The closure of clientRequestFinished, rStudioApiResponse or the Timer.
RunTask ==
    /\ AtLoop /\ tasks # <<>>
    /\ tasks' = Tail(tasks)
    /\ LET t == Head(tasks)
       IN  /\ IF t.from = "timer" \/ inRequest[t.kind]
                THEN /\ response' = IF t.kind = "api" THEN [from |-> t.from, id |-> t.id]
                                                      ELSE response
                     /\ EndLoop(t) /\ Leaves(t)
                ELSE UNCHANGED loopVars
           /\ timer' = IF t.from = "timer" THEN [timer EXCEPT ![t.id] = "ran"] ELSE timer
    /\ UNCHANGED <<nesting, asked, made, jumps>>

\* Timer::~Timer takes the mutex and joins the thread; then the flag.
Join ==
    /\ stack # <<>> /\ Top.at = "join"
    /\ timer[Top.id] \notin {"fired", "ran"}
    /\ timer' = [timer EXCEPT ![Top.id] = "done"]
    /\ inRequest' = [inRequest EXCEPT !["api"] = Top.saved]
    /\ stack' = Below
    /\ UNCHANGED <<nesting, response, result, left, tasks, asked, made, jumps>>

\* External: an interrupt jumps out of R_checkActivity to the R code that
\* made the request.  Neither flag nor Timer is cleaned up.
Jump ==
    /\ stack # <<>> /\ Top.at = "loop" /\ jumps < MaxJumps
    /\ jumps' = jumps + 1
    /\ stack' = Below
    /\ left' = left \cup {Top.id}
    /\ UNCHANGED <<nesting, inRequest, response, result, timer, tasks, asked, made>>
--------------------------------------------------------------------------
Next == \/ \E kind \in Kinds : Request(kind)
        \/ \E id \in Ids : Fire(id) \/ ActionReturns(id)
        \/ Answer \/ RunTask \/ Join \/ Jump

Spec == Init /\ [][Next]_vars

\* The main thread runs what it can, deadlines pass.  The client need not
\* answer.
Fairness == /\ WF_vars(RunTask) /\ WF_vars(Join)
            /\ \A id \in Ids : WF_vars(Fire(id)) /\ WF_vars(ActionReturns(id))

FairSpec == Spec /\ Fairness
--------------------------------------------------------------------------
\* While the innermost loop belongs to a request its flag is up, so the
\* answer to it is heard, however requests were nested, timed out and jumped
\* out of before (the ScopedAssigns of both functions).
InnermostIsHeard ==
    stack # <<>> /\ Top.at = "loop" => inRequest[Top.kind]

\* When no request nests in another, each gets its own answer or its own timeout
\* (readLineWithRequest and rStudioApiRequest), as long as every request before it
\* was over only when its answer came: an answer, or a timer, that comes later ends
\* another one.
OwnAnswer ==
    ~nesting =>
        \A id \in Ids :
            result[id] # Nobody /\ (\A before \in left : before >= id) => result[id].id = id

\* An RStudio request, not nested, ends although the client never answers, if
\* its timer lives - but for one race: an answer ends the loop while the timer's
\* action is on its way, and the destructor waits for the thread that waits
\* for the main thread.
Stuck == stack # <<>> /\ Top.at = "join" /\ timer[Top.id] = "fired"

\* The race needs an answer: a request ended by its own timeout is not stuck.
OnlyAnswersStick == Stuck => result[Top.id] # [from |-> "timer", id |-> Top.id]

\* RStudio requests end without the client's help, unless an answer races with
\* the timer's action, and only then is a request stuck (the destructor of
\* Timer in rStudioApiRequest).
RequestsEnd ==
    /\ []OnlyAnswersStick
    /\ ~nesting =>
         \A id \in Ids :
           (timer[id] = "waits" /\ \E i \in 1..Len(stack) : stack[i].id = id)
               ~> \/ \A i \in 1..Len(stack) : stack[i].id # id
                  \/ Stuck
==========================================================================
