----------------------- MODULE MainThreadCall_proofs -----------------------
(***************************************************************************)
(* For every set of calls: the types, NoDanglingFrame and NoStrayInterrupt *)
(* are invariants of MainThreadCall, and it implements RemoteCall.         *)
(***************************************************************************)
EXTENDS MainThreadCall, SequenceTheorems, TLAPS

\* Leaving the innermost activation of a stack.
LEMMA FrontFacts ==
    ASSUME NEW S, NEW s \in Seq(S), s # <<>>
    PROVE  /\ SubSeq(s, 1, Len(s) - 1) \in Seq(S)
           /\ Len(s) \in Nat \ {0}
           /\ Len(SubSeq(s, 1, Len(s) - 1)) = Len(s) - 1
           /\ s[Len(s)] \in S
           /\ \A i \in 1..Len(s) - 1 : SubSeq(s, 1, Len(s) - 1)[i] = s[i]
<1>1. Len(s) \in Nat \ {0}
  OBVIOUS
<1> DEFINE n == Len(s) - 1
<1>2. n \in 0..Len(s)
  BY <1>1
<1> HIDE DEF n
<1>3. /\ SubSeq(s, 1, n) \in Seq(S)
      /\ Len(SubSeq(s, 1, n)) = n
      /\ \A i \in 1..n : SubSeq(s, 1, n)[i] = s[i]
  BY <1>2
<1> QED
  BY <1>1, <1>2, <1>3 DEF n

Distinct(s) == \A i, j \in 1..Len(s) : s[i] = s[j] => i = j
Elements(s) == {s[i] : i \in 1..Len(s)}

\* What each of the three does to the elements and their being distinct.
LEMMA DistinctAppend ==
    ASSUME NEW S, NEW s \in Seq(S), NEW e \in S, Distinct(s), e \notin Elements(s)
    PROVE  Distinct(Append(s, e)) /\ Elements(Append(s, e)) = Elements(s) \cup {e}
<1> DEFINE t == Append(s, e)
<1>1. /\ Len(s) \in Nat /\ Len(t) = Len(s) + 1 /\ t[Len(s) + 1] = e
      /\ \A i \in 1..Len(s) : t[i] = s[i]
  BY AppendProperties
<1> HIDE DEF t
<1>2. \A i \in 1..Len(t) : i \in 1..Len(s) \/ i = Len(s) + 1
  BY <1>1
<1>3. Distinct(t)
  BY <1>1, <1>2 DEF Distinct, Elements
<1>4. Elements(t) = Elements(s) \cup {e}
  <2>1. ASSUME NEW x \in Elements(t) PROVE x \in Elements(s) \cup {e}
    BY <1>1, <1>2 DEF Elements
  <2>2. ASSUME NEW x \in Elements(s) PROVE x \in Elements(t)
    <3>1. PICK i \in 1..Len(s) : x = s[i]
      BY DEF Elements
    <3>2. i \in 1..Len(t) /\ x = t[i]
      BY <1>1, <3>1
    <3> QED
      BY <3>2 DEF Elements
  <2>3. e \in Elements(t)
    <3>1. Len(s) + 1 \in 1..Len(t)
      BY <1>1
    <3> QED
      BY <1>1, <3>1 DEF Elements
  <2> QED
    BY <2>1, <2>2, <2>3
<1> QED
  BY <1>3, <1>4 DEF t

LEMMA DistinctTail ==
    ASSUME NEW S, NEW s \in Seq(S), s # <<>>, Distinct(s)
    PROVE  /\ Head(s) \in Elements(s)
           /\ Distinct(Tail(s))
           /\ \A x \in Elements(Tail(s)) : x \in Elements(s) /\ x # Head(s)
<1> DEFINE t == Tail(s)
<1>1. /\ Len(s) \in Nat \ {0} /\ Len(t) = Len(s) - 1 /\ Head(s) = s[1]
      /\ \A i \in 1..Len(s) - 1 : t[i] = s[i + 1]
  BY HeadTailProperties
<1> HIDE DEF t
<1>2. \A i \in 1..Len(t) : i \in 1..Len(s) - 1 /\ i + 1 \in 1..Len(s) /\ i + 1 # 1
  BY <1>1
<1>3. Head(s) \in Elements(s)
  BY <1>1 DEF Elements
<1>4. Distinct(t)
  BY <1>1, <1>2 DEF Distinct
<1>5. ASSUME NEW x \in Elements(t) PROVE x \in Elements(s) /\ x # Head(s)
  <2>1. PICK i \in 1..Len(t) : x = t[i]
    BY <1>5 DEF Elements
  <2>2. x = s[i + 1] /\ i + 1 \in 1..Len(s) /\ i + 1 # 1
    BY <1>1, <1>2, <2>1
  <2>3. 1 \in 1..Len(s)
    BY <1>1
  <2> QED
    BY <1>1, <2>2, <2>3 DEF Elements, Distinct
<1> QED
  BY <1>3, <1>4, <1>5 DEF t

USE DEF mainVars, quitVars
----------------------------------------------------------------------------
\* The types are preserved by every step.
LEMMA TypeStep == TypeOK /\ [Next]_vars => TypeOK'
<1> SUFFICES ASSUME TypeOK, [Next]_vars PROVE TypeOK'
  OBVIOUS
<1> USE CallAssumption DEF TypeOK
<1>1. ASSUME NEW c \in Calls, Post(c) PROVE TypeOK'
  <2>1. immediateQueue' \in Seq(ImmediateCalls)
    <3>1. CASE c \in ImmediateCalls
      <4>1. immediateQueue' = Append(immediateQueue, c)
        BY <1>1, <3>1 DEF Post
      <4> QED
        BY <3>1, <4>1, AppendProperties
    <3>2. CASE c \notin ImmediateCalls
      BY <1>1, <3>2 DEF Post
    <3> QED
      BY <3>1, <3>2
  <2>2. queue' \in Seq(OrdinaryCalls)
    <3>1. CASE c \in ImmediateCalls
      BY <1>1, <3>1 DEF Post
    <3>2. CASE c \notin ImmediateCalls
      <4>1. c \in OrdinaryCalls
        BY <3>2 DEF OrdinaryCalls
      <4>2. queue' = Append(queue, c)
        BY <1>1, <3>2 DEF Post
      <4> QED
        BY <4>1, <4>2, AppendProperties
    <3> QED
      BY <3>1, <3>2
  <2> QED
    BY <1>1, <2>1, <2>2 DEF Post
<1>2. ASSUME NEW c \in Calls, Handler(c) PROVE TypeOK'
  BY <1>2 DEF Handler, Check, Raise, StoreInterrupted, Wake
<1>3. ASSUME NEW c \in Calls, ClientCancels(c) PROVE TypeOK'
  BY <1>3 DEF ClientCancels
<1>4. CASE Begin
  <2>1. Head(queue) \in Calls /\ queue' \in Seq(OrdinaryCalls)
    BY <1>4, HeadTailProperties DEF Begin, OrdinaryCalls
  <2>2. stack' \in Seq(Calls)
    BY <1>4, <2>1, AppendProperties DEF Begin, Enter
  <2> QED
    BY <1>4, <2>1, <2>2 DEF Begin, Enter
<1>5. CASE BeginImmediate
  <2>1. Head(immediateQueue) \in Calls /\ immediateQueue' \in Seq(ImmediateCalls)
    BY <1>5, HeadTailProperties DEF BeginImmediate
  <2>2. stack' \in Seq(Calls)
    BY <1>5, <2>1, AppendProperties DEF BeginImmediate, Enter
  <2> QED
    BY <1>5, <2>1, <2>2 DEF BeginImmediate, Enter
<1>6. ASSUME NEW c \in Calls, Closure(c) PROVE TypeOK'
  <2>1. CASE Conclude(c)
    <3>1. stack # <<>>
      BY <2>1 DEF Conclude, OnTop
    <3>2. stack' \in Seq(Calls)
      BY <2>1, <3>1, FrontFacts DEF Conclude
    <3>3. phase' \in [Calls -> {"none", "starting", "running", "finishing"}]
      BY <2>1 DEF Conclude
    <3> QED
      BY <2>1, <3>2, <3>3 DEF Conclude
  <2>2. CASE ~Conclude(c)
    BY <1>6, <2>2 DEF Closure, Run, Return, Interrupted, JumpToTopLevel, CallQuits
  <2> QED
    BY <2>1, <2>2
<1>7. CASE QuitTask \/ QuitTimeout \/ Shutdown \/ QuitRaise \/ QuitPost \/ QuitProceed
  BY <1>7 DEF QuitTask, QuitTimeout, Shutdown, QuitRaise, QuitPost, QuitProceed
<1>8. CASE UNCHANGED vars
  BY <1>8 DEF vars
<1> QED
  BY <1>1, <1>2, <1>3, <1>4, <1>5, <1>6, <1>7, <1>8 DEF Next, MainStep

\* Every variable keeps its type.
THEOREM TypeCorrect == Spec => []TypeOK
<1>1. Init => TypeOK
  <2> SUFFICES ASSUME Init PROVE TypeOK
    OBVIOUS
  <2>1. queue \in Seq(OrdinaryCalls) /\ immediateQueue \in Seq(ImmediateCalls)
    BY DEF Init
  <2>2. stack \in Seq(Calls)
    BY DEF Init
  <2> QED
    BY <2>1, <2>2 DEF Init, TypeOK
<1> QED
  BY <1>1, TypeStep, PTL DEF Spec
----------------------------------------------------------------------------
(* The inductive invariant.                                                *)

\* What the handler, the closure and the main thread know of one call.
CallInv ==
    \A c \in Calls :
        /\ phase[c] = "starting" => state[c] = "PENDING"
        /\ phase[c] \in {"running", "finishing"}
             <=> state[c] \in {"RUNNING", "INTERRUPTING", "INTERRUPTED"}
        /\ state[c] = "INTERRUPTING" <=> rpc[c] \in {"raise", "store"}
        /\ rpc[c] \in {"raise", "store"} => cancelled[c]
        /\ rpc[c] = "idle" => state[c] = "PENDING" /\ phase[c] = "none"
        /\ rpc[c] = "returned" => state[c] = "DONE" \/ terminateProceed

\* A queued closure has not been started, and is queued once.
Queued(q) ==
    /\ \A c \in Elements(q) : /\ state[c] = "PENDING" /\ phase[c] = "none"
                              /\ rpc[c] # "idle"
    /\ Distinct(q)

\* The closures on the stack are different ones; all but the innermost are
\* inside their functions.
StackInv ==
    /\ \A i \in 1..Len(stack) : phase[stack[i]] # "none"
    /\ \A i \in 1..Len(stack) - 1 : phase[stack[i]] = "running"
    /\ Distinct(stack)

IInv == /\ TypeOK
        /\ CallInv
        /\ Queued(queue)
        /\ Queued(immediateQueue)
        /\ StackInv
        /\ terminateProceed => terminate
        /\ NoStrayInterrupt

\* The elements of the queues are calls.
LEMMA QueueElements ==
    ASSUME TypeOK
    PROVE  /\ queue \in Seq(Calls) /\ immediateQueue \in Seq(Calls)
           /\ Elements(queue) \subseteq Calls \ ImmediateCalls
           /\ Elements(immediateQueue) \subseteq Calls \cap ImmediateCalls
<1>1. \A i \in 1..Len(queue) : queue[i] \in OrdinaryCalls
  BY DEF TypeOK
<1>2. \A i \in 1..Len(immediateQueue) : immediateQueue[i] \in ImmediateCalls
  BY DEF TypeOK
<1>3. queue \in Seq(Calls) /\ immediateQueue \in Seq(Calls)
  BY CallAssumption DEF TypeOK, OrdinaryCalls
<1> QED
  BY <1>1, <1>2, <1>3, CallAssumption DEF Elements, OrdinaryCalls

\* Handing a closure over.
LEMMA PostStep ==
    ASSUME NEW c \in Calls, IInv, TypeOK', Post(c)
    PROVE  IInv'
<1> USE DEF IInv
<1>1. state[c] = "PENDING" /\ phase[c] = "none" /\ rpc[c] = "idle"
  BY DEF Post, CallInv
<1>2. CallInv'
  BY DEF Post, CallInv, TypeOK
<1>3. StackInv'
  BY DEF Post, StackInv
<1>4. c \notin Elements(queue) /\ c \notin Elements(immediateQueue)
  BY <1>1 DEF Queued
<1>5. ASSUME NEW q, Queued(q), Elements(q) \subseteq Calls
      PROVE  \A d \in Elements(q) \cup {c} :
                 state'[d] = "PENDING" /\ phase'[d] = "none" /\ rpc'[d] # "idle"
  BY <1>1, <1>5 DEF Post, Queued, TypeOK
<1>6. \/ queue' = queue
      \/ Distinct(queue') /\ Elements(queue') = Elements(queue) \cup {c}
  <2>1. queue' = queue \/ queue' = Append(queue, c)
    BY DEF Post
  <2>2. queue \in Seq(Calls) /\ Distinct(queue) /\ c \notin Elements(queue)
    BY <1>4, QueueElements DEF Queued
  <2>3. /\ Distinct(Append(queue, c))
        /\ Elements(Append(queue, c)) = Elements(queue) \cup {c}
    BY <2>2, DistinctAppend
  <2> QED
    BY <2>1, <2>3
<1>7. \/ immediateQueue' = immediateQueue
      \/ /\ Distinct(immediateQueue')
         /\ Elements(immediateQueue') = Elements(immediateQueue) \cup {c}
  <2>1. immediateQueue' = immediateQueue \/ immediateQueue' = Append(immediateQueue, c)
    BY DEF Post
  <2>2. immediateQueue \in Seq(Calls) /\ Distinct(immediateQueue) /\ c \notin Elements(immediateQueue)
    BY <1>4, QueueElements DEF Queued
  <2>3. /\ Distinct(Append(immediateQueue, c))
        /\ Elements(Append(immediateQueue, c)) = Elements(immediateQueue) \cup {c}
    BY <2>2, DistinctAppend
  <2> QED
    BY <2>1, <2>3
<1>8. Queued(queue)'
  BY <1>5, <1>6, QueueElements DEF Queued
<1>9. Queued(immediateQueue)'
  BY <1>5, <1>7, QueueElements DEF Queued
<1> QED
  BY <1>2, <1>3, <1>8, <1>9 DEF Post, NoStrayInterrupt

\* The handler's own steps leave queues and stack alone.
LEMMA HandlerStep ==
    ASSUME NEW c \in Calls, IInv, TypeOK', Handler(c)
    PROVE  IInv'
<1> USE DEF IInv
<1>1. UNCHANGED <<queue, immediateQueue, stack, phase, quitAsked, terminate, terminateProceed>>
  BY DEF Handler, Check, Raise, StoreInterrupted, Wake
<1>2. CallInv'
  <2>1. CASE Check(c)
    BY <2>1 DEF Check, CallInv, TypeOK
  <2>2. CASE Raise(c) \/ Wake(c)
    BY <2>2 DEF Raise, Wake, CallInv, TypeOK
  <2>3. CASE StoreInterrupted(c)
    BY <2>3 DEF StoreInterrupted, CallInv, TypeOK
  <2> QED
    BY <2>1, <2>2, <2>3 DEF Handler
<1>3. \A d \in Calls : state[d] = "PENDING" /\ rpc[d] # "idle"
                         => state'[d] = "PENDING" /\ rpc'[d] # "idle"
  BY DEF Handler, Check, Raise, StoreInterrupted, Wake, CallInv, TypeOK
<1>4. Queued(queue)' /\ Queued(immediateQueue)'
  BY <1>1, <1>3, QueueElements DEF Queued
<1>5. StackInv'
  BY <1>1 DEF StackInv
<1>6. NoStrayInterrupt'
  <2>1. CASE Raise(c)
    <3>1. cancelled[c] /\ phase[c] # "none"
      BY <2>1 DEF Raise, CallInv, TypeOK
    <3> QED
      BY <2>1, <3>1 DEF Raise, NoStrayInterrupt
  <2>2. CASE ~Raise(c)
    <3>1. interrupt' = interrupt /\ \A d \in Calls : cancelled[d] => cancelled'[d]
      BY <2>2 DEF Handler, Check, StoreInterrupted, Wake, TypeOK
    <3> QED
      BY <1>1, <3>1 DEF NoStrayInterrupt
  <2> QED
    BY <2>1, <2>2
<1> QED
  BY <1>1, <1>2, <1>4, <1>5, <1>6

\* Main-thread steps that start no closure and end none.
LEMMA QuietStep ==
    ASSUME IInv, TypeOK',
           UNCHANGED <<queue, immediateQueue, stack, phase, state, rpc, cancelled>>,
           interrupt' => interrupt \/ quitAsked' # "no",
           quitAsked # "no" => quitAsked' # "no",
           terminateProceed => terminateProceed',
           terminateProceed' => terminate'
    PROVE  IInv'
<1> USE DEF IInv
<1>1. CallInv'
  BY DEF CallInv
<1>2. Queued(queue)' /\ Queued(immediateQueue)'
  BY DEF Queued
<1>3. StackInv'
  BY DEF StackInv
<1>4. NoStrayInterrupt'
  BY DEF NoStrayInterrupt
<1> QED
  BY <1>1, <1>2, <1>3, <1>4

\* The client's step and those that end the process are quiet.
LEMMA QuitStep ==
    ASSUME IInv, TypeOK',
           \/ \E c \in Calls : ClientCancels(c)
           \/ QuitRaise \/ QuitPost \/ QuitTask \/ QuitProceed \/ QuitTimeout \/ Shutdown
           \/ \E c \in Calls : CallQuits(c)
    PROVE  IInv'
<1> DEFINE Quiet ==
       /\ UNCHANGED <<queue, immediateQueue, stack, phase, state, rpc, cancelled>>
       /\ interrupt' => interrupt \/ quitAsked' # "no"
       /\ quitAsked # "no" => quitAsked' # "no"
       /\ terminateProceed => terminateProceed'
       /\ terminateProceed' => terminate'
<1>1. CASE \E c \in Calls : ClientCancels(c) \/ CallQuits(c)
  <2>1. Quiet
    BY <1>1 DEF IInv, ClientCancels, CallQuits
  <2> QED
    BY <2>1, QuietStep
<1>2. CASE QuitRaise \/ QuitPost \/ QuitTask
  <2>1. Quiet
    BY <1>2 DEF IInv, QuitRaise, QuitPost, QuitTask
  <2> QED
    BY <2>1, QuietStep
<1>3. CASE QuitProceed \/ QuitTimeout \/ Shutdown
  <2>1. Quiet
    BY <1>3 DEF IInv, TypeOK, QuitProceed, QuitTimeout, Shutdown
  <2> QED
    BY <2>1, QuietStep
<1> QED
  BY <1>1, <1>2, <1>3

\* A closure is taken from a queue and entered.
LEMMA EnterStep ==
    ASSUME IInv, TypeOK', Begin \/ BeginImmediate
    PROVE  IInv'
<1> USE DEF IInv
<1>1. PICK c \in Calls :
        /\ c \in Elements(queue) \/ c \in Elements(immediateQueue)
        /\ Enter(c)
        /\ Queued(queue)' /\ Queued(immediateQueue)'
  <2>1. CASE Begin
    <3> DEFINE c == Head(queue)
    <3>1. /\ c \in Elements(queue) /\ Distinct(Tail(queue))
          /\ \A x \in Elements(Tail(queue)) : x \in Elements(queue) /\ x # c
      BY <2>1, QueueElements, DistinctTail DEF Begin, Queued
    <3>2. c \in Calls /\ Enter(c) /\ queue' = Tail(queue) /\ immediateQueue' = immediateQueue
      BY <2>1, <3>1, QueueElements DEF Begin
    <3>3. c \notin Elements(immediateQueue)
      BY <3>1, QueueElements
    <3>4. phase' = [phase EXCEPT ![c] = "starting"] /\ UNCHANGED <<state, rpc>>
      BY <3>2 DEF Enter
    <3> HIDE DEF c
    <3>5. Queued(queue)'
      BY <3>1, <3>2, <3>4, QueueElements DEF Queued, TypeOK
    <3>6. Queued(immediateQueue)'
      BY <3>2, <3>3, <3>4, QueueElements DEF Queued, TypeOK
    <3> QED
      BY <3>1, <3>2, <3>5, <3>6
  <2>2. CASE BeginImmediate
    <3> DEFINE c == Head(immediateQueue)
    <3>1. /\ c \in Elements(immediateQueue) /\ Distinct(Tail(immediateQueue))
          /\ \A x \in Elements(Tail(immediateQueue)) :
                 x \in Elements(immediateQueue) /\ x # c
      BY <2>2, QueueElements, DistinctTail DEF BeginImmediate, Queued
    <3>2. /\ c \in Calls /\ Enter(c)
          /\ immediateQueue' = Tail(immediateQueue) /\ queue' = queue
      BY <2>2, <3>1, QueueElements DEF BeginImmediate
    <3>3. c \notin Elements(queue)
      BY <3>1, QueueElements
    <3>4. phase' = [phase EXCEPT ![c] = "starting"] /\ UNCHANGED <<state, rpc>>
      BY <3>2 DEF Enter
    <3> HIDE DEF c
    <3>5. Queued(immediateQueue)'
      BY <3>1, <3>2, <3>4, QueueElements DEF Queued, TypeOK
    <3>6. Queued(queue)'
      BY <3>2, <3>3, <3>4, QueueElements DEF Queued, TypeOK
    <3> QED
      BY <3>1, <3>2, <3>5, <3>6
  <2> QED
    BY <2>1, <2>2
<1>2. state[c] = "PENDING" /\ phase[c] = "none" /\ rpc[c] # "idle"
  BY <1>1 DEF Queued
<1>3. /\ phase' = [phase EXCEPT ![c] = "starting"]
      /\ stack' = Append(stack, c)
      /\ interrupt' = FALSE
      /\ UNCHANGED <<state, rpc, cancelled, terminate, terminateProceed>>
  BY <1>1 DEF Enter
<1>4. CallInv'
  BY <1>2, <1>3 DEF CallInv, TypeOK
<1>5. stack = <<>> \/ phase[stack[Len(stack)]] = "running"
  BY DEF Begin, BeginImmediate, AtEventLoop, AtHandler, OnTop, Top
<1>6. stack \in Seq(Calls) /\ c \notin Elements(stack)
  BY <1>2 DEF StackInv, Elements, TypeOK
<1>7. /\ Len(stack) \in Nat /\ Len(stack') = Len(stack) + 1
      /\ stack'[Len(stack) + 1] = c
      /\ \A i \in 1..Len(stack) : stack'[i] = stack[i]
  BY <1>3, <1>6, AppendProperties
<1>8. StackInv'
  <2>1. Distinct(stack')
    BY <1>3, <1>6, DistinctAppend DEF StackInv
  <2>2. ASSUME NEW i \in 1..Len(stack) PROVE stack[i] # c /\ phase[stack[i]] = "running"
    <3>1. stack[i] # c
      BY <1>6 DEF Elements
    <3>2. i \in 1..Len(stack) - 1 \/ i = Len(stack)
      BY <1>7
    <3>3. stack # <<>>
      BY <1>7
    <3> QED
      BY <1>5, <3>1, <3>2, <3>3 DEF StackInv
  <2>3. \A i \in 1..Len(stack) : stack[i] \in Calls
    BY <1>6
  <2>4. \A i \in 1..Len(stack') : i \in 1..Len(stack) \/ i = Len(stack')
    BY <1>7
  <2>5. Len(stack') - 1 = Len(stack) /\ stack'[Len(stack')] = c
    BY <1>7
  <2>6. \A i \in 1..Len(stack) : phase'[stack'[i]] = "running"
    BY <1>3, <1>7, <2>2, <2>3 DEF TypeOK
  <2>7. phase'[c] = "starting"
    BY <1>3 DEF TypeOK
  <2> QED
    BY <2>1, <2>4, <2>5, <2>6, <2>7 DEF StackInv
<1> QED
  BY <1>1, <1>3, <1>4, <1>8 DEF NoStrayInterrupt

\* Steps of the closure on top of the stack that leave it there.
LEMMA InnerStep ==
    ASSUME NEW c \in Calls, IInv, TypeOK',
           Run(c) \/ Return(c) \/ Interrupted(c) \/ JumpToTopLevel(c)
    PROVE  IInv'
<1> USE DEF IInv
<1>1. /\ UNCHANGED <<queue, immediateQueue, stack, rpc, cancelled, quitAsked,
                     terminate, terminateProceed>>
      /\ stack # <<>> /\ c = stack[Len(stack)]
      /\ phase[c] # "none"
      /\ interrupt' => interrupt
  BY DEF Run, Return, Interrupted, JumpToTopLevel, OnTop, Top
<1>2. /\ phase' = [phase EXCEPT ![c] = phase'[c]] /\ phase'[c] # "none"
      /\ state' = [state EXCEPT ![c] = state'[c]]
  BY DEF Run, Return, Interrupted, JumpToTopLevel, TypeOK
<1>3. CallInv'
  <2>1. CASE Run(c)
    BY <2>1 DEF Run, OnTop, CallInv, TypeOK
  <2>2. CASE Return(c) \/ Interrupted(c) \/ JumpToTopLevel(c)
    BY <2>2 DEF Return, Interrupted, JumpToTopLevel, OnTop, CallInv, TypeOK
  <2> QED
    BY <2>1, <2>2
<1>4. c \notin Elements(queue) /\ c \notin Elements(immediateQueue)
  BY <1>1 DEF Queued
<1>5. \A d \in Calls \ {c} : phase'[d] = phase[d] /\ state'[d] = state[d]
  BY <1>2 DEF TypeOK
<1>6. Queued(queue)' /\ Queued(immediateQueue)'
  BY <1>1, <1>4, <1>5, QueueElements DEF Queued
<1>7. StackInv'
  <2>1. Len(stack) \in Nat \ {0} /\ \A i \in 1..Len(stack) : stack[i] \in Calls
    BY <1>1 DEF TypeOK
  <2>2. \A i \in 1..Len(stack) - 1 : i \in 1..Len(stack) /\ stack[i] # c
    BY <1>1, <2>1 DEF StackInv, Distinct
  <2> QED
    BY <1>1, <1>2, <1>5, <2>1, <2>2 DEF StackInv
<1>8. NoStrayInterrupt'
  BY <1>1, <1>2, <1>5 DEF NoStrayInterrupt
<1> QED
  BY <1>1, <1>3, <1>6, <1>7, <1>8

\* The Finally of the closure on top.
LEMMA ConcludeStep ==
    ASSUME NEW c \in Calls, IInv, TypeOK', Conclude(c)
    PROVE  IInv'
<1> USE DEF IInv
<1> DEFINE below == stack[Len(stack) - 1]
           jumps == unwinding /\ Len(stack) > 1
<1>1. /\ stack # <<>> /\ c = stack[Len(stack)] /\ phase[c] = "finishing"
      /\ MutexFree(c) /\ state[c] # "INTERRUPTING"
      /\ state' = [state EXCEPT ![c] = "DONE"] /\ interrupt' = FALSE
      /\ stack' = SubSeq(stack, 1, Len(stack) - 1)
      /\ UNCHANGED <<queue, immediateQueue, rpc, cancelled, quitAsked,
                     terminate, terminateProceed>>
  BY DEF Conclude, OnTop, Top
<1>2. /\ Len(stack) \in Nat \ {0} /\ Len(stack') = Len(stack) - 1
      /\ \A i \in 1..Len(stack) - 1 : stack'[i] = stack[i] /\ stack[i] \in Calls
      /\ \A i \in 1..Len(stack) - 1 : i \in 1..Len(stack)
  BY <1>1, FrontFacts DEF TypeOK
<1>3. \A i \in 1..Len(stack) - 1 : stack[i] # c /\ phase[stack[i]] = "running"
  BY <1>1, <1>2 DEF StackInv, Distinct
<1>4. jumps => below \in Calls /\ below # c /\ phase[below] = "running"
  <2>1. jumps => Len(stack) - 1 \in 1..Len(stack) - 1
    BY <1>2
  <2> QED
    BY <1>2, <1>3, <2>1
<1>5. phase' = [d \in Calls |-> IF d = c THEN "none"
                                ELSE IF jumps /\ d = below THEN "finishing"
                                ELSE phase[d]]
  BY <1>4 DEF Conclude, TypeOK
<1> HIDE DEF below, jumps
<1>6. CallInv'
  BY <1>1, <1>4, <1>5 DEF CallInv, TypeOK, MutexFree
<1>7. /\ \A d \in Elements(queue) : d \in Calls /\ d # c /\ (jumps => d # below)
      /\ \A d \in Elements(immediateQueue) : d \in Calls /\ d # c /\ (jumps => d # below)
  BY <1>1, <1>4, QueueElements DEF Queued
<1>8. Queued(queue)' /\ Queued(immediateQueue)'
  BY <1>1, <1>5, <1>7 DEF Queued, TypeOK
<1>9. StackInv'
  <2>1. Distinct(stack')
    BY <1>2 DEF StackInv, Distinct
  <2>2. \A i \in 1..Len(stack') : phase'[stack'[i]] # "none"
    BY <1>2, <1>3, <1>5
  <2>3. ASSUME NEW i \in 1..Len(stack') - 1 PROVE phase'[stack'[i]] = "running"
    <3>1. i \in 1..Len(stack) - 1 /\ Len(stack) - 1 \in 1..Len(stack) /\ i # Len(stack) - 1
      BY <1>2
    <3>2. stack[i] # below
      BY <3>1, <1>2 DEF StackInv, Distinct, below
    <3> QED
      BY <3>1, <3>2, <1>2, <1>3, <1>5
  <2> QED
    BY <2>1, <2>2, <2>3 DEF StackInv
<1>10. NoStrayInterrupt'
  BY <1>1 DEF NoStrayInterrupt
<1> QED
  BY <1>1, <1>6, <1>8, <1>9, <1>10

\* The invariant holds from the start and every step keeps it.
THEOREM Inductive == Spec => []IInv
<1>1. Init => IInv
  <2> SUFFICES ASSUME Init PROVE IInv
    OBVIOUS
  <2>1. TypeOK
    <3>1. queue \in Seq(OrdinaryCalls) /\ immediateQueue \in Seq(ImmediateCalls)
      BY DEF Init
    <3>2. stack \in Seq(Calls)
      BY DEF Init
    <3> QED
      BY <3>1, <3>2 DEF Init, TypeOK
  <2>2. Queued(queue) /\ Queued(immediateQueue)
    BY DEF Init, Queued, Elements, Distinct
  <2>3. StackInv
    BY DEF Init, StackInv, Distinct
  <2>4. CallInv /\ NoStrayInterrupt
    BY DEF Init, CallInv, NoStrayInterrupt
  <2> QED
    BY <2>1, <2>2, <2>3, <2>4 DEF Init, IInv
<1>2. IInv /\ [Next]_vars => IInv'
  <2> SUFFICES ASSUME IInv, [Next]_vars PROVE IInv'
    OBVIOUS
  <2>1. TypeOK'
    BY TypeStep DEF IInv
  <2>2. CASE UNCHANGED vars
    <3>1. /\ UNCHANGED <<queue, immediateQueue, stack, phase, state, rpc, cancelled>>
          /\ UNCHANGED <<interrupt, quitAsked, terminate, terminateProceed>>
      BY <2>2 DEF vars
    <3> QED
      BY <2>1, <3>1, QuietStep DEF IInv
  <2>3. ASSUME NEW c \in Calls, Closure(c) PROVE IInv'
    BY <2>1, <2>3, InnerStep, ConcludeStep, QuitStep DEF Closure
  <2>4. CASE Begin \/ BeginImmediate
    BY <2>1, <2>4, EnterStep
  <2>5. CASE QuitTask \/ QuitTimeout \/ Shutdown \/ QuitRaise \/ QuitPost \/ QuitProceed
    BY <2>1, <2>5, QuitStep
  <2>6. ASSUME NEW c \in Calls, Post(c) \/ Handler(c) \/ ClientCancels(c) PROVE IInv'
    BY <2>1, <2>6, PostStep, HandlerStep, QuitStep
  <2> QED
    BY <2>2, <2>3, <2>4, <2>5, <2>6 DEF Next, MainStep
<1> QED
  BY <1>1, <1>2, PTL DEF Spec

\* An interrupt raised for a cancelled call never outlives it: no later call
\* is hit by it (the resets of R_interrupts_pending in executeOnMainThread).
THEOREM InterruptsStayWithTheirCall == Spec => []NoStrayInterrupt
<1>1. IInv => NoStrayInterrupt
  BY DEF IInv
<1> QED
  BY <1>1, Inductive, PTL

\* While the process is not ending, a queued or running closure has its
\* handler's frame to work with (executeOnMainThread, quitProceed).
THEOREM FramesOutliveClosures == Spec => []NoDanglingFrame
<1>1. IInv => NoDanglingFrame
  <2> SUFFICES ASSUME IInv, ~terminate, NEW c \in Calls,
                      c \in Elements(queue) \/ c \in Elements(immediateQueue)
                        \/ phase[c] # "none"
               PROVE  InFlight(c)
    BY DEF NoDanglingFrame, Elements
  <2>1. state[c] # "DONE" /\ rpc[c] # "idle"
    BY DEF IInv, CallInv, Queued, TypeOK
  <2> QED
    BY <2>1 DEF IInv, CallInv, TypeOK, InFlight
<1> QED
  BY <1>1, Inductive, PTL

\* executeOnMainThread keeps the promise of RemoteCall: at most one run on
\* the main thread, and no answer before it has ended, unless R is ending.
THEOREM Refinement == Spec => ImplementsRemoteCall
<1> DEFINE abs == [c \in Calls |-> Stage(c)]
<1>1. Init => Promise!CallInit
  BY DEF Init, Promise!CallInit, Stage
<1>2. IInv /\ IInv' /\ [Next]_vars => [Promise!CallNext]_(Promise!callVars)
  <2> SUFFICES ASSUME IInv, IInv', [Next]_vars
               PROVE  Promise!CallNext \/ (abs' = abs /\ terminate' = terminate)
    BY DEF Promise!callVars
  <2> USE DEF IInv
  <2> HIDE DEF abs
  <2>a. abs \in [Calls -> {"new", "asked", "runs", "ran", "answered"}]
    BY DEF abs, Stage
  <2>b. \A d \in Calls : abs[d] = Stage(d) /\ abs'[d] = Stage(d)'
    BY DEF abs
  <2>1. ASSUME UNCHANGED <<state, rpc, terminate>>
        PROVE  abs' = abs /\ terminate' = terminate
    BY <2>1 DEF abs, Stage, InFlight
  <2>2. ASSUME NEW c \in Calls, terminate' = terminate, NEW v,
               \A d \in Calls \ {c} : state'[d] = state[d] /\ rpc'[d] = rpc[d],
               Stage(c)' = v
        PROVE  abs' = [abs EXCEPT ![c] = v]
    <3>1. \A d \in Calls \ {c} : Stage(d)' = Stage(d)
      BY <2>2 DEF Stage, InFlight
    <3> QED
      BY <2>2, <3>1 DEF abs
  <2>3. ASSUME NEW c \in Calls, Post(c) PROVE Promise!Ask(c)
    <3>1. Stage(c) = "new" /\ Stage(c)' = "asked" /\ terminate' = terminate
      BY <2>3 DEF Post, Stage, InFlight, CallInv, TypeOK
    <3>2. \A d \in Calls \ {c} : state'[d] = state[d] /\ rpc'[d] = rpc[d]
      BY <2>3 DEF Post, TypeOK
    <3> QED
      BY <2>2, <2>b, <3>1, <3>2 DEF Promise!Ask, abs
  <2>4. ASSUME NEW c \in Calls, Run(c) PROVE Promise!Execute(c)
    <3>1. Stage(c) = "asked" /\ Stage(c)' = "runs" /\ terminate' = terminate /\ ~terminate
      BY <2>4 DEF Run, OnTop, Stage, InFlight, CallInv, TypeOK
    <3>2. \A d \in Calls \ {c} : state'[d] = state[d] /\ rpc'[d] = rpc[d]
      BY <2>4 DEF Run, TypeOK
    <3> QED
      BY <2>2, <2>b, <3>1, <3>2 DEF Promise!Execute, abs
  <2>5. ASSUME NEW c \in Calls, Conclude(c) PROVE Promise!Complete(c)
    <3>1. Stage(c) = "runs" /\ Stage(c)' = "ran" /\ terminate' = terminate /\ ~terminate
      BY <2>5 DEF Conclude, OnTop, Stage, InFlight, CallInv, TypeOK
    <3>2. \A d \in Calls \ {c} : state'[d] = state[d] /\ rpc'[d] = rpc[d]
      BY <2>5 DEF Conclude, TypeOK
    <3> QED
      BY <2>2, <2>b, <3>1, <3>2 DEF Promise!Complete, abs
  <2>6. ASSUME NEW c \in Calls, Handler(c)
        PROVE  Promise!Answer(c) \/ (abs' = abs /\ terminate' = terminate)
    <3>1. terminate' = terminate
      BY <2>6 DEF Handler, Check, Raise, StoreInterrupted, Wake
    <3>2. \A d \in Calls \ {c} : state'[d] = state[d] /\ rpc'[d] = rpc[d]
      BY <2>6 DEF Handler, Check, Raise, StoreInterrupted, Wake, TypeOK
    <3>3. CASE rpc'[c] = "returned"
      <4>1. Check(c) /\ (state[c] = "DONE" \/ terminateProceed) /\ rpc[c] = "check"
        BY <2>6, <3>3 DEF Handler, Check, Raise, StoreInterrupted, Wake, TypeOK
      <4>2. Stage(c)' = "answered"
        BY <3>3 DEF Stage
      <4>3. Stage(c) = "ran" \/ (terminate /\ Stage(c) \in {"asked", "runs"})
        BY <4>1 DEF Stage, InFlight, TypeOK
      <4> QED
        BY <2>2, <2>b, <3>1, <3>2, <4>2, <4>3 DEF Promise!Answer, abs
    <3>4. CASE rpc'[c] # "returned"
      <4>1. Stage(c)' = Stage(c)
        <5>1. /\ rpc[c] \notin {"idle", "returned"} /\ rpc'[c] \notin {"idle", "returned"}
              /\ state[c] = "DONE" <=> state'[c] = "DONE"
              /\ state[c] = "PENDING" <=> state'[c] = "PENDING"
          <6>1. CASE Check(c)
            BY <3>4, <6>1 DEF Check, TypeOK
          <6>2. CASE Raise(c) \/ Wake(c)
            BY <6>2 DEF Raise, Wake, TypeOK
          <6>3. CASE StoreInterrupted(c)
            BY <6>3 DEF StoreInterrupted, CallInv, TypeOK
          <6> QED
            BY <2>6, <6>1, <6>2, <6>3 DEF Handler
        <5> QED
          BY <5>1 DEF Stage
      <4>2. abs' = [abs EXCEPT ![c] = Stage(c)]
        BY <2>2, <3>1, <3>2, <4>1
      <4> QED
        BY <2>a, <2>b, <3>1, <4>2
    <3> QED
      BY <3>3, <3>4
  <2>7. ASSUME NEW c \in Calls, Return(c) \/ Interrupted(c) \/ JumpToTopLevel(c)
                                  \/ ClientCancels(c)
        PROVE  abs' = abs /\ terminate' = terminate
    BY <2>1, <2>7 DEF Return, Interrupted, JumpToTopLevel, ClientCancels
  <2>8. CASE QuitTask \/ \E c \in Calls : CallQuits(c)
    <3>1. terminate' = TRUE /\ UNCHANGED <<state, rpc>>
      BY <2>8 DEF QuitTask, CallQuits
    <3>2. abs' = abs
      BY <3>1 DEF abs, Stage, InFlight
    <3> QED
      BY <3>1, <3>2 DEF Promise!CallNext, Promise!Die, abs
  <2>9. CASE \/ QuitTimeout \/ Shutdown \/ QuitRaise \/ QuitPost \/ QuitProceed
             \/ Begin \/ BeginImmediate
    BY <2>1, <2>9 DEF QuitTimeout, Shutdown, QuitRaise, QuitPost, QuitProceed,
                      Begin, BeginImmediate, Enter
  <2>10. CASE UNCHANGED vars
    BY <2>1, <2>10 DEF vars
  <2> QED
    BY <2>3, <2>4, <2>5, <2>6, <2>7, <2>8, <2>9, <2>10
       DEF Next, MainStep, Closure, Promise!CallNext
<1> QED
  BY <1>1, <1>2, Inductive, PTL DEF Spec, ImplementsRemoteCall, Promise!CallSpec
============================================================================
