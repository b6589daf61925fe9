-------------------------- MODULE EventLoop_proofs --------------------------
(***************************************************************************)
(* For every set of tasks: the types, FlagMatchesPipe, BreakBelongsToTop   *)
(* and NoLostWakeup are invariants of EventLoop, and it implements         *)
(* TaskQueue.                                                              *)
(***************************************************************************)
EXTENDS EventLoop, SequenceTheorems, TLAPS

\* Leaving the innermost activation of a stack.
LEMMA FrontFacts ==
    ASSUME NEW S, NEW s \in Seq(S), s # <<>>
    PROVE  /\ SubSeq(s, 1, Len(s) - 1) \in Seq(S)
           /\ Len(s) \in Nat \ {0}
           /\ Len(SubSeq(s, 1, Len(s) - 1)) = Len(s) - 1
           /\ s[Len(s)] \in S
           /\ \A i \in 1..Len(s) - 1 : SubSeq(s, 1, Len(s) - 1)[i] = s[i]
<1>1. Len(s) \in Nat \ {0}
  OBVIOUS
<1> DEFINE n == Len(s) - 1
<1>2. n \in 0..Len(s)
  BY <1>1
<1> HIDE DEF n
<1>3. /\ SubSeq(s, 1, n) \in Seq(S)
      /\ Len(SubSeq(s, 1, n)) = n
      /\ \A i \in 1..n : SubSeq(s, 1, n)[i] = s[i]
  BY <1>2
<1> QED
  BY <1>1, <1>2, <1>3 DEF n

Distinct(s) == \A i, j \in 1..Len(s) : s[i] = s[j] => i = j
Elements(s) == {s[i] : i \in 1..Len(s)}

\* What each of the three does to the elements and their being distinct.
LEMMA DistinctAppend ==
    ASSUME NEW S, NEW s \in Seq(S), NEW e \in S, Distinct(s), e \notin Elements(s)
    PROVE  Distinct(Append(s, e)) /\ Elements(Append(s, e)) = Elements(s) \cup {e}
<1> DEFINE t == Append(s, e)
<1>1. /\ Len(s) \in Nat /\ Len(t) = Len(s) + 1 /\ t[Len(s) + 1] = e
      /\ \A i \in 1..Len(s) : t[i] = s[i]
  BY AppendProperties
<1> HIDE DEF t
<1>2. \A i \in 1..Len(t) : i \in 1..Len(s) \/ i = Len(s) + 1
  BY <1>1
<1>3. Distinct(t)
  BY <1>1, <1>2 DEF Distinct, Elements
<1>4. Elements(t) = Elements(s) \cup {e}
  <2>1. ASSUME NEW x \in Elements(t) PROVE x \in Elements(s) \cup {e}
    BY <1>1, <1>2 DEF Elements
  <2>2. ASSUME NEW x \in Elements(s) PROVE x \in Elements(t)
    <3>1. PICK i \in 1..Len(s) : x = s[i]
      BY DEF Elements
    <3>2. i \in 1..Len(t) /\ x = t[i]
      BY <1>1, <3>1
    <3> QED
      BY <3>2 DEF Elements
  <2>3. e \in Elements(t)
    <3>1. Len(s) + 1 \in 1..Len(t)
      BY <1>1
    <3> QED
      BY <1>1, <3>1 DEF Elements
  <2> QED
    BY <2>1, <2>2, <2>3
<1> QED
  BY <1>3, <1>4 DEF t

LEMMA DistinctTail ==
    ASSUME NEW S, NEW s \in Seq(S), s # <<>>, Distinct(s)
    PROVE  /\ Head(s) \in Elements(s)
           /\ Distinct(Tail(s))
           /\ \A x \in Elements(Tail(s)) : x \in Elements(s) /\ x # Head(s)
<1> DEFINE t == Tail(s)
<1>1. /\ Len(s) \in Nat \ {0} /\ Len(t) = Len(s) - 1 /\ Head(s) = s[1]
      /\ \A i \in 1..Len(s) - 1 : t[i] = s[i + 1]
  BY HeadTailProperties
<1> HIDE DEF t
<1>2. \A i \in 1..Len(t) : i \in 1..Len(s) - 1 /\ i + 1 \in 1..Len(s) /\ i + 1 # 1
  BY <1>1
<1>3. Head(s) \in Elements(s)
  BY <1>1 DEF Elements
<1>4. Distinct(t)
  BY <1>1, <1>2 DEF Distinct
<1>5. ASSUME NEW x \in Elements(t) PROVE x \in Elements(s) /\ x # Head(s)
  <2>1. PICK i \in 1..Len(t) : x = t[i]
    BY <1>5 DEF Elements
  <2>2. x = s[i + 1] /\ i + 1 \in 1..Len(s) /\ i + 1 # 1
    BY <1>1, <1>2, <2>1
  <2>3. 1 \in 1..Len(s)
    BY <1>1
  <2> QED
    BY <1>1, <2>2, <2>3 DEF Elements, Distinct
<1> QED
  BY <1>3, <1>4, <1>5 DEF t

\* A poll removes nothing but the first element.
LEMMA KeptByTail ==
    ASSUME NEW S, NEW s \in Seq(S), s # <<>>, NEW x \in Elements(s), x # Head(s)
    PROVE  x \in Elements(Tail(s))
<1> DEFINE t == Tail(s)
<1>1. /\ Len(s) \in Nat \ {0} /\ Len(t) = Len(s) - 1 /\ Head(s) = s[1]
      /\ \A i \in 1..Len(s) - 1 : t[i] = s[i + 1]
  BY HeadTailProperties
<1> HIDE DEF t
<1>2. PICK i \in 1..Len(s) : x = s[i]
  BY DEF Elements
<1>3. i # 1
  BY <1>1, <1>2
<1>4. i - 1 \in 1..Len(t) /\ i - 1 \in 1..Len(s) - 1 /\ (i - 1) + 1 = i
  BY <1>1, <1>2, <1>3
<1>5. x = t[i - 1]
  BY <1>1, <1>2, <1>4
<1> QED
  BY <1>4, <1>5 DEF Elements, t

----------------------------------------------------------------------------
(* What the steps do to the main thread's stack.                           *)

\* m is the stack main with f in the place of its top.
Retopped(m, f) == /\ m \in Seq(Frames) /\ Len(m) = Len(main)
                  /\ m[Len(main)] = f
                  /\ \A i \in 1..Len(main) - 1 : m[i] = main[i]

LEMMA TopFacts ==
    ASSUME TypeOK
    PROVE  /\ Len(main) \in Nat \ {0} /\ Top = main[Len(main)] /\ Top \in Frames
           /\ \A i \in 1..Len(main) : main[i] \in Frames
  BY DEF TypeOK, Top

LEMMA Replaced ==
    ASSUME TypeOK, NEW f \in Frames
    PROVE  Retopped(Append(Below, f), f)
<1>1. /\ Below \in Seq(Frames) /\ Len(Below) = Len(main) - 1
      /\ \A i \in 1..Len(main) - 1 : Below[i] = main[i]
  BY FrontFacts DEF TypeOK, Below
<1>2. /\ Append(Below, f) \in Seq(Frames)
      /\ Len(Append(Below, f)) = Len(Below) + 1
      /\ Append(Below, f)[Len(Below) + 1] = f
      /\ \A i \in 1..Len(Below) : Append(Below, f)[i] = Below[i]
  BY <1>1, AppendProperties
<1> HIDE DEF Below
<1> QED
  BY <1>1, <1>2, TopFacts DEF Retopped

LEMMA Moved ==
    ASSUME TypeOK, NEW place \in Places, TopGoes(place)
    PROVE  Retopped(main', [at |-> place, task |-> Top.task])
<1>1. main' = [main EXCEPT ![Len(main)] = [at |-> place, task |-> Top.task]]
  <2>1. [Top EXCEPT !.at = place] = [at |-> place, task |-> Top.task]
    BY TopFacts DEF Frames
  <2> QED
    BY <2>1 DEF TopGoes, Top
<1>2. [at |-> place, task |-> Top.task] \in Frames
  BY TopFacts DEF Frames
<1> QED
  BY <1>1, <1>2, TopFacts DEF Retopped, TypeOK

LEMMA Entered ==
    ASSUME TypeOK, NEW f \in Frames, main' = Append(main, f)
    PROVE  /\ main' \in Seq(Frames) /\ Len(main') = Len(main) + 1
           /\ main'[Len(main) + 1] = f
           /\ \A i \in 1..Len(main) : main'[i] = main[i]
  BY AppendProperties DEF TypeOK

LEMMA Left ==
    ASSUME TypeOK, main' = Below
    PROVE  /\ main' \in Seq(Frames) /\ Len(main') = Len(main) - 1
           /\ \A i \in 1..Len(main) - 1 : main'[i] = main[i]
  BY FrontFacts DEF TypeOK, Below
----------------------------------------------------------------------------
(* The inductive invariant.                                                *)

HandlerPlaces == {"drained", "handling"}

\* All activations but the innermost are inside a task or a handler; the
\* outermost is the loop of mainLoop.
BelowInv ==
    /\ \A i \in 1..Len(main) - 1 :
          main[i].at \in {"before", "drained", "running", "immediate", "handling"}
    /\ main[1].at \notin {"immediate", "handling"}

\* Above an activation that serves immediate tasks there are only others of
\* that kind; an immediate activation runs an immediate task.
ServingInv ==
    /\ \A i, j \in 1..Len(main) :
          i < j /\ main[i].at \in {"before", "drained", "immediate", "handling"}
            => main[j].at \in {"immediate", "handling"}
    /\ \A i \in 1..Len(main) : main[i].at = "immediate" => main[i].task \in Immediate

\* Immediate tasks that have no byte in the pipe have a handler at work.
UrgentInv ==
    immediateQueue # <<>> /\ pipeBytes = 0 /\ PipeMutexFree
        => \E i \in 1..Len(main) : main[i].at \in HandlerPlaces

\* Blocking with an empty pipe means that there is no ordinary task.
PlainInv ==
    Top.at = "block" /\ pipeBytes = 0 /\ PipeMutexFree => queue = <<>>

IInv == /\ TypeOK
        /\ FlagMatchesPipe
        /\ BreakBelongsToTop
        /\ BelowInv
        /\ PlainInv
        /\ ImmediateTasksDoNotNest => ServingInv /\ UrgentInv
----------------------------------------------------------------------------
\* eventLoopExecute: it leaves the main thread's stack alone.
LEMMA PostStep ==
    ASSUME IInv, NEW t \in Tasks, PostPush(t) \/ PostSignal(t)
    PROVE  IInv'
<1> USE DEF IInv
<1>1. main' = main /\ doBreak' = doBreak /\ Top' = Top
  BY DEF PostPush, PostSignal, Top
<1>2. CASE PostPush(t)
  <2>1. ~PipeMutexFree'
    BY <1>2 DEF PostPush, PipeMutexFree, TypeOK
  <2>2. queue' \in Seq(Normal) /\ immediateQueue' \in Seq(Immediate)
    <3>1. CASE t \in Immediate
      <4>1. immediateQueue' = Append(immediateQueue, t) /\ queue' = queue
        BY <1>2, <3>1 DEF PostPush
      <4> QED
        BY <3>1, <4>1, AppendProperties DEF TypeOK
    <3>2. CASE t \notin Immediate
      <4>1. queue' = Append(queue, t) /\ immediateQueue' = immediateQueue
        BY <1>2, <3>2 DEF PostPush
      <4>2. t \in Normal
        BY <3>2 DEF Tasks
      <4> QED
        BY <4>1, <4>2, AppendProperties DEF TypeOK
    <3> QED
      BY <3>1, <3>2
  <2>3. TypeOK' /\ FlagMatchesPipe'
    BY <1>2, <2>2 DEF PostPush, TypeOK, FlagMatchesPipe
  <2> QED
    BY <1>1, <2>1, <2>3 DEF BreakBelongsToTop, BelowInv, PlainInv, ServingInv, UrgentInv
<1>3. CASE PostSignal(t)
  <2>1. pipeBytes' = 1 /\ pipeFilled' = TRUE
    BY <1>3 DEF PostSignal, FlagMatchesPipe, TypeOK
  <2>2. TypeOK' /\ FlagMatchesPipe'
    BY <1>3, <2>1 DEF PostSignal, TypeOK, FlagMatchesPipe
  <2> QED
    BY <1>1, <2>1, <2>2 DEF BreakBelongsToTop, BelowInv, PlainInv, ServingInv, UrgentInv
<1> QED
  BY <1>2, <1>3

\* Facts about the stack that a step which only changes its top must keep.
LEMMA RetopStep ==
    ASSUME IInv, NEW f \in Frames, Retopped(main', f),
           f.at \notin {"immediate", "handling"},
           ImmediateTasksDoNotNest => Top.at \notin {"immediate", "handling"}
    PROVE  /\ main' # <<>> /\ main' \in Seq(Frames)
           /\ Top' = f
           /\ BelowInv'
           /\ ImmediateTasksDoNotNest => ServingInv'
           /\ ImmediateTasksDoNotNest =>
                \A i \in 1..Len(main) : main[i].at \in HandlerPlaces => i = Len(main)
<1> USE DEF IInv, Retopped
<1>1. Len(main) \in Nat \ {0} /\ Top = main[Len(main)]
  BY TopFacts
<1>2. BelowInv'
  BY <1>1 DEF BelowInv
<1>3. Top' = f /\ main' # <<>>
  BY <1>1 DEF Top
<1>4. ASSUME ImmediateTasksDoNotNest
      PROVE  ServingInv' /\ \A i \in 1..Len(main) - 1 :
                    main[i].at \notin {"before", "drained", "immediate", "handling"}
  <2>1. \A i \in 1..Len(main) - 1 :
            i \in 1..Len(main) /\ i < Len(main) /\ Len(main) \in 1..Len(main)
    BY <1>1
  <2>2. \A i \in 1..Len(main) - 1 :
            main[i].at \notin {"before", "drained", "immediate", "handling"}
    BY <1>4, <1>1, <2>1 DEF ServingInv
  <2>3. \A i \in 1..Len(main) : i = Len(main) \/ i \in 1..Len(main) - 1
    BY <1>1
  <2>4. ASSUME NEW i \in 1..Len(main'), NEW j \in 1..Len(main'), i < j,
               main'[i].at \in {"before", "drained", "immediate", "handling"}
        PROVE  FALSE
    <3>1. i \in 1..Len(main) - 1
      BY <1>1, <2>4
    <3> QED
      BY <2>2, <2>4, <3>1
  <2>5. ASSUME NEW i \in 1..Len(main'), main'[i].at = "immediate"
        PROVE  main'[i].task \in Immediate
    BY <1>4, <2>2, <2>3, <2>5
  <2>6. ServingInv'
    BY <2>4, <2>5 DEF ServingInv
  <2> QED
    BY <2>2, <2>6
<1>5. ASSUME ImmediateTasksDoNotNest, NEW i \in 1..Len(main), main[i].at \in HandlerPlaces
      PROVE  i = Len(main)
  <2>1. i \in 1..Len(main) - 1 \/ i = Len(main)
    BY <1>1
  <2> QED
    BY <1>4, <1>5, <2>1 DEF HandlerPlaces
<1> QED
  BY <1>2, <1>3, <1>4, <1>5

\* Steps that change the top and the queues at most: the loop between tasks.
LEMMA LoopStep ==
    ASSUME IInv,
           Poll \/ StartTask \/ TaskDone \/ Activity \/ (CheckBreak /\ ~doBreak)
    PROVE  IInv'
<1> USE DEF IInv
<1>1. /\ Top.at \in {"first", "again", "before", "running", "after", "block"}
      /\ UNCHANGED <<immediateQueue, pipeBytes, pipeFilled, post>>
  BY DEF Poll, StartTask, TaskDone, Activity, CheckBreak
<1>2. PICK f \in Frames : Retopped(main', f) /\ f.at \notin {"immediate", "handling", "drained"}
                          /\ (f.at = "block" => queue' = <<>>)
                          /\ (doBreak' => f.at = "after" /\ f.task \in Breakers)
                          /\ queue' \in Seq(Normal) /\ doBreak' \in BOOLEAN
  <2>1. CASE Poll /\ queue # <<>>
    <3>1. Head(queue) \in Normal /\ Tail(queue) \in Seq(Normal)
      BY <2>1, HeadTailProperties DEF TypeOK
    <3>2. [at |-> "before", task |-> Head(queue)] \in Frames
      BY <3>1 DEF Frames, Tasks, Places
    <3>3. main' = Append(Below, [at |-> "before", task |-> Head(queue)])
          /\ queue' = Tail(queue) /\ doBreak' = FALSE
      BY <2>1 DEF Poll, BreakBelongsToTop
    <3> QED
      BY <3>1, <3>2, <3>3, Replaced
  <2>2. CASE (Poll /\ queue = <<>>) \/ StartTask \/ TaskDone \/ Activity
    <3>1. PICK place \in {"block", "running", "after", "handler"} :
              /\ TopGoes(place) /\ queue' = queue
              /\ place = "block" => queue = <<>>
              /\ doBreak' => place = "after" /\ Top.task \in Breakers
              /\ doBreak' \in BOOLEAN
      <4>1. CASE Poll /\ queue = <<>>
        BY <4>1 DEF Poll, BreakBelongsToTop, TypeOK
      <4>2. CASE StartTask \/ Activity
        BY <4>2 DEF StartTask, Activity, BreakBelongsToTop, TypeOK
      <4>3. CASE TaskDone
        BY <4>3 DEF TaskDone, BreakBelongsToTop, TypeOK
      <4> QED
        BY <2>2, <4>1, <4>2, <4>3
    <3>2. place \in Places /\ [at |-> place, task |-> Top.task] \in Frames
      BY TopFacts DEF Places, Frames
    <3> QED
      BY <3>1, <3>2, Moved DEF TypeOK
  <2>3. CASE CheckBreak /\ ~doBreak
    <3>1. main' = Append(Below, [at |-> "again", task |-> NoTask])
          /\ queue' = queue /\ doBreak' = FALSE
      BY <2>3 DEF CheckBreak
    <3>2. [at |-> "again", task |-> NoTask] \in Frames
      BY DEF Frames, Places
    <3> QED
      BY <3>1, <3>2, Replaced DEF TypeOK
  <2> QED
    BY <2>1, <2>2, <2>3 DEF Poll
<1>3. /\ main' # <<>> /\ main' \in Seq(Frames) /\ Top' = f /\ BelowInv'
      /\ ImmediateTasksDoNotNest => ServingInv'
      /\ ImmediateTasksDoNotNest =>
           \A i \in 1..Len(main) : main[i].at \in HandlerPlaces => i = Len(main)
  BY <1>1, <1>2, RetopStep
<1>4. TypeOK' /\ FlagMatchesPipe'
  BY <1>1, <1>2, <1>3 DEF TypeOK, FlagMatchesPipe
<1>5. BreakBelongsToTop' /\ PlainInv'
  BY <1>2, <1>3 DEF BreakBelongsToTop, PlainInv
<1>6. ImmediateTasksDoNotNest => UrgentInv'
  BY <1>1, <1>3, TopFacts DEF UrgentInv, HandlerPlaces, PipeMutexFree
<1> QED
  BY <1>3, <1>4, <1>5, <1>6

\* The handler takes the byte out, if the flag says that there is one.
LEMMA DrainFacts ==
    ASSUME TypeOK, FlagMatchesPipe,
           pipeBytes' = (IF pipeFilled THEN pipeBytes - 1 ELSE pipeBytes),
           pipeFilled' = FALSE
    PROVE  pipeBytes' = 0 /\ pipeFilled' \in BOOLEAN /\ FlagMatchesPipe'
<1>1. pipeBytes' = 0
  <2>1. CASE pipeFilled
    <3>1. pipeBytes = 1
      BY <2>1 DEF FlagMatchesPipe
    <3>2. pipeBytes' = pipeBytes - 1
      BY <2>1
    <3> QED
      BY <3>1, <3>2
  <2>2. CASE ~pipeFilled
    <3>1. pipeBytes # 1
      BY <2>2 DEF FlagMatchesPipe
    <3>2. pipeBytes' = pipeBytes
      BY <2>2
    <3> QED
      BY <3>1, <3>2 DEF TypeOK
  <2> QED
    BY <2>1, <2>2
<1>2. pipeFilled' \in BOOLEAN /\ ~pipeFilled' /\ pipeBytes' # 1
  <2>1. pipeFilled' \in BOOLEAN /\ ~pipeFilled'
    BY Zenon
  <2>2. pipeBytes' # 1
    BY <1>1
  <2> QED
    BY <2>1, <2>2
<1>3. FlagMatchesPipe'
  BY <1>2 DEF FlagMatchesPipe
<1> QED
  BY <1>1, <1>2, <1>3

\* The input handler of the loop itself.
LEMMA HandlerStep ==
    ASSUME IInv, Drain \/ (HandlerDone /\ Top.at = "drained")
    PROVE  IInv'
<1> USE DEF IInv
<1>1. PICK place \in {"drained", "first"} : TopGoes(place) /\ (place = "first" => immediateQueue' = <<>>)
  BY DEF Drain, HandlerDone
<1>2. /\ Top.at \in {"handler", "drained"}
      /\ UNCHANGED <<queue, immediateQueue, doBreak, post>>
      /\ pipeBytes' \in 0..1 /\ pipeFilled' \in BOOLEAN
      /\ FlagMatchesPipe'
  <2>1. CASE Drain
    <3>1. pipeBytes' = 0 /\ pipeFilled' \in BOOLEAN /\ FlagMatchesPipe'
      BY <2>1, DrainFacts DEF Drain
    <3> QED
      BY <2>1, <3>1 DEF Drain
  <2>2. CASE HandlerDone /\ Top.at = "drained"
    BY <2>2 DEF HandlerDone, FlagMatchesPipe, TypeOK
  <2> QED
    BY <2>1, <2>2
<1> DEFINE f == [at |-> place, task |-> Top.task]
<1>3. place \in Places /\ f \in Frames
  BY <1>1, TopFacts DEF Places, Frames
<1>4. Retopped(main', f)
  BY <1>1, <1>3, Moved
<1>5. /\ main' # <<>> /\ main' \in Seq(Frames) /\ Top' = f /\ BelowInv'
      /\ ImmediateTasksDoNotNest => ServingInv'
  BY <1>1, <1>2, <1>3, <1>4, RetopStep
<1>6. TypeOK'
  BY <1>2, <1>5 DEF TypeOK
<1>7. BreakBelongsToTop' /\ PlainInv'
  BY <1>1, <1>2, <1>5 DEF BreakBelongsToTop, PlainInv
<1>8. UrgentInv'
  <2>1. CASE place = "first"
    BY <1>1, <2>1 DEF UrgentInv
  <2>2. CASE place = "drained"
    <3>1. Len(main) \in 1..Len(main') /\ main'[Len(main)].at = "drained"
      BY <1>4, <2>2, TopFacts DEF Retopped
    <3> QED
      BY <3>1 DEF UrgentInv, HandlerPlaces
  <2> QED
    BY <1>1, <2>1, <2>2
<1> QED
  BY <1>2, <1>5, <1>6, <1>7, <1>8

\* A new activation: an immediate task, the handler inside a task, a loop.
LEMMA EnterStep ==
    ASSUME IInv, StartImmediate \/ DrainInTask \/ OpenLoop
    PROVE  IInv'
<1> USE DEF IInv
<1>1. /\ Top.at \in {"before", "drained", "running", "immediate", "handling"}
      /\ UNCHANGED <<queue, doBreak, post>>
      /\ ~doBreak
  BY DEF StartImmediate, DrainInTask, OpenLoop, BreakBelongsToTop
<1>2. /\ pipeBytes' \in 0..1 /\ pipeFilled' \in BOOLEAN
      /\ FlagMatchesPipe'
  <2>1. CASE DrainInTask
    <3>1. pipeBytes' = 0 /\ pipeFilled' \in BOOLEAN /\ FlagMatchesPipe'
      BY <2>1, DrainFacts DEF DrainInTask
    <3> QED
      BY <3>1
  <2>2. CASE StartImmediate \/ OpenLoop
    BY <2>2 DEF StartImmediate, OpenLoop, FlagMatchesPipe, TypeOK
  <2> QED
    BY <2>1, <2>2
<1>3. PICK f \in Frames :
         /\ main' = Append(main, f) /\ immediateQueue' \in Seq(Immediate)
         /\ f.at \in {"immediate", "handling", "first"}
         /\ f.at = "immediate" =>
               /\ f.task \in Immediate
               /\ pipeBytes' = pipeBytes
               /\ immediateQueue' # <<>> => immediateQueue # <<>>
         /\ f.at = "first" => /\ Top.at \in {"running", "immediate"} /\ Top.task \in Nesters
                             /\ UNCHANGED <<pipeBytes, immediateQueue>>
  <2>1. CASE StartImmediate
    <3>1. Head(immediateQueue) \in Immediate /\ Tail(immediateQueue) \in Seq(Immediate)
      BY <2>1, HeadTailProperties DEF TypeOK, StartImmediate
    <3>2. [at |-> "immediate", task |-> Head(immediateQueue)] \in Frames
      BY <3>1 DEF Frames, Tasks, Places
    <3> QED
      BY <2>1, <3>1, <3>2 DEF StartImmediate
  <2>2. CASE DrainInTask \/ OpenLoop
    <3>1. [at |-> "handling", task |-> NoTask] \in Frames /\ FreshLoop \in Frames
      BY DEF Frames, Places, FreshLoop
    <3> QED
      BY <2>2, <3>1 DEF DrainInTask, OpenLoop, FreshLoop, TypeOK
  <2> QED
    BY <2>1, <2>2
<1>4. /\ main' \in Seq(Frames) /\ Len(main') = Len(main) + 1
      /\ main'[Len(main) + 1] = f
      /\ \A i \in 1..Len(main) : main'[i] = main[i]
  BY <1>3, Entered
<1>5. /\ Len(main) \in Nat \ {0} /\ Top = main[Len(main)]
      /\ \A i \in 1..Len(main') : i \in 1..Len(main) \/ i = Len(main) + 1
      /\ \A i \in 1..Len(main) : i \in 1..Len(main) - 1 \/ i = Len(main)
  BY <1>4, TopFacts
<1>6. main' # <<>> /\ Top' = f
  BY <1>4, <1>5 DEF Top
<1>7. TypeOK'
  BY <1>1, <1>2, <1>3, <1>4, <1>6 DEF TypeOK
<1>8. BelowInv'
  BY <1>1, <1>4, <1>5 DEF BelowInv
<1>9. BreakBelongsToTop' /\ PlainInv'
  BY <1>1, <1>3, <1>6 DEF BreakBelongsToTop, PlainInv
<1>10. ASSUME ImmediateTasksDoNotNest PROVE ServingInv' /\ UrgentInv'
  <2>1. ASSUME NEW i \in 1..Len(main),
               main[i].at \in {"before", "drained", "immediate", "handling"}
        PROVE  f.at \in {"immediate", "handling"}
    <3>1. CASE f.at = "first"
      <4>1. Top.at = "running"
        BY <1>3, <1>5, <1>10, <3>1 DEF ServingInv, ImmediateTasksDoNotNest
      <4>2. i # Len(main) /\ i < Len(main) /\ Len(main) \in 1..Len(main)
        BY <1>5, <2>1, <4>1
      <4> QED
        BY <1>5, <1>10, <2>1, <4>1, <4>2 DEF ServingInv
    <3> QED
      BY <1>3, <3>1
  <2>2. ASSUME NEW i \in 1..Len(main'), NEW j \in 1..Len(main'), i < j,
               main'[i].at \in {"before", "drained", "immediate", "handling"}
        PROVE  main'[j].at \in {"immediate", "handling"}
    <3>1. i \in 1..Len(main) /\ main'[i] = main[i]
      BY <1>4, <1>5, <2>2
    <3>2. CASE j \in 1..Len(main)
      BY <1>4, <1>10, <2>2, <3>1, <3>2 DEF ServingInv
    <3>3. CASE j = Len(main) + 1
      BY <1>4, <2>1, <2>2, <3>1, <3>3
    <3> QED
      BY <1>5, <3>2, <3>3
  <2>3. ASSUME NEW i \in 1..Len(main'), main'[i].at = "immediate"
        PROVE  main'[i].task \in Immediate
    BY <1>3, <1>4, <1>5, <1>10, <2>3 DEF ServingInv
  <2>4. ServingInv'
    BY <2>2, <2>3 DEF ServingInv
  <2>5. UrgentInv'
    <3>1. CASE f.at = "handling"
      <4>1. Len(main) + 1 \in 1..Len(main')
        BY <1>4, <1>5
      <4> QED
        BY <1>4, <3>1, <4>1 DEF UrgentInv, HandlerPlaces
    <3>2. CASE f.at # "handling"
      <4> SUFFICES ASSUME immediateQueue' # <<>>, pipeBytes' = 0, PipeMutexFree'
                   PROVE  \E i \in 1..Len(main') : main'[i].at \in HandlerPlaces
        BY DEF UrgentInv
      <4>1. immediateQueue # <<>> /\ pipeBytes = 0 /\ PipeMutexFree
        BY <1>1, <1>3, <3>2 DEF PipeMutexFree
      <4>2. PICK i \in 1..Len(main) : main[i].at \in HandlerPlaces
        BY <1>10, <4>1 DEF UrgentInv
      <4> QED
        BY <1>4, <1>5, <4>2
    <3> QED
      BY <3>1, <3>2
  <2> QED
    BY <2>4, <2>5
<1> QED
  BY <1>2, <1>7, <1>8, <1>9, <1>10

\* An activation that is not the outermost one ends.
LEMMA LeaveStep ==
    ASSUME IInv, main' = Below, Len(main) > 1,
           UNCHANGED <<queue, immediateQueue, pipeBytes, pipeFilled, post>>,
           doBreak' = FALSE,
           Top.at \notin HandlerPlaces \/ immediateQueue = <<>>
    PROVE  IInv'
<1> USE DEF IInv
<1>1. /\ main' \in Seq(Frames) /\ Len(main') = Len(main) - 1
      /\ \A i \in 1..Len(main) - 1 : main'[i] = main[i]
  BY Left
<1>2. /\ Len(main) \in Nat /\ Len(main) - 1 \in 1..Len(main) - 1 /\ 1 \in 1..Len(main) - 1
      /\ Top = main[Len(main)]
      /\ \A i \in 1..Len(main') : i \in 1..Len(main) - 1 /\ i \in 1..Len(main)
      /\ \A i \in 1..Len(main') - 1 : i \in 1..Len(main) - 1
      /\ \A i \in 1..Len(main) : i \in 1..Len(main') \/ i = Len(main)
  BY <1>1, TopFacts
<1>3. main' # <<>> /\ Top' = main[Len(main) - 1]
  BY <1>1, <1>2 DEF Top
<1>4. TypeOK' /\ FlagMatchesPipe'
  BY <1>1, <1>3 DEF TypeOK, FlagMatchesPipe
<1>5. BelowInv'
  BY <1>1, <1>2 DEF BelowInv
<1>6. BreakBelongsToTop' /\ PlainInv'
  BY <1>2, <1>3 DEF BreakBelongsToTop, PlainInv, BelowInv
<1>7. ASSUME ImmediateTasksDoNotNest PROVE ServingInv'
  BY <1>1, <1>2, <1>7 DEF ServingInv
<1>8. ASSUME ImmediateTasksDoNotNest PROVE UrgentInv'
  <2> SUFFICES ASSUME immediateQueue # <<>>, pipeBytes = 0, PipeMutexFree
               PROVE  \E i \in 1..Len(main') : main'[i].at \in HandlerPlaces
    BY DEF UrgentInv, PipeMutexFree
  <2>1. PICK i \in 1..Len(main) : main[i].at \in HandlerPlaces
    BY <1>8 DEF UrgentInv
  <2> QED
    BY <1>1, <1>2, <2>1
<1> QED
  BY <1>4, <1>5, <1>6, <1>7, <1>8

LEMMA InnerDoneStep ==
    ASSUME IInv, ImmediateDone \/ (HandlerDone /\ Top.at = "handling")
    PROVE  IInv'
<1> USE DEF IInv
<1>1. /\ Top.at \in {"immediate", "handling"} /\ main' = Below
      /\ UNCHANGED <<queue, immediateQueue, pipeBytes, pipeFilled, doBreak, post>>
      /\ Top.at = "immediate" \/ immediateQueue = <<>>
  BY DEF ImmediateDone, HandlerDone
<1>2. Len(main) > 1
  BY <1>1, TopFacts DEF BelowInv
<1>3. doBreak' = FALSE
  BY <1>1 DEF BreakBelongsToTop, TypeOK
<1>4. Top.at \notin HandlerPlaces \/ immediateQueue = <<>>
  BY <1>1 DEF HandlerPlaces
<1> QED
  BY <1>1, <1>2, <1>3, <1>4, LeaveStep

\* The stack is cut down to a fresh run of mainLoop's event loop.
LEMMA FreshStep ==
    ASSUME IInv, main' = <<FreshLoop>>, Top.at \in {"running", "after"},
           UNCHANGED <<queue, immediateQueue, pipeBytes, pipeFilled, post>>,
           doBreak' = FALSE
    PROVE  IInv'
<1> USE DEF IInv
<1>1. FreshLoop \in Frames /\ FreshLoop.at = "first"
  BY DEF FreshLoop, Frames, Places
<1>2. main' \in Seq(Frames) /\ Len(main') = 1 /\ main'[1] = FreshLoop /\ main' # <<>>
  BY <1>1
<1>3. Top' = FreshLoop
  BY <1>2 DEF Top
<1>4. TypeOK' /\ FlagMatchesPipe'
  BY <1>2 DEF TypeOK, FlagMatchesPipe
<1>5. BelowInv' /\ BreakBelongsToTop' /\ PlainInv'
  BY <1>1, <1>2, <1>3 DEF BelowInv, BreakBelongsToTop, PlainInv
<1>6. ServingInv'
  BY <1>1, <1>2 DEF ServingInv
<1>7. ASSUME ImmediateTasksDoNotNest PROVE UrgentInv'
  <2>1. \A i \in 1..Len(main) : main[i].at \notin HandlerPlaces
    <3>1. \A i \in 1..Len(main) : /\ i < Len(main) \/ i = Len(main)
                                  /\ Len(main) \in 1..Len(main)
      BY TopFacts
    <3> QED
      BY <1>7, <3>1, TopFacts DEF ServingInv, HandlerPlaces
  <2> QED
    BY <1>7, <2>1 DEF UrgentInv, PipeMutexFree
<1> QED
  BY <1>4, <1>5, <1>6, <1>7

LEMMA UnwindStep ==
    ASSUME IInv, JumpToTopLevel \/ (CheckBreak /\ doBreak)
    PROVE  IInv'
<1> USE DEF IInv
<1>1. CASE JumpToTopLevel
  <2>1. /\ main' = <<FreshLoop>> /\ Top.at = "running"
        /\ UNCHANGED <<queue, immediateQueue, pipeBytes, pipeFilled, doBreak, post>>
    BY <1>1 DEF JumpToTopLevel
  <2>2. doBreak' = FALSE
    BY <2>1 DEF BreakBelongsToTop, TypeOK
  <2> QED
    BY <2>1, <2>2, FreshStep
<1>2. CASE CheckBreak /\ doBreak
  <2>1. /\ Top.at = "after" /\ doBreak' = FALSE
        /\ UNCHANGED <<queue, immediateQueue, pipeBytes, pipeFilled, post>>
    BY <1>2 DEF CheckBreak
  <2>2. CASE Len(main) = 1
    <3>1. main' = <<FreshLoop>>
      BY <1>2, <2>2 DEF CheckBreak
    <3> QED
      BY <2>1, <3>1, FreshStep
  <2>3. CASE Len(main) # 1
    <3>1. main' = Below
      BY <1>2, <2>3 DEF CheckBreak
    <3>2. Len(main) > 1
      <4>1. PICK n \in Nat : n = Len(main) /\ n # 0
        BY TopFacts
      <4> QED
        BY <2>3, <4>1
    <3>3. Top.at \notin HandlerPlaces
      BY <2>1 DEF HandlerPlaces
    <3> QED
      BY <2>1, <3>1, <3>2, <3>3, LeaveStep
  <2> QED
    BY <2>2, <2>3
<1> QED
  BY <1>1, <1>2

\* The invariant holds from the start and every step keeps it.
THEOREM Inductive == Spec => []IInv
<1>1. Init => IInv
  <2> SUFFICES ASSUME Init PROVE IInv
    OBVIOUS
  <2>1. FreshLoop \in Frames /\ FreshLoop.at = "first"
    BY DEF FreshLoop, Frames, Places
  <2>2. main \in Seq(Frames) /\ Len(main) = 1 /\ main[1] = FreshLoop /\ main # <<>>
    BY <2>1 DEF Init
  <2>3. Top = FreshLoop
    BY <2>2 DEF Top
  <2>4. queue \in Seq(Normal) /\ immediateQueue \in Seq(Immediate)
    BY DEF Init
  <2>5. TypeOK
    <3>1. pipeFilled \in BOOLEAN /\ doBreak \in BOOLEAN
      BY Zenon DEF Init
    <3>2. pipeBytes \in 0..1 /\ post \in [Tasks -> {"idle", "pushed", "posted"}]
      BY DEF Init
    <3> QED
      BY <2>2, <2>4, <3>1, <3>2 DEF TypeOK
  <2>6. ~pipeFilled /\ pipeBytes # 1 /\ ~doBreak
    BY DEF Init
  <2>7. BelowInv /\ ServingInv
    BY <2>1, <2>2 DEF BelowInv, ServingInv
  <2>8. UrgentInv /\ PlainInv
    BY DEF Init, UrgentInv, PlainInv
  <2> QED
    BY <2>5, <2>6, <2>7, <2>8 DEF IInv, FlagMatchesPipe, BreakBelongsToTop
<1>2. IInv /\ [Next]_vars => IInv'
  <2> SUFFICES ASSUME IInv, [Next]_vars PROVE IInv'
    OBVIOUS
  <2>1. CASE UNCHANGED vars
    <3>1. Top' = Top
      BY <2>1 DEF vars, Top
    <3> QED
      BY <2>1, <3>1 DEF vars, IInv, TypeOK, FlagMatchesPipe, BreakBelongsToTop, BelowInv,
                        PlainInv, ServingInv, UrgentInv, PipeMutexFree
  <2>2. ASSUME NEW t \in Tasks, PostPush(t) \/ PostSignal(t) PROVE IInv'
    BY <2>2, PostStep
  <2>3. CASE MainStep
    <3>1. CASE Poll \/ StartTask \/ TaskDone \/ Activity
      BY <3>1, LoopStep
    <3>2. CASE CheckBreak
      BY <3>2, LoopStep, UnwindStep
    <3>3. CASE Drain
      BY <3>3, HandlerStep
    <3>4. CASE HandlerDone
      <4>1. Top.at \in {"drained", "handling"}
        BY <3>4 DEF HandlerDone
      <4> QED
        BY <3>4, <4>1, HandlerStep, InnerDoneStep
    <3>5. CASE StartImmediate \/ DrainInTask \/ OpenLoop
      BY <3>5, EnterStep
    <3>6. CASE ImmediateDone
      BY <3>6, InnerDoneStep
    <3>7. CASE JumpToTopLevel
      BY <3>7, UnwindStep
    <3> QED
      BY <2>3, <3>1, <3>2, <3>3, <3>4, <3>5, <3>6, <3>7 DEF MainStep
  <2> QED
    BY <2>1, <2>2, <2>3 DEF Next
<1> QED
  BY <1>1, <1>2, PTL DEF Spec

\* No wake-up is lost (eventLoopExecute, the handler of initEventLoop and
\* runEventLoop), for any number of posters and any depth of nested loops.
THEOREM WakeupsReachTheLoop == Spec => []NoLostWakeup
<1>1. IInv => NoLostWakeup
  <2> SUFFICES ASSUME IInv, Top.at = "block", pipeBytes = 0, PipeMutexFree
               PROVE  queue = <<>> /\ (ImmediateTasksDoNotNest => immediateQueue = <<>>)
    BY DEF NoLostWakeup
  <2> USE DEF IInv
  <2>1. queue = <<>>
    BY DEF PlainInv
  <2>2. ASSUME ImmediateTasksDoNotNest, immediateQueue # <<>> PROVE FALSE
    <3>1. PICK i \in 1..Len(main) : main[i].at \in HandlerPlaces
      BY <2>2 DEF UrgentInv
    <3>2. /\ i < Len(main) \/ i = Len(main)
          /\ Len(main) \in 1..Len(main) /\ Top = main[Len(main)]
      BY TopFacts
    <3> QED
      BY <2>2, <3>1, <3>2 DEF ServingInv, HandlerPlaces
  <2> QED
    BY <2>1, <2>2
<1> QED
  BY <1>1, Inductive, PTL

\* The read of the handler never blocks (initEventLoop), and a break ends
\* the loop of the task that asked for it (breakEventLoop, runEventLoop).
THEOREM FlagsTellTheTruth == Spec => []FlagMatchesPipe /\ []BreakBelongsToTop
<1>1. IInv => FlagMatchesPipe /\ BreakBelongsToTop
  BY DEF IInv
<1> QED
  BY <1>1, Inductive, PTL

\* Every variable keeps its type.
THEOREM TypeCorrect == Spec => []TypeOK
<1>1. IInv => TypeOK
  BY DEF IInv
<1> QED
  BY <1>1, Inductive, PTL
----------------------------------------------------------------------------
(* The refinement.                                                         *)

\* A queued task has been posted, and is queued once.
QueueInv ==
    /\ Distinct(queue) /\ Distinct(immediateQueue)
    /\ \A t \in Elements(queue) \cup Elements(immediateQueue) : post[t] # "idle"

LEMMA QueueElements ==
    ASSUME TypeOK
    PROVE  /\ queue \in Seq(Normal) /\ immediateQueue \in Seq(Immediate)
           /\ Elements(queue) \subseteq Normal /\ Elements(immediateQueue) \subseteq Immediate
           /\ Normal \subseteq Tasks /\ Immediate \subseteq Tasks
           /\ Normal \cap Immediate = {}
           /\ \A t : Queued(t) <=> t \in Elements(queue) \cup Elements(immediateQueue)
<1>1. \A i \in 1..Len(queue) : queue[i] \in Normal
  BY DEF TypeOK
<1>2. \A i \in 1..Len(immediateQueue) : immediateQueue[i] \in Immediate
  BY DEF TypeOK
<1>3. queue \in Seq(Normal) /\ immediateQueue \in Seq(Immediate)
  BY DEF TypeOK
<1>4. Elements(queue) \subseteq Normal /\ Elements(immediateQueue) \subseteq Immediate
  BY <1>1, <1>2 DEF Elements
<1>5. \A t : Queued(t) <=> t \in Elements(queue) \cup Elements(immediateQueue)
  BY DEF Queued, Elements
<1> QED
  BY <1>3, <1>4, <1>5, TaskAssumption DEF Tasks

\* What a push, a poll and any other step do to queues and started tasks.
LEMMA PushStarts ==
    ASSUME TypeOK, TypeOK', QueueInv, NEW t \in Tasks, PostPush(t)
    PROVE  QueueInv' /\ Promise!Submit(t)
<1>1. post[t] = "idle" /\ post' = [post EXCEPT ![t] = "pushed"]
  BY DEF PostPush
<1>2. t \notin Elements(queue) /\ t \notin Elements(immediateQueue) /\ t \notin Begun
  BY <1>1 DEF QueueInv, Begun
<1>3. \/ /\ t \in Immediate /\ queue' = queue
         /\ immediateQueue' = Append(immediateQueue, t)
         /\ Distinct(immediateQueue')
         /\ Elements(immediateQueue') = Elements(immediateQueue) \cup {t}
      \/ /\ t \notin Immediate /\ immediateQueue' = immediateQueue
         /\ queue' = Append(queue, t)
         /\ Distinct(queue')
         /\ Elements(queue') = Elements(queue) \cup {t}
  <2>1. CASE t \in Immediate
    <3>1. queue' = queue /\ immediateQueue' = Append(immediateQueue, t)
      BY <2>1 DEF PostPush
    <3>2. /\ Distinct(Append(immediateQueue, t))
          /\ Elements(Append(immediateQueue, t)) = Elements(immediateQueue) \cup {t}
      BY <2>1, <1>2, QueueElements, DistinctAppend DEF QueueInv
    <3> QED
      BY <2>1, <3>1, <3>2
  <2>2. CASE t \notin Immediate
    <3>1. immediateQueue' = immediateQueue /\ queue' = Append(queue, t) /\ t \in Normal
      BY <2>2 DEF PostPush, Tasks
    <3>2. /\ Distinct(Append(queue, t))
          /\ Elements(Append(queue, t)) = Elements(queue) \cup {t}
      BY <3>1, <1>2, QueueElements, DistinctAppend DEF QueueInv
    <3> QED
      BY <2>2, <3>1, <3>2
  <2> QED
    BY <2>1, <2>2
<1>4. \A u \in Tasks : post'[u] # "idle" <=> post[u] # "idle" \/ u = t
  BY <1>1 DEF TypeOK
<1>5. QueueInv'
  BY <1>3, <1>4, QueueElements DEF QueueInv
<1>6. \A u \in Tasks : Queued(u)' <=> Queued(u) \/ u = t
  <2>1. \A u : Queued(u)' <=> u \in Elements(queue') \cup Elements(immediateQueue')
    BY DEF Queued, Elements
  <2> QED
    BY <2>1, <1>3, QueueElements
<1>7. Begun' = Begun
  BY <1>2, <1>4, <1>6 DEF Begun
<1>8. t \notin Promise!Known
  BY <1>2 DEF Promise!Known, Elements
<1> QED
  BY <1>3, <1>5, <1>7, <1>8 DEF Promise!Submit

LEMMA PollBegins ==
    ASSUME TypeOK, TypeOK', QueueInv, post' = post,
           \/ /\ queue # <<>> /\ queue' = Tail(queue) /\ immediateQueue' = immediateQueue
           \/ /\ immediateQueue # <<>> /\ immediateQueue' = Tail(immediateQueue)
              /\ queue' = queue
    PROVE  QueueInv' /\ (Promise!Begin \/ Promise!BeginUrgent)
<1>1. \A u : Queued(u)' <=> u \in Elements(queue') \cup Elements(immediateQueue')
  BY DEF Queued, Elements
<1>2. CASE queue # <<>> /\ queue' = Tail(queue) /\ immediateQueue' = immediateQueue
  <2>1. /\ Head(queue) \in Elements(queue) /\ Distinct(queue')
        /\ \A x \in Elements(queue') : x \in Elements(queue) /\ x # Head(queue)
    BY <1>2, QueueElements, DistinctTail DEF QueueInv
  <2>2. ASSUME NEW x \in Elements(queue), x # Head(queue) PROVE x \in Elements(queue')
    BY <1>2, <2>2, KeptByTail, QueueElements
  <2>3. QueueInv'
    BY <1>2, <2>1 DEF QueueInv
  <2>4. Begun' = Begun \cup {Head(queue)}
    <3>1. \A u \in Tasks : Queued(u)' <=> Queued(u) /\ u # Head(queue)
      BY <1>1, <1>2, <2>1, <2>2, QueueElements
    <3>2. Head(queue) \in Tasks /\ post[Head(queue)] # "idle"
      BY <2>1, QueueElements DEF QueueInv
    <3> QED
      BY <3>1, <3>2 DEF Begun
  <2> QED
    BY <1>2, <2>3, <2>4 DEF Promise!Begin
<1>3. CASE immediateQueue # <<>> /\ immediateQueue' = Tail(immediateQueue) /\ queue' = queue
  <2>1. /\ Head(immediateQueue) \in Elements(immediateQueue) /\ Distinct(immediateQueue')
        /\ \A x \in Elements(immediateQueue') :
              x \in Elements(immediateQueue) /\ x # Head(immediateQueue)
    BY <1>3, QueueElements, DistinctTail DEF QueueInv
  <2>2. ASSUME NEW x \in Elements(immediateQueue), x # Head(immediateQueue)
        PROVE  x \in Elements(immediateQueue')
    BY <1>3, <2>2, KeptByTail, QueueElements
  <2>3. QueueInv'
    BY <1>3, <2>1 DEF QueueInv
  <2>4. Begun' = Begun \cup {Head(immediateQueue)}
    <3>1. \A u \in Tasks : Queued(u)' <=> Queued(u) /\ u # Head(immediateQueue)
      BY <1>1, <1>3, <2>1, <2>2, QueueElements
    <3>2. Head(immediateQueue) \in Tasks /\ post[Head(immediateQueue)] # "idle"
      BY <2>1, QueueElements DEF QueueInv
    <3> QED
      BY <3>1, <3>2 DEF Begun
  <2> QED
    BY <1>3, <2>3, <2>4 DEF Promise!BeginUrgent
<1> QED
  BY <1>2, <1>3

LEMMA OtherSteps ==
    ASSUME TypeOK, TypeOK', QueueInv, UNCHANGED <<queue, immediateQueue>>,
           \A t \in Tasks : post'[t] = "idle" <=> post[t] = "idle"
    PROVE  QueueInv' /\ UNCHANGED <<queue, immediateQueue, Begun>>
<1>1. \A u : Queued(u)' <=> Queued(u)
  BY DEF Queued
<1>2. Begun' = Begun
  BY <1>1 DEF Begun
<1>3. QueueInv'
  BY QueueElements DEF QueueInv
<1> QED
  BY <1>2, <1>3

\* Tasks are started once each and in the order they were posted, whatever
\* nesting of loops and handlers starts them: EventLoop implements TaskQueue.
THEOREM Refinement == Spec => ImplementsTaskQueue
<1>1. Init => QueueInv /\ Promise!TaskInit
  BY DEF Init, QueueInv, Promise!TaskInit, Begun, Distinct, Elements
<1>2. TypeOK /\ TypeOK' /\ QueueInv /\ [Next]_vars
        => QueueInv' /\ [Promise!TaskNext]_(Promise!taskVars)
  <2> SUFFICES ASSUME TypeOK, TypeOK', QueueInv, [Next]_vars
               PROVE  QueueInv' /\ (Promise!TaskNext
                                      \/ UNCHANGED <<queue, immediateQueue, Begun>>)
    BY DEF Promise!taskVars
  <2>1. ASSUME NEW t \in Tasks, PostPush(t)
        PROVE  QueueInv' /\ Promise!TaskNext
    BY <2>1, PushStarts DEF Promise!TaskNext
  <2>2. ASSUME NEW t \in Tasks, PostSignal(t)
        PROVE  QueueInv' /\ UNCHANGED <<queue, immediateQueue, Begun>>
    <3>1. /\ UNCHANGED <<queue, immediateQueue>>
          /\ \A u \in Tasks : post'[u] = "idle" <=> post[u] = "idle"
      BY <2>2 DEF PostSignal, TypeOK
    <3> QED
      BY <3>1, OtherSteps
  <2>3. CASE (Poll /\ queue # <<>>) \/ StartImmediate
    <3>1. /\ post' = post
          /\ \/ /\ queue # <<>> /\ queue' = Tail(queue) /\ immediateQueue' = immediateQueue
             \/ /\ immediateQueue # <<>> /\ immediateQueue' = Tail(immediateQueue)
                /\ queue' = queue
      BY <2>3 DEF Poll, StartImmediate
    <3> QED
      BY <3>1, PollBegins DEF Promise!TaskNext
  <2>4. CASE UNCHANGED <<queue, immediateQueue, post>>
    BY <2>4, OtherSteps
  <2>5. CASE MainStep
    <3>1. CASE Poll
      <4>1. queue # <<>> \/ UNCHANGED <<queue, immediateQueue, post>>
        BY <3>1 DEF Poll
      <4> QED
        BY <2>3, <2>4, <3>1, <4>1
    <3>2. CASE ~Poll /\ ~StartImmediate
      <4>1. UNCHANGED <<queue, immediateQueue, post>>
        BY <2>5, <3>2 DEF MainStep, ImmediateDone, StartTask, TaskDone, OpenLoop,
              JumpToTopLevel, CheckBreak, Activity, Drain, DrainInTask, HandlerDone
      <4> QED
        BY <2>4, <4>1
    <3> QED
      BY <2>3, <3>1, <3>2
  <2>6. CASE UNCHANGED vars
    BY <2>4, <2>6 DEF vars
  <2> QED
    BY <2>1, <2>2, <2>5, <2>6 DEF Next
<1> QED
  BY <1>1, <1>2, TypeCorrect, PTL DEF Spec, ImplementsTaskQueue, Promise!TaskSpec
============================================================================
