----------------------- MODULE ClientRequests_proofs -----------------------
(***************************************************************************)
(* For every bound on the requests, their nesting and the jumps: the types *)
(* of ClientRequests, that the innermost request is always heard, that a   *)
(* request is never stuck behind the timer that ended it, and that         *)
(* requests which do not nest get their own answers.                       *)
(***************************************************************************)
EXTENDS ClientRequests, SequenceTheorems, TLAPS

\* Leaving the innermost activation of a stack.
LEMMA FrontFacts ==
    ASSUME NEW S, NEW s \in Seq(S), s # <<>>
    PROVE  /\ SubSeq(s, 1, Len(s) - 1) \in Seq(S)
           /\ Len(s) \in Nat \ {0}
           /\ Len(SubSeq(s, 1, Len(s) - 1)) = Len(s) - 1
           /\ s[Len(s)] \in S
           /\ \A i \in 1..Len(s) - 1 : SubSeq(s, 1, Len(s) - 1)[i] = s[i]
<1>1. Len(s) \in Nat \ {0}
  OBVIOUS
<1> DEFINE n == Len(s) - 1
<1>2. n \in 0..Len(s)
  BY <1>1
<1> HIDE DEF n
<1>3. /\ SubSeq(s, 1, n) \in Seq(S)
      /\ Len(SubSeq(s, 1, n)) = n
      /\ \A i \in 1..n : SubSeq(s, 1, n)[i] = s[i]
  BY <1>2
<1> QED
  BY <1>1, <1>2, <1>3 DEF n

\* The innermost request goes from its loop to the destructor of its Timer.
LEMMA ToJoin ==
    ASSUME NEW s \in Seq(Frames), s # <<>>
    PROVE  LET t == [s EXCEPT ![Len(s)].at = "join"]
           IN  /\ t \in Seq(Frames) /\ Len(t) = Len(s) /\ Len(s) \in Nat \ {0}
               /\ \A i \in 1..Len(s) : /\ t[i].kind = s[i].kind /\ t[i].id = s[i].id
                                       /\ t[i].saved = s[i].saved
               /\ \A i \in 1..Len(s) - 1 : t[i] = s[i]
<1> DEFINE t == [s EXCEPT ![Len(s)].at = "join"]
<1>1. Len(s) \in Nat \ {0} /\ \A i \in 1..Len(s) : s[i] \in Frames
  OBVIOUS
<1>2. \A i \in 1..Len(s) :
          t[i] = IF i = Len(s) THEN [s[i] EXCEPT !.at = "join"] ELSE s[i]
  BY <1>1
<1>3. \A i \in 1..Len(s) :
          /\ t[i] \in Frames
          /\ t[i].kind = s[i].kind /\ t[i].id = s[i].id /\ t[i].saved = s[i].saved
  BY <1>1, <1>2 DEF Frames
<1>4. t \in Seq(Frames) /\ Len(t) = Len(s)
  <2>1. t = [i \in 1..Len(s) |-> t[i]]
    OBVIOUS
  <2> HIDE DEF t
  <2> QED
    BY <1>1, <1>3, <2>1
<1> HIDE DEF t
<1>5. \A i \in 1..Len(s) - 1 : i \in 1..Len(s) /\ i # Len(s)
  BY <1>1
<1>6. \A i \in 1..Len(s) - 1 : t[i] = s[i]
  BY <1>2, <1>5
<1> QED
  BY <1>1, <1>3, <1>4, <1>6 DEF t
----------------------------------------------------------------------------
\* What becomes of the innermost request: it goes to its destructor, it is
\* over and its flag put back, or a jump leaves it.
GoesToJoin == stack # <<>> /\ stack' = [stack EXCEPT ![Len(stack)].at = "join"]
              /\ UNCHANGED inRequest
Restores == stack # <<>> /\ stack' = Below
            /\ inRequest' = [inRequest EXCEPT ![Top.kind] = Top.saved]
LeftOut == stack # <<>> /\ stack' = Below /\ UNCHANGED inRequest

\* Every request that is open is a view or a request of the RStudio API.
LEMMA FrameKinds == ASSUME TypeOK PROVE \A i \in 1..Len(stack) : stack[i].kind \in Kinds
<1>1. stack \in Seq(Frames)
  BY DEF TypeOK
<1>2. ASSUME NEW i \in 1..Len(stack) PROVE stack[i] \in Frames
  BY <1>1
<1> QED
  BY <1>2 DEF Frames

\* The number of a request is a number.
LEMMA FrameIds == ASSUME TypeOK PROVE \A i \in 1..Len(stack) : stack[i].id \in Nat
<1>1. stack \in Seq(Frames)
  BY DEF TypeOK
<1>2. ASSUME NEW i \in 1..Len(stack) PROVE stack[i] \in Frames
  BY <1>1
<1> QED
  BY <1>2, RequestAssumption DEF Frames, Ids

\* The innermost request is one of the requests.
LEMMA TopIsFrame ==
    ASSUME TypeOK, stack # <<>>
    PROVE  /\ Top \in Frames /\ Top.kind \in Kinds /\ Top.saved \in BOOLEAN
           /\ Top.id \in Ids /\ Top.id <= made
<1>1. Top \in Frames /\ Len(stack) \in 1..Len(stack)
  BY FrontFacts DEF TypeOK, Top
<1>2. Top.id <= made
  BY <1>1 DEF TypeOK, Top
<1> QED
  BY <1>1, <1>2 DEF Frames

\* What breakEventLoop does to the stack and the flags.
LEMMA StackSteps ==
    ASSUME TypeOK, NEW t, EndLoop(t)
    PROVE  \/ GoesToJoin /\ Top.kind = "api"
           \/ Restores \/ UNCHANGED <<stack, inRequest>>
<1>1. CASE stack = <<>>
  BY <1>1 DEF EndLoop
<1>2. CASE stack # <<>> /\ Top.kind = "api"
  BY <1>2 DEF EndLoop, GoesToJoin
<1>3. CASE stack # <<>> /\ Top.kind # "api"
  <2>1. Top.kind = "view"
    BY <1>3, TopIsFrame DEF Kinds
  <2> QED
    BY <1>3, <2>1 DEF EndLoop, Restores
<1> QED
  BY <1>1, <1>2, <1>3

\* A frame is put back as it is; only the innermost request is in its Timer's
\* destructor.
StackOK ==
    /\ stack \in Seq(Frames) /\ Len(stack) <= MaxDepth
    /\ \A i \in 1..Len(stack) - 1 : stack[i].at = "loop"
    /\ \A i \in 1..Len(stack) : stack[i].id <= made

LEMMA StackOKKept ==
    ASSUME TypeOK,
           \/ \E kind \in Kinds : Request(kind)
           \/ /\ GoesToJoin \/ (stack # <<>> /\ stack' = Below) \/ UNCHANGED stack
              /\ UNCHANGED made
    PROVE  StackOK'
<1> USE RequestAssumption DEF TypeOK
<1>1. ASSUME NEW kind \in Kinds, Request(kind) PROVE StackOK'
  <2> DEFINE frame == [kind |-> kind, id |-> made + 1, at |-> "loop",
                       saved |-> inRequest[kind]]
  <2>1. frame \in Frames /\ stack' = Append(stack, frame)
    BY <1>1 DEF Request, Frames, Ids
  <2>2. frame.id = made + 1 /\ made' = made + 1 /\ made \in Nat
    BY <1>1 DEF Request
  <2> HIDE DEF frame
  <2>3. /\ stack' \in Seq(Frames) /\ Len(stack) \in Nat /\ Len(stack') = Len(stack) + 1
        /\ stack'[Len(stack) + 1] = frame
        /\ \A i \in 1..Len(stack) : stack'[i] = stack[i]
    BY <2>1, AppendProperties
  <2>4. Len(stack) < MaxDepth /\ AtLoop
    BY <1>1 DEF Request
  <2>5. \A i \in 1..Len(stack) : stack[i].at = "loop"
    <3>1. CASE stack = <<>>
      BY <3>1
    <3>2. CASE stack # <<>>
      BY <2>3, <2>4, <3>2 DEF AtLoop, Top
    <3> QED
      BY <3>1, <3>2
  <2>6. \A i \in 1..Len(stack) : stack[i].id <= made + 1
    <3>1. ASSUME NEW i \in 1..Len(stack) PROVE stack[i].id \in Nat
      BY FrameIds
    <3> QED
      BY <2>2, <3>1
  <2>7. \A i \in 1..Len(stack') : i \in 1..Len(stack) \/ stack'[i] = frame
    BY <2>3
  <2>8. \A i \in 1..Len(stack') : stack'[i].id <= made'
    BY <2>2, <2>3, <2>6, <2>7
  <2> QED
    BY <2>3, <2>4, <2>5, <2>8 DEF StackOK
<1>2. CASE GoesToJoin /\ UNCHANGED made
  <2>1. stack \in Seq(Frames) /\ stack # <<>>
        /\ stack' = [stack EXCEPT ![Len(stack)].at = "join"]
    BY <1>2 DEF GoesToJoin
  <2>2. /\ stack' \in Seq(Frames) /\ Len(stack') = Len(stack)
        /\ \A i \in 1..Len(stack) : stack'[i].id = stack[i].id
        /\ \A i \in 1..Len(stack) - 1 : stack'[i] = stack[i]
    BY <2>1, ToJoin
  <2> QED
    BY <1>2, <2>2 DEF StackOK
<1>3. CASE stack # <<>> /\ stack' = Below /\ UNCHANGED made
  <2>1. /\ stack' \in Seq(Frames) /\ Len(stack) \in Nat \ {0} /\ Len(stack') = Len(stack) - 1
        /\ \A i \in 1..Len(stack) - 1 : stack'[i] = stack[i]
    BY <1>3, FrontFacts DEF Below
  <2> QED
    BY <1>3, <2>1 DEF StackOK
<1>4. CASE UNCHANGED <<stack, made>>
  BY <1>4 DEF StackOK
<1> QED
  BY <1>1, <1>2, <1>3, <1>4

\* The values the step stores have their types.
LEMMA EndLoopTypes ==
    ASSUME TypeOK, NEW t \in [from : {"client", "timer"}, kind : Kinds, id : Ids],
           response' \in Sources, EndLoop(t)
    PROVE  inRequest' \in [Kinds -> BOOLEAN] /\ result' \in [Ids -> Sources]
<1>1. CASE stack = <<>>
  BY <1>1 DEF EndLoop, TypeOK
<1>2. CASE stack # <<>>
  <2>1. [from |-> t.from, id |-> t.id] \in Sources
    BY DEF Sources
  <2>2. result' \in [Ids -> Sources]
    BY <1>2, <2>1, TopIsFrame DEF EndLoop, TypeOK
  <2>3. inRequest' \in [Kinds -> BOOLEAN]
    BY <1>2, TopIsFrame DEF EndLoop, TypeOK
  <2> QED
    BY <2>2, <2>3
<1> QED
  BY <1>1, <1>2

\* The types are preserved by every step.
LEMMA TypeStep == TypeOK /\ [Next]_vars => TypeOK'
<1> SUFFICES ASSUME TypeOK, [Next]_vars PROVE TypeOK'
  OBVIOUS
<1> DEFINE Tasks == [from : {"client", "timer"}, kind : Kinds, id : Ids]
<1>1. ASSUME NEW kind \in Kinds, Request(kind) PROVE TypeOK'
  <2>1. made \in Nat /\ made' = made + 1 /\ made' \in 0..MaxRequests /\ made' \in Ids
    BY <1>1, RequestAssumption DEF TypeOK, Request, Ids
  <2>2. StackOK'
    BY <1>1, StackOKKept
  <2>3. timer' \in [Ids -> Timers]
    BY <1>1, <2>1 DEF Request, Timers, TypeOK
  <2>4. asked' \subseteq [kind : Kinds, id : Ids]
    BY <1>1, <2>1 DEF Request, TypeOK
  <2> QED
    BY <1>1, <2>1, <2>2, <2>3, <2>4 DEF Request, TypeOK, StackOK
<1>2. CASE Answer
  <2>1. PICK a \in asked : /\ asked' = asked \ {a}
                           /\ tasks' = Append(tasks, [from |-> "client", kind |-> a.kind, id |-> a.id])
    BY <1>2 DEF Answer
  <2>2. [from |-> "client", kind |-> a.kind, id |-> a.id] \in Tasks
    BY DEF TypeOK
  <2>3. tasks' \in Seq(Tasks)
    BY <2>1, <2>2, AppendProperties DEF TypeOK
  <2> QED
    BY <1>2, <2>1, <2>3 DEF Answer, TypeOK, loopVars
<1>3. ASSUME NEW id \in Ids, Fire(id) PROVE TypeOK'
  <2>1. [from |-> "timer", kind |-> "api", id |-> id] \in Tasks
    BY DEF Kinds
  <2>2. tasks' \in Seq(Tasks)
    BY <1>3, <2>1, AppendProperties DEF TypeOK, Fire
  <2>3. timer' \in [Ids -> Timers]
    BY <1>3 DEF Fire, TypeOK, Timers
  <2> QED
    BY <1>3, <2>2, <2>3 DEF Fire, TypeOK, loopVars
<1>4. ASSUME NEW id \in Ids, ActionReturns(id) PROVE TypeOK'
  <2>1. timer' \in [Ids -> Timers]
    BY <1>4 DEF ActionReturns, TypeOK, Timers
  <2> QED
    BY <1>4, <2>1 DEF ActionReturns, TypeOK, loopVars
<1>5. CASE RunTask
  <2> DEFINE t == Head(tasks)
  <2>1. t \in Tasks /\ tasks' \in Seq(Tasks)
    BY <1>5, HeadTailProperties DEF RunTask, TypeOK
  <2>2. timer' \in [Ids -> Timers]
    BY <1>5, <2>1 DEF RunTask, TypeOK, Timers
  <2>3. CASE UNCHANGED loopVars
    BY <1>5, <2>1, <2>2, <2>3 DEF RunTask, TypeOK, loopVars
  <2>4. CASE ~UNCHANGED loopVars
    <3>1. /\ response' = IF t.kind = "api" THEN [from |-> t.from, id |-> t.id] ELSE response
          /\ EndLoop(t) /\ Leaves(t)
      BY <1>5, <2>4 DEF RunTask
    <3>2. response' \in Sources
      BY <2>1, <3>1 DEF Sources, TypeOK
    <3>3. StackOK'
      BY <1>5, <3>1, StackSteps, StackOKKept DEF Restores, RunTask
    <3>4. inRequest' \in [Kinds -> BOOLEAN] /\ result' \in [Ids -> Sources]
      BY <2>1, <3>1, <3>2, EndLoopTypes
    <3>5. left' \subseteq Ids
      BY <3>1, TopIsFrame DEF Leaves, TypeOK
    <3> QED
      BY <1>5, <2>1, <2>2, <3>2, <3>3, <3>4, <3>5 DEF RunTask, TypeOK, StackOK
  <2> QED
    BY <2>3, <2>4
<1>6. CASE Join
  <2>1. StackOK'
    BY <1>6, StackOKKept DEF Join
  <2> QED
    BY <1>6, <2>1, TopIsFrame DEF Join, TypeOK, StackOK, Timers, Kinds
<1>7. CASE Jump
  <2>1. StackOK' /\ left' \subseteq Ids
    BY <1>7, StackOKKept, TopIsFrame DEF Jump, TypeOK
  <2> QED
    BY <1>7, <2>1, RequestAssumption DEF Jump, TypeOK, StackOK
<1>8. CASE UNCHANGED vars
  BY <1>8 DEF vars, loopVars, TypeOK
<1> QED
  BY <1>1, <1>2, <1>3, <1>4, <1>5, <1>6, <1>7, <1>8 DEF Next

\* Every variable keeps its type.
THEOREM TypeCorrect == Spec => []TypeOK
<1>1. Init => TypeOK
  BY RequestAssumption DEF Init, TypeOK, Kinds, Timers, Sources, Nobody
<1> QED
  BY <1>1, TypeStep, PTL DEF Spec
----------------------------------------------------------------------------
(* The flags.  InnermostIsHeard is about the innermost request only; when  *)
(* it ends, the one below must be heard, so the invariant is about all of  *)
(* them, and about the value each of them puts back.                       *)

\* A request in its Timer's destructor has a Timer.
JoinsAreApi == \A i \in 1..Len(stack) : stack[i].at = "join" => stack[i].kind = "api"

\* The flags of all the open requests are up.
FlagsUp == \A i \in 1..Len(stack) : inRequest[stack[i].kind]

\* A request nested in one of its kind puts back a flag that is up.
SavedUp == \A j \in 1..Len(stack) : \A i \in 1..j - 1 :
               stack[i].kind = stack[j].kind => stack[j].saved

FlagInv == JoinsAreApi /\ FlagsUp /\ SavedUp

\* A request is opened: its flag goes up, and it saves one that was up if a
\* request of its kind is below.
LEMMA FlagsRequest ==
    ASSUME TypeOK, FlagInv, NEW kind \in Kinds, Request(kind) PROVE FlagInv'
<1> DEFINE frame == [kind |-> kind, id |-> made', at |-> "loop", saved |-> inRequest[kind]]
<1>1. /\ stack' = Append(stack, frame)
      /\ frame \in Frames
      /\ inRequest' = [inRequest EXCEPT ![kind] = TRUE]
  BY RequestAssumption DEF Request, TypeOK, Frames, Ids
<1>2. frame.kind = kind /\ frame.at = "loop" /\ frame.saved = inRequest[kind]
  OBVIOUS
<1> HIDE DEF frame
<1>3. /\ Len(stack) \in Nat /\ Len(stack') = Len(stack) + 1
      /\ stack'[Len(stack) + 1] = frame
      /\ \A i \in 1..Len(stack) : stack'[i] = stack[i]
  BY <1>1, AppendProperties DEF TypeOK
<1>4. \A i \in 1..Len(stack') : i \in 1..Len(stack) \/ stack'[i] = frame
  BY <1>3
<1>5. inRequest' \in [Kinds -> BOOLEAN] /\ inRequest'[kind]
      /\ \A k \in Kinds : inRequest[k] => inRequest'[k]
  BY <1>1 DEF TypeOK
<1>6. \A i \in 1..Len(stack) : stack[i].kind \in Kinds
  BY FrameKinds
<1>7. JoinsAreApi' /\ FlagsUp'
  BY <1>2, <1>3, <1>4, <1>5, <1>6 DEF FlagInv, JoinsAreApi, FlagsUp
<1>8. SavedUp'
  <2> SUFFICES ASSUME NEW j \in 1..Len(stack'), NEW i \in 1..j - 1,
                      stack'[i].kind = stack'[j].kind
               PROVE  stack'[j].saved
    BY DEF SavedUp
  <2>1. i \in 1..Len(stack)
    BY <1>3
  <2>2. CASE j \in 1..Len(stack)
    BY <1>3, <2>1, <2>2 DEF FlagInv, SavedUp
  <2>3. CASE stack'[j] = frame
    BY <1>2, <1>3, <2>1, <2>3 DEF FlagInv, FlagsUp
  <2> QED
    BY <1>4, <2>2, <2>3
<1> QED
  BY <1>7, <1>8 DEF FlagInv

\* The innermost request goes to its destructor.
LEMMA FlagsToJoin ==
    ASSUME TypeOK, FlagInv, GoesToJoin, Top.kind = "api" PROVE FlagInv'
<1>1. stack \in Seq(Frames) /\ stack # <<>>
      /\ stack' = [stack EXCEPT ![Len(stack)].at = "join"] /\ inRequest' = inRequest
  BY DEF GoesToJoin, TypeOK
<1>2. /\ Len(stack') = Len(stack) /\ Len(stack) \in Nat \ {0}
      /\ \A i \in 1..Len(stack) : /\ stack'[i].kind = stack[i].kind
                                  /\ stack'[i].saved = stack[i].saved
      /\ \A i \in 1..Len(stack) - 1 : stack'[i] = stack[i]
  BY <1>1, ToJoin
<1>3. \A i \in 1..Len(stack) : i \in 1..Len(stack) - 1 \/ i = Len(stack)
  BY <1>2
<1>4. JoinsAreApi'
  BY <1>2, <1>3 DEF FlagInv, JoinsAreApi, Top
<1>5. FlagsUp'
  BY <1>1, <1>2 DEF FlagInv, FlagsUp
<1>6. SavedUp'
  <2>1. \A j \in 1..Len(stack) : \A i \in 1..j - 1 : i \in 1..Len(stack)
    BY <1>2
  <2> QED
    BY <1>2, <2>1 DEF FlagInv, SavedUp
<1> QED
  BY <1>4, <1>5, <1>6 DEF FlagInv

\* The innermost request is over, and its flag put back or, when a jump has
\* ended it, left up.
LEMMA FlagsBelow ==
    ASSUME TypeOK, FlagInv, Restores \/ LeftOut PROVE FlagInv'
<1>1. stack # <<>> /\ stack' = SubSeq(stack, 1, Len(stack) - 1)
  BY DEF Restores, LeftOut, Below
<1>2. /\ Len(stack) \in Nat \ {0} /\ Len(stack') = Len(stack) - 1
      /\ \A i \in 1..Len(stack) - 1 : stack'[i] = stack[i]
  BY <1>1, FrontFacts DEF TypeOK
<1>3. \A i \in 1..Len(stack') : i \in 1..Len(stack) /\ i \in 1..Len(stack) - 1
  BY <1>2
<1>4. JoinsAreApi'
  BY <1>2, <1>3 DEF FlagInv, JoinsAreApi
<1>5. FlagsUp'
  <2> SUFFICES ASSUME NEW i \in 1..Len(stack') PROVE inRequest'[stack[i].kind]
    BY <1>2, <1>3 DEF FlagsUp
  <2>1. stack[i].kind \in Kinds /\ inRequest[stack[i].kind]
    BY <1>3, FrameKinds DEF FlagInv, FlagsUp
  <2>2. CASE LeftOut
    BY <2>1, <2>2 DEF LeftOut
  <2>3. CASE Restores /\ stack[i].kind = Top.kind
    <3>1. Len(stack) \in 1..Len(stack) /\ i \in 1..Len(stack) - 1
      BY <1>2, <1>3
    <3>2. Top.saved
      BY <2>3, <3>1 DEF FlagInv, SavedUp, Top
    <3> QED
      BY <2>1, <2>3, <3>2 DEF Restores, TypeOK
  <2>4. CASE Restores /\ stack[i].kind # Top.kind
    BY <2>1, <2>4 DEF Restores, TypeOK
  <2> QED
    BY <2>2, <2>3, <2>4
<1>6. SavedUp'
  <2>1. \A j \in 1..Len(stack') : \A i \in 1..j - 1 : i \in 1..Len(stack')
    BY <1>2
  <2> QED
    BY <1>2, <1>3, <2>1 DEF FlagInv, SavedUp
<1> QED
  BY <1>4, <1>5, <1>6 DEF FlagInv

LEMMA FlagStep == TypeOK /\ FlagInv /\ [Next]_vars => FlagInv'
<1> SUFFICES ASSUME TypeOK, FlagInv, [Next]_vars PROVE FlagInv'
  OBVIOUS
<1>1. ASSUME NEW kind \in Kinds, Request(kind) PROVE FlagInv'
  BY <1>1, FlagsRequest
<1>2. CASE UNCHANGED <<stack, inRequest>>
  BY <1>2 DEF FlagInv, JoinsAreApi, FlagsUp, SavedUp
<1>3. CASE RunTask
  <2>1. CASE UNCHANGED loopVars
    BY <1>2, <2>1 DEF loopVars
  <2>2. CASE ~UNCHANGED loopVars
    <3>1. PICK t : EndLoop(t)
      BY <1>3, <2>2 DEF RunTask
    <3>2. CASE GoesToJoin /\ Top.kind = "api"
      BY <3>2, FlagsToJoin
    <3>3. CASE Restores
      BY <3>3, FlagsBelow
    <3> QED
      BY <1>2, <3>1, <3>2, <3>3, StackSteps
  <2> QED
    BY <2>1, <2>2
<1>4. CASE Join
  <2>1. Top.kind = "api"
    <3>1. Len(stack) \in 1..Len(stack)
      BY <1>4, FrontFacts DEF Join, TypeOK
    <3> QED
      BY <1>4, <3>1 DEF Join, FlagInv, JoinsAreApi, Top
  <2>2. Restores
    BY <1>4, <2>1 DEF Join, Restores
  <2> QED
    BY <2>2, FlagsBelow
<1>5. CASE Jump
  BY <1>5, FlagsBelow DEF Jump, LeftOut
<1> QED
  BY <1>1, <1>2, <1>3, <1>4, <1>5 DEF Next, vars, loopVars, Answer, Fire, ActionReturns

\* However requests are nested, answered late, timed out and jumped out of,
\* the answer to the innermost one is heard.
THEOREM InnermostHeard == Spec => []InnermostIsHeard
<1>1. Init => TypeOK /\ FlagInv
  BY RequestAssumption DEF Init, TypeOK, Kinds, Timers, Sources, Nobody,
     FlagInv, JoinsAreApi, FlagsUp, SavedUp
<1>2. TypeOK /\ FlagInv => InnermostIsHeard
  <2>1. ASSUME TypeOK, stack # <<>> PROVE Len(stack) \in 1..Len(stack)
    BY <2>1, FrontFacts DEF TypeOK
  <2> QED
    BY <2>1 DEF FlagInv, FlagsUp, InnermostIsHeard, Top
<1> QED
  BY <1>1, <1>2, TypeStep, FlagStep, PTL DEF Spec
----------------------------------------------------------------------------
(* The timers.  Whatever a timer has ended, its closure has run; a closure *)
(* that is posted has been fired.                                          *)

Ran(x) == x.from = "timer" => x.id \in Ids /\ timer[x.id] \in {"ran", "done"}

TimerInv ==
    /\ \A id \in Ids : id > made => timer[id] = "none"
    /\ \A i \in 1..Len(tasks) :
           tasks[i].from = "timer" => timer[tasks[i].id] \in {"fired", "ran", "done"}
    /\ Ran(response)
    /\ \A id \in Ids : Ran(result[id])

\* A timer that has run stays so.
LEMMA RanKept ==
    ASSUME NEW x, Ran(x),
           \A id \in Ids : timer[id] \in {"ran", "done"} => timer'[id] \in {"ran", "done"}
    PROVE  x.from = "timer" => x.id \in Ids /\ timer'[x.id] \in {"ran", "done"}
  BY DEF Ran

LEMMA TimerStep == TypeOK /\ TimerInv /\ [Next]_vars => TimerInv'
<1> SUFFICES ASSUME TypeOK, TimerInv, [Next]_vars PROVE TimerInv'
  OBVIOUS
<1> DEFINE Tasks == [from : {"client", "timer"}, kind : Kinds, id : Ids]
<1> DEFINE RanStay ==
        \A id \in Ids : timer[id] \in {"ran", "done"} => timer'[id] \in {"ran", "done"}
<1> DEFINE FiredStay ==
        \A id \in Ids : timer[id] \in {"fired", "ran", "done"}
                        => timer'[id] \in {"fired", "ran", "done"}
<1>1. tasks \in Seq(Tasks) /\ \A i \in 1..Len(tasks) : tasks[i] \in Tasks
  <2>1. tasks \in Seq(Tasks)
    BY DEF TypeOK
  <2> HIDE DEF Tasks
  <2> QED
    BY <2>1
\* What is left of the invariant when no answer is stored and no task added.
<1>2. ASSUME RanStay, FiredStay, UNCHANGED <<response, result, tasks>>
      PROVE  /\ \A i \in 1..Len(tasks') :
                    tasks'[i].from = "timer" => timer'[tasks'[i].id] \in {"fired", "ran", "done"}
             /\ Ran(response)' /\ \A id \in Ids : Ran(result[id])'
  <2>1. Ran(response)' /\ \A id \in Ids : Ran(result[id])'
    BY <1>2, RanKept DEF TimerInv, Ran
  <2> QED
    BY <1>1, <1>2, <2>1 DEF TimerInv
<1>3. ASSUME NEW kind \in Kinds, Request(kind) PROVE TimerInv'
  <2>1. made \in Nat /\ made' = made + 1 /\ made' \in Ids /\ made' > made
    BY <1>3, RequestAssumption DEF Request, TypeOK, Ids
  <2>2. timer[made'] = "none"
    BY <2>1 DEF TimerInv
  <2>3. \A id \in Ids : id # made' => timer'[id] = timer[id]
    BY <1>3 DEF Request, TypeOK
  <2>4. RanStay /\ FiredStay
    BY <2>2, <2>3
  <2>5. \A id \in Ids : id > made' => timer'[id] = "none"
    BY <2>1, <2>3 DEF TimerInv, Ids
  <2> QED
    BY <1>2, <1>3, <2>4, <2>5 DEF Request, TimerInv
<1>4. CASE Answer
  <2>1. PICK a \in asked :
             tasks' = Append(tasks, [from |-> "client", kind |-> a.kind, id |-> a.id])
    BY <1>4 DEF Answer
  <2>2. [from |-> "client", kind |-> a.kind, id |-> a.id] \in Tasks
    BY DEF TypeOK
  <2>3. \A i \in 1..Len(tasks') :
            \/ i \in 1..Len(tasks) /\ tasks'[i] = tasks[i]
            \/ tasks'[i].from = "client"
    BY <1>1, <2>1, <2>2, AppendProperties
  <2> QED
    BY <1>4, <2>3 DEF Answer, TimerInv, Ran, loopVars
<1>5. ASSUME NEW id \in Ids, Fire(id) PROVE TimerInv'
  <2>1. [from |-> "timer", kind |-> "api", id |-> id] \in Tasks
    BY DEF Kinds
  <2>2. \A i \in 1..Len(tasks') :
            \/ i \in 1..Len(tasks) /\ tasks'[i] = tasks[i]
            \/ tasks'[i].id = id
    BY <1>1, <1>5, <2>1, AppendProperties DEF Fire
  <2>3. timer'[id] = "fired" /\ \A x \in Ids : x # id => timer'[x] = timer[x]
    BY <1>5 DEF Fire, TypeOK
  <2>4. timer[id] = "waits"
    BY <1>5 DEF Fire
  <2>5. RanStay /\ FiredStay
    BY <2>3, <2>4
  <2>6. UNCHANGED <<response, result, made>>
    BY <1>5 DEF Fire, loopVars
  <2>7. Ran(response)' /\ \A x \in Ids : Ran(result[x])'
    BY <2>5, <2>6, RanKept DEF TimerInv, Ran
  <2>8. \A x \in Ids : x > made' => timer'[x] = "none"
    BY <2>3, <2>4, <2>6 DEF TimerInv
  <2>9. \A i \in 1..Len(tasks') :
            tasks'[i].from = "timer" => timer'[tasks'[i].id] \in {"fired", "ran", "done"}
    BY <1>1, <2>2, <2>3, <2>5 DEF TimerInv
  <2> QED
    BY <2>7, <2>8, <2>9 DEF TimerInv
<1>6. ASSUME NEW id \in Ids, ActionReturns(id) PROVE TimerInv'
  <2>1. /\ timer[id] = "ran" /\ timer'[id] = "done"
        /\ \A x \in Ids : x # id => timer'[x] = timer[x]
    BY <1>6 DEF ActionReturns, TypeOK
  <2>2. RanStay /\ FiredStay /\ \A x \in Ids : timer[x] = "none" => timer'[x] = "none"
    BY <2>1
  <2> QED
    BY <1>2, <1>6, <2>2 DEF ActionReturns, TimerInv, loopVars
<1>7. CASE RunTask
  <2> DEFINE t == Head(tasks)
  <2>1. /\ t \in Tasks /\ 1 \in 1..Len(tasks) /\ t = tasks[1]
        /\ \A i \in 1..Len(tasks') : i + 1 \in 1..Len(tasks) /\ tasks'[i] = tasks[i + 1]
    BY <1>1, <1>7, HeadTailProperties DEF RunTask
  <2>2. timer' = IF t.from = "timer" THEN [timer EXCEPT ![t.id] = "ran"] ELSE timer
    BY <1>7 DEF RunTask
  <2> HIDE DEF t
  <2>3. t.from = "timer" => timer[t.id] \in {"fired", "ran", "done"} /\ timer'[t.id] = "ran"
    BY <2>1, <2>2 DEF TimerInv, TypeOK
  <2>4. \A x \in Ids : timer'[x] = timer[x] \/ (t.from = "timer" /\ x = t.id)
    BY <2>1, <2>2 DEF TypeOK
  <2>5. RanStay /\ FiredStay
    BY <2>3, <2>4
  <2>6. \A x \in Ids : x > made' => timer'[x] = "none"
    BY <1>7, <2>3, <2>4 DEF RunTask, TimerInv
  <2>7. \A i \in 1..Len(tasks') :
            tasks'[i].from = "timer" => timer'[tasks'[i].id] \in {"fired", "ran", "done"}
    BY <1>1, <2>1, <2>5 DEF TimerInv
  <2>8. \A x : Ran(x) => (x.from = "timer" => x.id \in Ids /\ timer'[x.id] \in {"ran", "done"})
    BY <2>5, RanKept
  <2>9. LET x == [from |-> t.from, id |-> t.id]
        IN  x.from = "timer" => x.id \in Ids /\ timer'[x.id] \in {"ran", "done"}
    BY <2>1, <2>3
  <2>10. Ran(response)'
    <3>1. response' = response \/ response' = [from |-> t.from, id |-> t.id]
      BY <1>7 DEF RunTask, loopVars, t
    <3> QED
      BY <2>8, <2>9, <3>1 DEF TimerInv, Ran
  <2>11. ASSUME NEW id \in Ids PROVE Ran(result[id])'
    <3>1. \/ result'[id] = result[id] \/ result'[id] = response'
          \/ result'[id] = [from |-> t.from, id |-> t.id]
      BY <1>7 DEF RunTask, loopVars, t, EndLoop, TypeOK
    <3> QED
      BY <2>8, <2>9, <2>10, <3>1 DEF TimerInv, Ran
  <2> QED
    BY <2>6, <2>7, <2>10, <2>11 DEF TimerInv
<1>8. CASE Join
  <2>1. Top.id \in Ids /\ Top.id <= made /\ made \in Nat /\ timer' = [timer EXCEPT ![Top.id] = "done"]
    BY <1>8, RequestAssumption, TopIsFrame DEF Join, TypeOK
  <2>2. RanStay /\ FiredStay
    BY <2>1 DEF TypeOK
  <2>3. \A x \in Ids : x > made' => timer'[x] = "none"
    BY <1>8, <2>1 DEF Join, TimerInv, TypeOK, Ids
  <2> QED
    BY <1>2, <1>8, <2>2, <2>3 DEF Join, TimerInv
<1>9. CASE Jump \/ UNCHANGED vars
  BY <1>9 DEF Jump, vars, loopVars, TimerInv, Ran
<1> QED
  BY <1>3, <1>4, <1>5, <1>6, <1>7, <1>8, <1>9 DEF Next

\* The destructor of a Timer never waits for the closure that has ended the
\* request: only an answer of the client can bring the main thread to wait
\* for a thread that waits for the main thread.
THEOREM TimeoutsEnd == Spec => []OnlyAnswersStick
<1>1. Init => TypeOK /\ TimerInv
  BY RequestAssumption DEF Init, TypeOK, Kinds, Timers, Sources, Nobody, TimerInv, Ran
<1>2. TypeOK /\ TimerInv => OnlyAnswersStick
  <2> SUFFICES ASSUME TypeOK, TimerInv, stack # <<>>, timer[Top.id] = "fired",
                      result[Top.id] = [from |-> "timer", id |-> Top.id]
               PROVE  FALSE
    BY DEF OnlyAnswersStick, Stuck
  <2> QED
    BY TopIsFrame DEF TimerInv, Ran
<1> QED
  BY <1>1, <1>2, TypeStep, TimerStep, PTL DEF Spec

----------------------------------------------------------------------------
(* Who is answered.  A request that is over, and was ended by its own      *)
(* answer, is silent for ever: its answer is consumed, its timer cannot    *)
(* fire any more.  So what ends a request that does not nest, before which *)
(* all the others are silent, is its own.                                  *)

\* A request is answered once, and fires once.
Once ==
    /\ \A a \in asked : a.id <= made
    /\ \A i \in 1..Len(tasks) : tasks[i].id <= made
    /\ \A a, b \in asked : a.id = b.id => a = b
    /\ \A a \in asked : \A i \in 1..Len(tasks) : tasks[i].from = "client" => tasks[i].id # a.id
    /\ \A i, j \in 1..Len(tasks) :
           tasks[i].from = tasks[j].from /\ tasks[i].id = tasks[j].id => i = j
    /\ \A i \in 1..Len(tasks) : tasks[i].from = "timer" => timer[tasks[i].id] = "fired"

Silent(id) ==
    /\ \A a \in asked : a.id # id
    /\ \A i \in 1..Len(tasks) : tasks[i].id # id
    /\ timer[id] # "waits"

Settled == \A id \in Ids \ left : id < made \/ (id = made /\ stack = <<>>) => Silent(id)

\* Only its timer may still disturb a request that was answered.
Answered ==
    stack # <<>> /\ Top.at = "join" /\ made \notin left =>
        /\ \A a \in asked : a.id # made
        /\ \A i \in 1..Len(tasks) : tasks[i].id = made => tasks[i].from = "timer"

OfItsKind ==
    stack # <<>> =>
        /\ Top.id = made
        /\ \A a \in asked : a.id = made => a.kind = Top.kind
        /\ \A i \in 1..Len(tasks) : tasks[i].id = made => tasks[i].kind = Top.kind
        /\ timer[made] # "none" => Top.kind = "api"

Results ==
    \A id \in Ids :
        result[id] # Nobody /\ (\A before \in left : before >= id) => result[id].id = id

FlatInv == ~nesting => Len(stack) <= 1 /\ Settled /\ Answered /\ OfItsKind /\ Results

Closures == [from : {"client", "timer"}, kind : Kinds, id : Ids]

LEMMA TaskTypes ==
    ASSUME TypeOK
    PROVE  /\ tasks \in Seq(Closures) /\ Len(tasks) \in Nat
           /\ \A i \in 1..Len(tasks) : tasks[i] \in Closures
           /\ made \in Nat /\ Ids \subseteq Nat
<1>1. tasks \in Seq(Closures) /\ made \in Nat /\ Ids \subseteq Nat
  BY RequestAssumption DEF TypeOK, Closures, Ids
<1> HIDE DEF Closures
<1> QED
  BY <1>1

\* What posting a task and running one do to the tasks.
LEMMA Posted ==
    ASSUME TypeOK, NEW t \in Closures, tasks' = Append(tasks, t)
    PROVE  /\ Len(tasks') = Len(tasks) + 1 /\ tasks'[Len(tasks) + 1] = t
           /\ \A i \in 1..Len(tasks) : tasks'[i] = tasks[i]
           /\ \A i \in 1..Len(tasks') : i \in 1..Len(tasks) \/ i = Len(tasks) + 1
<1> HIDE DEF Closures
<1>1. tasks \in Seq(Closures) /\ Len(tasks) \in Nat
  BY TaskTypes
<1> QED
  BY <1>1, AppendProperties

LEMMA Taken ==
    ASSUME TypeOK, tasks # <<>>, tasks' = Tail(tasks)
    PROVE  /\ Head(tasks) \in Closures /\ Head(tasks) = tasks[1] /\ 1 \in 1..Len(tasks)
           /\ \A i \in 1..Len(tasks') : i + 1 \in 1..Len(tasks) /\ tasks'[i] = tasks[i + 1]
<1> HIDE DEF Closures
<1>1. tasks \in Seq(Closures)
  BY TaskTypes
<1> QED
  BY <1>1, HeadTailProperties

LEMMA OnceStep == TypeOK /\ TimerInv /\ Once /\ [Next]_vars => Once'
<1> SUFFICES ASSUME TypeOK, TimerInv, Once, [Next]_vars PROVE Once'
  OBVIOUS
<1> HIDE DEF Closures
\* What is left of the invariant when timers that have fired stay and nothing
\* is posted.
<1>0. ASSUME asked' = asked, tasks' = tasks, made' = made,
             \A id \in Ids : timer[id] = "fired" => timer'[id] = "fired"
      PROVE  Once'
  BY <1>0, TaskTypes DEF Once, Closures
<1>1. ASSUME NEW kind \in Kinds, Request(kind) PROVE Once'
  <2>1. /\ made' = made + 1 /\ made \in Nat /\ tasks' = tasks /\ made' \in Ids
        /\ asked' = asked \cup {[kind |-> kind, id |-> made']}
    BY <1>1, RequestAssumption DEF Request, TypeOK, Ids
  <2>5. \A id \in Ids : id # made' => timer'[id] = timer[id]
    BY <1>1 DEF Request, TypeOK
  <2>2. /\ \A a \in asked : a.id <= made /\ a.id \in Nat
        /\ \A i \in 1..Len(tasks) : tasks[i].id <= made /\ tasks[i].id \in Nat /\ tasks[i].id \in Ids
    BY TaskTypes DEF Once, TypeOK, Closures
  <2>3. /\ \A a \in asked : a.id # made' /\ a.id <= made'
        /\ \A i \in 1..Len(tasks) : tasks[i].id # made' /\ tasks[i].id <= made'
    BY <2>1, <2>2
  <2>4. \A a \in asked' : a \in asked \/ a = [kind |-> kind, id |-> made']
    BY <2>1
  <2> QED
    BY <2>1, <2>2, <2>3, <2>4, <2>5 DEF Once
<1>2. CASE Answer
  <2>1. PICK a \in asked : /\ asked' = asked \ {a}
                           /\ tasks' = Append(tasks, [from |-> "client", kind |-> a.kind, id |-> a.id])
    BY <1>2 DEF Answer
  <2> DEFINE t == [from |-> "client", kind |-> a.kind, id |-> a.id]
  <2>2. t \in Closures /\ t.from = "client" /\ t.id = a.id
    BY DEF TypeOK, Closures
  <2>3. tasks' = Append(tasks, t)
    BY <2>1
  <2> HIDE DEF t
  <2>4. /\ Len(tasks') = Len(tasks) + 1 /\ tasks'[Len(tasks) + 1] = t
        /\ \A i \in 1..Len(tasks) : tasks'[i] = tasks[i]
        /\ \A i \in 1..Len(tasks') : i \in 1..Len(tasks) \/ i = Len(tasks) + 1
    BY <2>2, <2>3, Posted
  <2>5. UNCHANGED <<made, timer>>
    BY <1>2 DEF Answer
  <2>6. \A i \in 1..Len(tasks) : tasks[i].from = "client" => tasks[i].id # t.id
    BY <2>2 DEF Once
  <2>7. \A b \in asked' : b \in asked /\ b.id # t.id
    BY <2>1, <2>2 DEF Once
  <2>8. \A i, j \in 1..Len(tasks') :
            tasks'[i].from = tasks'[j].from /\ tasks'[i].id = tasks'[j].id => i = j
    BY <2>2, <2>4, <2>6 DEF Once
  <2>9. \A b \in asked' : \A i \in 1..Len(tasks') :
            tasks'[i].from = "client" => tasks'[i].id # b.id
    BY <2>4, <2>7 DEF Once
  <2>10. \A i \in 1..Len(tasks') :
            /\ tasks'[i].id <= made
            /\ tasks'[i].from = "timer" => timer[tasks'[i].id] = "fired"
    BY <2>2, <2>4 DEF Once
  <2> QED
    BY <2>5, <2>7, <2>8, <2>9, <2>10 DEF Once
<1>3. ASSUME NEW id \in Ids, Fire(id) PROVE Once'
  <2> DEFINE t == [from |-> "timer", kind |-> "api", id |-> id]
  <2>1. t \in Closures /\ t.from = "timer" /\ t.id = id
    BY DEF Closures, Kinds
  <2>2. /\ tasks' = Append(tasks, t) /\ timer[id] = "waits" /\ timer'[id] = "fired"
        /\ \A k \in Ids : k # id => timer'[k] = timer[k]
    BY <1>3 DEF Fire, TypeOK
  <2> HIDE DEF t
  <2>4. /\ Len(tasks') = Len(tasks) + 1 /\ tasks'[Len(tasks) + 1] = t
        /\ \A i \in 1..Len(tasks) : tasks'[i] = tasks[i]
        /\ \A i \in 1..Len(tasks') : i \in 1..Len(tasks) \/ i = Len(tasks) + 1
    BY <2>1, <2>2, Posted
  <2>5. UNCHANGED <<made, asked>>
    BY <1>3 DEF Fire
  <2>6. \A i \in 1..Len(tasks) : tasks[i].from = "timer" => tasks[i].id # id
    BY <2>2 DEF Once
  <2>7. id <= made
    BY <2>2, TaskTypes DEF TimerInv
  <2>8. \A i, j \in 1..Len(tasks') :
            tasks'[i].from = tasks'[j].from /\ tasks'[i].id = tasks'[j].id => i = j
    BY <2>1, <2>4, <2>6 DEF Once
  <2>9. \A i \in 1..Len(tasks) : tasks[i].id \in Ids
    BY TaskTypes DEF Closures
  <2>10. \A i \in 1..Len(tasks') :
            /\ tasks'[i].id <= made
            /\ tasks'[i].from = "timer" => timer'[tasks'[i].id] = "fired"
    BY <2>1, <2>2, <2>4, <2>7, <2>9 DEF Once
  <2>11. \A b \in asked : \A i \in 1..Len(tasks') :
            tasks'[i].from = "client" => tasks'[i].id # b.id
    BY <2>1, <2>4 DEF Once
  <2> QED
    BY <2>5, <2>8, <2>10, <2>11 DEF Once
<1>4. ASSUME NEW id \in Ids, ActionReturns(id) PROVE Once'
  BY <1>0, <1>4 DEF ActionReturns, TypeOK
<1>5. CASE RunTask
  <2> DEFINE t == Head(tasks)
  <2>1. /\ t \in Closures /\ t = tasks[1] /\ 1 \in 1..Len(tasks)
        /\ \A i \in 1..Len(tasks') : i + 1 \in 1..Len(tasks) /\ tasks'[i] = tasks[i + 1]
    BY <1>5, Taken DEF RunTask
  <2>2. /\ UNCHANGED <<asked, made>>
        /\ timer' = IF t.from = "timer" THEN [timer EXCEPT ![t.id] = "ran"] ELSE timer
    BY <1>5 DEF RunTask
  <2> HIDE DEF t
  <2>3. \A i \in 1..Len(tasks') : tasks'[i].from = "timer" => timer'[tasks'[i].id] = "fired"
    <3> SUFFICES ASSUME NEW i \in 1..Len(tasks'), tasks'[i].from = "timer"
                 PROVE  timer'[tasks'[i].id] = "fired"
      OBVIOUS
    <3>1. i + 1 \in 1..Len(tasks) /\ i + 1 # 1 /\ tasks'[i] = tasks[i + 1]
      BY <2>1
    <3>2. timer[tasks[i + 1].id] = "fired" /\ tasks[i + 1].id \in Ids
      BY <3>1, TaskTypes DEF Once, Closures
    <3>3. t.from # "timer" \/ t.id # tasks[i + 1].id
      BY <2>1, <3>1 DEF Once
    <3> QED
      BY <2>1, <2>2, <3>1, <3>2, <3>3 DEF TypeOK, Closures
  <2>4. \A i, j \in 1..Len(tasks') :
            tasks'[i].from = tasks'[j].from /\ tasks'[i].id = tasks'[j].id => i = j
    <3> SUFFICES ASSUME NEW i \in 1..Len(tasks'), NEW j \in 1..Len(tasks'),
                        tasks'[i].from = tasks'[j].from, tasks'[i].id = tasks'[j].id
                 PROVE  i = j
      OBVIOUS
    <3>1. /\ i + 1 \in 1..Len(tasks) /\ j + 1 \in 1..Len(tasks)
          /\ tasks[i + 1].from = tasks[j + 1].from /\ tasks[i + 1].id = tasks[j + 1].id
      BY <2>1
    <3>2. i + 1 = j + 1
      BY <3>1 DEF Once
    <3> QED
      BY <3>2
  <2>5. \A i \in 1..Len(tasks') :
            tasks'[i].id <= made
            /\ \A a \in asked : tasks'[i].from = "client" => tasks'[i].id # a.id
    BY <2>1 DEF Once
  <2> QED
    BY <2>2, <2>3, <2>4, <2>5 DEF Once
<1>6. CASE Join
  BY <1>0, <1>6, TopIsFrame DEF Join, TypeOK
<1>7. CASE Jump \/ UNCHANGED vars
  BY <1>0, <1>7 DEF Jump, vars
<1> QED
  BY <1>1, <1>2, <1>3, <1>4, <1>5, <1>6, <1>7 DEF Next


\* A request that no other nests in is alone on the stack.
LEMMA Alone ==
    ASSUME TypeOK, Len(stack) <= 1
    PROVE  /\ stack # <<>> => Len(stack) = 1
           /\ GoesToJoin => /\ stack' # <<>> /\ Len(stack') = 1
                            /\ Top'.id = Top.id /\ Top'.kind = Top.kind
           /\ stack # <<>> /\ stack' = Below => stack' = <<>>
<1>1. stack \in Seq(Frames)
  BY DEF TypeOK
<1>2. stack # <<>> => Len(stack) = 1
  BY <1>1, FrontFacts
<1>3. ASSUME GoesToJoin PROVE /\ stack' # <<>> /\ Len(stack') = 1
                              /\ Top'.id = Top.id /\ Top'.kind = Top.kind
  <2>1. /\ stack # <<>> /\ stack' \in Seq(Frames) /\ Len(stack') = Len(stack)
        /\ \A i \in 1..Len(stack) : stack'[i].kind = stack[i].kind /\ stack'[i].id = stack[i].id
    BY <1>1, <1>3, ToJoin DEF GoesToJoin
  <2>2. Len(stack') = 1 /\ Len(stack) = 1
    BY <1>2, <2>1
  <2>3. Top' = stack'[1] /\ Top = stack[1]
    BY <2>2 DEF Top
  <2> QED
    BY <2>1, <2>2, <2>3
<1>4. stack # <<>> /\ stack' = Below => stack' = <<>>
  <2>1. ASSUME stack # <<>> PROVE Below \in Seq(Frames) /\ Len(Below) = 0
    BY <1>1, <1>2, <2>1, FrontFacts DEF Below
  <2> QED
    BY <2>1
<1> QED
  BY <1>2, <1>3, <1>4

LEMMA FlatRequest ==
    ASSUME TypeOK, TimerInv, Once, FlatInv, ~nesting, NEW kind \in Kinds, Request(kind)
    PROVE  FlatInv'
<1> DEFINE frame == [kind |-> kind, id |-> made', at |-> "loop", saved |-> inRequest[kind]]
<1> HIDE DEF Closures
<1>1. /\ stack = <<>> /\ stack' = Append(stack, frame) /\ UNCHANGED <<left, result, tasks, nesting>>
      /\ asked' = asked \cup {[kind |-> kind, id |-> made']}
      /\ made' = made + 1 /\ made \in Nat /\ made' \in Ids
  <2>1. /\ stack = <<>> /\ UNCHANGED <<left, result, tasks, nesting>> /\ made < MaxRequests
        /\ made' = made + 1 /\ stack' = Append(stack, frame)
        /\ asked' = asked \cup {[kind |-> kind, id |-> made']}
    BY DEF Request
  <2>2. made \in Nat /\ made + 1 \in Ids
    BY <2>1, TaskTypes, RequestAssumption DEF Ids
  <2> QED
    BY <2>1, <2>2
<1>2. stack' = <<frame>>
  BY <1>1
<1>3. Len(stack') = 1 /\ Top' = frame /\ stack' # <<>>
  BY <1>2 DEF Top
<1>4. frame.kind = kind /\ frame.id = made' /\ frame.at = "loop"
  OBVIOUS
<1> HIDE DEF frame
<1>5. \A id \in Ids : id # made' => timer'[id] = timer[id]
  BY DEF Request, TypeOK
<1>6. timer'[made'] # "none" => kind = "api"
  <2>1. timer[made'] = "none"
    BY <1>1 DEF TimerInv
  <2> QED
    BY <2>1 DEF Request
<1>7. /\ \A a \in asked : a.id # made'
      /\ \A i \in 1..Len(tasks) : tasks[i].id # made'
  <2>1. \A a \in asked : a.id \in Nat /\ a.id <= made
    BY TaskTypes DEF Once, TypeOK
  <2>2. \A i \in 1..Len(tasks) : tasks[i].id \in Nat /\ tasks[i].id <= made
    BY TaskTypes DEF Once, Closures
  <2> QED
    BY <1>1, <2>1, <2>2
<1>8. Settled'
  <2> SUFFICES ASSUME NEW id \in Ids \ left, id < made' PROVE Silent(id)'
    BY <1>1, <1>3 DEF Settled
  <2>1. id \in Nat /\ (id < made \/ id = made) /\ id # made'
    BY <1>1, TaskTypes
  <2>2. Silent(id)
    BY <1>1, <2>1 DEF FlatInv, Settled
  <2> QED
    BY <1>1, <1>5, <2>1, <2>2 DEF Silent
<1>9. Answered'
  BY <1>3, <1>4 DEF Answered
<1>10. OfItsKind'
  <2>1. \A a \in asked' : a.id = made' => a.kind = kind
    BY <1>1, <1>7
  <2> QED
    BY <1>1, <1>3, <1>4, <1>6, <1>7, <2>1 DEF OfItsKind
<1>11. Results'
  BY <1>1 DEF FlatInv, Results
<1> QED
  BY <1>3, <1>8, <1>9, <1>10, <1>11 DEF FlatInv

\* What the client and the timers post comes from requests that are not silent.
LEMMA FlatPost ==
    ASSUME TypeOK, TimerInv, Once, FlatInv, ~nesting, Answer \/ \E id \in Ids : Fire(id)
    PROVE  FlatInv'
<1> HIDE DEF Closures
<1>1. UNCHANGED <<stack, left, result, made, nesting>>
  BY DEF Answer, Fire, loopVars
<1>2. Top' = Top
  BY <1>1 DEF Top
<1>3. PICK t \in Closures :
        /\ tasks' = Append(tasks, t) /\ asked' \subseteq asked
        /\ \A id \in Ids : timer'[id] = "waits" => timer[id] = "waits"
        /\ \A id \in Ids : timer'[id] # "none" => timer[id] # "none"
        /\ \A id \in Ids : Silent(id) => t.id # id
        /\ t.from = "client" => \E a \in asked : a.id = t.id /\ a.kind = t.kind
        /\ t.from = "timer" => timer[t.id] # "none" /\ t.kind = "api"
  <2>1. CASE Answer
    <3>1. PICK a \in asked : /\ asked' = asked \ {a} /\ UNCHANGED timer
                             /\ tasks' = Append(tasks, [from |-> "client", kind |-> a.kind, id |-> a.id])
      BY <2>1 DEF Answer
    <3> DEFINE t == [from |-> "client", kind |-> a.kind, id |-> a.id]
    <3>2. t \in Closures /\ t.from = "client" /\ t.id = a.id /\ t.kind = a.kind
      BY DEF TypeOK, Closures
    <3>3. tasks' = Append(tasks, t)
      BY <3>1
    <3> HIDE DEF t
    <3> QED
      BY <3>1, <3>2, <3>3 DEF Silent
  <2>2. CASE \E id \in Ids : Fire(id)
    <3>1. PICK id \in Ids : Fire(id)
      BY <2>2
    <3> DEFINE t == [from |-> "timer", kind |-> "api", id |-> id]
    <3>2. t \in Closures /\ t.from = "timer" /\ t.id = id /\ t.kind = "api"
      BY DEF Closures, Kinds
    <3>3. /\ tasks' = Append(tasks, t) /\ timer[id] = "waits" /\ timer'[id] = "fired"
          /\ \A k \in Ids : k # id => timer'[k] = timer[k]
          /\ asked' = asked
      BY <3>1 DEF Fire, TypeOK
    <3> HIDE DEF t
    <3> QED
      BY <3>2, <3>3 DEF Silent
  <2> QED
    BY <2>1, <2>2
<1>4. /\ Len(tasks') = Len(tasks) + 1 /\ tasks'[Len(tasks) + 1] = t
      /\ \A i \in 1..Len(tasks) : tasks'[i] = tasks[i]
      /\ \A i \in 1..Len(tasks') : i \in 1..Len(tasks) \/ i = Len(tasks) + 1
  BY <1>3, Posted
<1>5. \A i \in 1..Len(tasks') : tasks'[i] = t \/ \E j \in 1..Len(tasks) : tasks'[i] = tasks[j]
  BY <1>4
<1>6. Settled'
  <2>1. \A id \in Ids : Silent(id) => Silent(id)'
    BY <1>3, <1>5 DEF Silent
  <2> QED
    BY <1>1, <2>1 DEF FlatInv, Settled
<1>7. stack # <<>> => made \in Ids
  BY TopIsFrame DEF FlatInv, OfItsKind
<1>8. Answered'
  <2> SUFFICES ASSUME stack # <<>>, Top.at = "join", made \notin left
               PROVE  /\ \A a \in asked : a.id # made
                      /\ \A i \in 1..Len(tasks') : tasks'[i].id = made => tasks'[i].from = "timer"
    BY <1>1, <1>2, <1>3 DEF Answered
  <2>1. /\ \A a \in asked : a.id # made
        /\ \A i \in 1..Len(tasks) : tasks[i].id = made => tasks[i].from = "timer"
    BY DEF FlatInv, Answered
  <2>2. t.id = made => t.from = "timer"
    BY <1>3, <2>1 DEF Closures
  <2> QED
    BY <1>5, <2>1, <2>2
<1>9. OfItsKind'
  <2> SUFFICES ASSUME stack # <<>>
               PROVE  /\ Top.id = made
                      /\ \A a \in asked' : a.id = made => a.kind = Top.kind
                      /\ \A i \in 1..Len(tasks') : tasks'[i].id = made => tasks'[i].kind = Top.kind
                      /\ timer'[made] # "none" => Top.kind = "api"
    BY <1>1, <1>2 DEF OfItsKind
  <2>1. /\ Top.id = made
        /\ \A a \in asked : a.id = made => a.kind = Top.kind
        /\ \A i \in 1..Len(tasks) : tasks[i].id = made => tasks[i].kind = Top.kind
        /\ timer[made] # "none" => Top.kind = "api"
    BY DEF FlatInv, OfItsKind
  <2>2. t.id = made => t.kind = Top.kind
    BY <1>3, <2>1 DEF Closures
  <2> QED
    BY <1>3, <1>5, <1>7, <2>1, <2>2
<1>10. Results' /\ Len(stack') <= 1
  BY <1>1 DEF FlatInv, Results
<1> QED
  BY <1>6, <1>8, <1>9, <1>10 DEF FlatInv

\* A closure that is run leaves the others, and moves no timer but its own.
LEMMA RunFacts ==
    ASSUME TypeOK, Once, RunTask
    PROVE  /\ Head(tasks) \in Closures /\ 1 \in 1..Len(tasks) /\ Head(tasks) = tasks[1]
           /\ UNCHANGED <<asked, made, nesting>>
           /\ \A i \in 1..Len(tasks') : \E j \in 1..Len(tasks) :
                  j # 1 /\ tasks'[i] = tasks[j]
           /\ \A id \in Ids : timer'[id] = "waits" => timer[id] = "waits"
           /\ \A id \in Ids : timer'[id] # "none" => timer[id] # "none"
           /\ Head(tasks).from = "client" => timer' = timer
           /\ \A id \in Ids : Silent(id) => Silent(id)'
<1> HIDE DEF Closures
<1> DEFINE t == Head(tasks)
<1>1. /\ t \in Closures /\ t = tasks[1] /\ 1 \in 1..Len(tasks)
      /\ \A i \in 1..Len(tasks') : i + 1 \in 1..Len(tasks) /\ tasks'[i] = tasks[i + 1]
  BY Taken DEF RunTask
<1>2. /\ UNCHANGED <<asked, made, nesting>>
      /\ timer' = IF t.from = "timer" THEN [timer EXCEPT ![t.id] = "ran"] ELSE timer
  BY DEF RunTask
<1> HIDE DEF t
<1>3. \A i \in 1..Len(tasks') : \E j \in 1..Len(tasks) : j # 1 /\ tasks'[i] = tasks[j]
  <2> SUFFICES ASSUME NEW i \in 1..Len(tasks')
               PROVE  \E j \in 1..Len(tasks) : j # 1 /\ tasks'[i] = tasks[j]
    OBVIOUS
  <2>1. i + 1 \in 1..Len(tasks) /\ i + 1 # 1 /\ tasks'[i] = tasks[i + 1]
    BY <1>1
  <2> QED
    BY <2>1
<1>4. t.from = "timer" => timer[t.id] = "fired"
  BY <1>1 DEF Once
<1>5. /\ \A id \in Ids : timer'[id] = "waits" => timer[id] = "waits"
      /\ \A id \in Ids : timer'[id] # "none" => timer[id] # "none"
  BY <1>1, <1>2, <1>4 DEF TypeOK, Closures
<1>6. \A id \in Ids : Silent(id) => Silent(id)'
  BY <1>2, <1>3, <1>5 DEF Silent
<1>7. t.from = "client" => timer' = timer
  BY <1>2
<1> QED
  BY <1>1, <1>2, <1>3, <1>5, <1>6, <1>7 DEF t

\* The answer to a request is the last that the client or a view says of it.
LEMMA OwnIsLast ==
    ASSUME TypeOK, Once, FlatInv, ~nesting, stack # <<>>, RunTask,
           Head(tasks).from = "client", Head(tasks).id = made
    PROVE  /\ \A a \in asked' : a.id # made
           /\ \A i \in 1..Len(tasks') : tasks'[i].id = made => tasks'[i].from = "timer"
           /\ Top.kind = "view" => Silent(made)'
<1> HIDE DEF Closures
<1>1. made \in Ids
  BY TopIsFrame DEF FlatInv, OfItsKind
<1>2. \A a \in asked' : a.id # made
  BY RunFacts DEF Once
<1>3. ASSUME NEW i \in 1..Len(tasks'), tasks'[i].id = made
      PROVE  tasks'[i].from = "timer" /\ timer[made] = "fired"
  <2>1. PICK j \in 1..Len(tasks) : j # 1 /\ tasks'[i] = tasks[j]
    BY RunFacts
  <2>2. tasks[j].from # "client"
    BY <1>3, <2>1, RunFacts DEF Once
  <2>3. tasks[j].from = "timer"
    BY <2>2, TaskTypes DEF Closures
  <2> QED
    BY <1>3, <2>1, <2>3 DEF Once
<1>4. ASSUME Top.kind = "view" PROVE Silent(made)'
  <2>1. timer[made] = "none"
    BY <1>4 DEF FlatInv, OfItsKind
  <2>2. timer'[made] = "none"
    BY <2>1, RunFacts
  <2>3. made' = made
    BY RunFacts
  <2> QED
    BY <1>2, <1>3, <2>1, <2>2, <2>3 DEF Silent
<1> QED
  BY <1>2, <1>3, <1>4

LEMMA FlatRun ==
    ASSUME TypeOK, TimerInv, Once, FlatInv, ~nesting, RunTask
    PROVE  FlatInv'
<1> HIDE DEF Closures
<1> DEFINE t == Head(tasks)
<1>1. /\ t \in Closures /\ 1 \in 1..Len(tasks) /\ t = tasks[1]
      /\ UNCHANGED <<asked, made, nesting>>
      /\ \A i \in 1..Len(tasks') : \E j \in 1..Len(tasks) : j # 1 /\ tasks'[i] = tasks[j]
      /\ \A id \in Ids : timer'[id] # "none" => timer[id] # "none"
      /\ \A id \in Ids : Silent(id) => Silent(id)'
  BY RunFacts
<1>2. stack # <<>> => made \in Ids
  BY TopIsFrame DEF FlatInv, OfItsKind
\* The innermost request stays, or goes to its destructor.
<1>3. ASSUME stack' = stack \/ (stack # <<>> /\ stack' # <<>>),
             stack # <<>> => Top'.id = Top.id /\ Top'.kind = Top.kind
      PROVE  OfItsKind'
  <2> SUFFICES ASSUME stack # <<>>
               PROVE  /\ Top.id = made
                      /\ \A a \in asked : a.id = made => a.kind = Top.kind
                      /\ \A i \in 1..Len(tasks') : tasks'[i].id = made => tasks'[i].kind = Top.kind
                      /\ timer'[made] # "none" => Top.kind = "api"
    BY <1>1, <1>3 DEF OfItsKind
  <2>1. /\ Top.id = made
        /\ \A a \in asked : a.id = made => a.kind = Top.kind
        /\ \A i \in 1..Len(tasks) : tasks[i].id = made => tasks[i].kind = Top.kind
        /\ timer[made] # "none" => Top.kind = "api"
    BY DEF FlatInv, OfItsKind
  <2> QED
    BY <1>1, <1>2, <2>1
<1>4. CASE UNCHANGED <<stack, left, result>>
  <2>1. Top' = Top
    BY <1>4 DEF Top
  <2>2. Settled'
    BY <1>1, <1>4 DEF FlatInv, Settled
  <2>3. Answered'
    <3> SUFFICES ASSUME stack # <<>>, Top.at = "join", made \notin left
                 PROVE  /\ \A a \in asked : a.id # made
                        /\ \A i \in 1..Len(tasks') : tasks'[i].id = made => tasks'[i].from = "timer"
      BY <1>1, <1>4, <2>1 DEF Answered
    <3> QED
      BY <1>1 DEF FlatInv, Answered
  <2>4. OfItsKind'
    BY <1>3, <1>4, <2>1
  <2> QED
    BY <1>4, <2>2, <2>3, <2>4 DEF FlatInv, Results
<1>5. CASE ~UNCHANGED <<stack, left, result>>
  <2>1. /\ EndLoop(t) /\ Leaves(t) /\ AtLoop /\ stack # <<>>
        /\ response' = IF t.kind = "api" THEN [from |-> t.from, id |-> t.id] ELSE response
    BY <1>5 DEF RunTask, EndLoop, Leaves, loopVars
  <2>2. /\ Top.at = "loop" /\ Top.id = made /\ made \in Ids /\ Top.kind \in Kinds
    BY <1>2, <2>1, TopIsFrame DEF AtLoop, FlatInv, OfItsKind
  <2> DEFINE own == t.from = "client" /\ t.id = made
  <2>3. left' = IF own THEN left ELSE left \cup {made}
    BY <2>1, <2>2 DEF Leaves
  <2>4. \A i \in 1..Len(tasks') : \E j \in 1..Len(tasks) : tasks'[i] = tasks[j]
    BY <1>1
  <2>5. /\ Top.kind = "api" => GoesToJoin
        /\ Top.kind = "view" => stack' = Below
    BY <2>1 DEF EndLoop, GoesToJoin
  <2>6. /\ Len(stack) = 1
        /\ Top.kind = "api" => /\ stack' # <<>> /\ Len(stack') = 1
                               /\ Top'.id = Top.id /\ Top'.kind = Top.kind
        /\ Top.kind = "view" => stack' = <<>>
    BY <2>1, <2>5, Alone DEF FlatInv
  <2>7. own => /\ \A a \in asked' : a.id # made
               /\ \A i \in 1..Len(tasks') : tasks'[i].id = made => tasks'[i].from = "timer"
               /\ Top.kind = "view" => Silent(made)'
    BY <2>1, OwnIsLast
  <2>8. Results'
    <3> SUFFICES ASSUME NEW id \in Ids, result'[id] # Nobody, \A before \in left' : before >= id
                 PROVE  result'[id].id = id
      BY DEF Results
    <3>1. \A before \in left : before >= id
      BY <2>3
    <3>2. CASE id # made
      <4>1. result'[id] = result[id]
        BY <2>1, <2>2, <3>2 DEF EndLoop, TypeOK
      <4> QED
        BY <3>1, <4>1 DEF FlatInv, Results
    <3>3. CASE id = made
      <4>1. t.id \in Ids /\ t.id \in Nat /\ t.id <= made /\ made \in Nat
        BY <1>1, TaskTypes DEF Once, Closures
      <4>2. ASSUME t.id < made PROVE FALSE
        <5>1. t.id \notin left
          BY <3>1, <3>3, <4>1, <4>2
        <5>2. Silent(t.id)
          BY <4>1, <4>2, <5>1 DEF FlatInv, Settled
        <5> QED
          BY <1>1, <5>2 DEF Silent
      <4>3. t.id = made
        BY <4>1, <4>2
      <4>4. t.kind = Top.kind
        BY <1>1, <2>1, <4>3 DEF FlatInv, OfItsKind
      <4>5. result'[made] = [from |-> t.from, id |-> t.id]
        BY <2>1, <2>2, <4>4 DEF EndLoop, TypeOK
      <4> QED
        BY <3>3, <4>3, <4>5
    <3> QED
      BY <3>2, <3>3
  <2>9. Settled'
    <3> SUFFICES ASSUME NEW id \in Ids \ left', id < made \/ (id = made /\ stack' = <<>>)
                 PROVE  Silent(id)'
      BY <1>1 DEF Settled
    <3>1. CASE id < made
      BY <1>1, <2>3, <3>1 DEF FlatInv, Settled
    <3>2. CASE id = made /\ stack' = <<>>
      <4>1. Top.kind = "view" /\ own
        BY <2>2, <2>3, <2>6, <3>2 DEF Kinds
      <4> QED
        BY <1>1, <2>7, <3>2, <4>1 DEF Silent
    <3> QED
      BY <3>1, <3>2
  <2>10. Answered'
    BY <1>1, <2>3, <2>7 DEF Answered
  <2>11. OfItsKind'
    <3>1. CASE Top.kind = "api"
      BY <1>3, <2>1, <2>6, <3>1
    <3>2. CASE Top.kind = "view"
      BY <2>6, <3>2 DEF OfItsKind
    <3> QED
      BY <2>2, <3>1, <3>2 DEF Kinds
  <2>12. Len(stack') <= 1
    <3>1. CASE Top.kind = "api"
      <4>1. Len(stack') = 1
        BY <2>6, <3>1
      <4> QED
        BY <4>1
    <3>2. CASE Top.kind = "view"
      <4>1. stack' = <<>>
        BY <2>6, <3>2
      <4> QED
        BY <4>1
    <3> QED
      BY <2>2, <3>1, <3>2 DEF Kinds
  <2> QED
    BY <2>8, <2>9, <2>10, <2>11, <2>12 DEF FlatInv
<1> QED
  BY <1>4, <1>5

LEMMA FlatStep == TypeOK /\ TimerInv /\ Once /\ FlatInv /\ [Next]_vars => FlatInv'
<1> SUFFICES ASSUME TypeOK, TimerInv, Once, FlatInv, [Next]_vars PROVE FlatInv'
  OBVIOUS
<1>6. nesting' = nesting
  BY DEF Next, vars, Request, Fire, ActionReturns, Answer, RunTask, Join, Jump
<1> SUFFICES ASSUME ~nesting PROVE FlatInv'
  BY <1>6 DEF FlatInv
<1>1. ASSUME NEW id \in Ids, ActionReturns(id) PROVE FlatInv'
  <2>1. /\ UNCHANGED <<stack, left, result, made, nesting, asked, tasks>>
        /\ timer[id] = "ran" /\ timer'[id] = "done"
        /\ \A k \in Ids : k # id => timer'[k] = timer[k]
    BY <1>1 DEF ActionReturns, loopVars, TypeOK
  <2>2. Top' = Top
    BY <2>1 DEF Top
  <2>3. stack # <<>> => made \in Ids
    BY TopIsFrame DEF FlatInv, OfItsKind
  <2>4. \A k \in Ids : Silent(k) => Silent(k)'
    BY <2>1 DEF Silent
  <2>5. Settled'
    BY <2>1, <2>4 DEF FlatInv, Settled
  <2>6. timer'[made] # "none" => timer[made] # "none" \/ made \notin Ids
    BY <2>1
  <2>7. OfItsKind'
    BY <2>1, <2>2, <2>3, <2>6 DEF FlatInv, OfItsKind
  <2> QED
    BY <2>1, <2>2, <2>5, <2>7 DEF FlatInv, Answered, Results
<1>2. ASSUME stack # <<>>, stack' = Below, UNCHANGED <<made, nesting, asked, tasks, result>>,
             left \subseteq left', \A id \in Ids : timer'[id] = "waits" => timer[id] = "waits",
             made \in left' \/ Silent(made)'
      PROVE  FlatInv'
  <2>1. stack' = <<>>
    BY <1>2, Alone DEF FlatInv
  <2>2. Len(stack') <= 1
    BY <2>1
  <2>3. \A id \in Ids : Silent(id) => Silent(id)'
    BY <1>2 DEF Silent
  <2>4. Settled'
    <3> SUFFICES ASSUME NEW id \in Ids \ left', id < made \/ id = made PROVE Silent(id)'
      BY <1>2 DEF Settled
    <3>1. CASE id < made
      BY <1>2, <2>3, <3>1 DEF FlatInv, Settled
    <3>2. CASE id = made
      BY <1>2, <3>2
    <3> QED
      BY <3>1, <3>2
  <2>5. Results'
    BY <1>2 DEF FlatInv, Results
  <2> QED
    BY <2>1, <2>2, <2>4, <2>5 DEF FlatInv, Answered, OfItsKind
<1>3. CASE Join
  <2>1. /\ stack # <<>> /\ Top.id = made /\ made \in Ids /\ Top.at = "join"
        /\ timer[made] \notin {"fired", "ran"} /\ timer' = [timer EXCEPT ![made] = "done"]
        /\ UNCHANGED <<made, nesting, asked, tasks, result, left>> /\ stack' = Below
    BY <1>3, TopIsFrame DEF Join, FlatInv, OfItsKind
  <2>2. ASSUME made \notin left PROVE Silent(made)'
    <3>1. \A i \in 1..Len(tasks) : tasks[i].id # made
      BY <2>1, <2>2 DEF FlatInv, Answered, Once
    <3>2. \A a \in asked : a.id # made
      BY <2>1, <2>2 DEF FlatInv, Answered
    <3> QED
      BY <2>1, <3>1, <3>2 DEF Silent, TypeOK
  <2>3. \A id \in Ids : timer'[id] = "waits" => timer[id] = "waits"
    BY <2>1 DEF TypeOK
  <2> QED
    BY <1>2, <2>1, <2>2, <2>3
<1>4. CASE Jump
  <2>1. made \in left'
    BY <1>4 DEF Jump, FlatInv, OfItsKind
  <2> QED
    BY <1>2, <1>4, <2>1 DEF Jump
<1>5. CASE UNCHANGED vars
  BY <1>5 DEF vars, loopVars, FlatInv, Settled, Silent, Answered, OfItsKind, Results, Top
<1> QED
  BY <1>1, <1>3, <1>4, <1>5, FlatRequest, FlatPost, FlatRun DEF Next

\* The answers carry no number, but as long as requests do not nest none is
\* taken for that of another, unless one before was left without waiting for
\* its answer.
THEOREM AnswersFindTheirRequest == Spec => []OwnAnswer
<1>1. Init => TypeOK /\ TimerInv /\ Once /\ FlatInv
  <2> SUFFICES ASSUME Init PROVE TypeOK /\ TimerInv /\ Once /\ FlatInv
    OBVIOUS
  <2>1. TypeOK /\ TimerInv
    BY RequestAssumption DEF Init, TypeOK, Kinds, Timers, Sources, Nobody, TimerInv, Ran
  <2>2. Once
    BY DEF Init, Once
  <2>3. Settled
    BY RequestAssumption DEF Init, Settled, Silent, Ids
  <2>4. Answered /\ OfItsKind /\ Results /\ Len(stack) <= 1
    BY DEF Init, Answered, OfItsKind, Results
  <2> QED
    BY <2>1, <2>2, <2>3, <2>4 DEF FlatInv
<1>2. FlatInv => OwnAnswer
  BY DEF FlatInv, Results, OwnAnswer
<1> QED
  BY <1>1, <1>2, TypeStep, TimerStep, OnceStep, FlatStep, PTL DEF Spec
===========================================================================
