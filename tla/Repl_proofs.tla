---------------------------- MODULE Repl_proofs ----------------------------
(***************************************************************************)
(* For any number of commands, requests, answers and interrupts: when the  *)
(* main thread waits, the client knows what for, and answers are taken by  *)
(* the request they were given to.                                         *)
(*                                                                         *)
(* Three things carry it.  Commands and requests take turns on the stack,  *)
(* and each will put replState back to what is below it (StackShape,       *)
(* StateFits).  Tasks, events and the client refer to requests by their    *)
(* kind and by no number that was not given yet (RefsFit).  And unless a   *)
(* command has run in a loop it was not sent to (0 in cut), it is one      *)
(* side's turn (Turns): the request waited for is on its way to the        *)
(* client, shown, or answered by one task, and by nothing else; or it is a *)
(* debug prompt whose stop was stored while it opened.                     *)
(***************************************************************************)
EXTENDS Repl, SequenceTheorems, TLAPS

\* Leaving the innermost activation of a stack.
LEMMA FrontFacts ==
    ASSUME NEW S, NEW s \in Seq(S), s # <<>>
    PROVE  /\ SubSeq(s, 1, Len(s) - 1) \in Seq(S)
           /\ Len(s) \in Nat \ {0}
           /\ Len(SubSeq(s, 1, Len(s) - 1)) = Len(s) - 1
           /\ s[Len(s)] \in S
           /\ \A i \in 1..Len(s) - 1 : SubSeq(s, 1, Len(s) - 1)[i] = s[i]
<1>1. Len(s) \in Nat \ {0}
  OBVIOUS
<1> DEFINE n == Len(s) - 1
<1>2. n \in 0..Len(s)
  BY <1>1
<1> HIDE DEF n
<1>3. /\ SubSeq(s, 1, n) \in Seq(S)
      /\ Len(SubSeq(s, 1, n)) = n
      /\ \A i \in 1..n : SubSeq(s, 1, n)[i] = s[i]
  BY <1>2
<1> QED
  BY <1>1, <1>2, <1>3 DEF n

IsRequest(frame) == frame.kind \in Requests
Waits == stack = <<>> \/ Top.at \in {"asked", "loop"}

\* Commands and requests take turns; below the top, commands run and requests
\* wait in their loops.
StackShape ==
    /\ stack # <<>> => stack[1].kind = "command"
    /\ \A i \in 1..Len(stack) :
         /\ stack[i].kind = "command" => stack[i].at \in {"ask", "run", "end"}
         /\ IsRequest(stack[i]) => stack[i].at \in {"ask", "asked", "loop", "busy", "done"}
         /\ i < Len(stack) =>
              /\ stack[i].kind = "command" => IsRequest(stack[i + 1]) /\ stack[i].at = "run"
              /\ IsRequest(stack[i]) => stack[i + 1].kind = "command" /\ stack[i].at = "loop"

\* What each ScopedAssign will give back, and what replState is where it counts.
StateFits ==
    /\ \A i \in 1..Len(stack) :
         /\ IsRequest(stack[i]) => stack[i].saved = "REPL_BUSY"
         /\ stack[i].kind = "command" =>
              stack[i].saved = IF i = 1 THEN "PROMPT" ELSE StateOf[stack[i - 1].kind]
    /\ stack = <<>> => replState = "PROMPT"
    /\ stack # <<>> /\ Top.at = "loop" => replState = StateOf[Top.kind]
    /\ TopIs("command", "end") => replState = Top.saved

\* What a task, the client or an event refers to: a request by its kind.
Fits(e) ==
    /\ e.id <= count.requests
    /\ e.type \in Requests =>
         \A i \in 1..Len(stack) : IsRequest(stack[i]) /\ stack[i].id = e.id => stack[i].kind = e.type

Answers == {"execute", "readln", "continue", "stop"}
Meets(t) ==
    /\ t.op = "execute" => t.to.type \in {"prompt", "debug"}
    /\ t.op = "readln" => t.to.type \in {"readline", "subprocess"}
    /\ t.op \in {"continue", "stop"} => t.to.type = "debug"
    /\ t.op = "processEnded" => t.to.type = "subprocess"

TasksFit == \A i \in 1..Len(tasks) : Fits(tasks[i].to) /\ Meets(tasks[i])
StreamFits == \A i \in 1..Len(stream) : Fits(stream[i])
ProcessesFit == \A id \in running \cup ended : Fits(Event("subprocess", id))
FramesFit == \A i \in 1..Len(stack) :
    /\ stack[i].id <= count.requests
    /\ IsRequest(stack[i]) => Fits(Event(stack[i].kind, stack[i].id))
RefsFit == TasksFit /\ StreamFits /\ Fits(seen) /\ ProcessesFit /\ FramesFit

\* It is the client's turn: an event that asks for one command or answer.
Live(e) == e.type \in {"prompt", "debug", "readline"} /\ e.id \notin cut
LiveTask(i) == tasks[i].op \in Answers /\ Live(tasks[i].to)

OneTurn ==
    /\ \A i \in 1..Len(tasks) : LiveTask(i) =>
         /\ Waits /\ tasks[i].to = Current /\ ~Live(seen)
         /\ \A j \in 1..Len(tasks) : LiveTask(j) => i = j
         /\ \A j \in 1..Len(stream) : ~Live(stream[j])
    /\ Live(seen) =>
         /\ Waits /\ seen = Current
         /\ \A j \in 1..Len(stream) : ~Live(stream[j])
    /\ \A i \in 1..Len(stream) : Live(stream[i]) =>
         /\ Waits /\ stream[i] = Current
         /\ \A j \in 1..Len(stream) : Live(stream[j]) => i = j

\* The command or answer the main thread waits for is on its way.
Pending(t) == t.op \in Answers /\ t.to = Current /\ Current.type # "subprocess"

\* The client has stopped the debugger at the prompt that waits.
Stopped == Current.type = "debug" /\ Current.id \in stored

Told ==
    Waits => \/ stream # <<>> /\ stream[Len(stream)] = Current
             \/ stream = <<>> /\ seen = Current
             \/ stream = <<>> /\ \E i \in 1..Len(tasks) : Pending(tasks[i])
             \/ stream = <<>> /\ seen = Answered /\ Stopped

AtPrompts == \A i \in 2..Len(stack) : stack[i].kind = "command" => stack[i - 1].kind = "debug"

Turns == 0 \notin cut => OneTurn /\ Told /\ AtPrompts
IInv == TypeOK /\ StackShape /\ StateFits /\ RefsFit /\ Turns
---------------------------------------------------------------------------
(* What becomes of the stack.                                              *)
Ats == {"ask", "asked", "loop", "busy", "done", "run", "end"}
StackOK == stack \in Seq(Frames) /\ replState \in States /\ StackShape /\ StateFits

LEMMA StackFacts ==
    ASSUME StackOK
    PROVE  /\ Len(stack) \in Nat
           /\ \A i \in 1..Len(stack) : /\ stack[i] \in Frames /\ stack[i].id \in Ids
                                       /\ stack[i].kind = "command" \/ IsRequest(stack[i])
                                       /\ ~(stack[i].kind = "command" /\ IsRequest(stack[i]))
           /\ stack # <<>> => Len(stack) \in 1..Len(stack) /\ Top = stack[Len(stack)]
           /\ stack = <<>> => Len(stack) = 0
<1>1. Len(stack) \in Nat /\ \A i \in 1..Len(stack) : stack[i] \in Frames
  BY DEF StackOK
<1>2. stack # <<>> => Len(stack) \in 1..Len(stack)
  BY DEF StackOK
<1> QED
  BY <1>1, <1>2 DEF Frames, IsRequest, Requests, Top

\* The innermost activation gets on.
LEMMA GoesFacts ==
    ASSUME StackOK, stack # <<>>, NEW a \in Ats, Goes(a)
    PROVE  /\ stack' \in Seq(Frames) /\ Len(stack') = Len(stack) /\ stack' # <<>>
           /\ \A i \in 1..Len(stack) : /\ stack'[i].kind = stack[i].kind
                                       /\ stack'[i].id = stack[i].id
                                       /\ stack'[i].saved = stack[i].saved
                                       /\ i # Len(stack) => stack'[i] = stack[i]
           /\ stack'[Len(stack)].at = a
<1> DEFINE s == stack
           t == [s EXCEPT ![Len(s)].at = a]
<1>1. Len(s) \in Nat \ {0} /\ \A i \in 1..Len(s) : s[i] \in Frames
  BY DEF StackOK
<1>2. \A i \in 1..Len(s) : t[i] = IF i = Len(s) THEN [s[i] EXCEPT !.at = a] ELSE s[i]
  BY <1>1
<1>3. \A i \in 1..Len(s) :
          /\ t[i] \in Frames
          /\ t[i].kind = s[i].kind /\ t[i].id = s[i].id /\ t[i].saved = s[i].saved
          /\ i # Len(s) => t[i] = s[i]
  BY <1>1, <1>2 DEF Frames, Ats
<1>4. t[Len(s)].at = a
  BY <1>1, <1>2 DEF Frames, Ats
<1>5. t \in Seq(Frames) /\ Len(t) = Len(s)
  <2>1. t = [i \in 1..Len(s) |-> t[i]]
    BY DEF StackOK
  <2> HIDE DEF t
  <2> QED
    BY <1>1, <1>3, <2>1
<1>6. stack' = t
  BY DEF Goes
<1> HIDE DEF t
<1> QED
  BY <1>1, <1>3, <1>4, <1>5, <1>6

\* The innermost activation is over.
LEMMA BelowFacts ==
    ASSUME StackOK, stack # <<>>
    PROVE  /\ Below \in Seq(Frames) /\ Len(Below) = Len(stack) - 1
           /\ \A i \in 1..Len(stack) - 1 : Below[i] = stack[i]
           /\ Len(stack) = 1 <=> Below = <<>>
<1>1. /\ Below \in Seq(Frames) /\ Len(Below) = Len(stack) - 1
      /\ \A i \in 1..Len(stack) - 1 : Below[i] = stack[i]
  BY FrontFacts DEF StackOK, Below
<1>2. Len(stack) \in Nat \ {0}
  BY DEF StackOK
<1> QED
  BY <1>1, <1>2

Moves(a) ==
    /\ stack # <<>> /\ Goes(a)
    /\ Top.kind = "command" => a \in {"ask", "run", "end"}
    /\ IsRequest(Top) => a \in {"ask", "asked", "loop", "busy", "done"}
    /\ a = "loop" => replState' = StateOf[Top.kind]
    /\ a = "end" => replState' = Top.saved

LEMMA MovesKeep ==
    ASSUME StackOK, replState' \in States, NEW a \in Ats, Moves(a)
    PROVE  StackOK'
<1>1. /\ stack' \in Seq(Frames) /\ Len(stack') = Len(stack) /\ stack' # <<>>
      /\ \A i \in 1..Len(stack) : /\ stack'[i].kind = stack[i].kind
                                  /\ stack'[i].id = stack[i].id
                                  /\ stack'[i].saved = stack[i].saved
                                  /\ i # Len(stack) => stack'[i] = stack[i]
      /\ stack'[Len(stack)].at = a
  BY GoesFacts DEF Moves
<1>2. StackShape'
  BY <1>1, StackFacts DEF StackOK, StackShape, Moves, IsRequest
<1>3. StateFits'
  BY <1>1, StackFacts DEF StackOK, StateFits, StackShape, Moves, IsRequest, Top, TopIs
<1> QED
  BY <1>1, <1>2, <1>3 DEF StackOK

Leaves ==
    /\ stack # <<>> /\ stack' = Below
    /\ Len(stack) = 1 => replState' = "PROMPT"
    /\ Len(stack) > 1 /\ stack[Len(stack) - 1].at = "loop" =>
         replState' = StateOf[stack[Len(stack) - 1].kind]

LEMMA LeavesKeep ==
    ASSUME StackOK, replState' \in States, Leaves
    PROVE  StackOK'
<1>1. /\ stack' \in Seq(Frames) /\ Len(stack') = Len(stack) - 1
      /\ \A i \in 1..Len(stack) - 1 : stack'[i] = stack[i]
      /\ Len(stack) = 1 <=> stack' = <<>>
      /\ Len(stack) \in Nat \ {0}
  BY BelowFacts DEF Leaves, StackOK
<1>2. StackShape'
  BY <1>1 DEF StackOK, StackShape, IsRequest
<1>3. StateFits'
  <2>1. stack' # <<>> => Len(stack') \in 1..Len(stack) - 1 /\ Top' = stack[Len(stack) - 1]
    BY <1>1 DEF Top
  <2>2. stack' # <<>> /\ Top'.at = "loop" => replState' = StateOf[Top'.kind]
    BY <1>1, <2>1 DEF Leaves
  <2>3. ~TopIs("command", "end")'
    BY <1>1, <2>1, StackFacts DEF TopIs, StackOK, StackShape
  <2>4. stack' = <<>> => replState' = "PROMPT"
    BY <1>1 DEF Leaves
  <2>5. \A i \in 1..Len(stack') :
          /\ i \in 1..Len(stack) /\ stack'[i] = stack[i]
          /\ i # 1 => stack'[i - 1] = stack[i - 1]
    BY <1>1
  <2>6. \A i \in 1..Len(stack') :
          /\ IsRequest(stack'[i]) => stack'[i].saved = "REPL_BUSY"
          /\ stack'[i].kind = "command" =>
               stack'[i].saved = IF i = 1 THEN "PROMPT" ELSE StateOf[stack'[i - 1].kind]
    BY <2>5 DEF StackOK, StateFits, IsRequest
  <2> QED
    BY <2>2, <2>3, <2>4, <2>6 DEF StateFits, IsRequest
<1> QED
  BY <1>1, <1>2, <1>3 DEF StackOK

\* A new activation.
Enters(f) ==
    /\ f \in Frames /\ f.at = "ask"
    /\ stack' = Append(stack, f)
    /\ f.kind = "command" => AtLoop /\ f.saved = replState /\ f.id = 0
    /\ IsRequest(f) => Running /\ f.saved = "REPL_BUSY" /\ f.id = count.requests + 1
                     /\ count'.requests = f.id

LEMMA EntersKeep ==
    ASSUME StackOK, replState' \in States, NEW f, Enters(f)
    PROVE  StackOK'
<1>1. /\ stack' \in Seq(Frames) /\ Len(stack') = Len(stack) + 1 /\ Len(stack) \in Nat
      /\ stack'[Len(stack) + 1] = f
      /\ \A i \in 1..Len(stack) : stack'[i] = stack[i]
  BY AppendProperties DEF Enters, StackOK
<1>2. \A i \in 1..Len(stack') : i \in 1..Len(stack) \/ i = Len(stack) + 1
  BY <1>1
<1>3. stack # <<>> => /\ f.kind = "command" => IsRequest(Top) /\ Top.at = "loop"
                      /\ IsRequest(f) => Top.kind = "command" /\ Top.at = "run"
  BY StackFacts DEF StackOK, StackShape, Enters, AtLoop, Running, TopIs
<1>4. stack = <<>> => f.kind = "command"
  BY DEF Enters, Running, TopIs, Frames, IsRequest
<1>5. ~(f.kind = "command" /\ IsRequest(f)) /\ (f.kind = "command" \/ IsRequest(f))
  BY DEF IsRequest, Requests, Enters, Frames
<1>6. StackShape'
  <2>1. stack'[1].kind = "command"
    BY <1>1, <1>4, StackFacts DEF StackOK, StackShape
  <2>2. ASSUME NEW i \in 1..Len(stack')
        PROVE  /\ stack'[i].kind = "command" => stack'[i].at \in {"ask", "run", "end"}
               /\ IsRequest(stack'[i]) =>
                    stack'[i].at \in {"ask", "asked", "loop", "busy", "done"}
    BY <1>1, <1>2 DEF StackOK, StackShape, Enters, IsRequest
  <2>3. ASSUME NEW i \in 1..Len(stack'), i < Len(stack')
        PROVE  /\ stack'[i].kind = "command" =>
                    IsRequest(stack'[i + 1]) /\ stack'[i].at = "run"
               /\ IsRequest(stack'[i]) =>
                    stack'[i + 1].kind = "command" /\ stack'[i].at = "loop"
    <3>1. i \in 1..Len(stack) /\ stack'[i] = stack[i]
      BY <1>1, <2>3
    <3>2. CASE i = Len(stack)
      <4>1. stack # <<>> /\ stack[i] = Top /\ stack'[i + 1] = f
        BY <1>1, <3>1, <3>2, StackFacts
      <4> QED
        BY <1>3, <1>5, <3>1, <4>1, StackFacts
    <3>3. CASE i # Len(stack)
      <4>1. i < Len(stack) /\ i + 1 \in 1..Len(stack) /\ stack'[i + 1] = stack[i + 1]
        BY <1>1, <3>1, <3>3
      <4> QED
        BY <3>1, <4>1 DEF StackOK, StackShape, IsRequest
    <3> QED
      BY <3>2, <3>3
  <2> QED
    BY <2>1, <2>2, <2>3 DEF StackShape, IsRequest
<1>7. stack' # <<>> /\ Top' = f
  BY <1>1 DEF Top
<1>8. f.kind = "command" =>
        f.saved = IF stack = <<>> THEN "PROMPT" ELSE StateOf[Top.kind]
  BY StackFacts DEF Enters, AtLoop, StackOK, StateFits
<1>9. StateFits'
  <2>1. \A i \in 1..Len(stack) :
          /\ IsRequest(stack'[i]) => stack'[i].saved = "REPL_BUSY"
          /\ stack'[i].kind = "command" =>
               stack'[i].saved = IF i = 1 THEN "PROMPT" ELSE StateOf[stack'[i - 1].kind]
    <3>1. \A i \in 1..Len(stack) : i # 1 => i - 1 \in 1..Len(stack)
      BY <1>1
    <3> QED
      BY <1>1, <3>1 DEF StackOK, StateFits, IsRequest
  <2>2. /\ IsRequest(f) => f.saved = "REPL_BUSY"
        /\ f.kind = "command" =>
             f.saved = IF Len(stack) = 0 THEN "PROMPT" ELSE StateOf[stack'[Len(stack)].kind]
    BY <1>1, <1>8, StackFacts DEF Enters
  <2>3. \A i \in 1..Len(stack') :
          /\ IsRequest(stack'[i]) => stack'[i].saved = "REPL_BUSY"
          /\ stack'[i].kind = "command" =>
               stack'[i].saved = IF i = 1 THEN "PROMPT" ELSE StateOf[stack'[i - 1].kind]
    BY <1>1, <1>2, <2>1, <2>2
  <2> QED
    BY <1>7, <2>3 DEF StateFits, Enters, TopIs, IsRequest
<1> QED
  BY <1>1, <1>6, <1>9 DEF StackOK

\* R's jump out of a loop to the command below.
Jumps ==
    /\ stack # <<>> /\ IsRequest(Top)
    /\ stack' = [Below EXCEPT ![Len(stack) - 1].at = "end"]
    /\ replState' = Below[Len(stack) - 1].saved

LEMMA JumpsFacts ==
    ASSUME StackOK, Jumps
    PROVE  /\ Len(stack) > 1 /\ stack' \in Seq(Frames) /\ Len(stack') = Len(stack) - 1
           /\ \A i \in 1..Len(stack) - 1 : /\ stack'[i].kind = stack[i].kind
                                           /\ stack'[i].id = stack[i].id
                                           /\ stack'[i].saved = stack[i].saved
                                           /\ i # Len(stack) - 1 => stack'[i] = stack[i]
           /\ stack[Len(stack) - 1].kind = "command"
           /\ stack'[Len(stack) - 1].at = "end"
           /\ replState' = stack[Len(stack) - 1].saved /\ replState' \in States
<1> DEFINE n == Len(stack) - 1
           b == Below
           t == [b EXCEPT ![n].at = "end"]
<1>1. Len(stack) \in 1..Len(stack) /\ Len(stack) \in Nat \ {0} /\ Len(stack) # 1
  BY StackFacts DEF StackOK, StackShape, Jumps, IsRequest, Requests
<1>2. n \in 1..n /\ n \in Nat /\ n + 1 = Len(stack) /\ n \in 1..Len(stack) /\ n < Len(stack)
  <2>1. \A l \in Nat \ {0} : l # 1 => /\ l - 1 \in Nat /\ l - 1 \in 1..(l - 1)
                                     /\ (l - 1) + 1 = l /\ l - 1 \in 1..l /\ l - 1 < l
    OBVIOUS
  <2> QED
    BY <1>1, <2>1
<1>3. stack[n].kind = "command"
  BY <1>1, <1>2, StackFacts DEF StackOK, StackShape, Jumps
<1>4. b \in Seq(Frames) /\ Len(b) = n /\ \A i \in 1..n : b[i] = stack[i] /\ b[i] \in Frames
  <2>1. b \in Seq(Frames) /\ Len(b) = n /\ \A i \in 1..n : b[i] = stack[i]
    BY BelowFacts DEF Jumps
  <2> QED
    BY <2>1
<1> HIDE DEF b
<1>5. \A i \in 1..n : t[i] = IF i = n THEN [b[i] EXCEPT !.at = "end"] ELSE b[i]
  BY <1>2, <1>4
<1>6. \A i \in 1..n :
          /\ t[i] \in Frames
          /\ t[i].kind = b[i].kind /\ t[i].id = b[i].id /\ t[i].saved = b[i].saved
          /\ i # n => t[i] = b[i]
  BY <1>2, <1>4, <1>5 DEF Frames
<1>7. t[n].at = "end"
  BY <1>2, <1>4, <1>5 DEF Frames
<1>8. t \in Seq(Frames) /\ Len(t) = n
  <2>1. t = [i \in 1..n |-> t[i]]
    BY <1>4
  <2> HIDE DEF t
  <2> QED
    BY <1>2, <1>6, <2>1
<1>9. stack' = t /\ replState' = b[n].saved
  BY DEF Jumps, b
<1> HIDE DEF t
<1>10. b[n].saved \in States
  BY <1>2, <1>4 DEF Frames
<1>11. Len(stack) > 1
  BY <1>1
<1> QED
  BY <1>1, <1>2, <1>3, <1>4, <1>6, <1>7, <1>8, <1>9, <1>10, <1>11

LEMMA JumpsKeep ==
    ASSUME StackOK, Jumps
    PROVE  StackOK'
<1>1. /\ Len(stack) > 1 /\ stack' \in Seq(Frames) /\ Len(stack') = Len(stack) - 1
      /\ \A i \in 1..Len(stack) - 1 : /\ stack'[i].kind = stack[i].kind
                                      /\ stack'[i].id = stack[i].id
                                      /\ stack'[i].saved = stack[i].saved
                                      /\ i # Len(stack) - 1 => stack'[i] = stack[i]
      /\ stack[Len(stack) - 1].kind = "command"
      /\ stack'[Len(stack) - 1].at = "end"
      /\ replState' = stack[Len(stack) - 1].saved /\ replState' \in States
  BY JumpsFacts
<1>2. Len(stack) \in Nat /\ stack' # <<>> /\ Top' = stack'[Len(stack) - 1]
  BY <1>1, StackFacts DEF Top
<1>3. StackShape'
  <2>1. \A i \in 1..Len(stack') : /\ i \in 1..Len(stack) /\ i < Len(stack)
                                 /\ i < Len(stack') => i + 1 \in 1..Len(stack')
                                                      /\ i # Len(stack) - 1
    BY <1>1, <1>2
  <2>2. ASSUME NEW i \in 1..Len(stack')
        PROVE  /\ stack'[i].kind = "command" => stack'[i].at \in {"ask", "run", "end"}
               /\ IsRequest(stack'[i]) =>
                    stack'[i].at \in {"ask", "asked", "loop", "busy", "done"}
    BY <1>1, <2>1 DEF StackOK, StackShape, IsRequest, Requests
  <2>3. ASSUME NEW i \in 1..Len(stack'), i < Len(stack')
        PROVE  /\ stack'[i].kind = "command" =>
                    IsRequest(stack'[i + 1]) /\ stack'[i].at = "run"
               /\ IsRequest(stack'[i]) =>
                    stack'[i + 1].kind = "command" /\ stack'[i].at = "loop"
    BY <1>1, <2>1, <2>3 DEF StackOK, StackShape, IsRequest
  <2>4. stack'[1].kind = "command"
    BY <1>1, <1>2, StackFacts DEF StackOK, StackShape
  <2> QED
    BY <2>2, <2>3, <2>4 DEF StackShape, IsRequest
<1>4. \A i \in 1..Len(stack') : i \in 1..Len(stack) /\ (i # 1 => i - 1 \in 1..Len(stack) - 1)
  BY <1>1, <1>2
<1>5. \A i \in 1..Len(stack') :
        /\ IsRequest(stack'[i]) => stack'[i].saved = "REPL_BUSY"
        /\ stack'[i].kind = "command" =>
             stack'[i].saved = IF i = 1 THEN "PROMPT" ELSE StateOf[stack'[i - 1].kind]
  BY <1>1, <1>4 DEF StackOK, StateFits, IsRequest
<1>6. Top'.at = "end" /\ replState' = Top'.saved
  BY <1>1, <1>2
<1> QED
  BY <1>1, <1>2, <1>3, <1>5, <1>6 DEF StackOK, StateFits, IsRequest, TopIs
---------------------------------------------------------------------------
(* The types, the stack and replState.                                     *)
StackSteps ==
    \/ UNCHANGED <<stack, replState>>
    \/ replState' \in States /\ \E a \in Ats : Moves(a)
    \/ replState' \in States /\ Leaves
    \/ replState' \in States /\ \E f \in Frames : Enters(f)
    \/ Jumps

LEMMA StackKept == ASSUME StackOK, StackSteps PROVE StackOK'
<1>1. CASE UNCHANGED <<stack, replState>>
  BY <1>1 DEF StackOK, StackShape, StateFits, Top, TopIs
<1> QED
  BY <1>1, MovesKeep, LeavesKeep, EntersKeep, JumpsKeep DEF StackSteps

\* At its loop the main thread is what replState says it is.
LEMMA LoopFacts ==
    ASSUME StackOK
    PROVE  /\ stack # <<>> /\ Top.at = "loop" => IsRequest(Top) /\ replState = StateOf[Top.kind]
           /\ TopIs("command", "end") => replState = Top.saved
           /\ stack = <<>> => replState = "PROMPT"
  BY StackFacts DEF StackOK, StackShape, StateFits, IsRequest, Requests

LEMMA StepsOfStack == ASSUME TypeOK, StackOK, [Next]_vars PROVE StackSteps
<1> USE DEF main, vars, processes, client
<1>1. CASE RunTask
  <2> DEFINE t == Head(tasks)
  <2>1. \/ Execute(t) \/ Answer(t) \/ Input(t) \/ InterruptLine(t)
        \/ InterruptProcess(t) \/ ProcessEnded(t) \/ Ignore(t)
    BY <1>1 DEF RunTask
  <2> HIDE DEF t
  <2>2. CASE Execute(t)
    <3> DEFINE f == [kind |-> "command", saved |-> replState, id |-> 0, at |-> "ask"]
    <3>1. f \in Frames /\ Enters(f) /\ replState' \in States
      BY <1>1, <2>2, ReplAssumption
         DEF Execute, Enters, Frames, StackOK, States, Ids, IsRequest, Requests, RunTask
    <3> QED
      BY <3>1 DEF StackSteps
  <2>3. ASSUME Goes("busy"), replState \in {"READ_LINE", "DEBUG_PROMPT"}, UNCHANGED replState
        PROVE  StackSteps
    <3>1. stack # <<>> /\ Top.at = "loop" /\ IsRequest(Top)
      BY <1>1, <2>3, LoopFacts DEF RunTask, AtLoop
    <3>2. Moves("busy")
      BY <2>3, <3>1, StackFacts DEF Moves
    <3> QED
      BY <2>3, <3>2 DEF StackSteps, Ats, StackOK
  <2>4. CASE Answer(t)
    BY <2>3, <2>4 DEF Answer
  <2>5. CASE InterruptLine(t)
    BY <2>3, <2>5 DEF InterruptLine
  <2>6. CASE ProcessEnded(t)
    <3>1. CASE stack = <<>>
      BY <2>6, <3>1 DEF ProcessEnded, StackSteps
    <3>2. CASE stack # <<>>
      <4>1. Moves("busy") /\ UNCHANGED replState
        BY <1>1, <2>6, <3>2, LoopFacts, StackFacts DEF ProcessEnded, RunTask, AtLoop, Moves
      <4> QED
        BY <4>1 DEF StackSteps, Ats, StackOK
    <3> QED
      BY <3>1, <3>2
  <2>7. CASE Input(t) \/ InterruptProcess(t) \/ Ignore(t)
    BY <2>7 DEF Input, InterruptProcess, Ignore, StackSteps
  <2> QED
    BY <2>1, <2>2, <2>4, <2>5, <2>6, <2>7
<1>2. CASE LoopInterrupted
  <2>1. CASE stack = <<>>
    BY <1>2, <2>1 DEF LoopInterrupted, StackSteps
  <2>2. CASE stack # <<>>
    <3>1. IsRequest(Top) /\ Top.at = "loop"
      BY <1>2, <2>2, LoopFacts DEF LoopInterrupted, AtLoop
    <3>2. CASE /\ stack' = [Below EXCEPT ![Len(stack) - 1].at = "end"]
               /\ replState' = Below[Len(stack) - 1].saved
      BY <2>2, <3>1, <3>2 DEF Jumps, StackSteps
    <3>3. CASE stack' = Below /\ UNCHANGED replState
      <4>1. Len(stack) # 1
        BY <2>2, <3>1, StackFacts DEF StackOK, StackShape, IsRequest, Requests
      <4>2. Len(stack) > 1 => Len(stack) - 1 \in 1..Len(stack) /\ Len(stack) - 1 < Len(stack)
                              /\ (Len(stack) - 1) + 1 = Len(stack)
        BY StackFacts
      <4>3. Len(stack) > 1 => stack[Len(stack) - 1].kind = "command"
                              /\ stack[Len(stack) - 1].at = "run"
        BY <2>2, <3>1, <4>2, StackFacts DEF StackOK, StackShape
      <4>4. Leaves
        BY <2>2, <3>3, <4>1, <4>3 DEF Leaves
      <4> QED
        BY <3>3, <4>4 DEF StackSteps, StackOK
    <3> QED
      BY <1>2, <2>2, <3>2, <3>3 DEF LoopInterrupted
  <2> QED
    BY <2>1, <2>2
<1>3. ASSUME NEW kind \in Requests, Ask(kind) PROVE StackSteps
  <2> DEFINE f == [kind |-> kind, saved |-> replState, id |-> count.requests + 1, at |-> "ask"]
  <2>1. f \in Frames
    BY <1>3, ReplAssumption DEF Ask, Frames, StackOK, Ids, TypeOK
  <2>2. Enters(f) /\ replState' \in States
    BY <1>3, <2>1 DEF Ask, Enters, StackOK, Requests, IsRequest, TypeOK
  <2> QED
    BY <2>1, <2>2 DEF StackSteps
<1>4. CASE Announce
  <2>1. Moves("run") \/ Moves("asked")
    BY <1>4, StackFacts DEF Announce, Moves, IsRequest, Requests
  <2> QED
    BY <1>4, <2>1 DEF Announce, StackSteps, Ats, StackOK
<1>5. CASE OpenLoop
  <2>1. Moves("loop") /\ replState' \in States
    BY <1>5, StackFacts DEF OpenLoop, Moves, StackOK, StackShape, StateOf, States, IsRequest, Requests
  <2> QED
    BY <2>1 DEF StackSteps, Ats
<1>6. CASE AnnounceBusy
  <2>1. Moves("done")
    BY <1>6, StackFacts DEF AnnounceBusy, Moves, StackOK, StackShape
  <2> QED
    BY <1>6, <2>1 DEF AnnounceBusy, StackSteps, Ats, StackOK
<1>7. CASE Leave
  <2>1. IsRequest(Top) /\ stack # <<>> /\ Top.saved = "REPL_BUSY"
    BY <1>7, StackFacts DEF Leave, StackOK, StackShape, StateFits
  <2>2. Len(stack) # 1
    BY <2>1, StackFacts DEF StackOK, StackShape, IsRequest, Requests
  <2>3. Len(stack) > 1 => Len(stack) - 1 \in 1..Len(stack) /\ Len(stack) - 1 < Len(stack)
                          /\ (Len(stack) - 1) + 1 = Len(stack)
    BY StackFacts
  <2>4. Len(stack) > 1 => stack[Len(stack) - 1].kind = "command"
                          /\ stack[Len(stack) - 1].at = "run"
    BY <2>1, <2>3, StackFacts DEF StackOK, StackShape
  <2>5. Leaves /\ replState' \in States
    BY <1>7, <2>1, <2>2, <2>4 DEF Leave, Leaves, States
  <2> QED
    BY <2>5 DEF StackSteps
<1>8. ASSUME Running, Goes("end"), replState' = Top.saved PROVE StackSteps
  <2>1. Moves("end") /\ replState' \in States
    BY <1>8, StackFacts DEF Running, TopIs, Moves, Frames
  <2> QED
    BY <2>1 DEF StackSteps, Ats
<1>9. CASE Interrupted
  BY <1>8, <1>9 DEF Interrupted, StackSteps
<1>10. CASE Finish
  BY <1>8, <1>10 DEF Finish
<1>11. CASE Prompt
  <2>1. stack # <<>> /\ Top.kind = "command" /\ replState = Top.saved
    BY <1>11, LoopFacts DEF Prompt, TopIs
  <2>2. replState = IF Len(stack) = 1 THEN "PROMPT" ELSE StateOf[stack[Len(stack) - 1].kind]
    BY <2>1, StackFacts DEF StackOK, StateFits
  <2>3. Leaves
    BY <1>11, <2>1, <2>2, StackFacts DEF Prompt, Leaves
  <2> QED
    BY <1>11, <2>3 DEF Prompt, StackSteps, StackOK
<1>12. CASE UNCHANGED <<stack, replState>>
  BY <1>12 DEF StackSteps
<1> QED
  BY <1>1, <1>2, <1>3, <1>4, <1>5, <1>6, <1>7, <1>9, <1>10, <1>11, <1>12
     DEF Next, MainStep, ProcessStep, HandlersDone, ProcessExits, SubprocessHandlerStop,
         Read, SendCommand, SendAnswer, StopIsStored, SendInput, InterruptReads, InterruptActs

\* The prompt after a command: of the debugger only if its loop is below.
LEMMA PromptFacts ==
    ASSUME StackOK, Prompt
    PROVE  \/ /\ Len(stack) > 1 /\ Len(Below) \in 1..Len(Below) /\ Len(Below) = Len(stack) - 1
              /\ Below[Len(Below)] = stack[Len(stack) - 1] /\ Len(stack) - 1 \in 1..Len(stack)
              /\ IsRequest(stack[Len(stack) - 1]) /\ stack[Len(stack) - 1].at = "loop"
              /\ replState = StateOf[stack[Len(stack) - 1].kind]
           \/ Len(stack) = 1 /\ Below = <<>> /\ replState = "PROMPT"
<1>1. stack # <<>> /\ Top.kind = "command" /\ replState = Top.saved
  BY LoopFacts DEF Prompt, TopIs
<1>2. Len(stack) \in 1..Len(stack) /\ Len(stack) \in Nat /\ Top = stack[Len(stack)]
  BY <1>1, StackFacts
<1>3. /\ Below \in Seq(Frames) /\ Len(Below) = Len(stack) - 1
      /\ \A i \in 1..Len(stack) - 1 : Below[i] = stack[i]
      /\ Len(stack) = 1 <=> Below = <<>>
  BY <1>1, BelowFacts
<1>4. replState = IF Len(stack) = 1 THEN "PROMPT" ELSE StateOf[stack[Len(stack) - 1].kind]
  BY <1>1, <1>2 DEF StackOK, StateFits
<1>5. CASE Len(stack) = 1
  BY <1>3, <1>4, <1>5
<1>6. CASE Len(stack) # 1
  <2> DEFINE n == Len(stack) - 1
  <2>1. /\ n \in 1..n /\ n \in 1..Len(stack) /\ n < Len(stack) /\ n + 1 = Len(stack)
        /\ Len(stack) > 1
    <3>1. \A l \in Nat : l \in 1..l /\ l # 1 => /\ l - 1 \in 1..(l - 1) /\ l - 1 \in 1..l
                                     /\ l - 1 < l /\ (l - 1) + 1 = l /\ l > 1
      OBVIOUS
    <3> QED
      BY <1>2, <1>6, <3>1
  <2>2. IsRequest(stack[n]) /\ stack[n].at = "loop"
    BY <1>1, <1>2, <2>1, StackFacts DEF StackOK, StackShape
  <2> QED
    BY <1>3, <1>4, <1>6, <2>1, <2>2
<1> QED
  BY <1>5, <1>6

\* What is posted and what is pushed.
LEMMA PostFacts ==
    ASSUME TypeOK, NEW op, NEW to \in Events, [op |-> op, to |-> to] \in Tasks, Post(op, to)
    PROVE  /\ tasks' \in Seq(Tasks) /\ Len(tasks) \in Nat /\ Len(tasks') = Len(tasks) + 1
           /\ \A i \in 1..Len(tasks) : tasks'[i] = tasks[i]
           /\ tasks'[Len(tasks) + 1] = [op |-> op, to |-> to]
  BY AppendProperties DEF TypeOK, Post

LEMMA PushFacts ==
    ASSUME TypeOK, NEW e \in Events, Push(e)
    PROVE  /\ stream' \in Seq(Events) /\ Len(stream) \in Nat /\ Len(stream') = Len(stream) + 1
           /\ Len(stream') <= StreamLimit
           /\ \A i \in 1..Len(stream) : stream'[i] = stream[i]
           /\ stream'[Len(stream) + 1] = e
<1>1. stream \in Seq(Events) /\ Len(stream) < StreamLimit /\ stream' = Append(stream, e)
  BY DEF TypeOK, Push
<1>2. /\ stream' \in Seq(Events) /\ Len(stream) \in Nat /\ Len(stream') = Len(stream) + 1
      /\ \A i \in 1..Len(stream) : stream'[i] = stream[i]
      /\ stream'[Len(stream) + 1] = e
  BY <1>1, AppendProperties
<1> QED
  BY <1>1, <1>2, ReplAssumption

LEMMA TopFacts ==
    ASSUME StackOK, stack # <<>>
    PROVE  Top \in Frames /\ Top.id \in Ids /\ Top.kind \in {"command"} \cup Requests
  BY StackFacts DEF Frames

LEMMA TypesKept == ASSUME TypeOK, StackOK, [Next]_vars PROVE TypeOK'
<1> USE DEF main, vars, processes, client
<1>1. stack' \in Seq(Frames) /\ replState' \in States
  BY StepsOfStack, StackKept DEF StackOK
<1>2. Answered \in Events
  BY ReplAssumption DEF Answered, Event, Events, Ids
<1>3. CASE RunTask
  <2> DEFINE t == Head(tasks)
  <2>1. tasks' \in Seq(Tasks) /\ t \in Tasks
    BY <1>3, HeadTailProperties DEF RunTask, TypeOK
  <2>2. \/ Execute(t) \/ Answer(t) \/ Input(t) \/ InterruptLine(t)
        \/ InterruptProcess(t) \/ ProcessEnded(t) \/ Ignore(t)
    BY <1>3 DEF RunTask
  <2> HIDE DEF t
  <2>3. replState \in {"READ_LINE", "DEBUG_PROMPT", "SUBPROCESS_INPUT"} => stack # <<>>
    BY LoopFacts
  <2>4. cut' \subseteq Ids /\ interrupt' \in BOOLEAN /\ active' \in BOOLEAN
        /\ running' \subseteq Ids /\ ended' \subseteq Ids
    <3>0. /\ cut \subseteq Ids /\ interrupt \in BOOLEAN /\ active \in BOOLEAN
          /\ running \subseteq Ids /\ ended \subseteq Ids
      BY DEF TypeOK
    <3>1. stack # <<>> => Top.id \in Ids
      BY TopFacts
    <3>2. 0 \in Ids
      BY ReplAssumption DEF Ids
    <3>3. CASE Execute(t)
      BY <3>0, <3>2, <3>3 DEF Execute
    <3>4. CASE Answer(t)
      BY <3>0, <2>3, <3>1, <3>4 DEF Answer
    <3>5. CASE Input(t)
      BY <3>0, <3>5 DEF Input
    <3>6. CASE InterruptLine(t)
      BY <3>0, <2>3, <3>1, <3>6 DEF InterruptLine
    <3>7. CASE InterruptProcess(t)
      BY <3>0, <3>7 DEF InterruptProcess
    <3>8. CASE ProcessEnded(t)
      BY <3>0, <3>1, <3>8 DEF ProcessEnded
    <3>9. CASE Ignore(t)
      BY <3>0, <3>9 DEF Ignore
    <3> QED
      BY <2>2, <3>3, <3>4, <3>5, <3>6, <3>7, <3>8, <3>9
  <2>5. UNCHANGED <<stream, reading, seen, count, stored>>
    BY <1>3 DEF RunTask
  <2> QED
    BY <1>1, <2>1, <2>4, <2>5 DEF TypeOK
<1>4. CASE LoopInterrupted
  BY <1>1, <1>4, TopFacts DEF LoopInterrupted, TypeOK
<1>5. ASSUME NEW kind \in Requests, Ask(kind) PROVE TypeOK'
  <2>1. count.requests + 1 \in Ids
    BY <1>5, ReplAssumption DEF Ask, TypeOK, Ids
  <2> QED
    BY <1>1, <1>5, <2>1 DEF Ask, TypeOK
<1>6. CASE Announce
  <2>1. Top \in Frames /\ (Top.kind # "command" => Event(Top.kind, Top.id) \in Events)
    BY <1>6, TopFacts DEF Announce, Event, Events
  <2>2. stream' \in Seq(Events) /\ Len(stream') <= StreamLimit
    BY <1>2, <1>6, <2>1, PushFacts DEF Announce
  <2> QED
    BY <1>1, <1>6, <2>2 DEF Announce, TypeOK
<1>7. CASE OpenLoop
  BY <1>1, <1>7 DEF OpenLoop, TypeOK
<1>8. CASE AnnounceBusy
  <2>1. stream' \in Seq(Events) /\ Len(stream') <= StreamLimit
    BY <1>2, <1>8, PushFacts DEF AnnounceBusy
  <2> QED
    BY <1>1, <1>8, <2>1 DEF AnnounceBusy, TypeOK
<1>9. CASE Leave \/ Interrupted \/ Finish
  BY <1>1, <1>9 DEF Leave, Interrupted, Finish, TypeOK
<1>10. CASE Prompt
  <2>1. Event("prompt", 0) \in Events
    BY ReplAssumption DEF Event, Events, Ids
  <2>2. replState = "DEBUG_PROMPT" => Event("debug", Below[Len(Below)].id) \in Events
    <3>1. replState = "DEBUG_PROMPT" => Below[Len(Below)].id \in Ids
      BY <1>10, PromptFacts, StackFacts
    <3> QED
      BY <3>1 DEF Event, Events, Requests
  <2>3. stream' \in Seq(Events) /\ Len(stream') <= StreamLimit
    BY <1>10, <2>1, <2>2, PushFacts DEF Prompt
  <2> QED
    BY <1>1, <1>10, <2>3 DEF Prompt, TypeOK
<1>11. CASE Read
  <2>1. seen' \in Events /\ stream' \in Seq(Events) /\ Len(stream') <= StreamLimit
    <3>1. /\ stream \in Seq(Events) /\ stream # <<>> /\ seen' = Head(stream)
          /\ stream' = Tail(stream) /\ Len(stream) <= StreamLimit
      BY <1>11 DEF Read, TypeOK
    <3>2. Tail(stream) \in Seq(Events) /\ Head(stream) \in Events /\ Len(stream) \in Nat \ {0}
          /\ Len(Tail(stream)) = Len(stream) - 1
      BY <3>1, HeadTailProperties
    <3>3. Len(stream) - 1 <= StreamLimit
      <4>1. \A l, m \in Nat : l <= m => l - 1 <= m
        OBVIOUS
      <4> QED
        BY <3>1, <3>2, <4>1, ReplAssumption
    <3> QED
      BY <3>1, <3>2, <3>3
  <2> QED
    BY <1>1, <1>11, <2>1 DEF Read, TypeOK
<1>12. CASE SendCommand
  <2>1. [op |-> "execute", to |-> seen] \in Tasks
    BY DEF Tasks, TypeOK
  <2>2. tasks' \in Seq(Tasks)
    BY <1>12, <2>1, PostFacts DEF SendCommand, TypeOK
  <2>3. count.commands + 1 \in 0..MaxCommands
    BY <1>12, ReplAssumption DEF SendCommand, TypeOK
  <2>4. /\ count' = [count EXCEPT !.commands = @ + 1] /\ seen' = Answered
        /\ UNCHANGED <<main, processes, stream, reading, stored>>
    BY <1>12 DEF SendCommand
  <2> QED
    BY <1>1, <1>2, <2>2, <2>3, <2>4 DEF TypeOK
<1>13. CASE SendAnswer
  <2>1. \A op \in {"readln", "continue", "stop"} : [op |-> op, to |-> seen] \in Tasks
    BY DEF Tasks, TypeOK
  <2>2. tasks' \in Seq(Tasks)
    BY <1>13, <2>1, PostFacts DEF SendAnswer, TypeOK
  <2> QED
    BY <1>1, <1>2, <1>13, <2>2 DEF SendAnswer, TypeOK
<1>21. CASE StopIsStored
  BY <1>1, <1>2, <1>21 DEF StopIsStored, TypeOK, Events
<1>14. CASE SendInput
  <2>1. \A op \in {"readln", "eof"} : [op |-> op, to |-> seen] \in Tasks
    BY DEF Tasks, TypeOK
  <2>2. tasks' \in Seq(Tasks)
    BY <1>14, <2>1, PostFacts DEF SendInput, TypeOK
  <2>3. count.texts + 1 \in 0..MaxTexts
    BY <1>14, ReplAssumption DEF SendInput, TypeOK
  <2>4. /\ count' = [count EXCEPT !.texts = @ + 1]
        /\ UNCHANGED <<main, processes, stream, reading, seen, stored>>
    BY <1>14 DEF SendInput
  <2> QED
    BY <1>1, <2>2, <2>3, <2>4 DEF TypeOK
<1>15. CASE InterruptReads
  BY <1>1, <1>15, ReplAssumption DEF InterruptReads, TypeOK
<1>16. CASE InterruptActs
  <2>1. \A op \in {"nothing", "interruptLine", "interruptProcess"} :
           [op |-> op, to |-> Answered] \in Tasks
    BY <1>2 DEF Tasks
  <2>2. tasks' \in Seq(Tasks)
    BY <1>2, <1>16, <2>1, PostFacts DEF InterruptActs, TypeOK
  <2> QED
    BY <1>1, <1>16, <2>2 DEF InterruptActs, TypeOK
<1>17. ASSUME NEW id \in Ids, SubprocessHandlerStop(id) PROVE TypeOK'
  <2>1. Event("subprocess", id) \in Events
    BY DEF Event, Events, Requests
  <2>2. [op |-> "processEnded", to |-> Event("subprocess", id)] \in Tasks
    BY <2>1 DEF Tasks
  <2>3. tasks' \in Seq(Tasks)
    BY <1>17, <2>1, <2>2, PostFacts DEF SubprocessHandlerStop
  <2> QED
    BY <1>1, <1>17, <2>3 DEF SubprocessHandlerStop, TypeOK
<1>18. ASSUME NEW id \in Ids, ProcessExits(id) PROVE TypeOK'
  BY <1>1, <1>18 DEF ProcessExits, TypeOK
<1>19. CASE HandlersDone
  BY <1>1, <1>19 DEF HandlersDone, TypeOK
<1>20. CASE UNCHANGED vars
  BY <1>20 DEF TypeOK
<1> QED
  BY <1>3, <1>4, <1>5, <1>6, <1>7, <1>8, <1>9, <1>10, <1>11, <1>12, <1>13, <1>14, <1>15,
     <1>16, <1>17, <1>18, <1>19, <1>20, <1>21
     DEF Next, MainStep, ProcessStep
---------------------------------------------------------------------------
(* What refers to a request fits it.                                       *)

\* An activation was there before, or it is new with a number of its own.
LEMMA FramesAfter ==
    ASSUME StackOK, StackSteps
    PROVE  \A i \in 1..Len(stack') :
             \/ \E j \in 1..Len(stack) : /\ stack'[i].kind = stack[j].kind
                                         /\ stack'[i].id = stack[j].id
             \/ stack'[i].kind = "command" /\ stack'[i].id = 0
             \/ IsRequest(stack'[i]) /\ stack'[i].id = count.requests + 1
                /\ count'.requests = count.requests + 1
<1>1. ASSUME NEW a \in Ats, Moves(a)
      PROVE  \A i \in 1..Len(stack') : \E j \in 1..Len(stack) :
               stack'[i].kind = stack[j].kind /\ stack'[i].id = stack[j].id
  BY <1>1, GoesFacts DEF Moves
<1>2. ASSUME Leaves
      PROVE  \A i \in 1..Len(stack') : \E j \in 1..Len(stack) :
               stack'[i].kind = stack[j].kind /\ stack'[i].id = stack[j].id
  <2>1. \A i \in 1..Len(stack') : i \in 1..Len(stack) - 1 /\ i \in 1..Len(stack)
    BY <1>2, BelowFacts, StackFacts DEF Leaves
  <2> QED
    BY <1>2, <2>1, BelowFacts DEF Leaves
<1>3. ASSUME Jumps
      PROVE  \A i \in 1..Len(stack') : \E j \in 1..Len(stack) :
               stack'[i].kind = stack[j].kind /\ stack'[i].id = stack[j].id
  <2>1. \A i \in 1..Len(stack') : i \in 1..Len(stack) - 1 /\ i \in 1..Len(stack)
    BY <1>3, JumpsFacts, StackFacts
  <2> QED
    BY <1>3, <2>1, JumpsFacts
<1>4. ASSUME NEW f \in Frames, Enters(f), NEW i \in 1..Len(stack')
      PROVE  \/ \E j \in 1..Len(stack) : /\ stack'[i].kind = stack[j].kind
                                         /\ stack'[i].id = stack[j].id
             \/ stack'[i].kind = "command" /\ stack'[i].id = 0
             \/ IsRequest(stack'[i]) /\ stack'[i].id = count.requests + 1
                /\ count'.requests = count.requests + 1
  <2>1. /\ Len(stack') = Len(stack) + 1 /\ Len(stack) \in Nat
        /\ stack'[Len(stack) + 1] = f
        /\ \A j \in 1..Len(stack) : stack'[j] = stack[j]
    BY <1>4, AppendProperties DEF Enters, StackOK
  <2>2. i \in 1..Len(stack) \/ i = Len(stack) + 1
    BY <2>1
  <2>3. f.kind = "command" \/ IsRequest(f)
    BY DEF Frames, IsRequest
  <2> QED
    BY <1>4, <2>1, <2>2, <2>3 DEF Enters
<1>5. CASE UNCHANGED <<stack, replState>>
  BY <1>5
<1> QED
  BY <1>1, <1>2, <1>3, <1>4, <1>5 DEF StackSteps

\* How much has been asked grows with the stack alone.
LEMMA CountAfter ==
    ASSUME TypeOK, StackOK, [Next]_vars
    PROVE  \/ count'.requests = count.requests
           \/ \E kind \in Requests : Ask(kind) /\ count'.requests = count.requests + 1
  BY DEF Next, vars, main, processes, client, MainStep, ProcessStep, RunTask, LoopInterrupted,
         HandlersDone, Announce, OpenLoop, AnnounceBusy, Leave, Interrupted, Finish, Prompt, Ask,
         ProcessExits, SubprocessHandlerStop, Read, SendCommand, SendAnswer, StopIsStored, SendInput,
         InterruptReads, InterruptActs, TypeOK

LEMMA FitsKept ==
    ASSUME TypeOK, StackOK, RefsFit, [Next]_vars
    PROVE  /\ count.requests \in Nat /\ count.requests <= count'.requests
           /\ \A e \in Events : Fits(e) => Fits(e)'
<1>1. count.requests \in Nat
  BY ReplAssumption DEF TypeOK, Ids
<1>2. count.requests <= count'.requests
  BY <1>1, CountAfter
<1>3. count'.requests \in Nat
  BY <1>1, CountAfter
<1>4. ASSUME NEW e \in Events, Fits(e) PROVE Fits(e)'
  <2>1. e.id \in Nat /\ e.id <= count.requests
    BY <1>4, ReplAssumption DEF Fits, Events, Ids
  <2>2. ASSUME e.type \in Requests, NEW i \in 1..Len(stack'), IsRequest(stack'[i]),
               stack'[i].id = e.id
        PROVE  stack'[i].kind = e.type
    <3>1. stack'[i].id # count.requests + 1
      BY <1>1, <2>1, <2>2
    <3>2. PICK j \in 1..Len(stack) : stack'[i].kind = stack[j].kind /\ stack'[i].id = stack[j].id
      BY <2>2, <3>1, FramesAfter, StepsOfStack DEF IsRequest, Requests
    <3> QED
      BY <1>4, <2>2, <3>2 DEF Fits, IsRequest
  <2> QED
    BY <1>1, <1>2, <1>3, <2>1, <2>2 DEF Fits, IsRequest
<1> QED
  BY <1>1, <1>2, <1>4

\* A new request: nothing referred to it before.
LEMMA FitsNew ==
    ASSUME TypeOK, StackOK, RefsFit, NEW kind \in Requests, Ask(kind),
           NEW n, n = count.requests + 1
    PROVE  /\ Fits(Event(kind, n))'
           /\ \A i \in 1..Len(stack') : stack'[i].id <= count'.requests
           /\ \A i \in 1..Len(stack') : IsRequest(stack'[i]) =>
                Fits(Event(stack[i].kind, stack[i].id))'
<1> DEFINE f == [kind |-> kind, saved |-> replState, id |-> n, at |-> "ask"]
<1>1. count.requests \in Nat /\ n \in Nat /\ count'.requests = n /\ count.requests < n
  BY ReplAssumption DEF TypeOK, Ids, Ask
<1>2. /\ Len(stack') = Len(stack) + 1 /\ Len(stack) \in Nat
      /\ stack'[Len(stack) + 1] = f
      /\ \A j \in 1..Len(stack) : stack'[j] = stack[j]
  <2>1. f \in Frames /\ stack' = Append(stack, f) /\ stack \in Seq(Frames)
    BY ReplAssumption DEF Ask, Frames, StackOK, Ids, TypeOK
  <2> HIDE DEF f
  <2> QED
    BY <2>1, AppendProperties
<1>3. f.kind = kind /\ f.id = n
  OBVIOUS
<1> HIDE DEF f
<1>4. \A i \in 1..Len(stack') : i \in 1..Len(stack) \/ stack'[i] = f
  BY <1>2
<1>5. \A i \in 1..Len(stack) : /\ stack[i].id \in Nat /\ stack[i].id <= count.requests
                               /\ stack[i].id # n /\ stack[i].id <= n
  <2>1. \A i \in 1..Len(stack) : stack[i].id \in Nat /\ stack[i].id <= count.requests
    BY StackFacts, ReplAssumption DEF Ids, RefsFit, FramesFit
  <2> QED
    BY <1>1, <2>1
<1>6. Fits(Event(kind, n))'
  <2>1. \A i \in 1..Len(stack') : stack'[i].id = n => stack'[i].kind = kind
    BY <1>2, <1>3, <1>4, <1>5
  <2> QED
    BY <1>1, <2>1 DEF Fits, Event, IsRequest
<1>7. \A i \in 1..Len(stack') : stack'[i].id <= count'.requests
  BY <1>1, <1>2, <1>3, <1>4, <1>5
<1>8. ASSUME NEW i \in 1..Len(stack'), IsRequest(stack'[i])
      PROVE  Fits(Event(stack[i].kind, stack[i].id))'
  <2>1. CASE stack'[i] = f
    BY <1>3, <1>6, <2>1 DEF Fits, Event, IsRequest
  <2>2. CASE i \in 1..Len(stack)
    <3>1. stack'[i] = stack[i] /\ Fits(Event(stack[i].kind, stack[i].id))
      BY <1>2, <1>8, <2>2 DEF RefsFit, FramesFit, IsRequest
    <3>2. ASSUME NEW j \in 1..Len(stack'), stack'[j].id = stack[i].id, IsRequest(stack'[j])
          PROVE  stack'[j].kind = stack[i].kind
      <4>1. j \in 1..Len(stack) /\ stack'[j] = stack[j]
        BY <1>2, <1>3, <1>4, <1>5, <2>2, <3>2
      <4> QED
        BY <1>8, <3>1, <3>2, <4>1 DEF Fits, Event, IsRequest
    <3> QED
      BY <1>1, <1>5, <2>2, <3>1, <3>2 DEF Fits, Event, IsRequest
  <2> QED
    BY <1>4, <2>1, <2>2
<1> QED
  BY <1>6, <1>7, <1>8

\* What becomes of the queues of tasks and events.
Posts(t) == /\ t \in Tasks /\ Fits(t.to)' /\ Meets(t)
            /\ tasks' = Append(tasks, t)
TaskSteps ==
    \/ UNCHANGED tasks
    \/ tasks # <<>> /\ tasks' = Tail(tasks)
    \/ \E t \in Tasks : Posts(t)
StreamSteps ==
    \/ UNCHANGED stream
    \/ stream # <<>> /\ stream' = Tail(stream)
    \/ \E e \in Events : Push(e) /\ Fits(e)'

LEMMA TasksStayFit ==
    ASSUME TypeOK, TasksFit, \A e \in Events : Fits(e) => Fits(e)', TaskSteps
    PROVE  TasksFit'
<1>1. tasks \in Seq(Tasks) /\ \A i \in 1..Len(tasks) : tasks[i] \in Tasks /\ tasks[i].to \in Events
  <2>1. \A i \in 1..Len(tasks) : tasks[i] \in Tasks
    BY DEF TypeOK
  <2> QED
    BY <2>1 DEF TypeOK, Tasks
<1>2. \A i \in 1..Len(tasks) : Meets(tasks[i]) /\ Fits(tasks[i].to)
  BY DEF TasksFit
<1>3. SUFFICES ASSUME NEW i \in 1..Len(tasks')
               PROVE  /\ \/ \E j \in 1..Len(tasks) : tasks'[i] = tasks[j]
                         \/ \E t \in Tasks : Posts(t) /\ tasks'[i] = t
  <2>1. ASSUME NEW i \in 1..Len(tasks'), NEW j \in 1..Len(tasks), tasks'[i] = tasks[j]
        PROVE  Fits(tasks[i].to)' /\ Meets(tasks[i])'
    <3> DEFINE t == tasks[j]
    <3>1. \A u : u = t.to => (Fits(u) => Fits(u)')
      BY <1>1
    <3> QED
      BY <1>1, <1>2, <2>1 DEF Fits, Meets, IsRequest
  <2>2. ASSUME NEW i \in 1..Len(tasks'), NEW t \in Tasks, Posts(t), tasks'[i] = t
        PROVE  Fits(tasks[i].to)' /\ Meets(tasks[i])'
    BY <2>2 DEF Posts, Fits, Meets, IsRequest
  <2> QED
    BY <1>3, <2>1, <2>2 DEF TasksFit
<1>4. CASE UNCHANGED tasks
  BY <1>4
<1>5. CASE tasks # <<>> /\ tasks' = Tail(tasks)
  BY <1>1, <1>5, HeadTailProperties
<1>6. ASSUME NEW t \in Tasks, Posts(t) PROVE tasks'[i] = t \/ \E j \in 1..Len(tasks) : tasks'[i] = tasks[j]
  BY <1>1, <1>6, AppendProperties DEF Posts
<1> QED
  BY <1>4, <1>5, <1>6 DEF TaskSteps

LEMMA StreamStaysFit ==
    ASSUME TypeOK, StreamFits, \A e \in Events : Fits(e) => Fits(e)', StreamSteps
    PROVE  StreamFits'
<1>1. stream \in Seq(Events) /\ \A i \in 1..Len(stream) : stream[i] \in Events
  BY DEF TypeOK
<1>2. SUFFICES ASSUME NEW i \in 1..Len(stream')
               PROVE  \/ \E j \in 1..Len(stream) : stream'[i] = stream[j]
                      \/ \E e \in Events : Push(e) /\ Fits(e)' /\ stream'[i] = e
  <2>1. ASSUME NEW i \in 1..Len(stream'), NEW j \in 1..Len(stream), stream'[i] = stream[j]
        PROVE  Fits(stream[i])'
    BY <1>1, <2>1 DEF Fits, IsRequest, StreamFits
  <2>2. ASSUME NEW i \in 1..Len(stream'), NEW e \in Events, Fits(e)', stream'[i] = e
        PROVE  Fits(stream[i])'
    BY <2>2 DEF Fits, IsRequest
  <2> QED
    BY <1>2, <2>1, <2>2 DEF StreamFits
<1>3. CASE UNCHANGED stream
  BY <1>3
<1>4. CASE stream # <<>> /\ stream' = Tail(stream)
  BY <1>1, <1>4, HeadTailProperties
<1>5. ASSUME NEW e \in Events, Push(e)
      PROVE  stream'[i] = e \/ \E j \in 1..Len(stream) : stream'[i] = stream[j]
  BY <1>1, <1>5, AppendProperties DEF Push
<1> QED
  BY <1>3, <1>4, <1>5 DEF StreamSteps

\* What is announced: busy, the prompt, or the request of an activation.
LEMMA PlainFit ==
    ASSUME TypeOK, StackOK, RefsFit, [Next]_vars
    PROVE  /\ Answered \in Events /\ Fits(Answered)' /\ Event("prompt", 0) \in Events
           /\ Fits(Event("prompt", 0))'
           /\ \A i \in 1..Len(stack) : IsRequest(stack[i]) =>
                /\ Event(stack[i].kind, stack[i].id) \in Events
                /\ \A e : e = Event(stack[i].kind, stack[i].id) => Fits(e)'
<1>1. count'.requests \in Nat
  BY CountAfter, ReplAssumption DEF TypeOK, Ids
<1>2. ASSUME NEW i \in 1..Len(stack), IsRequest(stack[i]), NEW e,
             e = Event(stack[i].kind, stack[i].id)
      PROVE  e \in Events /\ Fits(e)'
  <2>1. e \in Events
    BY <1>2, StackFacts DEF Event, Events, IsRequest
  <2>2. Fits(e)
    BY <1>2 DEF RefsFit, FramesFit
  <2> QED
    BY <2>1, <2>2, FitsKept
<1>3. Answered \in Events /\ Event("prompt", 0) \in Events
  BY ReplAssumption DEF Answered, Event, Events, Ids
<1>4. Fits(Answered)' /\ Fits(Event("prompt", 0))'
  BY <1>1 DEF Answered, Event, Fits, Requests
<1> QED
  BY <1>2, <1>3, <1>4

LEMMA RefsStayFit == ASSUME TypeOK, StackOK, RefsFit, [Next]_vars PROVE RefsFit'
<1> USE DEF main, vars, processes, client
<1>1. \A e \in Events : Fits(e) => Fits(e)'
  BY FitsKept
<1>2. Fits(Answered)' /\ Answered \in Events
  BY PlainFit
<1>3. FramesFit'
  <2>1. CASE \E kind \in Requests : Ask(kind)
    BY <2>1, FitsNew DEF FramesFit, IsRequest
  <2>2. CASE ~(\E kind \in Requests : Ask(kind))
    <3>1. count'.requests = count.requests /\ count.requests \in Nat
      BY <2>2, CountAfter, FitsKept
    <3>2. ASSUME NEW i \in 1..Len(stack')
          PROVE  \/ \E j \in 1..Len(stack) : /\ stack'[i].kind = stack[j].kind
                                             /\ stack'[i].id = stack[j].id
                 \/ stack'[i].kind = "command" /\ stack'[i].id = 0
      BY <3>1, FramesAfter, StepsOfStack
    <3>3. ASSUME NEW i \in 1..Len(stack')
          PROVE  /\ stack'[i].id <= count'.requests
                 /\ IsRequest(stack[i])' => Fits(Event(stack[i].kind, stack[i].id))'
      <4>1. CASE \E j \in 1..Len(stack) : /\ stack'[i].kind = stack[j].kind
                                          /\ stack'[i].id = stack[j].id
        <5>1. PICK j \in 1..Len(stack) : /\ stack'[i].kind = stack[j].kind
                                         /\ stack'[i].id = stack[j].id
          BY <4>1
        <5>2. stack'[i].id <= count'.requests
          BY <3>1, <5>1 DEF RefsFit, FramesFit
        <5>3. ASSUME IsRequest(stack[i])' PROVE Fits(Event(stack[i].kind, stack[i].id))'
          <6>1. IsRequest(stack[j])
            BY <5>1, <5>3 DEF IsRequest
          <6>2. \A e : e = Event(stack[j].kind, stack[j].id) => Fits(e)'
            BY <6>1, PlainFit
          <6> QED
            BY <5>1, <6>2 DEF Fits, Event, IsRequest
        <5> QED
          BY <5>2, <5>3
      <4>2. CASE stack'[i].kind = "command" /\ stack'[i].id = 0
        BY <3>1, <4>2 DEF IsRequest, Requests
      <4> QED
        BY <3>2, <4>1, <4>2
    <3> QED
      BY <3>3 DEF FramesFit
  <2> QED
    BY <2>1, <2>2
<1>4. ProcessesFit'
  <2>1. CASE \E kind \in Requests : Ask(kind)
    <3>1. PICK kind \in Requests : Ask(kind)
      BY <2>1
    <3> DEFINE n == count.requests + 1
    <3>2. (running \cup ended)' \subseteq (running \cup ended) \cup (IF kind = "subprocess" THEN {n} ELSE {})
      BY <3>1 DEF Ask
    <3>3. kind = "subprocess" => \A m : m = n => Fits(Event("subprocess", m))'
      BY <3>1, FitsNew
    <3>4. ASSUME NEW id \in running \cup ended PROVE Fits(Event("subprocess", id))'
      BY <1>1, <3>4 DEF RefsFit, ProcessesFit, TypeOK, Event, Events, Requests
    <3> QED
      BY <3>2, <3>3, <3>4 DEF ProcessesFit
  <2>2. CASE (running \cup ended)' \subseteq running \cup ended
    <3>1. ASSUME NEW id \in running \cup ended PROVE Fits(Event("subprocess", id))'
      BY <1>1, <3>1 DEF RefsFit, ProcessesFit, TypeOK, Event, Events, Requests
    <3> QED
      BY <2>2, <3>1 DEF ProcessesFit
  <2>3. CASE RunTask
    <3>1. (running \cup ended)' \subseteq running \cup ended
      BY <2>3 DEF RunTask, Execute, Answer, Input, InterruptLine, InterruptProcess,
                  ProcessEnded, Ignore
    <3> QED
      BY <2>2, <3>1
  <2> QED
    BY <2>1, <2>2, <2>3
       DEF Next, MainStep, ProcessStep, LoopInterrupted, HandlersDone, Announce,
           OpenLoop, AnnounceBusy, Leave, Interrupted, Finish, Prompt, ProcessExits,
           SubprocessHandlerStop, Read, SendCommand, SendAnswer, StopIsStored, SendInput, InterruptReads,
           InterruptActs
<1>5. TaskSteps
  <2>2. ASSUME NEW op, [op |-> op, to |-> seen] \in Tasks, Post(op, seen), Meets([op |-> op, to |-> seen])
        PROVE  TaskSteps
    <3>1. \A e : e = seen => Fits(e)'
      BY <1>1 DEF RefsFit, TypeOK
    <3> QED
      BY <2>2, <3>1 DEF TaskSteps, Posts, Post
  <2>3. CASE SendCommand
    <3>1. [op |-> "execute", to |-> seen] \in Tasks
      BY DEF TypeOK, Tasks
    <3> QED
      BY <2>2, <2>3, <3>1 DEF SendCommand, Meets
  <2>4. CASE SendAnswer
    <3>1. \A op \in {"readln", "continue", "stop"} : [op |-> op, to |-> seen] \in Tasks
      BY DEF TypeOK, Tasks
    <3> QED
      BY <2>2, <2>4, <3>1 DEF SendAnswer, Meets
  <2>5. CASE SendInput
    <3>1. \A op \in {"readln", "eof"} : [op |-> op, to |-> seen] \in Tasks
      BY DEF TypeOK, Tasks
    <3> QED
      BY <2>2, <2>5, <3>1 DEF SendInput, Meets
  <2>6. ASSUME NEW op \in {"nothing", "interruptLine", "interruptProcess"}, Post(op, Answered)
        PROVE  TaskSteps
    <3>1. [op |-> op, to |-> Answered] \in Tasks
      BY <1>2 DEF Tasks
    <3> QED
      BY <1>2, <2>6, <3>1 DEF TaskSteps, Posts, Post, Meets
  <2>7. CASE InterruptActs
    BY <2>6, <2>7 DEF InterruptActs, TaskSteps
  <2>8. ASSUME NEW id \in Ids, SubprocessHandlerStop(id) PROVE TaskSteps
    <3> DEFINE e == Event("subprocess", id)
    <3>1. e \in Events /\ Fits(e) /\ e.type = "subprocess"
      BY <2>8 DEF SubprocessHandlerStop, RefsFit, ProcessesFit, Event, Events, Requests
    <3> HIDE DEF e
    <3>2. Fits(e)' /\ [op |-> "processEnded", to |-> e] \in Tasks
      BY <1>1, <3>1 DEF Tasks
    <3> QED
      BY <2>8, <3>1, <3>2 DEF SubprocessHandlerStop, e, TaskSteps, Posts, Post, Meets
  <2>9. CASE RunTask
    BY <2>9 DEF RunTask, TaskSteps
  <2>10. CASE UNCHANGED tasks
    BY <2>10 DEF TaskSteps
  <2> QED
    BY <2>3, <2>4, <2>5, <2>7, <2>8, <2>9, <2>10
       DEF Next, MainStep, ProcessStep, LoopInterrupted, HandlersDone, Announce, Ask,
           OpenLoop, AnnounceBusy, Leave, Interrupted, Finish, Prompt, ProcessExits,
           Read, InterruptReads, StopIsStored
<1>6. StreamSteps
  <2>1. CASE Announce
    <3>1. CASE Top.kind = "command"
      BY <1>2, <2>1, <3>1 DEF Announce, StreamSteps
    <3>2. CASE Top.kind # "command"
      <4>1. IsRequest(Top) /\ Len(stack) \in 1..Len(stack) /\ Top = stack[Len(stack)]
        BY <2>1, <3>2, StackFacts DEF Announce
      <4> QED
        BY <2>1, <3>2, <4>1, PlainFit DEF Announce, StreamSteps
    <3> QED
      BY <3>1, <3>2
  <2>2. CASE AnnounceBusy
    BY <1>2, <2>2 DEF AnnounceBusy, StreamSteps
  <2>3. CASE Prompt
    <3>1. CASE replState = "DEBUG_PROMPT"
      <4>1. /\ Below[Len(Below)] = stack[Len(stack) - 1] /\ Len(stack) - 1 \in 1..Len(stack)
            /\ IsRequest(stack[Len(stack) - 1])
            /\ replState = StateOf[stack[Len(stack) - 1].kind]
        BY <2>3, <3>1, PromptFacts
      <4>2. stack[Len(stack) - 1].kind = "debug"
        BY <3>1, <4>1 DEF StateOf, IsRequest, Requests
      <4> QED
        BY <2>3, <3>1, <4>1, <4>2, PlainFit DEF Prompt, StreamSteps
    <3>2. CASE replState # "DEBUG_PROMPT"
      BY <2>3, <3>2, PlainFit DEF Prompt, StreamSteps
    <3> QED
      BY <3>1, <3>2
  <2>4. CASE Read
    BY <2>4 DEF Read, StreamSteps
  <2>5. CASE UNCHANGED stream
    BY <2>5 DEF StreamSteps
  <2> QED
    BY <2>1, <2>2, <2>3, <2>4, <2>5
       DEF Next, MainStep, ProcessStep, RunTask, LoopInterrupted, HandlersDone, Ask,
           OpenLoop, Leave, Interrupted, Finish, ProcessExits,
           SubprocessHandlerStop, SendCommand, SendAnswer, StopIsStored, SendInput, InterruptReads,
           InterruptActs
<1>7. Fits(seen)'
  <2>1. CASE Read
    <3>1. /\ stream \in Seq(Events) /\ Len(stream) \in Nat \ {0} /\ seen' = stream[1]
          /\ stream[1] \in Events
      BY <2>1, HeadTailProperties DEF Read, TypeOK
    <3>2. \A e : e = stream[1] => Fits(e)'
      BY <1>1, <3>1 DEF RefsFit, StreamFits
    <3> QED
      BY <3>1, <3>2 DEF Fits, IsRequest
  <2>2. CASE seen' = Answered
    BY <1>2, <2>2 DEF Fits, IsRequest, Answered, Event
  <2>3. CASE UNCHANGED seen
    BY <1>1, <2>3 DEF RefsFit, TypeOK, Fits, IsRequest
  <2> QED
    BY <2>1, <2>2, <2>3
       DEF Next, MainStep, ProcessStep, RunTask, LoopInterrupted, HandlersDone, Announce, Ask,
           OpenLoop, AnnounceBusy, Leave, Interrupted, Finish, Prompt, ProcessExits,
           SubprocessHandlerStop, SendCommand, SendAnswer, StopIsStored, SendInput, InterruptReads,
           InterruptActs
<1> QED
  BY <1>1, <1>3, <1>4, <1>5, <1>6, <1>7, TasksStayFit, StreamStaysFit DEF RefsFit
---------------------------------------------------------------------------
(* Whose turn it is.                                                       *)
NoneLive ==
    /\ \A i \in 1..Len(tasks) : ~LiveTask(i)
    /\ ~Live(seen)
    /\ \A i \in 1..Len(stream) : ~Live(stream[i])

LEMMA CutGrows ==
    ASSUME [Next]_vars
    PROVE  cut \subseteq cut'
  BY DEF Next, vars, main, processes, client, MainStep, ProcessStep, RunTask, Execute, Answer,
         Input, InterruptLine, InterruptProcess, ProcessEnded, Ignore, LoopInterrupted,
         HandlersDone, Announce, OpenLoop, AnnounceBusy, Leave, Interrupted, Finish, Prompt, Ask,
         ProcessExits, SubprocessHandlerStop, Read, SendCommand, SendAnswer, StopIsStored, SendInput,
         InterruptReads, InterruptActs

\* Nobody's turn, and what is said does not make it anybody's.
LEMMA NoneLiveKept ==
    ASSUME TypeOK, NoneLive, cut \subseteq cut',
           UNCHANGED tasks \/ (tasks # <<>> /\ tasks' = Tail(tasks)),
           UNCHANGED stream \/ Push(Answered), UNCHANGED seen
    PROVE  NoneLive'
<1>1. \A e : Live(e)' => Live(e)
  BY DEF Live
<1>2. \A i \in 1..Len(tasks') : ~LiveTask(i)'
  <2>1. CASE UNCHANGED tasks
    BY <1>1, <2>1 DEF NoneLive, LiveTask
  <2>2. CASE tasks # <<>> /\ tasks' = Tail(tasks)
    <3>1. \A i \in 1..Len(tasks') : i + 1 \in 1..Len(tasks) /\ tasks'[i] = tasks[i + 1]
      BY <2>2, HeadTailProperties DEF TypeOK
    <3> QED
      BY <3>1 DEF NoneLive, LiveTask, Live
  <2> QED
    BY <2>1, <2>2
<1>3. \A i \in 1..Len(stream') : ~Live(stream[i])'
  <2>1. CASE UNCHANGED stream
    BY <2>1 DEF NoneLive, Live
  <2>2. CASE Push(Answered)
    <3>1. Answered \in Events /\ Answered.type = "busy"
      BY ReplAssumption DEF Answered, Event, Events, Ids
    <3>2. \A i \in 1..Len(stream') : \/ i \in 1..Len(stream) /\ stream'[i] = stream[i]
                                     \/ stream'[i] = Answered
      BY <2>2, <3>1, PushFacts
    <3> QED
      BY <3>1, <3>2 DEF NoneLive, Live
  <2> QED
    BY <2>1, <2>2
<1> QED
  BY <1>2, <1>3 DEF NoneLive, Live

\* While the main thread does not wait it is nobody's turn.
LEMMA NotWaiting ==
    ASSUME OneTurn, ~Waits PROVE NoneLive
  BY DEF OneTurn, NoneLive

LEMMA NobodysTurn ==
    ASSUME NoneLive' PROVE OneTurn'
<1>1. \A i \in 1..Len(tasks') : ~LiveTask(i)'
  BY DEF NoneLive
<1>2. ~Live(seen)' /\ \A i \in 1..Len(stream') : ~Live(stream[i])'
  BY DEF NoneLive
<1> QED
  BY <1>1, <1>2 DEF OneTurn

\* The main thread begins to wait: it has just said for what.
LEMMA BeginsToWait ==
    ASSUME TypeOK, NoneLive, cut \subseteq cut', UNCHANGED <<tasks, seen>>,
           NEW e \in Events, Push(e), Waits', e = Current'
    PROVE  OneTurn' /\ Told'
<1>1. \A u : Live(u)' => Live(u)
  BY DEF Live
<1>2. /\ Len(stream) \in Nat /\ Len(stream') = Len(stream) + 1
      /\ \A i \in 1..Len(stream) : stream'[i] = stream[i]
      /\ stream'[Len(stream) + 1] = e
  BY PushFacts
<1>3. \A i \in 1..Len(stream') : i \in 1..Len(stream) \/ i = Len(stream) + 1
  BY <1>2
<1>4. \A i \in 1..Len(stream') : Live(stream[i])' => i = Len(stream) + 1 /\ stream'[i] = e
  BY <1>2, <1>3 DEF NoneLive, Live
<1>5. \A i \in 1..Len(tasks') : ~LiveTask(i)'
  BY DEF NoneLive, LiveTask, Live
<1>6. ~Live(seen)'
  BY DEF NoneLive, Live
<1>7. OneTurn'
  BY <1>4, <1>5, <1>6 DEF OneTurn
<1>8. Told'
  <2>1. stream' # <<>> /\ stream'[Len(stream')] = e
    BY <1>2
  <2> QED
    BY <2>1 DEF Told
<1> QED
  BY <1>7, <1>8

\* An event that asks for an answer is what the main thread waits for.
LEMMA LiveIsCurrent ==
    ASSUME OneTurn
    PROVE  /\ \A i \in 1..Len(tasks) : LiveTask(i) => tasks[i].to = Current
           /\ Live(seen) => seen = Current
           /\ \A i \in 1..Len(stream) : Live(stream[i]) => stream[i] = Current
  BY DEF OneTurn

\* What it waited for has been cut short, or was a process.
LEMMA TurnCut ==
    ASSUME TypeOK, OneTurn, cut \subseteq cut',
           Current.type \notin {"prompt", "debug", "readline"} \/ Current.id \in cut',
           UNCHANGED tasks \/ (tasks # <<>> /\ tasks' = Tail(tasks)),
           UNCHANGED <<stream, seen, stored>>
    PROVE  NoneLive'
<1>1. \A u : Live(u)' => Live(u) /\ u # Current
  BY DEF Live
<1>2. ~Live(seen)' /\ \A i \in 1..Len(stream') : ~Live(stream[i])'
  BY LiveIsCurrent DEF Live
<1>3. \A i \in 1..Len(tasks) :
        tasks[i].op \in Answers => tasks[i].to.type \notin {"prompt", "debug", "readline"}
                                  \/ tasks[i].to.id \in cut'
  BY LiveIsCurrent DEF LiveTask, Live
<1>4. \A i \in 1..Len(tasks') : \E j \in 1..Len(tasks) : tasks'[i] = tasks[j]
  <2>1. CASE UNCHANGED tasks
    BY <2>1
  <2>2. CASE tasks # <<>> /\ tasks' = Tail(tasks)
    <3>1. \A i \in 1..Len(tasks') : i + 1 \in 1..Len(tasks) /\ tasks'[i] = tasks[i + 1]
      BY <2>2, HeadTailProperties DEF TypeOK
    <3> QED
      BY <3>1
  <2> QED
    BY <2>1, <2>2
<1>5. \A i \in 1..Len(tasks') : ~LiveTask(i)'
  BY <1>3, <1>4 DEF LiveTask, Live
<1> QED
  BY <1>2, <1>5 DEF NoneLive

\* The answer has come: it was the only one.
LEMMA TurnTaken ==
    ASSUME TypeOK, OneTurn, cut \subseteq cut', tasks # <<>>, tasks' = Tail(tasks),
           Head(tasks).op \in Answers, Head(tasks).to = Current,
           UNCHANGED <<stream, seen, stored>>
    PROVE  NoneLive'
<1>1. /\ 1 \in 1..Len(tasks) /\ Head(tasks) = tasks[1]
      /\ \A i \in 1..Len(tasks') : i + 1 \in 1..Len(tasks) /\ i + 1 # 1 /\ tasks'[i] = tasks[i + 1]
  BY HeadTailProperties DEF TypeOK
<1>2. CASE LiveTask(1)
  <2>1. ~Live(seen) /\ \A j \in 1..Len(stream) : ~Live(stream[j])
    BY <1>1, <1>2 DEF OneTurn
  <2>2. \A j \in 1..Len(tasks) : j # 1 => ~LiveTask(j)
    BY <1>1, <1>2 DEF OneTurn
  <2>3. ~Live(seen)' /\ \A j \in 1..Len(stream') : ~Live(stream[j])'
    BY <2>1 DEF Live
  <2>4. \A i \in 1..Len(tasks') : ~LiveTask(i)'
    BY <1>1, <2>2 DEF LiveTask, Live
  <2> QED
    BY <2>3, <2>4 DEF NoneLive
<1>3. CASE ~LiveTask(1)
  <2>1. Current.type \notin {"prompt", "debug", "readline"} \/ Current.id \in cut'
    BY <1>1, <1>3 DEF LiveTask, Live
  <2> QED
    BY <2>1, TurnCut
<1> QED
  BY <1>2, <1>3

\* Where the main thread stands after it has got on, or has left.
LEMMA GoesOn ==
    ASSUME StackOK, stack # <<>>, NEW a \in Ats, Goes(a)
    PROVE  /\ stack' # <<>> /\ Top'.at = a /\ Current' = Current
           /\ Waits' <=> a \in {"asked", "loop"}
<1>1. /\ Len(stack') = Len(stack) /\ stack' # <<>>
      /\ Top' = stack'[Len(stack)] /\ Top = stack[Len(stack)]
      /\ stack'[Len(stack)].at = a
  BY GoesFacts DEF Top
<1>2. Top'.kind = Top.kind /\ Top'.id = Top.id
  BY <1>1, GoesFacts, StackFacts
<1> QED
  BY <1>1, <1>2 DEF Current, Waits, Event

\* The main thread still waits for what it waited for, or still does not;
\* the client and others go on.
SameTurn == (Waits' <=> Waits) /\ Current' = Current /\ UNCHANGED <<cut, stored>>

LEMMA TurnOnPost ==
    ASSUME TypeOK, OneTurn, Told, SameTurn, NEW t \in Tasks, tasks' = Append(tasks, t),
           t.op \notin Answers \/ t.to.type \notin {"prompt", "debug", "readline"},
           UNCHANGED <<stream, seen, stored>>
    PROVE  OneTurn' /\ Told'
<1>1. /\ Len(tasks) \in Nat /\ Len(tasks') = Len(tasks) + 1
      /\ \A i \in 1..Len(tasks) : tasks'[i] = tasks[i]
      /\ tasks'[Len(tasks) + 1] = t
  BY AppendProperties DEF TypeOK
<1>2. \A i \in 1..Len(tasks') : i \in 1..Len(tasks) \/ i = Len(tasks) + 1
  BY <1>1
<1>3. \A u : Live(u)' <=> Live(u)
  BY DEF Live, SameTurn
<1>4. \A i \in 1..Len(tasks') : LiveTask(i)' => i \in 1..Len(tasks) /\ LiveTask(i)
  BY <1>1, <1>2 DEF LiveTask, Live, SameTurn
<1>5. OneTurn'
  <2>1. ASSUME NEW i \in 1..Len(tasks'), LiveTask(i)'
        PROVE  /\ Waits' /\ tasks'[i].to = Current' /\ ~Live(seen)'
               /\ \A j \in 1..Len(tasks') : LiveTask(j)' => i = j
               /\ \A j \in 1..Len(stream') : ~Live(stream[j])'
    BY <1>1, <1>3, <1>4, <2>1 DEF OneTurn, SameTurn, Live
  <2>2. Live(seen)' => /\ Waits' /\ seen' = Current'
                       /\ \A j \in 1..Len(stream') : ~Live(stream[j])'
    BY <1>3 DEF OneTurn, SameTurn, Live
  <2>3. ASSUME NEW i \in 1..Len(stream'), Live(stream[i])'
        PROVE  /\ Waits' /\ stream'[i] = Current'
               /\ \A j \in 1..Len(stream') : Live(stream[j])' => i = j
    BY <2>3 DEF OneTurn, SameTurn, Live
  <2> QED
    BY <2>1, <2>2, <2>3 DEF OneTurn
<1>6. Told'
  <2>1. \A i \in 1..Len(tasks) : i \in 1..Len(tasks') /\ tasks'[i] = tasks[i]
    BY <1>1
  <2> QED
    BY <2>1 DEF Told, Stopped, SameTurn, Pending
<1> QED
  BY <1>5, <1>6

\* The client's command or answer to what it has seen.
LEMMA TurnOnAnswer ==
    ASSUME TypeOK, OneTurn, Told, SameTurn, NEW t \in Tasks, tasks' = Append(tasks, t),
           t.op \in Answers, t.to = seen, seen.type # "subprocess",
           seen' = Answered, UNCHANGED stream
    PROVE  OneTurn' /\ Told'
<1>1. /\ Len(tasks) \in Nat /\ Len(tasks') = Len(tasks) + 1
      /\ \A i \in 1..Len(tasks) : i \in 1..Len(tasks') /\ tasks'[i] = tasks[i]
      /\ tasks'[Len(tasks) + 1] = t
      /\ Len(tasks) + 1 \in 1..Len(tasks')
  <2>1. /\ Len(tasks) \in Nat /\ Len(tasks') = Len(tasks) + 1
        /\ \A i \in 1..Len(tasks) : tasks'[i] = tasks[i]
        /\ tasks'[Len(tasks) + 1] = t
    BY AppendProperties DEF TypeOK
  <2> QED
    BY <2>1
<1>2. \A i \in 1..Len(tasks') : i \in 1..Len(tasks) \/ i = Len(tasks) + 1
  BY <1>1
<1>3. \A u : Live(u)' <=> Live(u)
  BY DEF Live, SameTurn
<1>4. ~Live(seen)'
  BY DEF Live, Answered, Event
<1>5. \A i \in 1..Len(tasks) : LiveTask(i)' <=> LiveTask(i)
  BY <1>1 DEF LiveTask, Live, SameTurn
<1>6. \A i \in 1..Len(tasks') : i = Len(tasks) + 1 /\ LiveTask(i)' => Live(seen)
  BY <1>1 DEF LiveTask, Live, SameTurn
<1>7. OneTurn'
  <2>1. CASE Live(seen)
    <3>1. /\ Waits /\ seen = Current
          /\ \A j \in 1..Len(stream) : ~Live(stream[j])
      BY <2>1 DEF OneTurn
    <3>2. \A i \in 1..Len(tasks) : ~LiveTask(i)
      BY <2>1 DEF OneTurn
    <3>3. \A i \in 1..Len(tasks') : LiveTask(i)' => i = Len(tasks) + 1 /\ tasks'[i].to = Current'
      BY <1>1, <1>2, <1>5, <3>1, <3>2 DEF SameTurn
    <3>4. \A j \in 1..Len(stream') : ~Live(stream[j])'
      BY <3>1 DEF Live, SameTurn
    <3> QED
      BY <1>4, <3>1, <3>3, <3>4 DEF OneTurn, SameTurn
  <2>2. CASE ~Live(seen)
    <3>1. \A i \in 1..Len(tasks') : LiveTask(i)' => i \in 1..Len(tasks) /\ LiveTask(i)
      BY <1>2, <1>5, <1>6, <2>2
    <3>2. ASSUME NEW i \in 1..Len(tasks'), LiveTask(i)'
          PROVE  /\ Waits' /\ tasks'[i].to = Current'
                 /\ \A j \in 1..Len(tasks') : LiveTask(j)' => i = j
                 /\ \A j \in 1..Len(stream') : ~Live(stream[j])'
      BY <1>1, <1>3, <3>1, <3>2 DEF OneTurn, SameTurn, Live
    <3>3. ASSUME NEW i \in 1..Len(stream'), Live(stream[i])'
          PROVE  /\ Waits' /\ stream'[i] = Current'
                 /\ \A j \in 1..Len(stream') : Live(stream[j])' => i = j
      BY <3>3 DEF OneTurn, SameTurn, Live
    <3> QED
      BY <1>4, <3>2, <3>3 DEF OneTurn
  <2> QED
    BY <2>1, <2>2
<1>8. Told'
  <2>1. ASSUME Waits, stream # <<>>, stream[Len(stream)] = Current PROVE Told'
    BY <2>1 DEF Told, Stopped, SameTurn
  <2>2. ASSUME Waits, stream = <<>>, seen = Current PROVE Told'
    <3>1. \A i \in 1..Len(tasks') : i = Len(tasks) + 1 => Pending(tasks[i])'
      BY <1>1, <2>2 DEF Pending, SameTurn
    <3> QED
      BY <1>1, <2>2, <3>1 DEF Told
  <2>3. ASSUME Waits, stream = <<>>, NEW i \in 1..Len(tasks), Pending(tasks[i]) PROVE Told'
    <3>1. Pending(tasks[i])'
      BY <1>1, <2>3 DEF Pending, SameTurn
    <3> QED
      BY <1>1, <2>3, <3>1 DEF Told
  <2>4. ASSUME Waits, stream = <<>>, seen = Answered, Stopped PROVE Told'
    BY <2>4 DEF Told, Stopped, SameTurn
  <2> QED
    BY <2>1, <2>2, <2>3, <2>4 DEF Told, SameTurn
<1> QED
  BY <1>7, <1>8

\* The client's stop is stored: nobody's turn, if it was the client's.
LEMMA TurnOnStop ==
    ASSUME OneTurn, Told, Waits' <=> Waits, Current' = Current,
           UNCHANGED <<cut, tasks, stream>>, seen.type = "debug", seen' = Answered,
           stored' = stored \cup {seen.id}
    PROVE  OneTurn' /\ Told'
<1>1. \A u : Live(u)' <=> Live(u)
  BY DEF Live
<1>2. ~Live(seen)' /\ \A i \in 1..Len(tasks) : LiveTask(i)' <=> LiveTask(i)
  BY DEF LiveTask, Live, Answered, Event
<1>3. OneTurn'
  BY <1>1, <1>2 DEF OneTurn, Live
<1>4. ASSUME Waits PROVE Told'
  <2>1. CASE stream = <<>> /\ seen = Current
    BY <2>1 DEF Told, Stopped
  <2>2. CASE \E i \in 1..Len(tasks) : stream = <<>> /\ Pending(tasks[i])
    <3>1. \E i \in 1..Len(tasks') : Pending(tasks[i])'
      BY <2>2 DEF Pending
    <3> QED
      BY <2>2, <3>1 DEF Told
  <2>3. CASE stream # <<>> /\ stream[Len(stream)] = Current
    BY <2>3 DEF Told
  <2> QED
    BY <1>4, <2>1, <2>2, <2>3 DEF Told, Answered, Event
<1> QED
  BY <1>3, <1>4 DEF Told

\* The client reads: its turn comes with the event.
LEMMA TurnOnRead ==
    ASSUME TypeOK, OneTurn, Told, SameTurn, stream # <<>>, seen' = Head(stream),
           stream' = Tail(stream), UNCHANGED tasks
    PROVE  OneTurn' /\ Told'
<1>1. /\ Len(stream) \in Nat \ {0} /\ Len(stream') = Len(stream) - 1 /\ seen' = stream[1]
      /\ stream' \in Seq(Events)
      /\ \A i \in 1..Len(stream') : stream'[i] = stream[i + 1]
  BY HeadTailProperties DEF TypeOK
<1>2. /\ 1 \in 1..Len(stream)
      /\ \A i \in 1..Len(stream') : i + 1 \in 1..Len(stream) /\ i + 1 # 1
  BY <1>1
<1>3. \A u : Live(u)' <=> Live(u)
  BY DEF Live, SameTurn
<1>4. \A i \in 1..Len(tasks') : LiveTask(i)' <=> LiveTask(i)
  BY DEF LiveTask, Live, SameTurn
<1>5. Live(seen)' <=> Live(stream[1])
  BY <1>1 DEF Live, SameTurn
<1>6. \A i \in 1..Len(stream') : Live(stream[i])' <=> Live(stream[i + 1])
  BY <1>1 DEF Live, SameTurn
<1>7. OneTurn'
  <2>1. ASSUME NEW i \in 1..Len(tasks'), LiveTask(i)'
        PROVE  /\ Waits' /\ tasks'[i].to = Current' /\ ~Live(seen)'
               /\ \A j \in 1..Len(tasks') : LiveTask(j)' => i = j
               /\ \A j \in 1..Len(stream') : ~Live(stream[j])'
    BY <1>2, <1>4, <1>5, <1>6, <2>1 DEF OneTurn, SameTurn
  <2>2. ASSUME Live(seen)'
        PROVE  /\ Waits' /\ seen' = Current'
               /\ \A j \in 1..Len(stream') : ~Live(stream[j])'
    BY <1>1, <1>2, <1>5, <1>6, <2>2 DEF OneTurn, SameTurn
  <2>3. ASSUME NEW i \in 1..Len(stream'), Live(stream[i])'
        PROVE  /\ Waits' /\ stream'[i] = Current'
               /\ \A j \in 1..Len(stream') : Live(stream[j])' => i = j
    <3>1. \A j \in 1..Len(stream') : i + 1 = j + 1 => i = j
      OBVIOUS
    <3> QED
      BY <1>1, <1>2, <1>6, <2>3, <3>1 DEF OneTurn, SameTurn
  <2> QED
    BY <2>1, <2>2, <2>3 DEF OneTurn
<1>8. Told'
  <2>1. Waits => stream[Len(stream)] = Current
    BY DEF Told
  <2>2. CASE Len(stream) = 1
    <3>1. stream' = <<>> /\ seen' = stream[Len(stream)]
      BY <1>1, <2>2
    <3> QED
      BY <2>1, <3>1 DEF Told, Stopped, SameTurn
  <2>3. CASE Len(stream) # 1
    <3>1. Len(stream') \in 1..Len(stream') /\ Len(stream') + 1 = Len(stream)
      BY <1>1, <2>3
    <3>3. stream' # <<>>
      BY <3>1
    <3>2. stream'[Len(stream')] = stream[Len(stream)]
      BY <1>1, <3>1
    <3> QED
      BY <2>1, <3>2, <3>3 DEF Told, Stopped, SameTurn
  <2> QED
    BY <2>2, <2>3
<1> QED
  BY <1>7, <1>8

\* A task has run that was not the one the main thread waits for.
LEMMA TurnOnTask ==
    ASSUME TypeOK, OneTurn, Told, SameTurn, tasks # <<>>, tasks' = Tail(tasks),
           ~Pending(Head(tasks)), UNCHANGED <<stream, seen, stored>>
    PROVE  OneTurn' /\ Told'
<1>1. /\ Len(tasks) \in Nat \ {0} /\ Len(tasks') = Len(tasks) - 1 /\ Head(tasks) = tasks[1]
      /\ \A i \in 1..Len(tasks') : tasks'[i] = tasks[i + 1]
  BY HeadTailProperties DEF TypeOK
<1>2. \A i \in 1..Len(tasks') : i + 1 \in 1..Len(tasks)
  BY <1>1
<1>3. \A u : Live(u)' <=> Live(u)
  BY DEF Live, SameTurn
<1>4. \A i \in 1..Len(tasks') : LiveTask(i)' <=> LiveTask(i + 1)
  BY <1>1 DEF LiveTask, Live, SameTurn
<1>5. OneTurn'
  <2>1. ASSUME NEW i \in 1..Len(tasks'), LiveTask(i)'
        PROVE  /\ Waits' /\ tasks'[i].to = Current' /\ ~Live(seen)'
               /\ \A j \in 1..Len(tasks') : LiveTask(j)' => i = j
               /\ \A j \in 1..Len(stream') : ~Live(stream[j])'
    <3>1. \A j \in 1..Len(tasks') : i + 1 = j + 1 => i = j
      OBVIOUS
    <3> QED
      BY <1>1, <1>2, <1>4, <2>1, <3>1 DEF OneTurn, SameTurn, Live
  <2>2. Live(seen)' => /\ Waits' /\ seen' = Current'
                       /\ \A j \in 1..Len(stream') : ~Live(stream[j])'
    BY <1>3 DEF OneTurn, SameTurn, Live
  <2>3. ASSUME NEW i \in 1..Len(stream'), Live(stream[i])'
        PROVE  /\ Waits' /\ stream'[i] = Current'
               /\ \A j \in 1..Len(stream') : Live(stream[j])' => i = j
    BY <2>3 DEF OneTurn, SameTurn, Live
  <2> QED
    BY <2>1, <2>2, <2>3 DEF OneTurn
<1>6. Told'
  <2>1. ASSUME Waits, stream = <<>>, NEW i \in 1..Len(tasks), Pending(tasks[i]) PROVE Told'
    <3>1. i # 1
      BY <1>1, <2>1
    <3>2. PICK j \in 1..Len(tasks') : tasks'[j] = tasks[i]
      <4>1. i - 1 \in 1..Len(tasks') /\ (i - 1) + 1 = i
        BY <1>1, <3>1
      <4> QED
        BY <1>1, <4>1
    <3>3. Pending(tasks[j])'
      BY <2>1, <3>2 DEF Pending, SameTurn
    <3> QED
      BY <2>1, <3>3 DEF Told
  <2> QED
    BY <2>1 DEF Told, Stopped, SameTurn
<1> QED
  BY <1>5, <1>6

\* No activation is new: a command inside another was typed at the debugger.
LEMMA AtPromptsKept ==
    ASSUME StackOK, AtPrompts,
           \/ UNCHANGED stack
           \/ stack # <<>> /\ \E a \in Ats : Goes(a)
           \/ stack # <<>> /\ stack' = Below
           \/ Jumps
    PROVE  AtPrompts'
<1>1. Len(stack) \in Nat
  BY StackFacts
<1>2. ASSUME NEW n \in 1..Len(stack), Len(stack') \in Nat, Len(stack') <= Len(stack),
             \A i \in 1..Len(stack') : stack'[i].kind = stack[i].kind
      PROVE  AtPrompts'
  <2>1. \A i \in 2..Len(stack') : /\ i \in 1..Len(stack') /\ i - 1 \in 1..Len(stack')
                                 /\ i \in 2..Len(stack)
    BY <1>1, <1>2
  <2> QED
    BY <1>2, <2>1 DEF AtPrompts
<1>3. CASE UNCHANGED stack
  BY <1>3 DEF AtPrompts
<1>4. CASE stack # <<>> /\ \E a \in Ats : Goes(a)
  BY <1>1, <1>2, <1>4, GoesFacts, StackFacts
<1>5. CASE stack # <<>> /\ stack' = Below
  <2>1. \A l \in Nat \ {0} : l - 1 \in Nat /\ l - 1 <= l
    OBVIOUS
  <2> QED
    BY <1>1, <1>2, <1>5, <2>1, BelowFacts, StackFacts
<1>6. CASE Jumps
  <2>1. \A l \in Nat : l > 1 => l - 1 \in Nat /\ l - 1 <= l /\ 1 \in 1..l
    OBVIOUS
  <2> QED
    BY <1>1, <1>2, <1>6, <2>1, JumpsFacts
<1> QED
  BY <1>3, <1>4, <1>5, <1>6

\* Which loop a closure that tests replState finds.
LEMMA StateTells ==
    ASSUME StackOK, AtLoop
    PROVE  /\ stack = <<>> => replState = "PROMPT" /\ Current = Event("prompt", 0)
           /\ stack # <<>> => /\ IsRequest(Top) /\ Top.at = "loop"
                              /\ Current = Event(Top.kind, Top.id)
           /\ replState = "READ_LINE" <=> Current.type = "readline"
           /\ replState = "DEBUG_PROMPT" <=> Current.type = "debug"
           /\ replState = "SUBPROCESS_INPUT" <=> Current.type = "subprocess"
<1>1. CASE stack = <<>>
  BY <1>1, LoopFacts DEF Current, Event
<1>2. CASE stack # <<>>
  <2>1. Top.at = "loop" /\ IsRequest(Top) /\ replState = StateOf[Top.kind]
    BY <1>2, LoopFacts DEF AtLoop
  <2>2. Current = Event(Top.kind, Top.id) /\ Current.type = Top.kind
    BY <1>2 DEF Current, Event
  <2> QED
    BY <1>2, <2>1, <2>2 DEF IsRequest, Requests, StateOf
<1> QED
  BY <1>1, <1>2

LEMMA TurnsAfterTask ==
    ASSUME TypeOK, StackOK, RefsFit, OneTurn, Told, AtPrompts, RunTask, 0 \notin cut'
    PROVE  OneTurn' /\ Told' /\ AtPrompts'
<1> DEFINE t == Head(tasks)
<1>1. /\ tasks # <<>> /\ tasks' = Tail(tasks) /\ AtLoop
      /\ UNCHANGED <<stream, seen, count, stored>>
      /\ \/ Execute(t) \/ Answer(t) \/ Input(t) \/ InterruptLine(t)
         \/ InterruptProcess(t) \/ ProcessEnded(t) \/ Ignore(t)
  BY DEF RunTask, client
<1>2. t \in Tasks /\ Meets(t) /\ Fits(t.to)
  <2>1. tasks[1] = t /\ 1 \in 1..Len(tasks) /\ t \in Tasks
    BY <1>1, HeadTailProperties DEF TypeOK
  <2> QED
    BY <2>1 DEF RefsFit, TasksFit
<1>3. t.to \in Events /\ Head(tasks) = t
  BY <1>2 DEF Tasks
<1> HIDE DEF t
<1>4. ASSUME NoneLive', ~Waits' PROVE OneTurn' /\ Told'
  BY <1>4, NobodysTurn DEF Told
<1>5. ASSUME stack # <<>>, Goes("busy") PROVE ~Waits' /\ AtPrompts'
  BY <1>5, GoesOn, AtPromptsKept DEF Ats
<1>6. ASSUME UNCHANGED <<stack, cut, stored>> PROVE SameTurn /\ AtPrompts'
  BY <1>6 DEF SameTurn, Waits, Current, Top, AtPrompts
<1>7. CASE Execute(t)
  <2> DEFINE f == [kind |-> "command", saved |-> replState, id |-> 0, at |-> "ask"]
  <2>1. t.to = Current /\ t.op \in Answers /\ cut \subseteq cut'
    BY <1>7 DEF Execute, Answers
  <2>2. NoneLive'
    BY <1>1, <1>3, <2>1, TurnTaken
  <2>3. f \in Frames /\ stack' = Append(stack, f)
    BY <1>7, ReplAssumption DEF Execute, Frames, StackOK, Ids
  <2>4. f.kind = "command" /\ f.at = "ask"
    OBVIOUS
  <2> HIDE DEF f
  <2>5. /\ Len(stack) \in Nat /\ Len(stack') = Len(stack) + 1 /\ stack'[Len(stack) + 1] = f
        /\ \A i \in 1..Len(stack) : stack'[i] = stack[i]
    BY <2>3, AppendProperties DEF StackOK
  <2>6. ~Waits'
    <3>1. stack' # <<>> /\ Top' = f
      BY <2>5 DEF Top
    <3> QED
      BY <2>4, <3>1 DEF Waits
  <2>7. stack # <<>> => Top.kind = "debug"
    BY <1>1, <1>2, <1>7, <2>1, StateTells DEF Meets, Execute, Event, IsRequest, Requests
  <2>8. AtPrompts'
    <3>1. ASSUME NEW i \in 2..Len(stack'), stack'[i].kind = "command"
          PROVE  stack'[i - 1].kind = "debug"
      <4>1. i \in 2..Len(stack) \/ i = Len(stack) + 1
        BY <2>5
      <4>2. CASE i \in 2..Len(stack)
        <5>1. i \in 1..Len(stack) /\ i - 1 \in 1..Len(stack)
          BY <2>5, <4>2
        <5> QED
          BY <2>5, <3>1, <4>2, <5>1 DEF AtPrompts
      <4>3. CASE i = Len(stack) + 1
        <5>1. i - 1 = Len(stack) /\ Len(stack) \in 1..Len(stack) /\ stack # <<>>
          BY <2>5, <4>3
        <5> QED
          BY <2>5, <2>7, <5>1 DEF Top
      <4> QED
        BY <4>1, <4>2, <4>3
    <3> QED
      BY <3>1 DEF AtPrompts
  <2> QED
    BY <1>4, <2>2, <2>6, <2>8
<1>8. CASE Answer(t)
  <2>1. /\ stack # <<>> /\ IsRequest(Top) /\ Current = Event(Top.kind, Top.id)
        /\ cut \subseteq cut' /\ t.op \in Answers /\ Goes("busy")
    BY <1>1, <1>8, StateTells DEF Answer, Answers
  <2>2. CASE t.to.id = Top.id
    <3>1. t.to.type = Current.type
      <4>1. /\ t.op = "readln" => Current.type = "readline" /\ t.to.type \in {"readline", "subprocess"}
            /\ t.op \in {"continue", "stop"} => Current.type = "debug" /\ t.to.type = "debug"
        BY <1>1, <1>2, <1>8, StateTells DEF Answer, Meets
      <4>2. t.to.type \in Requests => Top.kind = t.to.type
        BY <1>2, <2>1, <2>2, StackFacts DEF Fits
      <4> QED
        BY <1>8, <2>1, <4>1, <4>2 DEF Answer, Requests, Event
    <3>2. t.to = Current
      <4>1. t.to = Event(t.to.type, t.to.id)
        BY <1>3 DEF Events, Event
      <4> QED
        BY <2>1, <2>2, <3>1, <4>1 DEF Event
    <3>3. NoneLive'
      BY <1>1, <1>3, <2>1, <3>2, TurnTaken
    <3> QED
      BY <1>4, <1>5, <2>1, <3>3
  <2>3. CASE t.to.id # Top.id
    <3>1. Current.id \in cut'
      BY <1>8, <2>1, <2>3 DEF Answer, Event
    <3> QED
      BY <1>1, <1>4, <1>5, <2>1, <3>1, TurnCut
  <2> QED
    BY <2>2, <2>3
<1>9. CASE Input(t)
  <2>1. ~Pending(t)
    BY <1>1, <1>9, StateTells DEF Input, Pending
  <2> QED
    BY <1>1, <1>3, <1>6, <1>9, <2>1, TurnOnTask DEF Input
<1>10. CASE InterruptLine(t)
  <2>1. /\ stack # <<>> /\ Current = Event(Top.kind, Top.id) /\ cut \subseteq cut'
        /\ Goes("busy") /\ Current.id \in cut'
    BY <1>1, <1>10, StateTells DEF InterruptLine, Event
  <2> QED
    BY <1>1, <1>4, <1>5, <2>1, TurnCut
<1>11. CASE InterruptProcess(t)
  <2>1. ~Pending(t)
    BY <1>11 DEF InterruptProcess, Pending, Answers
  <2> QED
    BY <1>1, <1>3, <1>6, <1>11, <2>1, TurnOnTask DEF InterruptProcess, main
<1>12. CASE ProcessEnded(t)
  <2>1. CASE stack = <<>>
    <3>1. ~Pending(t) /\ UNCHANGED <<stack, cut, stored>>
      BY <1>1, <1>12, <2>1 DEF ProcessEnded, Pending, Answers
    <3> QED
      BY <1>1, <1>3, <1>6, <3>1, TurnOnTask
  <2>2. CASE stack # <<>>
    <3>1. /\ Current = Event(Top.kind, Top.id) /\ cut \subseteq cut' /\ Goes("busy")
          /\ IsRequest(Top) /\ (t.to.id # Top.id => Top.id \in cut')
      BY <1>1, <1>12, <2>2, StateTells DEF ProcessEnded
    <3>2. t.to.id = Top.id => Top.kind = "subprocess"
      BY <1>2, <1>12, <2>2, <3>1, StackFacts DEF ProcessEnded, Meets, Fits, Requests
    <3>3. Current.type \notin {"prompt", "debug", "readline"} \/ Current.id \in cut'
      BY <3>1, <3>2 DEF Event
    <3> QED
      BY <1>1, <1>4, <1>5, <2>2, <3>1, <3>3, TurnCut
  <2> QED
    BY <2>1, <2>2
<1>13. CASE Ignore(t)
  <2>1. ~Pending(t)
    <3>1. SUFFICES ASSUME t.to = Current, t.op \in Answers PROVE Current.type = "subprocess"
      BY DEF Pending
    <3>2. t.op = "readln" => Current.type = "subprocess"
      BY <1>1, <1>2, <1>13, <3>1, StateTells DEF Ignore, Meets
    <3>3. t.op \notin {"execute", "continue", "stop"}
      BY <1>1, <1>2, <1>13, <3>1, StateTells DEF Ignore, Meets
    <3> QED
      BY <3>1, <3>2, <3>3 DEF Answers
  <2> QED
    BY <1>1, <1>3, <1>6, <1>13, <2>1, TurnOnTask DEF Ignore
<1> QED
  BY <1>1, <1>7, <1>8, <1>9, <1>10, <1>11, <1>12, <1>13

\* Below a request, the code that made it runs on.
LEMMA UnderRequest ==
    ASSUME StackOK, stack # <<>>, IsRequest(Top), stack' = Below
    PROVE  stack' # <<>> /\ Top'.kind = "command" /\ Top'.at = "run"
<1> DEFINE n == Len(stack) - 1
<1>1. Len(stack) # 1 /\ Len(stack) \in 1..Len(stack) /\ Len(stack) \in Nat
  BY StackFacts DEF StackOK, StackShape, IsRequest, Requests
<1>2. n \in 1..n /\ n \in 1..Len(stack) /\ n < Len(stack) /\ n + 1 = Len(stack)
  <2>1. \A l \in Nat : l \in 1..l /\ l # 1 => /\ l - 1 \in 1..(l - 1) /\ l - 1 \in 1..l
                                              /\ l - 1 < l /\ (l - 1) + 1 = l
    OBVIOUS
  <2> QED
    BY <1>1, <2>1
<1>3. stack[n].kind = "command" /\ stack[n].at = "run"
  BY <1>1, <1>2, StackFacts DEF StackOK, StackShape
<1>4. stack' # <<>> /\ Len(stack') = n /\ stack'[n] = stack[n]
  BY <1>1, <1>2, BelowFacts
<1> QED
  BY <1>3, <1>4 DEF Top

\* The main thread goes on without an answer, and does not begin to wait.
LEMMA TurnsWhileBusy ==
    ASSUME TypeOK, StackOK, OneTurn, ~Waits, ~Waits', cut \subseteq cut',
           UNCHANGED <<tasks, seen>>, UNCHANGED stream \/ Push(Answered)
    PROVE  OneTurn' /\ Told'
  BY NotWaiting, NoneLiveKept, NobodysTurn DEF Told

LEMMA TurnsKept ==
    ASSUME TypeOK, StackOK, RefsFit, OneTurn, Told, AtPrompts, [Next]_vars, 0 \notin cut'
    PROVE  OneTurn' /\ Told' /\ AtPrompts'
<1> USE DEF main, vars, processes, client
<1>1. cut \subseteq cut'
  BY CutGrows
<1>2. ASSUME UNCHANGED stack PROVE (Waits' <=> Waits) /\ Current' = Current /\ AtPrompts'
  BY <1>2 DEF Waits, Current, Top, AtPrompts
<1>3. Answered \in Events
  BY ReplAssumption DEF Answered, Event, Events, Ids
<1>4. ASSUME UNCHANGED <<stack, cut, tasks, stream, seen, stored>> PROVE OneTurn' /\ Told' /\ AtPrompts'
  <2>1. Current' = Current /\ (Waits' <=> Waits) /\ AtPrompts'
    BY <1>2, <1>4
  <2>2. \A u : Live(u)' <=> Live(u)
    BY <1>4 DEF Live
  <2>3. \A i \in 1..Len(tasks) : LiveTask(i)' <=> LiveTask(i)
    BY <1>4 DEF Live, LiveTask
  <2> QED
    BY <1>4, <2>1, <2>2, <2>3 DEF OneTurn, Told, Stopped, Live, Pending
<1>5. CASE RunTask
  BY <1>5, TurnsAfterTask
<1>6. CASE LoopInterrupted
  <2>1. CASE stack = <<>>
    BY <1>4, <1>6, <2>1 DEF LoopInterrupted
  <2>2. CASE stack # <<>>
    <3>1. /\ IsRequest(Top) /\ Current = Event(Top.kind, Top.id) /\ Current.id \in cut'
          /\ UNCHANGED <<tasks, stream, seen, stored>>
      BY <1>6, <2>2, StateTells DEF LoopInterrupted, Event
    <3>2. NoneLive'
      BY <1>1, <3>1, TurnCut
    <3>3. CASE Jumps
      <4>1. stack' # <<>> /\ Top'.at = "end"
        BY <3>3, JumpsFacts, StackFacts DEF Top
      <4> QED
        BY <2>2, <3>2, <3>3, <4>1, NobodysTurn, AtPromptsKept DEF Waits, Told
    <3>4. CASE stack' = Below
      <4>1. stack' # <<>> /\ Top'.at = "run"
        BY <2>2, <3>1, <3>4, UnderRequest
      <4> QED
        BY <2>2, <3>2, <3>4, <4>1, NobodysTurn, AtPromptsKept DEF Waits, Told
    <3> QED
      BY <1>6, <2>2, <3>1, <3>3, <3>4 DEF LoopInterrupted, Jumps
  <2> QED
    BY <2>1, <2>2
<1>7. ASSUME NEW kind \in Requests, Ask(kind) PROVE OneTurn' /\ Told' /\ AtPrompts'
  <2> DEFINE f == [kind |-> kind, saved |-> replState, id |-> count.requests + 1, at |-> "ask"]
  <2>1. f \in Frames /\ stack' = Append(stack, f)
    BY <1>7, ReplAssumption DEF Ask, Frames, StackOK, Ids, TypeOK
  <2>2. f.kind # "command" /\ f.at = "ask"
    BY DEF Requests
  <2> HIDE DEF f
  <2>3. /\ Len(stack) \in Nat /\ Len(stack') = Len(stack) + 1 /\ stack'[Len(stack) + 1] = f
        /\ \A i \in 1..Len(stack) : stack'[i] = stack[i]
    BY <2>1, AppendProperties DEF StackOK
  <2>4. stack' # <<>> /\ Top' = f
    BY <2>3 DEF Top
  <2>5. ~Waits /\ ~Waits'
    BY <1>7, <2>2, <2>4 DEF Waits, Ask, Running, TopIs
  <2>6. AtPrompts'
    <3>1. \A i \in 2..Len(stack') : \/ i \in 2..Len(stack) /\ i \in 1..Len(stack)
                                      /\ i - 1 \in 1..Len(stack)
                                   \/ i = Len(stack) + 1
      BY <2>3
    <3> QED
      BY <2>2, <2>3, <3>1 DEF AtPrompts
  <2> QED
    BY <1>1, <1>7, <2>5, <2>6, TurnsWhileBusy DEF Ask
<1>8. CASE Announce
  <2>1. stack # <<>> /\ ~Waits
    BY <1>8 DEF Announce, Waits
  <2>2. CASE Top.kind = "command"
    <3>1. ~Waits' /\ AtPrompts'
      BY <1>8, <2>1, <2>2, GoesOn, AtPromptsKept DEF Announce, Ats
    <3> QED
      BY <1>1, <1>8, <2>1, <2>2, <3>1, TurnsWhileBusy DEF Announce
  <2>3. CASE Top.kind # "command"
    <3> DEFINE e == Event(Top.kind, Top.id)
    <3>1. e \in Events
      BY <2>1, <2>3, TopFacts DEF Event, Events
    <3>2. Waits' /\ Current' = e /\ AtPrompts'
      <4>1. Current = e
        BY <2>1 DEF Current
      <4>2. Goes("asked") /\ "asked" \in Ats
        BY <1>8, <2>3 DEF Announce, Ats
      <4> QED
        BY <2>1, <4>1, <4>2, GoesOn, AtPromptsKept
    <3>3. Push(e)
      BY <1>8, <2>3 DEF Announce
    <3> HIDE DEF e
    <3> QED
      BY <1>1, <1>8, <2>1, <3>1, <3>2, <3>3, NotWaiting, BeginsToWait DEF Announce
  <2> QED
    BY <2>2, <2>3
<1>9. CASE OpenLoop
  <2>1. /\ Waits' /\ Waits /\ Current' = Current /\ AtPrompts'
    BY <1>9, GoesOn, AtPromptsKept DEF OpenLoop, Ats, Waits
  <2>2. UNCHANGED <<cut, tasks, stream, seen, stored>>
    BY <1>9 DEF OpenLoop
  <2>3. \A u : Live(u)' <=> Live(u)
    BY <2>2 DEF Live
  <2>4. \A i \in 1..Len(tasks) : LiveTask(i)' <=> LiveTask(i)
    BY <2>2 DEF Live, LiveTask
  <2> QED
    BY <2>1, <2>2, <2>3, <2>4 DEF OneTurn, Told, Stopped, Live, Pending
<1>10. CASE AnnounceBusy
  <2>1. ~Waits /\ ~Waits' /\ AtPrompts'
    BY <1>10, GoesOn, AtPromptsKept DEF AnnounceBusy, Ats, Waits
  <2> QED
    BY <1>1, <1>10, <2>1, TurnsWhileBusy DEF AnnounceBusy
<1>11. CASE Leave
  <2>1. stack # <<>> /\ IsRequest(Top) /\ ~Waits
    BY <1>11, StackFacts DEF Leave, StackOK, StackShape, Waits
  <2>2. stack' # <<>> /\ Top'.at = "run" /\ stack' = Below
    BY <1>11, <2>1, UnderRequest DEF Leave
  <2>3. ~Waits' /\ AtPrompts'
    BY <2>1, <2>2, AtPromptsKept DEF Waits
  <2> QED
    BY <1>1, <1>11, <2>1, <2>3, TurnsWhileBusy DEF Leave
<1>12. CASE Interrupted \/ Finish
  <2>1. stack # <<>> /\ ~Waits /\ UNCHANGED <<cut, tasks, stream, seen, stored>>
        /\ (UNCHANGED stack \/ Goes("end"))
    BY <1>12 DEF Interrupted, Finish, Running, TopIs, Waits
  <2>2. ~Waits' /\ AtPrompts'
    BY <1>2, <2>1, GoesOn, AtPromptsKept DEF Ats
  <2> QED
    BY <1>1, <2>1, <2>2, TurnsWhileBusy
<1>13. CASE Prompt
  <2>1. stack # <<>> /\ ~Waits /\ stack' = Below /\ UNCHANGED <<tasks, seen, cut>>
    BY <1>13 DEF Prompt, TopIs, Waits
  <2>2. AtPrompts'
    BY <2>1, AtPromptsKept
  <2>3. CASE Len(stack) = 1
    <3>0. replState = "PROMPT" /\ Below = <<>>
      BY <1>13, <2>3, PromptFacts
    <3>1. stack' = <<>> /\ Push(Event("prompt", 0))
      BY <1>13, <2>1, <3>0 DEF Prompt
    <3>2. Event("prompt", 0) \in Events /\ Waits' /\ Current' = Event("prompt", 0)
      BY <3>1, ReplAssumption DEF Event, Events, Ids, Waits, Current
    <3> QED
      BY <1>1, <2>1, <2>2, <3>1, <3>2, NotWaiting, BeginsToWait
  <2>4. CASE Len(stack) # 1
    <3> DEFINE n == Len(stack) - 1
               e == Event("debug", stack[n].id)
    <3>1. /\ Len(stack) \in Nat /\ n \in 1..Len(Below) /\ Len(Below) = n
          /\ Below[n] = stack[n] /\ n \in 1..Len(stack)
          /\ IsRequest(stack[n]) /\ stack[n].at = "loop"
          /\ replState = StateOf[stack[n].kind]
      BY <1>13, <2>4, PromptFacts, StackFacts
    <3>2. stack[n].kind = "debug"
      <4>1. Len(stack) \in 2..Len(stack) /\ Top.kind = "command" /\ Top = stack[Len(stack)]
        BY <1>13, <2>1, <2>4, <3>1 DEF Prompt, TopIs, Top
      <4> QED
        BY <4>1 DEF AtPrompts
    <3>3. Push(e)
      BY <1>13, <3>1, <3>2 DEF Prompt, StateOf
    <3>4. Waits' /\ Current' = e
      <4>1. stack' # <<>> /\ Top' = stack[n]
        BY <2>1, <3>1 DEF Top
      <4> QED
        BY <3>1, <3>2, <4>1 DEF Waits, Current
    <3>5. e \in Events
      BY <3>1, StackFacts DEF Event, Events, Requests
    <3> HIDE DEF e
    <3> QED
      BY <1>1, <2>1, <2>2, <3>3, <3>4, <3>5, NotWaiting, BeginsToWait
  <2> QED
    BY <2>3, <2>4
<1>14. CASE Read
  BY <1>2, <1>14, TurnOnRead DEF Read, SameTurn
<1>15. CASE SendCommand
  <2>1. UNCHANGED <<stack, cut, stream, stored>> /\ seen' = Answered /\ seen.type \in {"prompt", "debug"}
        /\ tasks' = Append(tasks, [op |-> "execute", to |-> seen])
    BY <1>15 DEF SendCommand, Post
  <2>2. \A op \in Answers : [op |-> op, to |-> seen] \in Tasks
    BY DEF Tasks, TypeOK, Answers
  <2> QED
    BY <1>2, <2>1, <2>2, TurnOnAnswer DEF SameTurn, Answers
<1>16. CASE SendAnswer
  <2>1. UNCHANGED <<stack, cut, stream, stored>> /\ seen' = Answered /\ seen.type \in {"readline", "debug"}
        /\ \E op \in Answers : tasks' = Append(tasks, [op |-> op, to |-> seen])
    BY <1>16 DEF SendAnswer, Post, Answers
  <2>2. \A op \in Answers : [op |-> op, to |-> seen] \in Tasks
    BY DEF Tasks, TypeOK, Answers
  <2> QED
    BY <1>2, <2>1, <2>2, TurnOnAnswer DEF SameTurn
<1>22. CASE StopIsStored
  BY <1>2, <1>22, TurnOnStop DEF StopIsStored
<1>17. CASE SendInput
  <2>1. UNCHANGED <<stack, cut, stream, seen, stored>> /\ seen.type = "subprocess"
        /\ \E op \in {"readln", "eof"} : tasks' = Append(tasks, [op |-> op, to |-> seen])
    BY <1>17 DEF SendInput, Post
  <2>2. \A op \in {"readln", "eof"} : [op |-> op, to |-> seen] \in Tasks
    BY DEF Tasks, TypeOK
  <2> QED
    BY <1>2, <2>1, <2>2, TurnOnPost DEF SameTurn
<1>18. CASE InterruptActs
  <2>1. /\ UNCHANGED <<stack, cut, stream, seen, stored>>
        /\ UNCHANGED tasks \/ \E op \in {"nothing", "interruptLine", "interruptProcess"} :
                                  tasks' = Append(tasks, [op |-> op, to |-> Answered])
    BY <1>18 DEF InterruptActs, Post
  <2>2. \A op \in {"nothing", "interruptLine", "interruptProcess"} :
           [op |-> op, to |-> Answered] \in Tasks /\ op \notin Answers
    BY <1>3 DEF Tasks, Answers
  <2> QED
    BY <1>2, <1>4, <2>1, <2>2, TurnOnPost DEF SameTurn
<1>19. ASSUME NEW id \in Ids, SubprocessHandlerStop(id) PROVE OneTurn' /\ Told' /\ AtPrompts'
  <2>1. Event("subprocess", id) \in Events
    BY DEF Event, Events, Requests
  <2>2. [op |-> "processEnded", to |-> Event("subprocess", id)] \in Tasks
        /\ "processEnded" \notin Answers
    BY <2>1 DEF Tasks, Answers
  <2>3. UNCHANGED <<stack, cut, stream, seen, stored>>
        /\ tasks' = Append(tasks, [op |-> "processEnded", to |-> Event("subprocess", id)])
    BY <1>19 DEF SubprocessHandlerStop, Post
  <2> QED
    BY <1>2, <2>2, <2>3, TurnOnPost DEF SameTurn
<1>20. ASSUME NEW id \in Ids, ProcessExits(id) PROVE OneTurn' /\ Told' /\ AtPrompts'
  BY <1>4, <1>20 DEF ProcessExits
<1>21. CASE HandlersDone \/ InterruptReads \/ UNCHANGED vars
  BY <1>4, <1>21 DEF HandlersDone, InterruptReads
<1> QED
  BY <1>5, <1>6, <1>7, <1>8, <1>9, <1>10, <1>11, <1>12, <1>13, <1>14, <1>15, <1>16, <1>17,
     <1>18, <1>19, <1>20, <1>21, <1>22
     DEF Next, MainStep, ProcessStep
---------------------------------------------------------------------------
LEMMA Start == ASSUME Init PROVE IInv
<1> USE DEF Init
<1>1. Answered \in Events /\ Event("prompt", 0) \in Events
  BY ReplAssumption DEF Answered, Event, Events, Ids
<1>2. stream \in Seq(Events) /\ Len(stream) = 1 /\ stream[1] = Event("prompt", 0)
  BY <1>1
<1>3. stack \in Seq(Frames) /\ Len(stack) = 0 /\ tasks \in Seq(Tasks) /\ Len(tasks) = 0
  OBVIOUS
<1>4. TypeOK
  <2>1. Len(stream) <= StreamLimit /\ stream \in Seq(Events)
    BY <1>2, ReplAssumption
  <2>2. count \in [commands : 0..MaxCommands, requests : Ids,
                   interrupts : 0..MaxInterrupts, texts : 0..MaxTexts]
    BY ReplAssumption DEF Ids
  <2>3. seen \in Events /\ replState \in States /\ reading \in States \cup {"nothing"}
    BY <1>1 DEF States
  <2>4. running \subseteq Ids /\ ended \subseteq Ids /\ cut \subseteq Ids /\ stored \subseteq Ids
        /\ interrupt \in BOOLEAN /\ active \in BOOLEAN
    OBVIOUS
  <2> QED
    BY <1>3, <2>1, <2>2, <2>3, <2>4 DEF TypeOK
<1>5. StackShape /\ StateFits
  BY <1>3 DEF StackShape, StateFits, TopIs
<1>6. \A e : e.id = 0 /\ e.type \notin Requests => Fits(e)
  BY ReplAssumption DEF Fits
<1>7. RefsFit
  <2>1. Fits(Answered) /\ Fits(stream[1])
    BY <1>2, <1>6 DEF Answered, Event, Requests
  <2> QED
    BY <1>2, <1>3, <2>1 DEF RefsFit, TasksFit, StreamFits, ProcessesFit, FramesFit
<1>8. Turns
  <2>1. Waits /\ Current = Event("prompt", 0) /\ ~Live(seen)
    BY DEF Waits, Current, Live, Answered, Event
  <2>2. OneTurn /\ Told
    BY <1>2, <1>3, <2>1 DEF OneTurn, Told
  <2>3. AtPrompts
    BY <1>3 DEF AtPrompts
  <2> QED
    BY <2>2, <2>3 DEF Turns
<1> QED
  BY <1>4, <1>5, <1>7, <1>8 DEF IInv

LEMMA Inductive == ASSUME IInv, [Next]_vars PROVE IInv'
<1>1. TypeOK /\ StackOK /\ RefsFit
  BY DEF IInv, StackOK, TypeOK
<1>2. TypeOK' /\ RefsFit'
  BY <1>1, TypesKept, RefsStayFit
<1>3. StackShape' /\ StateFits'
  BY <1>1, StepsOfStack, StackKept DEF StackOK
<1>4. Turns'
  <2>1. 0 \notin cut' => 0 \notin cut
    BY CutGrows
  <2> QED
    BY <1>1, <2>1, TurnsKept DEF IInv, Turns
<1> QED
  BY <1>2, <1>3, <1>4 DEF IInv

\* In every state the stack has its shape, replState is what it should be, and
\* unless a command has gone astray the request waited for is on its way to
\* the client, shown, answered by one task, or stopped while it opened.
THEOREM Invariance == Spec => []IInv
  BY Start, Inductive, PTL DEF Spec

\* The variables keep their types: replState is one of the five states, and
\* asyncEvents never holds more than its limit.
THEOREM Types == Spec => []TypeOK
<1>1. IInv => TypeOK
  BY DEF IInv
<1> QED
  BY <1>1, Invariance, PTL

\* Neither side waits for the other, however long they talk: when the main
\* thread sits in a loop with nothing queued and nothing left to read, the
\* client shows the request that loop waits for, but for a debug prompt whose
\* stop was stored while it opened, and after a command has gone astray.
THEOREM QuietIsTold == Spec => []QuietMeansTold
<1>1. IInv => QuietMeansTold
  <2>1. ASSUME IInv, AtLoop, tasks = <<>>, stream = <<>>, 0 \notin cut
        PROVE  seen = Current \/ (seen = Answered /\ StopLost)
    <3>1. Waits /\ Told
      BY <2>1 DEF AtLoop, Waits, IInv, Turns
    <3>2. Len(tasks) = 0
      BY <2>1
    <3>3. Stopped => StopLost
      BY <2>1 DEF Stopped, StopLost, TopIs, Current, Event, AtLoop
    <3> QED
      BY <2>1, <3>1, <3>2, <3>3 DEF Told
  <2> QED
    BY <2>1 DEF QuietMeansTold
<1> QED
  BY <1>1, Invariance, PTL

\* What the client sends goes where the client meant it to.
THEOREM AnswersAreTaken == Spec => AnswersCount
<1> DEFINE A == RunTask /\ Head(tasks).op \in {"execute", "readln", "continue", "stop"}
               /\ Head(tasks).to.type # "subprocess"
               /\ {Head(tasks).to.id, 0} \cap cut = {}
               => /\ Head(tasks).to = Current
                  /\ Head(tasks).op # "execute" => stack'[Len(stack)].at = "busy"
           t == Head(tasks)
<1>1. ASSUME IInv, RunTask, t.op \in Answers, t.to.type # "subprocess",
             t.to.id \notin cut, 0 \notin cut
      PROVE  t.to = Current /\ (t.op # "execute" => stack'[Len(stack)].at = "busy")
  <2>1. StackOK /\ TypeOK /\ OneTurn /\ TasksFit /\ AtLoop
    BY <1>1 DEF IInv, StackOK, TypeOK, Turns, RefsFit, RunTask
  <2>2. t = tasks[1] /\ 1 \in 1..Len(tasks) /\ t \in Tasks /\ Meets(t)
    <3>1. t = tasks[1] /\ 1 \in 1..Len(tasks) /\ t \in Tasks
      BY <1>1, <2>1, HeadTailProperties DEF TypeOK, RunTask
    <3> QED
      BY <2>1, <3>1 DEF TasksFit
  <2>3. t.to = Current
    <3>1. t.to.type \in {"prompt", "debug", "readline"}
      BY <1>1, <2>2 DEF Meets, Answers
    <3> QED
      BY <1>1, <2>1, <2>2, <3>1 DEF OneTurn, LiveTask, Live
  <2>4. ASSUME t.op # "execute" PROVE stack'[Len(stack)].at = "busy"
    <3>1. \/ t.op = "readln" /\ replState = "READ_LINE"
          \/ t.op \in {"continue", "stop"} /\ replState = "DEBUG_PROMPT"
      BY <1>1, <2>1, <2>2, <2>3, <2>4, StateTells DEF Meets, Answers
    <3>2. Answer(t)
      BY <1>1, <3>1 DEF RunTask, Execute, Input, InterruptLine, InterruptProcess, ProcessEnded,
                        Ignore
    <3>3. stack # <<>> /\ Goes("busy")
      BY <2>1, <3>1, <3>2, LoopFacts DEF Answer
    <3> QED
      BY <2>1, <3>3, GoesFacts DEF Ats
  <2> QED
    BY <2>3, <2>4
<1>2. IInv => A
  BY <1>1 DEF Answers
<1>3. IInv /\ [Next]_vars => [A]_vars
  BY <1>2
<1> QED
  BY <1>3, Invariance, PTL DEF Spec, AnswersCount
===========================================================================
