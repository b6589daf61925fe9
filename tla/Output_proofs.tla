--------------------------- MODULE Output_proofs ---------------------------
(***************************************************************************)
(* The way of a text, for every value of the constants.                    *)
(*                                                                         *)
(* BlockingQueue: a queue with a limit, in which with one reader a wake-up *)
(* is never wasted.                                                        *)
(* Output, written: ids of the calls in force grow with the stack and are  *)
(* given once, so a thread that holds the mutex and finds its child's id   *)
(* is current finds its child's handler too (HandlerInv).                  *)
(* Output, read: what the client got, what the reader in charge has cached *)
(* and what is still queued are consecutive stretches of what was pushed   *)
(* (ReadingInv); only a call that was cancelled may have lost some.        *)
(* PrintedValue: where the handler of the call is in force, a pending      *)
(* interrupt is one that is accounted for (PrintInv).                      *)
(***************************************************************************)
EXTENDS BlockingQueue, Output, PrintedValue, SequenceTheorems, TLAPS

USE DEF Threads

\* Every step keeps the types.
LEMMA TypeStep == TypeOK /\ [Next]_vars => TypeOK'
<1> SUFFICES ASSUME TypeOK, [Next]_vars PROVE TypeOK'
  OBVIOUS
<1> USE QueueAssumption DEF TypeOK, HasRoom, Asleep, Sleep
<1>1. ASSUME NEW t \in Threads, LeaveAndNotifyOne(t)
      PROVE  /\ pc' \in [Threads -> {"ready", "asleep", "awake", "late"}]
             /\ \A p \in Producers : pc'[p] # "late"
  <2>1. CASE Asleep \ {t} = {}
    BY <1>1, <2>1 DEF LeaveAndNotifyOne
  <2>2. CASE Asleep \ {t} # {}
    <3>1. PICK u \in Asleep \ {t} : pc' = [pc EXCEPT ![t] = "ready", ![u] = "awake"]
      BY <1>1, <2>2 DEF LeaveAndNotifyOne
    <3> QED
      BY <3>1
  <2> QED
    BY <2>1, <2>2
<1> HIDE DEF Asleep
<1>2. ASSUME NEW p \in Producers, Producer(p) PROVE TypeOK'
  <2>1. value' \in [Producers -> Values] /\ maxSize' = maxSize /\ PushOrSleep(p)
    BY <1>2 DEF Producer, Push, PushResume
  <2>2. CASE queue' = Append(queue, value'[p]) /\ LeaveAndNotifyOne(p)
    BY <1>1, <2>1, <2>2
  <2>3. CASE Sleep(p)
    BY <2>1, <2>3
  <2> QED
    BY <2>1, <2>2, <2>3 DEF PushOrSleep
<1>3. ASSUME NEW c \in Consumers, Consumer(c) PROVE TypeOK'
  <2>1. CASE TakeOldest(c) /\ UNCHANGED <<maxSize, value>>
    BY <1>1, <2>1 DEF TakeOldest
  <2>2. CASE SetMaxSize(c)
    BY <1>1, <2>2 DEF SetMaxSize
  <2>3. CASE /\ \E s \in {"asleep", "late", "ready"} : pc' = [pc EXCEPT ![c] = s]
             /\ UNCHANGED <<queue, maxSize, value>>
    BY <2>3
  <2> QED
    BY <1>3, <2>1, <2>2, <2>3 DEF Consumer, PopWithDeadline, PopResume, Deadline
<1>4. CASE UNCHANGED vars
  BY <1>4 DEF vars
<1> QED
  BY <1>2, <1>3, <1>4 DEF Next

\* Every variable keeps its type.
THEOREM TypeCorrect == Spec => []TypeOK
<1>1. Init => TypeOK
  BY DEF Init, TypeOK
<1> QED
  BY <1>1, TypeStep, PTL DEF Spec

\* Values leave the queue once each and in order, and no push passes the
\* limit, for every number of readers and writers (all of BlockingQueue.h).
THEOREM Refinement == Spec => ImplementsFifo
<1>1. Init => Fifo!FifoInit
  BY DEF Init, Fifo!FifoInit
<1>2. TypeOK /\ TypeOK' /\ [Next]_vars => [Fifo!FifoNext]_(Fifo!fifoVars)
  <2> SUFFICES ASSUME TypeOK, TypeOK', [Next]_vars
               PROVE  Fifo!FifoNext \/ UNCHANGED <<queue, maxSize>>
    BY DEF Fifo!fifoVars
  <2>1. ASSUME NEW p \in Producers, Producer(p)
        PROVE  (\E v \in Values : Fifo!Put(v)) \/ UNCHANGED <<queue, maxSize>>
    <3>1. maxSize' = maxSize /\ PushOrSleep(p) /\ value'[p] \in Values
      BY <2>1 DEF Producer, Push, PushResume, TypeOK
    <3> QED
      BY <3>1 DEF PushOrSleep, Sleep, HasRoom, Fifo!Put
  <2>2. ASSUME NEW c \in Consumers, Consumer(c)
        PROVE  Fifo!Take \/ Fifo!Resize \/ UNCHANGED <<queue, maxSize>>
    <3>1. maxSize' \in Nat
      BY QueueAssumption DEF TypeOK
    <3> QED
      BY <2>2, <3>1 DEF Consumer, PopWithDeadline, PopResume, Deadline, SetMaxSize,
                        TakeOldest, Sleep, Fifo!Take, Fifo!Resize
  <2>3. CASE UNCHANGED vars
    BY <2>3 DEF vars
  <2> QED
    BY <2>1, <2>2, <2>3 DEF Next, Fifo!FifoNext
<1> QED
  BY <1>1, <1>2, TypeCorrect, PTL DEF Spec, ImplementsFifo, Fifo!FifoSpec
---------------------------------------------------------------------------
\* What is inductive with a single reader r: a sleeping writer beside room
\* has a wake-up under way that will reach it, through another writer or
\* through a reader that finds something to take.
OneReader(r) ==
    /\ TypeOK
    /\ pc[r] = "awake" => queue # <<>>
    /\ (\E p \in Producers : pc[p] = "asleep") /\ HasRoom
         => \/ \E p \in Producers : pc[p] = "awake"
            \/ pc[r] \in {"awake", "late"} /\ queue # <<>>

\* notify_one reaches a sleeper, if there is one.
LEMMA NotifyReaches ==
    ASSUME TypeOK, NEW t \in Threads, LeaveAndNotifyOne(t)
    PROVE  \/ \E u \in Threads \ {t} :
                  pc[u] = "asleep" /\ pc' = [pc EXCEPT ![t] = "ready", ![u] = "awake"]
           \/ /\ \A u \in Threads \ {t} : pc[u] # "asleep"
              /\ pc' = [pc EXCEPT ![t] = "ready"]
  BY DEF LeaveAndNotifyOne, Asleep, TypeOK

\* With one reader every step keeps the invariant.
LEMMA OneReaderStep ==
    ASSUME NEW r, Consumers = {r}, OneReader(r), [Next]_vars
    PROVE  OneReader(r)'
<1> USE QueueAssumption DEF OneReader
<1>1. TypeOK' /\ r \in Threads /\ r \notin Producers /\ Producers \subseteq Threads
  BY TypeStep
<1>2. ASSUME NEW p \in Producers, Producer(p) PROVE OneReader(r)'
  <2>1. maxSize' = maxSize /\ PushOrSleep(p) /\ pc[p] \in {"ready", "awake"}
    BY <1>2 DEF Producer, Push, PushResume
  <2>2. CASE HasRoom /\ queue' = Append(queue, value'[p]) /\ LeaveAndNotifyOne(p)
    <3>1. queue' # <<>>
      BY <1>1, <2>2 DEF TypeOK
    <3> QED
      BY <1>1, <2>1, <2>2, <3>1, NotifyReaches DEF TypeOK
  <2>3. CASE ~HasRoom /\ Sleep(p)
    BY <1>1, <2>1, <2>3 DEF Sleep, HasRoom, TypeOK
  <2> QED
    BY <2>1, <2>2, <2>3 DEF PushOrSleep
<1>3. ASSUME Consumer(r) PROVE OneReader(r)'
  <2>1. CASE LeaveAndNotifyOne(r)
    BY <1>1, <2>1, NotifyReaches DEF TypeOK
  <2>2. CASE queue = <<>> /\ Sleep(r) /\ pc[r] \in {"ready", "awake"} /\ maxSize' = maxSize
    BY <1>1, <2>2 DEF Sleep, HasRoom, TypeOK
  <2>3. CASE /\ queue = <<>> /\ pc[r] = "late" /\ pc' = [pc EXCEPT ![r] = "ready"]
             /\ UNCHANGED <<queue, maxSize>>
    BY <1>1, <2>3 DEF HasRoom, TypeOK
  <2>4. CASE Deadline(r)
    BY <1>1, <2>4 DEF Deadline, HasRoom, TypeOK
  <2> QED
    BY <1>3, <2>1, <2>2, <2>3, <2>4
       DEF Consumer, PopWithDeadline, PopResume, TakeOldest, SetMaxSize
<1>4. CASE UNCHANGED vars
  BY <1>1, <1>4 DEF vars, HasRoom, TypeOK
<1> QED
  BY <1>2, <1>3, <1>4 DEF Next

\* With a single getAsyncEvents thread the one condition variable is enough,
\* whatever the limit and the number of writers.
THEOREM NoLostRoom ==
    ASSUME NEW CONSTANT r, Consumers = {r}
    PROVE  Spec => []NoSleeperBesideRoom
<1>1. Init => OneReader(r)
  BY DEF Init, OneReader, TypeOK
<1>2. OneReader(r) /\ [Next]_vars => OneReader(r)'
  BY OneReaderStep
<1>3. OneReader(r) => NoSleeperBesideRoom
  BY DEF OneReader, NoSleeperBesideRoom
<1> QED
  BY <1>1, <1>2, <1>3, PTL DEF Spec

--------------------------------------------------------------------------
\* The last element of a sequence, and what comes before it.
LEMMA LastFacts ==
    ASSUME NEW S, NEW s \in Seq(S), s # <<>>
    PROVE  /\ Len(s) \in Nat \ {0}
           /\ Last(s) = s[Len(s)] /\ Last(s) \in S
           /\ Front(s) \in Seq(S) /\ Len(Front(s)) = Len(s) - 1
           /\ \A i \in 1..Len(s) - 1 : Front(s)[i] = s[i]
<1>1. Len(s) \in Nat \ {0}
  OBVIOUS
<1> DEFINE n == Len(s) - 1
<1>2. n \in 0..Len(s)
  BY <1>1
<1> HIDE DEF n
<1>3. /\ SubSeq(s, 1, n) \in Seq(S)
      /\ Len(SubSeq(s, 1, n)) = n
      /\ \A i \in 1..n : SubSeq(s, 1, n)[i] = s[i]
  BY <1>2
<1>4. Front(s) = SubSeq(s, 1, n) /\ Last(s) = s[Len(s)]
  BY DEF Front, Last, n
<1> QED
  BY <1>1, <1>2, <1>3, <1>4 DEF n

Depth == Len(open)
\* The id, the call and the handler of the i-th call in force.
IdAt(i) == IF i = Depth THEN currentHandlerId ELSE open[i + 1].previousId
CallAt(i) == IF i = 0 THEN 0 ELSE open[i].call
SinkAt(i) == IF i = 0 THEN Repl ELSE Sink(open[i].kind, open[i].call)

Sinks == {Repl, Nowhere} \cup {Own(n) : n \in Nat}
HandlerFrames ==
    [kind : Kinds, call : Nat, previous : Sinks, previousId : Nat, wasRepl : BOOLEAN]
ChildStates ==
    [at : {"unborn", "runs", "exited"}, by : Nat, direct : BOOLEAN, id : Nat,
     mute : BOOLEAN, into : Sinks, texts : Nat, pipe : [Types -> Nat],
     thread : [Types -> {"reads", "has", "holds", "ended"}]]

HandlerTypes ==
    /\ outputHandler \in Sinks
    /\ currentHandlerId \in Nat /\ maxHandlerId \in Nat
    /\ isReplOutput \in BOOLEAN
    /\ open \in Seq(HandlerFrames)
    /\ opened \in 0..MaxOpened
    /\ main \in [left : Nat, type : Types]
    /\ children \in [Children -> ChildStates]
    /\ written \in [1..MaxOpened -> SUBSET Nat]

HandlersAreTheCalls ==
    /\ outputHandler = SinkAt(Depth)
    /\ \A i \in 1..Depth : open[i].previous = SinkAt(i - 1) /\ open[i].call \in 1..opened

IdsGrow ==
    /\ \A i \in 0..Depth : IdAt(i) <= maxHandlerId
    /\ \A i, j \in 0..Depth : i < j => IdAt(i) < IdAt(j)

ChildrenKnowTheirCall ==
    \A c \in Children : children[c].at # "unborn" =>
        /\ children[c].id <= maxHandlerId
        /\ \A i \in 0..Depth : children[c].id = IdAt(i) => children[c].by = CallAt(i)

MutexIsHeld ==
    /\ main.left > 0 => outputMutex = Main
    /\ \A c \in Children, t \in Types : children[c].thread[t] = "holds" =>
           /\ children[c].at # "unborn"
           /\ outputMutex = Thread(c, t)
           /\ children[c].id = currentHandlerId
           /\ children[c].into = outputHandler

\* The handlers that can be installed.
LEMMA SinksAreSinks ==
    ASSUME NEW kind \in Kinds, NEW n \in Nat
    PROVE  /\ Sink(kind, n) \in Sinks
           /\ \A k : Sink(kind, n) = Own(k) => k = n
  BY DEF Kinds, Sink, Sinks, Repl, Nowhere, Own

ThreadStates == {"reads", "has", "holds", "ended"}

\* What a thread does with its own state.
LEMMA ThreadGoes ==
    ASSUME HandlerTypes, NEW c \in Children, NEW t \in Types, NEW s \in ThreadStates, Goes(c, t, s)
    PROVE  /\ children' \in [Children -> ChildStates]
           /\ \A d \in Children :
                /\ children'[d].at = children[d].at /\ children'[d].by = children[d].by
                /\ children'[d].id = children[d].id /\ children'[d].into = children[d].into
                /\ \A u \in Types : children'[d].thread[u] =
                        IF d = c /\ u = t THEN s ELSE children[d].thread[u]
<1>1. children \in [Children -> ChildStates]
  BY DEF HandlerTypes
<1>2. children' = [children EXCEPT ![c] = [children[c] EXCEPT !.thread = [children[c].thread EXCEPT ![t] = s]]]
  BY <1>1 DEF Goes
<1>3. [children[c].thread EXCEPT ![t] = s] \in [Types -> ThreadStates]
  BY <1>1 DEF ChildStates, ThreadStates
<1>4. [children[c] EXCEPT !.thread = [children[c].thread EXCEPT ![t] = s]] \in ChildStates
  BY <1>1, <1>3 DEF ChildStates, ThreadStates
<1>5. children' \in [Children -> ChildStates]
  BY <1>1, <1>2, <1>4
<1>6. children'[c] = [children[c] EXCEPT !.thread = [children[c].thread EXCEPT ![t] = s]]
      /\ \A d \in Children \ {c} : children'[d] = children[d]
  BY <1>1, <1>2
<1>7. children[c] \in ChildStates
  BY <1>1
<1>8. /\ children'[c].at = children[c].at /\ children'[c].by = children[c].by
      /\ children'[c].id = children[c].id /\ children'[c].into = children[c].into
      /\ children'[c].thread = [children[c].thread EXCEPT ![t] = s]
  BY <1>6, <1>7 DEF ChildStates
<1>9. \A u \in Types : children'[c].thread[u] = IF u = t THEN s ELSE children[c].thread[u]
  BY <1>7, <1>8 DEF ChildStates
<1> QED
  BY <1>5, <1>6, <1>8, <1>9


HandlerInv ==
    /\ HandlerTypes /\ HandlersAreTheCalls /\ IdsGrow
    /\ ChildrenKnowTheirCall /\ MutexIsHeld

\* Who asks the call in force gets its number.
LEMMA TopIsTheCall ==
    ASSUME HandlerTypes
    PROVE  /\ Depth \in Nat /\ Top.call = CallAt(Depth)
           /\ Depth > 0 => CallAt(Depth) = open[Depth].call /\ open[Depth] \in HandlerFrames
<1>1. CASE open = <<>>
  BY <1>1 DEF Top, CallAt, Depth
<1>2. CASE open # <<>>
  <2>1. Len(open) \in Nat \ {0} /\ Last(open) = open[Len(open)] /\ Last(open) \in HandlerFrames
    BY <1>2, LastFacts DEF HandlerTypes
  <2>2. Top = open[Len(open)]
    BY <1>2, <2>1 DEF Top
  <2> QED
    BY <2>1, <2>2 DEF CallAt, Depth
<1> QED
  BY <1>1, <1>2

\* The handler in force writes down what it gets for its own call.
LEMMA HandledByItsCall ==
    ASSUME HandlerInv, NEW t \in Types, Handle(outputHandler, t, CallAt(Depth))
    PROVE  /\ written' \in [1..MaxOpened -> SUBSET Nat]
           /\ \A m \in 1..MaxOpened :
                /\ written'[m] \subseteq written[m] \cup {m}
                /\ written'[m] # written[m] => Depth \in 1..Depth /\ open[Depth].call = m
<1> USE DEF HandlerInv, HandlerTypes
<1>1. CASE written' = written
  BY <1>1
<1>2. CASE \E k \in 1..opened : outputHandler = Own(k)
  <2>1. PICK k \in 1..opened : outputHandler = Own(k)
    BY <1>2
  <2>2. outputHandler[2] = k /\ outputHandler # Repl /\ outputHandler # Nowhere
    BY <2>1 DEF Own, Repl, Nowhere
  <2>3. written' = [written EXCEPT ![k] = @ \cup {CallAt(Depth)}]
    BY <2>2 DEF Handle
  <2>4. Depth \in Nat \ {0} /\ open[Depth] \in HandlerFrames
        /\ outputHandler = Sink(open[Depth].kind, open[Depth].call)
    BY <2>2, TopIsTheCall DEF HandlersAreTheCalls, SinkAt
  <2>5. open[Depth].call = k
    BY <2>1, <2>4, SinksAreSinks DEF HandlerFrames
  <2>6. CallAt(Depth) = k
    BY <2>4, <2>5 DEF CallAt
  <2>7. k \in Nat /\ k \in 1..MaxOpened
    BY OutputAssumption
  <2> QED
    BY <2>3, <2>4, <2>5, <2>6, <2>7
<1> QED
  BY <1>1, <1>2 DEF Handle

\* Where the handlers stay, what is known of them stays.
LEMMA HandlersStay ==
    ASSUME HandlerInv, UNCHANGED handlers
    PROVE  /\ HandlersAreTheCalls' /\ IdsGrow'
           /\ \A i \in 0..Depth : IdAt(i)' = IdAt(i) /\ CallAt(i)' = CallAt(i)
           /\ Depth' = Depth
<1>1. /\ Depth' = Depth /\ open' = open /\ outputHandler' = outputHandler
      /\ opened' = opened /\ maxHandlerId' = maxHandlerId /\ currentHandlerId' = currentHandlerId
  BY DEF handlers, Depth
<1>2. \A i \in 0..Depth : IdAt(i)' = IdAt(i) /\ CallAt(i)' = CallAt(i) /\ SinkAt(i)' = SinkAt(i)
  BY <1>1 DEF IdAt, CallAt, SinkAt
<1>3. HandlersAreTheCalls'
  <2>1. Depth \in Nat
    BY TopIsTheCall DEF HandlerInv
  <2> QED
    BY <1>1, <1>2, <2>1 DEF HandlerInv, HandlersAreTheCalls
<1>4. IdsGrow'
  BY <1>1, <1>2 DEF HandlerInv, IdsGrow
<1> QED
  BY <1>1, <1>2, <1>3, <1>4

\* A child that stays what it was still knows its call.
LEMMA ChildrenStay ==
    ASSUME HandlerInv, UNCHANGED handlers,
           \A c \in Children : children'[c].at # "unborn" =>
               /\ children[c].at # "unborn"
               /\ children'[c].by = children[c].by /\ children'[c].id = children[c].id
    PROVE  ChildrenKnowTheirCall'
<1>1. maxHandlerId' = maxHandlerId
  BY DEF handlers
<1> QED
  BY <1>1, HandlersStay DEF HandlerInv, ChildrenKnowTheirCall

\* A new handler gets an id that nobody has.
LEMMA InstallStep ==
    ASSUME HandlerInv, NEW kind \in Kinds, Install(kind)
    PROVE  HandlerInv'
<1> DEFINE f == [kind |-> kind, call |-> opened + 1, previous |-> outputHandler,
                 previousId |-> currentHandlerId, wasRepl |-> isReplOutput]
<1> USE DEF HandlerInv, HandlerTypes
<1>1. /\ opened' = opened + 1 /\ open' = Append(open, f)
      /\ outputHandler' = Sink(kind, opened + 1)
      /\ maxHandlerId' = maxHandlerId + 1 /\ currentHandlerId' = maxHandlerId + 1
      /\ isReplOutput' = ReplOutputIn(kind)
      /\ outputMutex = Nobody /\ opened < MaxOpened
      /\ UNCHANGED <<outputMutex, main, children, written>>
  BY DEF Install, NewId
<1>2. opened \in Nat /\ opened + 1 \in 0..MaxOpened
  BY <1>1, OutputAssumption
<1>3. f \in HandlerFrames
  BY <1>2 DEF HandlerFrames
<1>4. /\ open' \in Seq(HandlerFrames) /\ Depth' = Depth + 1 /\ Depth \in Nat
      /\ open'[Depth + 1] = f
      /\ \A i \in 1..Depth : open'[i] = open[i]
  BY <1>1, <1>3, AppendProperties DEF Depth
<1>d. PICK d \in Nat : d = Depth
  BY <1>4
<1>5. HandlerTypes'
  <2>1. isReplOutput' \in BOOLEAN
    BY <1>1 DEF ReplOutputIn, Kinds
  <2>2. outputHandler' \in Sinks
    BY <1>1, <1>2, SinksAreSinks
  <2> QED
    BY <1>1, <1>2, <1>4, <2>1, <2>2
<1>6. /\ Depth' = d + 1
      /\ \A i \in 1..d + 1 : open'[i] = IF i = d + 1 THEN f ELSE open[i]
  BY <1>4, <1>d
<1>7. f.kind = kind /\ f.call = opened + 1 /\ f.previous = outputHandler
      /\ f.previousId = currentHandlerId
  BY DEF f
<1>8. /\ \A i \in 0..d : SinkAt(i)' = SinkAt(i) /\ CallAt(i)' = CallAt(i)
      /\ SinkAt(d + 1)' = Sink(kind, opened + 1)
  <2>1. ASSUME NEW i \in 0..d PROVE SinkAt(i)' = SinkAt(i) /\ CallAt(i)' = CallAt(i)
    <3>1. i # 0 => open'[i] = open[i]
      BY <1>6
    <3> QED
      BY <3>1 DEF SinkAt, CallAt
  <2>2. open'[d + 1] = f /\ d + 1 # 0
    BY <1>6
  <2> QED
    BY <2>1, <2>2, <1>7 DEF SinkAt
<1>9. HandlersAreTheCalls'
  <2>1. outputHandler' = SinkAt(d + 1)'
    BY <1>1, <1>8
  <2>2. ASSUME NEW i \in 1..d + 1
        PROVE  open'[i].previous = SinkAt(i - 1)' /\ open'[i].call \in 1..opened'
    <3>1. CASE i = d + 1
      <4>1. i - 1 = d
        BY <3>1
      <4>2. outputHandler = SinkAt(d)
        BY <1>d DEF HandlersAreTheCalls
      <4>3. SinkAt(d)' = SinkAt(d)
        BY <1>8
      <4>4. open'[i] = f
        BY <3>1, <1>6
      <4>5. opened + 1 \in 1..opened + 1
        BY <1>2
      <4> QED
        BY <4>1, <4>2, <4>3, <4>4, <4>5, <1>1, <1>7
    <3>2. CASE i \in 1..d
      <4>0. i \in 1..d + 1 /\ i # d + 1 /\ i - 1 \in 0..d
        BY <3>2
      <4>1. open'[i] = open[i] /\ i - 1 \in 0..d
        BY <4>0, <1>6
      <4> QED
        BY <3>2, <4>1, <1>1, <1>2, <1>8, <1>d DEF HandlersAreTheCalls
    <3> QED
      BY <3>1, <3>2, <1>6, <1>d
  <2> QED
    BY <2>1, <2>2, <1>6 DEF HandlersAreTheCalls
<1>10. /\ \A i \in 0..d : IdAt(i)' = IdAt(i)
       /\ IdAt(d + 1)' = maxHandlerId + 1
  <2>1. IdAt(d + 1)' = maxHandlerId + 1
    BY <1>1, <1>6, <1>d DEF IdAt
  <2>2. ASSUME NEW i \in 0..d PROVE IdAt(i)' = IdAt(i)
    <3>1. IdAt(i)' = open'[i + 1].previousId
      <4>1. IdAt(i)' = IF i = Depth' THEN currentHandlerId' ELSE open'[i + 1].previousId
        BY DEF IdAt
      <4> QED
        BY <4>1, <1>6
    <3>2. CASE i = d
      BY <3>1, <3>2, <1>6, <1>d, <1>7 DEF IdAt
    <3>3. CASE i \in 0..d - 1
      <4>1. open'[i + 1] = open[i + 1] /\ i # d
        BY <3>3, <1>6, <1>d
      <4> QED
        BY <3>1, <4>1, <1>d DEF IdAt
    <3> QED
      BY <3>2, <3>3, <1>6, <1>d
  <2> QED
    BY <2>1, <2>2
<1>11. \A i \in 0..d : IdAt(i) <= maxHandlerId /\ IdAt(i) \in Nat
  <2> TAKE i \in 0..d
  <2>1. IdAt(i) \in Nat
    <3>1. CASE i = d
      BY <3>1, <1>d DEF IdAt
    <3>2. CASE i # d
      <4>1. i + 1 \in 1..Len(open) /\ i # Depth
        BY <3>2, <1>d DEF Depth
      <4>2. open[i + 1] \in HandlerFrames
        BY <4>1, ElementOfSeq
      <4> QED
        BY <4>1, <4>2 DEF IdAt, HandlerFrames
    <3> QED
      BY <3>1, <3>2
  <2> QED
    BY <2>1, <1>d DEF IdsGrow
<1>12. IdsGrow'
  <2>1. \A i \in 0..d + 1 : i # d + 1 => i \in 0..d
    BY <1>6, <1>d
  <2>2. \A i \in 0..d + 1 : IdAt(i)' <= maxHandlerId + 1
    BY <2>1, <1>10, <1>11
  <2>3. ASSUME NEW i \in 0..d + 1, NEW j \in 0..d + 1, i < j PROVE IdAt(i)' < IdAt(j)'
    <3>1. i \in 0..d
      BY <2>3, <1>6, <1>d
    <3>2. CASE j = d + 1
      BY <3>1, <3>2, <1>10, <1>11
    <3>3. CASE j # d + 1
      <4>1. j \in 0..d
        BY <2>1, <3>3
      <4> QED
        BY <2>3, <3>1, <4>1, <1>10, <1>d DEF IdsGrow
    <3> QED
      BY <3>2, <3>3
  <2> QED
    BY <2>2, <2>3, <1>1, <1>6, <1>d DEF IdsGrow
<1>13. ChildrenKnowTheirCall'
  <2> SUFFICES ASSUME NEW c \in Children, children[c].at # "unborn"
               PROVE  /\ children[c].id <= maxHandlerId'
                      /\ \A i \in 0..Depth' : children[c].id = IdAt(i)' => children[c].by = CallAt(i)'
    BY <1>1 DEF ChildrenKnowTheirCall
  <2>1. children[c].id <= maxHandlerId /\ children[c].id \in Nat
    BY DEF ChildrenKnowTheirCall, ChildStates
  <2>2. children[c].id # IdAt(d + 1)' /\ children[c].id <= maxHandlerId'
    BY <2>1, <1>1, <1>10
  <2>3. ASSUME NEW i \in 0..Depth', children[c].id = IdAt(i)' PROVE children[c].by = CallAt(i)'
    <3>1. i \in 0..d
      BY <2>2, <2>3, <1>6, <1>d
    <3> QED
      BY <2>3, <3>1, <1>8, <1>10, <1>d DEF ChildrenKnowTheirCall
  <2> QED
    BY <2>2, <2>3
<1>14. MutexIsHeld'
  BY <1>1 DEF MutexIsHeld, Nobody, Main, Thread
<1> QED
  BY <1>5, <1>9, <1>12, <1>13, <1>14

\* The handler that comes back is the one its call had, with its id.
LEMMA UninstallStep ==
    ASSUME HandlerInv, Uninstall
    PROVE  HandlerInv'
<1> USE DEF HandlerInv, HandlerTypes
<1>1. /\ outputHandler' = Last(open).previous
      /\ currentHandlerId' = Last(open).previousId
      /\ isReplOutput' = Last(open).wasRepl
      /\ open' = Front(open) /\ open # <<>> /\ outputMutex = Nobody
      /\ UNCHANGED <<maxHandlerId, opened, outputMutex, main, children, written>>
  BY DEF Uninstall, PutBack
<1>2. /\ Depth \in Nat \ {0} /\ Last(open) = open[Depth] /\ Last(open) \in HandlerFrames
      /\ open' \in Seq(HandlerFrames) /\ Len(open') = Depth - 1
      /\ \A i \in 1..Depth - 1 : open'[i] = open[i]
  BY <1>1, LastFacts DEF Depth
<1>3. PICK d \in Nat : Depth = d + 1
  BY <1>2
<1>4. /\ Depth' = d
      /\ \A i \in 1..d : open'[i] = open[i]
      /\ outputHandler' = open[d + 1].previous
      /\ currentHandlerId' = open[d + 1].previousId
  BY <1>1, <1>2, <1>3 DEF Depth
<1>5. HandlerTypes'
  BY <1>1, <1>2 DEF HandlerFrames
<1>6. \A i \in 0..d : SinkAt(i)' = SinkAt(i) /\ CallAt(i)' = CallAt(i)
  BY <1>4 DEF SinkAt, CallAt
<1>7. \A i \in 0..d : IdAt(i)' = IdAt(i)
  <2> TAKE i \in 0..d
  <2>1. IdAt(i) = open[i + 1].previousId
    BY <1>3 DEF IdAt
  <2>2. CASE i = d
    BY <2>1, <2>2, <1>4 DEF IdAt
  <2>3. CASE i # d
    <3>1. open'[i + 1] = open[i + 1]
      BY <2>3, <1>4
    <3> QED
      BY <2>1, <2>3, <3>1, <1>4 DEF IdAt
  <2> QED
    BY <2>2, <2>3
<1>8. HandlersAreTheCalls'
  <2>1. ASSUME NEW i \in 1..d + 1
        PROVE  open[i].previous = SinkAt(i - 1) /\ open[i].call \in 1..opened
    BY <1>3 DEF HandlersAreTheCalls
  <2>2. outputHandler' = SinkAt(d)
    <3>1. d + 1 \in 1..d + 1 /\ (d + 1) - 1 = d
      OBVIOUS
    <3> QED
      BY <2>1, <3>1, <1>4
  <2>3. outputHandler' = SinkAt(d)'
    BY <2>2, <1>6
  <2>4. ASSUME NEW i \in 1..d
        PROVE  open'[i].previous = SinkAt(i - 1)' /\ open'[i].call \in 1..opened'
    <3>1. open'[i] = open[i] /\ i \in 1..d + 1 /\ i - 1 \in 0..d
      BY <1>4
    <3>2. SinkAt(i - 1)' = SinkAt(i - 1)
      BY <3>1, <1>6
    <3> QED
      BY <2>1, <3>1, <3>2, <1>1
  <2> QED
    BY <2>3, <2>4, <1>4 DEF HandlersAreTheCalls
<1>9. \A i \in 0..d : i \in 0..Depth
  BY <1>3
<1>10. IdsGrow'
  BY <1>1, <1>4, <1>7, <1>9 DEF IdsGrow
<1>11. ChildrenKnowTheirCall'
  BY <1>1, <1>4, <1>6, <1>7, <1>9 DEF ChildrenKnowTheirCall
<1>12. MutexIsHeld'
  BY <1>1 DEF MutexIsHeld, Nobody, Main, Thread
<1> QED
  BY <1>5, <1>8, <1>10, <1>11, <1>12

\* What the step writes goes to the call in force.
WritesForItsCall ==
    \A m \in 1..MaxOpened :
        /\ written'[m] \subseteq written[m] \cup {m}
        /\ written'[m] # written[m] => Depth \in 1..Depth /\ open[Depth].call = m /\ open' = open

\* myWriteConsoleEx takes the mutex and writes for the call in force.
LEMMA MainWritesStep ==
    ASSUME HandlerInv, WriteConsole \/ SendText
    PROVE  HandlerInv' /\ WritesForItsCall
<1> USE DEF HandlerInv
<1>1. UNCHANGED <<handlers, children>>
  BY DEF WriteConsole, SendText
<1>2. HandlersAreTheCalls' /\ IdsGrow' /\ ChildrenKnowTheirCall'
  BY <1>1, HandlersStay, ChildrenStay
<1>3. CASE WriteConsole
  <2>1. /\ main' \in [left : Nat \ {0}, type : Types] /\ outputMutex = Nobody
        /\ outputMutex' = Main /\ written' = written
    BY <1>3, OutputAssumption DEF WriteConsole
  <2>2. HandlerTypes'
    BY <2>1, <1>1 DEF HandlerTypes, handlers
  <2>3. MutexIsHeld'
    BY <2>1, <1>1 DEF MutexIsHeld, Nobody, Main, Thread
  <2> QED
    BY <1>2, <2>1, <2>2, <2>3 DEF WritesForItsCall
<1>4. CASE SendText
  <2>1. /\ main.left > 0 /\ main \in [left : Nat, type : Types]
        /\ main' = IF main.left = 1 THEN Idle ELSE [main EXCEPT !.left = @ - 1]
        /\ outputMutex' = IF main.left = 1 THEN Nobody ELSE Main
        /\ Handle(outputHandler, main.type, Top.call)
    BY <1>4 DEF SendText, HandlerTypes
  <2>2. main' \in [left : Nat, type : Types] /\ (main'.left > 0 => outputMutex' = Main)
    BY <2>1 DEF Idle, Types
  <2>3. Handle(outputHandler, main.type, CallAt(Depth))
    BY <2>1, TopIsTheCall
  <2>4. /\ written' \in [1..MaxOpened -> SUBSET Nat]
        /\ \A m \in 1..MaxOpened :
             /\ written'[m] \subseteq written[m] \cup {m}
             /\ written'[m] # written[m] => Depth \in 1..Depth /\ open[Depth].call = m
    BY <2>1, <2>3, HandledByItsCall
  <2>5. HandlerTypes'
    BY <2>2, <2>4, <1>1 DEF HandlerTypes, handlers
  <2>6. \A c \in Children, t \in Types : children[c].thread[t] # "holds"
    BY <2>1 DEF MutexIsHeld, Main, Thread
  <2>7. MutexIsHeld'
    BY <2>2, <2>6, <1>1 DEF MutexIsHeld
  <2> QED
    BY <1>1, <1>2, <2>4, <2>5, <2>7 DEF WritesForItsCall, handlers
<1> QED
  BY <1>3, <1>4

\* A child belongs to the call in force when it is forked, and goes on with it.
LEMMA ChildStep ==
    ASSUME HandlerInv, NEW c \in Children, Fork(c) \/ ChildWrites(c) \/ ChildExits(c)
    PROVE  HandlerInv' /\ written' = written
<1> USE DEF HandlerInv, HandlerTypes
<1>1. UNCHANGED <<handlers, outputMutex, main, written>>
  BY DEF Fork, ChildWrites, ChildExits
<1>2. /\ outputHandler' = outputHandler /\ currentHandlerId' = currentHandlerId
      /\ maxHandlerId' = maxHandlerId /\ isReplOutput' = isReplOutput
      /\ open' = open /\ opened' = opened /\ Depth' = Depth
  BY <1>1 DEF handlers, Depth
<1>3. HandlersAreTheCalls' /\ IdsGrow'
  BY <1>1, HandlersStay
<1>4. children[c] \in ChildStates /\ children[c].thread \in [Types -> ThreadStates]
      /\ children[c].pipe \in [Types -> Nat]
  BY DEF ChildStates, ThreadStates
<1>5. CASE Fork(c)
  <2> DEFINE born == [Unborn EXCEPT !.at = "runs", !.by = Top.call, !.direct = isReplOutput,
                                    !.id = currentHandlerId, !.mute = outputMutex # Nobody]
  <2>1. children' = [children EXCEPT ![c] = born]
    BY <1>5 DEF Fork
  <2>2. CallAt(Depth) \in Nat /\ Top.call = CallAt(Depth)
    BY TopIsTheCall DEF CallAt, HandlerFrames
  <2>3. /\ born.at = "runs" /\ born.by = CallAt(Depth) /\ born.id = currentHandlerId
        /\ \A t \in Types : born.thread[t] = "reads"
        /\ born \in ChildStates
    BY <2>2 DEF Unborn, ChildStates, Sinks
  <2> HIDE DEF born
  <2>4. /\ children' \in [Children -> ChildStates] /\ children'[c] = born
        /\ \A d \in Children \ {c} : children'[d] = children[d]
    BY <2>1, <2>3
  <2>5. HandlerTypes'
    BY <2>4, <1>1, <1>2
  <2>6. ChildrenKnowTheirCall'
    <3> SUFFICES ASSUME NEW d \in Children, children'[d].at # "unborn"
                 PROVE  /\ children'[d].id <= maxHandlerId
                        /\ \A i \in 0..Depth : children'[d].id = IdAt(i) => children'[d].by = CallAt(i)
      BY <1>1, <1>2, HandlersStay DEF ChildrenKnowTheirCall
    <3>1. CASE d # c
      BY <3>1, <2>4 DEF ChildrenKnowTheirCall
    <3>2. CASE d = c
      <4>1. Depth \in Nat /\ IdAt(Depth) = currentHandlerId
        BY TopIsTheCall DEF IdAt
      <4>2. ASSUME NEW i \in 0..Depth, currentHandlerId = IdAt(i) PROVE i = Depth
        <5>1. ~(i < Depth)
          <6> SUFFICES ASSUME i < Depth PROVE FALSE
            OBVIOUS
          <6>1. Depth \in 0..Depth
            BY <4>1
          <6>2. IdAt(i) < IdAt(Depth)
            BY <6>1 DEF IdsGrow
          <6> QED
            BY <6>2, <4>1, <4>2
        <5> QED
          BY <5>1, <4>1
      <4>3. Depth \in 0..Depth
        BY <4>1
      <4>4. currentHandlerId <= maxHandlerId
        BY <4>1, <4>3 DEF IdsGrow
      <4> QED
        BY <3>2, <2>3, <2>4, <4>1, <4>2, <4>4
    <3> QED
      BY <3>1, <3>2
  <2>7. MutexIsHeld'
    BY <2>3, <2>4, <1>1, <1>2 DEF MutexIsHeld
  <2> QED
    BY <1>1, <1>3, <2>5, <2>6, <2>7
<1>6. CASE ChildWrites(c) \/ ChildExits(c)
  <2>1. children[c].at = "runs"
    BY <1>6 DEF ChildWrites, ChildExits
  <2>2. \E b \in ChildStates : /\ children' = [children EXCEPT ![c] = b]
                               /\ b.at # "unborn" /\ b.by = children[c].by /\ b.id = children[c].id
                               /\ b.into = children[c].into /\ b.thread = children[c].thread
    <3>1. CASE ChildExits(c)
      <4> DEFINE b == [children[c] EXCEPT !.at = "exited"]
      <4>1. /\ b \in ChildStates /\ b.at # "unborn" /\ b.by = children[c].by
            /\ b.id = children[c].id
            /\ b.into = children[c].into /\ b.thread = children[c].thread
        BY <1>4 DEF ChildStates
      <4>2. children' = [children EXCEPT ![c] = b]
        BY <3>1 DEF ChildExits
      <4> QED
        BY <4>1, <4>2
    <3>2. CASE ChildWrites(c)
      <4>1. PICK t \in Types :
                children' = [children EXCEPT ![c].pipe[t] = @ + 1, ![c].texts = @ + 1]
        BY <3>2 DEF ChildWrites
      <4> DEFINE p == [children[c].pipe EXCEPT ![t] = @ + 1]
                 b == [children[c] EXCEPT !.pipe = p, !.texts = @ + 1]
      <4>2. p \in [Types -> Nat]
        BY <1>4
      <4>3. children' = [children EXCEPT ![c] = b]
        BY <4>1
      <4> HIDE DEF p
      <4>4. /\ b \in ChildStates /\ b.at # "unborn" /\ b.by = children[c].by
            /\ b.id = children[c].id
            /\ b.into = children[c].into /\ b.thread = children[c].thread
        <5> DEFINE a == [children[c] EXCEPT !.pipe = p]
        <5>1. /\ a \in ChildStates /\ a.at # "unborn" /\ a.by = children[c].by
              /\ a.id = children[c].id
              /\ a.into = children[c].into /\ a.thread = children[c].thread
          BY <1>4, <2>1, <4>2 DEF ChildStates
        <5>2. b = [a EXCEPT !.texts = children[c].texts + 1]
          OBVIOUS
        <5>3. children[c].texts + 1 \in Nat
          BY <1>4 DEF ChildStates
        <5> HIDE DEF a
        <5> QED
          BY <5>1, <5>2, <5>3 DEF ChildStates
      <4> QED
        BY <4>3, <4>4
    <3> QED
      BY <1>6, <3>1, <3>2
  <2>3. PICK b \in ChildStates : /\ children' = [children EXCEPT ![c] = b]
                                 /\ b.at # "unborn" /\ b.by = children[c].by /\ b.id = children[c].id
                                 /\ b.into = children[c].into /\ b.thread = children[c].thread
    BY <2>2
  <2>4. /\ children' \in [Children -> ChildStates] /\ children'[c] = b
        /\ \A d \in Children \ {c} : children'[d] = children[d]
    BY <2>3
  <2>5. HandlerTypes'
    BY <2>4, <1>1, <1>2
  <2>6. ChildrenKnowTheirCall'
    BY <2>1, <2>3, <2>4, <1>1, ChildrenStay
  <2>7. MutexIsHeld'
    BY <2>1, <2>3, <2>4, <1>1, <1>2 DEF MutexIsHeld
  <2> QED
    BY <1>1, <1>3, <2>5, <2>6, <2>7
<1> QED
  BY <1>5, <1>6

\* What a thread that leaves the mutex alone, and does not hold it, changes.
LEMMA ThreadMovesOn ==
    ASSUME HandlerInv, NEW c \in Children, NEW t \in Types, NEW s \in ThreadStates \ {"holds"},
           UNCHANGED <<handlers, main, outputMutex, written>>,
           children[c].at # "unborn",
           children' \in [Children -> ChildStates],
           \A d \in Children :
                /\ children'[d].at = children[d].at /\ children'[d].by = children[d].by
                /\ children'[d].id = children[d].id /\ children'[d].into = children[d].into
                /\ \A u \in Types : children'[d].thread[u] =
                        IF d = c /\ u = t THEN s ELSE children[d].thread[u]
    PROVE  HandlerInv'
<1> USE DEF HandlerInv
<1>1. /\ outputHandler' = outputHandler /\ currentHandlerId' = currentHandlerId
      /\ maxHandlerId' = maxHandlerId /\ isReplOutput' = isReplOutput
      /\ open' = open /\ opened' = opened
  BY DEF handlers
<1>2. HandlersAreTheCalls' /\ IdsGrow' /\ ChildrenKnowTheirCall'
  BY HandlersStay, ChildrenStay
<1>3. HandlerTypes'
  BY <1>1 DEF HandlerTypes
<1>4. MutexIsHeld'
  BY <1>1 DEF MutexIsHeld
<1> QED
  BY <1>2, <1>3, <1>4

\* The threads that read the pipes.
LEMMA ThreadStep ==
    ASSUME HandlerInv, NEW c \in Children, NEW t \in Types, ThreadSteps(c, t)
    PROVE  HandlerInv' /\ WritesForItsCall
<1> USE DEF HandlerInv
<1>1. children[c] \in ChildStates /\ children[c].at # "unborn"
  BY DEF HandlerTypes, ThreadSteps, ThreadReads, ThreadPushes, ThreadLocks, ThreadWrites, At
<1>2. ASSUME NEW s \in ThreadStates \ {"holds"}, Goes(c, t, s),
             UNCHANGED <<handlers, main, outputMutex, written>>
      PROVE  HandlerInv'
  BY <1>1, <1>2, ThreadGoes, ThreadMovesOn
<1>3. CASE ThreadReads(c, t)
  <2>1. UNCHANGED <<handlers, main, outputMutex, written>>
    BY <1>3 DEF ThreadReads
  <2>2. CASE Goes(c, t, "ended")
    BY <1>2, <2>1, <2>2 DEF ThreadStates, WritesForItsCall
  <2>3. CASE /\ children[c].pipe[t] > 0
             /\ children' = [children EXCEPT ![c].pipe[t] = @ - 1, ![c].thread[t] = "has"]
    <3> DEFINE p == [children[c].pipe EXCEPT ![t] = @ - 1]
               h == [children[c].thread EXCEPT ![t] = "has"]
               a == [children[c] EXCEPT !.pipe = p]
               b == [a EXCEPT !.thread = h]
    <3>1. p \in [Types -> Nat] /\ h \in [Types -> ThreadStates]
      BY <1>1, <2>3 DEF ChildStates, ThreadStates
    <3>2. \A u \in Types : h[u] = IF u = t THEN "has" ELSE children[c].thread[u]
      BY <1>1 DEF ChildStates
    <3>3. children' = [children EXCEPT ![c] = b]
      BY <2>3, <1>1 DEF ChildStates
    <3> HIDE DEF p, h
    <3>4. /\ a \in ChildStates /\ a.at = children[c].at /\ a.by = children[c].by
          /\ a.id = children[c].id /\ a.into = children[c].into
      BY <1>1, <3>1 DEF ChildStates
    <3> HIDE DEF a
    <3>5. /\ b \in ChildStates /\ b.at = children[c].at /\ b.by = children[c].by
          /\ b.id = children[c].id /\ b.into = children[c].into /\ b.thread = h
      BY <3>1, <3>4 DEF ChildStates, ThreadStates
    <3> HIDE DEF b
    <3>6. /\ children' \in [Children -> ChildStates] /\ children'[c] = b
          /\ \A d \in Children \ {c} : children'[d] = children[d]
      BY <3>3, <3>5 DEF HandlerTypes
    <3>7. \A d \in Children :
              /\ children'[d].at = children[d].at /\ children'[d].by = children[d].by
              /\ children'[d].id = children[d].id /\ children'[d].into = children[d].into
              /\ \A u \in Types : children'[d].thread[u] =
                      IF d = c /\ u = t THEN "has" ELSE children[d].thread[u]
      BY <3>2, <3>5, <3>6
    <3>8. "has" \in ThreadStates \ {"holds"}
      BY DEF ThreadStates
    <3>9. HandlerInv'
      BY <1>1, <2>1, <3>6, <3>7, <3>8, ThreadMovesOn
    <3> QED
      BY <2>1, <3>9 DEF WritesForItsCall
  <2> QED
    BY <1>3, <2>2, <2>3 DEF ThreadReads
<1>4. CASE ThreadPushes(c, t)
  BY <1>2, <1>4 DEF ThreadPushes, ThreadStates, WritesForItsCall
<1>5. CASE ThreadLocks(c, t)
  <2>1. outputMutex = Nobody /\ UNCHANGED <<handlers, main, written>>
    BY <1>5 DEF ThreadLocks
  <2>2. CASE outputMutex' = Nobody /\ Goes(c, t, "reads")
    BY <1>2, <2>1, <2>2 DEF ThreadStates, WritesForItsCall
  <2>3. CASE /\ IsCurrent(c) /\ outputMutex' = Thread(c, t)
             /\ children' = [children EXCEPT ![c].thread[t] = "holds", ![c].into = outputHandler]
    <3> DEFINE h == [children[c].thread EXCEPT ![t] = "holds"]
               a == [children[c] EXCEPT !.thread = h]
               b == [a EXCEPT !.into = outputHandler]
    <3>1. h \in [Types -> ThreadStates]
      BY <1>1 DEF ChildStates, ThreadStates
    <3>2. \A u \in Types : h[u] = IF u = t THEN "holds" ELSE children[c].thread[u]
      BY <1>1 DEF ChildStates
    <3>3. children' = [children EXCEPT ![c] = b]
      BY <2>3, <1>1 DEF ChildStates
    <3> HIDE DEF h
    <3>4. /\ a \in ChildStates /\ a.at = children[c].at /\ a.by = children[c].by
          /\ a.id = children[c].id /\ a.thread = h
      BY <1>1, <3>1 DEF ChildStates, ThreadStates
    <3> HIDE DEF a
    <3>5. outputHandler \in Sinks
      BY DEF HandlerTypes
    <3>6. /\ b \in ChildStates /\ b.at = children[c].at /\ b.by = children[c].by
          /\ b.id = children[c].id /\ b.into = outputHandler /\ b.thread = h
      BY <3>4, <3>5 DEF ChildStates
    <3> HIDE DEF b
    <3>7. /\ children' \in [Children -> ChildStates] /\ children'[c] = b
          /\ \A d \in Children \ {c} : children'[d] = children[d]
      BY <3>3, <3>6 DEF HandlerTypes
    <3>8. HandlersAreTheCalls' /\ IdsGrow'
      BY <2>1, HandlersStay
    <3>9. ChildrenKnowTheirCall'
      BY <2>1, <3>6, <3>7, ChildrenStay
    <3>10. HandlerTypes'
      BY <2>1, <3>7 DEF HandlerTypes, handlers
    <3>11. /\ ~(main.left > 0)
           /\ \A d \in Children, u \in Types : children[d].thread[u] # "holds"
      BY <2>1 DEF MutexIsHeld, Nobody, Main, Thread
    <3>12. ASSUME NEW d \in Children, NEW u \in Types, children'[d].thread[u] = "holds"
           PROVE  d = c /\ u = t
      BY <3>2, <3>6, <3>7, <3>11, <3>12
    <3>13. MutexIsHeld'
      <4>1. ~(main'.left > 0) /\ outputHandler' = outputHandler /\ currentHandlerId' = currentHandlerId
        BY <2>1, <3>11 DEF handlers
      <4>2. /\ children'[c].at # "unborn" /\ outputMutex' = Thread(c, t)
            /\ children'[c].id = currentHandlerId /\ children'[c].into = outputHandler
        BY <1>1, <2>3, <3>6, <3>7 DEF IsCurrent
      <4> QED
        BY <3>12, <4>1, <4>2 DEF MutexIsHeld
    <3> QED
      BY <2>1, <3>8, <3>9, <3>10, <3>13 DEF WritesForItsCall
  <2> QED
    BY <1>5, <2>2, <2>3 DEF ThreadLocks
<1>6. CASE ThreadWrites(c, t)
  <2>1. /\ children[c].thread[t] = "holds" /\ UNCHANGED <<handlers, main>>
        /\ Handle(children[c].into, t, children[c].by)
        /\ Goes(c, t, "reads") /\ outputMutex' = Nobody
    BY <1>6 DEF ThreadWrites, At
  <2>2. /\ outputMutex = Thread(c, t) /\ children[c].id = currentHandlerId
        /\ children[c].into = outputHandler
    BY <2>1 DEF MutexIsHeld
  <2>3. children[c].by = CallAt(Depth)
    <3>1. Depth \in 0..Depth /\ IdAt(Depth) = currentHandlerId
      BY TopIsTheCall DEF IdAt
    <3> QED
      BY <1>1, <2>2, <3>1 DEF ChildrenKnowTheirCall
  <2>4. /\ written' \in [1..MaxOpened -> SUBSET Nat]
        /\ \A m \in 1..MaxOpened :
             /\ written'[m] \subseteq written[m] \cup {m}
             /\ written'[m] # written[m] => Depth \in 1..Depth /\ open[Depth].call = m
    BY <2>1, <2>2, <2>3, HandledByItsCall
  <2>5. /\ children' \in [Children -> ChildStates]
        /\ \A d \in Children :
             /\ children'[d].at = children[d].at /\ children'[d].by = children[d].by
             /\ children'[d].id = children[d].id /\ children'[d].into = children[d].into
             /\ \A u \in Types : children'[d].thread[u] =
                     IF d = c /\ u = t THEN "reads" ELSE children[d].thread[u]
    BY <2>1, ThreadGoes DEF ThreadStates
  <2>6. HandlersAreTheCalls' /\ IdsGrow' /\ ChildrenKnowTheirCall'
    BY <2>1, <2>5, HandlersStay, ChildrenStay
  <2>7. HandlerTypes'
    BY <2>1, <2>4, <2>5 DEF HandlerTypes, handlers
  <2>8. /\ ~(main.left > 0)
        /\ \A d \in Children, u \in Types : children[d].thread[u] = "holds" => d = c /\ u = t
    BY <2>2 DEF MutexIsHeld, Main, Thread
  <2>9. MutexIsHeld'
    BY <2>1, <2>5, <2>8 DEF MutexIsHeld
  <2> QED
    BY <2>1, <2>4, <2>6, <2>7, <2>9 DEF WritesForItsCall, handlers
<1> QED
  BY <1>3, <1>4, <1>5, <1>6 DEF ThreadSteps

\* Every step keeps the invariant, and writes for the call in force only.
LEMMA HandlerStep == HandlerInv /\ [OutputNext]_outputVars => HandlerInv' /\ WritesForItsCall
<1> SUFFICES ASSUME HandlerInv, [OutputNext]_outputVars
             PROVE  HandlerInv' /\ WritesForItsCall
  OBVIOUS
<1>1. ASSUME written' = written PROVE WritesForItsCall
  BY <1>1 DEF WritesForItsCall
<1>2. ASSUME NEW kind \in Kinds, Install(kind) PROVE HandlerInv' /\ WritesForItsCall
  BY <1>1, <1>2, InstallStep DEF Install
<1>3. CASE Uninstall
  BY <1>1, <1>3, UninstallStep DEF Uninstall, PutBack
<1>4. CASE WriteConsole \/ SendText
  BY <1>4, MainWritesStep
<1>5. ASSUME NEW c \in Children, Fork(c) \/ ChildWrites(c) \/ ChildExits(c)
      PROVE  HandlerInv' /\ WritesForItsCall
  BY <1>1, <1>5, ChildStep
<1>6. ASSUME NEW c \in Children, NEW t \in Types, ThreadSteps(c, t)
      PROVE  HandlerInv' /\ WritesForItsCall
  BY <1>6, ThreadStep
<1>7. ASSUME UNCHANGED <<handlers, outputMutex, main, children, written>>
      PROVE  HandlerInv' /\ WritesForItsCall
  <2>1. HandlersAreTheCalls' /\ IdsGrow' /\ ChildrenKnowTheirCall'
    BY <1>7, HandlersStay, ChildrenStay
  <2>2. HandlerTypes' /\ MutexIsHeld'
    BY <1>7 DEF HandlerInv, HandlerTypes, MutexIsHeld, handlers
  <2> QED
    BY <1>1, <1>7, <2>1, <2>2 DEF HandlerInv
<1>8. CASE SendEvent \/ Proceed
  BY <1>7, <1>8 DEF SendEvent, Proceed
<1>9. ASSUME NEW r \in 1..MaxReaders, Subscribe(r) \/ Cancel(r) \/ Reader(r)
      PROVE  HandlerInv' /\ WritesForItsCall
  BY <1>7, <1>9 DEF Subscribe, Cancel, Reader, ReaderChecks, ReaderPops, ReaderWaits
<1>10. CASE UNCHANGED outputVars
  BY <1>7, <1>10 DEF outputVars
<1> QED
  BY <1>2, <1>3, <1>4, <1>5, <1>6, <1>8, <1>9, <1>10 DEF OutputNext

\* In mainLoop, before the first call.
LEMMA HandlerStart == OutputInit => HandlerInv /\ OwnOutput
<1> SUFFICES ASSUME OutputInit PROVE HandlerInv /\ OwnOutput
  OBVIOUS
<1>1. Depth = 0 /\ opened = 0 /\ main = Idle
  BY DEF OutputInit, Depth
<1>2. Unborn \in ChildStates
  BY DEF Unborn, ChildStates, Sinks
<1>3. HandlerTypes
  <2>1. open \in Seq(HandlerFrames) /\ children \in [Children -> ChildStates]
    BY <1>2 DEF OutputInit
  <2>2. main \in [left : Nat, type : Types] /\ opened \in 0..MaxOpened
    BY <1>1, OutputAssumption DEF Idle, Types
  <2>3. written \in [1..MaxOpened -> SUBSET Nat]
    BY DEF OutputInit
  <2> QED
    BY <2>1, <2>2, <2>3 DEF OutputInit, HandlerTypes, Sinks
<1>4. HandlersAreTheCalls /\ IdsGrow
  BY <1>1 DEF OutputInit, HandlersAreTheCalls, IdsGrow, SinkAt, IdAt
<1>5. ChildrenKnowTheirCall /\ MutexIsHeld
  BY DEF OutputInit, ChildrenKnowTheirCall, MutexIsHeld, Unborn, Idle
<1>6. OwnOutput
  BY DEF OutputInit, OwnOutput
<1> QED
  BY <1>3, <1>4, <1>5, <1>6 DEF HandlerInv

\* The handler of a call gets that call's output alone, its children's
\* included, and none once it has ended (WithOutputHandler, IO.cpp).
THEOREM CallsGetTheirOutput == OutputSpec => OutputFindsItsCall
<1>1. HandlerInv /\ OwnOutput /\ [OutputNext]_outputVars => (HandlerInv /\ OwnOutput)'
  BY HandlerStep DEF OwnOutput, WritesForItsCall
<1>2. HandlerInv /\ OwnOutput /\ [OutputNext]_outputVars
         => [OwnOutput' /\ LiveHandlersOnly]_outputVars
  <2> SUFFICES ASSUME HandlerInv, OwnOutput, [OutputNext]_outputVars
               PROVE  OwnOutput' /\ LiveHandlersOnly
    OBVIOUS
  <2>1. WritesForItsCall
    BY HandlerStep
  <2>2. Depth \in Nat /\ DOMAIN open = 1..Depth
    BY DEF HandlerInv, HandlerTypes, Depth
  <2> QED
    BY <1>1, <2>1, <2>2 DEF LiveHandlersOnly, WritesForItsCall
<1> QED
  BY HandlerStart, <1>1, <1>2, PTL DEF OutputSpec, OutputFindsItsCall

--------------------------------------------------------------------------
Entries == {Text(t) : t \in Types \cup {"other"}}
EventTypes == Types \cup {"other"}
Messages == [type : EventTypes, texts : Seq(Nat)]

Rising(s) == \A k, l \in DOMAIN s : k < l => s[k] < s[l]

\* What was written and what is cached stand for entries of the record up to
\* n, in their order and each with its type.
Line(messages, cache, type, n, record) ==
    /\ messages \in Seq(Messages) /\ cache \in Seq(Nat)
    /\ InOrder(messages) /\ Rising(cache)
    /\ \A i \in DOMAIN messages : \A k \in DOMAIN messages[i].texts :
           /\ messages[i].texts[k] \in 1..n
           /\ record[messages[i].texts[k]].type = messages[i].type
           /\ \A l \in DOMAIN cache : messages[i].texts[k] < cache[l]
    /\ \A k \in DOMAIN cache : cache[k] \in 1..n /\ record[cache[k]].type = type

\* The cache may be dropped, and the record may grow.
LEMMA LineWithout ==
    ASSUME NEW m, NEW c, NEW y, NEW n \in Nat, NEW record, Line(m, c, y, n, record), NEW z
    PROVE  Line(m, <<>>, z, n, record)
  BY DEF Line, Rising

LEMMA LineLater ==
    ASSUME NEW m, NEW c, NEW y, NEW n \in Nat, NEW record, Line(m, c, y, n, record),
           NEW p \in Nat, n <= p
    PROVE  Line(m, c, y, p, record)
<1>1. \A t \in 1..n : t \in 1..p
  OBVIOUS
<1> QED
  BY <1>1 DEF Line

LEMMA LineRecorded ==
    ASSUME NEW m, NEW c, NEW y, NEW n \in Nat, NEW S, NEW record \in Seq(S), Line(m, c, y, n, record),
           n <= Len(record), NEW e \in S
    PROVE  Line(m, c, y, n, Append(record, e))
<1>1. \A t \in 1..n : Append(record, e)[t] = record[t]
  BY AppendProperties
<1> QED
  BY <1>1 DEF Line

\* The next entry joins the cache.
LEMMA LineGrows ==
    ASSUME NEW m, NEW c, NEW y, NEW n \in Nat, NEW record, Line(m, c, y, n, record),
           record[n + 1].type = y
    PROVE  /\ Line(m, Append(c, n + 1), y, n + 1, record)
           /\ ToSet(Append(c, n + 1)) = ToSet(c) \cup {n + 1}
<1> DEFINE a == Append(c, n + 1)
<1>1. /\ c \in Seq(Nat) /\ a \in Seq(Nat) /\ Len(a) = Len(c) + 1 /\ Len(c) \in Nat
      /\ a[Len(c) + 1] = n + 1 /\ \A k \in 1..Len(c) : a[k] = c[k]
      /\ DOMAIN a = 1..Len(c) + 1 /\ DOMAIN c = 1..Len(c)
  BY DEF Line
<1> HIDE DEF a
<1>2. \A k \in DOMAIN a : \/ k \in DOMAIN c /\ a[k] = c[k]
                          \/ k = Len(c) + 1 /\ a[k] = n + 1
  <2>1. \A k \in 1..Len(c) + 1 : k \in 1..Len(c) \/ k = Len(c) + 1
    BY <1>1
  <2> QED
    BY <1>1, <2>1
<1>3. ToSet(a) = ToSet(c) \cup {n + 1}
  BY <1>1, <1>2 DEF ToSet
<1>4. \A t \in 1..n : t \in Nat /\ t \in 1..n + 1 /\ t < n + 1
  OBVIOUS
<1>5. Rising(a)
  <2> SUFFICES ASSUME NEW k \in DOMAIN a, NEW l \in DOMAIN a, k < l PROVE a[k] < a[l]
    BY DEF Rising
  <2>1. k \in DOMAIN c /\ a[k] = c[k]
    BY <1>1
  <2>2. CASE l \in DOMAIN c
    BY <1>1, <2>1, <2>2 DEF Line, Rising
  <2>3. CASE l = Len(c) + 1
    BY <1>1, <1>4, <2>1, <2>3 DEF Line
  <2> QED
    BY <1>1, <2>2, <2>3
<1>6. \A k \in DOMAIN a : a[k] \in 1..n + 1 /\ record[a[k]].type = y
  BY <1>2, <1>4 DEF Line
<1>7. \A i \in DOMAIN m : \A k \in DOMAIN m[i].texts :
          /\ m[i].texts[k] \in 1..n + 1
          /\ record[m[i].texts[k]].type = m[i].type
          /\ \A l \in DOMAIN a : m[i].texts[k] < a[l]
  BY <1>2, <1>4 DEF Line
<1> QED
  BY <1>1, <1>3, <1>5, <1>6, <1>7 DEF Line, a

\* A message may follow whose texts are all younger.
LEMMA OrderGrows ==
    ASSUME NEW m \in Seq(Messages), NEW c \in Seq(Nat), NEW y \in EventTypes,
           InOrder(m), Rising(c),
           \A i \in DOMAIN m : \A k \in DOMAIN m[i].texts :
               \A l \in DOMAIN c : m[i].texts[k] < c[l]
    PROVE  LET w == Append(m, [type |-> y, texts |-> c])
           IN  /\ w \in Seq(Messages) /\ InOrder(w)
               /\ Texts(w) = Texts(m) \cup ToSet(c)
               /\ \A i \in DOMAIN w : \/ i \in DOMAIN m /\ w[i] = m[i]
                                      \/ w[i].type = y /\ w[i].texts = c
<1> DEFINE e == [type |-> y, texts |-> c]
           w == Append(m, e)
<1>1. e \in Messages /\ e.type = y /\ e.texts = c
  BY DEF Messages
<1> HIDE DEF e
<1>2. /\ w \in Seq(Messages) /\ Len(m) \in Nat
      /\ DOMAIN w = 1..Len(m) + 1 /\ DOMAIN m = 1..Len(m)
      /\ w[Len(m) + 1] = e /\ \A i \in 1..Len(m) : w[i] = m[i]
  BY <1>1
<1> HIDE DEF w
<1>3. \A i \in DOMAIN w : \/ i \in DOMAIN m /\ w[i] = m[i]
                          \/ i = Len(m) + 1 /\ w[i] = e
  <2>1. \A i \in 1..Len(m) + 1 : i \in 1..Len(m) \/ i = Len(m) + 1
    BY <1>2
  <2> QED
    BY <1>2, <2>1
<1>4. Texts(w) = Texts(m) \cup ToSet(c)
  BY <1>1, <1>2, <1>3 DEF Texts
<1>5. InOrder(w)
  <2> SUFFICES ASSUME NEW i \in DOMAIN w, NEW j \in DOMAIN w,
                      NEW k \in DOMAIN w[i].texts, NEW l \in DOMAIN w[j].texts,
                      i < j \/ (i = j /\ k < l)
               PROVE  w[i].texts[k] < w[j].texts[l]
    BY DEF InOrder
  <2>1. CASE i \in DOMAIN m /\ j \in DOMAIN m
    BY <1>2, <2>1 DEF InOrder
  <2>2. CASE i \in DOMAIN m /\ j = Len(m) + 1
    BY <1>1, <1>2, <2>2
  <2>3. CASE i = Len(m) + 1 /\ j = Len(m) + 1
    BY <1>1, <1>2, <2>3 DEF Rising
  <2> QED
    BY <1>2, <2>1, <2>2, <2>3
<1> QED
  BY <1>1, <1>2, <1>3, <1>4, <1>5 DEF w, e

\* The cache is written.
LEMMA LineFlushed ==
    ASSUME NEW m, NEW c, NEW y \in EventTypes, NEW n \in Nat, NEW record, Line(m, c, y, n, record),
           NEW z
    PROVE  LET w == Append(m, [type |-> y, texts |-> c])
           IN  /\ Line(w, <<>>, z, n, record)
               /\ Texts(w) = Texts(m) \cup ToSet(c)
<1> DEFINE w == Append(m, [type |-> y, texts |-> c])
<1>1. /\ w \in Seq(Messages) /\ InOrder(w)
      /\ Texts(w) = Texts(m) \cup ToSet(c)
      /\ \A i \in DOMAIN w : \/ i \in DOMAIN m /\ w[i] = m[i]
                             \/ w[i].type = y /\ w[i].texts = c
  BY OrderGrows DEF Line
<1> HIDE DEF w
<1>2. \A i \in DOMAIN w : \A k \in DOMAIN w[i].texts :
          /\ w[i].texts[k] \in 1..n
          /\ record[w[i].texts[k]].type = w[i].type
  BY <1>1 DEF Line
<1>3. Line(w, <<>>, z, n, record)
  BY <1>1, <1>2 DEF Line, Rising
<1> QED
  BY <1>1, <1>3 DEF w

ReaderStates ==
    [at : {"new", "checks", "pops", "done"}, cancelled : BOOLEAN, cached : Seq(Nat),
     type : Types, late : Nat]

Popped == Len(sent) - Len(stream)

ReaderTypes ==
    /\ sent \in Seq(Entries) /\ stream \in Seq(Nat)
    /\ readers \in [1..MaxReaders -> ReaderStates]

\* The queue is the rest of the record.
StreamIsTheRest ==
    /\ Len(stream) <= Len(sent)
    /\ \A k \in DOMAIN stream : stream[k] = Popped + k

\* One call after the other is answered, and one that was cancelled takes one
\* more event at most.
OneReads ==
    \A r \in 1..MaxReaders :
        /\ readers[r].at = "new" => ~readers[r].cancelled /\ readers[r].cached = <<>>
        /\ readers[r].at # "new" => \A s \in 1..MaxReaders : s < r => readers[s].cancelled
        /\ ~readers[r].cancelled \/ readers[r].at = "pops" => readers[r].late = 0
        /\ readers[r].late <= 1

Lined ==
    /\ Line(got, <<>>, "STDOUT", Popped, sent)
    /\ \A r \in 1..MaxReaders : ~readers[r].cancelled =>
           Line(got, readers[r].cached, readers[r].type, Popped, sent)

Covered ==
    Cancelled = {} /\ MaxReaders > 0 =>
        Texts(got) \cup ToSet(readers[1].cached) = 1..Popped

ReadingInv == ReaderTypes /\ StreamIsTheRest /\ OneReads /\ Lined /\ Covered

\* What comes to the client when the call r writes.
LEMMA Writes ==
    ASSUME NEW m, NEW c, NEW y \in EventTypes, NEW n \in Nat, Line(m, c, y, n, sent), NEW z,
           NEW r \in 1..MaxReaders, ~readers[r].cancelled
    PROVE  LET w == m \o Written(r, [type |-> y, texts |-> c])
           IN  /\ Line(w, <<>>, z, n, sent)
               /\ Texts(w) = Texts(m) \cup ToSet(c)
<1>1. m \in Seq(Messages) /\ c \in Seq(Nat) /\ [type |-> y, texts |-> c] \in Messages
  BY DEF Line, Messages
<1>2. CASE c = <<>>
  <2>1. m \o Written(r, [type |-> y, texts |-> c]) = m
    BY <1>1, <1>2, ConcatEmptySeq DEF Written
  <2>2. ToSet(c) = {}
    BY <1>2 DEF ToSet
  <2> QED
    BY <2>1, <2>2, LineWithout
<1>3. CASE c # <<>>
  <2>1. m \o Written(r, [type |-> y, texts |-> c]) = Append(m, [type |-> y, texts |-> c])
    BY <1>1, <1>3, AppendIsConcat DEF Written
  <2> QED
    BY <2>1, LineFlushed
<1> QED
  BY <1>2, <1>3

LEMMA WritesNothing ==
    ASSUME NEW m \in Seq(Messages), NEW r, readers[r].cancelled, NEW x
    PROVE  m \o Written(r, x) = m
  BY ConcatEmptySeq DEF Written

\* The numbers in the invariant.
LEMMA PoppedIsNat ==
    ASSUME ReaderTypes, StreamIsTheRest
    PROVE  /\ Popped \in Nat /\ Popped <= Len(sent)
           /\ Len(sent) \in Nat /\ Len(stream) \in Nat /\ Len(sent) = Popped + Len(stream)
<1>1. Len(sent) \in Nat /\ Len(stream) \in Nat /\ Len(stream) <= Len(sent)
  BY DEF ReaderTypes, StreamIsTheRest
<1> QED
  BY <1>1 DEF Popped

\* A push adds to the record and to the queue.
LEMMA PushStep ==
    ASSUME ReadingInv, NEW e \in Entries, PushEvent(e), UNCHANGED <<readers, got>>
    PROVE  ReadingInv'
<1> USE DEF ReadingInv
<1>1. /\ sent \in Seq(Entries) /\ stream \in Seq(Nat) /\ e \in Entries
      /\ sent' = Append(sent, e) /\ stream' = Append(stream, Len(sent'))
  BY DEF ReaderTypes, PushEvent
<1>2. /\ Popped \in Nat /\ Popped <= Len(sent)
      /\ Len(sent) \in Nat /\ Len(stream) \in Nat /\ Len(sent) = Popped + Len(stream)
  BY PoppedIsNat
<1>3. /\ sent' \in Seq(Entries) /\ Len(sent') = Len(sent) + 1
      /\ stream' \in Seq(Nat) /\ Len(stream') = Len(stream) + 1
      /\ stream'[Len(stream) + 1] = Len(sent) + 1
      /\ \A k \in 1..Len(stream) : stream'[k] = stream[k]
      /\ DOMAIN stream = 1..Len(stream) /\ DOMAIN stream' = 1..Len(stream) + 1
  <2>1. sent' \in Seq(Entries) /\ Len(sent') = Len(sent) + 1
    BY <1>1, AppendProperties
  <2>2. Len(sent') \in Nat
    BY <2>1, <1>2
  <2> QED
    BY <1>1, <1>2, <2>1, <2>2, AppendProperties
<1>4. Popped' = Popped
  BY <1>2, <1>3 DEF Popped
<1>5. ReaderTypes'
  BY <1>3 DEF ReaderTypes
<1>6. StreamIsTheRest'
  <2>1. Len(stream') <= Len(sent')
    BY <1>2, <1>3
  <2>2. ASSUME NEW k \in DOMAIN stream' PROVE stream'[k] = Popped + k
    <3>1. CASE k = Len(stream) + 1
      <4>1. Popped + (Len(stream) + 1) = Len(sent) + 1
        BY <1>2
      <4> QED
        BY <3>1, <4>1, <1>3
    <3>2. CASE k \in 1..Len(stream)
      BY <3>2, <1>3 DEF StreamIsTheRest
    <3> QED
      BY <3>1, <3>2, <1>2, <1>3
  <2> QED
    BY <2>1, <2>2, <1>4 DEF StreamIsTheRest
<1>7. OneReads' /\ Covered'
  BY <1>4 DEF OneReads, Covered, Cancelled
<1>8. Lined'
  BY <1>1, <1>2, <1>4, LineRecorded DEF Lined
<1> QED
  BY <1>5, <1>6, <1>7, <1>8


\* What a step of the call r does to the invariant, when it gets on to n.
LEMMA ReaderChanges ==
    ASSUME ReadingInv, NEW r \in 1..MaxReaders, NEW q \in ReaderStates, NEW n \in Nat,
           readers[r].at # "new", q.at # "new", q.cancelled = readers[r].cancelled,
           ~q.cancelled \/ q.at = "pops" => q.late = 0, q.late <= 1,
           readers' = [readers EXCEPT ![r] = q], sent' = sent, stream' \in Seq(Nat),
           StreamIsTheRest', Popped <= n, Popped' = n,
           readers[r].cancelled => got' = got,
           ~readers[r].cancelled =>
               /\ Line(got', q.cached, q.type, n, sent)
               /\ Texts(got) \cup ToSet(readers[r].cached) = 1..Popped
                      => Texts(got') \cup ToSet(q.cached) = 1..n
    PROVE  ReadingInv'
<1> USE DEF ReadingInv
<1>1. /\ readers' \in [1..MaxReaders -> ReaderStates] /\ readers'[r] = q
      /\ \A s \in 1..MaxReaders : s # r => readers'[s] = readers[s]
  BY DEF ReaderTypes
<1>2. \A s \in 1..MaxReaders : readers'[s].cancelled = readers[s].cancelled
  BY <1>1
<1>3. Popped \in Nat
  BY PoppedIsNat
<1>4. ReaderTypes'
  BY <1>1 DEF ReaderTypes
<1>5. OneReads'
  BY <1>1, <1>2 DEF OneReads
<1>6. Line(got', <<>>, "STDOUT", n, sent)
  <2>1. CASE readers[r].cancelled
    BY <1>3, <2>1, LineLater DEF Lined
  <2>2. CASE ~readers[r].cancelled
    BY <2>2, LineWithout
  <2> QED
    BY <2>1, <2>2
<1>7. ASSUME NEW s \in 1..MaxReaders, ~readers'[s].cancelled
      PROVE  Line(got', readers'[s].cached, readers'[s].type, n, sent)
  <2>1. CASE s = r
    BY <1>1, <1>7, <2>1
  <2>2. CASE s # r /\ readers[r].cancelled
    BY <1>1, <1>3, <1>7, <2>2, LineLater DEF Lined
  <2>3. CASE s # r /\ ~readers[r].cancelled
    <3>1. ~(s < r)
      BY <1>1, <1>7, <2>3 DEF OneReads
    <3>2. r < s
      BY <2>3, <3>1
    <3>3. readers[s].cached = <<>>
      BY <2>3, <3>2 DEF OneReads
    <3> QED
      BY <1>1, <2>3, <3>3, LineWithout
  <2> QED
    BY <2>1, <2>2, <2>3
<1>8. Lined'
  BY <1>6, <1>7 DEF Lined
<1>9. Covered'
  <2> SUFFICES ASSUME Cancelled' = {}, MaxReaders > 0
               PROVE  Texts(got') \cup ToSet(readers'[1].cached) = 1..n
    BY DEF Covered
  <2>1. Cancelled = {}
    BY <1>2 DEF Cancelled
  <2>2. 1 \in 1..MaxReaders /\ ~readers[r].cancelled /\ ~readers[1].cancelled
    BY <2>1, OutputAssumption DEF Cancelled
  <2>3. ~(1 < r)
    BY <2>2 DEF OneReads
  <2>4. r = 1
    BY <2>3
  <2> QED
    BY <1>1, <2>1, <2>2, <2>4 DEF Covered
<1> QED
  BY <1>4, <1>5, <1>8, <1>9

\* The client calls, or cancels.
LEMMA ClientStep ==
    ASSUME ReadingInv, NEW r \in 1..MaxReaders, Subscribe(r) \/ Cancel(r)
    PROVE  ReadingInv'
<1> USE DEF ReadingInv
<1>1. UNCHANGED <<events, got>> /\ readers[r] \in ReaderStates
  BY DEF Subscribe, Cancel, ReaderTypes
<1>2. /\ sent' = sent /\ stream' = stream /\ got' = got /\ Popped' = Popped
      /\ StreamIsTheRest'
  BY <1>1 DEF events, Popped, StreamIsTheRest
<1>3. CASE Subscribe(r)
  <2> DEFINE q == [readers[r] EXCEPT !.at = "checks"]
  <2>1. readers' = [readers EXCEPT ![r] = q] /\ readers[r].at = "new"
        /\ (r > 1 => readers[r - 1].cancelled)
    BY <1>3 DEF Subscribe, IsAt
  <2>2. /\ q \in ReaderStates /\ q.at = "checks" /\ q.cancelled = readers[r].cancelled
        /\ q.cached = readers[r].cached /\ q.type = readers[r].type /\ q.late = readers[r].late
    BY <1>1 DEF ReaderStates
  <2> HIDE DEF q
  <2>3. /\ readers' \in [1..MaxReaders -> ReaderStates] /\ readers'[r] = q
        /\ \A s \in 1..MaxReaders : s # r => readers'[s] = readers[s]
    BY <2>1, <2>2 DEF ReaderTypes
  <2>4. \A s \in 1..MaxReaders :
            /\ readers'[s].cancelled = readers[s].cancelled /\ readers'[s].cached = readers[s].cached
            /\ readers'[s].type = readers[s].type /\ readers'[s].late = readers[s].late
    BY <2>2, <2>3
  <2>5. ReaderTypes'
    BY <1>2, <2>3 DEF ReaderTypes
  <2>6. \A s \in 1..MaxReaders : s < r => readers[s].cancelled
    <3> SUFFICES ASSUME NEW s \in 1..MaxReaders, s < r PROVE readers[s].cancelled
      OBVIOUS
    <3>1. r - 1 \in 1..MaxReaders /\ r > 1 /\ (s = r - 1 \/ s < r - 1)
      BY OutputAssumption
    <3>2. readers[r - 1].cancelled /\ readers[r - 1].at # "new"
      BY <2>1, <3>1 DEF OneReads
    <3> QED
      BY <3>1, <3>2 DEF OneReads
  <2>7. OneReads'
    <3> SUFFICES ASSUME NEW p \in 1..MaxReaders
                 PROVE  /\ readers'[p].at = "new" => ~readers'[p].cancelled /\ readers'[p].cached = <<>>
                        /\ readers'[p].at # "new" =>
                               \A s \in 1..MaxReaders : s < p => readers'[s].cancelled
                        /\ ~readers'[p].cancelled \/ readers'[p].at = "pops" => readers'[p].late = 0
                        /\ readers'[p].late <= 1
      BY DEF OneReads
    <3>1. CASE p # r
      BY <2>3, <2>4, <3>1 DEF OneReads
    <3>2. CASE p = r
      BY <2>1, <2>2, <2>3, <2>4, <2>6, <3>2 DEF OneReads
    <3> QED
      BY <3>1, <3>2
  <2>8. Lined'
    BY <1>2, <2>4 DEF Lined
  <2>9. Covered'
    <3>1. Cancelled' = Cancelled
      BY <2>4 DEF Cancelled
    <3>2. MaxReaders > 0 => readers'[1].cached = readers[1].cached
      BY <2>4, OutputAssumption
    <3> QED
      BY <1>2, <3>1, <3>2 DEF Covered
  <2> QED
    BY <1>2, <2>5, <2>7, <2>8, <2>9
<1>4. CASE Cancel(r)
  <2> DEFINE q == [readers[r] EXCEPT !.cancelled = TRUE]
  <2>1. readers' = [readers EXCEPT ![r] = q] /\ readers[r].at \in {"checks", "pops"}
        /\ ~readers[r].cancelled
    BY <1>4 DEF Cancel
  <2>2. /\ q \in ReaderStates /\ q.at = readers[r].at /\ q.cancelled
        /\ q.late = readers[r].late
    BY <1>1 DEF ReaderStates
  <2> HIDE DEF q
  <2>3. /\ readers' \in [1..MaxReaders -> ReaderStates] /\ readers'[r] = q
        /\ \A s \in 1..MaxReaders : s # r => readers'[s] = readers[s]
    BY <2>1, <2>2 DEF ReaderTypes
  <2>4. ReaderTypes'
    BY <1>2, <2>3 DEF ReaderTypes
  <2>5. OneReads'
    BY <2>1, <2>2, <2>3 DEF OneReads
  <2>6. Lined'
    BY <1>2, <2>2, <2>3 DEF Lined
  <2>7. r \in Cancelled'
    BY <2>2, <2>3 DEF Cancelled
  <2> QED
    BY <1>2, <2>4, <2>5, <2>6, <2>7 DEF Covered
<1> QED
  BY <1>3, <1>4

\* getAsyncEvents looks whether to go on, or writes what has waited.
LEMMA ReaderRests ==
    ASSUME ReadingInv, NEW r \in 1..MaxReaders, ReaderChecks(r) \/ ReaderWaits(r)
    PROVE  ReadingInv'
<1> USE DEF ReadingInv
<1> DEFINE w == got \o Written(r, Cached(r))
<1>1. UNCHANGED events /\ readers[r] \in ReaderStates /\ readers[r].at \in {"checks", "pops"}
  BY DEF ReaderChecks, ReaderWaits, ReaderTypes, IsAt
<1>2. /\ sent' = sent /\ stream' = stream /\ Popped' = Popped
      /\ StreamIsTheRest' /\ stream' \in Seq(Nat)
      /\ got \in Seq(Messages)
  BY <1>1 DEF events, Popped, StreamIsTheRest, ReaderTypes, Lined, Line
<1>3. PICK n \in Nat : n = Popped
  BY PoppedIsNat
<1>4. /\ readers[r].cancelled => w = got
      /\ ~readers[r].cancelled =>
             /\ Line(w, <<>>, readers[r].type, n, sent)
             /\ Texts(w) = Texts(got) \cup ToSet(readers[r].cached)
  <2>1. CASE readers[r].cancelled
    BY <1>2, <2>1, WritesNothing
  <2>2. CASE ~readers[r].cancelled
    <3>1. readers[r].type \in EventTypes
      BY <1>1 DEF ReaderStates, EventTypes
    <3>2. Line(got, readers[r].cached, readers[r].type, n, sent)
      BY <1>3, <2>2 DEF Lined
    <3> QED
      BY <2>2, <3>1, <3>2, Writes DEF Cached
  <2> QED
    BY <2>1, <2>2
<1> HIDE DEF w
<1>5. ToSet(<<>>) = {}
  BY DEF ToSet
<1>6. ASSUME NEW x \in {"done", "checks"}, got' = w,
             readers' = [readers EXCEPT ![r].at = x, ![r].cached = <<>>]
      PROVE  ReadingInv'
  <2> DEFINE q == [readers[r] EXCEPT !.at = x, !.cached = <<>>]
  <2>1. readers' = [readers EXCEPT ![r] = q]
    BY <1>6
  <2>2. /\ q \in ReaderStates /\ q.at = x /\ q.cancelled = readers[r].cancelled
        /\ q.cached = <<>> /\ q.type = readers[r].type /\ q.late = readers[r].late
    <3> DEFINE a == [readers[r] EXCEPT !.at = x]
    <3>1. /\ a \in ReaderStates /\ a.at = x /\ a.cancelled = readers[r].cancelled
          /\ a.type = readers[r].type /\ a.late = readers[r].late
      BY <1>1 DEF ReaderStates
    <3>2. q = [a EXCEPT !.cached = <<>>]
      OBVIOUS
    <3>3. <<>> \in Seq(Nat)
      OBVIOUS
    <3> HIDE DEF a, q
    <3> QED
      BY <3>1, <3>2, <3>3 DEF ReaderStates
  <2> HIDE DEF q
  <2>3. /\ q.at # "new" /\ (~q.cancelled \/ q.at = "pops" => q.late = 0) /\ q.late <= 1
    BY <2>2 DEF OneReads
  <2>4. ~readers[r].cancelled =>
            /\ Line(got', q.cached, q.type, n, sent)
            /\ Texts(got) \cup ToSet(readers[r].cached) = 1..Popped
                   => Texts(got') \cup ToSet(q.cached) = 1..n
    BY <1>3, <1>4, <1>5, <1>6, <2>2
  <2>5. Popped <= n /\ Popped' = n /\ (readers[r].cancelled => got' = got)
    BY <1>2, <1>3, <1>4, <1>6
  <2> QED
    BY <1>1, <1>2, <2>1, <2>2, <2>3, <2>4, <2>5, ReaderChanges
<1>7. CASE ReaderChecks(r) /\ ~(readers[r].cancelled \/ terminateProceed)
  <2> DEFINE q == [readers[r] EXCEPT !.at = "pops"]
  <2>1. readers' = [readers EXCEPT ![r] = q] /\ got' = got
    BY <1>7 DEF ReaderChecks
  <2>2. /\ q \in ReaderStates /\ q.at = "pops" /\ q.cancelled = readers[r].cancelled
        /\ q.cached = readers[r].cached /\ q.type = readers[r].type /\ q.late = readers[r].late
    BY <1>1 DEF ReaderStates
  <2> HIDE DEF q
  <2>3. /\ q.at # "new" /\ (~q.cancelled \/ q.at = "pops" => q.late = 0) /\ q.late <= 1
    BY <1>7, <2>2 DEF OneReads
  <2>4. /\ Line(got', q.cached, q.type, n, sent)
        /\ Texts(got) \cup ToSet(readers[r].cached) = 1..Popped
               => Texts(got') \cup ToSet(q.cached) = 1..n
    BY <1>3, <1>7, <2>1, <2>2 DEF Lined
  <2>5. Popped <= n /\ Popped' = n
    BY <1>2, <1>3
  <2> QED
    BY <1>1, <1>2, <2>1, <2>2, <2>3, <2>4, <2>5, ReaderChanges
<1>8. CASE ReaderChecks(r) /\ (readers[r].cancelled \/ terminateProceed)
  BY <1>6, <1>8 DEF ReaderChecks, w
<1>9. CASE ReaderWaits(r)
  BY <1>6, <1>9 DEF ReaderWaits, FlushLate, w
<1> QED
  BY <1>7, <1>8, <1>9


\* What getAsyncEvents makes of the event that it takes from the queue.
LEMMA ReaderTakes ==
    ASSUME ReadingInv, NEW r \in 1..MaxReaders, ReaderPops(r)
    PROVE  ReadingInv'
<1> USE DEF ReadingInv
<1> DEFINE i == Head(stream)
           b == IF Flushes(r, sent[i]) THEN Written(r, Cached(r)) ELSE <<>>
           g == got \o b
           c == IF Flushes(r, sent[i]) THEN <<>> ELSE readers[r].cached
           late == IF readers[r].cancelled THEN readers[r].late + 1 ELSE readers[r].late
           y == sent[i].type
           w == g \o Written(r, [type |-> y, texts |-> Append(c, i)])
\* The event and the queue.
<1>1. /\ readers[r] \in ReaderStates /\ readers[r].at = "pops" /\ stream # <<>>
      /\ stream' = Tail(stream) /\ sent' = sent /\ stream \in Seq(Nat)
      /\ got \in Seq(Messages) /\ sent \in Seq(Entries)
  BY DEF ReaderPops, ReaderTypes, IsAt, Lined, Line
<1>2. PICK n \in Nat : n = Popped
  BY PoppedIsNat
<1>3. /\ Len(stream) \in Nat \ {0} /\ i = stream[1] /\ 1 \in DOMAIN stream
      /\ stream' \in Seq(Nat) /\ Len(stream') = Len(stream) - 1
      /\ DOMAIN stream = 1..Len(stream) /\ DOMAIN stream' = 1..Len(stream) - 1
      /\ \A k \in 1..Len(stream) - 1 : stream'[k] = stream[k + 1]
  BY <1>1, HeadTailProperties
<1>4. i = n + 1 /\ n + 1 \in 1..Len(sent)
  <2>1. i = n + 1
    BY <1>2, <1>3 DEF StreamIsTheRest
  <2>2. Len(sent) = n + Len(stream) /\ Len(sent) \in Nat
    BY <1>2, PoppedIsNat
  <2> QED
    BY <2>1, <2>2, <1>3
<1>5. y \in EventTypes
  <2>1. sent[i] \in Entries
    BY <1>1, <1>4, ElementOfSeq
  <2> QED
    <3>1. PICK t \in Types \cup {"other"} : sent[i] = [type |-> t]
      BY <2>1 DEF Entries, Text
    <3> QED
      BY <3>1 DEF EventTypes
<1>6. Popped' = n + 1 /\ Popped <= n + 1 /\ n + 1 \in Nat
  <2>1. Len(sent) = n + Len(stream) /\ Len(sent) \in Nat
    BY <1>2, PoppedIsNat
  <2>2. Popped' = Len(sent) - (Len(stream) - 1)
    BY <1>1, <1>3 DEF Popped
  <2> QED
    BY <2>1, <2>2, <1>2, <1>3
<1>7. StreamIsTheRest'
  <2>1. Len(stream') <= Len(sent')
    BY <1>1, <1>3, PoppedIsNat
  <2>2. ASSUME NEW k \in DOMAIN stream' PROVE stream'[k] = (n + 1) + k
    <3>1. k \in 1..Len(stream) - 1 /\ k + 1 \in DOMAIN stream
      BY <1>3
    <3>2. stream'[k] = n + (k + 1)
      BY <3>1, <1>2, <1>3 DEF StreamIsTheRest
    <3> QED
      BY <3>1, <3>2, <1>3
  <2> QED
    BY <2>1, <2>2, <1>6 DEF StreamIsTheRest
<1> HIDE DEF i
<1>8. /\ y = "other" => PassOn(r, i, b)
      /\ y # "other" => Collect(r, i, b)
  BY DEF ReaderPops, i
<1> HIDE DEF b, c, y
\* What is written first, and what comes after.
<1>9. /\ readers[r].cancelled => g = got
      /\ ~readers[r].cancelled =>
             /\ Line(g, c, y, n, sent)
             /\ Texts(g) \cup ToSet(c) = Texts(got) \cup ToSet(readers[r].cached)
  <2>1. CASE Flushes(r, sent[i])
    <3>1. g = got \o Written(r, Cached(r)) /\ c = <<>> /\ ToSet(c) = {}
      BY <2>1 DEF b, c, ToSet
    <3>2. CASE readers[r].cancelled
      BY <3>1, <3>2, <1>1, WritesNothing
    <3>3. CASE ~readers[r].cancelled
      <4>1. readers[r].type \in EventTypes
        BY <1>1 DEF ReaderStates, EventTypes
      <4>2. Line(got, readers[r].cached, readers[r].type, n, sent)
        BY <1>2, <3>3 DEF Lined
      <4>3. LET v == got \o Written(r, [type |-> readers[r].type, texts |-> readers[r].cached])
            IN  /\ Line(v, <<>>, y, n, sent)
                /\ Texts(v) = Texts(got) \cup ToSet(readers[r].cached)
        BY <3>3, <4>1, <4>2, Writes
      <4>4. g = got \o Written(r, [type |-> readers[r].type, texts |-> readers[r].cached])
        BY <3>1 DEF Cached
      <4> QED
        BY <3>1, <3>3, <4>3, <4>4
    <3> QED
      BY <3>2, <3>3
  <2>2. CASE ~Flushes(r, sent[i])
    <3>1. g = got /\ c = readers[r].cached /\ y = readers[r].type
      BY <2>2, <1>1, ConcatEmptySeq DEF b, c, y, Flushes
    <3> QED
      BY <3>1, <1>2 DEF Lined
  <2> QED
    BY <2>1, <2>2
<1> HIDE DEF g
\* The event joins the texts.
<1>10. ~readers[r].cancelled =>
           /\ Line(g, Append(c, i), y, n + 1, sent)
           /\ ToSet(Append(c, i)) = ToSet(c) \cup {n + 1}
  <2>1. sent[n + 1].type = y
    BY <1>4 DEF y
  <2>2. ~readers[r].cancelled =>
            /\ Line(g, Append(c, n + 1), y, n + 1, sent)
            /\ ToSet(Append(c, n + 1)) = ToSet(c) \cup {n + 1}
    BY <2>1, <1>9, LineGrows
  <2> QED
    BY <2>2, <1>4
<1>11. /\ readers[r].cancelled => w = got
       /\ ~readers[r].cancelled => \A z :
              /\ Line(w, <<>>, z, n + 1, sent)
              /\ Texts(w) = Texts(g) \cup ToSet(Append(c, i))
  <2>1. CASE readers[r].cancelled
    BY <1>1, <1>9, <2>1, WritesNothing
  <2>2. CASE ~readers[r].cancelled
    BY <1>5, <1>6, <1>10, <2>2, Writes
  <2> QED
    BY <2>1, <2>2
<1> HIDE DEF w
<1>12. 1..n + 1 = 1..n \cup {n + 1}
  OBVIOUS
<1>13. c \in Seq(Nat)
  BY <1>1 DEF c, ReaderStates
<1>14. late \in Nat /\ late <= 1 /\ (~readers[r].cancelled => late = 0)
  BY <1>1 DEF OneReads, ReaderStates
<1> HIDE DEF late
\* In either way the call goes on with a state like this.
<1>15. ASSUME NEW q \in ReaderStates, readers' = [readers EXCEPT ![r] = q],
              q.at = "checks", q.cancelled = readers[r].cancelled, q.late = late,
              \/ got' = w /\ q.cached = <<>>
              \/ got' = g /\ q.cached = Append(c, i) /\ q.type = y
       PROVE  ReadingInv'
  <2>1. readers[r].cancelled => got' = got
    BY <1>9, <1>11, <1>15
  <2>2. ~readers[r].cancelled =>
            /\ Line(got', q.cached, q.type, n + 1, sent)
            /\ Texts(got') \cup ToSet(q.cached) = Texts(g) \cup ToSet(Append(c, i))
    <3>1. ToSet(<<>>) = {}
      BY DEF ToSet
    <3>2. CASE got' = w /\ q.cached = <<>>
      BY <1>11, <3>1, <3>2
    <3>3. CASE got' = g /\ q.cached = Append(c, i) /\ q.type = y
      BY <1>10, <3>3
    <3> QED
      BY <1>15, <3>2, <3>3
  <2>3. ~readers[r].cancelled =>
            /\ Line(got', q.cached, q.type, n + 1, sent)
            /\ Texts(got) \cup ToSet(readers[r].cached) = 1..Popped
                   => Texts(got') \cup ToSet(q.cached) = 1..n + 1
    <3> SUFFICES ASSUME ~readers[r].cancelled,
                        Texts(got) \cup ToSet(readers[r].cached) = 1..Popped
                 PROVE  Texts(got') \cup ToSet(q.cached) = 1..n + 1
      BY <2>2
    <3>1. Texts(got') \cup ToSet(q.cached) = (Texts(g) \cup ToSet(c)) \cup {n + 1}
      BY <2>2, <1>10
    <3> QED
      BY <3>1, <1>2, <1>9, <1>12
  <2>4. readers[r].at # "new" /\ q.at # "new" /\ q.cancelled = readers[r].cancelled
        /\ (~q.cancelled \/ q.at = "pops" => q.late = 0) /\ q.late <= 1
    BY <1>1, <1>14, <1>15
  <2> QED
    BY <1>1, <1>3, <1>6, <1>7, <1>15, <2>1, <2>3, <2>4, ReaderChanges
<1>16. CASE y = "other"
  <2> DEFINE q == [readers[r] EXCEPT !.at = "checks", !.cached = <<>>, !.late = late]
  <2>1. Flushes(r, sent[i]) /\ c = <<>>
    BY <1>1, <1>16 DEF Flushes, ReaderStates, Types, c, y
  <2>2. Append(c, i) = <<i>>
    BY <2>1
  <2>3. got' = w
    BY <1>8, <1>16, <2>2 DEF PassOn, w, g
  <2>4. readers' = [readers EXCEPT ![r] = q]
    BY <1>8, <1>16 DEF PassOn, late
  <2>5. /\ q \in ReaderStates /\ q.at = "checks" /\ q.cancelled = readers[r].cancelled
        /\ q.late = late /\ q.cached = <<>>
    <3> DEFINE a == [readers[r] EXCEPT !.at = "checks", !.late = late]
    <3>1. /\ a \in ReaderStates /\ a.at = "checks" /\ a.cancelled = readers[r].cancelled
          /\ a.late = late
      BY <1>1, <1>14 DEF ReaderStates
    <3>2. q = [a EXCEPT !.cached = <<>>]
      OBVIOUS
    <3>3. <<>> \in Seq(Nat)
      OBVIOUS
    <3> HIDE DEF a, q
    <3> QED
      BY <3>1, <3>2, <3>3 DEF ReaderStates
  <2> QED
    BY <1>15, <2>3, <2>4, <2>5
<1>17. CASE y # "other"
  <2> DEFINE full == Len(Append(c, i)) > TextLimit
             k == IF full THEN <<>> ELSE Append(c, i)
             q == [readers[r] EXCEPT !.at = "checks", !.type = y, !.cached = k, !.late = late]
  <2>1. (IF Flushes(r, sent[i]) THEN <<i>> ELSE Append(readers[r].cached, i)) = Append(c, i)
    <3>1. Append(<<>>, i) = <<i>>
      OBVIOUS
    <3> QED
      BY <3>1 DEF c
  <2>2. /\ got' = g \o (IF full THEN Written(r, [type |-> y, texts |-> Append(c, i)]) ELSE <<>>)
        /\ readers' = [readers EXCEPT ![r] = q]
    BY <1>8, <1>17, <2>1 DEF Collect, late, g, y
  <2> HIDE DEF full
  <2>3. i \in Nat /\ Append(c, i) \in Seq(Nat)
    BY <1>4, <1>13
  <2>4. k \in Seq(Nat) /\ y \in Types
    BY <1>5, <1>17, <2>3 DEF EventTypes
  <2>5. g \in Seq(Messages)
    <3>1. CASE readers[r].cancelled
      BY <1>1, <1>9, <3>1
    <3>2. CASE ~readers[r].cancelled
      BY <1>9, <3>2 DEF Line
    <3> QED
      BY <3>1, <3>2
  <2>6. \/ got' = w /\ k = <<>>
        \/ got' = g /\ k = Append(c, i)
    BY <2>2, <2>5, ConcatEmptySeq DEF w
  <2> HIDE DEF k
  <2>7. /\ q \in ReaderStates /\ q.at = "checks" /\ q.cancelled = readers[r].cancelled
        /\ q.late = late /\ q.cached = k /\ q.type = y
    BY <1>1, <1>14, <2>4 DEF ReaderStates
  <2> HIDE DEF q
  <2> QED
    BY <1>15, <2>2, <2>6, <2>7
<1> QED
  BY <1>16, <1>17


\* Every step keeps the invariant.
LEMMA ReadingStep == HandlerInv /\ ReadingInv /\ [OutputNext]_outputVars => ReadingInv'
<1> SUFFICES ASSUME HandlerInv, ReadingInv, [OutputNext]_outputVars PROVE ReadingInv'
  OBVIOUS
<1>1. ASSUME UNCHANGED <<events, readers, got>> PROVE ReadingInv'
  BY <1>1 DEF ReadingInv, ReaderTypes, StreamIsTheRest, OneReads, Lined, Covered, Cancelled,
              Popped, events
<1>2. ASSUME NEW h, NEW t \in Types, NEW n, Handle(h, t, n), UNCHANGED reading PROVE ReadingInv'
  <2>1. Text(t) \in Entries /\ UNCHANGED <<readers, got>>
    BY <1>2 DEF Entries, reading
  <2>2. CASE PushEvent(Text(t))
    BY <2>1, <2>2, PushStep
  <2>3. CASE UNCHANGED events
    BY <1>1, <2>1, <2>3
  <2> QED
    BY <1>2, <2>2, <2>3 DEF Handle
<1>3. CASE (\E kind \in Kinds : Install(kind)) \/ Uninstall \/ WriteConsole \/ Proceed
  BY <1>1, <1>3 DEF Install, Uninstall, PutBack, WriteConsole, Proceed, reading
<1>4. CASE SendText
  BY <1>2, <1>4 DEF SendText, HandlerInv, HandlerTypes, reading
<1>5. CASE SendEvent
  <2>1. PICK t \in Types \cup {"other"} : PushEvent(Text(t))
    BY <1>5 DEF SendEvent
  <2>2. Text(t) \in Entries /\ UNCHANGED <<readers, got>>
    BY <1>5 DEF SendEvent, Entries, reading
  <2> QED
    BY <2>1, <2>2, PushStep
<1>6. ASSUME NEW c \in Children,
             \/ Fork(c) \/ ChildWrites(c) \/ ChildExits(c)
             \/ \E t \in Types : ThreadSteps(c, t)
      PROVE  ReadingInv'
  <2>1. CASE Fork(c) \/ ChildWrites(c) \/ ChildExits(c)
    BY <1>1, <2>1 DEF Fork, ChildWrites, ChildExits, reading
  <2>2. ASSUME NEW t \in Types, ThreadSteps(c, t) PROVE ReadingInv'
    <3>1. CASE ThreadReads(c, t) \/ ThreadLocks(c, t)
      BY <1>1, <3>1 DEF ThreadReads, ThreadLocks, reading
    <3>2. CASE ThreadPushes(c, t)
      <4>1. PushEvent(Text(t)) /\ Text(t) \in Entries /\ UNCHANGED <<readers, got>>
        BY <3>2 DEF ThreadPushes, Entries, reading
      <4> QED
        BY <4>1, PushStep
    <3>3. CASE ThreadWrites(c, t)
      BY <1>2, <3>3 DEF ThreadWrites
    <3> QED
      BY <2>2, <3>1, <3>2, <3>3 DEF ThreadSteps
  <2> QED
    BY <1>6, <2>1, <2>2
<1>7. ASSUME NEW r \in 1..MaxReaders, Subscribe(r) \/ Cancel(r) \/ Reader(r) PROVE ReadingInv'
  BY <1>7, ClientStep, ReaderRests, ReaderTakes DEF Reader
<1>8. CASE UNCHANGED outputVars
  BY <1>1, <1>8 DEF outputVars, reading
<1> QED
  BY <1>3, <1>4, <1>5, <1>6, <1>7, <1>8 DEF OutputNext

\* Nothing was pushed yet.
LEMMA ReadingStart == OutputInit => ReadingInv
<1> SUFFICES ASSUME OutputInit PROVE ReadingInv
  OBVIOUS
<1> USE DEF OutputInit
<1>1. Popped = 0 /\ Len(sent) = 0 /\ Len(stream) = 0
  BY DEF Popped
<1>2. Unread \in ReaderStates /\ Unread.cached = <<>> /\ Unread.at = "new"
      /\ ~Unread.cancelled /\ Unread.late = 0
  BY DEF Unread, ReaderStates, Types
<1>3. ReaderTypes
  BY <1>2 DEF ReaderTypes
<1>4. \A r \in 1..MaxReaders : readers[r] = Unread
  OBVIOUS
<1>5. StreamIsTheRest /\ OneReads
  BY <1>1, <1>2, <1>4 DEF StreamIsTheRest, OneReads
<1>6. \A z : Line(<<>>, <<>>, z, 0, sent)
  BY DEF Line, InOrder, Rising
<1>7. Lined
  BY <1>1, <1>2, <1>4, <1>6 DEF Lined
<1>8. Covered
  <2>1. Texts(<<>>) = {} /\ ToSet(<<>>) = {} /\ 1..0 = {}
    BY DEF Texts, ToSet
  <2>2. MaxReaders > 0 => readers[1].cached = <<>>
    BY <1>2, <1>4, OutputAssumption
  <2> QED
    BY <1>1, <2>1, <2>2 DEF Covered
<1> QED
  BY <1>3, <1>5, <1>7, <1>8 DEF ReadingInv

\* What the invariant says of what the client got.
LEMMA ReadingIsInOrder == ReadingInv => TextsComeAsWritten
<1> SUFFICES ASSUME ReadingInv PROVE TextsComeAsWritten
  OBVIOUS
<1> USE DEF ReadingInv
<1>1. PICK n \in Nat : n = Popped
  BY PoppedIsNat
<1>2. TextsKeepTheirType /\ InOrder(got)
  BY DEF TextsKeepTheirType, Lined, Line
<1>3. \A r \in Cancelled : readers[r].late <= 1
  BY DEF Cancelled, OneReads
<1>4. ASSUME Cancelled = {}, MaxReaders > 0
      PROVE  LET all == got \o <<Cached(1), [type |-> "other", texts |-> stream]>>
             IN  InOrder(all) /\ Texts(all) = DOMAIN sent
  <2> DEFINE v == Append(got, Cached(1))
             e == [type |-> "other", texts |-> stream]
             all == got \o <<Cached(1), e>>
  <2>1. 1 \in 1..MaxReaders
    BY <1>4, OutputAssumption
  <2>2. /\ ~readers[1].cancelled /\ readers[1].type \in EventTypes
        /\ Line(got, readers[1].cached, readers[1].type, n, sent)
    BY <1>1, <1>4, <2>1 DEF Cancelled, Lined, ReaderTypes, ReaderStates, EventTypes
  <2>3. /\ Line(v, <<>>, "other", n, sent)
        /\ Texts(v) = Texts(got) \cup ToSet(readers[1].cached)
    BY <2>2, LineFlushed DEF Cached
  <2>4. Texts(v) = 1..n
    BY <1>1, <1>4, <2>3 DEF Covered
  <2>5. Cached(1) \in Messages /\ e \in Messages /\ got \in Seq(Messages) /\ stream \in Seq(Nat)
    <3>1. readers[1].cached \in Seq(Nat) /\ got \in Seq(Messages) /\ stream \in Seq(Nat)
      BY <2>2 DEF Line, ReaderTypes
    <3> QED
      BY <2>2, <3>1 DEF Cached, Messages, EventTypes
  <2> HIDE DEF e
  <2>6. all = Append(v, e)
    <3>1. /\ all \in Seq(Messages) /\ Append(v, e) \in Seq(Messages)
          /\ Len(all) = Len(got) + 2 /\ Len(Append(v, e)) = Len(got) + 2
          /\ \A i \in 1..Len(got) + 2 : all[i] = Append(v, e)[i]
      BY <2>5
    <3> QED
      BY <3>1, SeqEqual
  <2> HIDE DEF v, all
  <2>7. /\ Len(stream) \in Nat /\ DOMAIN stream = 1..Len(stream) /\ DOMAIN sent = 1..Len(sent)
        /\ Len(sent) = n + Len(stream)
        /\ \A k \in 1..Len(stream) : stream[k] = n + k
    BY <1>1, PoppedIsNat DEF StreamIsTheRest, ReaderTypes
  <2>8. Rising(stream)
    BY <2>7 DEF Rising
  <2>9. ASSUME NEW i \in DOMAIN v, NEW k \in DOMAIN v[i].texts, NEW l \in DOMAIN stream
        PROVE  v[i].texts[k] < stream[l]
    <3>1. v[i].texts[k] \in 1..n
      BY <2>3 DEF Line
    <3> QED
      BY <3>1, <2>7
  <2>10. /\ InOrder(Append(v, e)) /\ Texts(Append(v, e)) = Texts(v) \cup ToSet(stream)
    <3>1. v \in Seq(Messages) /\ InOrder(v) /\ "other" \in EventTypes
      BY <2>3 DEF Line, EventTypes
    <3> QED
      BY <2>5, <2>8, <2>9, <3>1, OrderGrows DEF e
  <2>11. ToSet(stream) = n + 1..n + Len(stream)
    <3>1. PICK z \in Nat : z = Len(stream)
      BY <2>7
    <3>2. ToSet(stream) = {n + k : k \in 1..z}
      BY <2>7, <3>1 DEF ToSet
    <3>3. ASSUME NEW x \in n + 1..n + z PROVE x \in {n + k : k \in 1..z}
      <4>1. x - n \in 1..z /\ n + (x - n) = x
        OBVIOUS
      <4> QED
        BY <4>1
    <3>4. \A k \in 1..z : n + k \in n + 1..n + z
      OBVIOUS
    <3> QED
      BY <3>1, <3>2, <3>3, <3>4
  <2>12. 1..n \cup (n + 1..n + Len(stream)) = 1..n + Len(stream)
    BY <2>7
  <2> QED
    BY <2>4, <2>6, <2>7, <2>10, <2>11, <2>12 DEF all, e
<1> QED
  BY <1>2, <1>3, <1>4 DEF TextsComeAsWritten, TextsStayInPlace

\* What the client reads is what was pushed, in its order and with its types,
\* whatever was merged, held back, cancelled and asked for again
\* (getAsyncEvents).
THEOREM TextsArriveInOrder == OutputSpec => []TextsComeAsWritten
<1>1. HandlerInv /\ ReadingInv /\ [OutputNext]_outputVars => (HandlerInv /\ ReadingInv)'
  BY HandlerStep, ReadingStep
<1> QED
  BY HandlerStart, ReadingStart, ReadingIsInOrder, <1>1, PTL DEF OutputSpec


--------------------------------------------------------------------------
(* PrintedValue: what is known of an interrupt at each place of the call.   *)

\* The call has installed its handler and not yet removed it.
Evaluates == stage \in {"option", "prints", "restores", "caught", "tests", "leaves"}

\* Places, handlers and the variables that are set only later.
HandlerInForce ==
    /\ handler = "ours" <=> Evaluates
    /\ client = "second" => handler = "ours"
    /\ stage = "done" => client = "away"
    /\ stage = "begins" =>
         /\ asked = 0 /\ ~overtaken /\ ~wasAsyncInterrupt /\ ~before /\ ~trimmed /\ ~whole
         /\ result = 0 /\ printed = 0
    /\ stage \in {"begins", "option"} => width = "user"
    /\ stage \in {"begins", "option", "prints", "tests"} => thrown = "nothing"
    /\ stage \in {"caught", "tests"} => thrown # "error"

\* The text is what was printed, cut at the limit.
Collected == IF trimmed THEN result = MaxLength /\ printed > MaxLength ELSE result = printed

\* What the client asks for is pending, remembered or about to be.
AskedIsKnown ==
    /\ asked > 0 => client \in {"first", "second"} \/ wasAsyncInterrupt
    /\ asked = 0 => ~wasAsyncInterrupt /\ (handler = "ours" => client = "away")
    /\ \/ stage \in {"option", "prints"}
       \/ stage = "restores" /\ thrown # "interrupt"
       => (asked > 0 => client = "first" \/ pending)
    /\ stage = "leaves" /\ asked > 0 /\ ~overtaken => 
         thrown = "interrupt" \/ pending \/ client = "first"

\* With nobody asking, only the limit makes an interrupt pending.
PendingIsOurs ==
    asked = 0 /\ ~before =>
        /\ stage = "option" => ~pending
        /\ stage \in {"prints", "restores"} /\ pending => trimmed
        /\ stage = "tests" => ~pending
        /\ stage = "leaves" /\ thrown # "error" => thrown = "nothing" /\ ~pending
        /\ stage \in {"caught", "tests", "leaves"} /\ (suspended \/ ~trimmed) => width = "user"

\* A text that was not cut short is whole unless the client interrupted it.
Interrupted ==
    ~before /\ ~trimmed =>
        /\ stage \in {"option", "prints"} /\ pending => client = "second" \/ wasAsyncInterrupt
        /\ /\ stage \in {"restores", "caught", "tests"}
           /\ ~whole /\ thrown # "error"
           => client = "second" \/ wasAsyncInterrupt
        /\ stage = "leaves" /\ thrown = "nothing" /\ ~overtaken => whole

PrintInv ==
    /\ HandlerInForce /\ Collected /\ AskedIsKnown /\ PendingIsOurs /\ Interrupted
    /\ PrintingIsInterruptedOnPurpose

\* Every step keeps the invariant.
LEMMA PrintStep == PrintInv /\ [PrintNext]_printVars => PrintInv'
<1> SUFFICES ASSUME PrintInv, [PrintNext]_printVars PROVE PrintInv'
  OBVIOUS
<1> USE PrintAssumption
    DEF PrintInv, PrintingIsInterruptedOnPurpose, PrintTypeOK, HandlerInForce, Evaluates,
        Collected, AskedIsKnown, PendingIsOurs, Interrupted, InterruptArrives,
        NoStrayInterrupt, TextIsWhole, WidthComesBack, texts, interrupts, MutexFree,
        TakesInterrupt
<1>1. CASE InstallHandler
  BY <1>1 DEF InstallHandler
<1>2. CASE SetWidth
  <2>1. CASE width' = "default" /\ stage' = "prints" /\ UNCHANGED <<pending, thrown>>
    BY <1>2, <2>1 DEF SetWidth
  <2>2. CASE TakesInterrupt /\ stage' = "caught" /\ thrown' = "interrupt" /\ UNCHANGED width
    BY <1>2, <2>2 DEF SetWidth
  <2> QED
    BY <1>2, <2>1, <2>2 DEF SetWidth
<1>3. CASE PrintText
  <2>1. PICK c \in 1..(MaxPrinted - printed) : CollectText(c) /\ printed' = printed + c
    BY <1>3 DEF PrintText
  <2>2. c \in Nat \ {0}
    OBVIOUS
  <2>3. printed' \in Nat /\ result' \in 0..MaxLength /\ Collected'
    BY <2>1, <2>2 DEF CollectText
  <2>4. trimmed' \in BOOLEAN /\ pending' \in BOOLEAN /\ (pending => pending') /\ (trimmed => trimmed') /\ (~trimmed' => pending' = pending)
    BY <2>1 DEF CollectText
  <2> QED
    BY <1>3, <2>3, <2>4 DEF PrintText
<1>4. CASE EndPrinting
  <2>1. CASE whole' = TRUE /\ UNCHANGED <<pending, thrown>>
    BY <1>4, <2>1 DEF EndPrinting
  <2>2. CASE thrown' = "error" /\ UNCHANGED <<pending, whole>>
    BY <1>4, <2>2 DEF EndPrinting
  <2>3. CASE TakesInterrupt /\ thrown' = "interrupt" /\ UNCHANGED whole
    BY <1>4, <2>3 DEF EndPrinting
  <2> QED
    BY <1>4, <2>1, <2>2, <2>3 DEF EndPrinting
<1>5. CASE RestoreWidth
  BY <1>5 DEF RestoreWidth
<1>6. CASE Clear
  BY <1>6 DEF Clear
<1>7. CASE Test
  BY <1>7 DEF Test
<1>8. CASE RestoreHandler
  BY <1>8 DEF RestoreHandler
<1>9. CASE Lock
  BY <1>9 DEF Lock
<1>10. CASE MakePending
  BY <1>10 DEF MakePending
<1>11. CASE RememberInterrupt
  BY <1>11 DEF RememberInterrupt
<1>12. CASE UNCHANGED printVars
  BY <1>12 DEF printVars
<1> QED
  BY <1>1, <1>2, <1>3, <1>4, <1>5, <1>6, <1>7, <1>8, <1>9, <1>10, <1>11, <1>12 DEF PrintNext, MainStep

\* A printed value is whole or marked as trimmed, and the interrupt of the
\* client and that of the limit are never taken for each other
\* (evalAndGetPrintedValueWithLimit).
THEOREM PrintingIsSound == PrintSpec => []PrintingIsInterruptedOnPurpose
<1>1. PrintInit => PrintInv
  <2> SUFFICES ASSUME PrintInit PROVE PrintInv
    OBVIOUS
  <2>1. PrintTypeOK
    <3>1. result \in 0..MaxLength /\ printed \in Nat /\ asked \in Nat
      BY PrintAssumption DEF PrintInit
    <3>2. /\ trimmed \in BOOLEAN /\ whole \in BOOLEAN /\ wasAsyncInterrupt \in BOOLEAN
          /\ before \in BOOLEAN /\ overtaken \in BOOLEAN
      BY Zenon DEF PrintInit
    <3> QED
      BY <3>1, <3>2, Zenon DEF PrintInit, PrintTypeOK
  <2>2. HandlerInForce /\ Collected
    BY DEF PrintInit, HandlerInForce, Evaluates, Collected
  <2>3. AskedIsKnown /\ PendingIsOurs /\ Interrupted
    BY DEF PrintInit, AskedIsKnown, PendingIsOurs, Interrupted
  <2>4. InterruptArrives /\ NoStrayInterrupt /\ TextIsWhole /\ WidthComesBack
    BY DEF PrintInit, InterruptArrives, NoStrayInterrupt, TextIsWhole, WidthComesBack
  <2> QED
    BY <2>1, <2>2, <2>3, <2>4 DEF PrintInv, PrintingIsInterruptedOnPurpose
<1>2. PrintInv => PrintingIsInterruptedOnPurpose
  BY DEF PrintInv
<1> QED
  BY <1>1, <1>2, PrintStep, PTL DEF PrintSpec

============================================================================
