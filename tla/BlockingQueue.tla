-------------------------- MODULE BlockingQueue --------------------------
(***************************************************************************)
(* util/BlockingQueue.h, used as RPIServiceImpl::asyncEvents: any number   *)
(* of threads push events, getAsyncEvents threads set the limit and then   *)
(* pop with a deadline again and again.  One condition variable serves     *)
(* both the threads waiting for room and those waiting for an event, and   *)
(* every change wakes one of them, whichever the system picks.             *)
(*                                                                         *)
(* The mutex makes the code between two waits one atomic step.  A thread   *)
(* in the wait set is "asleep"; notify_one makes it "awake", the deadline  *)
(* makes it "late"; it runs on when it has the mutex again.                *)
(***************************************************************************)
EXTENDS Naturals, Sequences, FiniteSets

CONSTANTS Producers,    \* threads that push
          Consumers,    \* threads that pop with a deadline
          Values,       \* what is pushed
          Limit,        \* the argument of setMaxSize (8 in getAsyncEvents)
          MaxBacklog    \* model bound on the queue while it has no limit

ASSUME QueueAssumption ==
    /\ Limit \in Nat \ {0}
    /\ MaxBacklog \in Nat \ {0}
    /\ Producers \cap Consumers = {}

Threads == Producers \cup Consumers

VARIABLES queue,     \* oldest value first
          maxSize,   \* 0: no limit
          pc,        \* what each thread is doing
          value      \* the value each producer is pushing

vars == <<queue, maxSize, pc, value>>

TypeOK ==
    /\ queue \in Seq(Values)
    /\ maxSize \in {0, Limit}
    /\ pc \in [Threads -> {"ready", "asleep", "awake", "late"}]
    /\ value \in [Producers -> Values]
    /\ \A p \in Producers : pc[p] # "late"

Init ==
    /\ queue = <<>>
    /\ maxSize = 0
    /\ pc = [t \in Threads |-> "ready"]
    /\ value \in [Producers -> Values]

Asleep == {t \in Threads : pc[t] = "asleep"}

HasRoom == maxSize = 0 \/ Len(queue) < maxSize

\* condVar.notify_one() by thread t, which then leaves the queue.
LeaveAndNotifyOne(t) ==
    LET left == [pc EXCEPT ![t] = "ready"]
    IN  IF Asleep \ {t} = {}
          THEN pc' = left
          ELSE \E u \in Asleep \ {t} : pc' = [left EXCEPT ![u] = "awake"]

Sleep(t) == /\ pc' = [pc EXCEPT ![t] = "asleep"]
            /\ UNCHANGED queue

\* Mutant: push looks for room before it waits, not after (if for while).
PushWithoutSecondLook(p) ==
    /\ pc[p] = "awake"
    /\ UNCHANGED <<value, maxSize>>
    /\ queue' = Append(queue, value[p])
    /\ LeaveAndNotifyOne(p)

\* The body of push once the mutex is held.
PushOrSleep(p) ==
    \/ /\ HasRoom
       /\ queue' = Append(queue, value'[p])
       /\ LeaveAndNotifyOne(p)
    \/ ~HasRoom /\ Sleep(p)

Push(p) ==
    /\ pc[p] = "ready"
    /\ maxSize = 0 => Len(queue) < MaxBacklog
    /\ \E v \in Values : value' = [value EXCEPT ![p] = v]
    /\ PushOrSleep(p)
    /\ UNCHANGED maxSize

PushResume(p) ==
    /\ pc[p] = "awake"
    /\ UNCHANGED <<value, maxSize>>
    /\ PushOrSleep(p)

\* Mutant: a pop tells nobody.
TakeOldestSilently(c) ==
    /\ queue # <<>>
    /\ queue' = Tail(queue)
    /\ pc' = [pc EXCEPT ![c] = "ready"]

TakeOldest(c) ==
    /\ queue # <<>>
    /\ queue' = Tail(queue)
    /\ LeaveAndNotifyOne(c)

PopWithDeadline(c) ==
    /\ pc[c] = "ready"
    /\ \/ TakeOldest(c)
       \/ queue = <<>> /\ Sleep(c)
    /\ UNCHANGED <<maxSize, value>>

\* A notified thread waits on when the queue is empty; one whose deadline
\* has passed returns false.
PopResume(c) ==
    /\ pc[c] \in {"awake", "late"}
    /\ \/ TakeOldest(c)
       \/ queue = <<>> /\ pc[c] = "awake" /\ Sleep(c)
       \/ /\ queue = <<>> /\ pc[c] = "late"
          /\ pc' = [pc EXCEPT ![c] = "ready"]
          /\ UNCHANGED queue
    /\ UNCHANGED <<maxSize, value>>

Deadline(c) ==
    /\ pc[c] \in {"asleep", "awake"}
    /\ pc' = [pc EXCEPT ![c] = "late"]
    /\ UNCHANGED <<queue, maxSize, value>>

\* setMaxSize, at the start of getAsyncEvents.
SetMaxSize(c) ==
    /\ pc[c] = "ready"
    /\ maxSize' = Limit
    /\ LeaveAndNotifyOne(c)
    /\ UNCHANGED <<queue, value>>

Producer(p) == Push(p) \/ PushResume(p)
Consumer(c) == \/ PopWithDeadline(c) \/ PopResume(c)
               \/ Deadline(c) \/ SetMaxSize(c)

Next == (\E p \in Producers : Producer(p)) \/ (\E c \in Consumers : Consumer(c))

Spec == Init /\ [][Next]_vars

\* A thread that may go on does, waits with a deadline end, and the client
\* keeps reading.  Nothing makes a producer push again, nor a new reader come.
Fairness ==
    /\ \A p \in Producers : WF_vars(PushResume(p))
    /\ \A c \in Consumers : WF_vars(PopResume(c)) /\ WF_vars(Deadline(c))
                            /\ WF_vars(PopWithDeadline(c))

FairSpec == Spec /\ Fairness
--------------------------------------------------------------------------
\* The queue a user sees: values come out once each and in the order they
\* went in, and no push goes over the limit, however pushes, pops, wake-ups
\* and deadlines interleave (push, pop, popWithDeadline, setMaxSize).
Fifo == INSTANCE FifoQueue WITH contents <- queue, limit <- maxSize
ImplementsFifo == Fifo!FifoSpec

\* No wake-up is lost to the wrong kind of waiter: when a thread sleeps in
\* push although there is room, another thread is up and will pass the
\* wake-up on or use the queue.  (With notify_one on a single condition
\* variable this depends on how many threads share the queue.)
NoSleeperBesideRoom ==
    (\E p \in Producers : pc[p] = "asleep") /\ HasRoom
        => \E t \in Threads : pc[t] \in {"awake", "late"}

\* A push that had to wait for room ends, as long as the client reads and
\* the other threads leave it its turn: once no new push begins, every push
\* that is under way ends.  (While new ones keep coming a waiting thread can
\* lose the race for the room each time it is woken.)
PushesEnd ==
    <>[][\A p \in Producers : ~Push(p)]_vars
        => \A p \in Producers : pc[p] = "asleep" ~> pc[p] = "ready"
==========================================================================
