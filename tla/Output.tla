------------------------------ MODULE Output ------------------------------
(***************************************************************************)
(* Where output goes: the handlers that the calls on the main thread       *)
(* install (WithOutputHandler), myWriteConsoleEx of the R code under them, *)
(* the threads that pass on what forked children write to their pipes, the *)
(* queue asyncEvents, and getAsyncEvents, which merges texts before it     *)
(* writes them to the client.                                              *)
(*                                                                         *)
(* A text is its place in sent, the ghost record of everything pushed.     *)
(* The queue is taken as BlockingQueue shows it to be.  A stack of         *)
(* handlers stands for the calls of the main thread; what R code does is a *)
(* choice: print, capture a value, fork, wait in a nested event loop.      *)
(*                                                                         *)
(* Left out: the encodings of Windows' console, forks made by a child, and *)
(* output that comes after rpiService is gone.                             *)
(***************************************************************************)
EXTENDS Naturals, FiniteSets, SequencesExt

CONSTANTS MaxOpened,     \* bound: handlers installed above mainLoop's
          MaxSent,       \* bound: events and texts pushed
          MaxPrints,     \* bound: calls of myWriteConsoleEx
          MaxChunks,     \* bound: pieces of OUTPUT_MESSAGE_MAX_SIZE in one
          Children,      \* processes that can be forked
          MaxTexts,      \* bound: texts one child writes
          MaxReaders,    \* bound: calls of getAsyncEvents
          StreamLimit,   \* limit of asyncEvents once it is read (8)
          TextLimit      \* CACHED_TEXT_LENGTH_LIMIT, in texts

ASSUME OutputAssumption ==
    /\ MaxOpened \in Nat /\ MaxSent \in Nat /\ MaxPrints \in Nat
    /\ MaxChunks \in Nat \ {0} /\ MaxTexts \in Nat /\ MaxReaders \in Nat
    /\ StreamLimit \in Nat \ {0} /\ TextLimit \in Nat

VARIABLES outputHandler, currentHandlerId, maxHandlerId,
          isReplOutput,
          open,           \* the handlers in force, innermost last
          opened,         \* how many were installed
          outputMutex,    \* the thread that holds it, or Nobody
          main,           \* what the main thread still has to write
          children,
          stream,         \* asyncEvents
          limited,        \* its limit is set
          readers,        \* calls of getAsyncEvents
          terminateProceed,
          sent,           \* everything ever pushed
          got,            \* what reached the client
          written,        \* whose texts each handler of its own got
          prints

handlers == <<outputHandler, currentHandlerId, maxHandlerId, isReplOutput,
              open, opened>>
events == <<stream, sent>>
reading == <<limited, readers, got>>
outputVars == <<handlers, outputMutex, main, children, events, reading,
          terminateProceed, written, prints>>

Types == {"STDOUT", "STDERR"}
Repl == <<"repl">>            \* replOutputHandler
Nowhere == <<"nowhere">>      \* emptyOutputHandler
Own(n) == <<"own", n>>        \* a handler of the call n
Nobody == <<"nobody">>
Main == <<"main">>
Thread(c, t) == <<"thread", c, t>>
Idle == [left |-> 0, type |-> "STDOUT"]

\* executeCode for the console, with and without streamed output,
\* executeCommand, getPrintedValue and runEventLoop.
Kinds == {"console", "streamed", "quiet", "command", "capture", "task"}
Sink(kind, n) ==
    CASE kind = "console" -> Repl
      [] kind \in {"quiet", "task"} -> Nowhere
      [] kind \in {"streamed", "command", "capture"} -> Own(n)
ReplOutputIn(kind) ==
    CASE kind = "console" -> TRUE
      [] kind \in {"streamed", "quiet"} -> FALSE
      [] OTHER -> isReplOutput

Unborn == [at |-> "unborn", by |-> 0, direct |-> FALSE, id |-> 0, mute |-> FALSE,
           into |-> Nowhere, texts |-> 0, pipe |-> [t \in Types |-> 0],
           thread |-> [t \in Types |-> "reads"]]
Unread == [at |-> "new", cancelled |-> FALSE, cached |-> <<>>, type |-> "STDOUT",
           late |-> 0]

\* The main thread is in mainLoop, which has installed replOutputHandler.
OutputInit ==
    /\ outputHandler = Repl /\ currentHandlerId = 1 /\ maxHandlerId = 1
    /\ isReplOutput = FALSE /\ open = <<>> /\ opened = 0
    /\ outputMutex = Nobody /\ main = Idle
    /\ children = [c \in Children |-> Unborn]
    /\ stream = <<>> /\ sent = <<>> /\ limited = FALSE
    /\ readers = [r \in 1..MaxReaders |-> Unread]
    /\ terminateProceed = FALSE /\ got = <<>>
    /\ written = [n \in 1..MaxOpened |-> {}]
    /\ prints = 0
--------------------------------------------------------------------------
(* The handlers of the main thread.                                        *)

MainRuns == main = Idle /\ ~terminateProceed
Top == IF open = <<>> THEN [kind |-> "mainLoop", call |-> 0] ELSE Last(open)

\* What can begin where: a call begins as a task of an event loop.
MayBegin(kind) ==
    CASE kind = "task" -> Top.kind \notin {"task", "capture"}
      [] kind = "capture" -> Top.kind \notin {"mainLoop", "capture"}
      [] OTHER -> Top.kind = "task"

\* Mutant of NewId: the id is the depth of the handlers, so it comes back.
NewIdIsDepth == Len(open) + 2
NewId == maxHandlerId + 1

\* The constructor, with the assignment to isReplOutput in executeCode.
Install(kind) ==
    /\ MainRuns /\ outputMutex = Nobody
    /\ opened < MaxOpened /\ MayBegin(kind)
    /\ opened' = opened + 1
    /\ open' = Append(open, [kind |-> kind, call |-> opened', previous |-> outputHandler,
                             previousId |-> currentHandlerId, wasRepl |-> isReplOutput])
    /\ outputHandler' = Sink(kind, opened')
    /\ maxHandlerId' = NewId
    /\ currentHandlerId' = maxHandlerId'
    /\ isReplOutput' = ReplOutputIn(kind)
    /\ UNCHANGED <<outputMutex, main, children, events, reading,
                   terminateProceed, written, prints>>

PutBack ==
    /\ outputHandler' = Last(open).previous
    /\ currentHandlerId' = Last(open).previousId
    /\ isReplOutput' = Last(open).wasRepl
    /\ open' = Front(open)
    /\ UNCHANGED <<maxHandlerId, opened, outputMutex, main, children, events,
                   reading, terminateProceed, written, prints>>

\* The destructor.
Uninstall == MainRuns /\ outputMutex = Nobody /\ open # <<>> /\ PutBack

\* asyncEvents.push: waits while the queue is full.
PushEvent(entry) ==
    /\ limited => Len(stream) < StreamLimit
    /\ Len(sent) < MaxSent
    /\ sent' = Append(sent, entry)
    /\ stream' = Append(stream, Len(sent'))

Text(type) == [type |-> type]

\* What a handler does with a text of the call n.
Handle(handler, type, n) ==
    \/ handler = Repl /\ PushEvent(Text(type)) /\ UNCHANGED written
    \/ handler = Nowhere /\ UNCHANGED <<events, written>>
    \/ /\ \E k \in 1..opened : handler = Own(k)
       /\ written' = [written EXCEPT ![handler[2]] = @ \cup {n}]
       /\ UNCHANGED events

\* myWriteConsoleEx takes outputMutex ...
WriteConsole ==
    /\ MainRuns /\ outputMutex = Nobody /\ prints < MaxPrints
    /\ \E type \in Types, n \in 1..MaxChunks : main' = [left |-> n, type |-> type]
    /\ outputMutex' = Main
    /\ prints' = prints + 1
    /\ UNCHANGED <<handlers, children, events, reading, terminateProceed, written>>

\* ... and holds it while sendText hands over piece after piece.
SendText ==
    /\ main.left > 0
    /\ Handle(outputHandler, main.type, Top.call)
    /\ main' = IF main.left = 1 THEN Idle ELSE [main EXCEPT !.left = @ - 1]
    /\ outputMutex' = IF main.left = 1 THEN Nobody ELSE Main
    /\ UNCHANGED <<handlers, children, reading, terminateProceed, prints>>

\* Prompts, requests and the debugger's own texts, pushed without the mutex.
SendEvent ==
    /\ MainRuns
    /\ \E type \in Types \cup {"other"} : PushEvent(Text(type))
    /\ UNCHANGED <<handlers, outputMutex, main, children, reading,
                   terminateProceed, written, prints>>

\* quitRPIService, which the call quitProceed or the time brings here.
Proceed ==
    /\ MainRuns
    /\ terminateProceed' = TRUE
    /\ UNCHANGED <<handlers, outputMutex, main, children, events, reading,
                   written, prints>>
--------------------------------------------------------------------------
(* Forked children and the threads that read their pipes.                  *)

\* getOutputHandlerForChildProcess.  A child forked while a thread holds
\* outputMutex has a copy that is locked for ever: it stops at its first
\* text.
Fork(c) ==
    /\ MainRuns /\ children[c].at = "unborn"
    /\ children' = [children EXCEPT ![c] =
           [Unborn EXCEPT !.at = "runs", !.by = Top.call, !.direct = isReplOutput,
                          !.id = currentHandlerId, !.mute = outputMutex # Nobody]]
    /\ UNCHANGED <<handlers, outputMutex, main, events, reading,
                   terminateProceed, written, prints>>

\* The child's mainOutputHandler.
ChildWrites(c) ==
    /\ children[c].at = "runs" /\ ~children[c].mute /\ children[c].texts < MaxTexts
    /\ \E t \in Types :
           children' = [children EXCEPT ![c].pipe[t] = @ + 1, ![c].texts = @ + 1]
    /\ UNCHANGED <<handlers, outputMutex, main, events, reading,
                   terminateProceed, written, prints>>

ChildExits(c) ==
    /\ children[c].at = "runs"
    /\ children' = [children EXCEPT ![c].at = "exited"]
    /\ UNCHANGED <<handlers, outputMutex, main, events, reading,
                   terminateProceed, written, prints>>

At(c, t, at) == children[c].at # "unborn" /\ children[c].thread[t] = at
Goes(c, t, at) == children' = [children EXCEPT ![c].thread[t] = at]

ThreadReads(c, t) ==
    /\ At(c, t, "reads")
    /\ \/ /\ children[c].pipe[t] > 0
          /\ children' = [children EXCEPT ![c].pipe[t] = @ - 1,
                                          ![c].thread[t] = "has"]
       \/ /\ children[c].pipe[t] = 0 /\ children[c].at = "exited"
          /\ Goes(c, t, "ended")
    /\ UNCHANGED <<handlers, outputMutex, main, events, reading,
                   terminateProceed, written, prints>>

\* replOutputHandler itself, for a child of the console's code.
ThreadPushes(c, t) ==
    /\ At(c, t, "has") /\ children[c].direct
    /\ PushEvent(Text(t))
    /\ Goes(c, t, "reads")
    /\ UNCHANGED <<handlers, outputMutex, main, reading, terminateProceed,
                   written, prints>>

IsCurrent(c) == children[c].id = currentHandlerId

\* myWriteConsoleExToSpecificHandler: under the mutex, for the handler in
\* force when the child was forked, which is then called (into), or for
\* nobody.
ThreadLocks(c, t) ==
    /\ At(c, t, "has") /\ ~children[c].direct /\ outputMutex = Nobody
    /\ IF IsCurrent(c)
       THEN /\ outputMutex' = Thread(c, t)
            /\ children' = [children EXCEPT ![c].thread[t] = "holds",
                                            ![c].into = outputHandler]
       ELSE outputMutex' = Nobody /\ Goes(c, t, "reads")
    /\ UNCHANGED <<handlers, main, events, reading, terminateProceed,
                   written, prints>>

ThreadWrites(c, t) ==
    /\ At(c, t, "holds")
    /\ Handle(children[c].into, t, children[c].by)
    /\ Goes(c, t, "reads")
    /\ outputMutex' = Nobody
    /\ UNCHANGED <<handlers, main, reading, terminateProceed, prints>>
--------------------------------------------------------------------------
(* getAsyncEvents.                                                         *)

IsAt(r, at) == readers[r].at = at

\* The client calls, and calls again once it has cancelled.
Subscribe(r) ==
    /\ IsAt(r, "new")
    /\ r > 1 => readers[r - 1].cancelled
    /\ limited' = TRUE
    /\ readers' = [readers EXCEPT ![r].at = "checks"]
    /\ UNCHANGED <<handlers, outputMutex, main, children, events, got,
                   terminateProceed, written, prints>>

Cancel(r) ==
    /\ readers[r].at \in {"checks", "pops"} /\ ~readers[r].cancelled
    /\ r < MaxReaders
    /\ readers' = [readers EXCEPT ![r].cancelled = TRUE]
    /\ UNCHANGED <<handlers, outputMutex, main, children, events, limited, got,
                   terminateProceed, written, prints>>

\* What writer->Write brings to the client: nothing after a cancellation.
Written(r, message) ==
    IF readers[r].cancelled \/ message.texts = <<>> THEN <<>> ELSE <<message>>
Cached(r) == [type |-> readers[r].type, texts |-> readers[r].cached]

ReaderChecks(r) ==
    /\ IsAt(r, "checks")
    /\ IF readers[r].cancelled \/ terminateProceed
       THEN /\ got' = got \o Written(r, Cached(r))
            /\ readers' = [readers EXCEPT ![r].at = "done", ![r].cached = <<>>]
       ELSE readers' = [readers EXCEPT ![r].at = "pops"] /\ UNCHANGED got
    /\ UNCHANGED <<handlers, outputMutex, main, children, events, limited,
                   terminateProceed, written, prints>>

\* The cached text must go before e is dealt with.
Flushes(r, e) == e.type # readers[r].type

\* A text that was popped: to the cache, and on when the cache is full.
Collect(r, i, before) ==
    LET texts == IF Flushes(r, sent[i]) THEN <<i>> ELSE Append(readers[r].cached, i)
        full == Len(texts) > TextLimit
    IN  /\ got' = got \o before \o
               (IF full THEN Written(r, [type |-> sent[i].type, texts |-> texts])
                        ELSE <<>>)
        /\ readers' = [readers EXCEPT ![r].at = "checks", ![r].type = sent[i].type,
                                      ![r].cached = IF full THEN <<>> ELSE texts,
                                      ![r].late = IF readers[r].cancelled THEN @ + 1 ELSE @]

\* Mutant of PassOn: the cached text is not flushed before another event.
PassOnAtOnce(r, i, before) ==
    /\ got' = got \o Written(r, [type |-> "other", texts |-> <<i>>])
    /\ readers' = [readers EXCEPT ![r].at = "checks",
                                  ![r].late = IF readers[r].cancelled THEN @ + 1 ELSE @]

\* Any other event is written at once, after the cached text.
PassOn(r, i, before) ==
    /\ got' = got \o before \o Written(r, [type |-> "other", texts |-> <<i>>])
    /\ readers' = [readers EXCEPT ![r].at = "checks", ![r].cached = <<>>,
                                  ![r].late = IF readers[r].cancelled THEN @ + 1 ELSE @]

\* Mutant of ReaderPops: it takes outputMutex, to keep the texts together.
ReaderPopsLocked(r) ==
    /\ IsAt(r, "pops") /\ stream # <<>> /\ outputMutex = Nobody
    /\ stream' = Tail(stream)
    /\ LET i == Head(stream)
           before == IF Flushes(r, sent[i]) THEN Written(r, Cached(r)) ELSE <<>>
       IN  IF sent[i].type = "other" THEN PassOn(r, i, before)
                                     ELSE Collect(r, i, before)
    /\ UNCHANGED <<handlers, outputMutex, main, children, limited, sent,
                   terminateProceed, written, prints>>

\* popWithDeadline takes what there is, also after the deadline.
ReaderPops(r) ==
    /\ IsAt(r, "pops") /\ stream # <<>>
    /\ stream' = Tail(stream)
    /\ LET i == Head(stream)
           before == IF Flushes(r, sent[i]) THEN Written(r, Cached(r)) ELSE <<>>
       IN  IF sent[i].type = "other" THEN PassOn(r, i, before)
                                     ELSE Collect(r, i, before)
    /\ UNCHANGED <<handlers, outputMutex, main, children, limited, sent,
                   terminateProceed, written, prints>>

FlushLate(r) ==
    /\ got' = got \o Written(r, Cached(r))
    /\ readers' = [readers EXCEPT ![r].at = "checks", ![r].cached = <<>>]

\* Nothing has come before the deadline.
ReaderWaits(r) ==
    /\ IsAt(r, "pops") /\ stream = <<>>
    /\ FlushLate(r)
    /\ UNCHANGED <<handlers, outputMutex, main, children, events, limited,
                   terminateProceed, written, prints>>

Reader(r) == ReaderChecks(r) \/ ReaderPops(r) \/ ReaderWaits(r)
ThreadSteps(c, t) ==
    ThreadReads(c, t) \/ ThreadPushes(c, t) \/ ThreadLocks(c, t) \/ ThreadWrites(c, t)

OutputNext ==
    \/ \E kind \in Kinds : Install(kind)
    \/ Uninstall \/ WriteConsole \/ SendText \/ SendEvent \/ Proceed
    \/ \E c \in Children : \/ Fork(c) \/ ChildWrites(c) \/ ChildExits(c)
                           \/ \E t \in Types : ThreadSteps(c, t)
    \/ \E r \in 1..MaxReaders : Subscribe(r) \/ Cancel(r) \/ Reader(r)

\* Threads run, and the kernel answers a call of getAsyncEvents.  Nothing is
\* asked of R code, of children or of the client.
OutputFairness ==
    /\ WF_outputVars(SendText)
    /\ \A c \in Children, t \in Types : WF_outputVars(ThreadSteps(c, t))
    /\ \A r \in 1..MaxReaders : WF_outputVars(Reader(r))

OutputSpec == OutputInit /\ [][OutputNext]_outputVars /\ OutputFairness
--------------------------------------------------------------------------
Cancelled == {r \in 1..MaxReaders : readers[r].cancelled}
Texts(messages) == UNION {ToSet(messages[i].texts) : i \in DOMAIN messages}

\* No text comes before an older one, in one message or in two.
InOrder(messages) ==
    \A i, j \in DOMAIN messages :
        \A k \in DOMAIN messages[i].texts, l \in DOMAIN messages[j].texts :
            i < j \/ (i = j /\ k < l) => messages[i].texts[k] < messages[j].texts[l]

\* While texts are merged and held back, what the client has read, what is
\* cached and what is queued are together everything pushed, in the order in
\* which it was pushed; a client that cancels and calls again may miss what
\* was cached and one event more, but gets none out of order
\* (getAsyncEvents).
TextsStayInPlace ==
    /\ InOrder(got)
    /\ Cancelled = {} /\ MaxReaders > 0 =>
         LET all == got \o <<Cached(1), [type |-> "other", texts |-> stream]>>
         IN  InOrder(all) /\ Texts(all) = DOMAIN sent
    /\ \A r \in Cancelled : readers[r].late <= 1

\* A merged text has one type, and the type each of its pieces was written
\* with (getAsyncEvents, cachedTextType).
TextsKeepTheirType ==
    \A i \in DOMAIN got : \A j \in DOMAIN got[i].texts :
        sent[got[i].texts[j]].type = got[i].type

\* Merging and holding back texts changes neither the order of what was pushed
\* nor the type of a text (getAsyncEvents).
TextsComeAsWritten == TextsStayInPlace /\ TextsKeepTheirType

\* The handler of a call gets the output of that call alone: not that of a
\* child forked by another call, or by one whose id it has inherited
\* (myWriteConsoleExToSpecificHandler, maxHandlerId).
OwnOutput == \A n \in 1..MaxOpened : written[n] \subseteq {n}

\* No text is handed to the handler of a call that has ended, whose writer
\* or string is gone: the handler is changed under the mutex that whoever
\* uses it holds (WithOutputHandler, IO.cpp).
LiveHandlersOnly ==
    \A n \in 1..MaxOpened : written'[n] # written[n] =>
        \E i \in DOMAIN open : open[i].call = n /\ i \in DOMAIN open'

\* The output of a call goes to its own handler and to none that has ended
\* (myWriteConsoleExToSpecificHandler, WithOutputHandler).
OutputFindsItsCall == [][OwnOutput' /\ LiveHandlersOnly]_outputVars

\* A thread that holds outputMutex, perhaps waiting for room in the queue,
\* lets it go: a client that reads frees it, and all who wait for it.
ClientReads ==
    \E r \in 1..MaxReaders : readers[r].at \in {"checks", "pops"} /\ ~readers[r].cancelled
Holders == {Main} \cup {Thread(c, t) : c \in Children, t \in Types}
WritersGetOn ==
    \A holder \in Holders :
        outputMutex = holder
            ~> (outputMutex # holder \/ ~ClientReads \/ Len(sent) = MaxSent)

\* What was pushed is written to a client that stays: no text remains in the
\* cache, however the texts, the types and the deadlines fall.
TextsArrive ==
    \A i \in 1..MaxSent :
        (i \in DOMAIN sent /\ ClientReads)
            ~> (i \in Texts(got) \/ Cancelled # {} \/ terminateProceed)
===========================================================================
