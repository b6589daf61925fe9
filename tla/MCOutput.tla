----------------------------- MODULE MCOutput -----------------------------
(* Output and its ways to the client, side by side and told apart by       *)
(* `part`:                                                                 *)
(*   "handlers"  Output: a forked child under nested calls                 *)
(*   "events"    Output: texts and other events for two readers, one after *)
(*               the other                                                 *)
(*   "writers"   Output: a child and the main thread write to a full queue *)
(*   "printed"   PrintedValue, with a limit of two                         *)
(* The variables of the other parts rest.                                  *)
EXTENDS Output, PrintedValue
CONSTANTS c1
VARIABLE part

Handlers == INSTANCE Output
    WITH MaxSent <- 1, MaxPrints <- 1, MaxChunks <- 1, MaxReaders <- 0,
         StreamLimit <- 1
Events == INSTANCE Output
    WITH MaxOpened <- 0, MaxPrints <- 0, Children <- {}, MaxTexts <- 0,
         MaxSent <- 3
Writers == INSTANCE Output
    WITH MaxOpened <- 0, MaxSent <- 3, MaxReaders <- 1, StreamLimit <- 1,
         MaxChunks <- 1

MCInit ==
    /\ part \in {"handlers", "events", "writers", "printed"}
    /\ OutputInit /\ PrintInit
    /\ part # "printed" => ~pending /\ ~suspended

MCNext ==
    /\ \/ /\ \/ part = "handlers" /\ Handlers!OutputNext
             \/ part = "events" /\ Events!OutputNext
             \/ part = "writers" /\ Writers!OutputNext
          /\ UNCHANGED printVars
       \/ part = "printed" /\ PrintNext /\ UNCHANGED outputVars
    /\ UNCHANGED part

\* The fairness of the parts that are asked for something.
MCFairness ==
    /\ WF_outputVars(\/ part = "events" /\ Events!SendText
                     \/ part = "writers" /\ Writers!SendText)
    /\ WF_outputVars(\/ part = "events" /\ Events!Reader(1)
                     \/ part = "writers" /\ Writers!Reader(1))
    /\ WF_outputVars(part = "events" /\ Events!Reader(2))
    /\ \A t \in Types : WF_outputVars(part = "writers" /\ Writers!ThreadSteps(c1, t))

MCSpec == MCInit /\ [][MCNext]_<<outputVars, printVars, part>> /\ MCFairness

\* A client that stays is written everything that was pushed, and who holds
\* outputMutex lets it go as long as a client reads (getAsyncEvents, IO.cpp).
OutputGetsOn ==
    /\ part = "events" => Events!TextsArrive
    /\ part = "writers" => Writers!WritersGetOn
===========================================================================
