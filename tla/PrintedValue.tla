---------------------------- MODULE PrintedValue ----------------------------
(***************************************************************************)
(* evalAndGetPrintedValueWithLimit: what a value prints is collected up to *)
(* a limit, and printing is then stopped by the means of an interrupt, so  *)
(* an interrupt that the client asks for meanwhile must be told from it.   *)
(* R_interrupts_pending is written by the main thread and by the thread of *)
(* the client's call; asyncInterruptHandler is replaced for the time.      *)
(*                                                                         *)
(* Texts are their lengths.  R may act on a pending interrupt at any time  *)
(* while it evaluates, and need not; R code that catches interrupts or     *)
(* suspends them itself is left out.                                       *)
(***************************************************************************)
EXTENDS Naturals

CONSTANTS MaxLength,      \* maxLength: the limit
          MaxPrinted,     \* bound: what the value prints
          MaxInterrupts   \* bound: calls of asyncInterrupt

ASSUME PrintAssumption ==
    MaxLength \in Nat /\ MaxPrinted \in Nat /\ MaxInterrupts \in Nat

VARIABLES stage,       \* where the main thread is
          pending,     \* R_interrupts_pending
          suspended,   \* R_interrupts_suspended when the call begins
          handler,     \* asyncInterruptHandler: "default" or "ours"
          result, trimmed, wasAsyncInterrupt,
          thrown,      \* what leaves the call: "nothing", "interrupt", "error"
          width,       \* the option: "user" or "default"
          client,      \* where the thread in asyncInterrupt is, with the mutex
                       \* held unless it is "away"
          printed, whole,            \* ghost: what was printed, and whether all was
          before, asked, overtaken   \* ghost: was an interrupt pending at the
                                     \* beginning; calls of our handler; one
                                     \* of them was caught between its writes

texts == <<result, trimmed, printed, whole>>
interrupts == <<handler, client, asked, overtaken, wasAsyncInterrupt>>
printVars == <<stage, pending, suspended, thrown, width, before, texts, interrupts>>

PrintInit ==
    /\ stage = "begins" /\ pending \in BOOLEAN /\ suspended \in BOOLEAN
    /\ handler = "default" /\ client = "away"
    /\ result = 0 /\ trimmed = FALSE /\ wasAsyncInterrupt = FALSE
    /\ thrown = "nothing" /\ width = "user"
    /\ printed = 0 /\ whole = FALSE
    /\ before = FALSE /\ asked = 0 /\ overtaken = FALSE
--------------------------------------------------------------------------
(* The main thread.                                                        *)
\* asyncInterruptHandlerMutex is free.
MutexFree == client = "away"

\* ScopedAssign with the mutex.
InstallHandler ==
    /\ stage = "begins" /\ MutexFree
    /\ stage' = "option" /\ handler' = "ours" /\ before' = pending
    /\ UNCHANGED <<pending, suspended, thrown, width, texts, client, asked,
                   overtaken, wasAsyncInterrupt>>

\* R takes the interrupt: safeEval throws RInterruptedException.
TakesInterrupt == pending /\ ~suspended /\ pending' = FALSE

SetWidth ==
    /\ stage = "option"
    /\ \/ /\ width' = "default" /\ stage' = "prints"
          /\ UNCHANGED <<pending, thrown>>
       \/ /\ TakesInterrupt
          /\ stage' = "caught" /\ thrown' = "interrupt" /\ UNCHANGED width
    /\ UNCHANGED <<suspended, before, texts, interrupts>>

\* The output handler, with a text of length c.
CollectText(c) ==
    IF result + c > MaxLength
    THEN result' = MaxLength /\ trimmed' = TRUE /\ pending' = TRUE
    ELSE result' = result + c /\ UNCHANGED <<trimmed, pending>>

PrintText ==
    /\ stage = "prints"
    /\ \E c \in 1..(MaxPrinted - printed) : CollectText(c) /\ printed' = printed + c
    /\ UNCHANGED <<stage, suspended, thrown, width, before, whole, interrupts>>

\* The evaluation ends, with the whole value printed, an error or an interrupt.
EndPrinting ==
    /\ stage = "prints" /\ stage' = "restores"
    /\ \/ whole' = TRUE /\ UNCHANGED <<pending, thrown>>
       \/ thrown' = "error" /\ UNCHANGED <<pending, whole>>
       \/ TakesInterrupt /\ thrown' = "interrupt" /\ UNCHANGED whole
    /\ UNCHANGED <<suspended, width, before, result, trimmed, printed, interrupts>>

\* ~WithOption: an interrupt it takes is made pending again, and the option
\* stays as it is.  Errors go on at once, interrupts are caught.
RestoreWidth ==
    /\ stage = "restores"
    /\ stage' = IF thrown = "error" THEN "leaves" ELSE "caught"
    /\ \/ width' = "user"
       \/ (pending /\ ~suspended) /\ UNCHANGED width
    /\ UNCHANGED <<pending, suspended, thrown, before, texts, interrupts>>

Clear ==
    /\ stage = "caught" /\ stage' = "tests"
    /\ pending' = FALSE /\ thrown' = "nothing"
    /\ UNCHANGED <<suspended, width, before, texts, interrupts>>

\* Mutant of Test: the interrupt of the client is taken for that of the limit.
TestTrimmed ==
    /\ stage = "tests" /\ stage' = "leaves"
    /\ thrown' = IF wasAsyncInterrupt /\ ~trimmed THEN "interrupt" ELSE "nothing"
    /\ overtaken' = (client = "second")
    /\ UNCHANGED <<pending, suspended, width, before, texts, handler, client,
                   asked, wasAsyncInterrupt>>

Test ==
    /\ stage = "tests" /\ stage' = "leaves"
    /\ thrown' = IF wasAsyncInterrupt THEN "interrupt" ELSE "nothing"
    /\ overtaken' = (client = "second")
    /\ UNCHANGED <<pending, suspended, width, before, texts, handler, client,
                   asked, wasAsyncInterrupt>>

RestoreHandler ==
    /\ stage = "leaves" /\ MutexFree
    /\ stage' = "done" /\ handler' = "default"
    /\ UNCHANGED <<pending, suspended, thrown, width, before, texts, client,
                   asked, overtaken, wasAsyncInterrupt>>
--------------------------------------------------------------------------
(* asyncInterrupt, on another thread.                                      *)
Lock ==
    /\ client = "away" /\ asked < MaxInterrupts /\ stage # "done"
    /\ client' = "first"
    /\ asked' = IF handler = "ours" THEN asked + 1 ELSE asked
    /\ UNCHANGED <<stage, pending, suspended, thrown, width, before, texts,
                   handler, overtaken, wasAsyncInterrupt>>

MakePending ==
    /\ client = "first" /\ pending' = TRUE
    /\ client' = IF handler = "ours" THEN "second" ELSE "away"
    /\ UNCHANGED <<stage, suspended, thrown, width, before, texts, handler,
                   asked, overtaken, wasAsyncInterrupt>>

RememberInterrupt ==
    /\ client = "second" /\ client' = "away"
    /\ wasAsyncInterrupt' = TRUE
    /\ UNCHANGED <<stage, pending, suspended, thrown, width, before, texts,
                   handler, asked, overtaken>>

MainStep ==
    \/ InstallHandler \/ SetWidth \/ PrintText \/ EndPrinting \/ RestoreWidth
    \/ Clear \/ Test \/ RestoreHandler

PrintNext == MainStep \/ Lock \/ MakePending \/ RememberInterrupt

PrintSpec == PrintInit /\ [][PrintNext]_printVars
--------------------------------------------------------------------------
(* Types, and the limit of the text.                                       *)
PrintTypeOK ==
    /\ stage \in {"begins", "option", "prints", "restores", "caught", "tests",
                 "leaves", "done"}
    /\ pending \in BOOLEAN /\ suspended \in BOOLEAN
    /\ handler \in {"default", "ours"} /\ client \in {"away", "first", "second"}
    /\ result \in 0..MaxLength /\ printed \in Nat /\ asked \in Nat
    /\ trimmed \in BOOLEAN /\ whole \in BOOLEAN /\ wasAsyncInterrupt \in BOOLEAN
    /\ before \in BOOLEAN /\ overtaken \in BOOLEAN
    /\ thrown \in {"nothing", "interrupt", "error"} /\ width \in {"user", "default"}

(* An interrupt that the client asks for while a value is printed is not   *)
(* mistaken for the one that the limit raised: the call ends by it, or it  *)
(* is pending afterwards.  It is lost only if wasAsyncInterrupt is tested  *)
(* between the two writes of the handler, which nothing prevents.          *)
InterruptArrives ==
    stage = "done" /\ asked > 0 /\ ~overtaken => thrown = "interrupt" \/ pending

(* The interrupt of the limit ends with the call: unless the evaluation    *)
(* fails, nobody else's computation is interrupted by it.                  *)
NoStrayInterrupt ==
    stage = "done" /\ asked = 0 /\ ~before /\ client = "away" /\ thrown # "error" =>
        thrown = "nothing" /\ ~pending

(* A text that is not marked as trimmed is all that the value prints,      *)
(* unless an interrupt was pending before the call (it is swallowed).      *)
TextIsWhole ==
    stage = "done" /\ thrown = "nothing" /\ ~before /\ ~overtaken =>
        IF trimmed THEN result = MaxLength /\ printed > MaxLength
        ELSE whole /\ result = printed

(* The option of the user comes back after a value of whatever length, an  *)
(* error or an interrupt: only an interrupt not taken before can stop it.  *)
WidthComesBack ==
    stage = "done" /\ asked = 0 /\ ~before /\ (suspended \/ ~trimmed) => width = "user"

(* A printed value is whole or marked as trimmed, and neither an interrupt *)
(* of the client nor the one that stops the printing is taken for the      *)
(* other (evalAndGetPrintedValueWithLimit).                                *)
PrintingIsInterruptedOnPurpose ==
    PrintTypeOK /\ InterruptArrives /\ NoStrayInterrupt /\ TextIsWhole /\ WidthComesBack
=============================================================================
