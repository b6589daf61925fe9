---------------------------- MODULE FifoQueue ----------------------------
(***************************************************************************)
(* What users of util/BlockingQueue.h rely on: a queue with a length limit *)
(* (0 means none) that hands every value out once, oldest first, and that  *)
(* no push makes longer than the limit.  Waiting, waking and deadlines do  *)
(* not appear here; BlockingQueue is shown to implement this module.       *)
(***************************************************************************)
EXTENDS Naturals, Sequences

CONSTANT Values

VARIABLES contents, limit

fifoVars == <<contents, limit>>

FifoInit == contents = <<>> /\ limit = 0

Put(v) ==
    /\ limit = 0 \/ Len(contents) < limit
    /\ contents' = Append(contents, v)
    /\ UNCHANGED limit

Take ==
    /\ contents # <<>>
    /\ contents' = Tail(contents)
    /\ UNCHANGED limit

Resize == /\ limit' \in Nat
          /\ UNCHANGED contents

FifoNext == (\E v \in Values : Put(v)) \/ Take \/ Resize

FifoSpec == FifoInit /\ [][FifoNext]_fifoVars
==========================================================================
