------------------------- MODULE MCBlockingQueue -------------------------
(* Two queues side by side, told apart by `part`: three pushers and one    *)
(* reader with a limit of one, two pushers and two readers with a limit of *)
(* two.  The threads of the other part never begin.                        *)
EXTENDS BlockingQueue
CONSTANTS p1, p2, p3, c1, c2
VARIABLE part

One == INSTANCE BlockingQueue WITH Consumers <- {c1}, Limit <- 1
Two == INSTANCE BlockingQueue WITH Producers <- {p1, p2}, Values <- {1}

MCInit == Init /\ part \in {"one reader", "two readers"}
MCNext == /\ \/ part = "one reader" /\ One!Next
             \/ part = "two readers" /\ Two!Next
          /\ UNCHANGED part
MCSpec == MCInit /\ [][MCNext]_<<vars, part>> /\ One!Fairness
==========================================================================
