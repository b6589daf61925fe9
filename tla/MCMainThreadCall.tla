------------------------ MODULE MCMainThreadCall ------------------------
(* Two programs side by side, told apart by `part`: in one the function of *)
(* a call runs an event loop, and one call is immediate; in the other two  *)
(* calls do not nest, one of which never ends by itself.                   *)
EXTENDS MainThreadCall
CONSTANTS a, b, i
VARIABLE part

Flat == INSTANCE MainThreadCall
    WITH Calls <- {a, b}, ImmediateCalls <- {}, Nesters <- {}, Endless <- {a},
         Jumpers <- {b}

MCInit == Init /\ part \in {"nested", "flat"}
MCNext == /\ \/ part = "nested" /\ Next
             \/ part = "flat" /\ Flat!Next
          /\ UNCHANGED part
FlatFairness ==
    /\ WF_vars(part = "flat" /\ Flat!MainStep)
    /\ WF_vars(part = "flat" /\ QuitPost)
    /\ SF_vars(part = "flat" /\ \E c \in {a, b} : Flat!Conclude(c))
    /\ \A c \in {a, b} : WF_vars(part = "flat" /\ Flat!Handler(c))
MCSpec == MCInit /\ [][MCNext]_<<vars, part>> /\ FlatFairness

\* While no call nests in another, the handler of a call returns once its
\* client has gone, even if the function would run for ever, and once R has
\* begun to end, every handler returns and the service goes (cancellation in
\* executeOnMainThread, quitRPIService).
FlatCallsEnd == part = "flat" => CancelledCallsReturn /\ QuitCompletes
==========================================================================
