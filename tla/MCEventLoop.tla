--------------------------- MODULE MCEventLoop ---------------------------
(* Two programs side by side, told apart by `part`: in one no immediate    *)
(* task opens a loop, in the other one does, and two loops are broken.     *)
EXTENDS EventLoop
CONSTANTS nest, brk1, brk2, plain, imm1, imm2
VARIABLE part

Flat == INSTANCE EventLoop
    WITH Normal <- {nest, brk1, plain}, Breakers <- {brk1}, Nesters <- {nest}
Deep == INSTANCE EventLoop WITH Immediate <- {imm1}

MCInit == Init /\ part \in {"flat", "deep"}
MCNext == /\ \/ part = "flat" /\ Flat!Next
             \/ part = "deep" /\ Deep!Next
          /\ UNCHANGED part
MCFairness == /\ WF_vars(part = "flat" /\ Flat!MainStep)
              /\ WF_vars(part = "deep" /\ Deep!MainStep)
              /\ \A t \in Tasks : WF_vars(PostSignal(t))
MCSpec == MCInit /\ [][MCNext]_<<vars, part>> /\ MCFairness

\* Every ordinary task posted to runEventLoop is started, and every immediate
\* one too in a program where no immediate task opens a loop.
EveryTaskStarts ==
    /\ PostedTasksStart
    /\ part = "flat" => Flat!PostedTasksStart
==========================================================================
