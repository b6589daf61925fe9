CONSTANTS
    nest = nest
    brk1 = brk1
    brk2 = brk2
    plain = plain
    imm1 = imm1
    imm2 = imm2
    NoTask = NoTask
    Normal = {nest, brk1, brk2, plain}
    Immediate = {imm1, imm2}
    Breakers = {brk1, brk2}
    Nesters = {nest, imm1}
    Jumpers = {plain}
SPECIFICATION MCSpec
INVARIANTS NoLostWakeup BreakBelongsToTop
PROPERTIES ImplementsTaskQueue EveryTaskStarts
CHECK_DEADLOCK FALSE
