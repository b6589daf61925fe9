CONSTANTS
    c1 = c1
    MaxOpened = 3
    MaxSent = 4
    MaxPrints = 1
    MaxChunks = 2
    Children = {c1}
    MaxTexts = 1
    MaxReaders = 2
    StreamLimit = 2
    TextLimit = 1
    MaxLength = 2
    MaxPrinted = 4
    MaxInterrupts = 2
SPECIFICATION MCSpec
INVARIANTS TextsComeAsWritten PrintingIsInterruptedOnPurpose
PROPERTIES OutputFindsItsCall OutputGetsOn
CHECK_DEADLOCK FALSE
