CONSTANTS
    MaxCommands = 3
    MaxRequests = 2
    MaxInterrupts = 2
    MaxTexts = 1
    StreamLimit = 2
SPECIFICATION FairSpec
INVARIANTS QuietMeansTold
PROPERTIES AnswersCount ClientIsTold
CHECK_DEADLOCK FALSE
