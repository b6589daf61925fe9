CONSTANTS
    MaxRequests = 3
    MaxDepth = 2
    MaxJumps = 1
SPECIFICATION FairSpec
INVARIANTS InnermostIsHeard OwnAnswer
PROPERTIES RequestsEnd
CHECK_DEADLOCK FALSE
