CONSTANTS
    p1 = p1
    p2 = p2
    p3 = p3
    c1 = c1
    c2 = c2
    Producers = {p1, p2, p3}
    Consumers = {c1, c2}
    Values = {1, 2}
    Limit = 2
    MaxBacklog = 3
SPECIFICATION MCSpec
INVARIANTS NoSleeperBesideRoom
PROPERTIES ImplementsFifo PushesEnd
