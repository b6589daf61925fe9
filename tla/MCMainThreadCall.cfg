CONSTANTS
    a = a
    b = b
    i = i
    Calls = {a, b, i}
    ImmediateCalls = {i}
    Nesters = {a}
    Endless = {}
    Jumpers = {a, b}
    Quitters = {b}
SPECIFICATION MCSpec
INVARIANTS NoDanglingFrame NoStrayInterrupt
PROPERTIES ImplementsRemoteCall FlatCallsEnd
CHECK_DEADLOCK FALSE
