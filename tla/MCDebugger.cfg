CONSTANTS
    f1 = f1
    f2 = f2
    f3 = f3
    e1 = e1
    e2 = e2
    b1 = b1
    b2 = b2
    b3 = b3
    b4 = b4
    p1 = p1
    p2 = p2
    v1 = v1
    None = None
    Gone = Gone
    PassedOver = PassedOver
    Global = Global
    Ids <- McIds
    Positions = {p1, p2}
    Settings <- McSettings
    Functions = {f1, f2, f3}
    Expressions = {e1, e2}
    Blocks = {e1}
    MadeBy <- McMadeBy
    Envs = {v1}
    Kinds = {"stepped", "unstepped", "quiet"}
    MaxHeight = 5
    MaxRuns = 2
    MaxAsks = 2
SPECIFICATION MCSpec
SYMMETRY IdSymmetry
INVARIANTS SteppingFollowsTheStack BodiesComeBack
PROPERTIES StopsAsAsked BreakpointsKeepTheirLinks
CHECK_DEADLOCK FALSE
