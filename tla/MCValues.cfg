CONSTANTS
    t1 = t1
    t2 = t2
    g = g
    h = h
    i = i
    j = j
    v1 = v1
    v2 = v2
    Tables = {t1, t2}
    MaxFrames = 2
    MaxSlots = 3
    MaxPending = 2
    MaxGiven = 3
SPECIFICATION MCSpec
SYMMETRY TableSymmetry
PROPERTIES FramesAreKept ReferencesMeanTheirValues
CHECK_DEADLOCK FALSE
