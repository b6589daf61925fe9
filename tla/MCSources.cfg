CONSTANTS
    s1 = s1
    s2 = s2
    s3 = s3
    p1 = p1
    p2 = p2
    p3 = p3
    Srcfiles = {s1, s2, s3}
    PathOf <- McPathOf
    Ptrs = {p1, p2, p3}
    MaxFileId = 1
    MaxSessions = 2
SPECIFICATION MCSpec
SYMMETRY MCSymmetry
INVARIANTS RegistryIsTheInfos TextsHaveTheirOwnIds SourcesMeanTheirStatements
PROPERTIES IdsOutliveSessions
CHECK_DEADLOCK FALSE
