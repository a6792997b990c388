\* Is the student scored on what it decided?
SPECIFICATION LogSpec
CONSTANTS
    None = None
    Within = 1
    RecoveryHold = 2
    LostDeadline = 3
    MaxHops = 1
    Worlds = {"refsim"}
    Beliefs <- Student
    Requests = {"no_op", "hop_channel"}
    MayMask = FALSE
    Gaps = {1}
    MaxRows = 3
INVARIANT
    ScoredAsDecided
CHECK_DEADLOCK FALSE
