\* Logs of any agent, by either controller.
SPECIFICATION LogSpec
CONSTANTS
    None = None
    Within = 1
    RecoveryHold = 2
    LostDeadline = 3
    MaxHops = 1
    Worlds = {"refsim", "ns3"}
    Beliefs <- AnyAgent
    Requests = {"no_op", "spectrum_scan", "hop_channel"}
    MayMask = TRUE
    Gaps = {1}
    MaxRows = 4
INVARIANTS
    AbstentionNeverScored
    HedgeForgiven
PROPERTIES
    DriftIsNoClaim
CHECK_DEADLOCK FALSE
