\* Holds, heartbeat and cap over episodes of any panels, answers and failures.
SPECIFICATION Spec
CONSTANTS
    None = None
    Features <- TwoFeatures
    Panels <- Stairs
    Masks <- TwoMasks
    Requests = {"no_op", "spectrum_scan", "reboot"}
    Novelty = 2
    Heartbeat = 3
    MaxCalls = 3
    Ticks = 12
INVARIANTS
    NeverSilentForLong
    CallIsFresh
    StalenessBounded
    OneRecordPerQuestion
