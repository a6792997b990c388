\* The failsafe deadlines and recovery verification, with decisions every second step.
SPECIFICATION FairSpec
CONSTANTS
    Channels = {1, 2}
    Hypotheses = {"h1"}
    AgentCalls = {"no_op", "set_tx_power", "spectrum_scan", "fallback_to_lora", "declare_link_lost"}
    ScanResults <- MixedScans
    Pdr <- LevelsOfPdr
    LoraAvailable = TRUE
    AgentMayHang = FALSE
    None = None
    Steps = 12
    DecisionEvery = 2
    GateWarmup = 2
    BaselineAfter = 1
    MaxCostly = 1
    MaxHops = 1
    MaxScans = 1
    MaxSilent = 1
    MaxMoves = 1
    MinScanInterval = 2
    ScanFresh = 4
    NoLinkDeclare = 4
    RecoveryTimeout = 7
    BudgetGrace = 1
    EscapeGrace = 1
    RecoveryHold = 3
INVARIANTS
    DeadLinkDeclared
    TimeoutDeclared
    NoRecoveryAfterDeclare
PROPERTIES
    RecoveryHeldAtTicks
    DeadManFires
CHECK_DEADLOCK FALSE
