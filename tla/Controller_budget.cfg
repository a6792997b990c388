\* A rogue model that spends as fast as the mask lets it; budgets of a few units.
SPECIFICATION Spec
CONSTANTS
    Channels = {1, 2}
    Hypotheses = {"h1"}
    AgentCalls = {"spectrum_scan", "silent_listen", "hop_channel", "channel_hop_probe", "move", "mobility_test", "fallback_to_lora", "declare_link_lost"}
    ScanResults <- EdgeScans
    Pdr <- DeadOrAlive
    LoraAvailable = TRUE
    AgentMayHang = TRUE
    None = None
    Steps = 7
    DecisionEvery = 1
    GateWarmup = 2
    BaselineAfter = 1
    MaxCostly = 3
    MaxHops = 2
    MaxScans = 2
    MaxSilent = 1
    MaxMoves = 2
    MinScanInterval = 2
    ScanFresh = 4
    NoLinkDeclare = 4
    RecoveryTimeout = 6
    BudgetGrace = 1
    EscapeGrace = 1
    RecoveryHold = 2
INVARIANTS
    TypeOK
    WithinBudget
    NoHopOnCleanSpectrum
PROPERTIES
    EnvelopeKept
CHECK_DEADLOCK FALSE
