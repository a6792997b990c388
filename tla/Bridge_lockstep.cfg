\* A model that spends as fast as it is let, lines that do not parse, agents that
\* raise, a simulator that dies: three or four decisions of an episode.
SPECIFICATION FairSpec
CONSTANTS
    None = None
    Channels = {1, 2}
    Hypotheses = {"h1"}
    AgentCalls = {"spectrum_scan", "silent_listen", "hop_channel", "channel_hop_probe", "move", "mobility_test", "declare_link_lost"}
    Bands <- HotBands
    Pdr <- DeadOrAlive
    MayGarble = TRUE
    MayDie = TRUE
    FirstTick = 2
    LastTick = 10
    DecisionEvery = 2
    GateWarmup = 1
    WarmUp = 3
    MaxCostly = 2
    MaxHops = 2
    MaxScans = 2
    MaxSilent = 1
    MaxMoves = 2
    MinScanInterval = 2
    ScanFresh = 6
    NoLinkDeclare = 5
    RecoveryTimeout = 7
    BudgetGrace = 2
    RecoveryHold = 3
INVARIANTS
    Lockstep
    NothingUnpaid
    SpectrumIsBought
    DeadLinkGivenUp
PROPERTIES
    EnvelopeKept
    BothStop
CHECK_DEADLOCK FALSE
