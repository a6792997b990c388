\* Every scenario family, any call between two ticks.
SPECIFICATION Spec
CONSTANTS
    Peers = {"p1", "p2"}
    Channels = {1, 2, 3}
    Scenarios <- Library
    Calls = {"spectrum_scan", "hop_channel", "set_tx_power", "change_tdma_slot", "load_test", "neighbor_probe", "fallback_to_lora", "reroute", "move", "declare_link_lost"}
    MaxTicks = 6
    MaxCalls = 2
    CusumH = 8
    Window = 3
    WarmTicks = 3
    ZeroRxTicks = 2
    GateMin = 3
    HotCap = 2
    FadeCap = 2
INVARIANTS
    CollapseDetected
    FadesAccounted
    DeadPeerNoticed
    GateIsCausal
    OnlySweepsMove
CHECK_DEADLOCK FALSE
