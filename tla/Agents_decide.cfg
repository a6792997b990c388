\* Every decision of the four agents on bounded inputs.
SPECIFICATION Spec
CONSTANTS
    None = None
    Unreliable = {"rssi_pdr_corr", "loss_load_corr"}
    Channels = {1, 2, 3}
    Cues <- SomeCues
    Vectors <- BinaryVectors
    Posteriors <- SomeTenths
    Contexts <- SomeContexts
    Files <- SomeFiles
    CostOrder <- FourCauses
    Cost <- CostMatrix
    Abstain = 68
    LeadPrecision = 95
INVARIANTS
    HopHasEvidence
    HopGoesElsewhere
    AccusationIsWarranted
    UnreliableNeverOverrules
