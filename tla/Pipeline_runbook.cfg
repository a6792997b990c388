SPECIFICATION Spec
CONSTANTS
    Names <- MCNames
    Family <- MCFamily
    Bucket <- MCBucket
    HoldOuts = {"sweep"}
    LlmSplits = {"any"}
    Corpora = {"corpus"}
    Rounds = 2
    None = None
INVARIANT EvaluatedClean
CHECK_DEADLOCK FALSE
