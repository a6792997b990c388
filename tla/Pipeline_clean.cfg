SPECIFICATION Spec
CONSTANTS
    Names <- MCNames
    Family <- MCFamily
    Bucket <- MCBucket
    HoldOuts = {"sweep"}
    LlmSplits = {"train"}
    Corpora = {"corpus"}
    Rounds = 2
    None = None
INVARIANT EvaluatedClean
CHECK_DEADLOCK FALSE
