\* Two workers and two runs of a batch, with one fault: a stuck child, a broken
\* pool or a reclaimed container.
SPECIFICATION Spec
CONSTANTS
    None = None
    Workers = {w1, w2}
    Prompts <- ThePrompts
    Probe <- TheProbe
    Replies <- TwoReplies
    Size <- TheSize
    MaxAttempts = 2
    Jobs <- TwoJobs
    MaxAsks = 1
    MaxRuns = 2
    MaxFaults = 1
INVARIANTS
    AnswersAreGiven
    EveryJobReported
PROPERTIES
    CacheSettles
    OneStoryPerTrace
    HangsOnlyOnStuck
CHECK_DEADLOCK FALSE
