\* A read worker whose provider served part of its prompt from a cache.
SPECIFICATION Spec
CONSTANTS
    Node <- Two
    Plan <- ResearchOnly
    FirstPlan <- ResearchThenChange
    Token = {w1, w2}
    NoToken = none
    Lane <- OneWorker
    Starts <- ThreeStarts
    Attempts = 2
    Envelope = 3
    MaxRevisions = 1
    Environment = {"cache"}
    ToolKinds = {"execute"}
    FailureKinds = {"retryable"}
    Costs = {1}
    MaxMutation = 1
    MaxExtensions = 0
CHECK_DEADLOCK FALSE
SYMMETRY Contents
VIEW LiveState
INVARIANTS
    ReadResultsSettle
