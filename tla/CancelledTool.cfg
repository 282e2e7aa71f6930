\* The user cancels while an action is between its two records.
SPECIFICATION Spec
CONSTANTS
    Node <- One
    Plan <- SingleChange
    FirstPlan <- OneChange
    Token = {w1, w2}
    NoToken = none
    Lane <- OneWorker
    Starts <- OneWorker
    Attempts = 2
    Envelope = 2
    MaxRevisions = 1
    Environment = {"cancel"}
    ToolKinds = {"execute"}
    FailureKinds = {}
    Costs = {1}
    MaxMutation = 1
    MaxExtensions = 0
CHECK_DEADLOCK FALSE
SYMMETRY Contents
VIEW LiveState
INVARIANTS
    SavedPendingBelongs
