\* One primary node, every kind of tool and failure, edits and blind observations:
\* what the completion gate lets through.
SPECIFICATION Spec
CONSTANTS
    Node <- One
    Plan <- SingleChange
    FirstPlan <- OneChange
    Token = {w1, w2}
    NoToken = none
    Lane <- OneWorker
    Starts <- OneWorker
    Attempts = 2
    Envelope = 1
    MaxRevisions = 1
    Environment = {"edit", "blind", "exhaust"}
    ToolKinds = {"read", "write", "execute"}
    FailureKinds = {"retryable", "policy"}
    Costs = {1}
    MaxMutation = 2
    MaxExtensions = 0
CHECK_DEADLOCK FALSE
SYMMETRY Contents
VIEW LiveState
INVARIANTS
    DoneIsVerified
