\* Three isolated writers, two of which may run together: waves, crashes, retained
\* worktrees, integration, combined checks and waivers, a second envelope.
SPECIFICATION Spec
CONSTANTS
    Node <- Three
    Plan <- WriterWave
    FirstPlan <- ThreeWriters
    Token = {w1, w2}
    NoToken = none
    Lane <- TwoWorkers
    Starts <- TwoWorkers
    Attempts = 2
    Envelope = 2
    MaxRevisions = 1
    Environment = {"crash", "integrate", "retry", "reconcile", "extend"}
    ToolKinds = {"execute"}
    FailureKinds = {"retryable"}
    Costs = {1, 2}
    MaxMutation = 2
    MaxExtensions = 1
CHECK_DEADLOCK FALSE
SYMMETRY Contents
VIEW LiveState
INVARIANTS
    WritersDisjoint
    UnverifiedStandsAlone
PROPERTIES
    CandidateKept
    TreesRemembered
