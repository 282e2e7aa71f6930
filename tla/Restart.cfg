\* Research, then a change: edits, a revision, pause, cancel, crashes at every step,
\* recovery and retry.
SPECIFICATION Spec
CONSTANTS
    Node <- Two
    Plan <- ResearchPlans
    FirstPlan <- ResearchThenChange
    Token = {w1, w2}
    NoToken = none
    Lane <- OneWorker
    Starts <- ThreeStarts
    Attempts = 2
    Envelope = 2
    MaxRevisions = 1
    Environment = {"edit", "revise", "crash", "retry", "pause", "cancel", "cache"}
    ToolKinds = {"execute", "external"}
    FailureKinds = {}
    Costs = {1}
    MaxMutation = 1
    MaxExtensions = 0
CHECK_DEADLOCK FALSE
SYMMETRY Contents
VIEW LiveState
INVARIANTS
    SavedGraphRestores
    SchedulerFindsWork
    NoReplay
PROPERTIES
    FinishedAttemptsKeep
    StopHolds
    TerminalStays
