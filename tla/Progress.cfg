\* Research, then a change, under edits and pauses, with the fairness of the loops.
SPECIFICATION FairSpec
CONSTANTS
    Node <- Two
    Plan <- ResearchPlans
    FirstPlan <- ResearchThenChange
    Token = {w1, w2}
    NoToken = none
    Lane <- OneWorker
    Starts <- OneWorker
    Attempts = 2
    Envelope = 2
    MaxRevisions = 1
    Environment = {"edit", "pause"}
    ToolKinds = {"execute"}
    FailureKinds = {}
    Costs = {1}
    MaxMutation = 1
    MaxExtensions = 0
CHECK_DEADLOCK FALSE
PROPERTIES
    ComesToRest
