SPECIFICATION Spec
CONSTANTS
    file = file
    File = {file}
    here = here
    there = there
    bare = bare
    Argument = {here, there, bare}
    demand = demand
    Demand = {demand}
    Covering <- Alike
    Content = {c1, c2}
    Call = {a, b}
    Op <- Operations
    Disclosure = {n1}
    Work = FALSE
    NoContent = NoContent
    NoNote = NoNote
    MaxIterations = 3
    NoProgress = 2
    MaxBatch = 1
    MaxCalls = 3
    MaxTurns = 2
    MaxUpsets = 1
    Environment = {"fail", "refuse", "full", "edit", "stop"}
SYMMETRY Interchangeable
CHECK_DEADLOCK FALSE
INVARIANTS OwedIsRemembered NoticesBounded
PROPERTIES DoneIsSettled UncertainBlocks NoStaleRecovery
