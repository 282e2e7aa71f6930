\* The process stops in the middle of a record and the file is opened again.
SPECIFICATION Spec
CONSTANTS
    Call = {a}
    Value = {v}
    NoValue = none
    KeepRecent = 2
    MaxLines = 6
    MaxUpsets = 1
    Environment = {"stop", "part", "doubt"}
CHECK_DEADLOCK FALSE
INVARIANT AlwaysLoads
