\* One session file through appends, compaction, failed and short writes, a failed
\* flush, process stops, a power loss, restarts, renames, forks and rewinds.
SPECIFICATION Spec
CONSTANTS
    Call = {a}
    Value = {v}
    NoValue = none
    KeepRecent = 2
    MaxLines = 7
    MaxUpsets = 1
    Environment = {"stop", "part", "full", "fsync", "power", "amend", "rewind"}
CHECK_DEADLOCK FALSE
INVARIANTS
    HistoryKept
    PromisesKept
    ReplayAgrees
    RewindKeepsTurn
    OrphanFree
