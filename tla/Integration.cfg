SPECIFICATION Spec
CONSTANTS
    File = {f1, f2, f3}
    Candidate = {own, own2, other}
    Owned = {own, own2}
    Large = {f3}
    Sparing = {own}
    Clashing = {f1}
    MaxPublications = 3
    MaxUpsets = 2
    Environment = {"edit", "child", "stop", "full", "io"}
INVARIANTS BytesAreRecoverable IntegratedIsWhole
PROPERTIES GraphStandsOnWhole NoLostEdit
CHECK_DEADLOCK FALSE
