SPECIFICATION FairSpec
CONSTANTS
    MaxCatalog = 3
    MaxCommands = 4
    MaxFailures = 2
    Commands = {"reconnect", "enable", "disable", "remove", "add", "ping", "refresh"}
CHECK_DEADLOCK FALSE
INVARIANTS ConnectedIsCurrent WithdrawnStays NoOrphan
PROPERTIES NeverOlder PendingSettles
