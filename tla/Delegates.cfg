\* A reader and two writers in overlapping scopes, two slots, one limited provider:
\* stops, timeouts, late reports, a crash and the reopened session.
SPECIFICATION FairSpec
CONSTANTS
    Task = {1, 2, 3}
    Provider = {"slow", "fast"}
    Path = {"p", "q"}
    ProviderOf <- TwoProviders
    ScopeOf <- OneShared
    Max = 2
    Limit <- SlowLimited
    Stoppable = {1}
    Updates <- OneReport
    MayCrash = TRUE
CHECK_DEADLOCK FALSE
INVARIANTS
    SlotsAccounted
    HeadMustWait
    ViewCatchesUp
PROPERTIES
    NobodyOvertakes
    ImplementsPool
    FinalIsKept
    StopSticks
    EveryoneIsServed
    EveryoneSettles
