SPECIFICATION PartsSpec
CONSTANTS
    p1 = p1
    p2 = p2
    e1 = e1
    e2 = e2
    e3 = e3
    o1 = o1
    o2 = o2
    Users = {p1, p2}
    Entries = {e1, e2, e3}
    NoEntry = NoEntry
    NoUser = NoUser
    CleansReleased = FALSE
    Agents = {1, 2, 3, 4}
    Graphs <- AllGraphs
    Budget = 2
    Children = {1, 2}
    Specs <- SupervisorSpecs
    MaxRestarts = 2
    MaxGen = 2
    Objects = {o1, o2}
    NoObject = NoObject
    Window = 1
    Backoff = 2
    MaxLeaving = 1
    WakesInGate = FALSE
INVARIANTS
    RefCountIsOwners OwnersServed NoOrphanServer
    UpstreamDone RunComplete
    OneIncarnation Watched StrategyKept CleanRestart NoneLeftBehind
    OneDriver BackoffKept SuspensionSurvives
PROPERTIES ImplementsShared WakeNeverKills
CHECK_DEADLOCK FALSE
