SPECIFICATION PartsSpec
CONSTANTS
    p1 = p1
    p2 = p2
    e1 = e1
    e2 = e2
    e3 = e3
    o1 = o1
    o2 = o2
    Users = {p1, p2}
    Entries = {e1, e2, e3}
    NoEntry = NoEntry
    NoUser = NoUser
    CleansReleased = FALSE
    Agents = {1}
    Graphs <- AllGraphs
    Budget = 0
    Children = {1, 2}
    Specs <- SupervisorSpecs
    MaxRestarts = 2
    MaxGen = 2
    Objects = {o1}
    NoObject = NoObject
    Window = 1
    Backoff = 1
    MaxLeaving = 1
    WakesInGate = TRUE
INVARIANT OneIncarnation
CHECK_DEADLOCK FALSE
