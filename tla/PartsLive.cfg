SPECIFICATION PartsSpec
CONSTANTS
    o1 = o1
    Objects = {o1}
    NoObject = NoObject
    Window = 1
    Backoff = 2
    MaxLeaving = 2
    p1 = p1
    p2 = p2
    e1 = e1
    e2 = e2
    e3 = e3
    Users = {p1, p2}
    Entries = {e1, e2, e3}
    NoEntry = NoEntry
    NoUser = NoUser
    CleansReleased = FALSE
    Children = {1}
    MaxRestarts = 3
    MaxGen = 3
    WakesInGate = FALSE
    Nodes = {1, 2, 3}
    Slots = {1, 2}
    MaxRetries = 2
    FirstNodes = {1, 2}
    Trees <- IntentTrees
    MergeKinds = {"add"}
    MaxMerges = 1
INVARIANTS
    ActiveExact DepsCompleted CompletedIsComplete
PROPERTIES WokenInTheEnd AttachReturns ShutdownEnds ExecuteEnds
CHECK_DEADLOCK FALSE
