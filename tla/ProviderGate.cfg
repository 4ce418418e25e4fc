SPECIFICATION FairSpec
CONSTANTS
    c1 = c1
    c2 = c2
    c3 = c3
    a = a
    b = b
    Callers = {c1, c2, c3}
    Providers = {a, b}
    NoProvider = NoProvider
    PrimaryOf <- MCPrimaryOf
    FallbackOf <- MCFallbackOf
    ProjectLimit <- MCProjectLimit
    GlobalLimit <- MCGlobalLimit
    DefaultLimit = 1
    MaxChunks = 2
INVARIANTS TypeOK SlotConservation InFlightWithinLimit NoHoldAndWait WaitersExact
PROPERTIES ImplementsAdmission WaitBounded
