SPECIFICATION FairSpec
CONSTANTS
    c1 = c1
    c2 = c2
    c3 = c3
    g1 = g1
    g2 = g2
    g3 = g3
    Callers = {c1}
    Lives = {g1}
    FirstLife = g1
    Shutdown = Shutdown
    Nobody = Nobody
    OpsOf <- KillOps
    SelfSuspends = TRUE
PROPERTIES KillTerminates
