SPECIFICATION RecordsSpec
CONSTANTS
    c1 = c1
    c2 = c2
    c3 = c3
    j1 = j1
    alice = alice
    bob = bob
    a1 = a1
    a2 = a2
    k1 = k1
    k2 = k2
    None = None
    Clients = {c1, c2, c3}
    Journeys = {j1}
    Owner <- Owners
    MaxWrites = 3
    Threads = {a1, a2}
    Keys = {k1, k2}
    QueueSize = 2
    MaxEvents = 4
    DocIds = {"A", "B"}
    Cards = {"c1"}
    LedgerLimit = 1
    ResolvedLimit = 1
    MaxSteps = 4
SYMMETRY Symmetry
CHECK_DEADLOCK FALSE
INVARIANTS RevisionsNameWrites DeletionsAudited DispatcherInvariant AgentInvariant
