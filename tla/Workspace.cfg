SPECIFICATION WorkspaceSpec
CONSTANTS
    Pages = {p1, p2}
    Tenants = {A, B}
    FirstTenant = A
    MaxVersion = 3
    None = None
    Cards = {"a", "n"}
    Islands = {"q"}
    Edges = {"e"}
    Links = {"l"}
    Absent = Absent
    Joined = Joined
    w1 = w1
    w2 = w2
    Contents = {w1, w2}
    Ends <- SampleEnds
    Start <- SampleStart
    Others <- SampleOthers
    MaxEdits = 1
SYMMETRY Symmetry
CHECK_DEADLOCK FALSE
INVARIANTS SessionInvariant OneSwitchPerVersion
PROPERTIES LocalWorkKept ReferencesKept
