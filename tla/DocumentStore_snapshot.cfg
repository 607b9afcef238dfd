SPECIFICATION SnapshotSpec
CONSTANTS
    r1 = r1
    r2 = r2
    r3 = r3
    t1 = t1
    t2 = t2
    t3 = t3
    None = None
    Requests = {r1, r2, r3}
    Texts = {t1, t2, t3}
    Contents = {t1, t2, t3}
    Canon <- CanonInjective
    Isolation = "snapshot"
    DocIds = {"a", "b"}
    Islands = {"o", "m", "i", "p"}
    Cards = {1, 2, 3, 4, 5, 6}
    Chain <- SampleChain
    Home <- SampleHome
    Structure <- SampleStructure
    Placard <- SamplePlacard
    Grounding <- SampleGrounding
    File <- SampleFile
    Facts = {1, 3}
    Shelved = {5}
    Merged = {2}
    Matched = {2, 3}
    StateMatched = {1, 2, 4}
    MaxActions = 3
SYMMETRY Symmetry
INVARIANTS ProjectionMatchesHead DivergenceIsReal ViewInvariant
PROPERTIES ImplementsRegister
