SPECIFICATION RetentionSpec
CONSTANTS
    k1 = k1
    k2 = k2
    h1 = h1
    h2 = h2
    None = None
    Keys = {k1, k2}
    Hashes = {h1, h2}
    MaxEntries = 1
    EvictEvery = 1
    TTL = 3
    MaxEvents = 5
    MaxInFlight = 2
    Revs = {1, 2, 3, 4}
    KeepPerRoot = 1
SYMMETRY Symmetry
INVARIANTS ApplyComplete  PruneInvariant
