SPECIFICATION GCSpec
CONSTANTS
    v1 = v1
    v2 = v2
    v3 = v3
    d1 = d1
    d2 = d2
    d3 = d3
    s1 = s1
    s2 = s2
    None = None
    Revs = {v1, v2, v3}
    Digests = {d1, d2, d3}
    External = {d3}
    Savers = {s1}
    Base <- DeltaBase
    SavedTiers = {"ephemeral", "checkpoint"}
    Cards = {1, 2, 3, 4}
    MaxLinks = 4
    MaxMixed = 3
SYMMETRY Symmetry
CHECK_DEADLOCK FALSE
INVARIANTS ChecksInvariant HistoryIntact AuditTellsTheTruth
PROPERTIES DurableKept
