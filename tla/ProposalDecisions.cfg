SPECIFICATION DecisionsSpec
CONSTANTS
    r1 = r1
    r2 = r2
    r3 = r3
    p1 = p1
    k1 = k1
    k2 = k2
    None = None
    Requests = {r1, r2, r3}
    Proposals = {p1}
    Keys = {k1, k2}
    Cards = {1, 2, 3}
    Islands = {11, 12}
    Relations <- SampleRelations
    MaxRelations = 2
    MaxEdits = 2
INVARIANTS EventsExplainState ReceiptIsReal ReportsInvariant
PROPERTIES EveryRequestAnswered
