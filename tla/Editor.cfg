SPECIFICATION EditorSpec
CONSTANTS
    Docs = {"home", "other"}
    Home = "home"
    MaxEdits = 2
    MaxRevs = 2
    MaxLoads = 2
    MaxTurns = 1
    Islands = {i1, i2}
    TrailLimit = 2
    AttemptLimit = 1
    MaxCalls = 2
    ReviewHistory = 1
    MaxReviewEdits = 3
    Cards = {"c1", "c2", "c3"}
    Reps = {"r1", "r2"}
    Groups = {"g1", "g2"}
    EventLimit = 2
    MaxChanges = 3
    MaxRequests = 1
    Tabs = {t1, t2}
    CueDocs = {"A", "B"}
    Refs = {"p1"}
    CueHistory = 1
    MaxHistories = 3
SYMMETRY Symmetry
CHECK_DEADLOCK FALSE
INVARIANTS SessionInvariant ReviewInvariant CueInvariant
PROPERTIES NoBlindOverwrite WorkSurvives SuggestionsFollowDecisions
