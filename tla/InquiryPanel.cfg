SPECIFICATION InquirySpec
CONSTANTS
    user = user
    None = None
    Clients = {c1, c2}
    Journeys = {j1, j2}
    Owner <- OneUser
    MaxWrites = 3
    MaxDetours = 1
    Sheets = {"A", "B"}
    Notes = {"c1", "c2"}
    Texts = {"x"}
    Stages = {"r1", "r2"}
    Times = {1, 2}
    MaxDeeds = 4
SYMMETRY PanelSymmetry
CHECK_DEADLOCK FALSE
INVARIANTS NoStaleOverwrite 
PROPERTIES ImplementsServer
