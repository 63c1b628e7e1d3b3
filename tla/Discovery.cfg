SPECIFICATION DSpec
CONSTANTS
    Shops = {s1, s2}
    Owners = {o1, o2}
    Requests = {r1, r2}
    Types = {"grocery", "pharmacy"}
    Kinds = {"drug_licence"}
    Pins <- MCPins
    Divisions <- MCDivisions
    Searches = {q1}
    Asked = {"pharmacy"}
    Ends = {"forever"}
    MaxCalls = 2
    Spot <- MCSpot
    Metres <- MCMetres
    Grid <- MCGrid
    BaseRadius = 2
    Step = 2
    MaxExpansions = 1
    MinMerchants = 1
    AutoExpand = TRUE
    FanOut = 1
    None = None
    A = A
SYMMETRY Symmetry
INVARIANTS NobodyIsListedUnseen IndexAndTrailAgree ShownShopsAreListed SearchAgreesWithReach 
CHECK_DEADLOCK FALSE
