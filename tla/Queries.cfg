SPECIFICATION Spec
CONSTANTS
    x = x
    fy = fy
    hy = hy
    gx = gx
    None = None
    Market = {x, fy, hy, gx}
    Source = {"SPOT", "F1", "F2"}
    SourceOf <- MCSourceOf
    Venue <- MCVenue
    Kind <- MCKind
    Base <- MCBase
    Assets <- MCAssets
    AskVenue = "V1"
    Basket = {"X", "Y"}
    Wanted = {fy, gx}
    Start <- MCStart
    MaxTime = 1
    MaxWrites = 2
INVARIANTS
    BasketIsOfOneState
    CoverageIsPossible
    LogFailsOnlyByRemap
CHECK_DEADLOCK FALSE
