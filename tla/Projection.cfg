SPECIFICATION Spec
CONSTANTS
    p = p
    kp = kp
    xa = xa
    a = a
    as = as
    finP = finP
    finK = finK
    finA = finA
    None = None
    Market = {p, kp, xa, a, as}
    Symbol = {"P", "Q", "kP", "xA", "A", "AS"}
    Venue <- MCVenue
    Source <- MCVenue
    Kind <- MCKind
    Unit <- MCUnit
    Strip <- MCStrip
    Offers <- MCOffers
    Start <- MCStart
    Override <- MCOverride
    Target = {"P"}
    Product = {finP, finK, finA}
    FinVenue <- MCFinVenue
    FinSource <- MCFinVenue
    FinSymbol <- MCFinSymbol
    Terms <- MCTerms
    MaxChanges = 3
INVARIANTS
    RevisionsExplain
    RenameIsComplete
    MappingsAgree
    UnitCountsOnce
    FinancingFollows
    FinancingLogExplains
    TagLogExplains
CHECK_DEADLOCK FALSE
