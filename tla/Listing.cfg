SPECIFICATION ListingSpec
CONSTANTS
    s = s
    d = d
    q = q
    p = p
    one = one
    two = two
    None = None
    Market = {s, d, q, p}
    Asset = {one, two}
    Tag = {"SEED"}
    Columns <- MCColumns
    Dim <- MCDim
    Contract <- MCContract
    Raw <- MCRaw
    Base <- MCBase
    Provider <- MCProvider
    LogQuery <- MCLogQuery
    MaxDay = 4
    Canonical <- MCCanonical
    Matches <- MCMatches
    Stock = {two}
    Loan <- MCLoan
    Query <- MCQuery
    Start <- MCStart
    MaxWrites = 2
INVARIANTS
    AssetsMeanTheirFilters
    MarketsMeanTheirFilters
    MetadataOffers
    LogMeansItsFilter
CHECK_DEADLOCK FALSE
