SPECIFICATION ExportSpec
CONSTANTS
    spot = spot
    perp = perp
    loan = loan
    Source = {spot, perp, loan}
    Terminal = {}
    Registered <- MCRegistered
    Paging <- MCPaging
    Financing = {loan}
    Instrument = {1, 2, 3}
    Malformed = {3}
    PageSize = 1
    MaxPages = 2
    Attempts = 2
    FetchSlots = 2
    MaxListings = 1
    MaxExports = 2
INVARIANTS
    FetchIsExact
    FileIsWhole
