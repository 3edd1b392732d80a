SPECIFICATION Spec
CONSTANTS
    spot = spot
    loan = loan
    rwa = rwa
    c1 = c1
    c2 = c2
    None = None
    Source = {loan, rwa}
    Financing = {loan}
    Venue <- MCVenue
    Phases <- MCPhases
    Collector = {c1, c2}
    MaxFetch = 1
    Ahead = 1
    MaxTime = 1
    MaxParents = 2
    MaxCrashes = 0
SYMMETRY Symmetric
INVARIANTS
    EverySourceAccounted
    SucceededIsProjected
PROPERTIES
    ImplementsLedger
