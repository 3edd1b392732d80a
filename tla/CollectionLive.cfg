SPECIFICATION FairSpec
CONSTANTS
    spot = spot
    loan = loan
    rwa = rwa
    c1 = c1
    c2 = c2
    None = None
    Source = {spot}
    Financing = {}
    Venue <- MCVenue
    Phases <- MCPhases
    Collector = {c1, c2}
    MaxFetch = 1
    Ahead = 1
    MaxTime = 0
    MaxParents = 2
    MaxCrashes = 1
PROPERTIES
    OutcomeIsFinal
    RunsSettle
