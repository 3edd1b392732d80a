SPECIFICATION Spec
CONSTANTS
    gold = gold
    oil = oil
    btc = btc
    Rwa = Rwa
    NoScope = NoScope
    Scope = {"TRADFI"}
    Source = {Rwa}
    Market <- MCMarket
    SourceOf <- MCSourceOf
    Phases <- MCPhases
    Snapshots <- MCSnapshots
    MaxTime = 2
    MaxRuns = 3
SYMMETRY Symmetric
INVARIANTS
    ActiveIsNotTerminal
    LogExplainsCatalog
    ActiveIsConfirmed
PROPERTIES
    UnseenSurvivesPartial
    CompleteSnapshotSettles
    RestrictionHolds
CHECK_DEADLOCK FALSE
