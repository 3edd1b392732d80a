SPECIFICATION FairSpec
CONSTANTS
    collector = collector
    command = command
    Compactor = {collector, command}
    UnchangedRetention = 1
    PayloadRetention = 1
    Ceiling = 1
    BatchSize = 2
    MaxRows = 3
    MaxTime = 2
    MaxKills = 1
INVARIANTS
    CountersAccount
PROPERTIES
    CeilingReached
    UnchangedExpire
