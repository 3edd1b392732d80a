SPECIFICATION Spec
CONSTANTS
    Newest = 4
    First = 2
INVARIANTS
    QuietMigration
    ServesItsSchema
    ScheduleRestored
