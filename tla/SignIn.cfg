SPECIFICATION SignInSpec
CONSTANTS
    r1 = r1
    r2 = r2
    r3 = r3
    home = home
    office = office
    Request = {r1, r2, r3}
    Address = {home, office}
    Slots = 2
    Limit = 2
    Window = 1
    Capacity = 1
    MaxTime = 3
    MaxFailures = 4
    MaxRaises = 1
INVARIANTS
    BudgetHolds
    ReservationsAccount
