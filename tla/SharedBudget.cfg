\* Two guests' jobs of two units each, a budget of three.
CONSTANTS
    j1 = j1
    j2 = j2
    Jobs = {j1, j2}
    Request <- TwoGuests
    Guest = "guest"
    MaxQueueSize = 2
    Budget = 3
    Reserves = {2}
    MaxCrashes = 0
SPECIFICATION PatientSpec
INVARIANT BudgetConserved
PROPERTY EveryJobSettles
