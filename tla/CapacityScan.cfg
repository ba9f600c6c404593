\* Three jobs of seven blocks, a file system with room for five or six.
SPECIFICATION GateSpec
CONSTANTS
    j1 = j1
    j2 = j2
    j3 = j3
    Jobs = {j1, j2, j3}
    Need <- Sizes
    Budget = 6
    Disk = 6
    Elsewhere = 1
    Uncached = {j1, j2, j3}
    Unlocked = unlocked
INVARIANTS ShortByDriftOnly WithinBudget
CHECK_DEADLOCK FALSE
