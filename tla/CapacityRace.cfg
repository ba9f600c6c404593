\* The same with every .torrent cached already, and one check too many.
SPECIFICATION GateSpec
CONSTANTS
    j1 = j1
    j2 = j2
    j3 = j3
    Jobs = {j1, j2, j3}
    Need <- Sizes
    Budget = 6
    Disk = 6
    Elsewhere = 1
    Uncached = {}
    Unlocked = unlocked
INVARIANT Solvent
CHECK_DEADLOCK FALSE
