\* Two members' jobs, a check too many.
CONSTANTS
    j1 = j1
    j2 = j2
    Jobs = {j1, j2}
    Request <- TwoMembers
    Guest = "guest"
    MaxQueueSize = 2
    Budget = 3
    Reserves = {2}
    MaxCrashes = 1
SPECIFICATION Spec
INVARIANT CancelledEndsStopped
