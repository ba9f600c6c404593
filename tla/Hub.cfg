\* Ana's job and another member's, her browser and an anonymous one, a channel of one.
SPECIFICATION FairSpec
CONSTANTS
    j1 = j1
    j2 = j2
    c1 = c1
    c2 = c2
    Jobs = {j1, j2}
    Conns = {c1, c2}
    Nobody = "nobody"
    Owner <- Owners
    User <- Users
    Capacity = 1
INVARIANTS Private EndedLeavesSnapshot EndReachesViewers
PROPERTIES NoResurrection HandlersEnd
CHECK_DEADLOCK FALSE
