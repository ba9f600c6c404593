\* One job, its owner's browser, a channel of one.
SPECIFICATION FairSpec
CONSTANTS
    j1 = j1
    j2 = j2
    c1 = c1
    c2 = c2
    Jobs = {j1}
    Conns = {c1}
    Nobody = "nobody"
    Owner <- Owners
    User <- Ana
    Capacity = 1
PROPERTY EndIsShown
CHECK_DEADLOCK FALSE
