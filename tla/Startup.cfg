\* Three processes on two hosts, one of an older build, six migrations, two faults.
CONSTANTS
    p1 = p1
    p2 = p2
    p3 = p3
    h1 = h1
    h2 = h2
    Procs = {p1, p2, p3}
    Hosts = {h1, h2}
    HostOf <- TwoHosts
    Known <- TwoBuilds
    Statements <- SixFiles
    Nobody = Nobody
    Orphan = Orphan
    MaxFaults = 2
SPECIFICATION Spec
INVARIANTS SchemaFirst StartsApart OneQueue
CHECK_DEADLOCK FALSE
