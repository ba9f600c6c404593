\* A folder and a guest's file being uploaded, two requests of two users.
SPECIFICATION Spec
CONSTANTS
    j1 = j1
    j2 = j2
    top = top
    sub = sub
    inSub = inSub
    single = single
    r1 = r1
    r2 = r2
    Jobs = {j1, j2}
    Walk <- Walks
    Uploader <- Uploaders
    Users = {"ana", "root user"}
    Admin = "root user"
    Nobody = "nobody"
    Folder = {top, sub}
    Parent <- Parents
    Above <- Paths
    Root = "root"
    Requests = {r1, r2}
SYMMETRY Symmetry
INVARIANTS WellRooted DeletedIsGone GhostsAreReported CompletedIsListed
PROPERTY OthersUntouched
CHECK_DEADLOCK FALSE
