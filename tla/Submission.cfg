\* Two browsers, four torrents, eight submissions, two crashes or losses of power.
CONSTANTS
    b1 = b1
    b2 = b2
    All = All
    Torrents <- SomeTorrents
    Submissions <- SomeSubmissions
    Previewed <- Listed
    Browsers = {b1, b2}
    Nobody = Nobody
    MaxInt = 60
    Flat = 4
    PerFile = 1
    MaxActive = 60
    MaxCrashes = 2
SYMMETRY Symmetry
SPECIFICATION SpecAll
INVARIANTS CacheWhole ChosenIsUploaded FitsReservation FailsForCause PreviewIsolated
CHECK_DEADLOCK FALSE
