SPECIFICATION WriterSpec
CONSTANTS
    Procs = {p1, p2, p3, p4}
    NoProc = NoProc
    Platform = "linux"
    SerialStarts = TRUE
    NProjects = 2
    MaxVersion = 2
    Unparsed = {2}
    Hints = {h1, h2}
    InboxLimit = 1
    MultiRepo = TRUE
    MaxEvents = 4
    None = None
    s1 = s1
    s2 = s2
    Snapshots <- MCSnapshots
    Live = Live
    NoSnapshot = NoSnapshot
    MaxPlans = 2
    MaxWrites = 1
    MaxDeaths = 1
INVARIANTS
    HomeIsOwnedOnce HintsAreKept ImportedGraphIsWhole
PROPERTIES
    HintCountsOnce CatalogIsACut  ShutdownCompletes CatalogCatchesUp ImportKeepsItsWord
CHECK_DEADLOCK FALSE
