SPECIFICATION HostSpec
CONSTANTS
    Txns = {t1, t2}
    Versions = {v1, v2}
    First = v1
    MaxDamages = 1
    NoTxn = NoTxn
    NoSkills = NoSkills
    NoPointer = NoPointer
    NoJournal = NoJournal
    Appliers = {b1, b2}
    Templates = {1, 2}
    MaxText = 1
    Human = Human
    NoPlan = NoPlan
    MaxHumanEdits = 1
    MaxDeaths = 1
    MaxErrors = 1
    Admins = {a1, a2}
    Servers = {s1, s2}
    BundleVersions = {n1, n2}
    Revisions = {r1, r2}
    MaxTyped = 1
    MaxDocuments = 3
    MaxFailures = 1
    NoAdmin = NoAdmin
    NoServer = NoServer
    NoBundle = NoBundle
    NoDocument = NoDocument
    Executables = {e1, e2}
    Artifacts = {c1, c2}
    Torn = Torn
    Missing = Missing
    NoUndo = NoUndo
    NoTarget = NoTarget
SYMMETRY HostSymmetry
INVARIANTS
    ApplyEndsOrIsReversible ContentIsPlaced LastExchangeCanBeUndone
PROPERTIES
    ClosedJournalIsTrue PointersMoveSafely OnlyApprovedBytesChange ApplyIsApproved
