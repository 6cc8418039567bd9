SPECIFICATION SourceSpec
CONSTANTS
    Files = {f1, f2}
    Supported = {f1, f2}
    Contents = {a, bad, void}
    Invalid = {bad}
    Blank = {void}
    Absent = Absent
    Listed = Listed
    NoPointer = NoPointer
    NoManifest = NoManifest
    NoFile = NoFile
    Readers = {}
    MayShutdown = FALSE
    MaxEdits = 3
    MaxCrashes = 0
    MaxRebuilds = 1
    a1 = a1
    a2 = a2
    lower = lower
    out = out
    key = key
    Plain <- MCPlain
    Ignored <- MCIgnored
    Secret <- MCSecret
    Fold <- MCFold
    MaxVersion = 1
    MaxDrain = 2
    MaxTouches = 3
INVARIANTS
    OkPassIsPublished NothingIsLost
PROPERTIES
    PublicationConverges InventoryConverges
