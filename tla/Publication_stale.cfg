SPECIFICATION Spec
CONSTANTS
    Files = {f1, f2}
    Supported = {f1, f2}
    Contents = {a, b}
    Invalid = {}
    Blank = {}
    Absent = Absent
    Listed = Listed
    NoPointer = NoPointer
    NoManifest = NoManifest
    NoFile = NoFile
    Readers = {}
    MayShutdown = TRUE
    MaxEdits = 2
    MaxCrashes = 0
    MaxRebuilds = 0
SYMMETRY ContentSymmetry
INVARIANT
    OkPassIsPublished
