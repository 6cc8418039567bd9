SPECIFICATION Spec
CONSTANTS
    Files = {f1, f2}
    Supported = {f1, f2}
    Contents = {a, b}
    Invalid = {}
    Blank = {}
    Absent = Absent
    Listed = Listed
    NoPointer = NoPointer
    NoManifest = NoManifest
    NoFile = NoFile
    Readers = {}
    MayShutdown = FALSE
    MaxEdits = 1
    MaxCrashes = 1
    MaxRebuilds = 0
SYMMETRY ContentSymmetry
INVARIANT
    NoDanglingPointer
