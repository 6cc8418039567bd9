SPECIFICATION ServeSpec
CONSTANTS
    Files = {f1, f2}
    Supported = {f1}
    Contents = {a, b}
    Invalid = {}
    Blank = {}
    Absent = Absent
    Listed = Listed
    NoPointer = NoPointer
    NoManifest = NoManifest
    NoFile = NoFile
    Readers = {r1}
    MayShutdown = TRUE
    MaxEdits = 2
    MaxCrashes = 1
    MaxRebuilds = 0
    Channel = 2
    Timeout = 2
    g1 = g1
    g2 = g2
    Activations <- MCActivations
    Foreign = Foreign
    NoDefinition = NoDefinition
    NoRecord = NoRecord
    MaxSessions = 2
    MaxRefusals = 1
    MaxKills = 1
    Participants = {x1, x2, x3}
    Releasable = {h1, h2}
    NoGeneration = NoGeneration
    Patience = 3
    RetryMax = 2
SYMMETRY ContentSymmetry
INVARIANTS
    PublicationFollowsTheInventory ServiceIsAccountedFor IntegratedMeansAnswered PinnedGenerationStays
PROPERTIES
    LanesAreARegister CommandsAreOwned AdmissionClosesTheDoor
