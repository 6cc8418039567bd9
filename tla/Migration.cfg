SPECIFICATION RetireSpec
CONSTANTS
    N = 3
    Action <- ThreeActions
    Previous <- ThreePrevious
    NoJournal = NoJournal
    MaxCrashes = 1
    MaxFaults = 1
    MaxEdits = 1
    MaxRollbacks = 2
    Operators = {p1, p2}
    Releases = {1, 2}
    FirstRelease = 1
    MaxActivations = 2
    MaxReviews = 2
    MaxAborts = 1
    MaxHandEdits = 1
    NoOperator = NoOperator
    NoRecovery = NoRecovery
    NoPayload = NoPayload
INVARIANTS
    MigrationIsRecoverable RemovalCanBeTakenUp
PROPERTIES
    HumanBytesSurvive ApplyCompletes FilesGoAsApproved
