SPECIFICATION QueueSpec
CONSTANTS
    Jobs = {j1, j2}
    Workers = {w1, w2}
    NoWorker = NoWorker
    MaxFence = 3
    MaxLease = 2
    MaxExtension = 1
    Requests = {0, 1, 3}
    MaxAttempts = 3
    Delays = {0, 1}
    NScopes = 2
    Class <- MCClass
    Urgent = 1
    Interval = 1
    MaxBonus = 2
    Slots = 1
    Service = 1
    MaxDelay = 1
    MaxSeq = 2
    MaxAge = 3
    Files = {f1, f2, f3}
    Quiet = 2
    MaxWait = 3
    MaxHeld = 2
    HighWater = 2
    Openers = {p1, p2}
    Releases = {"old", "new", "fork"}
    Shipped <- MCShipped
    Mutations = {m1, m2, m3}
    Capacity = 2
    MaxMishaps = 1
    NoRelease = NoRelease
    NoMutation = NoMutation
INVARIANTS
    LeasesAreExclusive VerifiedIsFresh ChangeIsCovered BurstIsHandled LedgerIsSound CountedAsAppliedIsDurable
PROPERTIES
    ResultsAreCurrent NoIntentStarves
