SPECIFICATION FairSpec
CONSTANTS
    N = 3
    Action <- ThreeActions
    Previous <- ThreePrevious
    NoJournal = NoJournal
    MaxCrashes = 2
    MaxFaults = 0
    MaxEdits = 0
    MaxRollbacks = 0
PROPERTIES
    ApplyCompletes
