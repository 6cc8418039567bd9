SPECIFICATION Spec
CONSTANTS
    Jobs = {j1}
    Workers = {w1, w2}
    NoWorker = NoWorker
    MaxFence = 3
    MaxLease = 2
    MaxExtension = 1
    Requests = {0, 3}
    MaxAttempts = 3
    Delays = {0, 1}
SYMMETRY QueueSymmetry
INVARIANT
    EligibleCanBeClaimed
