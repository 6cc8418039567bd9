SPECIFICATION Spec
CONSTANTS
    Procs = {p1, p2, p3}
    NoProc = NoProc
    Platform = "linux"
    SerialStarts = FALSE
SYMMETRY ProcSymmetry
INVARIANTS
    SingleOwner
CHECK_DEADLOCK FALSE
