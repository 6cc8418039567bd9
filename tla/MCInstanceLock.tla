--------------------------- MODULE MCInstanceLock ---------------------------
EXTENDS InstanceLock, TLC

(* Processes differ only in their identity, and no property names one.      *)
ProcSymmetry == Permutations(Procs)
=============================================================================
