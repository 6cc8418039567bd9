----------------------------- MODULE MCJobQueue -----------------------------
EXTENDS JobQueue, TLC

(* Workers and jobs are interchangeable, and no property names one.         *)
QueueSymmetry == Permutations(Workers) \cup Permutations(Jobs)
=============================================================================
