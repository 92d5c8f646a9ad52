--------------------------- MODULE MCDurableTasks ---------------------------
(* Small instances of DurableTasks for TLC, with the mutants of its code.  *)
EXTENDS DurableTasks, TLC

CONSTANTS t1, t2

TaskSymmetry == Permutations(Tasks)
=============================================================================
