--------------------------- MODULE MCRunRecovery ---------------------------
(* Values for the constants of RunRecovery.                                *)
EXTENDS RunRecovery, TLC
CONSTANTS p1, p2, p3, r1, r2, build, check, look
NoDeps == [t \in Tasks |-> {}]
Chain == [t \in Tasks |-> IF t = check THEN {build} ELSE {}]
\* One mutating task, then reads that may share a wave.
Fan == [t \in Tasks |-> IF t = build THEN {} ELSE {build}]
ProcSymmetry == Permutations(Procs)
RecoverySymmetry == Permutations(Procs) \cup Permutations(Runs)
=============================================================================
