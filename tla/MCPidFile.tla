----------------------------- MODULE MCPidFile ------------------------------
(* Instances of PidFile for TLC.                                           *)
EXTENDS PidFile, TLC

CONSTANTS p1, p2, p3, p4

ProcSymmetry == Permutations(Procs)
=============================================================================
