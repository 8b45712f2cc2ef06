---------------------------- MODULE MCNodeLife ------------------------------
(* Instances of NodeLife for TLC.                                          *)
EXTENDS NodeLife, TLC

CONSTANTS d1, d2, t1, c1, a, b

AllSetters == {d1, d2, t1, c1}

DropOneOrBoth == {<<a>>, <<b, a>>}

FailuresAndUses == {{"host"}, {"adopt"}, {"ipt"}, {"force"}}

DaemonSymmetry == Permutations(Procs \ Teardowns)
=============================================================================
