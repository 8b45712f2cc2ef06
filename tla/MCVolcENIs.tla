----------------------------- MODULE MCVolcENIs -----------------------------
(* Instances of VolcENIs for TLC.                                          *)
EXTENDS VolcENIs, TLC

CONSTANTS e1, e2, e3, e4, e5, e6

NewEniSymmetry == Permutations(Enis \ Hand)

Environments ==
  { Handled,
    FaultKinds \cup {"init", "adopt"},
    FaultKinds \cup {"hand", "adopt"},
    FaultKinds \cup UseKinds }
=============================================================================
