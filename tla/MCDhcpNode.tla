----------------------------- MODULE MCDhcpNode -----------------------------
(* Instances of DhcpNode for TLC.                                          *)
EXTENDS DhcpNode, TLC

CONSTANTS m1, m2, i1, i2

OneSlot  == {{i1}}
TwoPools == {{i1, i2}, {i1}}

MacSymmetry  == Permutations(Macs)
FullSymmetry == Permutations(Macs) \cup Permutations(IPs)

StopOnly  == {{"stop"}}
DiskFails == {{"crash", "save"}}
AllFail   == {{"stop", "crash", "save", "route"}}
=============================================================================
