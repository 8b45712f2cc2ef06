---------------------------- MODULE MCDhcpServer ----------------------------
(* Instances of DhcpServer for TLC.                                        *)
EXTENDS DhcpServer, TLC

CONSTANTS m1, m2, i1, i2

TwoPools == {{i1, i2}, {i1}}
OnePool  == {{i1, i2}}

MacSymmetry == Permutations(Macs)

StopOnly == {{"stop"}}

\* Everything but the straddle; the same with a readable file, and with a
\* writable one too; and one daemon life whose only failures are saves.
Unstraddled == FaultKinds \ {"straddle"}
SafetyEnvs  == { Unstraddled, Unstraddled \ {"read"},
                 Unstraddled \ {"read", "save"}, {"save"} }
Readable    == {Unstraddled \ {"read"}}
=============================================================================
