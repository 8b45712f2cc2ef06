---------------------------- MODULE MCSubnetMath ----------------------------
(* SubnetMath on every subnet, gateway and pool size of a small address    *)
(* space.                                                                  *)
EXTENDS SubnetMath
=============================================================================
