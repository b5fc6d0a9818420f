------------------------------ MODULE MCBleLink ------------------------------
(* Instances of BleLink for TLC: the .cfg files Link*.cfg. *)
EXTENDS BleLink, TLC

CONSTANTS phone1, phone2, none

MCPeers == {phone1, phone2}
MCSymmetry == Permutations(MCPeers)

==============================================================================
