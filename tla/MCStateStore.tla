---------------------------- MODULE MCStateStore ----------------------------
(* Instance of StateStore for TLC: two VMs, two record bodies, one label,   *)
(* three generations.                                                       *)
EXTENDS StateStore, TLC

CONSTANTS vm1, vm2, b1, b2

MCIds == {vm1, vm2}
MCBodies == {b1, b2}
\* The bodies are interchangeable, and so are the VMs.
MCSymmetry == Permutations(MCIds) \cup Permutations(MCBodies)
=============================================================================
