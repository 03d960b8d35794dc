---------------------------- MODULE MCGuestFence ----------------------------
(* Instance of GuestFence for TLC.                                         *)
EXTENDS GuestFence, TLC

Symmetry == Permutations(Channels) \cup Permutations(Keys)
              \cup Permutations(Digests)
=============================================================================
