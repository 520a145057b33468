--------------------------- MODULE MCMobilePairing ---------------------------
(* MobilePairing with two tabs and two pairings, which are alike. *)
EXTENDS MobilePairing, TLC

Symmetry == Permutations(Tab) \cup Permutations(Pairing) \cup Permutations(Operation)
==============================================================================
