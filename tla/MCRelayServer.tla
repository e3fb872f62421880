--------------------------- MODULE MCRelayServer ---------------------------
(* Instances of RelayServer for TLC: agents, viewers and joins that compete
   for one or two devices and one pending-dial slot. *)
EXTENDS RelayServer, TLC

Symmetry ==
  Permutations(Controls) \cup Permutations(Viewers) \cup Permutations(Joiners)
    \cup Permutations(Devices) \cup Permutations(Tokens)
=============================================================================
