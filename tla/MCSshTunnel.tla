---------------------------- MODULE MCSshTunnel ----------------------------
(* Instances of SshTunnel for TLC: small sets of interchangeable names. *)
EXTENDS SshTunnel, TLC

Symmetry == Permutations(Tunnels) \cup Permutations(Conns) \cup Permutations(Stoppers)
=============================================================================
