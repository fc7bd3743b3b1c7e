--------------------------- MODULE MCRemoteSessions ---------------------------
(* TLC instance of RemoteSessions: three nodes for tables of two places. *)
EXTENDS RemoteSessions, TLC

CONSTANTS k1, k2, k3

MCKeys == {k1, k2, k3}
MCTimestamps == 1 .. 2
MCDefaultAcl == [key \in MCKeys |-> "unset"]
Symmetry == Permutations(MCKeys)
==============================================================================
