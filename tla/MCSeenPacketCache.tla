-------------------------- MODULE MCSeenPacketCache --------------------------
(* TLC instance of SeenPacketCache.  The signatures are interchangeable. *)
EXTENDS SeenPacketCache, TLC

CONSTANTS s1, s2, s3, s4

MCSignatures == {s1, s2, s3, s4}
Symmetry == Permutations(MCSignatures)
==============================================================================
