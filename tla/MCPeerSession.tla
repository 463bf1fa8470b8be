--------------------------- MODULE MCPeerSession ---------------------------
(* Instances of PeerSession.  Connections are interchangeable, so the      *)
(* safety runs may identify states that differ by a permutation of them.   *)
EXTENDS PeerSession, TLC

ConnSymmetry == Permutations(Conns)
=============================================================================
