--------------------------- MODULE MCChatSession ---------------------------
(* Two peers, alice and bob, for TLC. *)
EXTENDS ChatSessionInvariant, TLC

CONSTANTS alice, bob

MCNode == {alice, bob}
MCPeer == (alice :> bob) @@ (bob :> alice)

\* Message hashes are interchangeable. The two nodes are not permuted: Peer
\* names them.
HashSymmetry == Permutations(Hash)
=============================================================================
