----------------------------- MODULE MCOneShot -----------------------------
(* Commands of two nodes, for TLC. alice has the keys of both and may send to *)
(* herself, so a message for bob may reach her own receive, and her own       *)
(* message one that waits for bob.                                            *)
EXTENDS OneShot, TLC

CONSTANTS alice, bob, a1, a2, b1, b2

MCNode == {alice, bob}
MCPeer == (alice :> {alice, bob}) @@ (bob :> {alice})
MCOwner == (a1 :> alice) @@ (a2 :> alice) @@ (b1 :> bob) @@ (b2 :> bob)

\* The commands of a node are interchangeable, and so are the hashes.
Interchangeable ==
    {f @@ g @@ h : f \in Permutations({a1, a2}), g \in Permutations({b1, b2}),
                   h \in Permutations(Hash)}
=============================================================================
