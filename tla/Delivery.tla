------------------------------ MODULE Delivery ------------------------------
(***************************************************************************)
(* What the acknowledged transport promises, whatever happens to sessions  *)
(* and connections: a message is accepted at most once, and only by its    *)
(* destination; its sender confirms it only after that; and it follows a   *)
(* message its sender has received or had confirmed, or none.              *)
(***************************************************************************)
EXTENDS FiniteSets

CONSTANTS Node, Peer, Conv, Hash, Zero

VARIABLES
    composed,   \* messages written to a connection
    accepted,   \* messages a destination accepted
    confirmed   \* messages whose ACK the sender recorded

Message == [hash : Hash, src : Node, conv : Conv, prev : Hash \cup {Zero}]

Init == composed = {} /\ accepted = {} /\ confirmed = {}

\* The messages n has seen both ends agree on.
AgreedBy(n) == {m \in confirmed : m.src = n} \cup {m \in accepted : m.src = Peer[n]}

Compose(m) ==
    /\ \A k \in composed : k.hash # m.hash
    /\ m.prev = Zero \/ \E k \in AgreedBy(m.src) : k.hash = m.prev
    /\ composed' = composed \cup {m}
    /\ UNCHANGED <<accepted, confirmed>>

Accept(m) ==
    /\ m \in composed \ accepted
    /\ accepted' = accepted \cup {m}
    /\ UNCHANGED <<composed, confirmed>>

Confirm(m) ==
    /\ m \in accepted \ confirmed
    /\ confirmed' = confirmed \cup {m}
    /\ UNCHANGED <<composed, accepted>>

Next == \E m \in Message : Compose(m) \/ Accept(m) \/ Confirm(m)

Spec == Init /\ [][Next]_<<composed, accepted, confirmed>>
=============================================================================
