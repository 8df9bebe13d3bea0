\* Scheduled processes: deadlines hold, and the sessions implement Delivery.
SPECIFICATION FairSpec
CONSTANTS
    alice = alice
    bob = bob
    Node <- MCNode
    Peer <- MCPeer
    Conv = {c}
    Hash = {h1, h2}
    Zero = Zero
    NoMsg = NoMsg
PROPERTIES
    DeadlineEndsSession
    ImplementsDelivery
