\* The peer may stop answering without closing the connection.
SPECIFICATION PeerMayStallSpec
CONSTANTS
    alice = alice
    bob = bob
    Node <- MCNode
    Peer <- MCPeer
    Conv = {c}
    Hash = {h1, h2}
    Zero = Zero
    NoMsg = NoMsg
PROPERTY DeadlineEndsSession
