\* A reply within one session.
SPECIFICATION Spec
CONSTANTS
    alice = alice
    bob = bob
    Node <- MCNode
    Peer <- MCPeer
    Conv = {c}
    Hash = {h1, h2}
    Zero = Zero
    NoMsg = NoMsg
SYMMETRY HashSymmetry
PROPERTY ReplyToLatestIsAccepted
