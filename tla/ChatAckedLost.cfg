\* A session that stops while messages wait in its channel.
SPECIFICATION Spec
CONSTANTS
    alice = alice
    bob = bob
    Node <- MCNode
    Peer <- MCPeer
    Conv = {c}
    Hash = {h1, h2}
    Zero = Zero
    NoMsg = NoMsg
SYMMETRY HashSymmetry
PROPERTY AckedIsStoredAtDeadline
