\* A message of one conversation received by a session of another.
SPECIFICATION Spec
CONSTANTS
    alice = alice
    bob = bob
    Node <- MCNode
    Peer <- MCPeer
    Conv = {c, d}
    Hash = {h1, h2}
    Zero = Zero
    NoMsg = NoMsg
SYMMETRY HashSymmetry
INVARIANT ChainStaysInConversation
