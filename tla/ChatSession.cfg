\* Two peers, one conversation, four messages; crashes and losses at any point.
SPECIFICATION Spec
CONSTANTS
    alice = alice
    bob = bob
    Node <- MCNode
    Peer <- MCPeer
    Conv = {c}
    Hash = {h1, h2, h3, h4}
    Zero = Zero
    NoMsg = NoMsg
SYMMETRY HashSymmetry
INVARIANTS
    TypeOK
    AckedWasAccepted
    StoredOwnIsAcked
    ReceivedInOrder
    NoGaps
    SameSenderNeverForks
