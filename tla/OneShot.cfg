\* Four commands at two nodes, two messages, clocks that differ.
SPECIFICATION Spec
CONSTANTS
    alice = alice
    bob = bob
    a1 = a1
    a2 = a2
    b1 = b1
    b2 = b2
    Node <- MCNode
    Peer <- MCPeer
    Process = {a1, a2, b1, b2}
    Owner <- MCOwner
    Conv = {c}
    Hash = {h1, h2}
    Zero = Zero
    Time = {1, 2}
    NoMsg = NoMsg
    NoProcess = NoProcess
    Nobody = Nobody
    NoRow = NoRow
SYMMETRY Interchangeable
INVARIANTS
    TypeOK
    DeliveredIsTrue
    TimeOutAcknowledgesNothing
    ReceivesTheFirst
    ConversationCovers
    WaitingSendIsHeld
CHECK_DEADLOCK FALSE
