\* The observer, another node and one whose nickname is too long.
SPECIFICATION FairSpec
CONSTANTS
    self = self
    other = other
    long = long
    Node <- MCNode
    Self <- MCSelf
    LongNick <- MCLongNick
    Addr = {a, b}
    Key = {k1, k2}
    NoKey = NoKey
    Off = Off
    NoEntry = NoEntry
    Capacity = 2
    MaxDuplicates = 1
INVARIANTS
    TypeOK
    RekeysLeadToCurrent
    LongNickIsNeverSeen
PROPERTIES
    KeyIsKept
    AddressSettles
