\* Two keygens, two requests at a time to one key-serve that comes and goes.
SPECIFICATION FairSpec
CHECK_DEADLOCK FALSE
CONSTANTS
    Key = {k1, k2}
    Path = {p1, p2, p3, p4}
    Address = {a1}
    Requester = {r1, r2}
    Absent = Absent
    Empty = Empty
    Nothing = Nothing
INVARIANTS
    TypeOK
    StoredHasSecret
    PrintedKeyIsOnDisk
PROPERTIES
    RequestEnds
