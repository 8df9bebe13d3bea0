\* Every conversation of up to five messages in every fallback order, and those
\* of up to two with a reply while a message is stored elsewhere too.
SPECIFICATION Spec
CONSTANTS
    Hash = {h1, h2, h3, h4, h5}
    Missing = Missing
    Zero = Zero
    Broken = Broken
    MaxMessages = 5
    MaxReplies = 1
    NoReply = NoReply
    NoListing = NoListing
SYMMETRY HashSymmetry
INVARIANTS
    HistoryFollowsChain
    SegmentsInFallbackOrder
    RefusedIffAmbiguous
    StrictIsOneSegment
    VerdictsHold
PROPERTIES
    RefusedForever
    LateMessageMovesWhatFollows
CHECK_DEADLOCK FALSE
