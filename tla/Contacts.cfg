\* Two commands at a time over two fingerprints and two aliases, one of which
\* spells a fingerprint.
SPECIFICATION Spec
CONSTANTS
    Process = {p1, p2}
    Fingerprint = {f1, f2}
    Alias = {a1, f1}
    NoContact = NoContact
    Nobody = Nobody
SYMMETRY ProcessSymmetry
INVARIANTS
    TypeOK
    AliasNamesOne
    PresentIsTrue
    ChatPeerStaysApproved
    OnboardTrustsVerified
PROPERTY TrustIsKept
