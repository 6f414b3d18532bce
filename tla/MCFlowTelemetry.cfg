SPECIFICATION FairSpec
CONSTANTS
    Producers = {p1, p2}
    Runner = p1
    Keys = {k1, k2}
    NoKey = NoKey
    None = None
    SlotCount = 2
    MaxTicket = 5
    MaxSession = 2
    MaxDrop = 1
INVARIANTS SessionPinned SlotOwnership CommittedIntact CountersAccount
PROPERTIES ExportCompletes ImplementsBoard PreemptedCloseHarmless
