SPECIFICATION FairSpec
CONSTANTS
    Threads = {t1, t2}
    reader = t2
    Entries = {1, 2, 3}
    Nil = Nil
    Nobody = Nobody
    MaxSlots = 2
INVARIANTS
    NoUseAfterFree
    GateExcludesReaders
    OneHome
    RetiredUnreachable
PROPERTY
    GateReopens
