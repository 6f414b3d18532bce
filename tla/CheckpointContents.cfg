CONSTANTS
    None = None
    Lists = {l1, l2}
    Queries <- MCQueries
    Bits = {1, 2}
    StandardBit = 1
    ReinforcedBit = 2
    Imports <- MCImports
    BadDomains <- MCBadDomains
    Requests <- MCRequests
    LegacyInfos <- MCLegacyInfos
    Starts <- MCStarts
    Sessions = {s1, s2}
    Main = Main
    Bounds <- CommandsOnly
SPECIFICATION Spec
INVARIANT CheckpointHasContents
