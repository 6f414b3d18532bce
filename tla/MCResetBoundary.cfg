CONSTANTS
    Packets = {p}
    Dns = {d}
    Controls = {c1, c2}
    Mains = {m}
    Uids = {u}
    Addresses = {a}
    MaxResets = 1
    MaxChanges = 1
    p = p
    d = d
    c1 = c1
    c2 = c2
    m = m
SPECIFICATION MCFairSpec
INVARIANTS CleanBaseline VerdictsUseOneEpoch SaveTreeClean FinalSaveComplete
PROPERTIES CommandsEnd PacketAnswered
