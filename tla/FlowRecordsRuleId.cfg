SPECIFICATION Spec
CONSTANTS
    Threads = {a, b}
    Inbound = {a}
    Nobody = Nobody
    Decisions <- MCDecisions
    BlockReasons <- MCBlockReasons
    PacketsThreshold = 1
    MaxExportInterval = 1
    BlockTtl = 1
    Timeout = 2
    MaxTs = 2
    MaxPackets = 2
    MaxSession = 2
INVARIANT
    IfaceBlockHasNoRuleId
CHECK_DEADLOCK FALSE
