SPECIFICATION Spec
CONSTANTS
  tcp = tcp
  udp = udp
  c1 = c1
  c2 = c2
  t1 = t1
  t2 = t2
  Open = Open
  Uids = {1}
  Templates <- MCTemplates
  Payloads <- MCPayloads
  Keys <- MCKeys
  MinPriority = 0
  AddrBytes = 2
  ByteBits = 2
  HardMaxRulesTotal = 3
  HardMaxSubtablesPerUid = 3
  HardMaxRangeRulesPerBucket = 1
  Files <- NewBlocked
  Flows <- MCFlows
  FamilyOf <- MCFamilyOf
  ProtoOf <- MCProtoOf
  ShardOf <- MCShardOf
  Packets <- MCPackets
  MaxEntries = 1
  Threads = {t1, t2}
  FlowKey <- MCFlowKey
  TeleCap = 1
  Arrivals <- SynOnly
  BusyFiles <- NewBlocked
  MaxPackets = 2
  MaxCommands = 0

INVARIANT TelemetryNeutral
SYMMETRY MCSymmetry
CHECK_DEADLOCK FALSE
