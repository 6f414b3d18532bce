SPECIFICATION Spec
CONSTANTS
  a = a
  d = d
  p = p
  q = q
  bad = bad
  Apps = {a}
  Device = Device
  Domains = {d}
  Patterns = {p, q, bad}
  ValidPatterns = {p, q}
  Matches <- MCMatches
  RulesPayloads <- MCRulesPayloads
  PolicyPayloads <- MCPolicyPayloads
  MaxRuleId = 1
  RuleIdModulus = 16
  MaxObjects = 3
  RulesFiles <- MCRulesFiles
  MaxSaved = 1
  MaxVNext = 1
  MaxLegacy = 1
  NoId = NoId
INVARIANTS
  AppReferencesRegistered
  AppSnapshotsFresh
  NextIdUnused
  DecisionsAgree
  ApplyInstalls
CHECK_DEADLOCK FALSE
