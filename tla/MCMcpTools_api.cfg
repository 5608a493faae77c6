\* Limits of one, two for the other spelling; three keys for two consumers, one of them an
\* admin or both.
CONSTANTS
  FailureLimit = 1
  Window = 2
  LockoutTime = 2
  Consumers = {c1, c2}
  Keys = {k1, k2, k3}
  Ips = {mcp, lan}
  McpIp = mcp
  Plain = plain
  Encoded = encoded
  Spellings = {plain, encoded}
  Urls <- FewUrls
  Requests = {r1, r2}
  s1 = s1
  s2 = s2
  Secrets = {s1, s2}
  Reports = {"list"}
  RateLimit <- SmallLimits
  RateWindow = 2
  Toggles <- AllToggles
  MinSeverity = 3
  AlertMax = 1
  AlertWindow = 1
  Admin = c1
  Grants <- NoneOrAll
  Expiries <- Soon
  MaxTime = 2
  MaxCalls = 3
  MaxChanges = 3
  MaxEvents = 4
SYMMETRY Symmetry
SPECIFICATION McpSpec
INVARIANTS
  TypeOK
  RequestsPerWindow
  AlertsPerWindow
PROPERTIES
  ValuesGuarded
  LockoutEarned
\* The calls and the clock are bounded.
CHECK_DEADLOCK FALSE
