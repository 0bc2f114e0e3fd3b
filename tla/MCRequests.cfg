SPECIFICATION RequestsSpec
CONSTANTS
  Services = {s1}
  Requests = {v1, v2}
  MaxTokens = 2
  Clients = {u1}
  MaxRequests = 3
  Gateway = "partner"
  L402_ENABLED = TRUE
  Limit <- MCLimit
  WindowMs <- MCWindow
  Duration = 1
  MaxNow = 2
  Nobody = Nobody
  x1 = x1
  x2 = x2
  y1 = y1
  ProbeUrls = {x1, x2, y1}
  HostName <- MCHostName
  Row <- MCRow
  Visitors = {d1}
  MaxCalls = 3
  Replies <- MCReplies
  CACHE_TTL = 2
  CACHE_MAX_AGE = 2
  CacheSize = 1
  RateWindow = 3
  PROBE_RATE_LIMIT_MAX = 2
  MaxTime = 3
  Unknown = Unknown
  k1 = k1
  k2 = k2
  k3 = k3
  k4 = k4
  IndexRows = {k1, k2, k3, k4}
  Compatible = {k1, k2, k3}
  Proven = {k4}
  CatalogSats <- MCCatalogSats
  Score <- MCScore
  Latency <- MCLatency
  RouteOrder <- MCRoutes
  AdapterList <- MCAdapters
  Pinned = Nil
  Challenges <- MCChallenges
  PageSize = 2
  MAX_DEAD_CANDIDATES = 3
  MaxPrice = 100
  MIN_CHARGE = 50
  CentsPer1000 = 100
  JobCap = 800
  DegradedAtStart <- MCDegraded
  MaxMoves = 1
  Nil = Nil
INVARIANTS
  DomainProven OwnerEditStands PaywallIsHonest ReportIsFresh PreparedIsBest
PROPERTY ClosedStaysClosed
SYMMETRY AlikeRequests
CHECK_DEADLOCK FALSE
