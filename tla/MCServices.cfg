SPECIFICATION ServicesSpec
CONSTANTS
  a1 = a1
  a2 = a2
  b1 = b1
  Rows = {a1, a2, b1}
  Url <- MCUrl
  Host <- MCHost
  Tier0 = {a1}
  CONCURRENCY = 2
  DOWN_AFTER = 2
  MinChecks = 2
  Contested = {a2, b1}
  AdminDuringSweep = FALSE
  MaxTroubles = 1
  h1 = h1
  added = added
  removed = removed
  Hooks = {h1, h2}
  Events = {added, removed}
  Subscribed <- MCSubscribed
  MAX_FAILURES = 3
  MayCrash = TRUE
  Slots = {s1, s2, s3}
  MaxCount = 3
  Terms = {t1, t2}
  DayTicks = 2
  RetentionTicks = 1
  ChunkRows = 1
  MaxChunks = 2
  MaxRows = 3
  MaxClock = 3
  OldRows = {o1, o2}
  OldClaims = {c1, c2}
  MaxCuts = 2
  Sessions = {z1, z2}
  Visits = {v1, v2}
  Agents = {a}
  Calls = {k1, k2}
  None = None
  HISTORICAL_DATA <- MCData
  Today = 5
  LastDay = 6
  Counts <- MCCounts
  NULL = NULL
  Listing <- MCListing
  Provider = Unset
  Unset = Unset
  Workers = {w1, w2}
  MAX_REQUESTS_PER_ENDPOINT = 30
  WellKnownPaths <- MCWellKnown
  CommonPaths <- MCCommon
  MaxTimeouts = 1
INVARIANTS
  ServicesTypeOK StreakMatchesLog DeactivationEarned
  SummaryIsExact BootCatchesUp BackfillSettles ShownTokenPays DiscoveryFixes
PROPERTY SweepCovers
CHECK_DEADLOCK FALSE
