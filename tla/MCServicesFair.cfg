SPECIFICATION ServicesFairSpec
CONSTANTS
  a1 = a1
  a2 = a2
  b1 = b1
  Rows = {a1, a2, b1}
  Url <- MCUrl
  Host <- MCHost
  Tier0 = {a1}
  CONCURRENCY = 1
  DOWN_AFTER = 1
  MinChecks = 2
  Contested = {a2}
  AdminDuringSweep = FALSE
  MaxTroubles = 1
  Reads = {s1, s2}
  Texts = {t1, t2}
  CIRCUIT_OPEN_THRESHOLD = 2
  QUERY_CACHE_MAX = 1
  MaxOutages = 2
  Hooks = {h1}
  Events = {added, removed}
  Subscribed <- MCSubscribed
  MAX_FAILURES = 3
  MayCrash = FALSE
  Slots = {d1, d2, d3}
  MaxCount = 3
  Requests = {q1, q2, q3}
  NoGate = NoGate
  ENTER = 3
  EXIT = 2
  LARGE_EXIT = 3
  EXIT_HOURS = 2
  LARGE_EXIT_HOURS = 3
  FLAP_WINDOW = 5
  MIN_GAP = 1
  MaxAge = 6
  MaxOps = 2
  OpsDuringRun = FALSE
PROPERTIES
  EntryHasEvidence ExitHasEvidence FlapIsHeld PayingHostReturns
  RowsChecked CircuitHeals DeadHookDropped ServedInTurn
CHECK_DEADLOCK FALSE
