SPECIFICATION Spec
CONSTANTS
  c1 = c1
  c2 = c2
  c3 = c3
  p1 = p1
  p2 = p2
  k1 = k1
  k2 = k2
  Nobody = Nobody
  Calls = {c1, c2, c3}
  Principals = {p1, p2}
  Quotes = {2}
  Fees = {0}
  Charges = {1}
  Budgets = {1}
  MaxSatsPerJob = 2
  MaxTotalSats = 4
  PrincipalMaxSatsPerJob = 2
  PrincipalMaxTotalSats = 4
  MockPinned = FALSE
  RecoveryOn = TRUE
  MaxCrashes = 0
  Candidates = {k1}
INVARIANTS
  SingleExecution
  PaidWithConsent
  BudgetPaysForCaptured
  ToldFreeIsFree
SYMMETRY Symmetric
CHECK_DEADLOCK FALSE
