SPECIFICATION Spec
CONSTANTS
  Resources = {r1, r2, r3}
  Malformed = {}
  Polls = {a, b}
  PAGE_SIZE = 1
  COMPLETE_SHARE = 50
  RETIRE_AFTER = 3
  MaxPass = 4
  MaxChanges = 3
  MaxCrashes = 0
INVARIANT ListedNotMissing
CHECK_DEADLOCK FALSE
