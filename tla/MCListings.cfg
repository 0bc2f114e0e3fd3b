SPECIFICATION ListingsSpec
CONSTANTS
  Resources = {r1, r2, r3, r4}
  Malformed = {r4}
  Polls = {a}
  PAGE_SIZE = 1
  COMPLETE_SHARE = 50
  RETIRE_AFTER = 3
  MaxPass = 4
  MaxChanges = 2
  MaxCrashes = 1
  u1 = u1
  Keys <- MCKeys
  Catalogs = {"mpp", "mppscan", "l402apps", "l402directory", "sponge", "satring", "exclusive"}
  UnverifiedLimit = 1
  VerifiedLimit = 2
  HeadAnswers <- MCHeadAnswers
  GetAnswers <- MCGetAnswers
  PostAnswers <- MCPostAnswers
  Methods = {"GET", "POST", "PUT"}
  Unsaid = Unsaid
  Ids = {i1, i2, i3}
  Lit = {i1, i2}
  MAX_CONCURRENT = 1
  MAX_PENDING = 1
  K = 2
  LikeCap = 1
INVARIANTS
  ListingsTypeOK DomainWindow SweptIsUnlisted StoredConfigAnswers
  SlotsCounted TotalCountsOnce
PROPERTIES RetiresExactly NothingSkipped
CHECK_DEADLOCK FALSE
