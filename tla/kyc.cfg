SPECIFICATION FairSpec
CONSTANTS
  c1 = c1
  c2 = c2
  noMatch = noMatch
  Null = Null
  Checks = {c1, c2}
  Local = FALSE
  MayCrash = TRUE
  MaxPosts = 2
  Codes = {noMatch}
CHECK_DEADLOCK FALSE
INVARIANTS
  TrackedAgreesWithReply
PROPERTIES
  ChecksAreAnswered
