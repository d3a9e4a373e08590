SPECIFICATION Spec
CONSTANTS
  f1 = f1
  f2 = f2
  t1 = t1
  t2 = t2
  i1 = i1
  i2 = i2
  j1 = j1
  j2 = j2
  x = x
  y = y
  r1 = r1
  r2 = r2
  Null = Null
  Pairs <- ThreePairs
  Hashes = {x, y}
  TxId <- SameTxId
  Asks <- MixedHashes
  Requests = {r1, r2}
  MaxDeliveries = 1
  Faulty = {r1}
  FaultyDeliveries = {1}
  MayCrash = TRUE
  Revocable = {t1}
CHECK_DEADLOCK FALSE
INVARIANTS
  AcceptedFindsItsRow
  TypeOK
  RecordedIsAccepted
  CompletedWasAccepted
  MixedUpByCollisionOnly
  CredentialGoesToPartner
  AnsweredMeansStarted
PROPERTIES
  ImplementsCredit
