SPECIFICATION NetworkFairSpec
CONSTANTS
  f1 = f1
  t1 = t1
  t2 = t2
  h1 = h1
  h2 = h2
  h3 = h3
  k1 = k1
  k2 = k2
  r1 = r1
  r2 = r2
  r3 = r3
  r4 = r4
  q1 = q1
  q2 = q2
  x = x
  Null = Null
  Undefined = Undefined
  Serial = TRUE
  Requests = {r1, r2, r3}
  Faulty = {}
  MayCrash = TRUE
  Ops = {"fsp", "tro"}
  Keys = {k1}
  Conns = {f1, t1, t2}
  Holders <- MCHolders
  Hash <- MCHash
  Hashes = {x}
  TxId <- SameTxId
  HashesOf <- MCHashesOf
  TxRequests = {q1}
  TxFaulty = {}
  MaxDeliveries = 1
  FaultyDeliveries = {1}
  Revocable = {t1}
CHECK_DEADLOCK FALSE
INVARIANTS
  RecordedBetweenPartners
  KnownIdsAreFound
PROPERTIES
  ImplementsTransactions
  AcceptedIsRecorded
  RevokedStopsTransactions
