SPECIFICATION FairSpec
CONSTANTS
  f1 = f1
  f2 = f2
  t1 = t1
  t2 = t2
  i1 = i1
  i2 = i2
  j1 = j1
  j2 = j2
  r1 = r1
  r2 = r2
  Null = Null
  Pairs <- TwoBanks
  Requests = {r1}
  MaxNow = 1
  MaxLength = 2
  MaxDeliveries = 1
  Faulty = {r1}
  MayFault = FALSE
  MayCrash = TRUE
  MayRevoke = TRUE
CHECK_DEADLOCK FALSE
INVARIANTS
  TypeOK
  ItemsChainTheReport
  ReportFindsItsRow
  AnsweredMeansBothTold
PROPERTIES
  RevokedStopsReports
  ImplementsReports
  DisclosedIsRetrievable
