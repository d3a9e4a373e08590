SPECIFICATION Spec
CONSTANTS
  f1 = f1
  f2 = f2
  t1 = t1
  t2 = t2
  i1 = i1
  i2 = i2
  j1 = j1
  j2 = j2
  r1 = r1
  r2 = r2
  Null = Null
  Pairs <- TwoCitizens
  Requests = {r1, r2}
  MaxNow = 2
  MaxLength = 1
  MaxDeliveries = 1
  Faulty = {}
  MayFault = TRUE
  MayCrash = FALSE
  MayRevoke = FALSE
SYMMETRY MCSymmetry
CHECK_DEADLOCK FALSE
INVARIANTS
  ReportIsOfNamedTro
  ReportIsFresh
