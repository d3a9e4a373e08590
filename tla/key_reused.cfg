SPECIFICATION Spec
CONSTANTS
  f1 = f1
  f2 = f2
  t1 = t1
  t2 = t2
  h1 = h1
  h2 = h2
  h3 = h3
  h4 = h4
  r1 = r1
  r2 = r2
  r3 = r3
  r4 = r4
  k1 = k1
  k2 = k2
  Null = Null
  Undefined = Undefined
  Serial = TRUE
  Requests = {r1, r2, r3}
  Faulty = {}
  MayCrash = FALSE
  Ops = {"fsp","tro"}
  Keys = {k1}
  Conns = {f1, t1, t2}
  Holders <- MCHolders
  Hash <- MCHash
CHECK_DEADLOCK FALSE
INVARIANT NoOtherActorSameKey
