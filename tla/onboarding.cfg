SPECIFICATION FairSpec
CONSTANTS
  bank = bank
  citizen = citizen
  c1 = c1
  c2 = c2
  Null = Null
  Profiles <- MCProfiles
  Parties = {bank, citizen}
  Side <- MCSide
  Calls = {c1, c2}
  Faulty = {c1}
  SetupFails = TRUE
  MayCrash = TRUE
CHECK_DEADLOCK FALSE
INVARIANTS
  ScriptsFindTheirNeeds
  ToldCanPair
PROPERTIES
  RegistrationIsAnswered
