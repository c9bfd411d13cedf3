SPECIFICATION Spec
CONSTANTS
  a = a
  t1 = t1
  s1 = s1
  s2 = s2
  x1 = x1
  Names = {a}
  TargetLists = {t1}
  Specs = {s1, s2}
  Extras = {x1}
  NoEntry = NoEntry
  NoExtra = NoExtra
  NoCopy = NoCopy
  WatchOn = TRUE
  Disturbances = {"overlap", "race", "callError", "writeError", "restart", "restartEarly"}
  MaxChanges = 2
  MaxEdits = 1
  MaxFaults = 1
INVARIANTS
  HashHonest
PROPERTIES
  NoLostSpec
  WatchRepairs
