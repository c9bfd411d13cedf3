SPECIFICATION PipelineSpec
CONSTANTS
  a = a
  b = b
  t1 = t1
  t2 = t2
  s1 = s1
  x1 = x1
  Names = {a, b}
  TargetLists = {t1, t2}
  Specs = {s1}
  Extras = {x1}
  NoEntry = NoEntry
  NoExtra = NoExtra
  NoCopy = NoCopy
  WatchOn = TRUE
  Disturbances = {"callError", "restart"}
  MaxChanges = 2
  MaxEdits = 0
  MaxFaults = 1
INVARIANTS
  PipelineTypeOK
  HashHonest
PROPERTIES
  TargetsArrive
  WritesStop
  RestIsStable
