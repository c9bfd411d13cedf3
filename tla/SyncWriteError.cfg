SPECIFICATION Spec
CONSTANTS
  a = a
  t1 = t1
  t2 = t2
  s1 = s1
  Names = {a}
  TargetLists = {t1, t2}
  Specs = {s1}
  Extras = {}
  NoEntry = NoEntry
  NoExtra = NoExtra
  NoCopy = NoCopy
  WatchOn = FALSE
  Disturbances = {"writeError"}
  MaxChanges = 2
  MaxEdits = 0
  MaxFaults = 1
PROPERTIES
  SecretConverges
