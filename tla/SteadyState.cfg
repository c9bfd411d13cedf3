SPECIFICATION Spec
CONSTANTS
  s1 = s1
  s2 = s2
  p1 = p1
  p2 = p2
  Specs = {s1, s2}
  NoSpec = NoSpec
  Pods = {p1, p2}
  Down = Down
  Disturbances = {"callError", "reloadError", "restart", "restartEarly", "podsLag"}
  MaxEdits = 1
  MaxFaults = 2
INVARIANTS
  TypeOK
  NoMissedReload
PROPERTIES
  ConfigReloaded
  OperandsRepaired
  ComesToRest
  RestIsStable
  SyncGoesOn
