SPECIFICATION Spec
CONSTANTS
  s1 = s1
  p1 = p1
  p2 = p2
  p3 = p3
  Specs = {s1}
  NoSpec = NoSpec
  Pods = {p1, p2, p3}
  Down = Down
  Disturbances = {}
  MaxEdits = 0
  MaxFaults = 0
PROPERTIES
  ConfigLoaded
