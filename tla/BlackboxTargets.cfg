SPECIFICATION Spec
CONSTANTS
  a = a
  b = b
  t1 = t1
  t2 = t2
  f = f
  Names = {a, b}
  TargetLists = {t1, t2}
  ForeignFinalizers = {f}
  Holdable = {b}
  Absent = Absent
  NoEntry = NoEntry
  MaxEdits = 3
  MaxCrashes = 1
INVARIANTS
  TypeOK
  NoOrphanTargets
  NothingForgotten
PROPERTIES
  NoLostUpdate
  DeletionCompletes
  RegistryConverges
  ImplementsRegistry
  RestIsStable
