SPECIFICATION Spec
CONSTANTS
  n1 = n1
  n2 = n2
  Settings = {n1, n2}
  Off = Off
  Ids = {1, 2, 3, 4}
  None = None
  Torn = Torn
  MaxCRs = 3
  MaxEdits = 1
  MaxFaults = 1
INVARIANTS
  TypeOK
  WatchersBounded
PROPERTIES
  DeadOnlyByEarlyEnd
  WatchRenewed
  DeletionNotBlocked
CHECK_DEADLOCK FALSE
