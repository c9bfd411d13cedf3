SPECIFICATION Spec
CONSTANTS
  Resources = {"additional-scrape-configs",
    "prometheus-operator",
    "alertmanager-route",
    "alertmanager-service-account",
    "grafana-operator",
    "grafana-datasource"}
  PhaseScript <- ReducedScript
  Absent = Absent
  Missing = Missing
  Removable = TRUE
  Deletable = {}
  MaxCRs = 1
  MaxEdits = 1
  MaxFaults = 1
INVARIANT TypeOK
INVARIANT HeldWhenInstalled
INVARIANT NeverForgotten
INVARIANT NothingEscapesCollection
PROPERTY NoSetback
PROPERTY CleanupNotSkipped
PROPERTY ImplementsLifecycle
PROPERTY DeletionCompletes
PROPERTY OwnedCollected
CHECK_DEADLOCK FALSE
