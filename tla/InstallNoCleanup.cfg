SPECIFICATION Spec
CONSTANTS
  Resources = {"additional-scrape-configs",
    "prometheus-operator",
    "grafana-operator",
    "grafana-datasource"}
  PhaseScript <- ReducedScript
  Absent = Absent
  Missing = Missing
  Removable = TRUE
  Deletable = {}
  MaxCRs = 1
  MaxEdits = 0
  MaxFaults = 0
PROPERTY CleanupFinished
CHECK_DEADLOCK FALSE
