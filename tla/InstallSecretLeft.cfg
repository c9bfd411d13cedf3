SPECIFICATION Spec
CONSTANTS
  Resources = {"additional-scrape-configs",
    "prometheus-operator",
    "grafana-operator",
    "grafana-datasource"}
  PhaseScript <- ReducedScript
  Absent = Absent
  Missing = Missing
  Removable = TRUE
  Deletable = {}
  MaxCRs = 1
  MaxEdits = 1
  MaxFaults = 0
PROPERTY SecretCollected
CHECK_DEADLOCK FALSE
