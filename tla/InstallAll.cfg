SPECIFICATION Spec
CONSTANTS
  Resources = {"additional-scrape-configs",
    "prometheus-operator-service-account",
    "prometheus-operator",
    "prometheus-proxy-secret",
    "blackbox-exporter-config",
    "prometheus-route",
    "prometheus-service-account",
    "prometheus-service",
    "prometheus",
    "alertmanager-route",
    "alertmanager-service-account",
    "alertmanager-service",
    "alertmanager-secret",
    "alertmanager-proxy-secret",
    "alertmanager",
    "prometheus-servicemonitor",
    "grafana-servicemonitor",
    "prometheus-rule",
    "grafana-proxy-secret",
    "grafana-operator-service-account",
    "grafana-operator-role",
    "grafana-operator-role-binding",
    "grafana-operator",
    "grafana-datasource",
    "grafana"}
  PhaseScript <- InstallScript
  Absent = Absent
  Missing = Missing
  Removable = FALSE
  Deletable = {"alertmanager-service-account", "prometheus-service-account"}
  MaxCRs = 1
  MaxEdits = 2
  MaxFaults = 1
INVARIANT InstalledBeforeAdvance
PROPERTY InstallCompletes
PROPERTY AccountsHealed
