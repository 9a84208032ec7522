CONSTANTS
  Configs = {"off", "plain", "checked"}
  Enabled = {"plain", "checked"}
  Checked = {"checked"}
  Default = "off"
  Torn = "torn"
  Threshold = 2
  Scenarios <- MCScenarios
SPECIFICATION Spec
INVARIANTS TypeOK SavedIsApplied NothingLeftBehind
PROPERTIES LiveTunnelKept MqttByItsRoute TunnelComesBack
