CONSTANTS
  Ttls = {0, 1, 2}
  VTta = 1
  EchoMod = 2
  QLen = 1
  Subscriptions = 1
  Brownouts = {FALSE}
  HasBroker = TRUE
  ForeignCommands <- NoForeign
  Sources = {}
  MaxCommands = 2
  MaxOutages = 0
  MaxFailures = 0
  MaxRestarts = 0
SPECIFICATION Spec
PROPERTIES CountdownStops
