CONSTANTS
  Ttls = {2}
  VTta = 1
  EchoMod = 1
  QLen = 2
  Subscriptions = 1
  Brownouts = {FALSE}
  HasBroker = FALSE
  ForeignCommands <- NoForeign
  Sources = {"calendar", "button", "acs"}
  MaxCommands = 2
  MaxOutages = 0
  MaxFailures = 0
  MaxRestarts = 0
SPECIFICATION Spec
PROPERTIES TtlTurnsOff CountdownStops
