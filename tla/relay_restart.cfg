CONSTANTS
  Ttls = {0}
  VTta = 1
  EchoMod = 2
  QLen = 1
  Subscriptions = 1
  Brownouts = {TRUE}
  HasBroker = TRUE
  ForeignCommands <- RetainedOn
  Sources = {"input"}
  MaxCommands = 2
  MaxOutages = 1
  MaxFailures = 1
  MaxRestarts = 1
SPECIFICATION Spec
INVARIANTS BrownoutStaysOff CountedRightAgreed
