CONSTANTS
  Ttls = {0}
  VTta = 1
  EchoMod = 4
  QLen = 1
  Subscriptions = 2
  Brownouts = {FALSE}
  HasBroker = TRUE
  ForeignCommands <- ForeignToggle
  Sources = {"http", "input"}
  MaxCommands = 2
  MaxOutages = 0
  MaxFailures = 0
  MaxRestarts = 0
SPECIFICATION Spec
INVARIANTS TypeOK CountedRightAgreed
PROPERTIES EchoesDieOut
