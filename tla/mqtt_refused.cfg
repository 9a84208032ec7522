SPECIFICATION Spec
CONSTANTS
  Relays = 1
  MaxMisses = 5
  Interval = 1
  Patience = 2
  UsesVpn = FALSE
  MaxRefusals = 4
  MaxEvents = 0
PROPERTIES RefusalsAddNoMiss
