SPECIFICATION Spec
CONSTANTS
  Relays = 1
  MaxMisses = 2
  Interval = 1
  Patience = 2
  UsesVpn = TRUE
  MaxRefusals = 1
  MaxEvents = 2
INVARIANT TypeOK
PROPERTIES LiveBrokerKept Recovers StaysDown
