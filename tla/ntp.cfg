CONSTANTS
  Servers = {a, b, c}
  Numeric = {c}
  None = none
  Interval = 1
  Retry = 1
  MaxLookups = 1
  MaxEvents = 2
SPECIFICATION MCSpec
INVARIANTS TypeOK AddressOfServer ResolvingIsAnswered
PROPERTIES ClockRight SyncsAgain
