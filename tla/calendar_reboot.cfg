CONSTANTS
  Relays = {1, 2}
  Timers <- TwoTimers
  Day = 13
  MaxSkip = 2
  MaxEvents = 1
SPECIFICATION Spec
INVARIANTS ReleasedAfterReboot
