CONSTANTS
  Relays = {1, 2}
  Timers <- TwoTimers
  Day = 13
  MaxSkip = 2
  MaxEvents = 2
SPECIFICATION Spec
INVARIANTS TypeOK ReleasedWhenIdle
PROPERTIES OffRespected FollowsCalendar
