SPECIFICATION Spec
CONSTANTS
  None = None
  NRules = 2
  Relays = {1}
  Timers = {1}
  Slots <- MCSlots
  Locals <- MCLocals
  Values = {0, 1}
  Zero = 0
  FirstRules <- MCFirstRules
  FirstTimers <- MCTimers
  RuleForms <- MCRuleForms
  TimerForms <- MCTimerForms
  SlotForms <- MCSlotForms
  Nows <- MCNows
  MaxHold = 1
  MaxCooldown = 4
  MaxStep = 1
  MaxEvents = 2
INVARIANTS TypeOK CacheFollowsFile SuspendedStaysOff FiredAgrees
PROPERTIES CooldownKept RuleActs
