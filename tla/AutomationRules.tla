-------------------------- MODULE AutomationRules --------------------------
(***************************************************************************)
(* The automation rules (AutomationRules.cpp) with what they read and      *)
(* drive: the values of sensors on other boards (RemoteSensorConfig.cpp),  *)
(* the time gate (TimerWindow), the relays' levels and write locks.        *)
(*                                                                         *)
(* Once a second the loop task evaluates each rule from a cache in memory. *)
(* The cache is filled from the rule's file by chronosInit(), on the loop  *)
(* task, and after every save, on the AsyncTCP task, in two steps: read    *)
(* the file, store what was read.  A rule whose sensor is gone is switched *)
(* off in its file by the loop task, which reads and rewrites the file.    *)
(*                                                                         *)
(* A value is a member of Values; a condition is its source and the values *)
(* its operator and thresholds accept, so that C0 alone, C0 AND C1 and C0  *)
(* OR C1 are a set of conditions and a quantifier.  Time is in seconds,    *)
(* kept as the age of what the code keeps the time of.  mdigitalWrite() is *)
(* one step: its interleavings are RelayDrive's.  A file changes when it   *)
(* is closed, for LittleFS commits it then.  While the slots are cleared   *)
(* for a saved sensor page, the loop may read each of them before, during  *)
(* or after that, see Reads.                                               *)
(***************************************************************************)
EXTENDS Integers, FiniteSets, TimerWindow

CONSTANTS
  None,            \* no file, not loaded, never: none of the values below
  NRules,          \* MAX_NUMBER_OF_AUTOMATION_RULES
  Relays,          \* numbers of the board's relays
  Timers,          \* numbers of the saved timers
  Slots,           \* the remote sensors: a topic each
  Locals,          \* sensors of the board itself, which always have a value
  Values, Zero,    \* what a sensor can read, and the value 0.0f
  FirstRules,      \* the rule files the board is delivered with
  FirstTimers,     \* and its timer files
  RuleForms,       \* what the rule page may be saved with: [rule, config]
  TimerForms,      \* what the timer page may be saved with: [timer, config]
  SlotForms,       \* which slots have a topic when the sensor page is saved
  Nows,            \* the moments at which rules are evaluated
  MaxHold,         \* the longest hold time: no need to tell ages apart
  MaxCooldown,     \* after it; and the longest cooldown
  MaxStep,         \* bound: seconds between two evaluations
  MaxEvents        \* bound: saved pages, writes by others, restarts

NoFile    == None
NotLoaded == None
Never     == None
Rules     == 1..NRules
Sources   == Slots \cup Locals
LOW       == "LOW"
HIGH      == "HIGH"
Levels    == {LOW, HIGH}
Not(v)    == IF v = HIGH THEN LOW ELSE HIGH
HoldAges  == 0..MaxHold
CoolAges  == 0..MaxCooldown

RuleConfigs ==
  [enabled : BOOLEAN, targetRelay : Nat, action : {"ON", "OFF", "TOGGLE"},
   logic : {"AND", "OR"},
   conditions : SUBSET [source : Sources, accepts : SUBSET Values],
   trigger : {"CHANGE", "PERIODIC"}, gate : Nat, hold : HoldAges,
   cooldown : CoolAges]

ASSUME RulesAssumption ==
  /\ NRules \in Nat \ {0}
  /\ Relays \subseteq Nat /\ Timers \subseteq Nat
  /\ Slots \cap Locals = {} /\ Zero \in Values
  /\ FirstRules \in [Rules -> RuleConfigs \cup {NoFile}]
  /\ FirstTimers \in [Timers -> TimerConfigs]
  /\ RuleForms \subseteq [rule : Rules, config : RuleConfigs]
  /\ TimerForms \subseteq [timer : Timers, config : TimerConfigs]
  /\ SlotForms \subseteq SUBSET Slots
  /\ Nows \subseteq Moments
  /\ MaxHold \in Nat /\ MaxCooldown \in Nat
  /\ MaxStep \in Nat \ {0} /\ MaxEvents \in Nat
  /\ None \notin RuleConfigs \cup TimerConfigs \cup Nat \cup Values
  /\ None \notin [timer : Timers, config : TimerConfigs]

VARIABLES
  ruleFile, timerFile, slotFile,    \* the files
  rules, timers,                    \* g_automationRuleCache, g_timerScheduleCache
  CalendarNotInitiated, timeSet,
  ruleState,                        \* per rule, see NoResult
  topic, seen, cachedValue,         \* remoteSensors[] and the board's sensors
  pin, lockupdate,                  \* of each relay
  lpc, at,                          \* where the loop task is, and with which rule
  local,                            \* the loop task's copy of a rule's file
  gate,                             \* and of a timer's
  request,                          \* what the AsyncTCP task is doing
  left,                             \* what is left of MaxEvents
  suspended,                        \* history: switched off, not saved since
  crossed,                          \* history: a save met the loop on the rule
  deed,                             \* history: its last command, see Deeds
  quiet                             \* history: seconds since its last command

files   == <<ruleFile, timerFile, slotFile>>
caches  == <<rules, timers, CalendarNotInitiated, timeSet>>
sensors == <<topic, seen, cachedValue>>
outputs == <<pin, lockupdate>>
looping == <<lpc, at, local, gate>>
history == <<suspended, crossed, deed, quiet>>
vars    == <<files, caches, ruleState, sensors, outputs, looping, request,
             left, history>>

(* A rule's state after a reset; lastFired is the age of lastFiredMs.      *)
NoResult == [hasResult |-> FALSE, lastResult |-> FALSE, fired |-> FALSE,
             since |-> 0, lastFired |-> Never]

(* A rule's last command and what became of it: dropped by mdigitalWrite(),*)
(* or driven, and overtaken when somebody else has written the relay since.*)
Deeds == [fate : {"driven", "dropped", "overtaken"},
          action : {"ON", "OFF", "TOGGLE"}, relay : Nat]

NoDeed == None

Idle == [pc |-> "idle", rule |-> 1, config |-> NoFile]

BootInit ==
  /\ rules = [r \in Rules |-> NotLoaded]
  /\ timers = [t \in Timers |-> NotLoaded]
  /\ CalendarNotInitiated = TRUE
  /\ timeSet = FALSE
  /\ ruleState = [r \in Rules |-> NoResult]
  /\ seen = [s \in Slots |-> FALSE]
  /\ cachedValue = [s \in Sources |-> Zero]
  /\ pin = [y \in Relays |-> LOW]
  /\ lockupdate = [y \in Relays |-> FALSE]
  /\ lpc = "calendar" /\ at = 1
  /\ local = NoFile
  /\ gate = None
  /\ request = Idle

Init ==
  /\ ruleFile = FirstRules
  /\ timerFile = FirstTimers
  /\ slotFile = Slots
  /\ topic = slotFile
  /\ BootInit
  /\ left = MaxEvents
  /\ suspended = [r \in Rules |-> FALSE]
  /\ crossed = [r \in Rules |-> FALSE]
  /\ deed = [r \in Rules |-> NoDeed]
  /\ quiet = [r \in Rules |-> Never]

-----------------------------------------------------------------------------
(* What a rule is evaluated on.                                            *)

InForce(c) == c # NotLoaded /\ c.enabled

NAN == None

isnan(s) == s \in Slots /\ (s \notin topic \/ ~seen[s])

(* readConditionSensorValue(), which looks at topic, lastSeenMs and value  *)
(* one after the other: of a slot that is being cleared it may find all    *)
(* as they were, the value gone, or the slot empty.                        *)
Reads(s) ==
  IF isnan(s) THEN {NAN}
  ELSE IF s \in Slots /\ request.pc = "clear" THEN {cachedValue[s], Zero, NAN}
  ELSE {cachedValue[s]}

Readings(c) ==
  {v \in [c.conditions -> Values \cup {NAN}] :
     \A k \in c.conditions : v[k] \in Reads(k.source)}

Unavailable(c, v) == \E k \in c.conditions : v[k] = NAN

evaluateCondition(k, liveValue) == liveValue \in k.accepts

ConditionsHold(c, v) ==
  IF c.logic = "AND" THEN \A k \in c.conditions : evaluateCondition(k, v[k])
                     ELSE \E k \in c.conditions : evaluateCondition(k, v[k])

Gated(c) == c.gate \in Timers

GateOpen(c, now) ==
  Gated(c) => /\ timers[c.gate] # NotLoaded
              /\ isNodeTimerActiveNow(timers[c.gate], now)

Result(c, v, now) == GateOpen(c, now) /\ ConditionsHold(c, v)

(* The level a rule's command asks for.                                    *)
Wanted(c, result) ==
  CASE c.action = "ON"     -> IF result THEN HIGH ELSE LOW
    [] c.action = "OFF"    -> IF result THEN LOW ELSE HIGH
    [] c.action = "TOGGLE" -> Not(pin[c.targetRelay])

(* Slips: the flag that the rule has fired outlives the result it was for; *)
(* the hold time starts anew with every evaluation.                        *)
NoteResultKeepsFired(st, result) ==
  IF st.hasResult /\ result = st.lastResult THEN st
  ELSE [st EXCEPT !.hasResult = TRUE, !.lastResult = result, !.since = 0]

NoteResultAnew(st, result) ==
  [st EXCEPT !.hasResult = TRUE, !.lastResult = result, !.since = 0,
             !.fired = @ /\ result = st.lastResult]

NoteResult(st, result) ==
  IF st.hasResult /\ result = st.lastResult THEN st
  ELSE [st EXCEPT !.hasResult = TRUE, !.lastResult = result, !.since = 0,
                  !.fired = FALSE]

Due(st, c) ==
  /\ ~(st.fired /\ c.trigger = "CHANGE")
  /\ st.since >= c.hold
  /\ st.lastFired = Never \/ st.lastFired >= c.cooldown
  /\ c.targetRelay \in Relays

Fired(st, c) == [st EXCEPT !.lastFired = 0,
                           !.fired = IF c.trigger = "CHANGE" THEN TRUE ELSE @]

(* A slip: the reset forgets when the rule last fired.                     *)
ResetForgetsFiring(st) ==
  [st EXCEPT !.hasResult = FALSE, !.fired = FALSE, !.since = 0,
             !.lastFired = Never]

resetRuleConditionState(st) ==
  [st EXCEPT !.hasResult = FALSE, !.fired = FALSE, !.since = 0]

(* mdigitalWrite(): nothing is written while the lock is held.             *)
mdigitalWrite(y, v) ==
  /\ pin' = IF lockupdate[y] THEN pin ELSE [pin EXCEPT ![y] = v]
  /\ lockupdate' = [lockupdate EXCEPT ![y] = TRUE]

Deed(fate, c) == [fate |-> fate, action |-> c.action, relay |-> c.targetRelay]

(* Another write to relay y overtakes the commands that were given to it.  *)
Overtake(y, d) ==
  [r \in Rules |-> IF d[r] # NoDeed /\ d[r].relay = y
                   THEN [d[r] EXCEPT !.fate = "overtaken"] ELSE d[r]]

-----------------------------------------------------------------------------
(* The loop task: serviceCalendar() loads the caches when asked to, then   *)
(* servicePerSecond() evaluates the rules, then watch() frees the locks.   *)

(* A slip: one rule too many.                                              *)
GoOnPast(r) == IF r > NRules THEN lpc' = "watch" /\ at' = 1
                             ELSE lpc' = "rules" /\ at' = r + 1

GoOn(r) == IF r = NRules THEN lpc' = "watch" /\ at' = 1
                         ELSE lpc' = "rules" /\ at' = r + 1

StartReload ==
  /\ lpc = "calendar" /\ CalendarNotInitiated /\ timeSet
  /\ timers' = timerFile
  /\ lpc' = "load"
  /\ UNCHANGED <<files, rules, CalendarNotInitiated, timeSet, ruleState, sensors,
                 outputs, at, local, gate, request, left, history>>

NoReload ==
  /\ lpc = "calendar" /\ ~(CalendarNotInitiated /\ timeSet)
  /\ lpc' = "rules"
  /\ UNCHANGED <<files, caches, ruleState, sensors, outputs, at, local, gate,
                 request, left, history>>

(* A save of the rule is under way.                                        *)
Meets(r) == request.pc \in {"load", "store"} /\ request.rule = r

(* refreshAutomationRuleCache(), called by chronosInit().                  *)
LoadRule ==
  /\ lpc = "load"
  /\ local' = ruleFile[at]
  /\ lpc' = "store"
  /\ crossed' = [crossed EXCEPT ![at] = Meets(at)]
  /\ UNCHANGED <<files, caches, ruleState, sensors, outputs, at, gate, request,
                 left, suspended, deed, quiet>>

StoreRule ==
  /\ lpc = "store"
  /\ rules' = [rules EXCEPT ![at] = local]
  /\ local' = NoFile
  /\ IF at = NRules THEN lpc' = "loaded" /\ at' = 1
                    ELSE lpc' = "load" /\ at' = at + 1
  /\ crossed' = [crossed EXCEPT ![at] = @ \/ Meets(at)]
  /\ UNCHANGED <<files, timers, CalendarNotInitiated, timeSet, ruleState, sensors,
                 outputs, gate, request, left, suspended, deed, quiet>>

EndReload ==
  /\ lpc = "loaded"
  /\ CalendarNotInitiated' = FALSE
  /\ lpc' = "rules"
  /\ UNCHANGED <<files, rules, timers, timeSet, ruleState, sensors, outputs, at,
                 local, gate, request, left, history>>

-----------------------------------------------------------------------------
(* evaluateAutomationRules(), for the rule the loop has come to.           *)

SkipRule ==
  /\ lpc = "rules" /\ ~InForce(rules[at])
  /\ ruleState' = [ruleState EXCEPT ![at] = resetRuleConditionState(@)]
  /\ GoOn(at)
  /\ UNCHANGED <<files, caches, sensors, outputs, local, gate, request, left,
                 history>>

(* A rule without a value that had one is switched off; otherwise it is    *)
(* only reset.                                                             *)
MissSource ==
  /\ lpc = "rules" /\ InForce(rules[at])
  /\ \E v \in Readings(rules[at]) : Unavailable(rules[at], v)
  /\ IF ruleState[at].hasResult
     THEN lpc' = "read" /\ UNCHANGED <<at, ruleState>>
     ELSE /\ ruleState' = [ruleState EXCEPT ![at] = resetRuleConditionState(@)]
          /\ GoOn(at)
  /\ UNCHANGED <<files, caches, sensors, outputs, local, gate, request, left,
                 history>>

Conclude(c, result) ==
  LET st == NoteResult(ruleState[at], result)
      y  == c.targetRelay
  IN  IF Due(st, c)
      THEN /\ ruleState' = [ruleState EXCEPT ![at] = Fired(st, c)]
           /\ mdigitalWrite(y, Wanted(c, result))
           /\ deed' = IF lockupdate[y]
                      THEN [deed EXCEPT ![at] = Deed("dropped", c)]
                      ELSE [Overtake(y, deed) EXCEPT ![at] = Deed("driven", c)]
           /\ quiet' = [quiet EXCEPT ![at] = 0]
      ELSE /\ ruleState' = [ruleState EXCEPT ![at] = st]
           /\ UNCHANGED <<outputs, deed, quiet>>

EvaluateRule(now) ==
  /\ lpc = "rules" /\ InForce(rules[at])
  /\ \E v \in Readings(rules[at]) :
       /\ ~Unavailable(rules[at], v)
       /\ Conclude(rules[at], Result(rules[at], v, now))
  /\ GoOn(at)
  /\ UNCHANGED <<files, caches, sensors, local, gate, request, left,
                 suspended, crossed>>

(* disableAutomationRuleInFile(): read the file, write it with REnabled 0. *)
(* A slip: the file is written as it was read.                             *)
Unchanged(c) == c

Disabled(c) == IF c = None THEN c ELSE [c EXCEPT !.enabled = FALSE]

ReadRuleFile ==
  /\ lpc = "read"
  /\ local' = ruleFile[at]
  /\ lpc' = "write"
  /\ crossed' = [crossed EXCEPT ![at] = @ \/ Meets(at)]
  /\ UNCHANGED <<files, caches, ruleState, sensors, outputs, at, gate, request,
                 left, suspended, deed, quiet>>

WriteRuleFile ==
  /\ lpc = "write"
  /\ ruleFile' = IF local = NoFile THEN ruleFile
                 ELSE [ruleFile EXCEPT ![at] = Disabled(local)]
  /\ local' = NoFile
  /\ lpc' = "disable"
  /\ suspended' = [suspended EXCEPT ![at] = TRUE]
  /\ crossed' = [crossed EXCEPT ![at] = @ \/ Meets(at)]
  /\ UNCHANGED <<timerFile, slotFile, caches, ruleState, sensors, outputs, at,
                 gate, request, left, deed, quiet>>

(* The end of the branch: reset the rule and go on with the next.          *)
EndSuspension ==
  /\ ruleState' = [ruleState EXCEPT ![at] = resetRuleConditionState(@)]
  /\ GoOn(at)

DisableRule ==
  /\ lpc = "disable"
  /\ rules' = [rules EXCEPT ![at] = Disabled(@)]
  /\ crossed' = [crossed EXCEPT ![at] = @ \/ Meets(at)]
  /\ IF Gated(rules[at]) THEN lpc' = "readtimer" /\ UNCHANGED <<at, ruleState>>
                         ELSE EndSuspension
  /\ UNCHANGED <<files, timers, CalendarNotInitiated, timeSet, sensors, outputs,
                 local, gate, request, left, suspended, deed, quiet>>

(* disableTimerInFile() and refreshTimerCache(), for the rule's gate.      *)
ReadTimerFile ==
  /\ lpc = "readtimer"
  /\ LET t == rules[at].gate
     IN  IF Gated(rules[at])
         THEN gate' = [timer |-> t, config |-> timerFile[t]] /\ lpc' = "writetimer"
         ELSE lpc' = "cachetimer" /\ UNCHANGED gate
  /\ UNCHANGED <<files, caches, ruleState, sensors, outputs, at, local, request,
                 left, history>>

WriteTimerFile ==
  /\ lpc = "writetimer"
  /\ timerFile' = [timerFile EXCEPT ![gate.timer] = Disabled(gate.config)]
  /\ gate' = None
  /\ lpc' = "cachetimer"
  /\ UNCHANGED <<ruleFile, slotFile, caches, ruleState, sensors, outputs, at,
                 local, request, left, history>>

CacheTimer ==
  /\ lpc = "cachetimer"
  /\ LET t == rules[at].gate
     IN  timers' = IF Gated(rules[at]) THEN [timers EXCEPT ![t] = timerFile[t]]
                   ELSE timers
  /\ EndSuspension
  /\ UNCHANGED <<files, rules, CalendarNotInitiated, timeSet, sensors, outputs,
                 local, gate, request, left, history>>

(* The rest of the second: the locks are freed, time goes on.              *)
Older(a, d, max) ==
  IF a = Never THEN a ELSE IF a + d > max THEN max ELSE a + d

Watch(d) ==
  /\ lpc = "watch"
  /\ lockupdate' = [y \in Relays |-> FALSE]
  /\ ruleState' = [r \in Rules |->
                     [ruleState[r] EXCEPT
                        !.since = IF ruleState[r].hasResult THEN Older(@, d, MaxHold) ELSE @,
                        !.lastFired = Older(@, d, MaxCooldown)]]
  /\ quiet' = [r \in Rules |-> Older(quiet[r], d, MaxCooldown)]
  /\ lpc' = "calendar"
  /\ UNCHANGED <<files, caches, sensors, pin, at, local, gate, request, left,
                 suspended, crossed, deed>>

Loop ==
  \/ StartReload \/ NoReload \/ LoadRule \/ StoreRule \/ EndReload
  \/ SkipRule \/ MissSource \/ \E now \in Nows : EvaluateRule(now)
  \/ ReadRuleFile \/ WriteRuleFile \/ DisableRule
  \/ ReadTimerFile \/ WriteTimerFile \/ CacheTimer
  \/ \E d \in 1..MaxStep : Watch(d)

-----------------------------------------------------------------------------
(* The AsyncTCP task: saved pages, one step after the other, and messages. *)

Event == left > 0 /\ left' = left - 1

(* The loop has read the rule's file and not stored what it read.          *)
Busy(r) == at = r /\ lpc \in {"store", "write", "disable"}

(* saveAutomationRule(): write the file, then refresh the cache.           *)
(* A slip: the index of the cache is taken for the number of the rule.     *)
RefreshIndex(r) == [Idle EXCEPT !.pc = "load", !.rule = IF r > 1 THEN r - 1 ELSE r]

Refresh(r) == [Idle EXCEPT !.pc = "load", !.rule = r]

SaveRule ==
  /\ request.pc = "idle"
  /\ Event
  /\ \E f \in RuleForms :
       /\ ruleFile' = [ruleFile EXCEPT ![f.rule] = f.config]
       /\ request' = Refresh(f.rule)
       /\ suspended' = [suspended EXCEPT ![f.rule] = FALSE]
       /\ crossed' = [crossed EXCEPT ![f.rule] = Busy(f.rule)]
  /\ UNCHANGED <<timerFile, slotFile, caches, ruleState, sensors, outputs,
                 looping, deed, quiet>>

LoadSaved ==
  /\ request.pc = "load"
  /\ request' = [request EXCEPT !.pc = "store", !.config = ruleFile[request.rule]]
  /\ UNCHANGED <<files, caches, ruleState, sensors, outputs, looping, left,
                 history>>

StoreSaved ==
  LET r == request.rule
  IN  /\ request.pc = "store"
      /\ rules' = [rules EXCEPT ![r] = request.config]
      /\ request' = Idle
      /\ UNCHANGED <<files, timers, CalendarNotInitiated, timeSet, ruleState,
                     sensors, outputs, looping, left, history>>

SaveTimer ==
  /\ request.pc = "idle"
  /\ Event
  /\ \E f \in TimerForms : timerFile' = [timerFile EXCEPT ![f.timer] = f.config]
  /\ CalendarNotInitiated' = TRUE
  /\ UNCHANGED <<ruleFile, slotFile, rules, timers, timeSet, ruleState, sensors,
                 outputs, looping, request, history>>

(* saveRemoteSensors() writes its file; loadRemoteSensors() then clears    *)
(* all slots, and sets their topics from the file.                         *)
SaveSensors ==
  /\ request.pc = "idle"
  /\ Event
  /\ slotFile' \in SlotForms
  /\ request' = [Idle EXCEPT !.pc = "clear"]
  /\ UNCHANGED <<ruleFile, timerFile, caches, ruleState, sensors, outputs, looping,
                 history>>

ClearSlots ==
  /\ request.pc = "clear"
  /\ topic' = {}
  /\ seen' = [s \in Slots |-> FALSE]
  /\ cachedValue' = [s \in Sources |-> IF s \in Slots THEN Zero ELSE cachedValue[s]]
  /\ request' = [Idle EXCEPT !.pc = "topics"]
  /\ UNCHANGED <<files, caches, ruleState, outputs, looping, left, history>>

LoadTopics ==
  /\ request.pc = "topics"
  /\ topic' = slotFile
  /\ request' = Idle
  /\ UNCHANGED <<files, caches, ruleState, seen, cachedValue, outputs, looping,
                 left, history>>

(* remoteSensorsOnMqttMessage().                                           *)
SensorMessage ==
  /\ request.pc = "idle"
  /\ \E s \in topic, v \in Values :
       /\ cachedValue' = [cachedValue EXCEPT ![s] = v]
       /\ seen' = [seen EXCEPT ![s] = TRUE]
  /\ UNCHANGED <<files, caches, ruleState, topic, outputs, looping, request, left,
                 history>>

-----------------------------------------------------------------------------
(* Everything else: the board's own sensors, the clock, other writers.     *)

Measure ==
  /\ \E s \in Locals, v \in Values : cachedValue' = [cachedValue EXCEPT ![s] = v]
  /\ UNCHANGED <<files, caches, ruleState, topic, seen, outputs, looping, request,
                 left, history>>

SetTime ==
  /\ ~timeSet
  /\ timeSet' = TRUE
  /\ UNCHANGED <<files, rules, timers, CalendarNotInitiated, ruleState, sensors,
                 outputs, looping, request, left, history>>

(* A message, a button, the calendar: any write but a rule's.              *)
Command ==
  /\ Event
  /\ \E y \in Relays, v \in Levels :
       /\ ~lockupdate[y]
       /\ mdigitalWrite(y, v)
       /\ deed' = Overtake(y, deed)
  /\ UNCHANGED <<files, caches, ruleState, sensors, looping, request, suspended,
                 crossed, quiet>>

(* The files are kept, all else is lost.                                   *)
Restart ==
  /\ Event
  /\ topic' = slotFile
  /\ rules' = [r \in Rules |-> NotLoaded]
  /\ timers' = [t \in Timers |-> NotLoaded]
  /\ CalendarNotInitiated' = TRUE
  /\ timeSet' = FALSE
  /\ ruleState' = [r \in Rules |-> NoResult]
  /\ seen' = [s \in Slots |-> FALSE]
  /\ cachedValue' = [s \in Sources |-> Zero]
  /\ pin' = [y \in Relays |-> LOW]
  /\ lockupdate' = [y \in Relays |-> FALSE]
  /\ lpc' = "calendar" /\ at' = 1
  /\ local' = NoFile
  /\ gate' = None
  /\ request' = Idle
  /\ crossed' = [r \in Rules |-> FALSE]
  /\ deed' = [r \in Rules |-> NoDeed]
  /\ quiet' = [r \in Rules |-> Never]
  /\ UNCHANGED <<files, suspended>>

Handler ==
  LoadSaved \/ StoreSaved \/ ClearSlots \/ LoadTopics
Environment ==
  SaveRule \/ SaveTimer \/ SaveSensors \/ SensorMessage \/ Measure \/ SetTime
  \/ Command \/ Restart

Next == Loop \/ Handler \/ Environment

Spec == Init /\ [][Next]_vars /\ WF_vars(Loop) /\ WF_vars(Handler)

-----------------------------------------------------------------------------
TypeOK ==
  /\ ruleFile \in [Rules -> RuleConfigs \cup {NoFile}]
  /\ timerFile \in [Timers -> TimerConfigs]
  /\ slotFile \subseteq Slots
  /\ rules \in [Rules -> RuleConfigs \cup {NotLoaded}]
  /\ timers \in [Timers -> TimerConfigs \cup {NotLoaded}]
  /\ CalendarNotInitiated \in BOOLEAN /\ timeSet \in BOOLEAN
  /\ ruleState \in [Rules -> [hasResult : BOOLEAN, lastResult : BOOLEAN,
                             fired : BOOLEAN, since : HoldAges,
                             lastFired : CoolAges \cup {Never}]]
  /\ topic \subseteq Slots
  /\ seen \in [Slots -> BOOLEAN]
  /\ cachedValue \in [Sources -> Values]
  /\ pin \in [Relays -> Levels]
  /\ lockupdate \in [Relays -> BOOLEAN]
  /\ lpc \in {"calendar", "load", "store", "loaded", "rules", "read", "write",
              "disable", "readtimer", "writetimer", "cachetimer", "watch"}
  /\ at \in Rules
  /\ local \in RuleConfigs \cup {NoFile}
  /\ gate \in [timer : Timers, config : TimerConfigs] \cup {None}
  /\ request \in [pc : {"idle", "load", "store", "clear", "topics"}, rule : Rules,
                  config : RuleConfigs \cup {NoFile}]
  /\ left \in Nat
  /\ suspended \in [Rules -> BOOLEAN]
  /\ crossed \in [Rules -> BOOLEAN]
  /\ deed \in [Rules -> Deeds \cup {NoDeed}]
  /\ quiet \in [Rules -> CoolAges \cup {Never}]

(* What is evaluated is what was saved (AutomationRules.cpp:330): the cache*)
(* holds the rule's file, also after the loop has switched the rule off.   *)
(* A save that falls between the loop's reading of the file and its        *)
(* storing, or the other way round, is left out: there the older one wins. *)
CacheFollowsFile ==
  \A r \in Rules :
    /\ ~Busy(r) /\ ~Meets(r) /\ ~crossed[r]
    /\ rules[r] # NotLoaded \/ ~CalendarNotInitiated
    => rules[r] = ruleFile[r]

(* A rule whose sensor went away is switched off, and stays off, in memory *)
(* and after a reboot, until somebody saves it (AutomationRules.cpp:168),  *)
(* whatever reloads and restarts there are.                                *)
SuspendedStaysOff ==
  \A r \in Rules :
    suspended[r] => /\ ~InForce(ruleFile[r])
                    /\ InForce(rules[r]) => Busy(r) \/ crossed[r]

(* What a rule asks for now is what its last command asked for.            *)
SameOrder(r) ==
  /\ deed[r].action = rules[r].action /\ deed[r].action # "TOGGLE"
  /\ deed[r].relay = rules[r].targetRelay

(* While nobody else has written the relay since, a rule that counts as    *)
(* fired has its relay at the level its present result asks for: however   *)
(* often the result flips within the hold time, the rule is disabled, saved*)
(* or loaded again, it never rests at the level of an earlier result.  Two *)
(* cases are left out, in which the code does leave the relay elsewhere,   *)
(* against the comment at AutomationRules.cpp:304-309: the command was     *)
(* dropped by the lock, which is not noticed (402), and the rule was saved *)
(* since with another action or relay, which keeps firedForState (387).    *)
FiredAgrees ==
  \A r \in Rules :
    /\ ruleState[r].fired /\ rules[r] # NotLoaded
    /\ deed[r] # NoDeed /\ deed[r].fate = "driven" /\ SameOrder(r)
    => pin[rules[r].targetRelay] = Wanted(rules[r], ruleState[r].lastResult)

(* A rule that gets disabled and enabled again, or is saved anew, still    *)
(* respects its cooldown (AutomationRules.cpp:324): between two commands   *)
(* of a rule, on whatever relay, at least the cooldown passes.             *)
Fires(r) == quiet[r] # 0 /\ quiet'[r] = 0

CooldownKept ==
  [][\A r \in Rules : Fires(r) /\ quiet[r] # Never
                      => quiet[r] >= rules[r].cooldown]_vars

(* A rule that stays in force with one result, the only one on its relay,  *)
(* gets its way: a periodic rule drives the relay to its level again and   *)
(* again, one that fires once has fired.                                   *)
Settled(r, v) ==
  /\ InForce(rules[r]) /\ rules[r].action # "TOGGLE"
  /\ rules[r].targetRelay \in Relays
  /\ ruleState[r].hasResult /\ ruleState[r].lastResult = v
  /\ \A q \in Rules \ {r} :
       InForce(rules[q]) => rules[q].targetRelay # rules[r].targetRelay

Served(r, v) ==
  \/ ruleState[r].fired
  \/ pin[rules[r].targetRelay] = Wanted(rules[r], v)

RuleActs ==
  \A r \in Rules, v \in BOOLEAN : []<>(Settled(r, v) => Served(r, v))
=============================================================================
