----------------------------- MODULE RelayDrive -----------------------------
(***************************************************************************)
(* One relay output (RelayClass.cpp) and the tasks that drive it.          *)
(*                                                                         *)
(* Relay::mdigitalWrite() is called by the Arduino loop task and by other  *)
(* FreeRTOS tasks (the AsyncTCP task runs the MQTT and HTTP handlers).     *)
(* Only the loop task runs Relay::watch(), which takes the change flag and *)
(* lets onRelaychangeInterruptSvc() tell the broker about the new level.   *)
(* Every access to a shared field is a step of its own; a pair of accesses *)
(* inside a timerFlagsMux critical section is one step.                    *)
(*                                                                         *)
(* freelockfunc() compares millis() - pmillis with 10 ms.  Any amount of   *)
(* time can pass between two steps, so the outcome of the comparison is an *)
(* input, and pmillis itself is not kept.                                  *)
(*                                                                         *)
(* Here every publication is sent and arrives.  Those that mqttPublish()   *)
(* refuses or an outage loses are in Relay; of a reconnection this module  *)
(* has the announcement of the level, which any pass of loop() may make.   *)
(* The last reset was no brownout: after one a retained ON is answered     *)
(* with OFF on both topics, whether or not the write before was dropped    *)
(* (MQTT_Processes.cpp:835-840, which is in Relay).                        *)
(***************************************************************************)
EXTENDS Naturals

CONSTANTS Others,   \* the tasks, other than the loop task, that drive it
          Loop      \* the Arduino loop task

ASSUME LoopIsApart == Loop \notin Others

Tasks  == Others \cup {Loop}
LOW    == "LOW"
HIGH   == "HIGH"
Levels == {LOW, HIGH}
NotYet == "NotYet"       \* lastPub1State = -1

VARIABLES
  pin,            \* level of the GPIO
  lockupdate,     \* a write was accepted less than freeinterval ago
  rchangedflag,   \* watch() has a change to report
  at,             \* task -> where it is in mdigitalWrite()
  arg,            \* task -> the level it was called with
  lpc,            \* where the loop task is in loop() and watch()
  local_rchanged, \* watch()'s copy of rchangedflag
  curState,       \* the loop task's copy of the level, to publish it
  lastPub1State,  \* the level of the last report on v_PUB_TOPIC1
  stateTopic,     \* last level published to v_STATE_PUB_TOPIC
  commandTopic,   \* last level published to v_PUB_TOPIC1
  offDropped,     \* history: a TTL's OFF was dropped, see TtlCallback
  undone          \* history: a change was taken back, see PublishLevel

object == <<pin, lockupdate, rchangedflag>>
calls  == <<at, arg>>
report == <<local_rchanged, curState, lastPub1State>>
topics == <<stateTopic, commandTopic, offDropped, undone>>
vars   == <<object, calls, lpc, report, topics>>

Init ==
  /\ pin = LOW
  /\ lockupdate = FALSE
  /\ rchangedflag = FALSE
  /\ at = [t \in Tasks |-> "idle"]
  /\ arg = [t \in Tasks |-> LOW]
  /\ lpc = "services"
  /\ local_rchanged = FALSE
  /\ curState = LOW
  /\ lastPub1State = NotYet
  /\ stateTopic = NotYet
  /\ commandTopic = NotYet
  /\ offDropped = FALSE
  /\ undone = FALSE

-----------------------------------------------------------------------------
(* The loop task runs one function at a time: a step of loop() or watch()  *)
(* is possible only when its own mdigitalWrite() has returned.             *)
InLoop(here) == lpc = here /\ at[Loop] = "idle"
GoTo(there)  == lpc' = there

-----------------------------------------------------------------------------
(* Slips: what a step below would be with a plausible mistake in it.  They *)
(* are the negative controls of the properties and no part of Next.        *)

(* The flag is raised only if the topic looks out of date.                 *)
FlagIfStale(t) ==
  /\ at[t] = "flag"
  /\ rchangedflag' = (pin # lastPub1State)
  /\ at' = [at EXCEPT ![t] = "idle"]
  /\ arg' = [arg EXCEPT ![t] = LOW]
  /\ UNCHANGED <<pin, lockupdate, lpc, report, topics>>

(* watch() returns early when nothing has changed.                         *)
WatchSnapshotEarlyReturn ==
  /\ InLoop("watch")
  /\ local_rchanged' = rchangedflag
  /\ rchangedflag' = FALSE
  /\ GoTo(IF rchangedflag THEN "ttl" ELSE "services")
  /\ UNCHANGED <<pin, lockupdate, calls, curState, lastPub1State, topics>>

(* The state topic, like the command topic, only gets new values.          *)
PublishStateIfChanged ==
  /\ InLoop("publishState")
  /\ stateTopic' = IF pin # lastPub1State THEN pin ELSE stateTopic
  /\ GoTo("readLevel")
  /\ UNCHANGED <<object, calls, report, commandTopic, offDropped, undone>>

(* The value that was published last is taken for the level.               *)
ReadLevelFromLast ==
  /\ InLoop("readLevel")
  /\ curState' = lastPub1State
  /\ GoTo("publish")
  /\ UNCHANGED <<object, calls, local_rchanged, lastPub1State, topics>>

(* The level is announced that was last reported, not the present one.     *)
AnnounceReadLast ==
  /\ InLoop("session")
  /\ curState' = IF lastPub1State = NotYet THEN LOW ELSE lastPub1State
  /\ GoTo("announce")
  /\ UNCHANGED <<object, calls, local_rchanged, lastPub1State, topics>>

(* The flag is cleared at the end of the report (main.cpp:1079 in use).    *)
PublishLevelThenClear ==
  /\ InLoop("publish")
  /\ lastPub1State' = curState
  /\ commandTopic' = IF lastPub1State = curState THEN commandTopic ELSE curState
  /\ offDropped' = (offDropped /\ lastPub1State = curState)
  /\ undone' = (lastPub1State = curState /\ commandTopic # curState)
  /\ rchangedflag' = FALSE
  /\ GoTo("freelock")
  /\ UNCHANGED <<pin, lockupdate, calls, local_rchanged, curState, stateTopic>>

-----------------------------------------------------------------------------
(* Relay::mdigitalWrite(pin, v), run by task t.                            *)

(* The call as seen by its caller: in the critical section the lock is     *)
(* taken, or the command is dropped without a trace because it is held.    *)
Call(t, v) ==
  /\ at[t] = "idle"
  /\ IF lockupdate
     THEN UNCHANGED <<lockupdate, calls>>
     ELSE /\ lockupdate' = TRUE
          /\ at' = [at EXCEPT ![t] = "write"]
          /\ arg' = [arg EXCEPT ![t] = v]

Write(t) ==
  /\ at[t] = "write"
  /\ pin' = arg[t]
  /\ at' = [at EXCEPT ![t] = "flag"]
  /\ UNCHANGED <<lockupdate, rchangedflag, arg, lpc, report, topics>>

Flag(t) ==
  /\ at[t] = "flag"
  /\ rchangedflag' = TRUE
  /\ at' = [at EXCEPT ![t] = "idle"]
  /\ arg' = [arg EXCEPT ![t] = LOW]    \* out of scope
  /\ UNCHANGED <<pin, lockupdate, lpc, report, topics>>

(* A command from a task other than the loop: an MQTT or HTTP handler.     *)
Command(t, v) ==
  /\ t \in Others
  /\ Call(t, v)
  /\ UNCHANGED <<pin, rchangedflag, lpc, report, topics>>

-----------------------------------------------------------------------------
(* The loop task: loop(), watch() and the callbacks it runs.               *)

(* The services of loop() that drive the relay between two watch() calls:  *)
(* inputs, automation rules, temperature control, the Modbus coil.         *)
ServiceWrite(v) ==
  /\ InLoop("services")
  /\ Call(Loop, v)
  /\ GoTo("calendar")
  /\ UNCHANGED <<pin, rchangedflag, report, topics>>

NoServiceWrite ==
  /\ InLoop("services")
  /\ GoTo("calendar")
  /\ UNCHANGED <<object, calls, report, topics>>

(* serviceCalendar(): an event turns the relay on, or ends; the end of an  *)
(* event first releases the lock so that its OFF is not dropped.           *)
CalendarOn ==
  /\ InLoop("calendar")
  /\ pin = LOW
  /\ Call(Loop, HIGH)
  /\ GoTo("session")
  /\ UNCHANGED <<pin, rchangedflag, report, topics>>

CalendarRelease ==
  /\ InLoop("calendar")
  /\ lockupdate' = FALSE
  /\ GoTo("release")
  /\ UNCHANGED <<pin, rchangedflag, calls, report, topics>>

CalendarOff ==
  /\ InLoop("release")
  /\ Call(Loop, LOW)
  /\ GoTo("session")
  /\ UNCHANGED <<pin, rchangedflag, report, topics>>

NoCalendarEvent ==
  /\ InLoop("calendar")
  /\ GoTo("session")
  /\ UNCHANGED <<object, calls, report, topics>>

(* serviceMqttPending(): after a connection the level is read once and     *)
(* published to both topics; lastPub1State is left as it is.               *)
AnnounceRead ==
  /\ InLoop("session")
  /\ curState' = pin
  /\ GoTo("announce")
  /\ UNCHANGED <<object, calls, local_rchanged, lastPub1State, topics>>

Announce ==
  /\ InLoop("announce")
  /\ stateTopic' = curState
  /\ commandTopic' = curState
  /\ offDropped' = FALSE /\ undone' = FALSE
  /\ curState' = LOW    \* out of scope
  /\ GoTo("watch")
  /\ UNCHANGED <<object, calls, local_rchanged, lastPub1State>>

NothingToAnnounce ==
  /\ InLoop("session")
  /\ GoTo("watch")
  /\ UNCHANGED <<object, calls, report, topics>>

(* Relay::watch(): the flag is copied and cleared in one critical section. *)
WatchSnapshot ==
  /\ InLoop("watch")
  /\ local_rchanged' = rchangedflag
  /\ rchangedflag' = FALSE
  /\ GoTo("ttl")
  /\ UNCHANGED <<pin, lockupdate, calls, curState, lastPub1State, topics>>

(* fttlcallback, if the TTL has expired: it drives the relay LOW and then  *)
(* tells the command topic OFF, also when the write was dropped.           *)
TtlCallback ==
  /\ InLoop("ttl")
  /\ Call(Loop, LOW)
  /\ offDropped' = lockupdate
  /\ GoTo("ttlPublish")
  /\ UNCHANGED <<pin, rchangedflag, report, stateTopic, commandTopic, undone>>

TtlPublish ==
  /\ InLoop("ttlPublish")
  /\ commandTopic' = LOW
  /\ GoTo("tta")
  /\ UNCHANGED <<object, calls, report, stateTopic, offDropped, undone>>

NoTtlExpired ==
  /\ InLoop("ttl")
  /\ GoTo("tta")
  /\ UNCHANGED <<object, calls, report, topics>>

(* fttacallback: an expired TTA drives the relay HIGH.                     *)
TtaCallback ==
  /\ InLoop("tta")
  /\ \/ Call(Loop, HIGH)
     \/ UNCHANGED <<lockupdate, calls>>
  /\ GoTo(IF local_rchanged THEN "publishState" ELSE "freelock")
  /\ UNCHANGED <<pin, rchangedflag, report, topics>>

(* onRelaychangeInterruptSvc(): it reads the GPIO once for each topic, and *)
(* tells the command topic only of a level it has not reported last.       *)
PublishState ==
  /\ InLoop("publishState")
  /\ stateTopic' = pin
  /\ GoTo("readLevel")
  /\ UNCHANGED <<object, calls, report, commandTopic, offDropped, undone>>

ReadLevel ==
  /\ InLoop("readLevel")
  /\ curState' = pin
  /\ GoTo("publish")
  /\ UNCHANGED <<object, calls, local_rchanged, lastPub1State, topics>>

PublishLevel ==
  /\ InLoop("publish")
  /\ lastPub1State' = curState
  /\ IF lastPub1State = curState
     THEN undone' = (commandTopic # curState) /\ UNCHANGED <<commandTopic, offDropped>>
     ELSE commandTopic' = curState /\ undone' = FALSE /\ offDropped' = FALSE
  /\ curState' = LOW    \* out of scope
  /\ GoTo("freelock")
  /\ UNCHANGED <<object, calls, local_rchanged, stateTopic>>

(* freelockfunc(): the comparison and the release are two steps.           *)
FreeLockTest(elapsed) ==
  /\ InLoop("freelock")
  /\ GoTo(IF elapsed THEN "unlock" ELSE "services")
  /\ UNCHANGED <<object, calls, report, topics>>

FreeLock ==
  /\ InLoop("unlock")
  /\ lockupdate' = FALSE
  /\ GoTo("services")
  /\ UNCHANGED <<pin, rchangedflag, calls, report, topics>>

-----------------------------------------------------------------------------
LoopStep ==
  \/ \E v \in Levels : ServiceWrite(v)
  \/ NoServiceWrite
  \/ CalendarOn
  \/ CalendarRelease
  \/ CalendarOff
  \/ NoCalendarEvent
  \/ AnnounceRead
  \/ Announce
  \/ NothingToAnnounce
  \/ WatchSnapshot
  \/ TtlCallback
  \/ TtlPublish
  \/ NoTtlExpired
  \/ TtaCallback
  \/ PublishState
  \/ ReadLevel
  \/ PublishLevel
  \/ \E elapsed \in BOOLEAN : FreeLockTest(elapsed)
  \/ FreeLock

Next ==
  \/ LoopStep
  \/ \E t \in Tasks : Write(t) \/ Flag(t)
  \/ \E t \in Others, v \in Levels : Command(t, v)

(* Every task that is inside mdigitalWrite() gets the CPU, loop() runs for *)
(* ever, and 10 ms go by: if freelockfunc() is reached again and again,    *)
(* one of the comparisons finds that they have.                            *)
Fairness ==
  /\ WF_vars(LoopStep)
  /\ SF_vars(FreeLockTest(TRUE))
  /\ \A t \in Tasks : WF_vars(Write(t) \/ Flag(t))

Spec == Init /\ [][Next]_vars /\ Fairness

-----------------------------------------------------------------------------
LoopPositions ==
  {"services", "calendar", "release", "session", "announce", "watch", "ttl",
   "ttlPublish", "tta", "publishState", "readLevel", "publish", "freelock",
   "unlock"}

TypeOK ==
  /\ pin \in Levels
  /\ lockupdate \in BOOLEAN
  /\ rchangedflag \in BOOLEAN
  /\ at \in [Tasks -> {"idle", "write", "flag"}]
  /\ arg \in [Tasks -> Levels]
  /\ lpc \in LoopPositions
  /\ local_rchanged \in BOOLEAN
  /\ curState \in Levels
  /\ lastPub1State \in Levels \cup {NotYet}
  /\ stateTopic \in Levels \cup {NotYet}
  /\ commandTopic \in Levels \cup {NotYet}
  /\ offDropped \in BOOLEAN
  /\ undone \in BOOLEAN

(* What a topic says about the relay; the level after power-on until it    *)
(* is first published.                                                     *)
Shown(topic) == IF topic = NotYet THEN LOW ELSE topic

(* A task has driven the GPIO and has yet to raise the change flag.        *)
FlagDue == \E t \in Tasks : at[t] = "flag"

(* The change flag is raised, or will be, or watch() has it in hand and    *)
(* has not read the level for the topic yet.                               *)
ChangePending(positions) ==
  \/ rchangedflag
  \/ FlagDue
  \/ local_rchanged /\ lpc \in positions

BeforeStateRead == {"ttl", "ttlPublish", "tta", "publishState"}
BeforeLevelRead == BeforeStateRead \cup {"readLevel"}

(* Whenever the command topic's last value differs from the GPIO, a report *)
(* of the present level is on its way (RelayClass.cpp:443-448 and 128-139, *)
(* main.cpp:1013-1017), but for two cases, each until the topic is next    *)
(* published to: a TTL's OFF was published although its write was dropped  *)
(* (main.cpp:987-989), or the last report found the level it had reported  *)
(* before, as the change was taken back, and published nothing, while the  *)
(* TTL or an announcement (main.cpp:3148) had published another one.  It   *)
(* could fail otherwise if the flag were raised before the GPIO is driven, *)
(* or cleared after the level has been read.                               *)
CommandTopicReported ==
  \/ pin = Shown(commandTopic)
  \/ ChangePending(BeforeLevelRead)
  \/ lpc = "publish" /\ curState = pin
  \/ lpc = "ttlPublish" /\ at[Loop] = "write"
  \/ offDropped \/ undone

(* The state topic is told of every report, and of nothing but levels the  *)
(* relay has (main.cpp:1007 and 3147): no exception, as there is no OFF    *)
(* after a brownout here (MQTT_Processes.cpp:839).                         *)
StateTopicReported ==
  \/ pin = Shown(stateTopic)
  \/ ChangePending(BeforeStateRead)

(* A dropped command is the price of the lock, never a permanent state:    *)
(* the lock is released again after every accepted write (RelayClass.cpp:  *)
(* 45-51), also when other tasks keep writing.                             *)
LockIsReleased == lockupdate ~> ~lockupdate

(* Once the level stays as it is, the state topic comes to show it, and    *)
(* the command topic but for the two cases of CommandTopicReported.        *)
TopicsCatchUp ==
  \A v \in Levels :
    <>[](pin = v) => <>[]/\ Shown(stateTopic) = v
                         /\ Shown(commandTopic) = v \/ offDropped \/ undone

(* The relay implements the abstract output on the state topic: a report   *)
(* or an announcement happens when the level is read.  The command topic   *)
(* does not implement it: there the OFF of main.cpp:989 can be published   *)
(* while the level is HIGH.                                                *)
Output ==
  INSTANCE ReportedLevel
    WITH Off      <- LOW,
         level    <- pin,
         reported <- IF lpc = "announce" THEN curState ELSE Shown(stateTopic)

OutputSpec == Output!Spec
=============================================================================
