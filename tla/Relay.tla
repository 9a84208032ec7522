------------------------------- MODULE Relay -------------------------------
(***************************************************************************)
(* One relay with its timers and its command topic.                        *)
(*                                                                         *)
(* Four tasks share the fields of a Relay object: the Arduino loop task    *)
(* (services, watch() and its callbacks), the AsyncTCP task (the MQTT and  *)
(* HTTP handlers), the FreeRTOS timer daemon (TimerService) and, on the    *)
(* other side of the connection, the broker (BrokerLink).                  *)
(*                                                                         *)
(* RelayDrive has the steps of mdigitalWrite() one by one; here a call is  *)
(* one step.  The state topic is not read by the firmware and is left to   *)
(* RelayDrive too.  The countdown topic, which only carries numbers for    *)
(* display, is left out, and with it the flag ttl_update.                  *)
(***************************************************************************)
EXTENDS Integers, Sequences

CONSTANTS
  Ttls,           \* the values v_ttl can have, in seconds; 0 is no TTL
  VTta,           \* v_tta: one-second periods until the relay is turned on
  EchoMod,        \* pendingEchoCount is a uint8_t: 256
  QLen,           \* length of the timer daemon's queue
  Subscriptions,  \* SUBSCRIBE packets for the command topic: one per relay
  Brownouts,      \* may the last reset have been a brownout
  HasBroker,      \* FALSE: MQTT is not configured
  ForeignCommands,\* what other clients publish: [val, retain] records
  Sources,        \* what else drives this relay, configured
  MaxCommands,    \* bound: commands, from inside and outside
  MaxOutages,     \* bound: losses of the connection
  MaxFailures,    \* bound: publications refused while connected
  MaxRestarts     \* bound: restarts of the board

ASSUME RelayAssumption ==
  /\ Ttls \subseteq Nat /\ Ttls # {}
  /\ VTta \in Nat
  /\ EchoMod \in Nat \ {0} /\ QLen \in Nat \ {0}
  /\ Subscriptions \in Nat \ {0}
  /\ HasBroker \in BOOLEAN /\ Brownouts \subseteq BOOLEAN
  /\ ForeignCommands \subseteq [val : {"LOW", "HIGH", "TOG"}, retain : BOOLEAN]
  /\ Sources \subseteq {"http", "input", "calendar", "button", "acs"}
  /\ MaxCommands \in Nat /\ MaxOutages \in Nat
  /\ MaxFailures \in Nat /\ MaxRestarts \in Nat

LOW    == "LOW"
HIGH   == "HIGH"
Levels == {LOW, HIGH}
TOG    == "TOG"
NotYet == "NotYet"   \* lastPub1State = -1
NotLoaded == -1
Not(v) == IF v = HIGH THEN LOW ELSE HIGH

VARIABLES
  pin, lockupdate, rchangedflag,
  ttl_expired, tta_expired, running_TTL, running_TTA,
  v_ttl,
  lastPub1State, pendingEchoCount,
  active, period, timerQ, daemon,            \* see TimerService
  lpc,                     \* where the loop task is
  local,                   \* watch()'s copies of the flags
  curState,                \* the level that is about to be published
  loaded,                  \* the loop task's copy of pendingEchoCount
  swallowing,              \* the AsyncTCP task's copy of pendingEchoCount
  connected, brokerSub, up, down, retained,  \* see BrokerLink
  pending_mqtt_subscribe, pending_relay_state,
  suppressRetainedOn,      \* suppressRetainedRelayOnAfterBrownout
  left,                    \* what is left of the bounds
  uncommanded,             \* history: nothing has driven the relay since boot
  dropped,                 \* history: a message or a TTL found the lock held
  undone,                  \* history: a change taken back before its report
  miscounted               \* history: an echo is counted that may never come

object  == <<pin, lockupdate, rchangedflag>>
flags   == <<ttl_expired, tta_expired>>
running == <<running_TTL, running_TTA>>
echo    == <<lastPub1State, pendingEchoCount>>
timers  == <<active, period, timerQ, daemon>>
looping == <<lpc, local, curState, loaded>>
link    == <<connected, brokerSub, up, down, retained>>
session == <<pending_mqtt_subscribe, pending_relay_state, suppressRetainedOn>>
history == <<uncommanded, dropped, undone, miscounted>>
vars    == <<object, flags, running, v_ttl, echo, timers, looping, swallowing,
             link, session, left, history>>

Daemon == INSTANCE TimerService
            WITH Timers <- {"ttl", "tta"}, TimerPeriods <- Ttls
Broker == INSTANCE BrokerLink WITH Toggle <- TOG

NoFlags == [ttl |-> FALSE, tta |-> FALSE, changed |-> FALSE]

(* The fields of a Relay object after construction, and the loop task.     *)
RelayInit ==
  /\ pin = LOW
  /\ lockupdate = FALSE
  /\ rchangedflag = FALSE
  /\ ttl_expired = FALSE
  /\ tta_expired = FALSE
  /\ running_TTL = 0
  /\ running_TTA = 0
  /\ lastPub1State = NotYet
  /\ pendingEchoCount = 0
  /\ lpc = "session"
  /\ local = NoFlags
  /\ curState = LOW
  /\ loaded = NotLoaded
  /\ swallowing = NotLoaded
  /\ pending_mqtt_subscribe = FALSE
  /\ pending_relay_state = FALSE
  /\ suppressRetainedOn \in Brownouts

Init ==
  /\ RelayInit
  /\ v_ttl \in Ttls
  /\ Daemon!TimersInit
  /\ Broker!LinkInit
  /\ left = [commands |-> MaxCommands, outages |-> MaxOutages,
             failures |-> MaxFailures, restarts |-> MaxRestarts]
  /\ uncommanded = TRUE
  /\ dropped = FALSE
  /\ undone = FALSE
  /\ miscounted = FALSE

-----------------------------------------------------------------------------
(* Building blocks of the steps.                                           *)

(* Relay::mdigitalWrite(v), dropped while the lock is held.                *)
MdigitalWrite(v) ==
  /\ lockupdate' = TRUE
  /\ pin' = IF lockupdate THEN pin ELSE v
  /\ rchangedflag' = (rchangedflag \/ ~lockupdate)

(* History: the relay is driven, perhaps back to the level it last         *)
(* reported; it is commanded; a message or a TTL drives it; an echo is     *)
(* counted that may never come.                                            *)
Driven == undone' = (undone \/ (pin' # pin /\ pin' = lastPub1State))
Commanded == Driven /\ uncommanded' = FALSE /\ UNCHANGED <<dropped, miscounted>>
DrivenByMessage ==
  /\ Driven
  /\ dropped' = (dropped \/ lockupdate)
  /\ UNCHANGED <<uncommanded, miscounted>>
Miscounted(missing) ==
  /\ miscounted' = (miscounted \/ missing)
  /\ UNCHANGED <<uncommanded, dropped, undone>>

(* stop_ttl_timer() and stop_tta_timer().                                  *)
StopTtl ==
  /\ timerQ' = Daemon!Sent(timerQ, Daemon!Stop("ttl"))
  /\ running_TTL' = 0
  /\ UNCHANGED <<running_TTA, active, period, daemon>>

StopTta ==
  /\ timerQ' = Daemon!Sent(timerQ, Daemon!Stop("tta"))
  /\ running_TTA' = 0
  /\ UNCHANGED <<running_TTL, active, period, daemon>>

StartTimer(t) ==
  /\ timerQ' = Daemon!Sent(timerQ, Daemon!Start(t))
  /\ UNCHANGED <<running, active, period, daemon>>

(* mqttPublish() of a level on v_PUB_TOPIC1: nothing is sent if the client *)
(* is not connected, or if memory or the TCP window is short.              *)
Publish(v) ==
  /\ \/ connected /\ up' = Append(up, v) /\ UNCHANGED left
     \/ ~connected /\ UNCHANGED <<up, left>>
     \/ /\ connected /\ left.failures > 0
        /\ left' = [left EXCEPT !.failures = @ - 1]
        /\ UNCHANGED up
  /\ UNCHANGED <<connected, brokerSub, down, retained>>

Spend(what) ==
  /\ left[what] > 0
  /\ left' = [left EXCEPT ![what] = @ - 1]

InLoop(here) == lpc = here
GoTo(there)  == lpc' = there

(* The current is sampled if the ACS712 of the relay is active.            *)
AfterCallbacks == IF "acs" \in Sources THEN "acs" ELSE "freelock"

(* Where watch() goes on, given the flags it still has to look after.      *)
NextCallback(l) ==
  CASE l.ttl     -> "ttlOff"
    [] l.tta     -> "ttaOn"
    [] l.changed -> "report"
    [] OTHER     -> AfterCallbacks

-----------------------------------------------------------------------------
(* The loop task: serviceMqttPending().                                    *)

(* mqttSubscribeRelays(): one SUBSCRIBE packet for each relay.             *)
SubscribeRelays ==
  /\ InLoop("session")
  /\ IF pending_mqtt_subscribe /\ connected
     THEN /\ pending_mqtt_subscribe' = FALSE
          /\ up' = up \o [i \in 1 .. Subscriptions |-> Broker!Subscribe]
     ELSE UNCHANGED <<pending_mqtt_subscribe, up>>
  /\ GoTo("announce")
  /\ UNCHANGED <<object, flags, running, v_ttl, echo, timers, local, curState,
                 loaded, swallowing, connected, brokerSub, down, retained,
                 pending_relay_state, suppressRetainedOn, left, history>>

(* The relay's level is due to be published, five seconds after SUBSCRIBE. *)
Announce ==
  /\ InLoop("announce")
  /\ pending_relay_state /\ connected
  /\ curState' = pin
  /\ GoTo("announcePublish")
  /\ UNCHANGED <<object, flags, running, v_ttl, echo, timers, local, loaded,
                 swallowing, link, session, left, history>>

AnnouncePublish ==
  /\ InLoop("announcePublish")
  /\ Publish(curState)
  /\ curState' = LOW    \* out of scope
  /\ pending_relay_state' = FALSE
  /\ GoTo("watch")
  /\ UNCHANGED <<object, flags, running, v_ttl, echo, timers, local, loaded,
                 swallowing, pending_mqtt_subscribe, suppressRetainedOn,
                 history>>

NothingToAnnounce ==
  /\ InLoop("announce")
  /\ GoTo("watch")
  /\ UNCHANGED <<object, flags, running, v_ttl, echo, timers, local, curState,
                 loaded, swallowing, link, session, left, history>>

-----------------------------------------------------------------------------
(* The loop task: Relay::watch().                                          *)

WatchSnapshot ==
  /\ InLoop("watch")
  /\ LET l == [ttl |-> ttl_expired, tta |-> tta_expired,
               changed |-> rchangedflag]
     IN  local' = l /\ GoTo(NextCallback(l))
  /\ ttl_expired' = FALSE
  /\ tta_expired' = FALSE
  /\ rchangedflag' = FALSE
  /\ UNCHANGED <<pin, lockupdate, running, v_ttl, echo, timers, curState,
                 loaded, swallowing, link, session, left, history>>

(* ticker_relay_ttl_off(): LOW, then OFF on the command topic.             *)
TtlOff ==
  /\ InLoop("ttlOff")
  /\ MdigitalWrite(LOW)
  /\ DrivenByMessage
  /\ GoTo("ttlPublish")
  /\ UNCHANGED <<flags, running, v_ttl, echo, timers, local, curState, loaded,
                 swallowing, link, session, left>>

TtlPublish ==
  /\ InLoop("ttlPublish")
  /\ Publish(LOW)
  /\ LET l == [local EXCEPT !.ttl = FALSE]
     IN  local' = l /\ GoTo(NextCallback(l))
  /\ UNCHANGED <<object, flags, running, v_ttl, echo, timers, curState, loaded,
                 swallowing, session, history>>

(* relayon(): a TTA has expired.                                           *)
TtaOn ==
  /\ InLoop("ttaOn")
  /\ MdigitalWrite(HIGH)
  /\ StopTta
  /\ Commanded
  /\ LET l == [local EXCEPT !.tta = FALSE]
     IN  local' = l /\ GoTo(NextCallback(l))
  /\ UNCHANGED <<flags, v_ttl, echo, curState, loaded, swallowing, link,
                 session, left>>

(* onRelaychangeInterruptSvc(): a level that differs from the last one     *)
(* published is published; pendingEchoCount++ is a load and a store.       *)
Report ==
  /\ InLoop("report")
  /\ local' = NoFlags
  /\ IF lastPub1State # pin
     THEN /\ lastPub1State' = pin
          /\ curState' = pin
          /\ loaded' = pendingEchoCount
          /\ GoTo("countEcho")
     ELSE /\ UNCHANGED <<lastPub1State, curState, loaded>>
          /\ GoTo("arm")
  /\ UNCHANGED <<object, flags, running, v_ttl, pendingEchoCount, timers,
                 swallowing, link, session, left, history>>

CountEcho ==
  /\ InLoop("countEcho")
  /\ pendingEchoCount' = (loaded + 1) % EchoMod
  /\ loaded' = NotLoaded
  /\ Miscounted(pendingEchoCount < loaded)   \* an echo came in between
  /\ GoTo("publish")
  /\ UNCHANGED <<object, flags, running, v_ttl, lastPub1State, timers, local,
                 curState, swallowing, link, session, left>>

(* The broker sends the next publication back: it has the subscription, or *)
(* receives it before.                                                     *)
EchoComes == brokerSub \/ \E i \in 1 .. Len(up) : up[i] = Broker!Subscribe

(* A slip, not in the code: the change flag is cleared after the report.   *)
PublishThenClear ==
  /\ InLoop("publish")
  /\ Publish(curState)
  /\ Miscounted(up' = up \/ ~EchoComes)
  /\ curState' = LOW
  /\ rchangedflag' = FALSE
  /\ GoTo("arm")
  /\ UNCHANGED <<pin, lockupdate, flags, running, v_ttl, echo, timers, local,
                 loaded, swallowing, session>>

PublishLevel ==
  /\ InLoop("publish")
  /\ Publish(curState)
  /\ Miscounted(up' = up \/ ~EchoComes)   \* nothing was sent, or too early
  /\ curState' = LOW    \* out of scope
  /\ GoTo("arm")
  /\ UNCHANGED <<object, flags, running, v_ttl, echo, timers, local, loaded,
                 swallowing, session>>

(* The rest of it: the countdown is started or stopped.                    *)
ArmTtl ==
  /\ InLoop("arm")
  /\ IF pin = HIGH
     THEN IF v_ttl > 0 THEN StartTimer("ttl") ELSE UNCHANGED <<running, timers>>
     ELSE StopTtl
  /\ GoTo(AfterCallbacks)
  /\ UNCHANGED <<object, flags, v_ttl, echo, local, curState, loaded,
                 swallowing, link, session, left, history>>

(* ticker_ACS712_func(): the current is too high.                          *)
Overcurrent ==
  /\ InLoop("acs")
  /\ Spend("commands")
  /\ MdigitalWrite(LOW)
  /\ Driven
  /\ StartTimer("tta")
  /\ GoTo("freelock")
  /\ UNCHANGED <<flags, v_ttl, echo, local, curState, loaded, swallowing, link,
                 session, uncommanded, dropped, miscounted>>

NoOvercurrent ==
  /\ InLoop("acs")
  /\ GoTo("freelock")
  /\ UNCHANGED <<object, flags, running, v_ttl, echo, timers, local, curState,
                 loaded, swallowing, link, session, left, history>>

(* freelockfunc(): 10 ms have elapsed since the last accepted write, or    *)
(* not.                                                                    *)
FreeLock(elapsed) ==
  /\ InLoop("freelock")
  /\ lockupdate' = (lockupdate /\ ~elapsed)
  /\ GoTo("loopfunc")
  /\ UNCHANGED <<pin, rchangedflag, flags, running, v_ttl, echo, timers, local,
                 curState, loaded, swallowing, link, session, left,
                 history>>

(* A slip, not in the code: the service starts no countdown.               *)
LoopServiceIdle ==
  /\ InLoop("loopfunc")
  /\ GoTo("services")
  /\ UNCHANGED <<object, flags, running, v_ttl, echo, timers, local, curState,
                 loaded, swallowing, link, session, left, history>>

(* A slip, not in the code: a relay that is off is counted down as well.   *)
LoopServiceAnyLevel ==
  /\ InLoop("loopfunc")
  /\ IF ~active["ttl"] /\ v_ttl > 0
     THEN StartTimer("ttl")
     ELSE UNCHANGED <<running, timers>>
  /\ GoTo("services")
  /\ UNCHANGED <<object, flags, v_ttl, echo, local, curState, loaded,
                 swallowing, link, session, left, history>>

(* relayloopservicefunc(): a relay that is on is counted down.             *)
LoopService ==
  /\ InLoop("loopfunc")
  /\ IF ~active["ttl"] /\ pin = HIGH /\ v_ttl > 0
     THEN StartTimer("ttl")
     ELSE UNCHANGED <<running, timers>>
  /\ GoTo("services")
  /\ UNCHANGED <<object, flags, v_ttl, echo, local, curState, loaded,
                 swallowing, link, session, left, history>>

-----------------------------------------------------------------------------
(* The loop task: the services that drive the relay after watch().         *)

(* A switch, the temperature control, a rule, the start of a calendar      *)
(* event.                                                                  *)
LocalWrite(v) ==
  /\ InLoop("services")
  /\ "input" \in Sources
  /\ Spend("commands")
  /\ MdigitalWrite(v)
  /\ Commanded
  /\ GoTo("session")
  /\ UNCHANGED <<flags, running, v_ttl, echo, timers, local, curState, loaded,
                 swallowing, link, session>>

(* The end of a calendar event releases the lock before its OFF.           *)
CalendarOff ==
  /\ InLoop("services")
  /\ "calendar" \in Sources
  /\ Spend("commands")
  /\ pin' = LOW
  /\ lockupdate' = TRUE
  /\ rchangedflag' = TRUE
  /\ Commanded
  /\ GoTo("session")
  /\ UNCHANGED <<flags, running, v_ttl, echo, timers, local, curState, loaded,
                 swallowing, link, session>>

(* buttonclick(): off at once, or on after the TTA.                        *)
ButtonClick ==
  /\ InLoop("services")
  /\ "button" \in Sources
  /\ Spend("commands")
  /\ IF pin = HIGH
     THEN /\ timerQ' = Daemon!Sent(Daemon!Sent(timerQ, Daemon!Stop("tta")),
                                   Daemon!Stop("ttl"))
          /\ running_TTA' = 0
          /\ running_TTL' = 0
          /\ MdigitalWrite(LOW)
          /\ UNCHANGED <<active, period, daemon>>
     ELSE /\ StartTimer("tta")
          /\ UNCHANGED object
  /\ Commanded
  /\ GoTo("session")
  /\ UNCHANGED <<flags, v_ttl, echo, local, curState, loaded, swallowing, link,
                 session>>

NoService ==
  /\ InLoop("services")
  /\ GoTo("session")
  /\ UNCHANGED <<object, flags, running, v_ttl, echo, timers, local, curState,
                 loaded, swallowing, link, session, left, history>>

-----------------------------------------------------------------------------
(* The AsyncTCP task.  Its handlers run one after the other.               *)
TcpIdle == swallowing = NotLoaded

(* A web, WebSocket or Modbus request.                                     *)
HttpCommand(v) ==
  /\ TcpIdle
  /\ "http" \in Sources
  /\ Spend("commands")
  /\ MdigitalWrite(v)
  /\ Commanded
  /\ UNCHANGED <<flags, running, v_ttl, echo, timers, looping, swallowing,
                 link, session>>

(* onMqttMessage(): the next message is taken.                             *)
Receive ==
  /\ TcpIdle
  /\ down # <<>>
  /\ down' = Tail(down)

(* Two slips, not in the code: messages are swallowed without an expected  *)
(* echo, or no echo is expected at all.                                    *)
AlwaysEcho(m) == m.val \in Levels
NeverEcho(m)  == FALSE

IsEcho(m) == m.val \in Levels /\ pendingEchoCount > 0

(* An echo is expected: the message is swallowed, whatever it says;        *)
(* pendingEchoCount-- is a load and a store.                               *)
SwallowLoad ==
  /\ Receive
  /\ IsEcho(Head(down))
  /\ swallowing' = pendingEchoCount
  /\ UNCHANGED <<object, flags, running, v_ttl, echo, timers, looping,
                 connected, brokerSub, up, retained, session, left,
                 history>>

SwallowStore ==
  /\ swallowing # NotLoaded
  /\ pendingEchoCount' = swallowing - 1
  /\ swallowing' = NotLoaded
  /\ UNCHANGED <<object, flags, running, v_ttl, lastPub1State, timers, looping,
                 link, session, left, history>>

(* A slip, not in the code: only until the relay has published its level.  *)
SuppressedUntilPublished(m) ==
  /\ suppressRetainedOn /\ m.val = HIGH /\ m.retain
  /\ lastPub1State = NotYet

IsSuppressed(m) == suppressRetainedOn /\ m.val = HIGH /\ m.retain

(* A retained ON after a brownout is answered with OFF.                    *)
SuppressOn ==
  /\ Receive
  /\ ~IsEcho(Head(down))
  /\ IsSuppressed(Head(down))
  /\ MdigitalWrite(LOW)
  /\ DrivenByMessage
  /\ \/ connected /\ up' = Append(up, LOW) /\ UNCHANGED left
     \/ Spend("failures") /\ UNCHANGED up
  /\ UNCHANGED <<flags, running, v_ttl, echo, timers, looping, swallowing,
                 connected, brokerSub, retained, session>>

(* ON, OFF (which stops the countdown first) and TOG.                      *)
ApplyCommand ==
  /\ Receive
  /\ LET m == Head(down)
     IN  /\ ~IsEcho(m) /\ ~IsSuppressed(m)
         /\ MdigitalWrite(IF m.val = TOG THEN Not(pin) ELSE m.val)
         /\ IF m.val = LOW THEN StopTtl ELSE UNCHANGED <<running, timers>>
  /\ DrivenByMessage
  /\ UNCHANGED <<flags, v_ttl, echo, looping, swallowing, connected, brokerSub,
                 up, retained, session, left>>

(* A new TTL on v_i_ttl_PUB_TOPIC.                                         *)
SetTtl(newTtl) ==
  /\ TcpIdle
  /\ brokerSub
  /\ newTtl # v_ttl
  /\ newTtl > 0      \* a period of 0 fails an assertion of the timer service
  /\ Spend("commands")
  /\ v_ttl' = newTtl
  /\ timerQ' = Daemon!Sent(timerQ, Daemon!ChangePeriod("ttl", newTtl))
  /\ UNCHANGED <<object, flags, running, echo, active, period, daemon,
                 looping, swallowing, link, session, history>>

OnMqttConnect ==
  /\ HasBroker
  /\ TcpIdle
  /\ Broker!LinkUp
  /\ pending_mqtt_subscribe' = TRUE
  /\ pending_relay_state' = TRUE
  /\ UNCHANGED <<object, flags, running, v_ttl, echo, timers, looping,
                 swallowing, suppressRetainedOn, left, history>>

OnMqttDisconnect ==
  /\ TcpIdle
  /\ connected
  /\ Spend("outages")
  /\ Broker!LinkDown
  /\ Miscounted(pendingEchoCount > 0)
  /\ pending_mqtt_subscribe' = FALSE
  /\ pending_relay_state' = FALSE
  /\ UNCHANGED <<object, flags, running, v_ttl, echo, timers, looping,
                 swallowing, suppressRetainedOn>>

-----------------------------------------------------------------------------
(* The timer daemon: fnTTL_CallBack() and fnTTA_CallBack().                *)
TtlTick ==
  /\ Daemon!Fires("ttl")
  /\ running_TTL' = running_TTL + 1
  /\ LET expired == running_TTL + 1 >= v_ttl
     IN  /\ ttl_expired' = (ttl_expired \/ expired)
         /\ daemon' = IF expired THEN "ttl" ELSE Daemon!AfterCallback(timerQ)
  /\ UNCHANGED <<object, tta_expired, running_TTA, v_ttl, echo, active, period,
                 timerQ, looping, swallowing, link, session, left, history>>

TtaTick ==
  /\ Daemon!Fires("tta")
  /\ running_TTA' = running_TTA + 1
  /\ LET expired == running_TTA + 1 >= VTta
     IN  /\ tta_expired' = (tta_expired \/ expired)
         /\ daemon' = IF expired THEN "tta" ELSE Daemon!AfterCallback(timerQ)
  /\ UNCHANGED <<object, ttl_expired, running_TTL, v_ttl, echo, active, period,
                 timerQ, looping, swallowing, link, session, left, history>>

(* The callback stops its timer once it has left the critical section.     *)
TickStop(t) ==
  /\ daemon = t
  /\ timerQ' = Daemon!Sent(timerQ, Daemon!Stop(t))
  /\ running_TTL' = IF t = "ttl" THEN 0 ELSE running_TTL
  /\ running_TTA' = IF t = "tta" THEN 0 ELSE running_TTA
  /\ daemon' = Daemon!AfterCallback(timerQ')
  /\ UNCHANGED <<object, flags, v_ttl, echo, active, period, looping,
                 swallowing, link, session, left, history>>

TimerCommand ==
  /\ Daemon!DaemonCommand
  /\ UNCHANGED <<object, flags, running, v_ttl, echo, looping, swallowing,
                 link, session, left, history>>

-----------------------------------------------------------------------------
(* The world outside: the broker, its other clients, the power supply.     *)

BrokerStep ==
  /\ Broker!BrokerReceive
  /\ UNCHANGED <<object, flags, running, v_ttl, echo, timers, looping,
                 swallowing, session, left, history>>

ForeignCommand(v, retain) ==
  /\ HasBroker
  /\ Spend("commands")
  /\ Broker!ForeignMessage(v, retain)
  /\ UNCHANGED <<object, flags, running, v_ttl, echo, timers, looping,
                 swallowing, session>>
  /\ Commanded

(* The board restarts.  The broker keeps the retained message and the      *)
(* relay's configuration file the TTL.                                     *)
Restart ==
  /\ Spend("restarts")
  /\ pin' = LOW
  /\ lockupdate' = FALSE
  /\ rchangedflag' = FALSE
  /\ ttl_expired' = FALSE
  /\ tta_expired' = FALSE
  /\ running_TTL' = 0
  /\ running_TTA' = 0
  /\ lastPub1State' = NotYet
  /\ pendingEchoCount' = 0
  /\ active' = [t \in {"ttl", "tta"} |-> FALSE]
  /\ period' = [t \in {"ttl", "tta"} |-> 1]
  /\ timerQ' = <<>>
  /\ daemon' = "wait"
  /\ lpc' = "session"
  /\ local' = NoFlags
  /\ curState' = LOW
  /\ loaded' = NotLoaded
  /\ swallowing' = NotLoaded
  /\ pending_mqtt_subscribe' = FALSE
  /\ pending_relay_state' = FALSE
  /\ suppressRetainedOn' \in Brownouts
  /\ uncommanded' = TRUE
  /\ dropped' = FALSE
  /\ undone' = FALSE
  /\ miscounted' = FALSE
  /\ Broker!LinkDown
  /\ UNCHANGED v_ttl

-----------------------------------------------------------------------------
LoopStep ==
  \/ SubscribeRelays
  \/ Announce \/ AnnouncePublish \/ NothingToAnnounce
  \/ WatchSnapshot
  \/ TtlOff \/ TtlPublish
  \/ TtaOn
  \/ Report \/ CountEcho \/ PublishLevel \/ ArmTtl
  \/ Overcurrent \/ NoOvercurrent
  \/ \E elapsed \in BOOLEAN : FreeLock(elapsed)
  \/ LoopService
  \/ \E v \in Levels : LocalWrite(v)
  \/ CalendarOff \/ ButtonClick \/ NoService

Message == SwallowLoad \/ SuppressOn \/ ApplyCommand

TcpStep ==
  \/ Message
  \/ SwallowStore
  \/ \E v \in Levels : HttpCommand(v)
  \/ \E newTtl \in Ttls : SetTtl(newTtl)
  \/ OnMqttConnect
  \/ OnMqttDisconnect

DaemonStep ==
  \/ TtlTick
  \/ TtaTick
  \/ \E t \in {"ttl", "tta"} : TickStop(t)
  \/ TimerCommand

WorldStep ==
  \/ BrokerStep
  \/ \E c \in ForeignCommands : ForeignCommand(c.val, c.retain)
  \/ Restart

Next == LoopStep \/ TcpStep \/ DaemonStep \/ WorldStep

(* Every task gets the CPU and every active timer fires; five seconds go   *)
(* by, and 10 ms; the broker is reached again after an outage.             *)
Fairness ==
  /\ WF_vars(LoopStep)
  /\ SF_vars(FreeLock(TRUE))
  /\ SF_vars(Announce)
  /\ WF_vars(Message)
  /\ WF_vars(SwallowStore)
  /\ WF_vars(OnMqttConnect)
  /\ WF_vars(TtlTick)
  /\ WF_vars(TtaTick)
  /\ \A t \in {"ttl", "tta"} : WF_vars(TickStop(t))
  /\ WF_vars(TimerCommand)
  /\ WF_vars(BrokerStep)

Spec == Init /\ [][Next]_vars /\ Fairness

-----------------------------------------------------------------------------
LoopPositions ==
  {"session", "announce", "announcePublish", "watch", "ttlOff", "ttlPublish",
   "ttaOn", "report", "countEcho", "publish", "arm", "acs", "freelock",
   "loopfunc", "services"}

TypeOK ==
  /\ pin \in Levels
  /\ {lockupdate, rchangedflag, ttl_expired, tta_expired} \subseteq BOOLEAN
  /\ running_TTL \in Nat /\ running_TTA \in Nat
  /\ v_ttl \in Ttls
  /\ lastPub1State \in Levels \cup {NotYet}
  /\ pendingEchoCount \in 0 .. EchoMod - 1
  /\ Daemon!TimersOK
  /\ lpc \in LoopPositions
  /\ local \in [ttl : BOOLEAN, tta : BOOLEAN, changed : BOOLEAN]
  /\ curState \in Levels
  /\ loaded \in {NotLoaded} \cup 0 .. EchoMod - 1
  /\ swallowing \in {NotLoaded} \cup 1 .. EchoMod - 1
  /\ Broker!LinkOK
  /\ {pending_mqtt_subscribe, pending_relay_state, suppressRetainedOn,
      uncommanded, dropped, undone, miscounted} \subseteq BOOLEAN

(* Nothing is on its way between the relay and the broker.                 *)
Quiet ==
  /\ connected /\ brokerSub
  /\ up = <<>> /\ down = <<>>
  /\ TcpIdle
  /\ ~pending_mqtt_subscribe /\ ~pending_relay_state
  /\ lpc = "session" /\ ~rchangedflag

(* When nothing is on its way, the message the broker keeps is the relay's *)
(* level: whatever the interleaving of commands, reports and echoes, the   *)
(* two do not end up saying different things (main.cpp:1013-1017 with      *)
(* MQTT_Processes.cpp:821-830).                                            *)
QuietMeansAgreed == Quiet => retained \in {pin, Broker!Nothing}

(* It holds, whatever is lost with the connection and however often the    *)
(* board restarts, unless the code loses what it needs for it: a message   *)
(* finds the write lock held (RelayClass.cpp:421) and is thrown away; a    *)
(* change is taken back before it was reported, so that the level differs  *)
(* from what the broker was told and not from lastPub1State; an echo is    *)
(* counted whose publication was not sent, or its arrival is overwritten   *)
(* by the ++ of the other task (main.cpp:1014-1017), so that the board     *)
(* swallows another message; or a publication is refused while connected.  *)
CountedRightAgreed ==
  \/ dropped \/ undone \/ miscounted
  \/ left.failures < MaxFailures
  \/ QuietMeansAgreed

(* A relay with a TTL does not stay on, unless its TTA keeps turning it on *)
(* (main.cpp:982-987 and 1172-1181, RelayClass.cpp:28-41): not when the    *)
(* lock drops the OFF, nor when a timer command is lost.                   *)
TtlTurnsOff == <>[](v_ttl > 0 /\ ~active["tta"]) => []<>(pin = LOW)

(* A relay that stays off is not counted down for ever (RelayClass.cpp:    *)
(* 32-39, main.cpp:1037): a stop that finds the queue full is repeated.    *)
CountdownStops == <>[](pin = LOW) => <>[]~active["ttl"]

(* No echo is answered by another message for ever: the board and the      *)
(* broker do not drive each other (main.cpp:1008-1018).                    *)
EchoesDieOut == <>[](up = <<>> /\ down = <<>>)

(* After a brownout the relay stays off until somebody commands it: no     *)
(* retained ON turns it on, however often the connection is lost, and also *)
(* if the OFF that replaces it is not sent (MQTT_Processes.cpp:835-841).   *)
BrownoutStaysOff == suppressRetainedOn /\ uncommanded => pin = LOW
=============================================================================
