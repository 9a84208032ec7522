---------------------------- MODULE MqttSession ----------------------------
(***************************************************************************)
(* How the board keeps its one MQTT connection.                            *)
(*                                                                         *)
(* Three parties share the globals of MQTT_Processes.cpp without a lock:   *)
(*   - the Arduino loop task, which opens connections (loop pc in lpc);    *)
(*   - the AsyncTCP task, which runs the callbacks of the MQTT library and *)
(*     the HTTP handlers that save the configuration or start an update;   *)
(*   - the WiFi event task, which notes that an address was obtained.      *)
(* Every step below is what one of them does between two points at which   *)
(* another one can change what it goes on to use.  A callback is one step. *)
(*                                                                         *)
(* Time is the iteration of loop(): the reconnect timer is due after       *)
(* Interval of them, an attempt is stuck after Patience.  The backoff only *)
(* makes the interval longer and is left out, and so are the publications  *)
(* of the home-assistant discovery and of the inputs' initial status       *)
(* (pending_input_status_publish is never set).                            *)
(***************************************************************************)
EXTENDS Integers

CONSTANTS
  Relays,       \* relays.size()
  MaxMisses,    \* mqttHealthMaxMisses
  Interval,     \* iterations until tiker_MQTT_CONNECT fires
  Patience,     \* iterations until an attempt counts as stuck (60 s)
  UsesVpn,      \* the broker is reached through the tunnel
  MaxRefusals,  \* bound: health publications the library refuses
  MaxEvents     \* bound: connections and attempts that fail, losses of the WiFi
                \* or the tunnel, configurations saved, uploads begun, together

ASSUME SessionAssumption ==
  /\ Relays \in Nat \ {0} /\ MaxMisses \in Nat \ {0}
  /\ Interval \in Nat \ {0} /\ Patience \in Nat \ {0}
  /\ UsesVpn \in BOOLEAN /\ MaxRefusals \in Nat /\ MaxEvents \in Nat

Off  == -1       \* of a timer or a start time: not running, 0 in the code
Idle == -1       \* of pending_relay_state_idx
States == {"disconnected", "connecting", "connected", "disconnecting"}

VARIABLES
  net,      \* what the others decide: [wifi, gotIp, tunnel, enabled, stopped]
  mqtt,     \* the globals of MQTT_Processes.cpp and main.cpp
  client,   \* the library: [state, socket, alive, subscribed, echoes]
  lpc,      \* where the loop task is
  back,     \* where connectToMqtt() returns to
  loaded,   \* the loop task's copy of mqttHealthMisses or of the index
  unanswered, \* history: no echo has come since the last ping
  late,     \* history: health checks in a row that began unanswered
  left      \* what is left of each bound

vars == <<net, mqtt, client, lpc, back, loaded, unanswered, late, left>>

Loop     == <<lpc, back, loaded>>
History  == <<unanswered, late>>
Outside  == <<net, client, left, unanswered, late>>

------------------------------------------------------------------------------
(* Values *)

\* The library without a connection, and the globals after a start.
NoConnection == [state |-> "disconnected", socket |-> FALSE, alive |-> FALSE,
                 subscribed |-> FALSE, echoes |-> 0]
AfterBoot == [connecting |-> FALSE, startedAt |-> Off, timer |-> Off,
              request |-> FALSE, subscribe |-> FALSE, idx |-> Idle,
              awaiting |-> FALSE, misses |-> 0]

Connected   == client.state = "connected"
RouteReady  == net.tunnel
Stuck       == mqtt.connecting /\ mqtt.startedAt >= Patience
StartTimer(m) == [m EXCEPT !.timer = 0]
\* What every function does that finds the client connected.
Settled(m)  == [m EXCEPT !.timer = Off, !.connecting = FALSE, !.startedAt = Off]

\* disconnect(): the DISCONNECT packet waits its turn in the send queue.
Disconnect(c) == [c EXCEPT !.state = IF @ = "disconnected" THEN @ ELSE "disconnecting"]

OnMqttDisconnect(m) ==
  [m EXCEPT !.connecting = FALSE, !.startedAt = Off, !.subscribe = FALSE,
            !.idx = Idle, !.awaiting = FALSE, !.misses = 0,
            !.timer = IF ~net.stopped /\ net.enabled /\ net.wifi THEN 0 ELSE @]

\* disconnect(true): closes at once and calls back from there, if there is a
\* socket to close.
Forced(m) == IF client.socket THEN OnMqttDisconnect(m) ELSE m
ResetStuckConnectionAttempt ==
  /\ mqtt' = [Forced(mqtt) EXCEPT !.connecting = FALSE, !.startedAt = Off,
                                  !.subscribe = FALSE, !.awaiting = FALSE]
  /\ client' = NoConnection

\* The configuration as it is now; rerouted: it asks for another route.
ApplyMqttActiveState(m, enabled, rerouted) ==
  IF net.stopped THEN mqtt' = m /\ UNCHANGED client
  ELSE IF ~enabled THEN
    /\ mqtt' = [m EXCEPT !.subscribe = FALSE, !.idx = Idle, !.awaiting = FALSE,
                         !.misses = 0, !.connecting = FALSE, !.timer = Off]
    /\ client' = IF Connected THEN Disconnect(client) ELSE client
  ELSE IF Connected /\ rerouted THEN
    mqtt' = StartTimer(m) /\ client' = Disconnect(client)
  ELSE
    /\ mqtt' = IF net.wifi /\ ~Connected /\ ~m.connecting THEN StartTimer(m) ELSE m
    /\ UNCHANGED client

Init ==
  /\ net \in [wifi : {FALSE}, gotIp : {FALSE}, tunnel : {~UsesVpn},
              enabled : BOOLEAN, stopped : {FALSE}]
  /\ mqtt = AfterBoot /\ client = NoConnection
  /\ lpc = "top" /\ back = "end" /\ loaded = 0
  /\ unanswered = FALSE /\ late = 0
  /\ left = [refusals |-> MaxRefusals, events |-> MaxEvents]

\* The loop task goes on at pc; Call runs connectToMqtt(), which returns to
\* return.  What is no longer of use in back and loaded is forgotten.
Goto(pc) == /\ lpc' = pc /\ loaded' = 0
            /\ back' = IF pc \in {"already", "begin", "open"} THEN back ELSE "end"
Call(pc, return) == lpc' = pc /\ back' = return /\ loaded' = 0
Return     == Goto(back)
Load(pc, v) == lpc' = pc /\ loaded' = v /\ back' = "end"
Restart ==
  /\ Goto("top")
  /\ net' = [net EXCEPT !.wifi = FALSE, !.gotIp = FALSE, !.stopped = FALSE,
                        !.tunnel = ~UsesVpn]
  /\ mqtt' = AfterBoot /\ client' = NoConnection
  /\ unanswered' = FALSE /\ late' = 0
  /\ UNCHANGED left
Spend(what) == left[what] > 0 /\ left' = [left EXCEPT ![what] = @ - 1]

------------------------------------------------------------------------------
(* The loop task: servicePendingWifiConnected(), wireGuardLoop() *)

ServicePendingWifiConnected ==
  /\ lpc = "top" /\ Goto("vpn")
  /\ net' = [net EXCEPT !.gotIp = FALSE]
  /\ mqtt' = IF net.gotIp THEN [mqtt EXCEPT !.request = net.enabled] ELSE mqtt
  /\ UNCHANGED <<client, unanswered, late, left>>

\* Nothing new from the tunnel, or the tunnel is found down.
WireGuardLoop ==
  /\ lpc = "vpn" /\ Goto("pending")
  /\ \/ UNCHANGED <<net, left>>
     \/ /\ UsesVpn /\ net.tunnel /\ Spend("events")
        /\ net' = [net EXCEPT !.tunnel = FALSE]
  /\ UNCHANGED <<mqtt, client, unanswered, late>>

\* The tunnel's network-up callback: mqttConnectNow().
TunnelUp ==
  /\ lpc = "vpn" /\ net.wifi /\ ~net.tunnel
  /\ net' = [net EXCEPT !.tunnel = TRUE]
  /\ \/ /\ net.enabled /\ ~net.stopped /\ ~Connected /\ ~mqtt.connecting
        /\ mqtt' = [mqtt EXCEPT !.timer = Off]
        /\ Call("test", "pending")
     \/ /\ net.enabled /\ ~net.stopped /\ Connected
        /\ Call("already", "pending") /\ UNCHANGED mqtt
     \/ /\ ~net.enabled \/ net.stopped \/ (~Connected /\ mqtt.connecting)
        /\ Goto("pending") /\ UNCHANGED mqtt
  /\ UNCHANGED <<client, unanswered, late, left>>

------------------------------------------------------------------------------
(* The loop task: connectToMqtt() *)

TestConnect ==
  /\ lpc = "test"
  /\ \/ /\ net.stopped \/ ~net.enabled
        /\ ApplyMqttActiveState(mqtt, net.enabled, FALSE) /\ Return
     \/ /\ ~net.stopped /\ net.enabled /\ ~RouteReady
        /\ mqtt' = StartTimer(mqtt) /\ UNCHANGED client /\ Return
     \/ /\ ~net.stopped /\ net.enabled /\ RouteReady
        /\ \/ Connected /\ UNCHANGED <<mqtt, client>> /\ Goto("already")
           \/ ~Connected /\ Stuck /\ ResetStuckConnectionAttempt /\ Goto("begin")
           \/ /\ ~Connected /\ mqtt.connecting /\ ~Stuck
              /\ UNCHANGED <<mqtt, client>> /\ Return
           \/ /\ ~Connected /\ ~mqtt.connecting
              /\ UNCHANGED <<mqtt, client>> /\ Goto("begin")
  /\ UNCHANGED <<net, unanswered, late, left>>

AlreadyConnected ==
  /\ lpc = "already" /\ Return
  /\ mqtt' = Settled(mqtt)
  /\ UNCHANGED Outside

BeginAttempt ==
  /\ lpc = "begin" /\ Goto("open")
  /\ mqtt' = [mqtt EXCEPT !.connecting = TRUE, !.startedAt = 0]
  /\ UNCHANGED Outside

\* connect() returns at once unless the client is DISCONNECTED; it does not
\* say so if no socket could be had or the name not be looked up.
OpenConnection ==
  /\ lpc = "open" /\ Return
  /\ \/ /\ client.state = "disconnected"
        /\ client' = [NoConnection EXCEPT !.state = "connecting", !.socket = TRUE]
        /\ UNCHANGED left
     \/ /\ client.state = "disconnected" /\ Spend("events")
        /\ client' = [NoConnection EXCEPT !.state = "connecting"]
     \/ /\ client.state # "disconnected"
        /\ UNCHANGED <<client, left>>
  /\ UNCHANGED <<net, mqtt, unanswered, late>>

------------------------------------------------------------------------------
(* The loop task: serviceMqttPending() *)

ServiceRequest ==
  /\ lpc = "pending"
  /\ LET m == IF net.enabled THEN mqtt
              ELSE [mqtt EXCEPT !.subscribe = FALSE, !.idx = Idle]
         answered == [m EXCEPT !.request = FALSE]
     IN \/ /\ net.stopped /\ Goto("end") /\ UNCHANGED <<mqtt, client>>
        \/ /\ ~net.stopped /\ ~mqtt.request
           /\ mqtt' = m /\ Goto("subscribe") /\ UNCHANGED client
        \/ /\ ~net.stopped /\ mqtt.request /\ net.enabled
           /\ mqtt' = answered /\ Call("test", "subscribe") /\ UNCHANGED client
        \/ /\ ~net.stopped /\ mqtt.request /\ ~net.enabled
           /\ ApplyMqttActiveState(answered, FALSE, FALSE) /\ Goto("subscribe")
  /\ UNCHANGED <<net, unanswered, late, left>>

ServiceSubscribe ==
  /\ lpc = "subscribe"
  /\ \/ /\ mqtt.subscribe /\ net.enabled /\ Connected
        /\ mqtt' = [mqtt EXCEPT !.subscribe = FALSE] /\ Goto("subscribing")
     \/ /\ ~(mqtt.subscribe /\ net.enabled /\ Connected)
        /\ UNCHANGED mqtt /\ Goto("announce")
  /\ UNCHANGED Outside

MqttSubscribeRelays ==
  /\ lpc = "subscribing" /\ Goto("announce")
  /\ client' = [client EXCEPT !.subscribed = @ \/ (net.enabled /\ Connected)]
  /\ UNCHANGED <<net, mqtt, unanswered, late, left>>

\* One relay's state is due, or it is not its time yet.
TestIndex ==
  /\ lpc = "announce"
  /\ \/ mqtt.idx >= 0 /\ net.enabled /\ Connected /\ Goto("bound")
     \/ Goto("health")
  /\ UNCHANGED <<mqtt, Outside>>

\* A slip, not in the code: the index may be the size.
TestBoundInclusive ==
  /\ lpc = "bound"
  /\ \/ mqtt.idx \in 0..Relays /\ Goto("publish") /\ UNCHANGED mqtt
     \/ /\ mqtt.idx \notin 0..Relays /\ Goto("health")
        /\ mqtt' = [mqtt EXCEPT !.idx = Idle]
  /\ UNCHANGED Outside

TestBound ==
  /\ lpc = "bound"
  /\ \/ mqtt.idx \in 0..(Relays - 1) /\ Goto("publish") /\ UNCHANGED mqtt
     \/ /\ mqtt.idx \notin 0..(Relays - 1) /\ Goto("health")
        /\ mqtt' = [mqtt EXCEPT !.idx = Idle]
  /\ UNCHANGED Outside

\* relays[pending_relay_state_idx] with the index that is there now.  Idle is
\* none: what lies before the vector may pass for a relay, or stop the board.
PublishRelay ==
  /\ lpc = "publish"
  /\ \/ Goto("load") /\ UNCHANGED <<mqtt, Outside>>
     \/ mqtt.idx = Idle /\ Restart

LoadIndex ==
  /\ lpc = "load" /\ Load("store", mqtt.idx)
  /\ UNCHANGED <<mqtt, Outside>>

StoreIndex ==
  /\ lpc = "store" /\ Goto("health")
  /\ mqtt' = [mqtt EXCEPT !.idx = loaded + 1]
  /\ UNCHANGED Outside

------------------------------------------------------------------------------
(* The loop task: mqttHealthCheck() *)

TestHealth ==
  /\ lpc = "health"
  /\ \/ net.stopped /\ UNCHANGED mqtt /\ Goto("ticker")
     \/ /\ net.stopped /\ Goto("ticker")      \* stopped since loop() asked
        /\ mqtt' = [AfterBoot EXCEPT !.request = mqtt.request,
                                     !.startedAt = mqtt.startedAt]
     \/ /\ ~net.stopped /\ ~(net.enabled /\ net.wifi) /\ Goto("ticker")
        /\ mqtt' = [mqtt EXCEPT !.awaiting = FALSE, !.misses = 0]
     \/ /\ ~net.stopped /\ net.enabled /\ net.wifi /\ ~Connected /\ Goto("down")
        /\ mqtt' = [mqtt EXCEPT !.awaiting = FALSE]
     \/ /\ ~net.stopped /\ net.enabled /\ net.wifi /\ Connected /\ Goto("up")
        /\ UNCHANGED mqtt
  /\ UNCHANGED Outside

ResetIfStuck ==
  /\ lpc = "down" /\ Goto("arm")
  /\ IF Stuck THEN ResetStuckConnectionAttempt ELSE UNCHANGED <<mqtt, client>>
  /\ UNCHANGED <<net, unanswered, late, left>>

\* A slip, not in the code: the timer is started in every iteration.
ArmReconnectTimerAlways ==
  /\ lpc = "arm" /\ Goto("ticker")
  /\ mqtt' = IF ~mqtt.connecting THEN StartTimer(mqtt) ELSE mqtt
  /\ UNCHANGED Outside

\* Only a stopped timer is started: start() begins the interval anew.
ArmReconnectTimer ==
  /\ lpc = "arm" /\ Goto("ticker")
  /\ mqtt' = IF ~mqtt.connecting /\ mqtt.timer = Off THEN StartTimer(mqtt) ELSE mqtt
  /\ UNCHANGED Outside

HealthNotDue ==
  /\ lpc = "up" /\ Goto("ticker")
  /\ mqtt' = Settled(mqtt)
  /\ UNCHANGED Outside

HealthDue ==
  /\ lpc = "up"
  /\ mqtt' = Settled(mqtt)
  /\ late' = IF unanswered /\ late < MaxMisses THEN late + 1
             ELSE IF unanswered THEN late ELSE 0
  /\ IF mqtt.awaiting THEN Load("missed", mqtt.misses) ELSE Goto("ping")
  /\ UNCHANGED <<net, client, unanswered, left>>

CountMiss ==
  /\ lpc = "missed" /\ Goto("judge")
  /\ mqtt' = [mqtt EXCEPT !.misses = loaded + 1]
  /\ UNCHANGED Outside

JudgeMisses ==
  /\ lpc = "judge"
  /\ \/ /\ mqtt.misses < MaxMisses
        /\ Goto("ping") /\ UNCHANGED <<mqtt, client>>
     \/ /\ mqtt.misses >= MaxMisses /\ Goto("ticker")
        /\ mqtt' = [mqtt EXCEPT !.awaiting = FALSE, !.misses = 0, !.subscribe = FALSE,
                                !.connecting = FALSE, !.timer = 0]
        /\ client' = Disconnect(client)
  /\ UNCHANGED <<net, unanswered, late, left>>

\* Did the library take the publication?  Echoes beyond MaxMisses on their way
\* are not told apart.
SendPing(taken) ==
  /\ client' = IF taken /\ client.subscribed /\ client.echoes < MaxMisses
               THEN [client EXCEPT !.echoes = @ + 1] ELSE client
  /\ unanswered' = (unanswered \/ taken)

PublishPing ==
  /\ lpc = "ping"
  /\ \/ Connected /\ SendPing(TRUE) /\ Goto("await") /\ UNCHANGED left
     \/ Connected /\ SendPing(FALSE) /\ Goto("ticker") /\ Spend("refusals")
     \/ ~Connected /\ SendPing(FALSE) /\ Goto("ticker") /\ UNCHANGED left
  /\ UNCHANGED <<net, mqtt, late>>

AwaitEcho ==
  /\ lpc = "await" /\ Goto("ticker")
  /\ mqtt' = [mqtt EXCEPT !.awaiting = TRUE]
  /\ UNCHANGED Outside

------------------------------------------------------------------------------
(* The loop task: tiker_MQTT_CONNECT, and the end of the iteration *)

TimerFires == ~net.stopped /\ net.enabled /\ mqtt.timer >= Interval

UpdateTicker ==
  /\ lpc = "ticker"
  /\ \/ ~TimerFires /\ Goto("end") /\ UNCHANGED mqtt
     \/ /\ TimerFires /\ mqtt' = StartTimer(mqtt)    \* lastTime = now
        /\ \/ Connected /\ Call("already", "end")
           \/ ~Connected /\ net.wifi /\ Call("test", "end")
           \/ ~Connected /\ ~net.wifi /\ Goto("end")
  /\ UNCHANGED Outside

Older(age, limit) == IF age \in 0..(limit - 1) THEN age + 1 ELSE age

NextIteration ==
  /\ lpc = "end" /\ Goto("top")
  /\ mqtt' = [mqtt EXCEPT !.timer = Older(@, Interval), !.startedAt = Older(@, Patience)]
  /\ UNCHANGED Outside

\* After the upload, failed or not, serviceRestartRequired() starts the board
\* anew.
ServiceRestartRequired ==
  /\ lpc = "end" /\ net.stopped /\ Restart

LoopStep ==
  \/ ServicePendingWifiConnected \/ WireGuardLoop \/ TunnelUp
  \/ TestConnect \/ AlreadyConnected \/ BeginAttempt \/ OpenConnection
  \/ ServiceRequest \/ ServiceSubscribe \/ MqttSubscribeRelays
  \/ TestIndex \/ TestBound \/ PublishRelay \/ LoadIndex \/ StoreIndex
  \/ TestHealth \/ ResetIfStuck \/ ArmReconnectTimer \/ HealthNotDue \/ HealthDue
  \/ CountMiss \/ JudgeMisses \/ PublishPing \/ AwaitEcho
  \/ UpdateTicker \/ NextIteration

------------------------------------------------------------------------------
(* The AsyncTCP task: callbacks of the library *)

\* A slip, not in the code: nobody asks whether MQTT is still wanted.
OnMqttConnectUnasked ==
  /\ client.state = "connecting" /\ client.socket /\ net.wifi
  /\ client' = [client EXCEPT !.state = "connected", !.alive = TRUE]
  /\ mqtt' = [Settled(mqtt) EXCEPT !.awaiting = FALSE, !.misses = 0,
                                   !.subscribe = TRUE, !.idx = 0]
  /\ unanswered' = FALSE /\ late' = 0
  /\ UNCHANGED <<net, Loop, left>>

\* CONNACK: the client is connected, then onMqttConnect() runs.
OnMqttConnect ==
  /\ client.state = "connecting" /\ client.socket /\ net.wifi
  /\ LET up == [client EXCEPT !.state = "connected", !.alive = TRUE]
         m  == [mqtt EXCEPT !.connecting = FALSE]
     IN \/ net.stopped /\ mqtt' = m /\ client' = Disconnect(up)
        \/ /\ ~net.stopped /\ ~net.enabled /\ client' = Disconnect(up)
           /\ mqtt' = [m EXCEPT !.subscribe = FALSE, !.idx = Idle, !.awaiting = FALSE,
                                !.misses = 0, !.timer = Off]
        \/ /\ ~net.stopped /\ net.enabled /\ client' = up
           /\ mqtt' = [Settled(m) EXCEPT !.awaiting = FALSE, !.misses = 0,
                                         !.subscribe = TRUE, !.idx = 0]
  /\ unanswered' = FALSE /\ late' = 0
  /\ UNCHANGED <<net, Loop, left>>

\* The connection is closed: by the other side, or because a session of ours
\* that is ending has got its DISCONNECT through.
ConnectionClosed ==
  /\ client.socket
  /\ \/ Spend("events")
     \/ UNCHANGED left /\ client.state = "disconnecting"
     \/ UNCHANGED left /\ client.state = "connected" /\ ~client.alive
  /\ client' = NoConnection
  /\ mqtt' = OnMqttDisconnect(mqtt)
  /\ UNCHANGED <<net, Loop, History>>

\* The other side goes without a word.
BrokerFallsSilent ==
  /\ client.alive /\ Spend("events")
  /\ client' = [client EXCEPT !.alive = FALSE]
  /\ UNCHANGED <<net, mqtt, Loop, History>>

\* A slip, not in the code: an echo does not take back the misses before it.
OnHealthEchoKeepsMisses ==
  /\ client.socket /\ client.alive /\ net.wifi /\ client.echoes > 0
  /\ client.state \in {"connected", "disconnecting"}
  /\ client' = [client EXCEPT !.echoes = @ - 1]
  /\ mqtt' = IF net.stopped \/ ~net.enabled THEN mqtt
             ELSE [mqtt EXCEPT !.awaiting = FALSE]
  /\ unanswered' = FALSE
  /\ UNCHANGED <<net, Loop, late, left>>

\* onMqttMessage() for the health topic.
OnHealthEcho ==
  /\ client.socket /\ client.alive /\ net.wifi /\ client.echoes > 0
  /\ client.state \in {"connected", "disconnecting"}
  /\ client' = [client EXCEPT !.echoes = @ - 1]
  /\ mqtt' = IF net.stopped \/ ~net.enabled THEN mqtt
             ELSE [mqtt EXCEPT !.awaiting = FALSE, !.misses = 0]
  /\ unanswered' = FALSE
  /\ UNCHANGED <<net, Loop, late, left>>

------------------------------------------------------------------------------
(* The AsyncTCP task: HTTP; the WiFi event task *)

SaveConfig ==
  /\ Spend("events")
  /\ \E enabled, rerouted \in BOOLEAN :
       /\ net' = [net EXCEPT !.enabled = enabled]
       /\ ApplyMqttActiveState(mqtt, enabled, rerouted)
  /\ UNCHANGED <<Loop, History>>

MqttStopForFirmwareUpdate ==
  /\ Spend("events") /\ ~net.stopped
  /\ net' = [net EXCEPT !.stopped = TRUE]
  /\ mqtt' = [AfterBoot EXCEPT !.request = mqtt.request]
  /\ client' = IF Connected THEN Disconnect(client) ELSE client
  /\ UNCHANGED <<Loop, History>>

WiFiGotIP ==
  /\ ~net.wifi
  /\ net' = [net EXCEPT !.wifi = TRUE, !.gotIp = TRUE]
  /\ UNCHANGED <<mqtt, client, Loop, History, left>>

WiFiDisconnected ==
  /\ net.wifi /\ Spend("events")
  /\ net' = [net EXCEPT !.wifi = FALSE, !.gotIp = FALSE]
  /\ client' \in {client, [client EXCEPT !.alive = FALSE]}
  /\ UNCHANGED <<mqtt, Loop, History>>

------------------------------------------------------------------------------
(* The specification *)

Next ==
  \/ LoopStep \/ ServiceRestartRequired
  \/ OnMqttConnect \/ ConnectionClosed \/ BrokerFallsSilent \/ OnHealthEcho
  \/ SaveConfig \/ MqttStopForFirmwareUpdate \/ WiFiGotIP \/ WiFiDisconnected

\* The loop goes round, health checks come due again and again, and a broker
\* that is tried again and again answers at last.  That a session which is
\* ending gets its DISCONNECT through is not assumed: the packet may wait for
\* an acknowledgement that never comes.
Fairness ==
  /\ WF_vars(LoopStep)
  /\ SF_vars(HealthDue)
  /\ SF_vars(OnMqttConnect)
  /\ WF_vars(OnHealthEcho)

Spec == Init /\ [][Next]_vars /\ Fairness

------------------------------------------------------------------------------
(* Properties *)

\* Types.
TypeOK ==
  /\ net \in [wifi : BOOLEAN, gotIp : BOOLEAN, tunnel : BOOLEAN,
              enabled : BOOLEAN, stopped : BOOLEAN]
  /\ mqtt \in [connecting : BOOLEAN, startedAt : Off..Patience, timer : Off..Interval,
               request : BOOLEAN, subscribe : BOOLEAN, idx : Idle..Relays,
               awaiting : BOOLEAN, misses : 0..MaxMisses]
  /\ client \in [state : States, socket : BOOLEAN, alive : BOOLEAN,
                 subscribed : BOOLEAN, echoes : 0..MaxMisses]
  /\ loaded \in -1..(MaxMisses + Relays)
  /\ unanswered \in BOOLEAN /\ late \in 0..MaxMisses

\* With the network up, MQTT wanted and no upload going on, a session with a
\* broker that answers, and with the command topics subscribed, always comes
\* back: after any connection that ended, fell silent or never came about
\* (mqttHealthCheck(), connectToMqtt(), onMqttDisconnect()).
Recovers ==
  <>[](net.wifi /\ net.tunnel /\ net.enabled /\ ~net.stopped)
    => []<>(Connected /\ client.alive /\ client.subscribed)

\* Once MQTT is switched off, or an upload has begun, the session ends for
\* good, even if the order came while a connection was being opened
\* (applyMqttActiveState(), mqttStopForFirmwareUpdate(), onMqttConnect()).
StaysDown ==
  <>[](net.stopped \/ ~net.enabled) => <>[](~Connected)

\* The health check drops a session only after MaxMisses - 1 checks in a row
\* that each began with a ping still without its echo, as long as the library
\* refused no publication; and never without such a check, unless it refused
\* MaxMisses - 1.  One miss less, because mqttHealthAwaitingEcho is set after the
\* publication and may be set after the echo.  A refused publication leaves the
\* flag as it was, and after one the misses before an echo may still count: the
\* echo came between the steps of a check (mqttHealthCheck(), onMqttMessage()).
Drop     == JudgeMisses /\ client' # client
Refused  == MaxRefusals - left.refusals
LiveBrokerKept ==
  [][Drop => /\ Refused = 0 => late >= MaxMisses - 1
             /\ late = 0 => Refused >= MaxMisses - 1]_vars

\* "A ping that was never sent can't be echoed back; marking it as awaiting
\* would count it as a miss and eventually trigger a spurious
\* force-disconnect": so it does, when the flag is still set from before.
RefusalsAddNoMiss == [][Drop => late >= MaxMisses - 1]_vars
==============================================================================
