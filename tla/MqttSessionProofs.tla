------------------------- MODULE MqttSessionProofs -------------------------
(***************************************************************************)
(* What holds of the MQTT session for every number of relays, of misses    *)
(* and of failures.                                                        *)
(***************************************************************************)
EXTENDS MqttSession, TLAPS

------------------------------------------------------------------------------
(* Types *)

\* What the types rest on besides themselves.  The count of misses is below its
\* limit except just before it is judged, and so is what the loop task holds of
\* it; an index is tested before it is used, and so is what it holds of that.
LoopSound ==
  /\ back \in {"end", "pending", "subscribe"}
  /\ lpc # "judge" => mqtt.misses < MaxMisses
  /\ lpc = "missed" => loaded \in 0..(MaxMisses - 1)
  /\ lpc \in {"publish", "load"} => mqtt.idx < Relays
  /\ lpc = "store" => loaded \in -1..(Relays - 1)

LeftType == left \in [refusals : 0..MaxRefusals, events : 0..MaxEvents]

TypeInv == TypeOK /\ LoopSound /\ LeftType

NetType == [wifi : BOOLEAN, gotIp : BOOLEAN, tunnel : BOOLEAN,
            enabled : BOOLEAN, stopped : BOOLEAN]
MqttType == [connecting : BOOLEAN, startedAt : Off..Patience, timer : Off..Interval,
             request : BOOLEAN, subscribe : BOOLEAN, idx : Idle..Relays,
             awaiting : BOOLEAN, misses : 0..MaxMisses]
ClientType == [state : States, socket : BOOLEAN, alive : BOOLEAN,
               subscribed : BOOLEAN, echoes : 0..MaxMisses]
Returns == {"end", "pending", "subscribe"}

\* What one assignment to a field leaves of a record's type.
LEMMA MqttUpdates ==
  ASSUME NEW m \in MqttType
  PROVE  /\ \A v \in BOOLEAN : /\ [m EXCEPT !.connecting = v] \in MqttType
                              /\ [m EXCEPT !.request = v] \in MqttType
                              /\ [m EXCEPT !.subscribe = v] \in MqttType
                              /\ [m EXCEPT !.awaiting = v] \in MqttType
         /\ \A v \in Off..Interval : [m EXCEPT !.timer = v] \in MqttType
         /\ \A v \in Off..Patience : [m EXCEPT !.startedAt = v] \in MqttType
         /\ \A v \in Idle..Relays : [m EXCEPT !.idx = v] \in MqttType
         /\ \A v \in 0..MaxMisses : [m EXCEPT !.misses = v] \in MqttType
  BY DEF MqttType

LEMMA ClientUpdates ==
  ASSUME NEW c \in ClientType
  PROVE  /\ \A v \in BOOLEAN : /\ [c EXCEPT !.socket = v] \in ClientType
                              /\ [c EXCEPT !.alive = v] \in ClientType
                              /\ [c EXCEPT !.subscribed = v] \in ClientType
         /\ \A v \in States : [c EXCEPT !.state = v] \in ClientType
         /\ \A v \in 0..MaxMisses : [c EXCEPT !.echoes = v] \in ClientType
  BY DEF ClientType

LEMMA NetUpdates ==
  ASSUME NEW n \in NetType
  PROVE  \A v \in BOOLEAN : /\ [n EXCEPT !.wifi = v] \in NetType
                          /\ [n EXCEPT !.gotIp = v] \in NetType
                          /\ [n EXCEPT !.tunnel = v] \in NetType
                          /\ [n EXCEPT !.enabled = v] \in NetType
                          /\ [n EXCEPT !.stopped = v] \in NetType
  BY DEF NetType

LEMMA Fields ==
  /\ \A n \in NetType : /\ n.wifi \in BOOLEAN /\ n.enabled \in BOOLEAN
                       /\ n.stopped \in BOOLEAN
  /\ \A m \in MqttType : /\ m.idx \in Idle..Relays /\ m.misses \in 0..MaxMisses
                        /\ m.timer \in Off..Interval /\ m.startedAt \in Off..Patience
                        /\ m.request \in BOOLEAN
  /\ \A c \in ClientType : /\ c.echoes \in 0..MaxMisses /\ c.subscribed \in BOOLEAN
                          /\ c.state \in States
  BY DEF NetType, MqttType, ClientType

LEMMA Bounds ==
  /\ Off \in Off..Interval /\ 0 \in Off..Interval
  /\ Off \in Off..Patience /\ 0 \in Off..Patience
  /\ Idle \in Idle..Relays /\ 0 \in Idle..Relays /\ 0 \in 0..MaxMisses
  /\ "disconnected" \in States /\ "connecting" \in States
  /\ "connected" \in States /\ "disconnecting" \in States
  BY SessionAssumption DEF Off, Idle, States

\* What every function leaves of the globals, but for the loop task's own count:
\* the index and the misses are kept or reset.
Milder(m, n) ==
  /\ n \in MqttType
  /\ n.misses = m.misses \/ n.misses = 0
  /\ n.idx = m.idx \/ n.idx = 0 \/ n.idx = Idle

LEMMA MilderTwice ==
  ASSUME NEW l, NEW m, NEW n, Milder(l, m), Milder(m, n) PROVE Milder(l, n)
  BY DEF Milder

LEMMA Values ==
  /\ NoConnection \in ClientType
  /\ AfterBoot \in MqttType /\ AfterBoot.misses = 0 /\ AfterBoot.idx = Idle
<1>1. NoConnection \in ClientType
  BY SessionAssumption DEF NoConnection, ClientType, States
<1>2. AfterBoot \in MqttType /\ AfterBoot.misses = 0 /\ AfterBoot.idx = Idle
  BY SessionAssumption DEF AfterBoot, MqttType, Off, Idle
<1> QED
  BY <1>1, <1>2

LEMMA FunctionsAreMild ==
  ASSUME NEW m \in MqttType
  PROVE  /\ Milder(m, m) /\ Milder(m, StartTimer(m)) /\ Milder(m, Settled(m))
         /\ Milder(m, OnMqttDisconnect(m)) /\ Milder(m, Forced(m))
<1>1. Milder(m, m)
  BY DEF Milder
<1>2. Milder(m, StartTimer(m))
  <2>1. StartTimer(m) \in MqttType
    BY MqttUpdates, Bounds DEF StartTimer
  <2>2. StartTimer(m).misses = m.misses /\ StartTimer(m).idx = m.idx
    BY DEF StartTimer, MqttType
  <2> QED
    BY <2>1, <2>2 DEF Milder
<1>3. Milder(m, Settled(m))
  <2>1. Settled(m) \in MqttType
    BY MqttUpdates, Bounds DEF Settled
  <2>2. Settled(m).misses = m.misses /\ Settled(m).idx = m.idx
    BY DEF Settled, MqttType
  <2> QED
    BY <2>1, <2>2 DEF Milder
<1>4. Milder(m, OnMqttDisconnect(m))
  <2>1. OnMqttDisconnect(m) \in MqttType
    BY MqttUpdates, Bounds, Fields DEF OnMqttDisconnect
  <2>2. OnMqttDisconnect(m).misses = 0 /\ OnMqttDisconnect(m).idx = Idle
    BY DEF OnMqttDisconnect, MqttType
  <2> QED
    BY <2>1, <2>2 DEF Milder
<1> QED
  BY <1>1, <1>2, <1>3, <1>4 DEF Forced

LEMMA DisconnectTypes == ASSUME NEW c \in ClientType PROVE Disconnect(c) \in ClientType
  BY ClientUpdates, Bounds, Fields DEF Disconnect

LEMMA SpendTypes ==
  ASSUME LeftType, \/ Spend("events") \/ Spend("refusals") \/ UNCHANGED left
  PROVE  LeftType'
<1>1. left.refusals \in 0..MaxRefusals /\ left.events \in 0..MaxEvents
  BY DEF LeftType
<1>2. CASE Spend("events")
  BY <1>1, <1>2, SessionAssumption DEF LeftType, Spend
<1>3. CASE Spend("refusals")
  BY <1>1, <1>3, SessionAssumption DEF LeftType, Spend
<1> QED
  BY <1>2, <1>3 DEF LeftType

LEMMA ResetTypes ==
  ASSUME TypeInv, ResetStuckConnectionAttempt
  PROVE  client' \in ClientType /\ Milder(mqtt, mqtt')
<1>1. mqtt \in MqttType
  BY DEF TypeInv, TypeOK, MqttType
<1>2. Milder(mqtt, Forced(mqtt))
  BY <1>1, FunctionsAreMild
<1> DEFINE f == Forced(mqtt)
<1>3. f \in MqttType /\ mqtt' = [f EXCEPT !.connecting = FALSE, !.startedAt = Off,
                                  !.subscribe = FALSE, !.awaiting = FALSE]
  BY <1>2 DEF ResetStuckConnectionAttempt, Milder
<1> HIDE DEF f
<1>4. mqtt' \in MqttType
  BY <1>3, MqttUpdates, Bounds
<1>5. mqtt'.misses = f.misses /\ mqtt'.idx = f.idx
  BY <1>3 DEF MqttType
<1> QED
  BY <1>2, <1>4, <1>5, Values DEF ResetStuckConnectionAttempt, Milder, f

LEMMA ApplyTypes ==
  ASSUME TypeInv, NEW m, Milder(mqtt, m), NEW enabled \in BOOLEAN,
         NEW rerouted \in BOOLEAN, ApplyMqttActiveState(m, enabled, rerouted)
  PROVE  client' \in ClientType /\ Milder(mqtt, mqtt')
<1> DEFINE off == [m EXCEPT !.subscribe = FALSE, !.idx = Idle, !.awaiting = FALSE,
                            !.misses = 0, !.connecting = FALSE, !.timer = Off]
<1>1. client \in ClientType /\ m \in MqttType
  BY DEF TypeInv, TypeOK, ClientType, Milder
<1>2. client' = client \/ client' = Disconnect(client)
  BY DEF ApplyMqttActiveState
<1>3. mqtt' = m \/ mqtt' = StartTimer(m) \/ mqtt' = off
  BY DEF ApplyMqttActiveState
<1>4. off \in MqttType
  BY <1>1, MqttUpdates, Bounds
<1>5. off.misses = 0 /\ off.idx = Idle
  BY <1>1 DEF MqttType
<1>6. Milder(m, off)
  <2> HIDE DEF off
  <2> QED
    BY <1>4, <1>5 DEF Milder
<1>7. Milder(m, mqtt')
  <2> HIDE DEF off
  <2> QED
    BY <1>1, <1>3, <1>6, FunctionsAreMild
<1> QED
  BY <1>1, <1>2, <1>7, DisconnectTypes, MilderTwice

LEMMA Parts ==
  ASSUME TypeInv
  PROVE  /\ net \in NetType /\ mqtt \in MqttType /\ client \in ClientType /\ LeftType
         /\ unanswered \in BOOLEAN /\ late \in 0..MaxMisses /\ back \in Returns
  BY DEF TypeInv, TypeOK, LoopSound, NetType, MqttType, ClientType, Returns

\* What all steps but those of the loop task's own count have in common.
Kept ==
  /\ Milder(mqtt, mqtt') /\ net' \in NetType /\ client' \in ClientType /\ LeftType'
  /\ unanswered' \in BOOLEAN /\ late' \in 0..MaxMisses

\* A step of another task.
LEMMA OthersAreSound ==
  ASSUME TypeInv, Kept, UNCHANGED <<lpc, back, loaded>>
  PROVE  TypeInv'
<1>1. TypeOK'
  BY DEF TypeInv, TypeOK, Kept, Milder, NetType, MqttType, ClientType
<1>2. LoopSound'
  BY Parts, Fields, SessionAssumption DEF TypeInv, LoopSound, Kept, Milder, Idle
<1> QED
  BY <1>1, <1>2 DEF TypeInv, Kept

\* A step of the loop task to where it holds nothing.
LEMMA GoingOnIsSound ==
  ASSUME TypeInv, Kept, loaded' = 0, back' \in Returns,
         lpc # "judge" \/ mqtt'.misses = 0,
         lpc' \notin {"judge", "missed", "publish", "load", "store"}
  PROVE  TypeInv'
<1>1. TypeOK'
  BY SessionAssumption DEF TypeInv, TypeOK, Kept, Milder, NetType, MqttType, ClientType
<1>2. LoopSound'
  BY Parts, Fields, SessionAssumption DEF TypeInv, LoopSound, Kept, Milder, Returns
<1> QED
  BY <1>1, <1>2 DEF TypeInv, Kept

LEMMA InitTypes == Init => TypeInv
<1> SUFFICES ASSUME Init PROVE TypeInv
  OBVIOUS
<1>1. net \in NetType
  BY SessionAssumption DEF Init, NetType
<1>2. LeftType
  BY SessionAssumption DEF Init, LeftType
<1>3. LoopSound
  BY SessionAssumption, Values DEF Init, LoopSound
<1>4. mqtt \in MqttType /\ client \in ClientType
  BY Values DEF Init
<1>5. loaded \in -1..(MaxMisses + Relays) /\ unanswered \in BOOLEAN /\ late \in 0..MaxMisses
  <2>1. loaded = 0 /\ unanswered \in BOOLEAN /\ late = 0
    BY DEF Init
  <2> QED
    BY <2>1, SessionAssumption
<1>6. TypeOK
  BY <1>1, <1>4, <1>5 DEF TypeOK, NetType, MqttType, ClientType
<1> QED
  BY <1>2, <1>3, <1>6 DEF TypeInv

LEMMA RestartTypes == ASSUME TypeInv, Restart PROVE TypeInv'
<1>1. net' \in NetType
  BY Parts, NetUpdates, SessionAssumption DEF Restart
<1>2. LeftType'
  BY Parts DEF Restart, LeftType
<1>3. LoopSound'
  BY SessionAssumption, Values DEF Restart, Goto, LoopSound
<1>4. mqtt' \in MqttType /\ client' \in ClientType
  BY Values DEF Restart
<1>5. /\ loaded' \in -1..(MaxMisses + Relays)
      /\ unanswered' \in BOOLEAN /\ late' \in 0..MaxMisses
  <2>1. loaded' = 0 /\ unanswered' \in BOOLEAN /\ late' = 0
    BY DEF Restart, Goto
  <2> QED
    BY <2>1, SessionAssumption
<1>6. TypeOK'
  BY <1>1, <1>4, <1>5 DEF TypeOK, NetType, MqttType, ClientType
<1> QED
  BY <1>2, <1>3, <1>6 DEF TypeInv

\* A step of the loop task that keeps or resets the count and the index, to where
\* what it holds is what that place needs.
LEMMA PlaceIsSound ==
  ASSUME TypeInv, Kept, back' \in Returns, loaded' \in -1..(MaxMisses + Relays),
         lpc # "judge", lpc' # "judge",
         lpc' = "missed" => loaded' \in 0..(MaxMisses - 1),
         lpc' \in {"publish", "load"} => mqtt'.idx < Relays,
         lpc' = "store" => loaded' \in -1..(Relays - 1)
  PROVE  TypeInv'
<1>1. TypeOK'
  BY DEF TypeInv, TypeOK, Kept, Milder, NetType, MqttType, ClientType
<1>2. LoopSound'
  BY Parts, Fields, SessionAssumption DEF TypeInv, LoopSound, Kept, Milder, Returns
<1> QED
  BY <1>1, <1>2 DEF TypeInv, Kept

LEMMA LoopTypes == ASSUME TypeInv, LoopStep PROVE TypeInv'
<1> USE Parts, FunctionsAreMild
<1>1. CASE ServicePendingWifiConnected
  <2>1. Kept
    <3>1. Milder(mqtt, mqtt')
      <4>1. mqtt' \in MqttType
        BY <1>1, MqttUpdates, Bounds, Fields DEF ServicePendingWifiConnected
      <4>2. /\ mqtt'.misses = mqtt.misses \/ mqtt'.misses = 0
            /\ mqtt'.idx = mqtt.idx \/ mqtt'.idx = 0 \/ mqtt'.idx = Idle
        BY <1>1 DEF ServicePendingWifiConnected, MqttType
      <4> QED
        BY <4>1, <4>2 DEF Milder
    <3> QED
      BY <1>1, <3>1, NetUpdates DEF ServicePendingWifiConnected, Kept, LeftType
  <2>2. /\ loaded' = 0 /\ back' \in Returns /\ lpc # "judge"
        /\ lpc' \notin {"judge", "missed", "publish", "load", "store"}
    BY <1>1 DEF ServicePendingWifiConnected, Goto, Call, Return, Returns
  <2> QED
    BY <2>1, <2>2, GoingOnIsSound
<1>2. CASE WireGuardLoop
  <2>1. Kept
    BY <1>2, NetUpdates, SpendTypes DEF WireGuardLoop, Kept
  <2>2. /\ loaded' = 0 /\ back' \in Returns /\ lpc # "judge"
        /\ lpc' \notin {"judge", "missed", "publish", "load", "store"}
    BY <1>2 DEF WireGuardLoop, Goto, Call, Return, Returns
  <2> QED
    BY <2>1, <2>2, GoingOnIsSound
<1>3. CASE TunnelUp
  <2>1. Kept
    <3>1. Milder(mqtt, mqtt')
      <4>1. mqtt' \in MqttType
        BY <1>3, MqttUpdates, Bounds, Fields DEF TunnelUp
      <4>2. /\ mqtt'.misses = mqtt.misses \/ mqtt'.misses = 0
            /\ mqtt'.idx = mqtt.idx \/ mqtt'.idx = 0 \/ mqtt'.idx = Idle
        BY <1>3 DEF TunnelUp, MqttType
      <4> QED
        BY <4>1, <4>2 DEF Milder
    <3> QED
      BY <1>3, <3>1, NetUpdates DEF TunnelUp, Kept, LeftType
  <2>2. /\ loaded' = 0 /\ back' \in Returns /\ lpc # "judge"
        /\ lpc' \notin {"judge", "missed", "publish", "load", "store"}
    BY <1>3 DEF TunnelUp, Goto, Call, Return, Returns
  <2> QED
    BY <2>1, <2>2, GoingOnIsSound
<1>4. CASE TestConnect
  <2>1. Kept
    <3>1. net.enabled \in BOOLEAN
      BY Fields
    <3>2. client' \in ClientType /\ Milder(mqtt, mqtt')
      BY <1>4, <3>1, ApplyTypes, ResetTypes DEF TestConnect
    <3> QED
      BY <1>4, <3>2 DEF TestConnect, Kept, LeftType
  <2>2. /\ loaded' = 0 /\ back' \in Returns /\ lpc # "judge"
        /\ lpc' \notin {"judge", "missed", "publish", "load", "store"}
    BY <1>4 DEF TestConnect, Goto, Call, Return, Returns
  <2> QED
    BY <2>1, <2>2, GoingOnIsSound
<1>5. CASE AlreadyConnected
  <2>1. Kept
    <3>1. Milder(mqtt, mqtt')
      BY <1>5 DEF AlreadyConnected
    <3> QED
      BY <1>5, <3>1 DEF AlreadyConnected, Kept, Outside, LeftType
  <2>2. /\ loaded' = 0 /\ back' \in Returns /\ lpc # "judge"
        /\ lpc' \notin {"judge", "missed", "publish", "load", "store"}
    BY <1>5 DEF AlreadyConnected, Goto, Call, Return, Returns
  <2> QED
    BY <2>1, <2>2, GoingOnIsSound
<1>6. CASE BeginAttempt
  <2>1. Kept
    <3>1. Milder(mqtt, mqtt')
      <4>1. mqtt' \in MqttType
        BY <1>6, MqttUpdates, Bounds, Fields DEF BeginAttempt
      <4>2. /\ mqtt'.misses = mqtt.misses \/ mqtt'.misses = 0
            /\ mqtt'.idx = mqtt.idx \/ mqtt'.idx = 0 \/ mqtt'.idx = Idle
        BY <1>6 DEF BeginAttempt, MqttType
      <4> QED
        BY <4>1, <4>2 DEF Milder
    <3> QED
      BY <1>6, <3>1 DEF BeginAttempt, Kept, Outside, LeftType
  <2>2. /\ loaded' = 0 /\ back' \in Returns /\ lpc # "judge"
        /\ lpc' \notin {"judge", "missed", "publish", "load", "store"}
    BY <1>6 DEF BeginAttempt, Goto, Call, Return, Returns
  <2> QED
    BY <2>1, <2>2, GoingOnIsSound
<1>7. CASE OpenConnection
  <2>1. Kept
    <3>1. client' \in ClientType
      BY <1>7, Values, ClientUpdates, Bounds DEF OpenConnection
    <3>2. LeftType'
      BY <1>7, SpendTypes DEF OpenConnection
    <3> QED
      BY <1>7, <3>1, <3>2 DEF OpenConnection, Kept
  <2>2. /\ loaded' = 0 /\ back' \in Returns /\ lpc # "judge"
        /\ lpc' \notin {"judge", "missed", "publish", "load", "store"}
    BY <1>7 DEF OpenConnection, Goto, Call, Return, Returns
  <2> QED
    BY <2>1, <2>2, GoingOnIsSound
<1>8. CASE ServiceRequest
  <2>1. Kept
    <3> DEFINE m == IF net.enabled THEN mqtt
                    ELSE [mqtt EXCEPT !.subscribe = FALSE, !.idx = Idle]
               answered == [m EXCEPT !.request = FALSE]
    <3>1. m \in MqttType
      BY MqttUpdates, Bounds
    <3>2. m.misses = mqtt.misses /\ (m.idx = mqtt.idx \/ m.idx = Idle)
      BY DEF MqttType
    <3>3. answered \in MqttType /\ answered.misses = m.misses /\ answered.idx = m.idx
      <4> HIDE DEF m
      <4>1. answered \in MqttType
        BY <3>1, MqttUpdates
      <4>2. answered.misses = m.misses /\ answered.idx = m.idx
        BY <3>1 DEF MqttType
      <4> QED
        BY <4>1, <4>2
    <3>4. Milder(mqtt, m) /\ Milder(mqtt, answered)
      <4> HIDE DEF m, answered
      <4> QED
        BY <3>1, <3>2, <3>3 DEF Milder
    <3>5. \/ mqtt' \in {m, mqtt, answered} /\ UNCHANGED client
          \/ ApplyMqttActiveState(answered, FALSE, FALSE)
      BY <1>8 DEF ServiceRequest
    <3>6. client' \in ClientType /\ Milder(mqtt, mqtt')
      <4> HIDE DEF m, answered
      <4> QED
        BY <3>4, <3>5, ApplyTypes
    <3> QED
      BY <1>8, <3>6 DEF ServiceRequest, Kept, LeftType
  <2>2. /\ loaded' = 0 /\ back' \in Returns /\ lpc # "judge"
        /\ lpc' \notin {"judge", "missed", "publish", "load", "store"}
    BY <1>8 DEF ServiceRequest, Goto, Call, Return, Returns
  <2> QED
    BY <2>1, <2>2, GoingOnIsSound
<1>9. CASE ServiceSubscribe
  <2>1. Kept
    <3>1. Milder(mqtt, mqtt')
      <4>1. mqtt' \in MqttType
        BY <1>9, MqttUpdates, Bounds, Fields DEF ServiceSubscribe
      <4>2. /\ mqtt'.misses = mqtt.misses \/ mqtt'.misses = 0
            /\ mqtt'.idx = mqtt.idx \/ mqtt'.idx = 0 \/ mqtt'.idx = Idle
        BY <1>9 DEF ServiceSubscribe, MqttType
      <4> QED
        BY <4>1, <4>2 DEF Milder
    <3> QED
      BY <1>9, <3>1 DEF ServiceSubscribe, Kept, Outside, LeftType
  <2>2. /\ loaded' = 0 /\ back' \in Returns /\ lpc # "judge"
        /\ lpc' \notin {"judge", "missed", "publish", "load", "store"}
    BY <1>9 DEF ServiceSubscribe, Goto, Call, Return, Returns
  <2> QED
    BY <2>1, <2>2, GoingOnIsSound
<1>10. CASE MqttSubscribeRelays
  <2>1. Kept
    <3>1. client' \in ClientType
      BY <1>10, ClientUpdates, Fields DEF MqttSubscribeRelays, Connected
    <3> QED
      BY <1>10, <3>1 DEF MqttSubscribeRelays, Kept, LeftType
  <2>2. /\ loaded' = 0 /\ back' \in Returns /\ lpc # "judge"
        /\ lpc' \notin {"judge", "missed", "publish", "load", "store"}
    BY <1>10 DEF MqttSubscribeRelays, Goto, Call, Return, Returns
  <2> QED
    BY <2>1, <2>2, GoingOnIsSound
<1>11. CASE TestIndex
  <2>1. Kept
    BY <1>11 DEF TestIndex, Kept, Outside, LeftType
  <2>2. /\ loaded' = 0 /\ back' \in Returns /\ lpc # "judge"
        /\ lpc' \notin {"judge", "missed", "publish", "load", "store"}
    BY <1>11 DEF TestIndex, Goto, Call, Return, Returns
  <2> QED
    BY <2>1, <2>2, GoingOnIsSound
<1>12. CASE TestBound
  <2>1. Kept
    <3>1. Milder(mqtt, mqtt')
      <4>1. mqtt' \in MqttType
        BY <1>12, MqttUpdates, Bounds, Fields DEF TestBound
      <4>2. /\ mqtt'.misses = mqtt.misses \/ mqtt'.misses = 0
            /\ mqtt'.idx = mqtt.idx \/ mqtt'.idx = 0 \/ mqtt'.idx = Idle
        BY <1>12 DEF TestBound, MqttType
      <4> QED
        BY <4>1, <4>2 DEF Milder
    <3> QED
      BY <1>12, <3>1 DEF TestBound, Kept, Outside, LeftType
  <2>2. /\ loaded' = 0 /\ back' \in Returns /\ lpc = "bound"
        /\ \/ lpc' = "publish" /\ mqtt'.idx < Relays
           \/ lpc' = "health"
    BY <1>12, SessionAssumption DEF TestBound, Goto, Returns
  <2> QED
    BY <2>1, <2>2, PlaceIsSound, SessionAssumption
<1>13. CASE PublishRelay
  <2>1. CASE Restart
    BY <2>1, RestartTypes
  <2>2. CASE Goto("load") /\ UNCHANGED <<mqtt, Outside>>
    <3>1. Kept
      BY <2>2 DEF Kept, Outside, LeftType
    <3>2. /\ loaded' = 0 /\ back' \in Returns /\ lpc = "publish" /\ lpc' = "load"
          /\ mqtt'.idx < Relays
      BY <1>13, <2>2 DEF PublishRelay, Goto, Returns, TypeInv, LoopSound
    <3> QED
      BY <3>1, <3>2, PlaceIsSound, SessionAssumption
  <2> QED
    BY <1>13, <2>1, <2>2 DEF PublishRelay
<1>14. CASE LoadIndex
  <2>1. Kept
    BY <1>14 DEF LoadIndex, Kept, Outside, LeftType
  <2>2. loaded' \in -1..(Relays - 1)
    BY <1>14, Fields, SessionAssumption DEF LoadIndex, Load, TypeInv, LoopSound, Idle
  <2>3. back' \in Returns /\ lpc = "load" /\ lpc' = "store"
    BY <1>14 DEF LoadIndex, Load, Returns
  <2> QED
    BY <2>1, <2>2, <2>3, PlaceIsSound, SessionAssumption
<1>15. CASE StoreIndex
  <2>1. loaded + 1 \in Idle..Relays
    BY <1>15, SessionAssumption DEF StoreIndex, TypeInv, LoopSound, Idle
  <2>2. mqtt' \in MqttType /\ mqtt'.misses = mqtt.misses
    <3>1. mqtt' \in MqttType
      BY <1>15, <2>1, MqttUpdates DEF StoreIndex
    <3>2. mqtt'.misses = mqtt.misses
      BY <1>15 DEF StoreIndex, MqttType
    <3> QED
      BY <3>1, <3>2
  <2>3. loaded' = 0 /\ back' \in Returns /\ lpc = "store" /\ lpc' = "health"
    BY <1>15 DEF StoreIndex, Goto, Returns
  <2>4. LoopSound'
    BY <2>2, <2>3 DEF LoopSound, Returns, TypeInv
  <2> QED
    BY <1>15, <2>2, <2>3, <2>4, SessionAssumption
       DEF StoreIndex, Outside, TypeInv, TypeOK, LeftType, NetType, MqttType, ClientType
<1>16. CASE TestHealth
  <2>1. Kept
    <3>1. Milder(mqtt, mqtt')
      <4>1. CASE mqtt' = [AfterBoot EXCEPT !.request = mqtt.request,
                                           !.startedAt = mqtt.startedAt]
        <5>1. mqtt' \in MqttType
          BY <4>1, MqttUpdates, Fields, Values
        <5>2. mqtt'.misses = 0 /\ mqtt'.idx = Idle
          BY <4>1, Values DEF MqttType
        <5> QED
          BY <5>1, <5>2 DEF Milder
      <4>2. CASE \/ mqtt' = [mqtt EXCEPT !.awaiting = FALSE, !.misses = 0]
                 \/ mqtt' = [mqtt EXCEPT !.awaiting = FALSE] \/ mqtt' = mqtt
        <5>1. mqtt' \in MqttType
          <6>1. [mqtt EXCEPT !.awaiting = FALSE] \in MqttType
            BY MqttUpdates
          <6>2. [mqtt EXCEPT !.awaiting = FALSE, !.misses = 0] \in MqttType
            BY MqttUpdates, Bounds
          <6> QED
            BY <4>2, <6>1, <6>2
        <5>2. (mqtt'.misses = mqtt.misses \/ mqtt'.misses = 0) /\ mqtt'.idx = mqtt.idx
          BY <4>2 DEF MqttType
        <5> QED
          BY <5>1, <5>2 DEF Milder
      <4> QED
        BY <1>16, <4>1, <4>2 DEF TestHealth
    <3> QED
      BY <1>16, <3>1 DEF TestHealth, Kept, Outside, LeftType
  <2>2. /\ loaded' = 0 /\ back' \in Returns /\ lpc # "judge"
        /\ lpc' \notin {"judge", "missed", "publish", "load", "store"}
    BY <1>16 DEF TestHealth, Goto, Call, Return, Returns
  <2> QED
    BY <2>1, <2>2, GoingOnIsSound
<1>17. CASE ResetIfStuck
  <2>1. Kept
    <3>1. client' \in ClientType /\ Milder(mqtt, mqtt')
      BY <1>17, ResetTypes DEF ResetIfStuck
    <3> QED
      BY <1>17, <3>1 DEF ResetIfStuck, Kept, LeftType
  <2>2. /\ loaded' = 0 /\ back' \in Returns /\ lpc # "judge"
        /\ lpc' \notin {"judge", "missed", "publish", "load", "store"}
    BY <1>17 DEF ResetIfStuck, Goto, Call, Return, Returns
  <2> QED
    BY <2>1, <2>2, GoingOnIsSound
<1>18. CASE ArmReconnectTimer
  <2>1. Kept
    <3>1. Milder(mqtt, mqtt')
      BY <1>18 DEF ArmReconnectTimer
    <3> QED
      BY <1>18, <3>1 DEF ArmReconnectTimer, Kept, Outside, LeftType
  <2>2. /\ loaded' = 0 /\ back' \in Returns /\ lpc # "judge"
        /\ lpc' \notin {"judge", "missed", "publish", "load", "store"}
    BY <1>18 DEF ArmReconnectTimer, Goto, Call, Return, Returns
  <2> QED
    BY <2>1, <2>2, GoingOnIsSound
<1>19. CASE HealthNotDue
  <2>1. Kept
    <3>1. Milder(mqtt, mqtt')
      BY <1>19 DEF HealthNotDue
    <3> QED
      BY <1>19, <3>1 DEF HealthNotDue, Kept, Outside, LeftType
  <2>2. /\ loaded' = 0 /\ back' \in Returns /\ lpc # "judge"
        /\ lpc' \notin {"judge", "missed", "publish", "load", "store"}
    BY <1>19 DEF HealthNotDue, Goto, Call, Return, Returns
  <2> QED
    BY <2>1, <2>2, GoingOnIsSound
<1>20. CASE HealthDue
  <2>1. Kept
    <3>1. late' \in 0..MaxMisses
      BY <1>20, SessionAssumption DEF HealthDue
    <3> QED
      BY <1>20, <3>1 DEF HealthDue, Kept, LeftType
  <2>2. \/ lpc' = "missed" /\ loaded' \in 0..(MaxMisses - 1)
        \/ lpc' = "ping" /\ loaded' = 0
    BY <1>20, Fields, SessionAssumption DEF HealthDue, Load, Goto, TypeInv, LoopSound
  <2>3. back' \in Returns /\ lpc = "up"
    BY <1>20 DEF HealthDue, Load, Goto, Returns
  <2> QED
    BY <2>1, <2>2, <2>3, PlaceIsSound, SessionAssumption
<1>21. CASE CountMiss
  <2>1. loaded + 1 \in 0..MaxMisses
    BY <1>21, SessionAssumption DEF CountMiss, TypeInv, LoopSound
  <2>2. mqtt' \in MqttType
    BY <1>21, <2>1, MqttUpdates DEF CountMiss
  <2>3. loaded' = 0 /\ back' \in Returns /\ lpc' = "judge"
    BY <1>21 DEF CountMiss, Goto, Returns
  <2>4. LoopSound'
    BY <2>3 DEF LoopSound, Returns
  <2> QED
    BY <1>21, <2>2, <2>3, <2>4, SessionAssumption
       DEF CountMiss, Outside, TypeInv, TypeOK, LeftType, NetType, MqttType, ClientType
<1>22. CASE JudgeMisses
  <2>1. CASE /\ mqtt.misses < MaxMisses
             /\ Goto("ping") /\ UNCHANGED <<mqtt, client>>
    <3>1. lpc' = "ping" /\ loaded' = 0 /\ back' \in Returns
      BY <2>1 DEF Goto, Returns
    <3>2. LoopSound'
      BY <2>1, <3>1 DEF LoopSound, Returns
    <3> QED
      BY <1>22, <2>1, <3>1, <3>2, SessionAssumption
         DEF JudgeMisses, TypeInv, TypeOK, LeftType
  <2>2. CASE /\ Goto("ticker") /\ client' = Disconnect(client)
             /\ mqtt' = [mqtt EXCEPT !.awaiting = FALSE, !.misses = 0, !.subscribe = FALSE,
                                     !.connecting = FALSE, !.timer = 0]
    <3>1. mqtt' \in MqttType
      BY <2>2, MqttUpdates, Bounds
    <3>2. mqtt'.misses = 0 /\ mqtt'.idx = mqtt.idx
      BY <2>2 DEF MqttType
    <3>3. Kept
      BY <1>22, <2>2, <3>1, <3>2, DisconnectTypes DEF JudgeMisses, Kept, Milder, LeftType
    <3>4. lpc' = "ticker" /\ loaded' = 0 /\ back' \in Returns
      BY <2>2 DEF Goto, Returns
    <3> QED
      BY <3>2, <3>3, <3>4, GoingOnIsSound
  <2> QED
    BY <1>22, <2>1, <2>2 DEF JudgeMisses
<1>23. CASE PublishPing
  <2>1. Kept
    <3>1. LeftType'
      BY <1>23, SpendTypes DEF PublishPing
    <3>2. client' \in ClientType
      <4>1. \/ client' = client
            \/ client' = [client EXCEPT !.echoes = @ + 1] /\ client.echoes < MaxMisses
        BY <1>23 DEF PublishPing, SendPing
      <4> QED
        BY <4>1, ClientUpdates, Fields, SessionAssumption
    <3>3. unanswered' \in BOOLEAN
      BY <1>23 DEF PublishPing, SendPing
    <3> QED
      BY <1>23, <3>1, <3>2, <3>3 DEF PublishPing, Kept
  <2>2. /\ loaded' = 0 /\ back' \in Returns /\ lpc # "judge"
        /\ lpc' \notin {"judge", "missed", "publish", "load", "store"}
    BY <1>23 DEF PublishPing, Goto, Call, Return, Returns
  <2> QED
    BY <2>1, <2>2, GoingOnIsSound
<1>24. CASE AwaitEcho
  <2>1. Kept
    <3>1. Milder(mqtt, mqtt')
      <4>1. mqtt' \in MqttType
        BY <1>24, MqttUpdates, Bounds, Fields DEF AwaitEcho
      <4>2. /\ mqtt'.misses = mqtt.misses \/ mqtt'.misses = 0
            /\ mqtt'.idx = mqtt.idx \/ mqtt'.idx = 0 \/ mqtt'.idx = Idle
        BY <1>24 DEF AwaitEcho, MqttType
      <4> QED
        BY <4>1, <4>2 DEF Milder
    <3> QED
      BY <1>24, <3>1 DEF AwaitEcho, Kept, Outside, LeftType
  <2>2. /\ loaded' = 0 /\ back' \in Returns /\ lpc # "judge"
        /\ lpc' \notin {"judge", "missed", "publish", "load", "store"}
    BY <1>24 DEF AwaitEcho, Goto, Call, Return, Returns
  <2> QED
    BY <2>1, <2>2, GoingOnIsSound
<1>25. CASE UpdateTicker
  <2>1. Kept
    <3>1. Milder(mqtt, mqtt')
      BY <1>25 DEF UpdateTicker
    <3> QED
      BY <1>25, <3>1 DEF UpdateTicker, Kept, Outside, LeftType
  <2>2. /\ loaded' = 0 /\ back' \in Returns /\ lpc # "judge"
        /\ lpc' \notin {"judge", "missed", "publish", "load", "store"}
    BY <1>25 DEF UpdateTicker, Goto, Call, Return, Returns
  <2> QED
    BY <2>1, <2>2, GoingOnIsSound
<1>26. CASE NextIteration
  <2>1. Kept
    <3>1. Milder(mqtt, mqtt')
      <4>1. /\ Older(mqtt.timer, Interval) \in Off..Interval
            /\ Older(mqtt.startedAt, Patience) \in Off..Patience
        BY Fields, SessionAssumption DEF Older, Off
      <4>2. mqtt' \in MqttType
        BY <1>26, <4>1, MqttUpdates DEF NextIteration
      <4>3. mqtt'.misses = mqtt.misses /\ mqtt'.idx = mqtt.idx
        BY <1>26 DEF NextIteration, MqttType
      <4> QED
        BY <4>2, <4>3 DEF Milder
    <3> QED
      BY <1>26, <3>1 DEF NextIteration, Kept, Outside, LeftType
  <2>2. /\ loaded' = 0 /\ back' \in Returns /\ lpc # "judge"
        /\ lpc' \notin {"judge", "missed", "publish", "load", "store"}
    BY <1>26 DEF NextIteration, Goto, Call, Return, Returns
  <2> QED
    BY <2>1, <2>2, GoingOnIsSound
<1> QED
  BY <1>1, <1>2, <1>3, <1>4, <1>5, <1>6, <1>7, <1>8, <1>9, <1>10, <1>11, <1>12, <1>13,
     <1>14, <1>15, <1>16, <1>17, <1>18, <1>19, <1>20, <1>21, <1>22, <1>23, <1>24, <1>25, <1>26
     DEF LoopStep

LEMMA OtherTypes ==
  ASSUME TypeInv,
         \/ OnMqttConnect \/ ConnectionClosed \/ BrokerFallsSilent \/ OnHealthEcho
         \/ SaveConfig \/ MqttStopForFirmwareUpdate \/ WiFiGotIP \/ WiFiDisconnected
  PROVE  TypeInv'
<1> USE Parts, FunctionsAreMild DEF Loop, History
<1>1. CASE OnMqttConnect
  <2> DEFINE up == [client EXCEPT !.state = "connected", !.alive = TRUE]
             m  == [mqtt EXCEPT !.connecting = FALSE]
             no == [m EXCEPT !.subscribe = FALSE, !.idx = Idle, !.awaiting = FALSE,
                             !.misses = 0, !.timer = Off]
             s  == Settled(m)
             ok == [s EXCEPT !.awaiting = FALSE, !.misses = 0, !.subscribe = TRUE, !.idx = 0]
  <2>1. up \in ClientType
    BY ClientUpdates, Bounds
  <2>2. Milder(mqtt, m)
    <3>1. m \in MqttType
      BY MqttUpdates
    <3>2. m.misses = mqtt.misses /\ m.idx = mqtt.idx
      BY DEF MqttType
    <3> QED
      BY <3>1, <3>2 DEF Milder
  <2>3. m \in MqttType /\ s \in MqttType
    BY <2>2 DEF Milder
  <2>4. Milder(mqtt, no)
    <3> HIDE DEF m
    <3>1. no \in MqttType
      BY <2>3, MqttUpdates, Bounds
    <3>2. no.misses = 0 /\ no.idx = Idle
      BY <2>3 DEF MqttType
    <3> QED
      BY <3>1, <3>2 DEF Milder
  <2>5. Milder(mqtt, ok)
    <3> HIDE DEF s
    <3>1. ok \in MqttType
      BY <2>3, MqttUpdates, Bounds
    <3>2. ok.misses = 0 /\ ok.idx = 0
      BY <2>3 DEF MqttType
    <3> QED
      BY <3>1, <3>2 DEF Milder
  <2>6. /\ client' = up \/ client' = Disconnect(up)
        /\ mqtt' = m \/ mqtt' = no \/ mqtt' = ok
    BY <1>1 DEF OnMqttConnect
  <2>7. client' \in ClientType /\ Milder(mqtt, mqtt')
    <3> HIDE DEF up, m, no, ok
    <3> QED
      BY <2>1, <2>2, <2>4, <2>5, <2>6, DisconnectTypes
  <2>8. /\ unanswered' = FALSE /\ late' = 0 /\ net' \in NetType /\ LeftType'
        /\ UNCHANGED <<lpc, back, loaded>>
    BY <1>1 DEF OnMqttConnect, LeftType
  <2> QED
    BY <2>7, <2>8, OthersAreSound, Bounds DEF Kept
<1>2. CASE ConnectionClosed
  <2>1. LeftType'
    BY <1>2, SpendTypes DEF ConnectionClosed
  <2> QED
    BY <1>2, <2>1, Values, OthersAreSound DEF ConnectionClosed, Kept
<1>3. CASE BrokerFallsSilent
  <2>1. LeftType' /\ client' \in ClientType
    BY <1>3, SpendTypes, ClientUpdates DEF BrokerFallsSilent
  <2> QED
    BY <1>3, <2>1, OthersAreSound DEF BrokerFallsSilent, Kept
<1>4. CASE OnHealthEcho
  <2>1. client.echoes - 1 \in 0..MaxMisses
    BY <1>4, Fields, SessionAssumption DEF OnHealthEcho
  <2>2. client' \in ClientType
    BY <1>4, <2>1, ClientUpdates DEF OnHealthEcho
  <2>3. Milder(mqtt, mqtt')
    <3>1. mqtt' \in MqttType
      BY <1>4, MqttUpdates, Bounds DEF OnHealthEcho
    <3>2. (mqtt'.misses = mqtt.misses \/ mqtt'.misses = 0) /\ mqtt'.idx = mqtt.idx
      BY <1>4 DEF OnHealthEcho, MqttType
    <3> QED
      BY <3>1, <3>2 DEF Milder
  <2> QED
    BY <1>4, <2>2, <2>3, OthersAreSound DEF OnHealthEcho, Kept, LeftType
<1>5. CASE SaveConfig
  <2>1. LeftType'
    BY <1>5, SpendTypes DEF SaveConfig
  <2>2. PICK enabled \in BOOLEAN, rerouted \in BOOLEAN :
          /\ net' = [net EXCEPT !.enabled = enabled]
          /\ ApplyMqttActiveState(mqtt, enabled, rerouted)
    BY <1>5 DEF SaveConfig
  <2>3. client' \in ClientType /\ Milder(mqtt, mqtt') /\ net' \in NetType
    BY <2>2, ApplyTypes, NetUpdates
  <2> QED
    BY <1>5, <2>1, <2>3, OthersAreSound DEF SaveConfig, Kept
<1>6. CASE MqttStopForFirmwareUpdate
  <2>1. LeftType' /\ net' \in NetType
    BY <1>6, SpendTypes, NetUpdates DEF MqttStopForFirmwareUpdate
  <2>2. client' \in ClientType
    BY <1>6, DisconnectTypes DEF MqttStopForFirmwareUpdate
  <2>3. Milder(mqtt, mqtt')
    <3>1. mqtt' \in MqttType
      BY <1>6, Values, MqttUpdates, Fields DEF MqttStopForFirmwareUpdate
    <3>2. mqtt'.misses = 0 /\ mqtt'.idx = Idle
      BY <1>6, Values DEF MqttStopForFirmwareUpdate, MqttType
    <3> QED
      BY <3>1, <3>2 DEF Milder
  <2> QED
    BY <1>6, <2>1, <2>2, <2>3, OthersAreSound DEF MqttStopForFirmwareUpdate, Kept
<1>7. CASE WiFiGotIP
  <2>1. net' \in NetType
    BY <1>7, NetUpdates DEF WiFiGotIP
  <2> QED
    BY <1>7, <2>1, OthersAreSound DEF WiFiGotIP, Kept, LeftType
<1>8. CASE WiFiDisconnected
  <2>1. LeftType' /\ net' \in NetType /\ client' \in ClientType
    BY <1>8, SpendTypes, NetUpdates, ClientUpdates DEF WiFiDisconnected
  <2> QED
    BY <1>8, <2>1, OthersAreSound DEF WiFiDisconnected, Kept
<1> QED
  BY <1>1, <1>2, <1>3, <1>4, <1>5, <1>6, <1>7, <1>8

LEMMA NextTypes == TypeInv /\ [Next]_vars => TypeInv'
<1> SUFFICES ASSUME TypeInv, [Next]_vars PROVE TypeInv'
  OBVIOUS
<1>1. CASE UNCHANGED vars
  BY <1>1 DEF vars, TypeInv, TypeOK, LoopSound, LeftType
<1>2. CASE Next
  BY <1>2, RestartTypes, LoopTypes, OtherTypes DEF Next, ServiceRestartRequired
<1> QED
  BY <1>1, <1>2

\* What the tasks share keeps to its types, whatever they overwrite of each other:
\* the count of misses stays within its limit, and the index of the relay that is
\* published next is that of a relay, the one after the last, or none.
THEOREM SessionTypeCorrect == Spec => []TypeOK
<1>1. TypeInv => TypeOK
  BY DEF TypeInv
<1> QED
  BY <1>1, InitTypes, NextTypes, PTL DEF Spec

------------------------------------------------------------------------------
(* The health check *)

\* No connection is being opened during a check, and there is none that nobody
\* wants.
InCheck == {"up", "missed", "judge", "ping", "await"}
Wanted ==
  /\ Connected => net.enabled /\ ~net.stopped
  /\ lpc \in InCheck => client.state # "connecting"

\* As long as nothing was refused: the misses are those of the checks in a row,
\* and one more.
MissesAreLate ==
  Connected /\ Refused = 0 =>
    /\ mqtt.misses <= late + 1
    /\ lpc = "missed" => loaded <= late
    /\ ~unanswered /\ lpc \notin {"missed", "judge", "ping"} => mqtt.misses = 0

\* A flag that is set although the echo has come counts no more than what was
\* refused; in a check, one more.
FlagIsRefusals ==
  Connected =>
    /\ lpc = "await" /\ ~unanswered => mqtt.misses = 0
    /\ lpc \in {"missed", "judge"} /\ mqtt.awaiting /\ ~unanswered => late = 0
    /\ lpc = "missed" /\ late = 0 => loaded <= Refused
    /\ lpc = "judge" /\ late = 0 => mqtt.misses <= Refused + 1
    /\ lpc = "ping" /\ mqtt.awaiting /\ ~unanswered => mqtt.misses <= Refused + 1
    /\ lpc \notin {"missed", "judge", "ping"} /\ mqtt.awaiting /\ ~unanswered
         => mqtt.misses <= Refused

HealthInv == Wanted /\ MissesAreLate /\ FlagIsRefusals

\* What all steps leave of the count and the flag, but for those of a check.
Calm(m, n) ==
  /\ n.misses = m.misses \/ n.misses = 0
  /\ n.awaiting => m.awaiting

LEMMA FunctionsAreCalm ==
  ASSUME NEW m \in MqttType
  PROVE  /\ Calm(m, m) /\ Calm(m, StartTimer(m)) /\ Calm(m, Settled(m))
         /\ Calm(m, OnMqttDisconnect(m))
<1>1. Calm(m, StartTimer(m))
  BY DEF Calm, StartTimer, MqttType
<1>2. Calm(m, Settled(m))
  BY DEF Calm, Settled, MqttType
<1>3. Calm(m, OnMqttDisconnect(m))
  BY DEF Calm, OnMqttDisconnect, MqttType
<1> QED
  BY <1>1, <1>2, <1>3 DEF Calm

LEMMA Disconnected == NoConnection.state = "disconnected"
  BY DEF NoConnection

LEMMA DisconnectEnds ==
  ASSUME NEW c \in ClientType
  PROVE  Disconnect(c).state \in {"disconnected", "disconnecting"}
  BY DEF Disconnect, ClientType

\* What a step of another task, and one of the loop task outside a check, have in
\* common.
CheckPlaces == {"missed", "judge", "ping", "await"}
Quiet ==
  /\ Connected' => Connected /\ Calm(mqtt, mqtt')
  /\ UNCHANGED <<unanswered, late>> /\ left'.refusals = left.refusals
  /\ \/ UNCHANGED <<lpc, loaded>>
     \/ lpc \notin CheckPlaces /\ lpc' \notin CheckPlaces

LEMMA QuietKeeps ==
  ASSUME TypeInv, Quiet, MissesAreLate, FlagIsRefusals
  PROVE  MissesAreLate' /\ FlagIsRefusals'
<1> SUFFICES ASSUME Connected' PROVE MissesAreLate' /\ FlagIsRefusals'
  BY DEF MissesAreLate, FlagIsRefusals
<1>1. /\ mqtt.misses \in 0..MaxMisses /\ late \in 0..MaxMisses
      /\ left.refusals \in 0..MaxRefusals
  BY Parts, Fields DEF LeftType
<1>2. /\ Connected /\ Refused' = Refused /\ Refused \in Nat
      /\ UNCHANGED <<unanswered, late>>
  BY <1>1, SessionAssumption DEF Quiet, Refused
<1>3. /\ mqtt'.misses = mqtt.misses \/ mqtt'.misses = 0
      /\ mqtt'.awaiting => mqtt.awaiting
  BY DEF Quiet, Calm
<1>4. CASE UNCHANGED <<lpc, loaded>>
  <2>1. MissesAreLate'
    BY <1>1, <1>2, <1>3, <1>4 DEF MissesAreLate
  <2>2. FlagIsRefusals'
    BY <1>1, <1>2, <1>3, <1>4 DEF FlagIsRefusals
  <2> QED
    BY <2>1, <2>2
<1>5. CASE lpc \notin CheckPlaces /\ lpc' \notin CheckPlaces
  <2>1. MissesAreLate'
    BY <1>1, <1>2, <1>3, <1>5 DEF MissesAreLate, CheckPlaces
  <2>2. FlagIsRefusals'
    BY <1>1, <1>2, <1>3, <1>5 DEF FlagIsRefusals, CheckPlaces
  <2> QED
    BY <2>1, <2>2
<1> QED
  BY <1>4, <1>5 DEF Quiet

LEMMA ResetEnds == ASSUME ResetStuckConnectionAttempt PROVE client'.state = "disconnected"
  BY Disconnected DEF ResetStuckConnectionAttempt

LEMMA ApplyQuiet ==
  ASSUME TypeInv, NEW m \in MqttType, Calm(mqtt, m), NEW enabled, NEW rerouted,
         ApplyMqttActiveState(m, enabled, rerouted)
  PROVE  /\ Connected' => Connected /\ (~net.stopped => enabled) /\ Calm(mqtt, mqtt')
         /\ client'.state = "connecting" => client.state = "connecting"
<1>1. client' = client \/ client' = Disconnect(client)
  BY DEF ApplyMqttActiveState
<1>2. Connected' => client' = client /\ (~net.stopped => enabled)
  BY Parts, DisconnectEnds DEF ApplyMqttActiveState, Connected
<1>3. Connected' => mqtt' = m \/ mqtt' = StartTimer(m)
  BY <1>2 DEF ApplyMqttActiveState, Connected
<1>4. Calm(m, StartTimer(m))
  BY FunctionsAreCalm
<1> QED
  BY <1>1, <1>2, <1>3, <1>4, Parts, DisconnectEnds DEF Calm, Connected

\* A step of the loop task outside a check.
LEMMA QuietPlaces ==
  ASSUME Wanted, Connected' => Connected /\ Calm(mqtt, mqtt'),
         lpc \notin CheckPlaces, lpc' \notin InCheck,
         UNCHANGED <<unanswered, late>>, left'.refusals = left.refusals,
         net'.enabled = net.enabled, net'.stopped = net.stopped
  PROVE  Quiet /\ Wanted'
  BY DEF Quiet, Wanted, CheckPlaces, InCheck

LEMMA LoopQuiet ==
  ASSUME TypeInv, Wanted,
         \/ ServicePendingWifiConnected \/ WireGuardLoop \/ TunnelUp
         \/ TestConnect \/ AlreadyConnected \/ BeginAttempt \/ OpenConnection
         \/ ServiceRequest \/ ServiceSubscribe \/ MqttSubscribeRelays
         \/ TestIndex \/ TestBound \/ LoadIndex \/ StoreIndex
         \/ ResetIfStuck \/ ArmReconnectTimer \/ HealthNotDue
         \/ UpdateTicker \/ NextIteration
  PROVE  Quiet /\ Wanted'
<1> USE Parts, DisconnectEnds, Disconnected
    DEF Connected, CheckPlaces, InCheck, Returns, Calm
<1>1. CASE ServicePendingWifiConnected
  <2>1. Calm(mqtt, mqtt')
    BY <1>1, FunctionsAreCalm DEF ServicePendingWifiConnected, MqttType
  <2>2. /\ lpc \notin CheckPlaces /\ lpc' \notin InCheck
        /\ UNCHANGED <<unanswered, late>> /\ left'.refusals = left.refusals
    BY <1>1 DEF ServicePendingWifiConnected, Goto, Call, Return, Load, Outside
  <2>3. UNCHANGED client
    BY <1>1 DEF ServicePendingWifiConnected, Outside
  <2>4. net'.enabled = net.enabled /\ net'.stopped = net.stopped
    BY <1>1 DEF ServicePendingWifiConnected, NetType
  <2> QED
    BY <2>1, <2>2, <2>3, <2>4, QuietPlaces
<1>2. CASE WireGuardLoop
  <2>1. Calm(mqtt, mqtt')
    BY <1>2, FunctionsAreCalm DEF WireGuardLoop
  <2>2. /\ lpc \notin CheckPlaces /\ lpc' \notin InCheck
        /\ UNCHANGED <<unanswered, late>> /\ left'.refusals = left.refusals
    BY <1>2 DEF WireGuardLoop, Goto, Call, Return, Load, Outside, Spend, LeftType
  <2>3. UNCHANGED client
    BY <1>2 DEF WireGuardLoop, Outside
  <2>4. net'.enabled = net.enabled /\ net'.stopped = net.stopped
    BY <1>2 DEF WireGuardLoop, NetType
  <2> QED
    BY <2>1, <2>2, <2>3, <2>4, QuietPlaces
<1>3. CASE TunnelUp
  <2>1. Calm(mqtt, mqtt')
    BY <1>3, FunctionsAreCalm DEF TunnelUp, MqttType
  <2>2. /\ lpc \notin CheckPlaces /\ lpc' \notin InCheck
        /\ UNCHANGED <<unanswered, late>> /\ left'.refusals = left.refusals
    BY <1>3 DEF TunnelUp, Goto, Call, Return, Load, Outside
  <2>3. UNCHANGED client
    BY <1>3 DEF TunnelUp, Outside
  <2>4. net'.enabled = net.enabled /\ net'.stopped = net.stopped
    BY <1>3 DEF TunnelUp, NetType
  <2> QED
    BY <2>1, <2>2, <2>3, <2>4, QuietPlaces
<1>4. CASE TestConnect
  <2>1. \/ UNCHANGED client /\ (mqtt' = mqtt \/ mqtt' = StartTimer(mqtt))
        \/ ApplyMqttActiveState(mqtt, net.enabled, FALSE) \/ ResetStuckConnectionAttempt
    BY <1>4 DEF TestConnect
  <2>2. /\ lpc \notin CheckPlaces /\ lpc' \notin InCheck
        /\ UNCHANGED <<net, unanswered, late, left>>
    BY <1>4 DEF TestConnect, Goto, Call, Return
  <2>3. Connected' => Connected /\ Calm(mqtt, mqtt')
    BY <2>1, FunctionsAreCalm, ApplyQuiet, ResetEnds
  <2> QED
    BY <2>2, <2>3, QuietPlaces
<1>5. CASE AlreadyConnected
  <2>1. Calm(mqtt, mqtt')
    BY <1>5, FunctionsAreCalm DEF AlreadyConnected
  <2>2. /\ lpc \notin CheckPlaces /\ lpc' \notin InCheck
        /\ UNCHANGED <<unanswered, late>> /\ left'.refusals = left.refusals
    BY <1>5 DEF AlreadyConnected, Goto, Call, Return, Load, Outside
  <2>3. UNCHANGED client
    BY <1>5 DEF AlreadyConnected, Outside
  <2>4. UNCHANGED net
    BY <1>5 DEF AlreadyConnected, Outside
  <2> QED
    BY <2>1, <2>2, <2>3, <2>4, QuietPlaces
<1>6. CASE BeginAttempt
  <2>1. Calm(mqtt, mqtt')
    BY <1>6, FunctionsAreCalm DEF BeginAttempt, MqttType
  <2>2. /\ lpc \notin CheckPlaces /\ lpc' \notin InCheck
        /\ UNCHANGED <<unanswered, late>> /\ left'.refusals = left.refusals
    BY <1>6 DEF BeginAttempt, Goto, Call, Return, Load, Outside
  <2>3. UNCHANGED client
    BY <1>6 DEF BeginAttempt, Outside
  <2>4. UNCHANGED net
    BY <1>6 DEF BeginAttempt, Outside
  <2> QED
    BY <2>1, <2>2, <2>3, <2>4, QuietPlaces
<1>7. CASE OpenConnection
  <2>1. Calm(mqtt, mqtt')
    BY <1>7, FunctionsAreCalm DEF OpenConnection
  <2>2. /\ lpc \notin CheckPlaces /\ lpc' \notin InCheck
        /\ UNCHANGED <<unanswered, late>> /\ left'.refusals = left.refusals
    BY <1>7 DEF OpenConnection, Goto, Call, Return, Load, Outside, Spend, LeftType
  <2>3. Connected' => Connected
    BY <1>7 DEF OpenConnection, NoConnection, ClientType
  <2>4. UNCHANGED net
    BY <1>7 DEF OpenConnection, Outside
  <2> QED
    BY <2>1, <2>2, <2>3, <2>4, QuietPlaces
<1>8. CASE ServiceRequest
  <2> DEFINE m == IF net.enabled THEN mqtt
                  ELSE [mqtt EXCEPT !.subscribe = FALSE, !.idx = Idle]
             answered == [m EXCEPT !.request = FALSE]
  <2>1. m \in MqttType /\ Calm(mqtt, m)
    <3>1. m \in MqttType
      BY MqttUpdates, Bounds
    <3>2. Calm(mqtt, m)
      BY DEF MqttType
    <3> QED
      BY <3>1, <3>2
  <2>2. /\ lpc \notin CheckPlaces /\ lpc' \notin InCheck
        /\ UNCHANGED <<net, unanswered, late, left>>
    BY <1>8 DEF ServiceRequest, Goto, Call, Return
  <2>5. answered \in MqttType /\ Calm(mqtt, answered)
    <3> HIDE DEF m
    <3>1. answered \in MqttType
      BY <2>1, MqttUpdates
    <3>2. Calm(mqtt, answered)
      BY <2>1 DEF MqttType
    <3> QED
      BY <3>1, <3>2
  <2>6. \/ mqtt' \in {m, mqtt, answered} /\ UNCHANGED client
        \/ ApplyMqttActiveState(answered, FALSE, FALSE)
    BY <1>8 DEF ServiceRequest
  <2>3. Connected' => Connected /\ Calm(mqtt, mqtt')
    <3> HIDE DEF m, answered, Calm
    <3> QED
      BY <2>1, <2>5, <2>6, FunctionsAreCalm, ApplyQuiet
  <2> QED
    BY <2>2, <2>3, QuietPlaces
<1>9. CASE ServiceSubscribe
  <2>1. Calm(mqtt, mqtt')
    BY <1>9, FunctionsAreCalm DEF ServiceSubscribe, MqttType
  <2>2. /\ lpc \notin CheckPlaces /\ lpc' \notin InCheck
        /\ UNCHANGED <<unanswered, late>> /\ left'.refusals = left.refusals
    BY <1>9 DEF ServiceSubscribe, Goto, Call, Return, Load, Outside
  <2>3. UNCHANGED client
    BY <1>9 DEF ServiceSubscribe, Outside
  <2>4. UNCHANGED net
    BY <1>9 DEF ServiceSubscribe, Outside
  <2> QED
    BY <2>1, <2>2, <2>3, <2>4, QuietPlaces
<1>10. CASE MqttSubscribeRelays
  <2>1. Calm(mqtt, mqtt')
    BY <1>10, FunctionsAreCalm DEF MqttSubscribeRelays
  <2>2. /\ lpc \notin CheckPlaces /\ lpc' \notin InCheck
        /\ UNCHANGED <<unanswered, late>> /\ left'.refusals = left.refusals
    BY <1>10 DEF MqttSubscribeRelays, Goto, Call, Return, Load, Outside
  <2>3. Connected' => Connected
    BY <1>10 DEF MqttSubscribeRelays, ClientType
  <2>4. UNCHANGED net
    BY <1>10 DEF MqttSubscribeRelays, Outside
  <2> QED
    BY <2>1, <2>2, <2>3, <2>4, QuietPlaces
<1>11. CASE TestIndex
  <2>1. Calm(mqtt, mqtt')
    BY <1>11, FunctionsAreCalm DEF TestIndex
  <2>2. /\ lpc \notin CheckPlaces /\ lpc' \notin InCheck
        /\ UNCHANGED <<unanswered, late>> /\ left'.refusals = left.refusals
    BY <1>11 DEF TestIndex, Goto, Call, Return, Load, Outside
  <2>3. UNCHANGED client
    BY <1>11 DEF TestIndex, Outside
  <2>4. UNCHANGED net
    BY <1>11 DEF TestIndex, Outside
  <2> QED
    BY <2>1, <2>2, <2>3, <2>4, QuietPlaces
<1>12. CASE TestBound
  <2>1. Calm(mqtt, mqtt')
    BY <1>12, FunctionsAreCalm DEF TestBound, MqttType
  <2>2. /\ lpc \notin CheckPlaces /\ lpc' \notin InCheck
        /\ UNCHANGED <<unanswered, late>> /\ left'.refusals = left.refusals
    BY <1>12 DEF TestBound, Goto, Call, Return, Load, Outside
  <2>3. UNCHANGED client
    BY <1>12 DEF TestBound, Outside
  <2>4. UNCHANGED net
    BY <1>12 DEF TestBound, Outside
  <2> QED
    BY <2>1, <2>2, <2>3, <2>4, QuietPlaces
<1>13. CASE LoadIndex
  <2>1. Calm(mqtt, mqtt')
    BY <1>13, FunctionsAreCalm DEF LoadIndex
  <2>2. /\ lpc \notin CheckPlaces /\ lpc' \notin InCheck
        /\ UNCHANGED <<unanswered, late>> /\ left'.refusals = left.refusals
    BY <1>13 DEF LoadIndex, Goto, Call, Return, Load, Outside
  <2>3. UNCHANGED client
    BY <1>13 DEF LoadIndex, Outside
  <2>4. UNCHANGED net
    BY <1>13 DEF LoadIndex, Outside
  <2> QED
    BY <2>1, <2>2, <2>3, <2>4, QuietPlaces
<1>14. CASE StoreIndex
  <2>1. Calm(mqtt, mqtt')
    BY <1>14, FunctionsAreCalm DEF StoreIndex, MqttType
  <2>2. /\ lpc \notin CheckPlaces /\ lpc' \notin InCheck
        /\ UNCHANGED <<unanswered, late>> /\ left'.refusals = left.refusals
    BY <1>14 DEF StoreIndex, Goto, Call, Return, Load, Outside
  <2>3. UNCHANGED client
    BY <1>14 DEF StoreIndex, Outside
  <2>4. UNCHANGED net
    BY <1>14 DEF StoreIndex, Outside
  <2> QED
    BY <2>1, <2>2, <2>3, <2>4, QuietPlaces
<1>15. CASE ResetIfStuck
  <2>2. /\ lpc \notin CheckPlaces /\ lpc' \notin InCheck
        /\ UNCHANGED <<net, unanswered, late, left>>
    BY <1>15 DEF ResetIfStuck, Goto, Call, Return
  <2>3. Connected' => Connected /\ Calm(mqtt, mqtt')
    BY <1>15, ResetEnds, FunctionsAreCalm DEF ResetIfStuck
  <2> QED
    BY <2>2, <2>3, QuietPlaces
<1>16. CASE ArmReconnectTimer
  <2>1. Calm(mqtt, mqtt')
    BY <1>16, FunctionsAreCalm DEF ArmReconnectTimer
  <2>2. /\ lpc \notin CheckPlaces /\ lpc' \notin InCheck
        /\ UNCHANGED <<unanswered, late>> /\ left'.refusals = left.refusals
    BY <1>16 DEF ArmReconnectTimer, Goto, Call, Return, Load, Outside
  <2>3. UNCHANGED client
    BY <1>16 DEF ArmReconnectTimer, Outside
  <2>4. UNCHANGED net
    BY <1>16 DEF ArmReconnectTimer, Outside
  <2> QED
    BY <2>1, <2>2, <2>3, <2>4, QuietPlaces
<1>17. CASE HealthNotDue
  <2>1. Calm(mqtt, mqtt')
    BY <1>17, FunctionsAreCalm DEF HealthNotDue
  <2>2. /\ lpc \notin CheckPlaces /\ lpc' \notin InCheck
        /\ UNCHANGED <<unanswered, late>> /\ left'.refusals = left.refusals
    BY <1>17 DEF HealthNotDue, Goto, Call, Return, Load, Outside
  <2>3. UNCHANGED client
    BY <1>17 DEF HealthNotDue, Outside
  <2>4. UNCHANGED net
    BY <1>17 DEF HealthNotDue, Outside
  <2> QED
    BY <2>1, <2>2, <2>3, <2>4, QuietPlaces
<1>18. CASE UpdateTicker
  <2>1. Calm(mqtt, mqtt')
    BY <1>18, FunctionsAreCalm DEF UpdateTicker
  <2>2. /\ lpc \notin CheckPlaces /\ lpc' \notin InCheck
        /\ UNCHANGED <<unanswered, late>> /\ left'.refusals = left.refusals
    BY <1>18 DEF UpdateTicker, Goto, Call, Return, Load, Outside
  <2>3. UNCHANGED client
    BY <1>18 DEF UpdateTicker, Outside
  <2>4. UNCHANGED net
    BY <1>18 DEF UpdateTicker, Outside
  <2> QED
    BY <2>1, <2>2, <2>3, <2>4, QuietPlaces
<1>19. CASE NextIteration
  <2>1. Calm(mqtt, mqtt')
    BY <1>19, FunctionsAreCalm DEF NextIteration, MqttType
  <2>2. /\ lpc \notin CheckPlaces /\ lpc' \notin InCheck
        /\ UNCHANGED <<unanswered, late>> /\ left'.refusals = left.refusals
    BY <1>19 DEF NextIteration, Goto, Call, Return, Load, Outside
  <2>3. UNCHANGED client
    BY <1>19 DEF NextIteration, Outside
  <2>4. UNCHANGED net
    BY <1>19 DEF NextIteration, Outside
  <2> QED
    BY <2>1, <2>2, <2>3, <2>4, QuietPlaces
<1> QED
  BY <1>1, <1>2, <1>3, <1>4, <1>5, <1>6, <1>7, <1>8, <1>9, <1>10, <1>11, <1>12,
     <1>13, <1>14, <1>15, <1>16, <1>17, <1>18, <1>19

\* The steps of a check.
LEMMA CheckKeeps ==
  ASSUME TypeInv, HealthInv,
         \/ HealthDue \/ CountMiss \/ JudgeMisses \/ PublishPing \/ AwaitEcho
  PROVE  HealthInv'
<1> USE Parts, SessionAssumption DEF HealthInv
<1>1. /\ mqtt.misses \in 0..MaxMisses /\ late \in 0..MaxMisses
      /\ left.refusals \in 0..MaxRefusals
      /\ Refused \in Nat /\ Refused = MaxRefusals - left.refusals
      /\ mqtt.awaiting \in BOOLEAN /\ unanswered \in BOOLEAN
  BY Fields DEF LeftType, Refused, MqttType
<1>2. CASE HealthDue
  <2>1. /\ mqtt'.misses = mqtt.misses /\ mqtt'.awaiting = mqtt.awaiting
        /\ UNCHANGED <<net, client, left, unanswered>> /\ Connected' = Connected
        /\ Refused' = Refused
    BY <1>2 DEF HealthDue, Settled, MqttType, Connected, Refused
  <2>2. /\ lpc = "up"
        /\ ~unanswered => late' = 0
        /\ unanswered => late' > 0 /\ late' \in {late, late + 1}
        /\ unanswered => late' = late + 1 \/ late' = MaxMisses
    BY <1>1, <1>2 DEF HealthDue
  <2>3. \/ mqtt.awaiting /\ lpc' = "missed" /\ loaded' = mqtt.misses
        \/ ~mqtt.awaiting /\ lpc' = "ping"
    BY <1>2 DEF HealthDue, Load, Goto
  <2>4. Wanted'
    BY <2>1, <2>2 DEF Wanted, InCheck, Connected
  <2>5. MissesAreLate'
    BY <1>1, <2>1, <2>2, <2>3 DEF MissesAreLate
  <2>6. FlagIsRefusals'
    BY <1>1, <2>1, <2>2, <2>3 DEF FlagIsRefusals
  <2> QED
    BY <2>4, <2>5, <2>6
<1>3. CASE CountMiss
  <2>1. /\ mqtt'.misses = loaded + 1 /\ mqtt'.awaiting = mqtt.awaiting
        /\ UNCHANGED <<net, client, left, unanswered, late>> /\ Connected' = Connected
        /\ Refused' = Refused
    BY <1>3 DEF CountMiss, Outside, MqttType, Connected, Refused
  <2>2. lpc = "missed" /\ lpc' = "judge" /\ loaded \in 0..(MaxMisses - 1)
    BY <1>3 DEF CountMiss, Goto, TypeInv, LoopSound
  <2>3. Wanted'
    BY <2>1, <2>2 DEF Wanted, InCheck, Connected
  <2>4. MissesAreLate'
    BY <1>1, <2>1, <2>2 DEF MissesAreLate
  <2>5. FlagIsRefusals'
    BY <1>1, <2>1, <2>2 DEF FlagIsRefusals
  <2> QED
    BY <2>3, <2>4, <2>5
<1>4. CASE JudgeMisses
  <2>1. CASE mqtt.misses < MaxMisses
    <3>1. /\ UNCHANGED <<net, mqtt, client, left, unanswered, late>>
          /\ Connected' = Connected /\ Refused' = Refused /\ lpc = "judge" /\ lpc' = "ping"
      BY <1>1, <1>4, <2>1 DEF JudgeMisses, Goto, Connected, Refused
    <3>2. Wanted'
      BY <3>1 DEF Wanted, InCheck, Connected
    <3>3. MissesAreLate'
      BY <1>1, <3>1 DEF MissesAreLate
    <3>4. FlagIsRefusals'
      BY <1>1, <3>1 DEF FlagIsRefusals
    <3> QED
      BY <3>2, <3>3, <3>4
  <2>2. CASE mqtt.misses >= MaxMisses
    <3>1. client' = Disconnect(client) /\ lpc' = "ticker"
      BY <1>1, <1>4, <2>2 DEF JudgeMisses, Goto
    <3>2. ~Connected' /\ lpc' \notin InCheck
      BY <3>1, DisconnectEnds DEF Connected, InCheck
    <3> QED
      BY <3>2 DEF Wanted, MissesAreLate, FlagIsRefusals
  <2> QED
    BY <1>1, <2>1, <2>2
<1>5. CASE PublishPing
  <2>1. /\ UNCHANGED <<net, mqtt, late>> /\ lpc = "ping"
        /\ client'.state = client.state /\ Connected' = Connected
    BY <1>5 DEF PublishPing, SendPing, Connected, ClientType
  <2>2. Wanted'
    BY <2>1 DEF Wanted, InCheck, Connected
  <2>3. CASE ~Connected
    BY <2>1, <2>2, <2>3 DEF MissesAreLate, FlagIsRefusals
  <2>4. CASE SendPing(TRUE) /\ Goto("await") /\ UNCHANGED left
    <3>1. unanswered' = TRUE /\ lpc' = "await" /\ Refused' = Refused
      BY <2>4 DEF SendPing, Goto, Refused
    <3>2. MissesAreLate'
      BY <1>1, <2>1, <3>1 DEF MissesAreLate
    <3>3. FlagIsRefusals'
      BY <1>1, <2>1, <3>1 DEF FlagIsRefusals
    <3> QED
      BY <2>2, <3>2, <3>3
  <2>5. CASE SendPing(FALSE) /\ Goto("ticker") /\ Spend("refusals")
    <3>1. unanswered' = unanswered /\ lpc' = "ticker" /\ Refused' = Refused + 1
      BY <1>1, <2>5 DEF SendPing, Goto, Spend, Refused, LeftType
    <3>2. MissesAreLate'
      BY <1>1, <3>1 DEF MissesAreLate
    <3>3. FlagIsRefusals'
      BY <1>1, <2>1, <3>1 DEF FlagIsRefusals
    <3> QED
      BY <2>2, <3>2, <3>3
  <2> QED
    BY <1>5, <2>3, <2>4, <2>5 DEF PublishPing
<1>6. CASE AwaitEcho
  <2>1. /\ mqtt'.misses = mqtt.misses /\ lpc = "await" /\ lpc' = "ticker"
        /\ UNCHANGED <<net, client, left, unanswered, late>> /\ Connected' = Connected
        /\ Refused' = Refused
    BY <1>6 DEF AwaitEcho, Goto, Outside, MqttType, Connected, Refused
  <2>2. Wanted'
    BY <2>1 DEF Wanted, InCheck, Connected
  <2>3. MissesAreLate'
    BY <1>1, <2>1 DEF MissesAreLate
  <2>4. FlagIsRefusals'
    BY <1>1, <2>1 DEF FlagIsRefusals
  <2> QED
    BY <2>2, <2>3, <2>4
<1> QED
  BY <1>2, <1>3, <1>4, <1>5, <1>6

LEMMA RestartKeeps == ASSUME Restart PROVE HealthInv'
<1>1. ~Connected' /\ client'.state = "disconnected"
  BY Disconnected DEF Restart, Connected
<1> QED
  BY <1>1 DEF HealthInv, Wanted, MissesAreLate, FlagIsRefusals

LEMMA TestHealthKeeps == ASSUME TypeInv, Wanted, TestHealth PROVE Quiet /\ Wanted'
<1>1. /\ UNCHANGED <<net, client, unanswered, late, left>> /\ lpc = "health"
      /\ lpc' \in {"ticker", "down", "up"} /\ (lpc' = "up" => Connected)
  BY DEF TestHealth, Goto, Outside
<1>2. Calm(mqtt, mqtt')
  BY Parts, Values DEF TestHealth, Calm, MqttType, AfterBoot
<1> QED
  BY <1>1, <1>2 DEF Quiet, Wanted, CheckPlaces, InCheck, Connected

LEMMA OtherKeeps ==
  ASSUME TypeInv, HealthInv,
         \/ OnMqttConnect \/ ConnectionClosed \/ BrokerFallsSilent \/ OnHealthEcho
         \/ SaveConfig \/ MqttStopForFirmwareUpdate \/ WiFiGotIP \/ WiFiDisconnected
  PROVE  HealthInv'
<1> USE Parts, DisconnectEnds, Disconnected DEF HealthInv, Connected, Loop, History
<1>1. CASE OnMqttConnect
  <2>1. lpc' \notin InCheck
    BY <1>1 DEF OnMqttConnect, Wanted
  <2>2. client'.state # "connecting" /\ (Connected' => net.enabled /\ ~net.stopped)
    <3> DEFINE up == [client EXCEPT !.state = "connected", !.alive = TRUE]
    <3>1. up \in ClientType
      BY ClientUpdates, Bounds
    <3>2. up.state = "connected"
      BY DEF ClientType
    <3>3. \/ client' = Disconnect(up)
          \/ client' = up /\ net.enabled /\ ~net.stopped
      BY <1>1 DEF OnMqttConnect
    <3> HIDE DEF up
    <3> QED
      BY <3>1, <3>2, <3>3
  <2>3. Connected' => mqtt'.misses = 0 /\ mqtt'.awaiting = FALSE
    <3> SUFFICES ASSUME Connected' PROVE mqtt'.misses = 0 /\ mqtt'.awaiting = FALSE
      OBVIOUS
    <3> DEFINE st == Settled([mqtt EXCEPT !.connecting = FALSE])
    <3>1. st \in MqttType
      BY FunctionsAreMild, MqttUpdates DEF Milder
    <3>2. mqtt' = [st EXCEPT !.awaiting = FALSE, !.misses = 0, !.subscribe = TRUE, !.idx = 0]
      BY <1>1, <2>2 DEF OnMqttConnect, ClientType, Disconnect
    <3> HIDE DEF st
    <3> QED
      BY <3>1, <3>2 DEF MqttType
  <2>4. unanswered' = FALSE /\ late' = 0 /\ UNCHANGED <<net, left>>
    BY <1>1 DEF OnMqttConnect
  <2>5. Wanted'
    BY <2>1, <2>2, <2>4 DEF Wanted
  <2>6. Refused' \in Nat
    BY <2>4, SessionAssumption DEF LeftType, Refused
  <2>7. MissesAreLate'
    BY <2>1, <2>3, <2>4 DEF MissesAreLate, InCheck
  <2>8. FlagIsRefusals'
    BY <2>1, <2>3, <2>4, <2>6 DEF FlagIsRefusals, InCheck
  <2> QED
    BY <2>5, <2>7, <2>8
<1>2. CASE ConnectionClosed
  BY <1>2 DEF ConnectionClosed, Wanted, MissesAreLate, FlagIsRefusals
<1>3. CASE BrokerFallsSilent
  <2>1. /\ client'.state = client.state /\ UNCHANGED <<net, mqtt, lpc, loaded, unanswered, late>>
        /\ left'.refusals = left.refusals
    BY <1>3 DEF BrokerFallsSilent, ClientType, Spend, LeftType
  <2>2. Quiet /\ Wanted'
    BY <2>1, FunctionsAreCalm DEF Quiet, Wanted
  <2> QED
    BY <2>2, QuietKeeps
<1>4. CASE OnHealthEcho
  <2>1. /\ client'.state = client.state /\ UNCHANGED <<net, lpc, loaded, left, late>>
        /\ unanswered' = FALSE
    BY <1>4 DEF OnHealthEcho, ClientType
  <2>2. Connected => mqtt'.misses = 0 /\ mqtt'.awaiting = FALSE
    BY <1>4 DEF OnHealthEcho, Wanted, MqttType
  <2>3. Wanted'
    BY <2>1 DEF Wanted
  <2>4. Refused' = Refused /\ Refused \in Nat /\ late \in Nat
    BY <2>1, SessionAssumption DEF LeftType, Refused
  <2>5. MissesAreLate'
    BY <2>1, <2>2, <2>4 DEF MissesAreLate
  <2>6. FlagIsRefusals'
    BY <2>1, <2>2, <2>4 DEF FlagIsRefusals
  <2> QED
    BY <2>3, <2>5, <2>6
<1>5. CASE SaveConfig
  <2>1. PICK enabled \in BOOLEAN, rerouted \in BOOLEAN :
          /\ net' = [net EXCEPT !.enabled = enabled]
          /\ ApplyMqttActiveState(mqtt, enabled, rerouted)
    BY <1>5 DEF SaveConfig
  <2>2. net'.enabled = enabled /\ net'.stopped = net.stopped
    BY <2>1 DEF NetType
  <2>3. UNCHANGED <<lpc, loaded, unanswered, late>> /\ left'.refusals = left.refusals
    BY <1>5 DEF SaveConfig, Spend, LeftType
  <2>4. /\ Connected' => Connected /\ (~net.stopped => enabled) /\ Calm(mqtt, mqtt')
        /\ client'.state = "connecting" => client.state = "connecting"
    BY <2>1, ApplyQuiet, FunctionsAreCalm
  <2>5. Quiet /\ Wanted'
    BY <2>2, <2>3, <2>4 DEF Quiet, Wanted
  <2> QED
    BY <2>5, QuietKeeps
<1>6. CASE MqttStopForFirmwareUpdate
  <2>1. ~Connected' /\ (client'.state = "connecting" => client.state = "connecting")
    BY <1>6 DEF MqttStopForFirmwareUpdate
  <2>2. UNCHANGED lpc
    BY <1>6 DEF MqttStopForFirmwareUpdate
  <2> QED
    BY <2>1, <2>2 DEF Wanted, MissesAreLate, FlagIsRefusals
<1>7. CASE WiFiGotIP
  <2>1. /\ net'.enabled = net.enabled /\ net'.stopped = net.stopped
        /\ UNCHANGED <<mqtt, client, lpc, loaded, unanswered, late, left>>
    BY <1>7 DEF WiFiGotIP, NetType
  <2>2. Quiet /\ Wanted'
    BY <2>1, FunctionsAreCalm DEF Quiet, Wanted
  <2> QED
    BY <2>2, QuietKeeps
<1>8. CASE WiFiDisconnected
  <2>1. /\ net'.enabled = net.enabled /\ net'.stopped = net.stopped
        /\ UNCHANGED <<mqtt, lpc, loaded, unanswered, late>>
        /\ client'.state = client.state /\ left'.refusals = left.refusals
    BY <1>8 DEF WiFiDisconnected, NetType, ClientType, Spend, LeftType
  <2>2. Quiet /\ Wanted'
    BY <2>1, FunctionsAreCalm DEF Quiet, Wanted
  <2> QED
    BY <2>2, QuietKeeps
<1> QED
  BY <1>1, <1>2, <1>3, <1>4, <1>5, <1>6, <1>7, <1>8

LEMMA NextKeeps == TypeInv /\ HealthInv /\ [Next]_vars => HealthInv'
<1> SUFFICES ASSUME TypeInv, HealthInv, [Next]_vars PROVE HealthInv'
  OBVIOUS
<1>1. CASE UNCHANGED vars
  BY <1>1 DEF vars, HealthInv, Wanted, MissesAreLate, FlagIsRefusals, Connected, Refused
<1>2. CASE Quiet /\ Wanted'
  BY <1>2, QuietKeeps DEF HealthInv
<1>3. CASE PublishRelay
  <2>1. CASE Goto("load") /\ UNCHANGED <<mqtt, Outside>>
    <3>1. /\ UNCHANGED <<net, mqtt, client, unanswered, late, left>>
          /\ lpc = "publish" /\ lpc' = "load"
      BY <1>3, <2>1 DEF PublishRelay, Goto, Outside
    <3>2. Quiet /\ Wanted'
      BY <3>1, Parts, FunctionsAreCalm DEF HealthInv, Quiet, Wanted, CheckPlaces, InCheck, Connected
    <3> QED
      BY <1>2, <3>2
  <2> QED
    BY <1>3, <2>1, RestartKeeps DEF PublishRelay
<1>4. CASE Next
  <2>1. Wanted
    BY DEF HealthInv
  <2> QED
    BY <1>2, <1>3, <1>4, <2>1, LoopQuiet, TestHealthKeeps, CheckKeeps, OtherKeeps, RestartKeeps
       DEF Next, LoopStep, ServiceRestartRequired
<1> QED
  BY <1>1, <1>4

\* The health check drops a session only after MaxMisses - 1 checks in a row that each
\* began with a ping still without its echo, if the library refused no publication;
\* and without such a check only if it refused MaxMisses - 1.  For every limit, also
\* when echoes come between the steps of a check (mqttHealthCheck(), onMqttMessage()).
THEOREM LiveBrokerIsKept == Spec => LiveBrokerKept
<1>1. Init => HealthInv
  BY Disconnected DEF Init, HealthInv, Wanted, MissesAreLate, FlagIsRefusals, Connected, InCheck
<1>2. TypeInv /\ HealthInv /\ [Next]_vars => HealthInv'
  BY NextKeeps
<1>3. TypeInv /\ HealthInv =>
        (Drop => /\ Refused = 0 => late >= MaxMisses - 1
                 /\ late = 0 => Refused >= MaxMisses - 1)
  <2> SUFFICES ASSUME TypeInv, HealthInv, Drop
               PROVE  /\ Refused = 0 => late >= MaxMisses - 1
                      /\ late = 0 => Refused >= MaxMisses - 1
    OBVIOUS
  <2>1. lpc = "judge" /\ mqtt.misses >= MaxMisses /\ client' = Disconnect(client)
    BY DEF Drop, JudgeMisses
  <2>2. Connected
    BY <2>1, Parts DEF Drop, Disconnect, ClientType, States, HealthInv, Wanted, InCheck,
                       Connected
  <2>3. /\ mqtt.misses \in 0..MaxMisses /\ late \in 0..MaxMisses
        /\ Refused \in Nat
    BY Parts, Fields, SessionAssumption DEF LeftType, Refused
  <2> QED
    BY <2>1, <2>2, <2>3, SessionAssumption DEF HealthInv, MissesAreLate, FlagIsRefusals
<1> QED
  BY <1>1, <1>2, <1>3, InitTypes, NextTypes, PTL DEF Spec, LiveBrokerKept
=============================================================================
