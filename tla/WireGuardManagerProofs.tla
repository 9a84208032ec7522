----------------------- MODULE WireGuardManagerProofs -----------------------
(***************************************************************************)
(* What holds of the tunnel and of the default route for every             *)
(* configuration, threshold and scenario, and any number of saves and      *)
(* events.                                                                 *)
(***************************************************************************)
EXTENDS WireGuardManager, TLAPS

------------------------------------------------------------------------------
(* Types *)

MgrType    == [started : BOOLEAN, up : BOOLEAN]
TunnelType == [iface : BOOLEAN, up : BOOLEAN, config : Configs,
               keys : {"none", "fresh", "stale"}]
LoopReturns == {"wg", "ensure", "mqtt", "ntp", "upped"}

\* What the types rest on besides themselves: a task returns to a place of its
\* own, an interface has a route to give back, and no more probes of this
\* tunnel were lost than failures are counted.
Sound ==
  /\ back["web"] = "idle" /\ back["loop"] \in LoopReturns
  /\ tunnel.iface => previous # "none"
  /\ lost <= failures

TypeInv == TypeOK /\ Sound

\* What connectTunnel() does while nothing fails, and the line after it.
Connecting(t) ==
  \/ SaveCurrentDns(t) \/ ResolveEndpoint(t) \/ AddInterface(t) \/ SetVpnDns(t)
  \/ ResetBackoff(t)

\* Where the tasks are.
Placed ==
  /\ pc \in [Tasks -> LoopPlaces \cup WebPlaces]
  /\ pc["loop"] \in LoopPlaces /\ pc["web"] \in WebPlaces
  /\ back \in [Tasks -> {"wg", "idle", "ensure", "mqtt", "ntp", "upped"}]
  /\ back["web"] = "idle" /\ back["loop"] \in LoopReturns
  /\ copy \in [Tasks -> Configs]

LEMMA SomeFailures == Threshold \in Nat \ {0}
  BY WireGuardAssumption

USE DEF Tasks, Routes, Brokers, LoopPlaces, WebPlaces

LEMMA InitTypes == Init => TypeInv
<1> SUFFICES ASSUME Init PROVE TypeInv
  OBVIOUS
<1>1. PICK s \in Scenarios :
        /\ conf = [mqtt |-> s.mqtt, ntp |-> s.ntp] /\ file = s.file
        /\ saves = s.saves /\ left = s.events
  BY DEF Init
<1>2. s \in [mqtt : Brokers, ntp : BOOLEAN, file : Configs,
             saves : {s.saves} \cap Nat, events : {s.events} \cap Nat]
  BY WireGuardAssumption
<1>3. /\ conf \in [mqtt : Brokers, ntp : BOOLEAN] /\ file \in Configs
      /\ saves \in Nat /\ left \in Nat
  BY <1>1, <1>2
<1>4. Default \in Configs /\ Threshold \in Nat \ {0}
  BY WireGuardAssumption
<1>5. tunnel \in TunnelType /\ mgr \in MgrType
  BY <1>4 DEF Init, NoTunnel, Down, TunnelType, MgrType
<1>6. pc \in [Tasks -> LoopPlaces \cup WebPlaces] /\ copy \in [Tasks -> Configs]
      /\ back \in [Tasks -> {"wg", "idle", "ensure", "mqtt", "ntp", "upped"}]
      /\ pc["loop"] \in LoopPlaces /\ pc["web"] \in WebPlaces
  BY <1>4 DEF Init, AtRest, NtpEnd
<1>7. loaded \in Configs /\ alive \in BOOLEAN
  BY <1>3 DEF Init
<1>8. /\ request \in BOOLEAN /\ backoff \in {"none", "waiting", "over"}
      /\ route \in Routes /\ previous \in Routes \cup {"none"}
      /\ dns \in {"own", "old", "vpn"} /\ saved \in {"none", "own", "old", "vpn"}
  BY <1>4 DEF Init
<1>9. /\ probe \in {"none", "sent", "answered", "failed"} /\ was \in Routes
      /\ failures \in 0..(Threshold - 1) /\ lost \in 0..Threshold
  BY <1>4 DEF Init
<1>10. /\ session \in Routes \cup {"none", "opening"}
      /\ last \in Routes /\ decided \in Routes /\ known \in BOOLEAN
      /\ wifi \in BOOLEAN /\ crossed \in BOOLEAN /\ swayed \in BOOLEAN
  BY <1>4 DEF Init
<1>11. TypeOK
  BY <1>3, <1>5, <1>6, <1>7, <1>8, <1>9, <1>10 DEF TypeOK, TunnelType, MgrType
<1>12. Sound
  BY <1>4 DEF Sound, Init, NoTunnel, LoopReturns, AtRest, NtpEnd
<1> QED
  BY <1>11, <1>12 DEF TypeInv

(* A restart. *)
LEMMA BootTypes ==
  ASSUME TypeInv, NEW f \in Configs \cup {Torn}, Boot(f),
         UNCHANGED <<conf, file, alive, saves>>, left' \in Nat
  PROVE  TypeInv'
<1>1. Default \in Configs /\ Threshold \in Nat \ {0}
  BY WireGuardAssumption
<1>2. tunnel' \in TunnelType /\ mgr' \in MgrType
  BY <1>1 DEF Boot, NoTunnel, Down, TunnelType, MgrType
<1>3. pc' \in [Tasks -> LoopPlaces \cup WebPlaces] /\ copy' \in [Tasks -> Configs]
      /\ back' \in [Tasks -> {"wg", "idle", "ensure", "mqtt", "ntp", "upped"}]
      /\ pc'["loop"] \in LoopPlaces /\ pc'["web"] \in WebPlaces
  BY <1>1 DEF Boot, AtRest, NtpEnd
<1>4. loaded' \in Configs
  BY <1>1 DEF Boot, TypeInv, TypeOK
<1>5. /\ request' \in BOOLEAN /\ backoff' \in {"none", "waiting", "over"}
      /\ route' \in Routes /\ previous' \in Routes \cup {"none"}
      /\ dns' \in {"own", "old", "vpn"} /\ saved' \in {"none", "own", "old", "vpn"}
  BY <1>1 DEF Boot
<1>6. /\ probe' \in {"none", "sent", "answered", "failed"} /\ was' \in Routes
      /\ failures' \in 0..(Threshold - 1) /\ lost' \in 0..Threshold
  BY <1>1 DEF Boot
<1>7. /\ session' \in Routes \cup {"none", "opening"}
      /\ last' \in Routes /\ decided' \in Routes /\ known' \in BOOLEAN
      /\ wifi' \in BOOLEAN /\ crossed' \in BOOLEAN /\ swayed' \in BOOLEAN
  BY <1>1 DEF Boot
<1>8. TypeOK'
  BY <1>2, <1>3, <1>4, <1>5, <1>6, <1>7 DEF TypeInv, TypeOK, TunnelType, MgrType
<1>9. Sound'
  BY <1>1 DEF Sound, Boot, NoTunnel, LoopReturns, AtRest, NtpEnd
<1> QED
  BY <1>8, <1>9 DEF TypeInv

(* What stopping the tunnel leaves. *)
Stopped ==
  /\ tunnel' \in TunnelType /\ previous' \in Routes \cup {"none"}
  /\ tunnel'.iface => previous' # "none"
  /\ dns' \in {"own", "old", "vpn"} /\ saved' \in {"none", "own", "old", "vpn"}

LEMMA DisconnectTypes ==
  ASSUME TypeInv, Disconnect
  PROVE  Stopped /\ lost' = 0 /\ ~tunnel'.iface
<1>1. Default \in Configs
  BY WireGuardAssumption
<1>2. tunnel' \in TunnelType /\ ~tunnel'.iface
  BY <1>1 DEF Disconnect, NoTunnel, TunnelType
<1> QED
  BY <1>2 DEF Stopped, Disconnect, RestoreSavedDns, TypeInv, TypeOK

LEMMA TearDownTypes ==
  ASSUME TypeInv, NEW t \in Tasks, TearDown(t)
  PROVE  /\ Stopped /\ lost' = 0 /\ failures' = 0 /\ mgr' \in MgrType
         /\ crossed' \in BOOLEAN
<1>1. Stopped /\ lost' = 0
  <2>1. CASE Disconnect
    BY <2>1, DisconnectTypes
  <2>2. CASE lost' = 0 /\ UNCHANGED <<tunnel, previous, dnsvars>>
    BY <2>2 DEF Stopped, dnsvars, TypeInv, TypeOK, Sound, TunnelType
  <2> QED
    BY <2>1, <2>2 DEF TearDown
<1>2. mgr' \in MgrType /\ failures' = 0
  BY DEF TearDown, Down, MgrType
<1>3. crossed' \in BOOLEAN
  BY DEF TearDown, Crosses, InStart, Before, After, TypeInv, TypeOK
<1> QED
  BY <1>1, <1>2, <1>3

(* Whether the tunnel is wanted may need the broker's address. *)
LEMMA WantsTypes ==
  ASSUME TypeInv, NEW wants \in BOOLEAN, Wants(wants)
  PROVE  known' \in BOOLEAN /\ LookedUp \in Routes
  BY DEF Wants, LookedUp, TypeInv, TypeOK

(* What either task does. *)
LEMMA TaskTypes ==
  ASSUME TypeInv, NEW t \in Tasks,
         \/ Start(t) \/ Begin(t) \/ Connecting(t) \/ ConnectFails(t)
         \/ AddedTwice(t) \/ NtpUpdate(t) \/ SelectRoute(t) \/ RestorePrimaryRoute(t)
  PROVE  TypeInv'
<1> USE DEF TypeInv, TypeOK, Sound, TunnelType, MgrType, LoopReturns, NtpEnd,
            Goto, Move, Call, config, dnsvars, check, mqtt, world, tunnelvars
<1>1. CASE Start(t)
  <2>1. CASE loaded \notin Enabled /\ Goto(t, back[t]) /\ TearDown(t) /\ UNCHANGED copy
    <3>1. Stopped /\ lost' = 0 /\ failures' = 0 /\ mgr' \in MgrType /\ crossed' \in BOOLEAN
      BY <2>1, TearDownTypes
    <3>2. /\ probe' = "none" /\ backoff' = "none" /\ route' = "wifi"
          /\ swayed' = TRUE /\ UNCHANGED was
      BY <2>1 DEF TearDown, Sways
    <3>3. Placed' /\ UNCHANGED <<config, mqtt, known, world, left>>
      BY <1>1, <2>1 DEF Start, Placed
    <3> QED
      BY <3>1, <3>2, <3>3, SomeFailures DEF Stopped, Placed
  <2>2. CASE /\ Goto(t, back[t])
             /\ UNCHANGED <<mgr, backoff, tunnel, route, previous, dnsvars, check,
                            copy, crossed, swayed>>
    BY <1>1, <2>2 DEF Start
  <2>3. CASE /\ loaded \in Enabled /\ copy' = [copy EXCEPT ![t] = loaded]
             /\ Move(t, "begin") /\ Crosses(t)
             /\ UNCHANGED <<mgr, backoff, tunnel, route, previous, dnsvars, check, swayed>>
    <3>1. crossed' \in BOOLEAN
      BY <2>3 DEF Crosses, InStart, Before, After
    <3> QED
      BY <1>1, <2>3, <3>1 DEF Start
  <2> QED
    BY <1>1, <2>1, <2>2, <2>3 DEF Start
<1>2. CASE Begin(t)
  <2>1. tunnel' \in TunnelType /\ ~tunnel'.iface /\ lost' = 0
    BY <1>2, WireGuardAssumption DEF Begin, NoTunnel
  <2>2. previous' \in Routes \cup {"none"} /\ route' \in Routes
    BY <1>2 DEF Begin, Ended
  <2>3. dns' \in {"own", "old", "vpn"} /\ saved' \in {"none", "own", "old", "vpn"}
    BY <1>2 DEF Begin, RestoreSavedDns
  <2>4. known' \in BOOLEAN
    BY <1>2, WantsTypes DEF Begin
  <2>5. mgr' \in MgrType /\ Placed'
    BY <1>2, WireGuardAssumption DEF Begin, Placed
  <2>6. /\ UNCHANGED <<config, backoff, probe, was, failures, mqtt, world, left, crossed>>
        /\ swayed' = TRUE
    BY <1>2 DEF Begin, Sways
  <2> QED
    BY <2>1, <2>2, <2>3, <2>4, <2>5, <2>6, SomeFailures DEF Placed
<1>3. CASE SaveCurrentDns(t) \/ ResolveEndpoint(t) \/ SetVpnDns(t) \/ ResetBackoff(t)
  BY <1>3 DEF SaveCurrentDns, ResolveEndpoint, SetVpnDns, ResetBackoff
<1>4. CASE AddInterface(t)
  <2>1. tunnel' \in TunnelType /\ previous' \in Routes
    BY <1>4 DEF AddInterface
  <2> QED
    BY <1>4, <2>1 DEF AddInterface, Sways
<1>5. CASE ConnectFails(t)
  BY <1>5 DEF ConnectFails, Sways, Spend, RestoreSavedDns, Down
<1>6. CASE AddedTwice(t)
  BY <1>6, BootTypes DEF AddedTwice
<1>7. CASE NtpUpdate(t)
  BY <1>7 DEF NtpUpdate, NtpTest, Spend
<1>8. CASE SelectRoute(t)
  BY <1>8 DEF SelectRoute
<1>9. CASE RestorePrimaryRoute(t)
  <2>1. known' \in BOOLEAN /\ route' \in Routes
    BY <1>9, WantsTypes DEF RestorePrimaryRoute
  <2> QED
    BY <1>9, <2>1 DEF RestorePrimaryRoute
<1> QED
  BY <1>1, <1>2, <1>3, <1>4, <1>5, <1>6, <1>7, <1>8, <1>9 DEF Connecting

(* A probe that is lost, and what a count that is reached does. *)
LEMMA ScheduleTypes ==
  ASSUME TypeInv, Disconnect, ScheduleReconnect, Crosses("loop"), Sways
  PROVE  /\ Stopped /\ lost' = 0 /\ ~tunnel'.iface /\ mgr' \in MgrType
         /\ backoff' = "waiting" /\ route' = "wifi"
         /\ crossed' \in BOOLEAN /\ swayed' = TRUE
<1>1. Stopped /\ lost' = 0 /\ ~tunnel'.iface
  BY DisconnectTypes
<1>2. mgr' \in MgrType /\ backoff' = "waiting" /\ route' = "wifi"
  BY DEF ScheduleReconnect, Down, MgrType
<1>3. crossed' \in BOOLEAN /\ swayed' = TRUE
  BY DEF Crosses, Sways, InStart, Before, After, TypeInv, TypeOK
<1> QED
  BY <1>1, <1>2, <1>3

LEMMA FailureTypes ==
  ASSUME TypeInv, Placed', HandleFailure,
         UNCHANGED <<config, was, mqtt, known, world>>, left' \in Nat
  PROVE  TypeInv'
<1> USE SomeFailures
<1>1. probe' = "none"
  BY DEF HandleFailure
<1>2. CASE /\ failures + 1 < Threshold /\ failures' = failures + 1 /\ lost' = lost + 1
           /\ UNCHANGED <<mgr, backoff, tunnel, route, previous, dnsvars, crossed, swayed>>
  <2>1. failures' \in 0..(Threshold - 1) /\ lost' \in 0..Threshold /\ lost' <= failures'
    BY <1>2 DEF TypeInv, TypeOK, Sound
  <2> QED
    BY <1>1, <1>2, <2>1 DEF TypeInv, TypeOK, Sound, Placed, config, mqtt, world, dnsvars
<1>3. CASE /\ failures + 1 >= Threshold /\ failures' = 0
           /\ Disconnect /\ ScheduleReconnect /\ Crosses("loop") /\ Sways
  <2>1. /\ Stopped /\ lost' = 0 /\ ~tunnel'.iface /\ mgr' \in MgrType
        /\ backoff' = "waiting" /\ route' = "wifi"
        /\ crossed' \in BOOLEAN /\ swayed' = TRUE
    BY <1>3, ScheduleTypes
  <2>2. failures' = 0
    BY <1>3
  <2> QED
    BY <1>1, <2>1, <2>2 DEF TypeInv, TypeOK, Sound, Placed, Stopped, MgrType, TunnelType,
                            config, mqtt, world
<1> QED
  BY <1>2, <1>3 DEF HandleFailure

(* What the loop does by itself. *)
LEMMA LoopTypes ==
  ASSUME TypeInv,
         \/ TakeRequest \/ LoadConfig \/ Reconnect \/ Poll \/ NetworkIsUp
         \/ PollProbe \/ NoProbe \/ OpenProbe \/ SendProbe \/ SendFails
         \/ ProbeRefused \/ TunnelDown
         \/ Ensure \/ RouteIsReady \/ Connect \/ NoMqtt \/ NoNtp
  PROVE  TypeInv'
<1> USE DEF TypeInv, TypeOK, Sound, TunnelType, MgrType, LoopReturns, NtpEnd,
            Goto, Call, config, dnsvars, check, mqtt, world, tunnelvars
<1>1. CASE TakeRequest
  <2>1. request' \in BOOLEAN /\ Placed'
    BY <1>1 DEF TakeRequest, Placed
  <2> QED
    BY <1>1, <2>1 DEF TakeRequest, Placed
<1>2. CASE LoadConfig
  BY <1>2 DEF LoadConfig
<1>3. CASE Reconnect
  <2>1. Stopped /\ lost' = 0 /\ failures' = 0 /\ mgr' \in MgrType /\ crossed' \in BOOLEAN
    BY <1>3, TearDownTypes DEF Reconnect
  <2>2. /\ probe' = "none" /\ backoff' = "none" /\ route' = "wifi"
        /\ swayed' = TRUE /\ UNCHANGED was
    BY <1>3 DEF Reconnect, TearDown, Sways
  <2>3. Placed' /\ UNCHANGED <<config, mqtt, known, world, left>>
    BY <1>3 DEF Reconnect, Placed
  <2> QED
    BY <2>1, <2>2, <2>3, SomeFailures DEF Stopped, Placed
<1>4. CASE Poll
  <2>1. mgr' \in MgrType /\ tunnel' \in TunnelType /\ tunnel'.iface = tunnel.iface
    BY <1>4 DEF Poll
  <2>2. route' \in Routes /\ swayed' \in BOOLEAN
    BY <1>4 DEF Poll, Sways
  <2>3. /\ Placed'
        /\ UNCHANGED <<config, backoff, previous, dnsvars, check, mqtt, known, world, left,
                       crossed>>
    BY <1>4 DEF Poll, Placed
  <2> QED
    BY <2>1, <2>2, <2>3 DEF Placed
<1>5. CASE NetworkIsUp
  <2>1. known' \in BOOLEAN /\ route' \in Routes
    BY <1>5, WantsTypes DEF NetworkIsUp
  <2> QED
    BY <1>5, <2>1 DEF NetworkIsUp, Sways
<1>6. CASE PollProbe
  <2>1. Placed' /\ UNCHANGED <<config, was, mqtt, known, world, left>>
    BY <1>6 DEF PollProbe, Placed
  <2>2. CASE HandleFailure
    <3> HIDE DEF TypeInv, config, mqtt, world
    <3>1. TypeInv /\ left' \in Nat
      BY <2>1 DEF TypeInv
    <3> QED
      BY <2>1, <2>2, <3>1, FailureTypes
  <2>3. CASE /\ probe' \in {"none", probe}
             /\ \/ failures' = 0 /\ lost' = 0
                \/ UNCHANGED <<failures, lost>>
             /\ UNCHANGED tunnelvars
    BY <2>1, <2>3, SomeFailures DEF Placed
  <2> QED
    BY <1>6, <2>2, <2>3 DEF PollProbe, Answered, ProbeIsLost
<1>7. CASE NoProbe
  BY <1>7 DEF NoProbe
<1>8. CASE OpenProbe
  BY <1>8 DEF OpenProbe, Sways
<1>9. CASE SendProbe
  BY <1>9 DEF SendProbe, Sways
<1>10. CASE SendFails
  BY <1>10 DEF SendFails, Sways, Spend
<1>11. CASE ProbeRefused
  <2>1. /\ Placed' /\ HandleFailure
        /\ UNCHANGED <<config, was, mqtt, known, world, left>>
    BY <1>11 DEF ProbeRefused, Placed
  <2> HIDE DEF TypeInv, config, mqtt, world
  <2>2. TypeInv /\ left' \in Nat
    BY <2>1 DEF TypeInv
  <2> QED
    BY <2>1, <2>2, FailureTypes
<1>12. CASE TunnelDown
  <2>1. /\ Placed'
        /\ UNCHANGED <<config, probe, was, failures, mqtt, known, world, left>>
    BY <1>12 DEF TunnelDown, Placed
  <2>2. CASE Disconnect /\ ScheduleReconnect /\ Crosses("loop") /\ Sways
    <3>1. /\ Stopped /\ lost' = 0 /\ ~tunnel'.iface /\ mgr' \in MgrType
          /\ backoff' = "waiting" /\ route' = "wifi"
          /\ crossed' \in BOOLEAN /\ swayed' = TRUE
      BY <2>2, ScheduleTypes
    <3> QED
      BY <2>1, <3>1, SomeFailures DEF Placed, Stopped
  <2>3. CASE /\ backoff' \in {"none", backoff}
             /\ UNCHANGED <<lost, mgr, tunnel, route, previous, dnsvars, crossed, swayed>>
    BY <2>1, <2>3 DEF Placed
  <2> QED
    BY <1>12, <2>2, <2>3 DEF TunnelDown
<1>13. CASE Ensure
  BY <1>13 DEF Ensure
<1>14. CASE RouteIsReady
  <2>1. known' \in BOOLEAN /\ route' \in Routes /\ last' \in Routes
    BY <1>14, WantsTypes DEF RouteIsReady
  <2>2. swayed' \in BOOLEAN
    BY <1>14 DEF RouteIsReady, InNtp, InStart, Before, After
  <2>3. Placed'
    BY <1>14 DEF RouteIsReady, Placed, AfterMqtt
  <2>4. UNCHANGED <<config, mgr, backoff, tunnel, previous, dnsvars, check, session, decided,
                    world, left, crossed>>
    BY <1>14 DEF RouteIsReady
  <2> QED
    BY <2>1, <2>2, <2>3, <2>4 DEF Placed
<1>15. CASE Connect
  <2>1. swayed' \in BOOLEAN
    BY <1>15 DEF Connect, InNtp, InStart, Before, After
  <2> QED
    BY <1>15, <2>1 DEF Connect
<1>16. CASE NoMqtt
  BY <1>16 DEF NoMqtt
<1>17. CASE NoNtp
  BY <1>17 DEF NoNtp
<1> QED
  BY <1>1, <1>2, <1>3, <1>4, <1>5, <1>6, <1>7, <1>8, <1>9, <1>10, <1>11, <1>12,
     <1>13, <1>14, <1>15, <1>16, <1>17

(* What the web pages, the TCP/IP task and the surroundings do. *)
LEMMA OtherTypes ==
  ASSUME TypeInv,
         \/ SaveBegins \/ SaveEnds \/ SaveFails \/ RequestApply \/ ApplyMqttState
         \/ ShowRoute \/ Opened \/ Surroundings
  PROVE  TypeInv'
<1> USE DEF TypeInv, TypeOK, Sound, TunnelType, MgrType, LoopReturns, NtpEnd,
            Goto, Spend, config, dnsvars, check, mqtt, world, tunnelvars, mine
<1>1. CASE SaveBegins
  BY <1>1 DEF SaveBegins
<1>2. CASE SaveEnds
  BY <1>2 DEF SaveEnds
<1>3. CASE SaveFails
  BY <1>3 DEF SaveFails
<1>4. CASE RequestApply
  BY <1>4 DEF RequestApply
<1>5. CASE ApplyMqttState
  <2>1. /\ known' \in BOOLEAN /\ route' \in Routes /\ swayed' \in BOOLEAN
        /\ session' \in {"none", session} /\ decided' \in {"wifi", decided}
    BY <1>5 DEF ApplyMqttState, Sways
  <2>2. /\ left' \in Nat
        /\ UNCHANGED <<config, mgr, backoff, tunnel, previous, dnsvars, check, last, world,
                       pc, back, copy, crossed>>
    BY <1>5 DEF ApplyMqttState
  <2> QED
    BY <2>1, <2>2
<1>6. CASE ShowRoute
  <2>1. known' \in BOOLEAN
    BY <1>6, WantsTypes DEF ShowRoute
  <2> QED
    BY <1>6, <2>1 DEF ShowRoute, Sways
<1>7. CASE Opened
  BY <1>7 DEF Opened, Sways
<1>8. CASE GotIp
  BY <1>8 DEF GotIp, Sways
<1>9. CASE LoseWifi
  <2>1. wifi' \in BOOLEAN
    BY <1>9 DEF LoseWifi
  <2>2. left' \in Nat
    BY <1>9 DEF LoseWifi
  <2>3. UNCHANGED <<mine, tunnel, route, previous, dnsvars, session, decided, alive, swayed>>
    BY <1>9 DEF LoseWifi
  <2> QED
    BY <2>1, <2>2, <2>3
<1>10. CASE RenewLease
  BY <1>10 DEF RenewLease
<1>11. CASE Handshake
  <2>1. tunnel' \in TunnelType /\ tunnel'.iface = tunnel.iface
    BY <1>11 DEF Handshake
  <2> QED
    BY <1>11, <2>1 DEF Handshake
<1>12. CASE KeysAge
  <2>1. tunnel' \in TunnelType /\ tunnel'.iface = tunnel.iface
    BY <1>12 DEF KeysAge
  <2> QED
    BY <1>12, <2>1 DEF KeysAge
<1>13. CASE PeerChanges
  BY <1>13 DEF PeerChanges
<1>14. CASE ProbeEnds
  BY <1>14 DEF ProbeEnds
<1>15. CASE SessionEnds
  BY <1>15 DEF SessionEnds
<1>16. CASE BackoffEnds
  BY <1>16 DEF BackoffEnds
<1>17. CASE PowerCut
  BY <1>17, BootTypes DEF PowerCut
<1> QED
  BY <1>1, <1>2, <1>3, <1>4, <1>5, <1>6, <1>7, <1>8, <1>9, <1>10, <1>11, <1>12,
     <1>13, <1>14, <1>15, <1>16, <1>17 DEF Surroundings

(* Every step of the specification keeps every variable in its type. *)
LEMMA NextTypes == TypeInv /\ [Next]_vars => TypeInv'
<1> SUFFICES ASSUME TypeInv, [Next]_vars PROVE TypeInv'
  OBVIOUS
<1>1. CASE UNCHANGED vars
  BY <1>1 DEF vars, TypeInv, TypeOK, Sound, config, dnsvars, check, mqtt, world
<1>2. CASE Next
  <2>1. "loop" \in Tasks /\ "web" \in Tasks
    OBVIOUS
  <2> HIDE DEF Tasks
  <2> QED
    BY <1>2, <2>1, TaskTypes, LoopTypes, OtherTypes
       DEF Next, LoopStep, WebStep, WebBegins, EnsureStarted, Connecting
<1> QED
  BY <1>1, <1>2

\* The tunnel, the route and those that use them keep to their types, whatever the
\* order of the tasks, lookups, leases and handshakes.
THEOREM WireGuardTypeCorrect == Spec => []TypeOK
<1>1. Spec => []TypeInv
  BY InitTypes, NextTypes, PTL DEF Spec
<1>2. TypeInv => TypeOK
  BY DEF TypeInv
<1> QED
  BY <1>1, <1>2, PTL

------------------------------------------------------------------------------
(* As long as no two tasks start or stop the tunnel at the same time *)

\* A tunnel there is was started, and the network is up only with it.
Started ==
  /\ tunnel.iface => mgr.started
  /\ mgr.up => mgr.started /\ tunnel.up
  /\ tunnel.up => tunnel.iface

\* A task that starts the tunnel is alone in it, finds none, and has one at last.
Starting ==
  /\ ~(InStart("loop") /\ InStart("web"))
  /\ \A t \in Tasks :
       /\ Before(t) => ~tunnel.iface /\ ~mgr.up
       /\ After(t) => tunnel.iface
       /\ pc[t] = "begin" => ~mgr.started
       /\ pc[t] \in {"connect", "resolve", "add"} => mgr.started

\* A probe is sent on a tunnel that is up and stays so.
Probing == pc["loop"] \in {"send", "refused"} => mgr.up /\ loaded \in Checked

Orderly == ~crossed => Started /\ Starting /\ Probing

LEMMA InitOrderly == Init => Orderly
  BY DEF Init, Orderly, Started, Starting, Probing, NoTunnel, Down, InStart, Before, After,
         AtRest, NtpEnd

LEMMA BootOrderly == ASSUME NEW f, Boot(f) PROVE Orderly'
  BY DEF Boot, Orderly, Started, Starting, Probing, NoTunnel, Down, InStart, Before, After,
         AtRest, NtpEnd

LEMMA TaskOrderly ==
  ASSUME TypeInv, Orderly, NEW t \in Tasks,
         \/ Start(t) \/ Begin(t) \/ Connecting(t) \/ ConnectFails(t)
         \/ AddedTwice(t) \/ NtpUpdate(t) \/ SelectRoute(t) \/ RestorePrimaryRoute(t)
  PROVE  Orderly'
<1> SUFFICES ASSUME ~crossed' PROVE Orderly'
  BY DEF Orderly
<1> USE DEF TypeInv, TypeOK, Sound, TunnelType, MgrType, LoopReturns, NtpEnd,
            Goto, Move, Call, Orderly, Started, Starting, Probing, InStart, Before, After, Other
<1>1. CASE Start(t)
  <2>1. loaded' = loaded /\ Checked \subseteq Enabled
    BY <1>1, WireGuardAssumption DEF Start, config
  <2>2. CASE loaded \notin Enabled /\ Goto(t, back[t]) /\ TearDown(t) /\ UNCHANGED copy
    <3>1. ~InStart(Other(t)) /\ ~crossed
      BY <2>2 DEF TearDown, Crosses
    <3>2. mgr' = Down /\ ~tunnel'.iface /\ ~tunnel'.up
      BY <2>2, <3>1 DEF TearDown, Disconnect, NoTunnel
    <3> QED
      BY <2>1, <2>2, <3>1, <3>2 DEF Down
  <2>3. CASE /\ Goto(t, back[t])
             /\ UNCHANGED <<mgr, backoff, tunnel, route, previous, dnsvars, check,
                            copy, crossed, swayed>>
    BY <2>1, <2>3
  <2>4. CASE /\ loaded \in Enabled
             /\ ~NetworkUp /\ ~mgr.started /\ backoff # "waiting" /\ wifi
             /\ copy' = [copy EXCEPT ![t] = loaded] /\ Move(t, "begin")
             /\ Crosses(t)
             /\ UNCHANGED <<mgr, backoff, tunnel, route, previous, dnsvars, check, swayed>>
    BY <2>1, <2>4 DEF Crosses
  <2> QED
    BY <1>1, <2>2, <2>3, <2>4 DEF Start
<1>2. CASE Begin(t)
  BY <1>2 DEF Begin, NoTunnel
<1>3. CASE SaveCurrentDns(t) \/ ResolveEndpoint(t) \/ SetVpnDns(t) \/ ResetBackoff(t)
  <2>1. UNCHANGED <<mgr, tunnel, crossed, loaded>>
    BY <1>3 DEF SaveCurrentDns, ResolveEndpoint, SetVpnDns, ResetBackoff, tunnelvars, config
  <2>2. CASE Move(t, "resolve") /\ pc[t] = "connect"
    BY <2>1, <2>2
  <2>3. CASE Move(t, "add") /\ pc[t] = "resolve"
    BY <2>1, <2>3
  <2>4. CASE Move(t, "begun") /\ pc[t] = "names"
    BY <2>1, <2>4
  <2>5. CASE Goto(t, back[t]) /\ pc[t] = "begun"
    BY <2>1, <2>5
  <2> QED
    BY <1>3, <2>2, <2>3, <2>4, <2>5
       DEF SaveCurrentDns, ResolveEndpoint, SetVpnDns, ResetBackoff
<1>4. CASE AddInterface(t)
  BY <1>4 DEF AddInterface, dnsvars
<1>5. CASE ConnectFails(t)
  BY <1>5 DEF ConnectFails, Down
<1>6. CASE AddedTwice(t)
  BY <1>6, BootOrderly DEF AddedTwice
<1>7. CASE NtpUpdate(t)
  BY <1>7 DEF NtpUpdate, NtpTest, tunnelvars, config
<1>8. CASE SelectRoute(t)
  BY <1>8 DEF SelectRoute, config
<1>9. CASE RestorePrimaryRoute(t)
  BY <1>9 DEF RestorePrimaryRoute, config
<1> QED
  BY <1>1, <1>2, <1>3, <1>4, <1>5, <1>6, <1>7, <1>8, <1>9 DEF Connecting

LEMMA LoopOrderly ==
  ASSUME TypeInv, Orderly,
         \/ TakeRequest \/ LoadConfig \/ Reconnect \/ Poll \/ NetworkIsUp
         \/ PollProbe \/ NoProbe \/ OpenProbe \/ SendProbe \/ SendFails
         \/ ProbeRefused \/ TunnelDown
         \/ Ensure \/ RouteIsReady \/ Connect \/ NoMqtt \/ NoNtp
  PROVE  Orderly'
<1> SUFFICES ASSUME ~crossed' PROVE Orderly'
  BY DEF Orderly
<1> USE DEF TypeInv, TypeOK, Sound, TunnelType, MgrType, LoopReturns, NtpEnd,
            Goto, Move, Call, Orderly, Started, Starting, Probing, InStart, Before, After, Other
<1>1. CASE TakeRequest
  BY <1>1 DEF TakeRequest
<1>2. CASE LoadConfig
  BY <1>2 DEF LoadConfig
<1>3. CASE Reconnect
  <2>1. ~InStart("web") /\ ~crossed
    BY <1>3 DEF Reconnect, TearDown, Crosses
  <2>2. mgr' = Down /\ ~tunnel'.iface /\ ~tunnel'.up
    BY <1>3, <2>1 DEF Reconnect, TearDown, Disconnect, NoTunnel
  <2> QED
    BY <1>3, <2>1, <2>2 DEF Reconnect, Down
<1>4. CASE Poll
  BY <1>4 DEF Poll
<1>5. CASE NetworkIsUp
  BY <1>5 DEF NetworkIsUp
<1>6. CASE PollProbe
  <2>1. CASE HandleFailure
    <3>1. ~InStart("web") \/ UNCHANGED <<mgr, tunnel>>
      BY <2>1 DEF HandleFailure, Crosses
    <3>2. ~crossed
      BY <2>1 DEF HandleFailure, Crosses
    <3>3. \/ UNCHANGED <<mgr, tunnel>>
          \/ mgr' = Down /\ ~tunnel'.iface /\ ~tunnel'.up
      BY <2>1 DEF HandleFailure, Disconnect, ScheduleReconnect, NoTunnel
    <3> QED
      BY <1>6, <3>1, <3>2, <3>3 DEF PollProbe, Down
  <2>2. CASE UNCHANGED tunnelvars
    BY <1>6, <2>2 DEF PollProbe, tunnelvars
  <2> QED
    BY <1>6, <2>1, <2>2 DEF PollProbe, ProbeIsLost, tunnelvars
<1>7. CASE NoProbe
  BY <1>7 DEF NoProbe, tunnelvars
<1>8. CASE OpenProbe
  BY <1>8 DEF OpenProbe, NetworkUp, config
<1>9. CASE SendProbe
  BY <1>9 DEF SendProbe
<1>10. CASE SendFails
  BY <1>10 DEF SendFails, config
<1>11. CASE ProbeRefused
  <2>1. ~InStart("web") \/ UNCHANGED <<mgr, tunnel>>
    BY <1>11 DEF ProbeRefused, HandleFailure, Crosses
  <2>2. ~crossed
    BY <1>11 DEF ProbeRefused, HandleFailure, Crosses
  <2>3. \/ UNCHANGED <<mgr, tunnel>>
        \/ mgr' = Down /\ ~tunnel'.iface /\ ~tunnel'.up
    BY <1>11 DEF ProbeRefused, HandleFailure, Disconnect, ScheduleReconnect, NoTunnel
  <2> QED
    BY <1>11, <2>1, <2>2, <2>3 DEF ProbeRefused, Down
<1>12. CASE TunnelDown
  <2>1. CASE /\ mgr.up /\ ~(tunnel.up /\ tunnel.iface)
             /\ Disconnect /\ ScheduleReconnect /\ Crosses("loop") /\ Sways
    BY <2>1 DEF Crosses
  <2>2. CASE UNCHANGED <<mgr, tunnel, crossed>>
    BY <1>12, <2>2 DEF TunnelDown
  <2> QED
    BY <1>12, <2>1, <2>2 DEF TunnelDown, tunnelvars
<1>13. CASE Ensure
  BY <1>13 DEF Ensure, tunnelvars
<1>14. CASE RouteIsReady
  BY <1>14 DEF RouteIsReady, AfterMqtt
<1>15. CASE Connect
  BY <1>15 DEF Connect
<1>16. CASE NoMqtt
  BY <1>16 DEF NoMqtt, tunnelvars
<1>17. CASE NoNtp
  BY <1>17 DEF NoNtp, tunnelvars
<1> QED
  BY <1>1, <1>2, <1>3, <1>4, <1>5, <1>6, <1>7, <1>8, <1>9, <1>10, <1>11, <1>12,
     <1>13, <1>14, <1>15, <1>16, <1>17

LEMMA OtherOrderly ==
  ASSUME TypeInv, Orderly,
         \/ SaveBegins \/ SaveEnds \/ SaveFails \/ RequestApply \/ ApplyMqttState
         \/ ShowRoute \/ Opened \/ Surroundings
  PROVE  Orderly'
<1> USE DEF TypeInv, TypeOK, Sound, TunnelType, MgrType, NtpEnd,
            Goto, Orderly, Started, Starting, Probing, InStart, Before, After, config, tunnelvars, mine
<1>1. CASE SaveBegins
  BY <1>1 DEF SaveBegins
<1>2. CASE SaveEnds
  BY <1>2 DEF SaveEnds
<1>3. CASE SaveFails
  BY <1>3 DEF SaveFails
<1>4. CASE RequestApply
  BY <1>4 DEF RequestApply
<1>5. CASE ApplyMqttState
  BY <1>5 DEF ApplyMqttState
<1>6. CASE ShowRoute
  BY <1>6 DEF ShowRoute
<1>7. CASE Opened
  BY <1>7 DEF Opened
<1>8. CASE GotIp
  BY <1>8 DEF GotIp
<1>9. CASE LoseWifi
  BY <1>9 DEF LoseWifi
<1>10. CASE RenewLease
  BY <1>10 DEF RenewLease
<1>11. CASE Handshake
  BY <1>11 DEF Handshake
<1>12. CASE KeysAge
  BY <1>12 DEF KeysAge
<1>13. CASE PeerChanges
  BY <1>13 DEF PeerChanges
<1>14. CASE ProbeEnds
  BY <1>14 DEF ProbeEnds
<1>15. CASE SessionEnds
  BY <1>15 DEF SessionEnds
<1>16. CASE BackoffEnds
  BY <1>16 DEF BackoffEnds
<1>17. CASE PowerCut
  BY <1>17, BootOrderly DEF PowerCut
<1> QED
  BY <1>1, <1>2, <1>3, <1>4, <1>5, <1>6, <1>7, <1>8, <1>9, <1>10, <1>11, <1>12,
     <1>13, <1>14, <1>15, <1>16, <1>17 DEF Surroundings

LEMMA NextOrderly == TypeInv /\ Orderly /\ [Next]_vars => Orderly'
<1> SUFFICES ASSUME TypeInv, Orderly, [Next]_vars PROVE Orderly'
  OBVIOUS
<1>1. CASE UNCHANGED vars
  BY <1>1 DEF vars, Orderly, Started, Starting, Probing, InStart, Before, After, config
<1>2. CASE Next
  <2>1. "loop" \in Tasks /\ "web" \in Tasks
    OBVIOUS
  <2> HIDE DEF Tasks
  <2> QED
    BY <1>2, <2>1, TaskOrderly, LoopOrderly, OtherOrderly
       DEF Next, LoopStep, WebStep, WebBegins, EnsureStarted, Connecting
<1> QED
  BY <1>1, <1>2

OrderInv == TypeInv /\ Orderly

LEMMA OrderHolds == Spec => []OrderInv
<1>1. Init => OrderInv
  BY InitTypes, InitOrderly DEF OrderInv
<1>2. OrderInv /\ [Next]_vars => OrderInv'
  BY NextTypes, NextOrderly DEF OrderInv
<1> QED
  BY <1>1, <1>2, PTL DEF Spec

------------------------------------------------------------------------------
(* The count of the DNS liveness check *)

\* What the check counts are the probes of this tunnel, and it counts none
\* without a network.
Counted == ~crossed => lost = failures /\ (~mgr.up => failures = 0)

\* The steps that touch neither the count nor the tunnel's state.
LEMMA CountElsewhere ==
  ASSUME TypeInv,
         \/ (\E t \in Tasks : Connecting(t) \/ NtpUpdate(t)
                              \/ SelectRoute(t) \/ RestorePrimaryRoute(t))
         \/ TakeRequest \/ LoadConfig \/ NetworkIsUp
         \/ NoProbe \/ OpenProbe \/ SendProbe \/ SendFails
         \/ Ensure \/ RouteIsReady \/ Connect \/ NoMqtt \/ NoNtp
         \/ SaveBegins \/ SaveEnds \/ SaveFails \/ RequestApply \/ ApplyMqttState
         \/ ShowRoute \/ Opened
         \/ GotIp \/ LoseWifi \/ RenewLease \/ Handshake \/ KeysAge \/ PeerChanges
         \/ ProbeEnds \/ SessionEnds \/ BackoffEnds \/ UNCHANGED vars
  PROVE  UNCHANGED <<mgr, lost, failures, crossed>>
<1> USE DEF check, tunnelvars, mine
<1>1. CASE \E t \in Tasks : \/ Connecting(t) \/ NtpUpdate(t)
                            \/ SelectRoute(t) \/ RestorePrimaryRoute(t)
  BY <1>1 DEF Connecting, SaveCurrentDns, ResolveEndpoint, AddInterface, SetVpnDns,
              ResetBackoff, NtpUpdate, SelectRoute, RestorePrimaryRoute
<1>2. CASE \/ TakeRequest \/ LoadConfig \/ NetworkIsUp
           \/ NoProbe \/ OpenProbe \/ SendProbe \/ SendFails
           \/ Ensure \/ RouteIsReady \/ Connect \/ NoMqtt \/ NoNtp
  BY <1>2 DEF TakeRequest, LoadConfig, NetworkIsUp, NoProbe, OpenProbe, SendProbe,
              SendFails, Ensure, RouteIsReady, Connect, NoMqtt, NoNtp
<1>3. CASE \/ SaveBegins \/ SaveEnds \/ SaveFails \/ RequestApply \/ ApplyMqttState
           \/ ShowRoute \/ Opened
  BY <1>3 DEF SaveBegins, SaveEnds, SaveFails, RequestApply, ApplyMqttState, ShowRoute,
              Opened
<1>4. CASE \/ GotIp \/ LoseWifi \/ RenewLease \/ Handshake \/ KeysAge \/ PeerChanges
           \/ ProbeEnds \/ SessionEnds \/ BackoffEnds
  BY <1>4 DEF GotIp, LoseWifi, RenewLease, Handshake, KeysAge, PeerChanges, ProbeEnds,
              SessionEnds, BackoffEnds
<1>5. CASE UNCHANGED vars
  BY <1>5 DEF vars
<1> QED
  BY <1>1, <1>2, <1>3, <1>4, <1>5

\* A probe is lost on a tunnel whose network is up, or a restart is due.
LEMMA FailureCounted ==
  ASSUME OrderInv, Counted, HandleFailure, mgr.up \/ crossed
  PROVE  Counted'
<1>1. crossed => crossed'
  BY DEF HandleFailure, Crosses
<1>2. CASE failures + 1 < Threshold
  BY <1>1, <1>2, SomeFailures DEF HandleFailure, Counted, OrderInv, TypeInv, TypeOK
<1>3. CASE failures + 1 >= Threshold
  BY <1>3, SomeFailures DEF HandleFailure, Disconnect, Counted, OrderInv, TypeInv, TypeOK
<1> QED
  BY <1>2, <1>3, SomeFailures DEF OrderInv, TypeInv, TypeOK

LEMMA NextCounted == OrderInv /\ Counted /\ [Next]_vars => Counted'
<1> SUFFICES ASSUME OrderInv, Counted, [Next]_vars PROVE Counted'
  OBVIOUS
<1> USE DEF Counted, OrderInv, Orderly
<1>1. CASE UNCHANGED <<mgr, lost, failures, crossed>>
  BY <1>1
<1>2. ASSUME NEW t \in Tasks, Start(t)
      PROVE  Counted'
  <2>1. CASE TearDown(t)
    BY <2>1, TearDownTypes
  <2>2. CASE UNCHANGED <<mgr, check>> /\ crossed' \in {crossed, crossed \/ InStart(Other(t))}
    BY <2>2 DEF check
  <2> QED
    BY <1>2, <2>1, <2>2 DEF Start, Crosses
<1>3. ASSUME NEW t \in Tasks, Begin(t)
      PROVE  Counted'
  <2>1. ~crossed => ~mgr.up
    BY <1>3 DEF Begin, Starting, InStart, Before, After
  <2> QED
    BY <1>3, <2>1 DEF Begin
<1>4. ASSUME NEW t \in Tasks, ConnectFails(t)
      PROVE  Counted'
  <2>1. ~crossed => ~mgr.up
    BY <1>4 DEF ConnectFails, Starting, InStart, Before, After
  <2> QED
    BY <1>4, <2>1 DEF ConnectFails, check
<1>5. ASSUME NEW f, Boot(f)
      PROVE  Counted'
  BY <1>5 DEF Boot
<1>6. CASE Reconnect
  BY <1>6, TearDownTypes DEF Reconnect
<1>7. CASE Poll
  <2>1. mgr'.up \/ mgr' = mgr
    BY <1>7 DEF Poll, TypeInv, TypeOK
  <2> QED
    BY <1>7, <2>1 DEF Poll, check
<1>8. CASE PollProbe
  <2>1. CASE HandleFailure
    BY <1>8, <2>1, FailureCounted DEF PollProbe
  <2>2. CASE failures' = 0 /\ lost' = 0 /\ UNCHANGED tunnelvars
    BY <2>2
  <2>3. CASE UNCHANGED <<failures, lost, tunnelvars>>
    BY <2>3 DEF tunnelvars
  <2> QED
    BY <1>8, <2>1, <2>2, <2>3 DEF PollProbe, Answered, ProbeIsLost, tunnelvars
<1>9. CASE ProbeRefused
  BY <1>9, FailureCounted DEF ProbeRefused, Probing
<1>10. CASE TunnelDown
  <2>1. CASE /\ mgr.up /\ ~(tunnel.up /\ tunnel.iface)
             /\ Disconnect /\ ScheduleReconnect /\ Crosses("loop") /\ Sways
    BY <2>1 DEF Crosses, Started
  <2>2. CASE UNCHANGED <<mgr, lost, failures, crossed>>
    BY <2>2
  <2> QED
    BY <1>10, <2>1, <2>2 DEF TunnelDown, tunnelvars
<1> QED
  <2>1. "loop" \in Tasks /\ "web" \in Tasks
    OBVIOUS
  <2> HIDE DEF Tasks
  <2> QED
    BY <2>1, <1>1, <1>2, <1>3, <1>4, <1>5, <1>6, <1>7, <1>8, <1>9, <1>10, CountElsewhere
       DEF Next, LoopStep, WebStep, WebBegins, EnsureStarted, Connecting, Surroundings,
           AddedTwice, PowerCut

\* The check takes the tunnel down only when as many probes as it takes were lost
\* in a row on this very tunnel, for every threshold (wireGuardUpdateDnsLivenessCheck(),
\* wireGuardDnsHandleFailure()).
THEOREM LiveTunnelIsKept == Spec => LiveTunnelKept
<1>1. Init => Counted
  BY DEF Init, Counted
<1>2. OrderInv /\ Counted /\ [Next]_vars => Counted'
  BY NextCounted
<1>3. OrderInv /\ Counted =>
        ((PollProbe \/ ProbeRefused) /\ tunnel.iface /\ ~tunnel'.iface
          => lost + 1 >= Threshold \/ crossed)
  <2> SUFFICES ASSUME OrderInv, Counted, PollProbe \/ ProbeRefused,
                      tunnel.iface, ~tunnel'.iface, ~crossed
               PROVE  lost + 1 >= Threshold
    OBVIOUS
  <2>1. tunnel' # tunnel
    OBVIOUS
  <2>2. failures + 1 >= Threshold
    BY <2>1, SomeFailures DEF PollProbe, ProbeRefused, ProbeIsLost, HandleFailure, tunnelvars,
                              OrderInv, TypeInv, TypeOK
  <2> QED
    BY <2>2 DEF Counted
<1> QED
  BY <1>1, <1>2, <1>3, OrderHolds, PTL DEF Spec, LiveTunnelKept

------------------------------------------------------------------------------
(* What the tunnel leaves of the route and the name servers *)

\* The former name servers are kept from before the interface is added, and
\* they are not a tunnel's; a route that is the tunnel's is set only with it.
Tidy ==
  /\ dns = "vpn" \/ route = "vpn" => tunnel.iface
  /\ tunnel.iface => saved # "none"
  /\ \A t \in Tasks : pc[t] \in {"resolve", "add"} => saved # "none"
  /\ saved # "vpn"
  /\ was = "vpn" => pc["loop"] = "send"

TidyInv == ~crossed => Tidy

\* The name servers are restored.
LEMMA DisconnectTidy ==
  ASSUME OrderInv, Tidy, Disconnect
  PROVE  dns' # "vpn" /\ saved' = "none" /\ ~tunnel'.iface
  BY DEF Disconnect, RestoreSavedDns, NoTunnel, Tidy

LEMMA TaskTidy ==
  ASSUME OrderInv, TidyInv, NEW t \in Tasks,
         \/ Start(t) \/ Begin(t) \/ Connecting(t) \/ ConnectFails(t)
         \/ NtpUpdate(t) \/ SelectRoute(t) \/ RestorePrimaryRoute(t)
  PROVE  TidyInv'
<1> SUFFICES ASSUME ~crossed' PROVE TidyInv'
  BY DEF TidyInv
<1> USE DEF OrderInv, TypeInv, TypeOK, TunnelType, MgrType, LoopReturns, NtpEnd,
            Goto, Move, Call, TidyInv, Tidy, Orderly, Started, Starting, Probing, InStart, Before, After,
            Other, NetworkUp
<1>1. CASE Start(t)
  <2>1. ~crossed /\ pc[t] = "start"
    BY <1>1 DEF Start, TearDown, Crosses
  <2>2. CASE Goto(t, back[t]) /\ TearDown(t)
    <3>1. ~InStart(Other(t)) /\ route' = "wifi" /\ UNCHANGED was
      BY <2>2 DEF TearDown, Crosses
    <3>2. ~tunnel'.iface /\ dns' # "vpn" /\ saved' # "vpn"
      BY <2>1, <2>2, DisconnectTidy DEF TearDown, dnsvars
    <3> QED
      BY <2>1, <2>2, <3>1, <3>2
  <2>3. CASE /\ Goto(t, back[t]) \/ Move(t, "begin")
             /\ UNCHANGED <<tunnel, route, dnsvars, check>>
    BY <2>1, <2>3 DEF dnsvars, check
  <2> QED
    BY <1>1, <2>2, <2>3 DEF Start
<1>2. CASE Begin(t)
  BY <1>2 DEF Begin, NoTunnel, RestoreSavedDns, Ended
<1>3. CASE SaveCurrentDns(t) \/ ResolveEndpoint(t) \/ SetVpnDns(t) \/ ResetBackoff(t)
  BY <1>3 DEF SaveCurrentDns, ResolveEndpoint, SetVpnDns, ResetBackoff,
              tunnelvars, dnsvars, check
<1>4. CASE AddInterface(t)
  BY <1>4 DEF AddInterface, check, dnsvars
<1>5. CASE ConnectFails(t)
  BY <1>5 DEF ConnectFails, RestoreSavedDns, check
<1>6. CASE NtpUpdate(t)
  BY <1>6 DEF NtpUpdate, NtpTest, tunnelvars, check, dnsvars
<1>7. CASE SelectRoute(t)
  BY <1>7 DEF SelectRoute, dnsvars, check
<1>8. CASE RestorePrimaryRoute(t)
  BY <1>8 DEF RestorePrimaryRoute, dnsvars, check
<1> QED
  BY <1>1, <1>2, <1>3, <1>4, <1>5, <1>6, <1>7, <1>8 DEF Connecting

LEMMA LoopTidy ==
  ASSUME OrderInv, TidyInv,
         \/ TakeRequest \/ LoadConfig \/ Reconnect \/ Poll \/ NetworkIsUp
         \/ PollProbe \/ NoProbe \/ OpenProbe \/ SendProbe \/ SendFails
         \/ ProbeRefused \/ TunnelDown
         \/ Ensure \/ RouteIsReady \/ Connect \/ NoMqtt \/ NoNtp
  PROVE  TidyInv'
<1> SUFFICES ASSUME ~crossed' PROVE TidyInv'
  BY DEF TidyInv
<1> USE DEF OrderInv, TypeInv, TypeOK, TunnelType, MgrType, LoopReturns, NtpEnd,
            Goto, Move, Call, TidyInv, Tidy, Orderly, Started, Starting, Probing, InStart, Before, After,
            Other, NetworkUp, dnsvars, check, tunnelvars
<1>1. CASE TakeRequest
  BY <1>1 DEF TakeRequest
<1>2. CASE LoadConfig
  BY <1>2 DEF LoadConfig
<1>3. CASE Reconnect
  <2>1. ~InStart("web") /\ ~crossed /\ route' = "wifi" /\ UNCHANGED was
    BY <1>3 DEF Reconnect, TearDown, Crosses
  <2>2. ~tunnel'.iface /\ dns' # "vpn" /\ saved' # "vpn"
    BY <1>3, <2>1, DisconnectTidy DEF Reconnect, TearDown
  <2> QED
    BY <1>3, <2>1, <2>2 DEF Reconnect
<1>4. CASE Poll
  BY <1>4 DEF Poll
<1>5. CASE NetworkIsUp
  BY <1>5 DEF NetworkIsUp, LookedUp
<1>6. CASE PollProbe
  <2>1. CASE UNCHANGED tunnelvars
    BY <1>6, <2>1 DEF PollProbe
  <2>2. CASE Disconnect /\ ScheduleReconnect /\ Crosses("loop")
    <3>1. ~InStart("web") /\ ~crossed /\ route' = "wifi"
      BY <2>2 DEF ScheduleReconnect, Crosses
    <3>2. ~tunnel'.iface /\ dns' # "vpn" /\ saved' # "vpn"
      BY <2>2, <3>1, DisconnectTidy
    <3> QED
      BY <1>6, <3>1, <3>2 DEF PollProbe
  <2> QED
    BY <1>6, <2>1, <2>2 DEF PollProbe, ProbeIsLost, HandleFailure
<1>7. CASE NoProbe
  BY <1>7 DEF NoProbe
<1>8. CASE OpenProbe
  BY <1>8 DEF OpenProbe
<1>9. CASE SendProbe
  BY <1>9 DEF SendProbe
<1>10. CASE SendFails
  BY <1>10 DEF SendFails
<1>11. CASE ProbeRefused
  <2>1. CASE UNCHANGED <<tunnel, route, dnsvars, crossed>>
    BY <1>11, <2>1 DEF ProbeRefused
  <2>2. CASE Disconnect /\ ScheduleReconnect /\ Crosses("loop")
    <3>1. ~InStart("web") /\ ~crossed /\ route' = "wifi"
      BY <2>2 DEF ScheduleReconnect, Crosses
    <3>2. ~tunnel'.iface /\ dns' # "vpn" /\ saved' # "vpn"
      BY <2>2, <3>1, DisconnectTidy
    <3> QED
      BY <1>11, <3>1, <3>2 DEF ProbeRefused
  <2> QED
    BY <1>11, <2>1, <2>2 DEF ProbeRefused, HandleFailure
<1>12. CASE TunnelDown
  <2>1. CASE /\ mgr.up /\ ~(tunnel.up /\ tunnel.iface)
             /\ Disconnect /\ ScheduleReconnect /\ Crosses("loop") /\ Sways
    BY <2>1 DEF Crosses
  <2>2. CASE UNCHANGED <<tunnel, route, dnsvars, crossed>>
    BY <1>12, <2>2 DEF TunnelDown
  <2> QED
    BY <1>12, <2>1, <2>2 DEF TunnelDown
<1>13. CASE Ensure
  BY <1>13 DEF Ensure
<1>14. CASE RouteIsReady
  BY <1>14 DEF RouteIsReady, AfterMqtt, LookedUp
<1>15. CASE Connect
  BY <1>15 DEF Connect
<1>16. CASE NoMqtt
  BY <1>16 DEF NoMqtt
<1>17. CASE NoNtp
  BY <1>17 DEF NoNtp
<1> QED
  BY <1>1, <1>2, <1>3, <1>4, <1>5, <1>6, <1>7, <1>8, <1>9, <1>10, <1>11, <1>12,
     <1>13, <1>14, <1>15, <1>16, <1>17

LEMMA OtherTidy ==
  ASSUME OrderInv, TidyInv,
         \/ SaveBegins \/ SaveEnds \/ SaveFails \/ RequestApply \/ ApplyMqttState
         \/ ShowRoute \/ Opened \/ GotIp \/ LoseWifi \/ RenewLease \/ Handshake
         \/ KeysAge \/ PeerChanges \/ ProbeEnds \/ SessionEnds \/ BackoffEnds
  PROVE  TidyInv'
<1> USE DEF OrderInv, TypeInv, TypeOK, TunnelType, MgrType, NtpEnd, Goto,
            TidyInv, Tidy, dnsvars, check, tunnelvars, mine
<1>1. CASE SaveBegins
  BY <1>1 DEF SaveBegins
<1>2. CASE SaveEnds
  BY <1>2 DEF SaveEnds
<1>3. CASE SaveFails
  BY <1>3 DEF SaveFails
<1>4. CASE RequestApply
  BY <1>4 DEF RequestApply
<1>5. CASE ApplyMqttState
  BY <1>5 DEF ApplyMqttState
<1>6. CASE ShowRoute
  BY <1>6 DEF ShowRoute
<1>7. CASE Opened
  BY <1>7 DEF Opened
<1>8. CASE GotIp
  BY <1>8 DEF GotIp
<1>9. CASE LoseWifi
  BY <1>9 DEF LoseWifi
<1>10. CASE RenewLease
  BY <1>10 DEF RenewLease
<1>11. CASE Handshake
  BY <1>11 DEF Handshake
<1>12. CASE KeysAge
  BY <1>12 DEF KeysAge
<1>13. CASE PeerChanges
  BY <1>13 DEF PeerChanges
<1>14. CASE ProbeEnds
  BY <1>14 DEF ProbeEnds
<1>15. CASE SessionEnds
  BY <1>15 DEF SessionEnds
<1>16. CASE BackoffEnds
  BY <1>16 DEF BackoffEnds
<1> QED
  BY <1>1, <1>2, <1>3, <1>4, <1>5, <1>6, <1>7, <1>8, <1>9, <1>10, <1>11, <1>12,
     <1>13, <1>14, <1>15, <1>16

LEMMA NextTidy == OrderInv /\ TidyInv /\ [Next]_vars => TidyInv'
<1> SUFFICES ASSUME OrderInv, TidyInv, [Next]_vars PROVE TidyInv'
  OBVIOUS
<1>1. CASE UNCHANGED vars
  BY <1>1 DEF vars, TidyInv, Tidy, dnsvars, check
<1>2. ASSUME NEW f, Boot(f)
      PROVE  TidyInv'
  BY <1>2 DEF Boot, TidyInv, Tidy, NoTunnel, AtRest, NtpEnd
<1>3. CASE Next
  <2>1. "loop" \in Tasks /\ "web" \in Tasks
    OBVIOUS
  <2> HIDE DEF Tasks
  <2> QED
    BY <1>2, <1>3, <2>1, TaskTidy, LoopTidy, OtherTidy
       DEF Next, LoopStep, WebStep, WebBegins, EnsureStarted, Connecting, Surroundings,
           AddedTwice, PowerCut
<1> QED
  BY <1>1, <1>3

\* Without the tunnel neither the default route nor the name servers are the
\* tunnel's, and with it the former name servers are kept, however it ended and
\* whatever failed (saveCurrentDns(), restoreSavedDns(), wireGuardUseWifiRoute()).
THEOREM NothingIsLeftBehind == Spec => []NothingLeftBehind
<1>1. Init => TidyInv
  BY DEF Init, TidyInv, Tidy, NoTunnel, AtRest, NtpEnd
<1>2. OrderInv /\ TidyInv /\ [Next]_vars => TidyInv'
  BY NextTidy
<1>3. TidyInv => NothingLeftBehind
  BY DEF TidyInv, Tidy, NothingLeftBehind
<1> QED
  BY <1>1, <1>2, <1>3, OrderHolds, PTL DEF Spec

------------------------------------------------------------------------------
(* What the tunnel is made from *)

\* The tunnel, and what a task starts it with, is what the loop works by, except
\* between the reading of another configuration and the tear-down after it.
MadeFromLoaded ==
  ~crossed /\ pc["loop"] # "drop" =>
    /\ tunnel.iface => tunnel.config = loaded /\ loaded \in Enabled
    /\ \A t \in Tasks :
         /\ pc[t] = "begin" => copy[t] = loaded /\ loaded \in Enabled
         /\ pc[t] \in {"connect", "resolve", "add"} => tunnel.config = loaded /\ loaded \in Enabled

\* The loop works by the file, unless a save is not over, not asked for or not
\* yet read.
LoadedIsFile ==
  /\ file # Torn /\ ~request
  /\ pc["web"] \notin {"saving", "request"} /\ pc["loop"] # "load"
  => loaded = file

\* While it is being written the file is not complete.
SavingTears == pc["web"] = "saving" => file = Torn

ApplyInv == MadeFromLoaded /\ LoadedIsFile /\ SavingTears

LEMMA BootApplied ==
  ASSUME TypeInv, Boot(file), UNCHANGED file
  PROVE  ApplyInv'
<1>1. /\ pc'["loop"] = "wg" /\ pc'["web"] = "idle" /\ ~tunnel'.iface
      /\ file # Torn => loaded' = file
  BY DEF Boot, NoTunnel, AtRest, NtpEnd
<1>2. MadeFromLoaded'
  BY <1>1 DEF MadeFromLoaded
<1>3. LoadedIsFile' /\ SavingTears'
  BY <1>1 DEF LoadedIsFile, SavingTears
<1> QED
  BY <1>2, <1>3 DEF ApplyInv

LEMMA TaskApplied ==
  ASSUME OrderInv, ApplyInv, NEW t \in Tasks,
         \/ Start(t) \/ Begin(t) \/ Connecting(t) \/ ConnectFails(t)
         \/ NtpUpdate(t) \/ SelectRoute(t) \/ RestorePrimaryRoute(t)
  PROVE  ApplyInv'
<1> USE DEF OrderInv, TypeInv, TypeOK, Sound, TunnelType, MgrType, LoopReturns, NtpEnd,
            Goto, Move, Call, Orderly, Starting, InStart, Before, After, Other,
            ApplyInv, MadeFromLoaded, LoadedIsFile, SavingTears, config
<1>1. CASE Start(t)
  <2>1. UNCHANGED config /\ pc[t] = "start"
    BY <1>1 DEF Start
  <2>2. CASE Goto(t, back[t]) /\ TearDown(t) /\ UNCHANGED copy
    <3>1. ~crossed' => ~crossed /\ ~InStart(Other(t))
      BY <2>2 DEF TearDown, Crosses
    <3>2. tunnel' = tunnel \/ ~tunnel'.iface
      BY <2>2 DEF TearDown, Disconnect, NoTunnel
    <3> QED
      BY <2>1, <2>2, <3>1, <3>2
  <2>3. CASE Goto(t, back[t]) /\ UNCHANGED <<tunnel, copy, crossed>>
    BY <2>1, <2>3
  <2>4. CASE /\ loaded \in Enabled /\ copy' = [copy EXCEPT ![t] = loaded]
             /\ Move(t, "begin") /\ Crosses(t) /\ UNCHANGED tunnel
    BY <2>1, <2>4 DEF Crosses
  <2> QED
    BY <1>1, <2>2, <2>3, <2>4 DEF Start
<1>2. CASE Begin(t)
  BY <1>2 DEF Begin, NoTunnel
<1>3. CASE SaveCurrentDns(t) \/ ResolveEndpoint(t) \/ SetVpnDns(t) \/ ResetBackoff(t)
  BY <1>3 DEF SaveCurrentDns, ResolveEndpoint, SetVpnDns, ResetBackoff,
              tunnelvars, dnsvars, check
<1>4. CASE AddInterface(t)
  BY <1>4 DEF AddInterface, dnsvars
<1>5. CASE ConnectFails(t)
  BY <1>5 DEF ConnectFails
<1>6. CASE NtpUpdate(t)
  BY <1>6 DEF NtpUpdate, NtpTest, tunnelvars
<1>7. CASE SelectRoute(t)
  BY <1>7 DEF SelectRoute
<1>8. CASE RestorePrimaryRoute(t)
  BY <1>8 DEF RestorePrimaryRoute
<1> QED
  BY <1>1, <1>2, <1>3, <1>4, <1>5, <1>6, <1>7, <1>8 DEF Connecting

\* The tunnel is stopped, or stays what it is.
LEMMA FailureTunnel ==
  ASSUME HandleFailure
  PROVE  /\ crossed => crossed'
         /\ tunnel' # tunnel => ~tunnel'.iface
         /\ tunnel' # tunnel /\ InStart("web") => crossed'
<1>1. CASE UNCHANGED tunnelvars
  BY <1>1 DEF tunnelvars
<1>2. CASE Disconnect /\ Crosses("loop")
  BY <1>2 DEF Disconnect, NoTunnel, Crosses, Other
<1> QED
  BY <1>1, <1>2 DEF HandleFailure, tunnelvars

LEMMA LoopApplied ==
  ASSUME OrderInv, ApplyInv,
         \/ TakeRequest \/ LoadConfig \/ Reconnect \/ Poll \/ NetworkIsUp
         \/ PollProbe \/ NoProbe \/ OpenProbe \/ SendProbe \/ SendFails
         \/ ProbeRefused \/ TunnelDown
         \/ Ensure \/ RouteIsReady \/ Connect \/ NoMqtt \/ NoNtp
  PROVE  ApplyInv'
<1> USE DEF OrderInv, TypeInv, TypeOK, Sound, TunnelType, MgrType, LoopReturns, NtpEnd,
            Goto, Move, Call, Orderly, Starting, Started, InStart, Before, After, Other,
            ApplyInv, MadeFromLoaded, LoadedIsFile, SavingTears, config, tunnelvars
<1>1. CASE TakeRequest
  BY <1>1 DEF TakeRequest
<1>2. CASE LoadConfig
  BY <1>2 DEF LoadConfig
<1>3. CASE Reconnect
  <2>1. ~crossed' => ~crossed /\ ~InStart("web")
    BY <1>3 DEF Reconnect, TearDown, Crosses
  <2>2. ~crossed => ~tunnel'.iface
    BY <1>3 DEF Reconnect, TearDown, Disconnect, NoTunnel
  <2> QED
    BY <1>3, <2>1, <2>2 DEF Reconnect
<1>4. CASE Poll
  BY <1>4 DEF Poll
<1>5. CASE NetworkIsUp
  BY <1>5 DEF NetworkIsUp
<1>6. CASE PollProbe
  <2>1. /\ crossed => crossed'
        /\ tunnel' # tunnel => ~tunnel'.iface
        /\ tunnel' # tunnel /\ InStart("web") => crossed'
    BY <1>6, FailureTunnel DEF PollProbe, ProbeIsLost
  <2> QED
    BY <1>6, <2>1 DEF PollProbe
<1>7. CASE NoProbe
  BY <1>7 DEF NoProbe
<1>8. CASE OpenProbe
  BY <1>8 DEF OpenProbe
<1>9. CASE SendProbe
  BY <1>9 DEF SendProbe
<1>10. CASE SendFails
  BY <1>10 DEF SendFails
<1>11. CASE ProbeRefused
  <2>1. /\ crossed => crossed'
        /\ tunnel' # tunnel => ~tunnel'.iface
        /\ tunnel' # tunnel /\ InStart("web") => crossed'
    BY <1>11, FailureTunnel DEF ProbeRefused
  <2> QED
    BY <1>11, <2>1 DEF ProbeRefused
<1>12. CASE TunnelDown
  <2>1. /\ crossed => crossed'
        /\ tunnel' # tunnel => ~tunnel'.iface
        /\ tunnel' # tunnel /\ InStart("web") => crossed'
    <3>1. CASE UNCHANGED tunnelvars
      BY <3>1
    <3>2. CASE Disconnect /\ Crosses("loop")
      BY <3>2 DEF Disconnect, NoTunnel, Crosses
    <3> QED
      BY <1>12, <3>1, <3>2 DEF TunnelDown
  <2> QED
    BY <1>12, <2>1 DEF TunnelDown
<1>13. CASE Ensure
  BY <1>13 DEF Ensure
<1>14. CASE RouteIsReady
  BY <1>14 DEF RouteIsReady, AfterMqtt
<1>15. CASE Connect
  BY <1>15 DEF Connect
<1>16. CASE NoMqtt
  BY <1>16 DEF NoMqtt
<1>17. CASE NoNtp
  BY <1>17 DEF NoNtp
<1> QED
  BY <1>1, <1>2, <1>3, <1>4, <1>5, <1>6, <1>7, <1>8, <1>9, <1>10, <1>11, <1>12,
     <1>13, <1>14, <1>15, <1>16, <1>17

LEMMA OtherApplied ==
  ASSUME OrderInv, ApplyInv,
         \/ SaveBegins \/ SaveEnds \/ SaveFails \/ RequestApply \/ ApplyMqttState
         \/ ShowRoute \/ Opened \/ GotIp \/ LoseWifi \/ RenewLease \/ Handshake
         \/ KeysAge \/ PeerChanges \/ ProbeEnds \/ SessionEnds \/ BackoffEnds
  PROVE  ApplyInv'
<1> USE DEF OrderInv, TypeInv, TypeOK, TunnelType, MgrType, NtpEnd, Goto,
            ApplyInv, MadeFromLoaded, LoadedIsFile, SavingTears, config, tunnelvars, mine
<1>1. CASE SaveBegins
  BY <1>1 DEF SaveBegins
<1>2. CASE SaveEnds
  BY <1>2 DEF SaveEnds
<1>3. CASE SaveFails
  BY <1>3 DEF SaveFails
<1>4. CASE RequestApply
  BY <1>4 DEF RequestApply
<1>5. CASE ApplyMqttState
  BY <1>5 DEF ApplyMqttState
<1>6. CASE ShowRoute
  BY <1>6 DEF ShowRoute
<1>7. CASE Opened
  BY <1>7 DEF Opened
<1>8. CASE GotIp
  BY <1>8 DEF GotIp
<1>9. CASE LoseWifi
  BY <1>9 DEF LoseWifi
<1>10. CASE RenewLease
  BY <1>10 DEF RenewLease
<1>11. CASE Handshake
  BY <1>11 DEF Handshake
<1>12. CASE KeysAge
  BY <1>12 DEF KeysAge
<1>13. CASE PeerChanges
  BY <1>13 DEF PeerChanges
<1>14. CASE ProbeEnds
  BY <1>14 DEF ProbeEnds
<1>15. CASE SessionEnds
  BY <1>15 DEF SessionEnds
<1>16. CASE BackoffEnds
  BY <1>16 DEF BackoffEnds
<1> QED
  BY <1>1, <1>2, <1>3, <1>4, <1>5, <1>6, <1>7, <1>8, <1>9, <1>10, <1>11, <1>12,
     <1>13, <1>14, <1>15, <1>16

LEMMA NextApplied == OrderInv /\ ApplyInv /\ [Next]_vars => ApplyInv'
<1> SUFFICES ASSUME OrderInv, ApplyInv, [Next]_vars PROVE ApplyInv'
  OBVIOUS
<1>1. CASE UNCHANGED vars
  BY <1>1 DEF vars, ApplyInv, MadeFromLoaded, LoadedIsFile, SavingTears, config
<1>2. CASE Boot(file) /\ UNCHANGED file
  BY <1>2, BootApplied DEF OrderInv
<1>3. CASE Next
  <2>1. "loop" \in Tasks /\ "web" \in Tasks
    OBVIOUS
  <2> HIDE DEF Tasks
  <2> QED
    BY <1>2, <1>3, <2>1, TaskApplied, LoopApplied, OtherApplied
       DEF Next, LoopStep, WebStep, WebBegins, EnsureStarted, Connecting, Surroundings,
           AddedTwice, PowerCut
<1> QED
  BY <1>1, <1>3

\* However saves fall into the loop's pass: once no request waits and none is being
\* served, the board works by the file, and the tunnel was made from it
\* (wireGuardApplyConfig(), wireGuardRequestApplyConfig()).
THEOREM SavedConfigIsApplied == Spec => []SavedIsApplied
<1>1. Init => ApplyInv
  BY DEF Init, ApplyInv, MadeFromLoaded, LoadedIsFile, SavingTears, NoTunnel, AtRest, NtpEnd
<1>2. OrderInv /\ ApplyInv /\ [Next]_vars => ApplyInv'
  BY NextApplied
<1>3. ApplyInv => SavedIsApplied
  BY DEF ApplyInv, MadeFromLoaded, LoadedIsFile, SavingTears, SavedIsApplied
<1> QED
  BY <1>1, <1>2, <1>3, OrderHolds, PTL DEF Spec

------------------------------------------------------------------------------
(* The route MQTT is connected by *)

\* When nothing has swayed it, the route is the one that was decided: until the
\* connection is opened, and while the broker's name is looked up, when NTP
\* leaves the route alone.
ByDecision ==
  /\ pc["loop"] = "open" /\ ~swayed => session # "opening" /\ route = last
  /\ session = "opening" /\ ~swayed => route = decided /\ ~InNtp("web") /\ ~InNtp("loop")

\* A step after which the route is swayed, or that restarts the board.
LEMMA SwayedKeeps == ASSUME swayed' PROVE ByDecision'
  BY DEF ByDecision

LEMMA TaskByDecision ==
  ASSUME TypeInv, ByDecision, NEW t \in Tasks,
         \/ Start(t) \/ Begin(t) \/ Connecting(t) \/ ConnectFails(t)
         \/ NtpUpdate(t) \/ SelectRoute(t) \/ RestorePrimaryRoute(t)
  PROVE  ByDecision'
<1> USE DEF TypeInv, TypeOK, Sound, LoopReturns, NtpEnd, Goto, Move, Call,
            ByDecision, InNtp, InStart, Before, After, Other, mqtt
<1>1. CASE Start(t)
  <2>1. CASE TearDown(t)
    BY <2>1, SwayedKeeps DEF TearDown, Sways
  <2>2. CASE UNCHANGED <<route, swayed>>
    BY <1>1, <2>2 DEF Start
  <2> QED
    BY <1>1, <2>1, <2>2 DEF Start
<1>2. CASE Begin(t)
  BY <1>2, SwayedKeeps DEF Begin, Sways
<1>3. CASE SaveCurrentDns(t) \/ ResolveEndpoint(t) \/ SetVpnDns(t) \/ ResetBackoff(t)
  BY <1>3 DEF SaveCurrentDns, ResolveEndpoint, SetVpnDns, ResetBackoff,
              tunnelvars, dnsvars, check
<1>4. CASE AddInterface(t)
  BY <1>4, SwayedKeeps DEF AddInterface, Sways, dnsvars
<1>5. CASE ConnectFails(t)
  BY <1>5, SwayedKeeps DEF ConnectFails, Sways
<1>6. CASE NtpUpdate(t)
  BY <1>6 DEF NtpUpdate, NtpTest, tunnelvars
<1>7. CASE SelectRoute(t)
  BY <1>7 DEF SelectRoute
<1>8. CASE RestorePrimaryRoute(t)
  BY <1>8 DEF RestorePrimaryRoute
<1> QED
  BY <1>1, <1>2, <1>3, <1>4, <1>5, <1>6, <1>7, <1>8 DEF Connecting

LEMMA LoopByDecision ==
  ASSUME TypeInv, ByDecision,
         \/ TakeRequest \/ LoadConfig \/ Reconnect \/ Poll \/ NetworkIsUp
         \/ PollProbe \/ NoProbe \/ OpenProbe \/ SendProbe \/ SendFails
         \/ ProbeRefused \/ TunnelDown
         \/ Ensure \/ RouteIsReady \/ Connect \/ NoMqtt \/ NoNtp
  PROVE  ByDecision'
<1> USE DEF TypeInv, TypeOK, Sound, LoopReturns, NtpEnd, Goto, Move, Call,
            ByDecision, InNtp, InStart, Before, After, Other, mqtt, tunnelvars
<1>1. CASE TakeRequest
  BY <1>1 DEF TakeRequest
<1>2. CASE LoadConfig
  BY <1>2 DEF LoadConfig
<1>3. CASE Reconnect
  BY <1>3, SwayedKeeps DEF Reconnect, TearDown, Sways
<1>4. CASE Poll
  BY <1>4 DEF Poll, Sways
<1>5. CASE NetworkIsUp
  BY <1>5, SwayedKeeps DEF NetworkIsUp, Sways
<1>6. CASE PollProbe
  <2>1. swayed' \/ UNCHANGED <<route, swayed>>
    BY <1>6 DEF PollProbe, ProbeIsLost, HandleFailure, Sways
  <2> QED
    BY <1>6, <2>1 DEF PollProbe
<1>7. CASE NoProbe
  BY <1>7 DEF NoProbe
<1>8. CASE OpenProbe
  BY <1>8, SwayedKeeps DEF OpenProbe, Sways
<1>9. CASE SendProbe
  BY <1>9, SwayedKeeps DEF SendProbe, Sways
<1>10. CASE SendFails
  BY <1>10, SwayedKeeps DEF SendFails, Sways
<1>11. CASE ProbeRefused
  <2>1. swayed' \/ UNCHANGED <<route, swayed>>
    BY <1>11 DEF ProbeRefused, HandleFailure, Sways
  <2> QED
    BY <1>11, <2>1 DEF ProbeRefused
<1>12. CASE TunnelDown
  <2>1. swayed' \/ UNCHANGED <<route, swayed>>
    BY <1>12 DEF TunnelDown, Sways
  <2> QED
    BY <1>12, <2>1 DEF TunnelDown
<1>13. CASE Ensure
  BY <1>13 DEF Ensure
<1>14. CASE RouteIsReady
  BY <1>14 DEF RouteIsReady, AfterMqtt
<1>15. CASE Connect
  BY <1>15 DEF Connect
<1>16. CASE NoMqtt
  BY <1>16 DEF NoMqtt
<1>17. CASE NoNtp
  BY <1>17 DEF NoNtp
<1> QED
  BY <1>1, <1>2, <1>3, <1>4, <1>5, <1>6, <1>7, <1>8, <1>9, <1>10, <1>11, <1>12,
     <1>13, <1>14, <1>15, <1>16, <1>17

LEMMA OtherByDecision ==
  ASSUME TypeInv, ByDecision,
         \/ SaveBegins \/ SaveEnds \/ SaveFails \/ RequestApply \/ ApplyMqttState
         \/ ShowRoute \/ Opened \/ GotIp \/ LoseWifi \/ RenewLease \/ Handshake
         \/ KeysAge \/ PeerChanges \/ ProbeEnds \/ SessionEnds \/ BackoffEnds
  PROVE  ByDecision'
<1> USE DEF TypeInv, TypeOK, NtpEnd, Goto, ByDecision, InNtp, InStart, Before, After,
            mqtt, tunnelvars, mine, Sways
<1>1. CASE SaveBegins
  BY <1>1 DEF SaveBegins
<1>2. CASE SaveEnds
  BY <1>2 DEF SaveEnds
<1>3. CASE SaveFails
  BY <1>3 DEF SaveFails
<1>4. CASE RequestApply
  BY <1>4 DEF RequestApply
<1>5. CASE ApplyMqttState
  BY <1>5 DEF ApplyMqttState
<1>6. CASE ShowRoute
  BY <1>6 DEF ShowRoute
<1>7. CASE Opened
  BY <1>7 DEF Opened
<1>8. CASE GotIp
  BY <1>8 DEF GotIp
<1>9. CASE LoseWifi
  BY <1>9 DEF LoseWifi
<1>10. CASE RenewLease
  BY <1>10 DEF RenewLease
<1>11. CASE Handshake
  BY <1>11 DEF Handshake
<1>12. CASE KeysAge
  BY <1>12 DEF KeysAge
<1>13. CASE PeerChanges
  BY <1>13 DEF PeerChanges
<1>14. CASE ProbeEnds
  BY <1>14 DEF ProbeEnds
<1>15. CASE SessionEnds
  BY <1>15 DEF SessionEnds
<1>16. CASE BackoffEnds
  BY <1>16 DEF BackoffEnds
<1> QED
  BY <1>1, <1>2, <1>3, <1>4, <1>5, <1>6, <1>7, <1>8, <1>9, <1>10, <1>11, <1>12,
     <1>13, <1>14, <1>15, <1>16

LEMMA NextByDecision == TypeInv /\ ByDecision /\ [Next]_vars => ByDecision'
<1> SUFFICES ASSUME TypeInv, ByDecision, [Next]_vars PROVE ByDecision'
  OBVIOUS
<1>1. CASE UNCHANGED vars
  BY <1>1 DEF vars, ByDecision, InNtp, InStart, Before, After, mqtt
<1>2. ASSUME NEW f, Boot(f) PROVE ByDecision'
  BY <1>2, SwayedKeeps DEF Boot
<1>3. CASE Next
  <2>1. "loop" \in Tasks /\ "web" \in Tasks
    OBVIOUS
  <2> HIDE DEF Tasks
  <2> QED
    BY <1>2, <1>3, <2>1, TaskByDecision, LoopByDecision, OtherByDecision
       DEF Next, LoopStep, WebStep, WebBegins, EnsureStarted, Connecting, Surroundings,
           AddedTwice, PowerCut
<1> QED
  BY <1>1, <1>3

\* Only two steps open a connection.
LEMMA WhoOpens ==
  ASSUME Next, session' \in Routes, session' # session
  PROVE  Connect \/ Opened
<1>1. CASE TakeRequest \/ LoadConfig \/ Reconnect \/ Poll \/ NetworkIsUp
  BY <1>1 DEF TakeRequest, LoadConfig, Reconnect, Poll, NetworkIsUp, mqtt
<1>2. CASE PollProbe \/ NoProbe \/ OpenProbe \/ SendProbe \/ SendFails
           \/ ProbeRefused \/ TunnelDown
  BY <1>2 DEF PollProbe, NoProbe, OpenProbe, SendProbe, SendFails, ProbeRefused,
              TunnelDown, mqtt
<1>3. CASE Ensure \/ RouteIsReady \/ NoMqtt \/ NoNtp
  BY <1>3 DEF Ensure, RouteIsReady, NoMqtt, NoNtp, mqtt
<1>4. ASSUME NEW t \in Tasks,
             \/ Start(t) \/ Begin(t) \/ Connecting(t) \/ ConnectFails(t)
             \/ AddedTwice(t)
      PROVE  FALSE
  BY <1>4 DEF Start, Begin, Connecting, SaveCurrentDns, ResolveEndpoint, AddInterface,
              SetVpnDns, ResetBackoff, ConnectFails, AddedTwice, Boot, mqtt
<1>5. ASSUME NEW t \in Tasks, NtpUpdate(t) \/ SelectRoute(t) \/ RestorePrimaryRoute(t)
      PROVE  FALSE
  BY <1>5 DEF NtpUpdate, SelectRoute, RestorePrimaryRoute, mqtt
<1>6. CASE SaveBegins \/ SaveEnds \/ SaveFails \/ RequestApply \/ ApplyMqttState
           \/ ShowRoute
  BY <1>6 DEF SaveBegins, SaveEnds, SaveFails, RequestApply, ApplyMqttState, ShowRoute,
              mqtt
<1>7. CASE Surroundings
  BY <1>7 DEF Surroundings, GotIp, LoseWifi, RenewLease, Handshake, KeysAge, PeerChanges,
              ProbeEnds, SessionEnds, BackoffEnds, PowerCut, Boot, mqtt
<1> QED
  <2>1. "loop" \in Tasks /\ "web" \in Tasks
    OBVIOUS
  <2> HIDE DEF Tasks, Routes
  <2> QED
    BY <2>1, <1>1, <1>2, <1>3, <1>4, <1>5, <1>6, <1>7
       DEF Next, LoopStep, WebStep, WebBegins, EnsureStarted, Connecting

\* The connection is opened on the route decided for it, unless something other than
\* NTP has set the route in between, or NTP had begun before (AsyncNtpClient::update(),
\* mqttRouteIsReady(), connectToMqtt()).
THEOREM MqttOpensByItsRoute == Spec => MqttByItsRoute
<1>1. Init => ByDecision
  BY DEF Init, ByDecision
<1>2. TypeInv /\ ByDecision /\ [Next]_vars => ByDecision'
  BY NextByDecision
<1>3. ByDecision /\ Next =>
        (session' \in Routes /\ session' # session => session' = decided' \/ swayed)
  <2> SUFFICES ASSUME ByDecision, Next, session' \in Routes, session' # session, ~swayed
               PROVE  session' = decided'
    OBVIOUS
  <2>1. CASE Connect
    BY <2>1 DEF Connect, ByDecision
  <2>2. CASE Opened
    BY <2>2 DEF Opened, ByDecision
  <2> QED
    BY <2>1, <2>2, WhoOpens
<1>4. ByDecision /\ [Next]_vars =>
        [session' \in Routes /\ session' # session => session' = decided' \/ swayed]_vars
  BY <1>3
<1>5. Spec => []TypeInv
  BY InitTypes, NextTypes, PTL DEF Spec
<1> QED
  BY <1>1, <1>2, <1>4, <1>5, PTL DEF Spec, MqttByItsRoute
=============================================================================
