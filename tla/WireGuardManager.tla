--------------------------- MODULE WireGuardManager ---------------------------
(***************************************************************************)
(* The WireGuard tunnel and the one default route that MQTT, NTP and the   *)
(* tunnel's own check set in turn: WireGuardManager.cpp, the client        *)
(* library under it, and what MQTT and NTP do to the route.                *)
(*                                                                         *)
(* Tasks:                                                                  *)
(*   - the loop task: wireGuardLoop(), then wireGuardEnsureStarted() when  *)
(*     MQTT or NTP may use the tunnel, then MQTT, then NTP;                *)
(*   - the AsyncTCP task ("web"): it saves the VPN configuration and asks  *)
(*     the loop to apply it, looks the broker up, runs NTP when a page     *)
(*     shows the time, and opens the MQTT connection once the broker's     *)
(*     name is resolved;                                                   *)
(*   - the TCP/IP task: handshakes, leases.                                *)
(* What sets a route or a name server is a step of its own; a lookup of    *)
(* the broker's name is one step with what is done with its result, and    *)
(* the route that wg.end() gives back is set with what follows it.         *)
(* Of the configuration only two things matter, whether the tunnel is      *)
(* enabled and whether it is checked: it is valid, names its endpoint by a *)
(* host name and has a name server.  Who uses MQTT and the tunnel (conf)   *)
(* does not change, and there is no upload.  A value that is not used any  *)
(* more is set back to what it was at first.                               *)
(***************************************************************************)
EXTENDS Integers

CONSTANTS
  Configs,   \* what /WireGuardConfig.json can say
  Enabled,   \* those that enable the tunnel
  Checked,   \* those of them with the DNS liveness check
  Default,   \* the configuration without a file
  Torn,      \* a file that is being written, or was not written completely
  Threshold, \* WIREGUARD_DNS_FAIL_THRESHOLD
  Scenarios  \* who uses MQTT and the tunnel, what the file says at first, and
             \* two bounds: saves, of configurations saved; events, of pages,
             \* losses of the WiFi, failures and power cuts together

\* No MQTT; a broker on the WiFi, without the tunnel; the tunnel is to be used
\* and the broker is on the WiFi's subnet all the same, or it is not.
Brokers == {"off", "wifi", "near", "far"}

ASSUME WireGuardAssumption ==
  /\ Checked \subseteq Enabled /\ Enabled \subseteq Configs
  /\ Default \in Configs \ Enabled /\ Torn \notin Configs
  /\ \A s \in Scenarios : s \in [mqtt : Brokers, ntp : BOOLEAN, file : Configs,
                                 saves : {s.saves} \cap Nat, events : {s.events} \cap Nat]
  /\ Threshold \in Nat \ {0}

Tasks == {"loop", "web"}
Other(t) == IF t = "loop" THEN "web" ELSE "loop"

VARIABLES
  conf,     \* [mqtt, ntp]: where the broker is, whether NTP shall use the tunnel
  file,     \* /WireGuardConfig.json
  loaded,   \* wireGuardConfig
  request,  \* wireGuardApplyRequested
  mgr,      \* [started, up]: wireGuardStarted, wireGuardNetworkUp
  backoff,  \* wireGuardNextReconnectAt: 0, in the future, reached
  tunnel,   \* [iface, up, config, keys]: the client and its interface
  route,    \* netif_default
  previous, \* previous_default_netif
  dns,      \* the name servers: this network's, a former one's, the tunnel's
  saved,    \* savedDns0, savedDns1, when dnsSaved
  probe,    \* the check's socket and what has come of its query
  was,      \* the default route before the probe
  failures, \* wireGuardDnsConsecutiveFailures
  session,  \* the MQTT connection: by which interface
  last,     \* mqttLastRouteDecisionUsesVPN
  decided,  \* mqttActiveRouteUsesVPN
  known,    \* mqttBrokerIpCacheValid
  wifi,     \* WiFi is connected
  alive,    \* the peer answers
  saves,    \* what is left of the saves
  left,     \* what is left of the events
  pc, back, \* per task: where it is, where it returns to
  copy,     \* per task: the configuration it starts the tunnel with
  crossed,  \* history: two tasks were starting or stopping the tunnel
  swayed,   \* history: others set the route since MQTT did
  lost      \* history: probes of this tunnel lost since one was answered

config  == <<conf, file, loaded, request, saves>>
dnsvars == <<dns, saved>>
check   == <<probe, was, failures, lost>>
mqtt    == <<session, last, decided>>
tunnelvars == <<mgr, backoff, tunnel, route, previous, dnsvars, crossed, swayed>>
world   == <<wifi, alive>>
vars    == <<config, mgr, backoff, tunnel, route, previous, dnsvars, check,
             mqtt, known, world, left, pc, back, copy, crossed, swayed>>

------------------------------------------------------------------------------
(* Values and tests *)

Routes == {"wifi", "vpn"}
NoTunnel == [iface |-> FALSE, up |-> FALSE, config |-> Default, keys |-> "none"]
Down     == [started |-> FALSE, up |-> FALSE]

NetworkUp == mgr.up /\ tunnel.up /\ tunnel.iface
\* sessionAgeMs() <= SESSION_STALE_MS
Fresh     == tunnel.iface /\ tunnel.keys = "fresh"

\* mqttWantsVpnRoute(): a broker on the WiFi's subnet ("near") is not for the
\* tunnel, but one whose name is not resolved is.  To ask, the default route is
\* set to the WiFi.
Asks     == conf.mqtt \in {"near", "far"} /\ ~known /\ wifi
LookedUp == IF Asks THEN "wifi" ELSE route
Wants(wants) ==
  \/ ~Asks /\ known' = known /\ wants = (conf.mqtt = "far" \/ (conf.mqtt = "near" /\ ~wifi))
  \/ Asks /\ known' = TRUE /\ wants = (conf.mqtt = "far")
  \/ Asks /\ known' = FALSE /\ wants = TRUE

\* Within the start: before the interface is added, and with it.
Before(t)  == pc[t] \in {"begin", "connect", "resolve", "add"}
After(t)   == pc[t] \in {"names", "begun"}
InStart(t) == Before(t) \/ After(t)
\* A task has the NTP mutex, which update() does without when it is taken.
NtpEnd(t)  == IF t = "loop" THEN "wg" ELSE "idle"
AtRest     == [t \in Tasks |-> NtpEnd(t)]
InNtp(t)   == pc[t] \in {"select", "borrowed"}
              \/ ((InStart(t) \/ pc[t] = "start") /\ back[t] = NtpEnd(t))

Spend   == left > 0 /\ left' = left - 1
\* Within EnsureStarted: go on, with the same return.
Move(t, p) == pc' = [pc EXCEPT ![t] = p] /\ UNCHANGED back
Goto(t, p) == pc' = [pc EXCEPT ![t] = p] /\ back' = [back EXCEPT ![t] = NtpEnd(t)]
\* Call EnsureStarted, or open the connection, and return to q.
Call(t, p, q) == pc' = [pc EXCEPT ![t] = p] /\ back' = [back EXCEPT ![t] = q]

\* Task t starts or stops the tunnel while the other is at it.
Crosses(t) == crossed' = (crossed \/ InStart(Other(t)))
Sways == swayed' = TRUE

\* What a restart sets; a file that cannot be read leaves the default.
Boot(f) ==
  /\ loaded' = (IF f = Torn THEN Default ELSE f) /\ request' = FALSE
  /\ mgr' = Down /\ backoff' = "none" /\ tunnel' = NoTunnel
  /\ route' = "wifi" /\ previous' = "none" /\ dns' = "own" /\ saved' = "none"
  /\ probe' = "none" /\ was' = "wifi" /\ failures' = 0 /\ lost' = 0
  /\ session' = "none" /\ last' = "wifi" /\ decided' = "wifi"
  /\ known' = FALSE /\ wifi' = FALSE
  /\ pc' = AtRest /\ back' = AtRest
  /\ copy' = [t \in Tasks |-> Default] /\ crossed' = FALSE /\ swayed' = TRUE

Init ==
  /\ \E s \in Scenarios :
       /\ conf = [mqtt |-> s.mqtt, ntp |-> s.ntp] /\ file = s.file
       /\ saves = s.saves /\ left = s.events
  /\ loaded = file /\ request = FALSE
  /\ mgr = Down /\ backoff = "none" /\ tunnel = NoTunnel
  /\ route = "wifi" /\ previous = "none" /\ dns = "own" /\ saved = "none"
  /\ probe = "none" /\ was = "wifi" /\ failures = 0 /\ lost = 0
  /\ session = "none" /\ last = "wifi" /\ decided = "wifi" /\ known = FALSE
  /\ wifi = FALSE /\ alive = TRUE
  /\ pc = AtRest /\ back = AtRest
  /\ copy = [t \in Tasks |-> Default] /\ crossed = FALSE /\ swayed = TRUE

------------------------------------------------------------------------------
(* Stopping the tunnel *)

RestoreSavedDns ==
  /\ dns' = IF saved = "none" THEN dns ELSE saved
  /\ saved' = "none"

\* WireGuardClient::disconnect(); the route wg.end() leaves is Ended.
Ended == IF tunnel.iface THEN previous ELSE route
\* A slip: the name servers stay the tunnel's.
DisconnectOnly ==
  /\ tunnel' = NoTunnel /\ lost' = 0
  /\ previous' = IF tunnel.iface THEN "none" ELSE previous
  /\ UNCHANGED dnsvars
Disconnect ==
  /\ tunnel' = NoTunnel /\ lost' = 0
  /\ previous' = IF tunnel.iface THEN "none" ELSE previous
  /\ RestoreSavedDns

\* wireGuardDisconnect().  isConnected() needs fresh keys.
TearDown(t) ==
  /\ \/ (mgr.started \/ Fresh) /\ Disconnect
     \/ ~(mgr.started \/ Fresh) /\ lost' = 0 /\ UNCHANGED <<tunnel, previous, dnsvars>>
  /\ probe' = "none" /\ failures' = 0
  /\ mgr' = Down /\ backoff' = "none" /\ route' = "wifi"
  /\ Crosses(t) /\ Sways
  /\ UNCHANGED was

\* A slip: the manager takes itself for started.
ScheduleOnly == mgr' = [mgr EXCEPT !.up = FALSE] /\ route' = "wifi" /\ backoff' = "waiting"
ScheduleReconnect == mgr' = Down /\ route' = "wifi" /\ backoff' = "waiting"

------------------------------------------------------------------------------
(* wireGuardEnsureStarted(), by either task *)

\* The tests, and the copy of the configuration.
Start(t) ==
  /\ pc[t] = "start"
  /\ \/ /\ loaded \notin Enabled /\ Goto(t, back[t]) /\ TearDown(t)
        /\ UNCHANGED copy
     \/ /\ loaded \in Enabled
        /\ NetworkUp \/ mgr.started \/ backoff = "waiting" \/ ~wifi
        /\ Goto(t, back[t])
        /\ UNCHANGED <<mgr, backoff, tunnel, route, previous, dnsvars, check, copy, crossed, swayed>>
     \/ /\ loaded \in Enabled
        /\ ~NetworkUp /\ ~mgr.started /\ backoff # "waiting" /\ wifi
        /\ copy' = [copy EXCEPT ![t] = loaded] /\ Move(t, "begin")
        /\ Crosses(t)
        /\ UNCHANGED <<mgr, backoff, tunnel, route, previous, dnsvars, check, swayed>>
  /\ UNCHANGED <<config, mqtt, known, world, left>>

\* client.begin(), which disconnects; the broker is looked up to tell the
\* client whether it is the default route (it becomes that in any case).
Begin(t) ==
  /\ pc[t] = "begin"
  /\ tunnel' = [NoTunnel EXCEPT !.config = copy[t]] /\ lost' = 0
  /\ previous' = IF tunnel.iface THEN "none" ELSE previous
  /\ RestoreSavedDns
  /\ \E wants \in BOOLEAN : Wants(wants)
  /\ route' = IF Asks THEN "wifi" ELSE Ended
  /\ mgr' = [mgr EXCEPT !.started = TRUE]
  /\ copy' = [copy EXCEPT ![t] = Default] /\ Move(t, "connect") /\ Sways
  /\ UNCHANGED <<config, backoff, probe, was, failures, mqtt, world, left, crossed>>

\* connectTunnel() saves the name servers ...
SaveCurrentDns(t) ==
  /\ pc[t] = "connect"
  /\ saved' = IF saved = "none" THEN dns ELSE saved
  /\ Move(t, "resolve")
  /\ UNCHANGED <<config, mgr, backoff, tunnel, route, previous, dns, check, mqtt,
                 known, world, left, copy, crossed, swayed>>

\* ... resolves the endpoint with them, or with those of the tunnel the other
\* task has started ...
ResolveEndpoint(t) ==
  /\ pc[t] = "resolve" /\ wifi /\ (dns = "own" \/ (dns = "vpn" /\ tunnel.iface))
  /\ Move(t, "add")
  /\ UNCHANGED <<config, tunnelvars, check, mqtt, known, world, left, copy>>

\* ... adds the interface, which becomes the default route in the same hold of
\* lwIP's lock ...
AddInterface(t) ==
  /\ pc[t] = "add" /\ ~tunnel.iface
  /\ tunnel' = [tunnel EXCEPT !.iface = TRUE, !.up = FALSE, !.keys = "none"]
  /\ previous' = route /\ route' = "vpn" /\ Move(t, "names") /\ Sways
  /\ UNCHANGED <<config, mgr, backoff, dnsvars, check, mqtt, known, world, left, copy, crossed>>

\* ... and sets the tunnel's name servers, whatever has become of the interface.
SetVpnDns(t) ==
  /\ pc[t] = "names" /\ dns' = "vpn" /\ Move(t, "begun")
  /\ UNCHANGED <<config, mgr, backoff, tunnel, route, previous, saved, check, mqtt, known,
                 world, left, copy, crossed, swayed>>

ResetBackoff(t) ==
  /\ pc[t] = "begun" /\ backoff' = "none" /\ Goto(t, back[t])
  /\ UNCHANGED <<config, mgr, tunnel, route, previous, dnsvars, check, mqtt, known, world,
                 left, copy, crossed, swayed>>

\* The lookup may fail at any time, the adding as well.
ConnectFails(t) ==
  /\ \/ pc[t] = "resolve" /\ IF wifi /\ dns = "own" THEN Spend ELSE UNCHANGED left
     \/ pc[t] = "add" /\ Spend
  /\ RestoreSavedDns
  /\ mgr' = Down /\ route' = "wifi" /\ backoff' = "waiting"
  /\ Goto(t, back[t]) /\ Sways
  /\ UNCHANGED <<config, tunnel, previous, check, mqtt, known, world, copy, crossed>>

\* The other task has added the interface: lwIP asserts that it is added once.
AddedTwice(t) ==
  /\ pc[t] = "add" /\ tunnel.iface
  /\ Boot(file)
  /\ UNCHANGED <<conf, file, alive, saves, left>>

------------------------------------------------------------------------------
(* wireGuardLoop() *)

TakeRequest ==
  /\ pc["loop"] = "wg" /\ request
  /\ request' = FALSE /\ Goto("loop", "load")
  /\ UNCHANGED <<conf, file, loaded, saves, mgr, backoff, tunnel, route, previous, dnsvars, check,
                 mqtt, known, world, left, copy, crossed, swayed>>

\* What cannot be read leaves the configuration as it is.
LoadConfig ==
  /\ pc["loop"] = "load"
  /\ loaded' = (IF file = Torn THEN loaded ELSE file)
  /\ Goto("loop", "drop")
  /\ UNCHANGED <<conf, file, request, saves, mgr, backoff, tunnel, route, previous, dnsvars, check,
                 mqtt, known, world, left, copy, crossed, swayed>>

\* A slip: the request is cleared when it has been served.
ReconnectServed ==
  /\ pc["loop"] = "drop" /\ request' = FALSE
  /\ TearDown("loop") /\ Call("loop", "start", "ensure")
  /\ UNCHANGED <<conf, file, loaded, saves, mqtt, known, world, left, copy>>
Reconnect ==
  /\ pc["loop"] = "drop"
  /\ TearDown("loop") /\ Call("loop", "start", "ensure")
  /\ UNCHANGED <<config, mqtt, known, world, left, copy>>

\* No request: start the tunnel, or poll the client.  The network is up with the
\* first handshake, and then MQTT is connected at once.
Poll ==
  /\ pc["loop"] = "wg" /\ ~request
  /\ \/ /\ loaded \notin Enabled /\ Goto("loop", "ensure")
        /\ UNCHANGED <<mgr, tunnel, route, swayed>>
     \/ /\ loaded \in Enabled /\ ~mgr.started /\ Call("loop", "start", "ensure")
        /\ UNCHANGED <<mgr, tunnel, route, swayed>>
     \/ /\ loaded \in Enabled /\ mgr.started
        /\ tunnel.iface /\ tunnel.keys # "none" /\ ~tunnel.up
        /\ tunnel' = [tunnel EXCEPT !.up = TRUE] /\ mgr' = [mgr EXCEPT !.up = TRUE]
        /\ \/ conf.mqtt # "off" /\ Goto("loop", "up") /\ UNCHANGED <<route, swayed>>
           \/ conf.mqtt = "off" /\ Goto("loop", "probe") /\ route' = "wifi" /\ Sways
     \/ /\ loaded \in Enabled /\ mgr.started
        /\ ~tunnel.iface \/ tunnel.keys = "none" \/ tunnel.up
        /\ tunnel' = [tunnel EXCEPT !.up = @ /\ tunnel.iface]
        /\ Goto("loop", "probe")
        /\ UNCHANGED <<mgr, route, swayed>>
  /\ UNCHANGED <<config, backoff, previous, dnsvars, check, mqtt, known, world, left,
                 copy, crossed>>

\* The rest of the callback: without need for the tunnel, back to the WiFi.
NetworkIsUp ==
  /\ pc["loop"] = "upped"
  /\ \E wants \in BOOLEAN : Wants(wants) /\ route' = IF wants THEN LookedUp ELSE "wifi"
  /\ Goto("loop", "probe") /\ Sways
  /\ UNCHANGED <<config, mgr, backoff, tunnel, previous, dnsvars, check, mqtt, world, left,
                 copy, crossed>>

------------------------------------------------------------------------------
(* The DNS liveness check *)

\* A slip: the count goes on.
HandleFailureOn ==
  /\ probe' = "none"
  /\ failures' = failures + 1
  /\ \/ /\ failures + 1 < Threshold /\ lost' = lost + 1
        /\ UNCHANGED <<mgr, backoff, tunnel, route, previous, dnsvars, crossed, swayed>>
     \/ /\ failures + 1 >= Threshold
        /\ Disconnect /\ ScheduleReconnect /\ Crosses("loop") /\ Sways
HandleFailure ==
  /\ probe' = "none"
  /\ \/ /\ failures + 1 < Threshold /\ failures' = failures + 1 /\ lost' = lost + 1
        /\ UNCHANGED <<mgr, backoff, tunnel, route, previous, dnsvars, crossed, swayed>>
     \/ /\ failures + 1 >= Threshold /\ failures' = 0
        /\ Disconnect /\ ScheduleReconnect /\ Crosses("loop") /\ Sways

\* A lost probe does not count while the session is being renewed.
ProbeIsLost ==
  \/ Fresh /\ HandleFailure
  \/ ~Fresh /\ probe' = "none"
     /\ UNCHANGED <<failures, lost, mgr, backoff, tunnel, route, previous, dnsvars, crossed, swayed>>

\* A slip: the failures before are not forgotten.
AnsweredOnly == probe' = "none" /\ lost' = 0 /\ UNCHANGED failures
Answered == probe' = "none" /\ failures' = 0 /\ lost' = 0

PollProbe ==
  /\ pc["loop"] = "probe" /\ loaded \in Checked /\ mgr.up /\ probe # "none"
  /\ \/ probe = "answered" /\ Answered /\ UNCHANGED tunnelvars
     \/ probe = "failed" /\ ProbeIsLost
     \/ probe = "sent" /\ UNCHANGED <<probe, failures, lost, tunnelvars>>
  /\ Goto("loop", "down")
  /\ UNCHANGED <<config, was, mqtt, known, world, left, copy>>

\* Not to be checked, or not yet due, or the session is being renewed.
NoProbe ==
  /\ pc["loop"] = "probe"
  /\ \/ (loaded \notin Checked \/ ~mgr.up) /\ probe' = "none"
     \/ loaded \in Checked /\ mgr.up /\ probe = "none" /\ UNCHANGED probe
  /\ Goto("loop", "down")
  /\ UNCHANGED <<config, was, failures, lost, tunnelvars, mqtt, known, world, left, copy>>

\* The route is the tunnel's while the socket is connected and sends ...
OpenProbe ==
  /\ pc["loop"] = "probe" /\ loaded \in Checked /\ mgr.up /\ probe = "none"
  /\ Fresh /\ NetworkUp
  /\ was' = route /\ route' = "vpn" /\ Goto("loop", "send") /\ Sways
  /\ UNCHANGED <<config, mgr, backoff, tunnel, previous, dnsvars, probe, failures, lost, mqtt,
                 known, world, left, copy, crossed>>

\* ... and then what it was before.  send() fails without keys, which does not
\* count, and may fail otherwise.
SendProbe ==
  /\ pc["loop"] = "send" /\ Fresh
  /\ route' = was /\ was' = "wifi" /\ probe' = "sent" /\ Goto("loop", "down") /\ Sways
  /\ UNCHANGED <<config, mgr, backoff, tunnel, previous, dnsvars, failures, lost, mqtt,
                 known, world, left, copy, crossed>>
SendFails ==
  /\ pc["loop"] = "send" /\ route' = was /\ was' = "wifi" /\ Sways
  /\ \/ ~Fresh /\ Goto("loop", "down") /\ UNCHANGED left
     \/ Fresh /\ Goto("loop", "refused") /\ Spend
  /\ UNCHANGED <<config, mgr, backoff, tunnel, previous, dnsvars, probe, failures, lost, mqtt,
                 known, world, copy, crossed>>
ProbeRefused ==
  /\ pc["loop"] = "refused" /\ HandleFailure /\ Goto("loop", "down")
  /\ UNCHANGED <<config, was, mqtt, known, world, left, copy>>

\* The end of wireGuardLoop(): the client is down, or it is time to try again.
TunnelDown ==
  /\ pc["loop"] = "down"
  /\ \/ /\ mgr.up /\ ~(tunnel.up /\ tunnel.iface)
        /\ Disconnect /\ ScheduleReconnect /\ Crosses("loop") /\ Sways
        /\ Goto("loop", "ensure")
     \/ /\ ~(mgr.up /\ ~(tunnel.up /\ tunnel.iface))
        /\ ~mgr.up /\ backoff = "over" /\ backoff' = "none"
        /\ Call("loop", "start", "ensure")
        /\ UNCHANGED <<lost, mgr, tunnel, route, previous, dnsvars, crossed, swayed>>
     \/ /\ mgr.up => tunnel.up /\ tunnel.iface
        /\ mgr.up \/ backoff # "over"
        /\ Goto("loop", "ensure") /\ UNCHANGED <<lost, tunnelvars>>
  /\ UNCHANGED <<config, probe, was, failures, mqtt, known, world, left, copy>>

\* loop(): start the tunnel for those that may use it.
Ensure ==
  /\ pc["loop"] = "ensure"
  /\ \/ (conf.mqtt \in {"near", "far"} \/ conf.ntp) /\ Call("loop", "start", "mqtt")
     \/ ~(conf.mqtt \in {"near", "far"} \/ conf.ntp) /\ Goto("loop", "mqtt")
  /\ UNCHANGED <<config, tunnelvars, check, mqtt, known, world, left, copy>>

------------------------------------------------------------------------------
(* MQTT: connectToMqtt() when its timer says so, mqttConnectNow() ("up") *)

AfterMqtt == IF pc["loop"] = "mqtt" THEN "ntp" ELSE "upped"

\* mqttRouteIsReady(): decide, and set the route.
RouteIsReady ==
  /\ pc["loop"] \in {"mqtt", "up"} /\ conf.mqtt # "off"
  /\ \E wants \in BOOLEAN :
       /\ Wants(wants)
       /\ last' = IF wants /\ NetworkUp /\ loaded \in Enabled THEN "vpn" ELSE "wifi"
       /\ \/ ~wants /\ route' = "wifi" /\ Call("loop", "open", AfterMqtt)
          \/ /\ wants /\ loaded \notin Enabled /\ route' = LookedUp
             /\ Goto("loop", AfterMqtt)
          \/ /\ wants /\ loaded \in Enabled /\ ~NetworkUp /\ route' = LookedUp
             /\ Call("loop", "start", AfterMqtt)
          \/ /\ wants /\ loaded \in Enabled /\ NetworkUp /\ route' = "vpn"
             /\ Call("loop", "open", AfterMqtt)
  /\ swayed' = (InNtp("web") \/ session = "opening" \/ pc'["loop"] # "open")
  /\ UNCHANGED <<config, mgr, backoff, tunnel, previous, dnsvars, check, session, decided,
                 world, left, copy, crossed>>

\* The connection is opened at once, or when the AsyncTCP task has the address.
Connect ==
  /\ pc["loop"] = "open"
  /\ \/ /\ session = "none" /\ session' \in {route, "opening"} /\ decided' = last
     \/ /\ session = "none" /\ UNCHANGED <<session, decided>>
     \/ /\ session # "none" /\ UNCHANGED session
        /\ decided' = IF session \in Routes /\ back["loop"] = "upped" THEN last ELSE decided
  /\ last' = "wifi" /\ swayed' = (swayed \/ InNtp("web") \/ session' # "opening")
  /\ Goto("loop", back["loop"])
  /\ UNCHANGED <<config, mgr, backoff, tunnel, route, previous, dnsvars, check,
                 known, world, left, copy, crossed>>

NoMqtt ==
  /\ pc["loop"] = "mqtt" /\ Goto("loop", "ntp")
  /\ UNCHANGED <<config, tunnelvars, check, mqtt, known, world, left, copy>>

\* The AsyncTCP task has the broker's address.
Opened ==
  /\ session = "opening" /\ pc["web"] = "idle"
  /\ \/ session' = route /\ UNCHANGED decided
     \/ session' = "none" /\ decided' = "wifi"
  /\ Sways
  /\ UNCHANGED <<config, mgr, backoff, tunnel, route, previous, dnsvars, check, last, known,
                 world, left, pc, back, copy, crossed>>

------------------------------------------------------------------------------
(* NTP, by either task *)

\* A slip: it does not ask.
NtpTestWifi(t) ==
  /\ wifi /\ ~InNtp(Other(t))
  /\ Call(t, "select", NtpEnd(t))
\* update() leaves the route alone while MQTT is connecting.
NtpTest(t) ==
  /\ wifi /\ session # "opening" /\ ~InNtp(Other(t))
  /\ Call(t, "select", NtpEnd(t))

NtpUpdate(t) ==
  /\ \/ t = "loop" /\ pc[t] = "ntp" /\ UNCHANGED left
     \/ t = "web" /\ pc[t] = "idle" /\ Spend
  /\ NtpTest(t)
  /\ UNCHANGED <<config, tunnelvars, check, mqtt, known, world, copy>>

NoNtp ==
  /\ pc["loop"] = "ntp" /\ Goto("loop", "wg")
  /\ UNCHANGED <<config, tunnelvars, check, mqtt, known, world, left, copy>>

\* selectRoute().  Only what NTP does while MQTT is connecting does not sway it.
SelectRoute(t) ==
  /\ pc[t] = "select"
  /\ \/ ~conf.ntp /\ route' = "wifi" /\ Goto(t, "borrowed")
     \/ /\ conf.ntp /\ loaded \notin Enabled /\ Goto(t, NtpEnd(t)) /\ UNCHANGED route
     \/ /\ conf.ntp /\ loaded \in Enabled /\ ~NetworkUp
        /\ Call(t, "start", NtpEnd(t)) /\ UNCHANGED route
     \/ /\ conf.ntp /\ loaded \in Enabled /\ NetworkUp
        /\ route' = "vpn" /\ Goto(t, "borrowed")
  /\ swayed' = (swayed \/ session # "opening")
  /\ UNCHANGED <<config, mgr, backoff, tunnel, previous, dnsvars, check, mqtt, known, world,
                 left, copy, crossed>>

RestorePrimaryRoute(t) ==
  /\ pc[t] = "borrowed"
  /\ \E wants \in BOOLEAN :
       /\ Wants(wants)
       /\ route' = IF wants /\ NetworkUp THEN "vpn" ELSE "wifi"
  /\ Goto(t, NtpEnd(t))
  /\ swayed' = (swayed \/ session # "opening")
  /\ UNCHANGED <<config, mgr, backoff, tunnel, previous, dnsvars, check, mqtt, world,
                 left, copy, crossed>>

------------------------------------------------------------------------------
(* The web pages *)

\* saveWireGuardConfig(): the file is opened for writing and is empty until it
\* is closed; when it cannot be written it stays so, and one of the two pages
\* does not ask for it to be applied then.
SaveBegins ==
  /\ pc["web"] = "idle" /\ saves > 0 /\ saves' = saves - 1
  /\ file' = Torn /\ Goto("web", "saving")
  /\ UNCHANGED <<conf, loaded, request, tunnelvars, check, mqtt, known, world, left, copy>>
SaveEnds ==
  /\ pc["web"] = "saving" /\ file' \in Configs /\ Goto("web", "request")
  /\ UNCHANGED <<conf, loaded, request, saves, tunnelvars, check, mqtt, known, world, left, copy>>
SaveFails ==
  /\ pc["web"] = "saving" /\ \E p \in {"request", "idle"} : Goto("web", p)
  /\ UNCHANGED <<config, tunnelvars, check, mqtt, known, world, left, copy>>
RequestApply ==
  /\ pc["web"] = "request" /\ request' = TRUE /\ Goto("web", "idle")
  /\ UNCHANGED <<conf, file, loaded, saves, tunnelvars, check, mqtt, known, world, left, copy>>

\* applyMqttActiveState(): the broker's address is forgotten, and looked up again
\* when there is a session, which ends if it should use the other route.
ApplyMqttState ==
  /\ pc["web"] = "idle" /\ conf.mqtt \in {"near", "far"} /\ Spend
  /\ \/ session \notin Routes /\ known' = FALSE /\ UNCHANGED <<route, session, decided, swayed>>
     \/ /\ session \in Routes /\ route' = (IF wifi THEN "wifi" ELSE route) /\ Sways
        /\ \E wants, ok \in BOOLEAN :
             /\ known' = (wifi /\ ok) /\ wants = (conf.mqtt = "far" \/ ~known')
             /\ IF (decided = "vpn") = wants THEN UNCHANGED <<session, decided>>
                ELSE session' = "none" /\ decided' = "wifi"
  /\ UNCHANGED <<config, mgr, backoff, tunnel, previous, dnsvars, check, last, world,
                 pc, back, copy, crossed>>

\* mqttRouteText(): without a session the broker is looked up, and the decision
\* noted that a connection of the loop may just be about to use.
ShowRoute ==
  /\ pc["web"] = "idle" /\ session \notin Routes /\ Asks /\ Spend
  /\ \E wants \in BOOLEAN :
       /\ Wants(wants) /\ route' = "wifi" /\ Sways
       /\ last' = IF wants /\ pc["loop"] = "open" THEN "vpn" ELSE "wifi"
  /\ UNCHANGED <<config, mgr, backoff, tunnel, previous, dnsvars, check, session, decided, world,
                 pc, back, copy, crossed>>

------------------------------------------------------------------------------
(* The surroundings *)

mine == <<config, mgr, backoff, check, last, known, pc, back, copy, crossed>>

\* A lease sets the name servers and the default route; after roaming, what the
\* client has saved is another network's.
GotIp ==
  /\ ~wifi /\ wifi' = TRUE /\ route' = "wifi" /\ dns' = "own" /\ Sways
  /\ saved' \in {saved, IF saved = "own" THEN "old" ELSE saved}
  /\ UNCHANGED <<mine, tunnel, previous, session, decided, alive, left>>
LoseWifi ==
  /\ wifi /\ Spend /\ wifi' = FALSE
  /\ UNCHANGED <<mine, tunnel, route, previous, dnsvars, session, decided, alive, swayed>>
\* A lease that is renewed sets the name servers again.
RenewLease ==
  /\ wifi /\ dns # "own" /\ dns' = "own"
  /\ UNCHANGED <<mine, tunnel, route, previous, saved, session, decided, world, left, swayed>>

Handshake ==
  /\ tunnel.iface /\ wifi /\ alive /\ tunnel.keys # "fresh"
  /\ tunnel' = [tunnel EXCEPT !.keys = "fresh"]
  /\ UNCHANGED <<mine, route, previous, dnsvars, session, decided, world, left, swayed>>
\* Keys age, and are in the end forgotten, without a handshake.
KeysAge ==
  /\ tunnel.iface /\ tunnel.keys # "none"
  /\ IF alive /\ wifi THEN Spend ELSE UNCHANGED left
  /\ tunnel' = [tunnel EXCEPT !.keys = IF @ = "fresh" THEN "stale" ELSE "none"]
  /\ UNCHANGED <<mine, route, previous, dnsvars, session, decided, world, swayed>>

PeerChanges ==
  /\ alive' = ~alive
  /\ UNCHANGED <<mine, tunnel, route, previous, dnsvars, session, decided, wifi, left, swayed>>

\* The answer comes, or a timeout or an error.
ProbeEnds ==
  /\ probe = "sent"
  /\ \/ probe' = "answered" /\ alive /\ wifi /\ tunnel.keys # "none" /\ UNCHANGED left
     \/ probe' = "failed" /\ IF alive /\ wifi /\ tunnel.keys # "none" THEN Spend ELSE UNCHANGED left
  /\ UNCHANGED <<config, tunnelvars, was, failures, lost, mqtt, known, world, pc, back, copy>>

SessionEnds ==
  /\ session \in Routes /\ session' = "none" /\ decided' = "wifi"
  /\ UNCHANGED <<mine, tunnel, route, previous, dnsvars, world, left, swayed>>

\* WIREGUARD_RECONNECT_BACKOFF_MS have passed.
BackoffEnds ==
  /\ backoff = "waiting" /\ backoff' = "over"
  /\ UNCHANGED <<config, mgr, tunnel, route, previous, dnsvars, check, mqtt, known, world, left,
                 pc, back, copy, crossed, swayed>>

PowerCut ==
  /\ Spend /\ Boot(file) /\ UNCHANGED <<conf, file, alive, saves>>

------------------------------------------------------------------------------

EnsureStarted(t) ==
  \/ Start(t) \/ Begin(t)
  \/ SaveCurrentDns(t) \/ ResolveEndpoint(t) \/ AddInterface(t) \/ SetVpnDns(t)
  \/ ResetBackoff(t) \/ ConnectFails(t) \/ AddedTwice(t)

LoopStep ==
  \/ TakeRequest \/ LoadConfig \/ Reconnect \/ Poll \/ NetworkIsUp
  \/ PollProbe \/ NoProbe \/ OpenProbe \/ SendProbe \/ SendFails \/ ProbeRefused
  \/ TunnelDown
  \/ Ensure \/ RouteIsReady \/ Connect \/ NoMqtt
  \/ NtpUpdate("loop") \/ NoNtp \/ SelectRoute("loop") \/ RestorePrimaryRoute("loop")
  \/ EnsureStarted("loop")

\* What the web task has begun, it ends.
WebStep ==
  \/ SaveEnds \/ SaveFails \/ RequestApply
  \/ SelectRoute("web") \/ RestorePrimaryRoute("web") \/ EnsureStarted("web")
WebBegins == SaveBegins \/ ApplyMqttState \/ ShowRoute \/ NtpUpdate("web") \/ Opened

Surroundings ==
  \/ GotIp \/ LoseWifi \/ RenewLease \/ Handshake \/ KeysAge \/ PeerChanges
  \/ ProbeEnds \/ SessionEnds \/ BackoffEnds \/ PowerCut

Next == LoopStep \/ WebStep \/ WebBegins \/ Surroundings

Fairness ==
  /\ WF_vars(LoopStep) /\ WF_vars(WebStep)
  /\ WF_vars(RenewLease) /\ WF_vars(Handshake) /\ WF_vars(BackoffEnds)

Spec == Init /\ [][Next]_vars /\ Fairness

------------------------------------------------------------------------------
(* Properties *)

LoopPlaces == {"wg", "load", "drop", "start", "begin", "connect", "resolve", "add",
               "names", "begun", "up", "upped", "probe", "send", "refused", "down",
               "ensure", "mqtt", "open", "ntp", "select", "borrowed"}
WebPlaces  == {"idle", "saving", "request", "select", "borrowed",
               "start", "begin", "connect", "resolve", "add", "names", "begun"}

\* Type invariant of the tunnel, the route and those that use them.
TypeOK ==
  /\ conf \in [mqtt : Brokers, ntp : BOOLEAN]
  /\ file \in Configs \cup {Torn} /\ loaded \in Configs /\ request \in BOOLEAN
  /\ mgr \in [started : BOOLEAN, up : BOOLEAN]
  /\ backoff \in {"none", "waiting", "over"}
  /\ tunnel \in [iface : BOOLEAN, up : BOOLEAN, config : Configs,
                 keys : {"none", "fresh", "stale"}]
  /\ route \in Routes /\ previous \in Routes \cup {"none"}
  /\ dns \in {"own", "old", "vpn"} /\ saved \in {"none", "own", "old", "vpn"}
  /\ probe \in {"none", "sent", "answered", "failed"} /\ was \in Routes
  /\ failures \in 0..(Threshold - 1) /\ lost \in 0..Threshold
  /\ session \in Routes \cup {"none", "opening"}
  /\ last \in Routes /\ decided \in Routes /\ known \in BOOLEAN
  /\ wifi \in BOOLEAN /\ alive \in BOOLEAN /\ saves \in Nat /\ left \in Nat
  /\ pc \in [Tasks -> LoopPlaces \cup WebPlaces]
  /\ pc["loop"] \in LoopPlaces /\ pc["web"] \in WebPlaces
  /\ back \in [Tasks -> {"wg", "idle", "ensure", "mqtt", "ntp", "upped"}]
  /\ copy \in [Tasks -> Configs]
  /\ crossed \in BOOLEAN /\ swayed \in BOOLEAN

\* However a save falls into the loop's pass, and however often it is repeated:
\* once no request waits and none is being served, the board works by the file,
\* and the tunnel there is was made from it (wireGuardApplyConfig(),
\* wireGuardRequestApplyConfig()).  Not so when two tasks start the tunnel.
SavedIsApplied ==
  (/\ ~request /\ ~crossed /\ file # Torn
   /\ pc["loop"] \notin {"load", "drop"} /\ pc["web"] \notin {"saving", "request"})
  => /\ loaded = file
     /\ tunnel.iface => tunnel.config = file /\ file \in Enabled

\* Whatever ends the tunnel, a save, the check, a failed start: without it
\* neither the name servers nor the default route are the tunnel's, and with it
\* the former name servers are kept (saveCurrentDns(), restoreSavedDns(), the
\* calls of wireGuardUseWifiRoute()).  Not so when two tasks start the tunnel.
NothingLeftBehind ==
  ~crossed =>
    /\ dns = "vpn" \/ route = "vpn" => tunnel.iface
    /\ tunnel.iface => saved # "none"

\* The check takes the tunnel down only when as many probes as it takes were lost
\* in a row on this very tunnel, whatever became of those before
\* (wireGuardUpdateDnsLivenessCheck(), wireGuardDnsHandleFailure()).  Not so when
\* two tasks start the tunnel: the start of another does not reset the count.
LiveTunnelKept ==
  [][(PollProbe \/ ProbeRefused) /\ tunnel.iface /\ ~tunnel'.iface
       => lost + 1 >= Threshold \/ crossed]_vars

\* The MQTT connection is opened on the route that was decided for it, unless
\* something else than NTP has set the route in between, or NTP had begun before:
\* NTP borrows the route only when MQTT is not connecting (AsyncNtpClient::
\* update(), mqttRouteIsReady(), connectToMqtt()).
MqttByItsRoute ==
  [][session' \in Routes /\ session' # session
       => session' = decided' \/ swayed]_vars

\* While WiFi, the peer and the configuration last, the tunnel's network is up
\* again and again, whatever has failed before: a failed start, a check that has
\* taken it down, a stale name server, another task in the same code
\* (wireGuardLoop(), wireGuardScheduleReconnect(), wireGuardEnsureStarted()).
TunnelComesBack ==
  <>[](wifi /\ alive /\ file \in Enabled) => []<>NetworkUp
=============================================================================
