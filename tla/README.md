# ESPRelayNode: verification project

TLA+ models of the ESPRelayNode firmware (`src/src/`), the TLC configurations
that check them on small instances, and TLAPS proofs about them. The firmware
is the ESP32 build of `PROFILE_SOLAR_VOLTMETER`
(`defines-template-SolarVoltmeter.h`): a two-relay board with MQTT, a web
interface, a Modbus TCP server, calendar timers, automation rules, WireGuard
and an MQTT health check.

## 1. Inventory

### Tasks

| task | runs | touches |
|---|---|---|
| Arduino loop task | `loop()` (`main.cpp:3487-3630`): every `service...()` and `Relay::watch()` for each relay | everything |
| AsyncTCP task | MQTT callbacks (`onMqttConnect`, `onMqttDisconnect`, `onMqttMessage`), HTTP handlers, Modbus server | relays, session flags, configuration |
| FreeRTOS timer daemon | `fnTTL_CallBack`, `fnTTA_CallBack` | `running_TTL/TTA`, `ttl_expired`, `tta_expired` |
| WiFi event task | `WiFiGotIP`, `WiFiDisconnected` | connection flags, tickers |
| TCP/IP task | answers to DNS lookups (`AsyncNtpClient::handleDnsResult`), WireGuard handshakes, DHCP leases | the NTP client, keys, name servers, default route |
| CT task (core 0) | power measurement | CT results |

The tasks share plain or `volatile` fields. Only the relay's timer and change
flags, and the test-and-set of its write lock, are inside a critical section
(`timerFlagsMux`). The NTP client has a mutex of its own, and each single change
of the default route another.

### Components

| component | state | operations | what makes it correct |
|---|---|---|---|
| Relay output (`RelayClass.cpp`) | GPIO level, `lockupdate`, `rchangedflag`, `lastPub1State` | `mdigitalWrite`, `watch`, `freelockfunc` | no change of level is forgotten; the lock is always released |
| Relay timers (`RelayClass.cpp`, FreeRTOS timers) | `running_TTL/TTA`, `ttl_expired`, `tta_expired`, the timers and the command queue of the daemon | start, stop, tick, expire, `i_ttl` change | a relay with a TTL never stays on for ever; a relay that is off is not counted down |
| Relay and broker (`MQTT_Processes.cpp`, `main.cpp`) | `pendingEchoCount`, subscriptions, retained messages | publish on change, swallow an echo, announce on connect | no echo storm; an echo is not taken for a command |
| MQTT session (`MQTT_Processes.cpp`) | `mqttConnecting`, backoff, pending flags, health counters | connect, disconnect, health check, pending service, firmware stop | every disconnection is followed by another attempt; the pending work is done in the session it belongs to |
| Calendar (`main.cpp:1399-1688`, `TimerClass.cpp`) | events, `hastimerrunning`, `timerpaused`, the relays' write locks | `chronosInit`, `chronosevaluatetimers`, pause and resume, `isNodeTimerActiveNow` | a relay turned on by an event is off when no event is ongoing; a user's OFF stands |
| Automation rules (`AutomationRules.cpp`), with remote sensors (`RemoteSensorConfig.cpp`) | rule and timer files and their caches; per rule `hasResult`, `lastResult`, `firedForState`, `resultSinceMs`, `lastFiredMs`; value per sensor | `evaluateAutomationRules`, save and cache refresh, suspension, sensor messages and saves | the cache is the file; hold and cooldown are respected; the relay follows the present result; a suspended rule stays off |
| `Schedule_timer` (`Scheduletimer.cpp`) | `lastTime`, status, counters | start, stop, update | an armed countdown expires, also over the wrap of `millis()` |
| WireGuard manager (`WireGuardManager.cpp`) with its client library | `/WireGuardConfig.json` and its copy, the request to apply it; `wireGuardStarted`, `wireGuardNetworkUp`, backoff; interface, saved name servers, DNS check; `netif_default` | `wireGuardLoop`, `wireGuardEnsureStarted`, `wireGuardDisconnect`, `wireGuardUseWifiRoute`, `wireGuardUseVpnRoute`, the DNS liveness check | what is saved is applied; nothing of a tunnel is left behind; a working tunnel is kept, a broken one comes back; each user of the one default route finds the one it decided for |
| NTP client (`AsyncNtpClient.cpp`, `KSBAsyncNTP.cpp`) | server, `resolving`, address, socket, `lastSyncAt`, `syncedEpoch` | `begin`, `update`, `stop`, `handleDnsResult`, `timeprovider` | requests go to the configured server; never waits for a lookup that is not open; the clock is set from one answer |
| WiFi (`KSBWiFiHelper.cpp`) | event flags, tickers | got IP, disconnected, soft AP | reconnects |
| Temperature control, inputs, CT power, water flow, HA discovery, OTA, HTTP, Modbus, configuration files | see PROJECT.json | | |

## 2. Plan

Ordered by what the rest of the firmware depends on: everything ends in a write
of a relay, most writes come from or go to MQTT.

| | modules | state |
|---|---|---|
| 1 | `RelayDrive`, `ReportedLevel`, `RelayDriveProofs`: the fields the tasks share | done |
| 2 | `Relay` with `TimerService` and `BrokerLink`, `RelayProofs`, `RelayAgreementProofs`: timers, commands, echoes, retained messages | done |
| 3 | `MqttSession`, `MqttSessionProofs`: connect, reconnect, subscribe, health check, stop | done |
| 4 | `Calendar`, `CalendarProofs`: events, release, pause | done |
| 5 | `AutomationRules` over `TimerWindow` (`isNodeTimerActiveNow`), `AutomationRulesProofs`: caches, suspension, hold, cooldown, trigger mode, remote sensors | done |
| 6 | `NtpClient`, `NtpClientProofs`: begin, update, lookups, answers, the time provider, the mutex | done |
| 7 | `WireGuardManager`, `WireGuardManagerProofs`: tunnel, saves, DNS check, reconnection, and all who set the default route | done |
| 8 | `ScheduleTimer`: start, pause, resume, stop and tick with `millis()` modulo its width | checked against a reference countdown without wrap |
| 9 | WiFi reconnection and the soft AP; `CtHandover` (core 0 to loop, daily checkpoint), `WaterFlow` | last |

Each component keeps its proofs in a module of its own. Runs stay few: one for
a question the others do not answer.

## 3. Modules

| module | models | reads as |
|---|---|---|
| `ReportedLevel` | what a relay promises on a topic: a report always carries the level of that moment, and catches up with it | abstract specification, kept on the state topic |
| `RelayDrive` | `Relay::mdigitalWrite`, `watch`, `freelockfunc`, the writes of the loop's services and all publications of the level | the detailed specification; refines `ReportedLevel` by `Output` |
| `TimerService` | FreeRTOS software timers: bounded command queue, daemon, periods (external) | library module |
| `BrokerLink` | the broker and the connection for one topic: order, loss with the connection, the retained message. The board's half is AsyncMqttClient's, the broker is external | library module |
| `Relay` | one relay with `TimerService` and `BrokerLink` instantiated | composition |
| `MqttSession` | `MQTT_Processes.cpp`, its users in `main.cpp` and the AsyncMqttClient's states | one module |
| `Calendar` | `chronosInit`, `chronosevaluatetimers`, `serviceCalendar` and the writes they compete with | one module |
| `TimerWindow` | `isNodeTimerActiveNow` and what a window of hours means | operators |
| `AutomationRules` | `AutomationRules.cpp`, the caches, the remote sensors, the gate by `TimerWindow` | one module |
| `NtpClient` | `AsyncNtpClient.cpp`, `KSBAsyncNTP.cpp` and what calls them | one module |
| `WireGuardManager` | `WireGuardManager.cpp`, the client library, and what MQTT, NTP and the pages do to the route | one module |

`MC*` modules only give constants values; a name such as `ReachNextDay` in
another module, whose comment calls it a slip, is a wrong form of the
definition next to it and is part of no specification: it says which mistake a
property rules out.

### How the models follow the code

**The loop task** is a program counter (`lpc`) that goes through one pass of
`loop()`. Every module has the services it is about in the order of
`main.cpp:3487-3630` and leaves out the others. An interrupted pass is real:
the other tasks run between any two steps, because AsyncTCP and the timer daemon
preempt the loop. An access to a shared field is a step of its own wherever
another task can read or write the field in between. Sections inside
`timerFlagsMux` are one step.

**RelayDrive.** `pin`, `lockupdate`, `rchangedflag` are the fields of the
object. `at[t]` is the position of task `t` in `mdigitalWrite`: `Call` is the
test-and-set of the lock, `Write` is `digitalWrite`, `Flag` sets
`rchangedflag`. A pass of the loop is a service's write, the calendar's, the announcement
after a connection (`AnnounceRead`, `Announce`: the level is read once and told to both
topics) and `watch()`: `WatchSnapshot` copies and clears the flags, the steps after it
are the callbacks, `PublishState`, `ReadLevel` and `PublishLevel`, and
`FreeLockTest`/`FreeLock` the test of the elapsed time and the release. Elapsed
time is the choice of the test's outcome. An expired TTL is two steps: `TtlCallback` calls
`mdigitalWrite`, and `TtlPublish` tells the command topic OFF (`main.cpp:989`), also when
the write was dropped. Neither it nor the announcement sets `lastPub1State`, which is
the level of the last report and not what the topic shows. The history `offDropped` says
that the TTL's OFF was published for a dropped write, `undone` that the last report found
its level in `lastPub1State` and published nothing although the topic shows another.
Two things are `Relay`'s alone: a publication that is not sent or does not arrive, and the
answer to a retained ON after a brownout (`MQTT_Processes.cpp:835-840`), so that
here the last reset was none.

**Relay.** Adds both timers, the flags of their callbacks, the countdown in
`fnTTL_CallBack`, the announcement after a connection, the brownout start, the
echo counter and the commands received. A write is one step here (its
interleaving is `RelayDrive`'s question); the echo counter is read and written
in two (`SwallowLoad`/`SwallowStore`, `CountEcho`), because the loop task and
the AsyncTCP task both do `++`/`--` on it. Left out: the state topic
(`RelayDrive` has it), the countdown topic and `ttl_update`, and a TTL change to
0, which calls `xTimerChangePeriod` with a period of 0 and stops the board in a
`configASSERT` of the timer daemon.

**MqttSession.** Three records: `net` (what WiFi, tunnel and configuration
decide), `mqtt` (the globals) and `client` (the library). Time is counted in
loop passes and capped where no test can tell ages apart: `tiker_MQTT_CONNECT`
fires after `Interval`, an attempt or a silent connection is stuck after
`Patience`. A callback of the library is one step of the AsyncTCP task.
`TestIndex`, `TestBound`, `PublishRelay` and `LoadIndex`/`StoreIndex` keep the
accesses to `pending_relay_state_idx` apart; when a disconnection resets it
between test and use, `relays[-1]` is read, and the model lets the board go on
or restart. Left out: the length of the backoff, the choice of
the broker's address, home-assistant discovery, remote-sensor subscriptions and
`pending_input_status_publish`, which nothing sets.

**Calendar.** Time is a second of the day. `Reach` is the clock coming to a
new second (up to `MaxSkip` later, because a pass of the loop or an NTP
correction skips some), `Evaluate` the start of `chronosevaluatetimers`,
`HoldOccurrence`/`CloseOccurrence` the two branches for an occurrence,
`ReleaseRelay`/`LetGo` the release when nothing is ongoing. `writes[t]` is the
call of `mdigitalWrite` task `t` is in: take the lock, drive the pin, note the
pause. `Reach` frees every lock, for a write takes microseconds and `watch()`
runs in every pass; `FreeLock` can also free one under a call in flight, since
`pmillis` is stored after the lock is taken, and that call is `crossed`. The
order in which `listOngoing` reports occurrences is left open. `retained`
follows whose ON the broker keeps, and `OnRetained` delivers it after a restart.
Timers are daily, `chronosInit` reads all files in one step.

**AutomationRules.** The loop task's `lpc` goes through `serviceCalendar`
(`StartReload`, then `LoadRule`/`StoreRule` per rule, `EndReload`), the rules
one by one (`at`) and `Watch`, the rest of the second. A rule takes one of the
branches of `evaluateAutomationRules`: `SkipRule`, `MissSource`, `EvaluateRule`. A save of
the sensors clears each slot and fills it again (`SaveSensors`, `ClearSlots`,
`LoadTopics`), and an evaluation reads the topic, the time and the value of a slot one after another, so
that it may find a slot that is being cleared in part (`Readings`).
The suspension of a rule is five steps (`ReadRuleFile`, `WriteRuleFile`,
`DisableRule`, and the same for the timer that gates it), because the web page
can save the file in between. `request` is the position of the AsyncTCP task
in a save. A condition is its source and the set of values its operator and
thresholds accept; `cachedValue` is the value of a source. Times are ages in
seconds, capped at the longest hold time and cooldown, and a save that changes a
rule keeps `ruleState` as the code does. `timers` is loaded in one step and
has no invariant of its own. A file changes when it is closed, since LittleFS commits then.
`deed`, `quiet`, `suspended` and `crossed` are history variables: a rule's last command
(its action, its relay, and whether it was driven, dropped or overtaken), which
stays the last one when the rule is saved; how long ago it was; whether the rule was switched off and
not saved since, and whether a save met the loop on the rule's file or entry.
Left out: evaluation from an entry that is half rewritten, and a file that is
missing or broken after a failed save.

**NtpClient.** `pc[t]` is where a task is: the loop in `ntpLoop()`
(`NtpBegin`, `StartUpdate`) and `timeprovider()`, the AsyncTCP task in a page that
shows the time, a save, or the stop for an upload. `update()` goes on without the
mutex when it is taken (`SkipUpdate`); `begin()`, `stop()` and the callback of a
lookup wait a second and give up (`BeginGivesUp`, `StopGivesUp`,
`DnsResultGivesUp`), possible only while the holder may really take that long
(`Busy`: it chooses a route, which can look a name up). `TakeAnswer` and
`StampAnswer` store an answer's two halves, `ReadStamp` and `ReadEpoch` read them
without the mutex, after `isSynced()`, a step of its own (`IsSynced`). `LookupRoom` bounds what lwIP's table of lookups holds.
Times are ages; a comparison with a copy of `millis()` is made in the step that
reads it, except where an answer stamped in between matters. A packet that is
no answer counts as lost, the choice of the route as "ready or not" (the next
module has it), and the time library's own interval is left out: it may ask at
any time. `mishap` and `torn` are history: what has given up or
was left over since the client was begun, and whether a read of the time was
disturbed.

**WireGuardManager.** `pc["loop"]` goes through `wireGuardLoop()`, the start for
users of the tunnel, MQTT and NTP; `pc["web"]` through a save or an NTP page.
`EnsureStarted(t)` is `wireGuardEnsureStarted()` by either task, in steps: the tests
and the copy of the configuration (`Start`), `client.begin()` (`Begin`),
`saveCurrentDns()`, the library's lookup of the endpoint (`ResolveEndpoint`), its interface
and route (`AddInterface`), the tunnel's name server (`SetVpnDns`) and the end of the
backoff (`ResetBackoff`); `ConnectFails` is a lookup without an answer or an interface that cannot be
added. A step that sets `netif_default` or a name server sets one of
them, so that the other task and the lease can come in between; only the route that
`wg.end()` gives back is set with what follows it. `dns`
and `saved` tell whose name servers they are: this network's, a former one's, the
tunnel's. A lookup of the broker's name is one step with what is done with its result;
while it lasts nothing but the route changes hands. When two tasks add the
interface, lwIP's assertion restarts the board (`AddedTwice`). The configuration is
valid, names its endpoint by a host name and has a name server; who uses MQTT and the tunnel
is fixed per behaviour; there is no upload. NTP may begin a moment before
`mqttConnecting` is cleared, which adds behaviours only. A value that is not used any
more is set back (`last`, `decided`, `was`, `back`, `copy`). `crossed`,
`swayed` and `lost` are history: whether two tasks started or stopped this tunnel at
once, whether others set the route since MQTT decided, and how many probes
of this tunnel were lost in a row.

## 4. Properties and runs

| run | shows | bounds |
|---|---|---|
| `relay_drive` | `CommandTopicReported`, `StateTopicReported`: a topic that differs from the pin has a report on its way, but for two cases on the command topic. `LockIsReleased`, `TopicsCatchUp`: the report gets through. `OutputSpec`: the refinement, on the state topic | three tasks; 107 thousand states |
| `relay_timers` | `TtlTurnsOff`: while it has a TTL and its TTA does not run, the relay is off again and again, whoever turns it on, although a timer command or an OFF can be lost. `CountdownStops`: one that stays off is not counted down | TTL of 2 periods, queue of 2, two commands; 77 thousand |
| `relay_new_ttl` | `CountdownStops` when a TTL message, not a switch, started the timer | TTLs 0 to 2; 93 thousand |
| `relay_echo` | `CountedRightAgreed`: once all is quiet, relay and broker agree, unless the code lost what it needs for it. `EchoesDieOut` | two commands, a foreign TOG, two subscriptions; 150 thousand |
| `relay_restart` | `BrownoutStaysOff`: after a brownout no retained ON turns the relay on. `CountedRightAgreed` with what is lost with connections and restarts | one outage, refused publication and restart, two commands of a switch; 2.9 million |
| `mqtt_session` | `Recovers`: once MQTT is enabled for good, with WiFi and tunnel up, it is again and again connected to a broker that answers, and subscribed. `StaysDown`: once switched off, or stopped for an upload, the session ends for good. `LiveBrokerKept`: the health check drops a connection only for pings without an echo | one relay, two misses, one refusal, two events; 351 thousand |
| `calendar` | `ReleasedWhenIdle`: when an evaluation finds nothing ongoing, no relay is on that the calendar turned on. `OffRespected`: the calendar does not begin to turn on a relay a user turned off. `FollowsCalendar`: it does follow its events again | two relays with overlapping events, a 13 s day, skips of 2 s, two events; 290 thousand |
| `automation` | `CacheFollowsFile`: what is evaluated is what was saved. `SuspendedStaysOff`: a rule switched off for its sensor stays off over reloads and restarts. `FiredAgrees`: a rule never rests at the level of an earlier result, unless its command was dropped or is no more what the rule asks for. `CooldownKept`: two commands are a cooldown apart. `RuleActs`: a rule with one result gets its way | two rules on one relay, hold 1 s, cooldown 4 s, one gate, two events; saves with the opposite action; 299 thousand |
| `ntp` | `AddressOfServer`: requests go to the server the client was begun with. `ResolvingIsAnswered`: it waits for a lookup only while one is open. `ClockRight`: the clock is set from one answer. `SyncsAgain`: while online, it is synchronized again and again | three servers, one an address; intervals of 1; one entry of the DNS table per name; two events; 248 thousand |
| `wireguard` | `SavedIsApplied`: no save is overtaken by an older one. `NothingLeftBehind`: no route or name server of a tunnel that is gone, and with one the former name servers are kept. `LiveTunnelKept`: the check takes a tunnel down only for losses in a row on it. `MqttByItsRoute`: MQTT is opened on the route decided for it. `TunnelComesBack` | eight scenarios (place of the broker, NTP, configuration, saves, events), threshold 2; 360 thousand |

`TypeOK` is an invariant of one run per module. Every bound is a constant that
guards the action it counts (`MaxCommands`, `MaxOutages`, `MaxFailures`,
`MaxRestarts`, `MaxRefusals`, `MaxEvents`), so a run looks at all behaviours with
at most so many of them.

**Why the bounds are enough.** The flags have two values and the queues of the
tasks are short, so the races need one overlap: two tasks beside the loop let a
write be overtaken by another whose report is being taken. A TTL of 2 periods
separates the first, a middle and the last run of the callback; a queue of 1 or 2
is full after the commands of one write. `EchoMod` stands for 256, and wraps
within the run. Two subscriptions make an echo arrive twice.
`MaxMisses = 2` separates the first miss from the last. On a day of 13 seconds
the events [1, 9) and [5, 11) have all of their phases: the five seconds of the
opening window, the time after it, an overlap, finish-1 with and without the
other event, and a skip of two seconds can jump over each edge.
In `automation` the result flips within and after a hold of one evaluation,
and a cooldown of four lasts longer than a flip, a reset and a save together. A
save, a reload and a suspension of the same rule overlap with two events; the
second rule shares the relay, so that each overtakes the other.

In `ntp` three servers let a lookup outlive two changes of server, and two events
are a save and a page, or a failure and an upload. The board starts with the server that is an
address or with one of the two that are names (`MCSpec`): these differ in
nothing else, so that the behaviours left out are those kept with the names exchanged. In `wireguard` one
scenario has two saves in a row, so that the second comes while the first is
being applied; in another two events let the page start the tunnel while the
loop does; in a third the page chooses a route while the check probes, and probes are lost on
both sides of a reconnection. The broker's route is disturbed by NTP and one event when MQTT does
not use the tunnel, by NTP alone or one event alone when the broker turns out to be on the WiFi's subnet, and by
the check and one event when it is behind the tunnel. Saves and other events are not combined, nor two
events with a broker or with the check: with any of these the run takes more than five minutes.

**What the properties make allowance for.**

- `CommandTopicReported` and `TopicsCatchUp` except two cases on the command topic, each until it is
  next published to: the OFF of an expired TTL (`main.cpp:989`) was published although its write
  was dropped (`offDropped`), and a change was taken back before its report, while the TTL or an
  announcement had published the level in between (`undone`). Then the board
  shows the wrong level there until the next change. The state topic has no exception. This is
  also why the refinement is stated for the state topic: the command topic
  can carry an OFF while the level is HIGH, which the abstract specification forbids.
- `CountedRightAgreed` excepts four things after which relay and broker may differ for
  good. A message or a TTL's OFF finds the lock held and is thrown away (`dropped`). A
  change is taken back before its report (`undone`): `lastPub1State` is what was
  last reported, not what the broker was last told, and the announcement on connect and
  the OFF of a TTL do not set it. An echo is counted that cannot come, or a
  count is lost (`miscounted`): the publication was not sent, the subscription was not there
  yet, the connection broke, or `pendingEchoCount++` overwrites the `--` of the other
  task; the board then swallows a command. A publication is refused while
  connected, and is not repeated. Each was found as a counterexample to a stronger form.
- TTL and broker are not combined in one run beyond `relay_new_ttl`: a TTL,
  retained ONs and echoes make the message queues unbounded.
- `LiveBrokerKept` allows one miss that is not the broker's (the flag is set after
  the publication, and the echo can come in between). With refused
  publications it only says that not all misses are theirs alone: the misses
  before a refusal and those after it add up, so that the sum of both, which holds up to three
  misses, fails from four on. The finding `mqtt_refused` is about them.
- `OffRespected` leaves out a call that lost its lock, which can lose its pause
  (`RelayClass.cpp:438`), and a user's OFF within the first five seconds of an
  event, which the window clears by design (`main.cpp:1648`).
- `CacheFollowsFile` and the cache half of `SuspendedStaysOff` leave out a rule
  whose save met the loop between its reading of the file and its storing
  (`crossed`), until it is loaded or saved again: there the older contents can win.
- `FiredAgrees` speaks of a rule whose last command was driven, not overtaken, and is still what the
  rule asks for. Two cases it leaves out are wrong in the code: a command that
  finds the lock held is dropped, and a rule that has fired can be saved with another
  action or relay; both count as fired all the same, and the relay is left where it is
  until the result flips. Without either exception the run finds a counterexample. `RuleActs`
  counts both as served, and is about rules that have
  their relay to themselves. Neither is about TOGGLE, which has no level.
- The `automation` run saves rules with the opposite action; it has no TOGGLE rule and none that is saved
  with another relay. The theorems are about these too, with the same two exceptions.
- `ReleasedWhenIdle` is about seconds with nothing ongoing: the release is for all
  relays together, so that a missed finish-1 keeps a relay on while
  another relay's event lasts.

- `AddressOfServer`, `ResolvingIsAnswered` and `SyncsAgain` leave out what the code
  does not recover from (`mishap`): a lookup of another server that was open when
  the client was begun ("stale"), a callback or a `begin()` that waited for more than
  a second ("answer", "begin"). `ClockRight` leaves out a read that another task
  disturbs (`torn`): there the clock is set wrong until it is set again.
- `SavedIsApplied`, `NothingLeftBehind` and `LiveTunnelKept` leave out a tunnel that two
  tasks started or stopped at once (`crossed`); all three fail for it.
- `MqttByItsRoute` leaves out what does set the route while MQTT waits for its
  broker's address: the check's probe, the end or start of a tunnel, a lease, a page that
  looks the broker up (`swayed`), and an NTP request that had begun before. What
  it shows is that the lock-out of NTP by `mqttConnecting` works.
- `TunnelComesBack` holds after roaming only because the lease is renewed: what
  `restoreSavedDns()` puts back can be name servers of a network the board has left.

### Fairness

- The loop task goes on: `WF` of its steps in every module. FreeRTOS schedules
  it whenever the others wait, and nothing in `loop()` blocks for ever.
- Other tasks finish what they began: `WF` of a write in progress
  (`RelayDrive`, `Calendar`), of the daemon and of the messages that are on
  their way (`Relay`). No command, event or failure is fair: they may never happen.
- `SF` where a step is possible again and again but not all the time: the lock is
  seen to be old in some pass (`FreeLockTest(TRUE)`, `FreeLock(TRUE)`); a relay
  is announced; a
  connection attempt succeeds in the end (`OnMqttConnect`) and the health check
  comes due (`HealthDue`). The success of an attempt is an assumption about the
  network, without which no reconnection could be promised. A DISCONNECT
  packet that gets through is not assumed.
- In `Relay` a broken connection is opened again, and in both MQTT modules a
  broker that is alive answers: assumptions about the network.
- The clock ticks and is set (`WF` of `Tick` and `SetTime` in `Calendar`).
- `AutomationRules`: the loop goes on, and a save that has begun ends (`WF` of
  `Loop` and `Handler`). No page, message or measurement is fair.
- `NtpClient`: tasks go on, lwIP calls back for every lookup, the socket's answers
  or their loss come, time passes; a task that waits for the mutex gets it or gives up
  (`SF` of `Begin` or `BeginGivesUp`), and the loop asks for the time again (`SF` of
  `IsSynced("loop")`).
- `WireGuardManager`: the loop goes on, the AsyncTCP task ends what it began, a lease is
  renewed, a peer that answers completes a handshake, a backoff elapses.

## 5. What the code does not do

Two runs end in a counterexample, each against a sentence of the sources. The
run states the sentence as a property.

| run | sentence | what happens |
|---|---|---|
| `mqtt_refused` | `MQTT_Processes.cpp:984`: a ping that was not sent is not counted as a miss | it is when the flag is still set from an earlier ping |
| `calendar_reboot` | `main.cpp:1675`: a relay a timer left on is released after a reboot | the release looks at a flag every boot clears |

Others are in the models without a run. `AutomationRules.cpp:304-309` says that a rule is
level-based, but a rule that has fired and is saved with the opposite action
keeps `firedForState` and leaves the relay at the level of the old action (line 387), and one whose
command the lock dropped counts as fired (line 402). `AutomationRules.cpp:114-117` says that no
rule is evaluated against a stale 0.0, but a slot's value is cleared before its time
(`RemoteSensorConfig.cpp:25-26`), and can be read in between. `main.cpp:989` tells the command
topic OFF although the write before it may have been dropped. `RelayClass.h:94` says
`pendingEchoCount` is the number of publishes that await their echo, but
`main.cpp:1016` increments it before a publication that is not sent while offline, and
a later command is swallowed instead. `RelayClass.cpp:238` says the interval of the
timers is always 1000 ms, but a TTL of n over MQTT sets the period to n seconds
(`MQTT_Processes.cpp:872-878`) and is still counted n times, so that it takes n*n seconds.

## 6. Proofs

| theorem | for every | argument |
|---|---|---|
| `RelayDriveProofs!TypeCorrect` | set of tasks (`LoopIsApart`: the loop is not among the others) | `TypeOK` is inductive |
| `RelayDriveProofs!NoChangeIsForgotten`, `StateTopicIsTold` | same; the first with the exceptions `offDropped` and `undone` | `ReportInv`: the two invariants; that a level already read for a report or an announcement is fresh, or else a new change is pending (`ReadIsFresh`), without which a report of an old level could end the last pending change; and that an expired TTL's OFF is published with its write dropped or its change pending (`TtlIsReported`) |
| `RelayDriveProofs!RelayRefinesOutput` | same | on the state topic, initial states and steps map to those of `ReportedLevel` |
| `RelayProofs!OffAfterBrownout` | TTL, queue length, number of outages, failures, restarts and subscriptions | `Harmless`: until a command comes, the pin, the level read for publication, and every packet under way are OFF, a subscription or a retained ON, which is suppressed. It assumes `NoRetainedToggle`, as a TOG some client keeps on the topic would turn the relay on |
| `RelayProofs!RelayTypeCorrect` | same, without that assumption | types are inductive with what a message, a count and a copy of it can be (`OwnOK`) |
| `RelayAgreementProofs!RelayAndBrokerAgree` | same, with `NoRetainedToggle`; also the number of commands and the modulus of the count | `AgreeInv`, see below |
| `MqttSessionProofs!SessionTypeCorrect` | relays, misses, patience, bounds (`SessionAssumption`) | types are inductive with `LoopSound`: a count is below its limit, and an index inside its array, wherever they are used |
| `MqttSessionProofs!LiveBrokerIsKept` | same | `HealthInv`, see below |
| `CalendarProofs!TypeCorrect` | relays, timers and length of day (`TimersAssumption`) | `TypeOK` is inductive |
| `CalendarProofs!CalendarInvariant` | same | see below |
| `CalendarProofs!NothingOutlastsItsEvent`, `StandingOffRespected` | same | from the invariant |
| `AutomationRulesProofs!RulesTypeCorrect` | rules, relays, timers, sensors, forms (`RulesAssumption`) | types are inductive with `lpc = "writetimer" => gate # None` |
| `AutomationRulesProofs!CacheInStep`, `SuspensionHolds`, `FiredLevel`, `CooldownHolds` | same | from `Inv`, see below |
| `NtpClientProofs!NtpTypeCorrect` | servers, intervals, bounds (`NtpAssumption`) | types are inductive |
| `NtpClientProofs!AddressIsTheServers` | same | `AddressInv`: also a lookup that is open, or whose callback runs, is of the server the client was begun with, unless one was left over |
| `NtpClientProofs!WaitIsAnswered` | same | inductive as it stands: each step either ends the wait or leaves a lookup open (`WaitKept`) |
| `NtpClientProofs!TimeIsOfOneAnswer` | same | `Halves`: which answer each stored half is from, and which one a task has read, unless its read is torn |
| `WireGuardManagerProofs!WireGuardTypeCorrect` | scenarios, configurations, threshold, bounds (`WireGuardAssumption`) | types are inductive with `Sound`: an interface has a route to give back, no more probes of a tunnel were lost than are counted |
| `WireGuardManagerProofs!LiveTunnelIsKept`, `NothingIsLeftBehind`, `SavedConfigIsApplied`, `MqttOpensByItsRoute` | same | see below |
| `AutomationRulesProofs!WindowHours` | timer and moment | arithmetic: going over midnight in `InHours` is the remainder of a difference |

The invariant `AgreeInv` numbers the messages to come: those on their way to the board
first, then the packets on their way to the broker; `Slots` are the places that will bring
the board a level. It is needed because `CountedRightAgreed` speaks only of states in which
nothing is on its way, and what decides them is what was on its way before. Unless one
of the four things the property excepts has happened, it has four parts. `ReportOK`: what is
being published is `lastPub1State`, and it is the relay's level or another report
follows. `SubscriptionOK`: a connection has its subscription, or it is on its way or
pending. `CountOK`: every echo that is counted has a place of its own on its way. `AgreeOK`:
a report is due, or the last thing told to the broker is the relay's level, or the
broker's last word is on its way behind as many levels as the board will swallow, so
that it is applied, or the board has yet to greet the broker. When nothing is on its
way, only the second is left. The counting is by order-preserving maps into
`Slots` (`Fits`), so that taking the first message or appending one is a map of
places (`FitsMap`), and no cardinality is needed. The one assumption,
`NoRetainedToggle`, is that of `RelayProofs`, and is needed: the broker would keep a TOG,
which is no level for the relay to agree with.

The calendar's invariant `Ind` has five parts beside the types. `Calls`: which
calls of `mdigitalWrite` the loop can be in at which step. `LockHeld`: who
drives a relay holds its lock, unless the lock was freed under the call.
`OffPaused`: when a user's OFF stands the timer is paused, and a call of the
calendar that would turn the relay on either has not taken the lock, or finds
it held. `Held`: what the calendar turned on has `hastimerrunning`, or is
about to be written by a user; and while the loop has cleared the flag, its OFF is
under way. `Listed`: what the loop has concluded of the second agrees with what is
ongoing. The last two give `NothingOutlastsItsEvent`, `OffPaused` gives
`StandingOffRespected`. Neither can be proved by itself: the first speaks of a state
with no call in progress, the second of the beginning of one, and what can go
wrong happens during the calls.

The rules' invariant `Inv` has five parts beside the types. `Present`: a rule that
is in the cache has a file, and a step of the suspension has its rule. `InStep`:
the cache is the file wherever nothing is under way, and else each copy on its way
(the loop's, the AsyncTCP task's) holds the file's contents, unless a save met
the loop; the invariant to check says nothing of the copies, from which the next
state of the cache is made. `OffInFile`: a rule that was switched off is off in
its file. `AllDriven`: the relay a rule's last command drove is at the level it asks for with the rule's
present result, unless another wrote it since; it speaks of the command and not of
the rule as it is saved now, and `FiredAgrees` is the case in which they are the same. `QuietKept`: the age of the last command is
the one the rule keeps. They give the four theorems of the runs' properties in order;
`SuspensionHolds` needs `InStep` as well.

The session's invariant `HealthInv` counts the misses of the health check. `Wanted`: no
connection is being opened during a check, so that nothing resets the counters in the
middle. `MissesAreLate`: while nothing was refused, the misses are those of the
checks in a row, and one more; and none are left after an echo. `FlagIsRefusals`: a flag
that is set although the echo came counts no more than was refused. The
parts hold of every step of a check, since the loop reads the count in one and
writes it in another (`loaded`).

All safety theorems of the WireGuard manager but the last rest on `Orderly`: unless two tasks started or stopped
this tunnel at once, a tunnel that is there was started, a task that starts
one is alone in it, finds none up to the adding of the interface and has one after it, and a probe is sent on a tunnel that stays up. On it
`Counted` says that the failures counted are the probes lost of this tunnel;
`TidyInv` that the former name servers are kept from before the interface is added,
are not a tunnel's, and that a route through the tunnel is set only with it; and
`ApplyInv` follows the configuration: the tunnel, or what a task starts it with, is
what the loop works by (`MadeFromLoaded`), and that is the file unless a save is not
over, not asked for or not read yet (`LoadedIsFile`, `SavingTears`). `MqttOpensByItsRoute`
rests on `ByDecision` instead: the route is the one decided while the
broker's name is looked up and until the connection is opened.

Only model-checked: every liveness property (`LockIsReleased`, `TopicsCatchUp`,
`TtlTurnsOff`, `CountdownStops`, `EchoesDieOut`, `Recovers`, `StaysDown`,
`FollowsCalendar`, `RuleActs`, `SyncsAgain`, `TunnelComesBack`)
and the fairness part of the refinement, which are out of the prover's reach, as
is ENABLED. Every safety property of a passing run is a theorem.

## 7. Not modelled

`Schedule_timer`, WiFi reconnection and the soft AP, the CT handover and the water
flow sensor are planned (section 2).
Conversion and presentation are left out: web pages, home-assistant discovery
messages, the display, logs, and parsing of configuration files. Numeric
filters and power computations are floating point. Of a relay's timers a TTL of 0 and the
topic that carries the time left (`ttl_update`) are left out. Libraries are modelled only as
far as a component sees them. Where their source is in the repository (AsyncMqttClient, AsyncTCP
and the WireGuard library) the definitions name its lines; FreeRTOS, lwIP, the
broker, the peer and the network are external. Modbus, Chronos and Bounce2 are used and not modelled. HomeKit and the mesh are not compiled in the
profile followed. PROJECT.json lists each with its reason, and the hazards no
property covers yet.
