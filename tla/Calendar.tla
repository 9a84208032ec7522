------------------------------ MODULE Calendar ------------------------------
(***************************************************************************)
(* The calendar of timer events (src/src/main.cpp, chronosInit,            *)
(* chronosevaluatetimers, serviceCalendar): once a second the loop task    *)
(* looks up the occurrences that are ongoing and drives their relays, and  *)
(* when none is ongoing it releases the relays a timer still holds.  The   *)
(* AsyncTCP task writes the same relays (MQTT and HTTP commands), pauses   *)
(* and resumes their timers and saves new timers, between any two steps.   *)
(*                                                                         *)
(* A write is Relay::mdigitalWrite() in three steps: take the lock, drive  *)
(* the pin, note whether the write pauses the timer.  What the write       *)
(* reports is left to RelayDrive.tla.                                      *)
(***************************************************************************)
EXTENDS Integers, Sequences

CONSTANTS
  Relays,       \* relay numbers
  Timers,       \* the saved timers: a sequence of [relay, start, finish]
  Day,          \* seconds in a day
  MaxSkip,      \* seconds between two evaluations, at most
  MaxEvents     \* bound: commands, saves, backward clock steps and restarts

ASSUME TimersAssumption ==
  /\ Day \in Nat \ {0}
  /\ MaxSkip \in Nat \ {0} /\ MaxEvents \in Nat
  /\ Timers \in Seq([relay : Relays, start : 0..Day - 1, finish : 1..Day])
  /\ \A i \in DOMAIN Timers : Timers[i].start < Timers[i].finish

LOW  == "LOW"
HIGH == "HIGH"
Levels == {LOW, HIGH}

(***************************************************************************)
(* Who turned a relay on: nobody, it is off; the calendar; a user; or the  *)
(* broker, which after a restart hands back, as a retained command, an ON  *)
(* that the calendar had written.  A user's ON handed back is his.         *)
(***************************************************************************)
Writers == {"nobody", "calendar", "user", "broker"}
Nobody == "nobody"

VARIABLES
  clock,                 \* now(), in seconds of the day
  ftimesynced,           \* the clock has been set since the restart
  enabled,               \* the timers enabled in the saved files
  MyCalendar,            \* the timers chronosInit() has loaded
  CalendarNotInitiated,  \* the timers are to be loaded (again)
  pin, lockupdate,       \* per relay: the level, the write lock
  hastimerrunning,       \* per relay: a timer holds it
  timerpaused,           \* per relay: its timer does not turn it on
  lpc,                   \* what the loop task is doing
  todo,                  \* the ongoing occurrences it has not looked at yet
  held,                  \* the relays it has yet to release
  rly,                   \* the relay it is turning off, if any
  writes,                \* task -> the mdigitalWrite() it is in, or NoWrite
  retained,              \* per relay: whose ON the broker has to hand back
  writer,                \* history: per relay, who turned it on
  offAsked,              \* history: per relay, a user's OFF still stands
  events                 \* bound: commands, saves, clock steps, restarts so far

relayVars    == <<pin, lockupdate, hastimerrunning, timerpaused, writer, offAsked>>
calendarVars == <<enabled, MyCalendar, CalendarNotInitiated>>
clockVars    == <<clock, ftimesynced>>
loopVars     == <<lpc, todo, held, rly>>
vars == <<relayVars, calendarVars, clockVars, loopVars, writes, retained, events>>

Tasks   == {"loop", "user"}
NoWrite == [stage |-> "none"]
Writing == [stage : {"take", "drive", "pause"}, relay : Relays, level : Levels,
            as : Writers, crossed : BOOLEAN]

LoopSteps == {"idle", "second", "occurrence", "off",
              "release", "released", "evaluated", "loaded"}

TypeOK ==
  /\ clock \in 0..Day - 1
  /\ ftimesynced \in BOOLEAN
  /\ enabled \subseteq DOMAIN Timers
  /\ MyCalendar \subseteq DOMAIN Timers
  /\ CalendarNotInitiated \in BOOLEAN
  /\ pin \in [Relays -> Levels]
  /\ lockupdate \in [Relays -> BOOLEAN]
  /\ hastimerrunning \in [Relays -> BOOLEAN]
  /\ timerpaused \in [Relays -> BOOLEAN]
  /\ lpc \in LoopSteps
  /\ todo \subseteq DOMAIN Timers
  /\ held \subseteq Relays
  /\ rly \subseteq Relays
  /\ writes \in [Tasks -> Writing \cup {NoWrite}]
  /\ retained \in [Relays -> Writers]
  /\ writer \in [Relays -> Writers]
  /\ offAsked \in [Relays -> BOOLEAN]
  /\ events \in 0..MaxEvents

Init ==
  /\ clock = 0
  /\ ftimesynced = TRUE
  /\ enabled = DOMAIN Timers
  /\ MyCalendar = DOMAIN Timers
  /\ CalendarNotInitiated = FALSE
  /\ pin = [r \in Relays |-> LOW]
  /\ lockupdate = [r \in Relays |-> FALSE]
  /\ hastimerrunning = [r \in Relays |-> FALSE]
  /\ timerpaused = [r \in Relays |-> FALSE]
  /\ lpc = "idle"
  /\ todo = {}
  /\ held = {}
  /\ rly = {}
  /\ writes = [t \in Tasks |-> NoWrite]
  /\ retained = [r \in Relays |-> Nobody]
  /\ writer = [r \in Relays |-> Nobody]
  /\ offAsked = [r \in Relays |-> FALSE]
  /\ events = 0

Event == events < MaxEvents /\ events' = events + 1

-----------------------------------------------------------------------------
(***************************************************************************)
(* Writes.                                                                 *)
(***************************************************************************)

\* Task t calls mdigitalWrite(): the test-and-set of the lock comes next.
WriteCall(r, level, as) ==
  [stage |-> "take", relay |-> r, level |-> level, as |-> as, crossed |-> FALSE]

Stage(t, stage) == writes[t].stage = stage

\* The test-and-set; the call w is dropped when the lock is held.
TestAndSet(t, w) ==
  /\ lockupdate' = [lockupdate EXCEPT ![w.relay] = TRUE]
  /\ writes' = [writes EXCEPT ![t] =
       IF lockupdate[w.relay] THEN NoWrite ELSE [w EXCEPT !.stage = "drive"]]

TakeLock ==
  /\ Stage("loop", "take")
  /\ TestAndSet("loop", writes["loop"])
  /\ UNCHANGED <<pin, hastimerrunning, timerpaused, writer, offAsked, calendarVars,
                 clockVars, loopVars, retained, events>>

DrivePin(t) ==
  LET w == writes[t] IN
  /\ Stage(t, "drive")
  /\ pin' = [pin EXCEPT ![w.relay] = w.level]
  /\ writer' = [writer EXCEPT ![w.relay] = IF w.level = HIGH THEN w.as ELSE Nobody]
  /\ writes' = [writes EXCEPT ![t].stage = "pause"]
  /\ UNCHANGED <<lockupdate, hastimerrunning, timerpaused, offAsked, calendarVars,
                 clockVars, loopVars, retained, events>>

\* A slip: a write can only end the pause, not begin it.
NotePauseOnlyEnds(t) ==
  LET w == writes[t]
      r == w.relay IN
  /\ Stage(t, "pause")
  /\ timerpaused' = [timerpaused EXCEPT ![r] =
       @ /\ (hastimerrunning[r] => w.level = LOW)]
  /\ offAsked' = IF hastimerrunning[r] /\ t = "user"
                   THEN [offAsked EXCEPT ![r] = (w.level = LOW /\ ~w.crossed)]
                   ELSE offAsked
  /\ writes' = [writes EXCEPT ![t] = NoWrite]
  /\ UNCHANGED <<pin, lockupdate, hastimerrunning, writer, calendarVars,
                 clockVars, loopVars, retained, events>>

(***************************************************************************)
(* A write to a relay that a timer holds pauses the timer, or resumes it.  *)
(* The history: a user's OFF stands from here on, unless the lock was      *)
(* taken from the call before it came here; his ON withdraws it.           *)
(***************************************************************************)
NotePause(t) ==
  LET w == writes[t]
      r == w.relay IN
  /\ Stage(t, "pause")
  /\ timerpaused' = IF hastimerrunning[r]
                      THEN [timerpaused EXCEPT ![r] = (w.level = LOW)]
                      ELSE timerpaused
  /\ offAsked' = IF hastimerrunning[r] /\ t = "user"
                   THEN [offAsked EXCEPT ![r] = (w.level = LOW /\ ~w.crossed)]
                   ELSE offAsked
  /\ writes' = [writes EXCEPT ![t] = NoWrite]
  /\ UNCHANGED <<pin, lockupdate, hastimerrunning, writer, calendarVars,
                 clockVars, loopVars, retained, events>>

Write(t) == DrivePin(t) \/ NotePause(t)

\* The calls that hold the lock of relay r lose it.
Crossed(r) == [t \in Tasks |->
  IF writes[t].stage \in {"drive", "pause"} /\ writes[t].relay = r
    THEN [writes[t] EXCEPT !.crossed = TRUE] ELSE writes[t]]

(***************************************************************************)
(* watch() clears the lock 10 ms after the write.  The time of the write   *)
(* is stored after the lock is taken, so the lock of a call that is still  *)
(* going on can be cleared too.                                            *)
(***************************************************************************)
FreeLock(r) ==
  /\ lpc \in {"idle", "second"}
  /\ lockupdate[r]
  /\ lockupdate' = [lockupdate EXCEPT ![r] = FALSE]
  /\ writes' = Crossed(r)
  /\ UNCHANGED <<pin, hastimerrunning, timerpaused, writer, offAsked, calendarVars,
                 clockVars, loopVars, retained, events>>

-----------------------------------------------------------------------------
(***************************************************************************)
(* The loop task.                                                          *)
(***************************************************************************)

\* Calendar::listOngoing(): an occurrence lasts from its start to before its finish.
Ongoing == {i \in MyCalendar : Timers[i].start <= clock /\ clock < Timers[i].finish}

\* Two slips: the second does not wrap at midnight, watch() frees no lock.
ReachNextDay(second) ==
  /\ lpc = "idle"
  /\ writes = [t \in Tasks |-> NoWrite]
  /\ clock' = IF second > Day THEN second % Day ELSE second
  /\ lockupdate' = [r \in Relays |-> FALSE]
  /\ lpc' = IF ftimesynced THEN "second" ELSE "idle"
  /\ UNCHANGED <<pin, hastimerrunning, timerpaused, writer, offAsked, calendarVars,
                 ftimesynced, todo, held, rly, writes, retained>>

ReachKeepsLocks(second) ==
  /\ lpc = "idle"
  /\ writes = [t \in Tasks |-> NoWrite]
  /\ clock' = second % Day
  /\ lpc' = IF ftimesynced THEN "second" ELSE "idle"
  /\ UNCHANGED <<relayVars, calendarVars, ftimesynced, todo, held, rly, writes,
                 retained>>

(***************************************************************************)
(* The next second the loop sees.  A write is a matter of microseconds and *)
(* watch() runs in every pass, so no call is under way when the second     *)
(* changes, and no lock is older than 10 ms.                               *)
(***************************************************************************)
Reach(second) ==
  /\ lpc = "idle"
  /\ writes = [t \in Tasks |-> NoWrite]
  /\ clock' = second % Day
  /\ lockupdate' = [r \in Relays |-> FALSE]
  /\ lpc' = IF ftimesynced THEN "second" ELSE "idle"
  /\ UNCHANGED <<pin, hastimerrunning, timerpaused, writer, offAsked, calendarVars,
                 ftimesynced, todo, held, rly, writes, retained>>

Tick     == (\E k \in 1..MaxSkip : Reach(clock + k)) /\ UNCHANGED events
StepBack == Event /\ Reach(clock + Day - 1)

\* The clock is set for the first time since the restart.
SetTime ==
  /\ ~ftimesynced
  /\ ftimesynced' = TRUE
  /\ UNCHANGED <<relayVars, calendarVars, clock, loopVars, writes, retained, events>>

\* chronosevaluatetimers() lists what is ongoing, or else whom to release.
Evaluate ==
  /\ lpc = "second"
  /\ todo' = Ongoing
  /\ held' = IF Ongoing = {} THEN {r \in Relays : hastimerrunning[r]} ELSE {}
  /\ lpc' = IF Ongoing = {} THEN "release" ELSE "occurrence"
  /\ UNCHANGED <<relayVars, calendarVars, clockVars, rly, writes, retained, events>>

\* The first seconds of an occurrence take the relay over and clear a pause.
Opens(e)  == e.start < clock /\ clock < e.start + 5
Closes(e) == clock = e.finish - 1
Holds(e)  == clock > e.start + 1
OpenWindow(e) ==
  /\ timerpaused' = [timerpaused EXCEPT ![e.relay] = @ /\ ~Opens(e)]
  /\ offAsked' = [offAsked EXCEPT ![e.relay] = @ /\ ~Opens(e)]

\* The loop calls mdigitalWrite(LOW) on r after clearing its lock.
ForceOff(r, next) ==
  /\ lockupdate' = [lockupdate EXCEPT ![r] = FALSE]
  /\ writes' = [Crossed(r) EXCEPT !["loop"] = WriteCall(r, LOW, "calendar")]
  /\ rly' = {r}
  /\ lpc' = next

\* An occurrence in its last second turns its relay off.
CloseOccurrence(i) ==
  LET e == Timers[i] IN
  /\ lpc = "occurrence" /\ writes["loop"] = NoWrite
  /\ i \in todo /\ Closes(e)
  /\ OpenWindow(e)
  /\ hastimerrunning' = [hastimerrunning EXCEPT ![e.relay] = @ \/ Opens(e)]
  /\ ForceOff(e.relay, "off")
  /\ todo' = todo \ {i}
  /\ UNCHANGED <<pin, writer, calendarVars, clockVars, held, retained, events>>

\* A slip: the timer holds the relay only when it has seen the occurrence open.
HoldFromOpening(i) ==
  LET e == Timers[i] IN
  /\ lpc = "occurrence" /\ writes["loop"] = NoWrite
  /\ i \in todo /\ ~Closes(e)
  /\ OpenWindow(e)
  /\ hastimerrunning' = [hastimerrunning EXCEPT ![e.relay] = @ \/ Opens(e)]
  /\ IF Holds(e) /\ pin[e.relay] = LOW /\ ~timerpaused'[e.relay]
       THEN writes' = [writes EXCEPT !["loop"] = WriteCall(e.relay, HIGH, "calendar")]
       ELSE UNCHANGED writes
  /\ todo' = todo \ {i}
  /\ UNCHANGED <<pin, lockupdate, writer, calendarVars, clockVars, lpc, held, rly,
                 retained, events>>

\* An occurrence under way takes its relay over and turns it on, unless paused.
HoldOccurrence(i) ==
  LET e == Timers[i] IN
  /\ lpc = "occurrence" /\ writes["loop"] = NoWrite
  /\ i \in todo /\ ~Closes(e)
  /\ OpenWindow(e)
  /\ hastimerrunning' = [hastimerrunning EXCEPT ![e.relay] = @ \/ Opens(e) \/ Holds(e)]
  /\ IF Holds(e) /\ pin[e.relay] = LOW /\ ~timerpaused'[e.relay]
       THEN writes' = [writes EXCEPT !["loop"] = WriteCall(e.relay, HIGH, "calendar")]
       ELSE UNCHANGED writes
  /\ todo' = todo \ {i}
  /\ UNCHANGED <<pin, lockupdate, writer, calendarVars, clockVars, lpc, held, rly,
                 retained, events>>

\* With nothing ongoing at all, the relays a timer holds are turned off.
ReleaseRelay(r) ==
  /\ lpc = "release"
  /\ r \in held
  /\ ForceOff(r, "released")
  /\ held' = held \ {r}
  /\ UNCHANGED <<pin, hastimerrunning, timerpaused, writer, offAsked, calendarVars,
                 clockVars, todo, retained, events>>

\* The write is done, or was dropped: the timer lets the relay go.
LetGo ==
  /\ lpc \in {"off", "released"} /\ writes["loop"] = NoWrite
  /\ hastimerrunning' = [r \in Relays |-> hastimerrunning[r] /\ r \notin rly]
  /\ timerpaused' = [r \in Relays |-> timerpaused[r] /\ r \notin rly]
  /\ offAsked' = [r \in Relays |-> offAsked[r] /\ r \notin rly]
  /\ lpc' = IF lpc = "off" THEN "occurrence" ELSE "release"
  /\ rly' = {}
  /\ UNCHANGED <<pin, lockupdate, writer, calendarVars, clockVars, todo, held, writes,
                 retained, events>>

Evaluated ==
  /\ \/ lpc = "occurrence" /\ todo = {} /\ writes["loop"] = NoWrite
     \/ lpc = "release" /\ held = {}
  /\ lpc' = "evaluated"
  /\ UNCHANGED <<relayVars, calendarVars, clockVars, todo, held, rly, writes, retained,
                 events>>

\* chronosInit() reads the files; then serviceCalendar() clears the request.
LoadCalendar ==
  /\ lpc = "evaluated" /\ CalendarNotInitiated
  /\ MyCalendar' = enabled
  /\ lpc' = "loaded"
  /\ UNCHANGED <<relayVars, enabled, CalendarNotInitiated, clockVars, todo, held, rly,
                 writes, retained, events>>

EndService ==
  /\ \/ lpc = "evaluated" /\ ~CalendarNotInitiated
     \/ lpc = "loaded"
  /\ CalendarNotInitiated' = FALSE
  /\ lpc' = "idle"
  /\ UNCHANGED <<relayVars, enabled, MyCalendar, clockVars, todo, held, rly, writes,
                 retained, events>>

LoopStep ==
  \/ TakeLock \/ Write("loop")
  \/ Evaluate
  \/ \E i \in DOMAIN Timers : CloseOccurrence(i) \/ HoldOccurrence(i)
  \/ \E r \in Relays : ReleaseRelay(r)
  \/ LetGo
  \/ Evaluated
  \/ LoadCalendar
  \/ EndService

-----------------------------------------------------------------------------
(***************************************************************************)
(* The AsyncTCP task.                                                      *)
(***************************************************************************)

\* An MQTT, HTTP or Modbus command writes the relay.
Command(r, level) ==
  /\ Event
  /\ writes["user"] = NoWrite
  /\ TestAndSet("user", WriteCall(r, level, "user"))
  /\ UNCHANGED <<pin, hastimerrunning, timerpaused, writer, offAsked, calendarVars,
                 clockVars, loopVars, retained>>

\* The broker hands back the ON it has kept over the restart.
OnRetained(r) ==
  /\ retained[r] # Nobody
  /\ writes["user"] = NoWrite
  /\ TestAndSet("user", WriteCall(r, HIGH, retained[r]))
  /\ retained' = [retained EXCEPT ![r] = Nobody]
  /\ UNCHANGED <<pin, hastimerrunning, timerpaused, writer, offAsked, calendarVars,
                 clockVars, loopVars, events>>

\* TimerControl.json pauses or resumes the relay's timer.
TimerControl(r, pause) ==
  /\ Event
  /\ timerpaused' = [timerpaused EXCEPT ![r] = pause]
  /\ offAsked' = [offAsked EXCEPT ![r] = @ /\ pause]
  /\ UNCHANGED <<pin, lockupdate, hastimerrunning, writer, calendarVars, clockVars,
                 loopVars, writes, retained>>

\* savetimer.html enables or disables a timer and has the calendar loaded again.
SaveTimer(i) ==
  /\ Event
  /\ enabled' = IF i \in enabled THEN enabled \ {i} ELSE enabled \cup {i}
  /\ CalendarNotInitiated' = TRUE
  /\ UNCHANGED <<relayVars, MyCalendar, clockVars, loopVars, writes, retained>>

(***************************************************************************)
(* A restart, at any point.  The relays come up off; the broker has kept   *)
(* the ON of each relay that was on.                                       *)
(***************************************************************************)
Restart ==
  /\ Event
  /\ retained' = [r \in Relays |->
       IF pin[r] = HIGH
         THEN IF writer[r] = "user" THEN "user" ELSE "broker"
         ELSE retained[r]]
  /\ pin' = [r \in Relays |-> LOW]
  /\ lockupdate' = [r \in Relays |-> FALSE]
  /\ hastimerrunning' = [r \in Relays |-> FALSE]
  /\ timerpaused' = [r \in Relays |-> FALSE]
  /\ writer' = [r \in Relays |-> Nobody]
  /\ offAsked' = [r \in Relays |-> FALSE]
  /\ writes' = [t \in Tasks |-> NoWrite]
  /\ lpc' = "idle" /\ todo' = {} /\ held' = {} /\ rly' = {}
  /\ ftimesynced' = FALSE
  /\ MyCalendar' = {}
  /\ CalendarNotInitiated' = TRUE
  /\ UNCHANGED <<clock, enabled>>

AsyncStep ==
  \/ Write("user")
  \/ \E r \in Relays : \/ \E level \in Levels : Command(r, level)
                       \/ \E pause \in BOOLEAN : TimerControl(r, pause)
                       \/ OnRetained(r)
  \/ \E i \in DOMAIN Timers : SaveTimer(i)

Next ==
  \/ LoopStep
  \/ AsyncStep
  \/ \E r \in Relays : FreeLock(r)
  \/ Tick
  \/ StepBack
  \/ SetTime
  \/ Restart

(***************************************************************************)
(* The loop keeps running, seconds keep passing, a call of mdigitalWrite() *)
(* ends, and a lost clock is set again.                                    *)
(***************************************************************************)
Spec ==
  /\ Init /\ [][Next]_vars
  /\ WF_vars(LoopStep) /\ WF_vars(Tick) /\ WF_vars(Write("user")) /\ WF_vars(SetTime)

-----------------------------------------------------------------------------
NoCalls == writes = [t \in Tasks |-> NoWrite]

(***************************************************************************)
(* When an evaluation has found nothing ongoing and no write is under way, *)
(* no relay is on that the calendar turned on: whatever seconds the loop   *)
(* missed, whatever timers were deleted while they held a relay, and       *)
(* whoever wrote the relay or held its lock meanwhile (main.cpp:1674).     *)
(***************************************************************************)
ReleasedWhenIdle ==
  lpc = "evaluated" /\ NoCalls /\ Ongoing = {} =>
    \A r \in Relays : pin[r] = HIGH => writer[r] # "calendar"

(***************************************************************************)
(* The calendar never turns on a relay that a user has turned off while a  *)
(* timer held it, until he turns it on again or resumes the timer, or the  *)
(* occurrence ends, or the first seconds of one take the relay over        *)
(* (RelayClass.cpp:438, main.cpp:1664).                                    *)
(***************************************************************************)
OffRespected ==
  [][\A r \in Relays :
       /\ writes["loop"] = NoWrite /\ writes'["loop"] # NoWrite
       /\ writes'["loop"].relay = r /\ writes'["loop"].level = HIGH
       => ~offAsked'[r]]_vars

(***************************************************************************)
(* Once commands, saves and restarts have ended, a relay with a loaded     *)
(* timer is turned on and off for ever, whatever pause, lock or missed     *)
(* second was left behind (main.cpp:1647-1668).                            *)
(***************************************************************************)
HasTimer(r) == \E i \in MyCalendar : Timers[i].relay = r
FollowsCalendar ==
  \A r \in Relays :
    <>[]HasTimer(r) => []<>(pin[r] = HIGH) /\ []<>(pin[r] = LOW)

(***************************************************************************)
(* What the comment at main.cpp:1675 says: with no event ongoing, a relay  *)
(* that a timer left on is released, even if a reboot missed the last      *)
(* second of the event.                                                    *)
(***************************************************************************)
ReleasedAfterReboot ==
  lpc = "evaluated" /\ ~CalendarNotInitiated /\ NoCalls /\ Ongoing = {} =>
    \A r \in Relays : pin[r] = HIGH => writer[r] = "user"
=============================================================================
