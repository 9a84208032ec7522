--------------------------- MODULE CalendarProofs ---------------------------
(***************************************************************************)
(* The calendar's safety, for every set of relays, every list of timers,   *)
(* every length of the day and every number of missed seconds and events.  *)
(***************************************************************************)
EXTENDS Calendar, TLAPS

Calling(t, r) == writes[t].stage \in {"take", "drive", "pause"} /\ writes[t].relay = r
InCall(t, r)  == writes[t].stage \in {"drive", "pause"} /\ writes[t].relay = r

(* The loop calls mdigitalWrite() only while it evaluates: HIGH for a      *)
(* relay that a timer holds, LOW for the relay it is turning off.  The     *)
(* calls of the AsyncTCP task are not the calendar's.                      *)
Calls ==
  /\ lpc \notin {"occurrence", "off", "released"} => writes["loop"] = NoWrite
  /\ writes["loop"].stage # "none" =>
       /\ writes["loop"].as = "calendar"
       /\ writes["loop"].level = HIGH =>
            lpc = "occurrence" /\ hastimerrunning[writes["loop"].relay]
       /\ writes["loop"].level = LOW =>
            lpc \in {"off", "released"} /\ writes["loop"].relay \in rly
  /\ writes["user"].stage # "take"
  /\ writes["user"].stage # "none" => writes["user"].as # "calendar"
  /\ \A r \in Relays : retained[r] # "calendar"
  /\ rly # {} => lpc \in {"off", "released"}
  /\ \A r \in rly : rly = {r}

(* Who drives a relay holds its lock, except a call that lost it.          *)
LockHeld ==
  \A r \in Relays :
    /\ InCall("loop", r) => lockupdate[r]
    /\ InCall("user", r) /\ ~writes["user"].crossed => lockupdate[r]
    /\ InCall("loop", r) /\ InCall("user", r) => writes["user"].crossed

(* A standing OFF has paused the timer, and no write of the calendar can   *)
(* end the pause: it has not begun, or finds the lock held.                *)
OffPaused ==
  \A r \in Relays : offAsked[r] =>
    /\ timerpaused[r]
    /\ Calling("loop", r) /\ writes["loop"].level = HIGH =>
         writes["loop"].stage = "take" /\ lockupdate[r]

(* A relay that the calendar turned on is held by a timer, or is about to  *)
(* be written by a user; one that is being turned off is off once the      *)
(* write is through, or about to be written by a user who holds its lock.  *)
CalendarOn(r) == pin[r] = HIGH /\ writer[r] = "calendar"
Rewritten(r)  == writes["user"].stage = "drive" /\ writes["user"].relay = r
Held ==
  /\ \A r \in Relays : CalendarOn(r) => hastimerrunning[r] \/ Rewritten(r)
  /\ \A r \in rly :
       CalendarOn(r) =>
         \/ Rewritten(r)
         \/ writes["loop"].stage = "take" /\ ~lockupdate[r]
         \/ writes["loop"].stage = "drive"

(* What the loop has found out about the occurrences of this second.       *)
Listed ==
  /\ lpc \in {"occurrence", "off"} => Ongoing # {}
  /\ lpc \in {"release", "released"} =>
       Ongoing = {} /\ \A r \in Relays : hastimerrunning[r] => r \in held \cup rly
  /\ lpc = "evaluated" /\ Ongoing = {} => \A r \in Relays : ~hastimerrunning[r]

Ind == TypeOK /\ Calls /\ LockHeld /\ OffPaused /\ Held /\ Listed

USE DEF LOW, HIGH, Levels, Nobody, NoWrite, Tasks, relayVars, calendarVars,
        clockVars, loopVars

(* The steps of the specification, one by one.  A second is reached by     *)
(* Tick or StepBack.                                                       *)
LEMMA Steps ==
  ASSUME [Next]_vars, TypeOK
  PROVE  \/ TakeLock
         \/ \E t \in Tasks : DrivePin(t)
         \/ \E t \in Tasks : NotePause(t)
         \/ Evaluate
         \/ \E i \in DOMAIN Timers : CloseOccurrence(i)
         \/ \E i \in DOMAIN Timers : HoldOccurrence(i)
         \/ \E r \in Relays : ReleaseRelay(r)
         \/ LetGo
         \/ Evaluated
         \/ LoadCalendar
         \/ EndService
         \/ \E r \in Relays, level \in Levels : Command(r, level)
         \/ \E r \in Relays : OnRetained(r)
         \/ \E r \in Relays, pause \in BOOLEAN : TimerControl(r, pause)
         \/ \E i \in DOMAIN Timers : SaveTimer(i)
         \/ \E r \in Relays : FreeLock(r)
         \/ \E second \in Nat : Reach(second) /\ events' \in 0..MaxEvents
         \/ SetTime
         \/ Restart
         \/ UNCHANGED vars
<1>1. ASSUME Tick \/ StepBack
      PROVE  \E second \in Nat : Reach(second) /\ events' \in 0..MaxEvents
  <2>1. CASE Tick
    <3>1. PICK k \in 1..MaxSkip : Reach(clock + k)
      BY <2>1 DEF Tick
    <3>2. clock + k \in Nat
      BY TimersAssumption DEF TypeOK
    <3> QED BY <2>1, <3>1, <3>2 DEF Tick, TypeOK
  <2>2. CASE StepBack
    <3>1. clock + Day - 1 \in Nat
      BY TimersAssumption DEF TypeOK
    <3>2. events' \in 0..MaxEvents
      BY <2>2, TimersAssumption DEF StepBack, Event, TypeOK
    <3> QED BY <2>2, <3>1, <3>2 DEF StepBack
  <2> QED BY <1>1, <2>1, <2>2
<1> QED
  BY <1>1 DEF Next, LoopStep, AsyncStep, Write

(* The records of calls.                                                   *)
LEMMA CallTyped ==
  ASSUME NEW w \in Writing, NEW s \in {"take", "drive", "pause"}, NEW b \in BOOLEAN
  PROVE  /\ [w EXCEPT !.stage = s] \in Writing
         /\ [w EXCEPT !.crossed = b] \in Writing
  BY DEF Writing

LEMMA WriteCallTyped ==
  ASSUME NEW r \in Relays, NEW level \in Levels, NEW as \in Writers
  PROVE  WriteCall(r, level, as) \in Writing
  BY DEF Writing, WriteCall

LEMMA CallInProgress ==
  ASSUME TypeOK, NEW t \in Tasks, writes[t].stage # "none"
  PROVE  /\ writes[t] \in Writing
         /\ writes[t].relay \in Relays
         /\ writes[t].level \in Levels
         /\ writes[t].as \in Writers
         /\ writes[t].crossed \in BOOLEAN
<1>1. writes[t] \in Writing
  BY DEF TypeOK
<1> QED BY <1>1 DEF Writing

(* The test-and-set and the clearing of a lock, and what becomes of calls. *)
LEMMA TestAndSetTyped ==
  ASSUME TypeOK, NEW t \in Tasks, NEW w \in Writing, TestAndSet(t, w)
  PROVE  /\ lockupdate' \in [Relays -> BOOLEAN]
         /\ writes' \in [Tasks -> Writing \cup {NoWrite}]
<1>1. [w EXCEPT !.stage = "drive"] \in Writing
  BY CallTyped
<1>2. w.relay \in Relays
  BY DEF Writing
<1> QED BY <1>1, <1>2 DEF TestAndSet, TypeOK

LEMMA CrossedTyped ==
  ASSUME TypeOK, NEW r \in Relays
  PROVE  Crossed(r) \in [Tasks -> Writing \cup {NoWrite}]
<1>1. ASSUME NEW t \in Tasks PROVE Crossed(r)[t] \in Writing \cup {NoWrite}
  <2>1. CASE writes[t].stage \in {"drive", "pause"} /\ writes[t].relay = r
    <3>1. writes[t] \in Writing
      BY <2>1, CallInProgress
    <3>2. [writes[t] EXCEPT !.crossed = TRUE] \in Writing
      BY <3>1, CallTyped
    <3> QED BY <2>1, <3>2 DEF Crossed
  <2>2. CASE ~(writes[t].stage \in {"drive", "pause"} /\ writes[t].relay = r)
    BY <2>2 DEF Crossed, TypeOK
  <2> QED BY <2>1, <2>2
<1> QED BY <1>1 DEF Crossed

LEMMA ForceOffTyped ==
  ASSUME TypeOK, NEW r \in Relays, NEW next \in LoopSteps, ForceOff(r, next)
  PROVE  /\ lockupdate' \in [Relays -> BOOLEAN]
         /\ writes' \in [Tasks -> Writing \cup {NoWrite}]
         /\ rly' \subseteq Relays
         /\ lpc' \in LoopSteps
<1>1. WriteCall(r, LOW, "calendar") \in Writing
  BY WriteCallTyped DEF Writers
<1> QED BY <1>1, CrossedTyped DEF ForceOff, TypeOK

LEMMA TimerRelay ==
  ASSUME NEW i \in DOMAIN Timers
  PROVE  Timers[i].relay \in Relays
<1> DEFINE T == [relay : Relays, start : 0..Day - 1, finish : 1..Day]
<1>1. Timers \in Seq(T)
  BY TimersAssumption
<1>2. Timers[i] \in T
  <2> HIDE DEF T
  <2> QED BY <1>1
<1> QED BY <1>2

(* Every step keeps the types.                                             *)
LEMMA TypeKept ==
  ASSUME TypeOK, [Next]_vars
  PROVE  TypeOK'
<1>1. CASE TakeLock
  <2>1. writes["loop"] \in Writing
    BY <1>1, CallInProgress DEF TakeLock, Stage
  <2>2. TestAndSet("loop", writes["loop"])
    BY <1>1 DEF TakeLock
  <2> QED BY <1>1, <2>1, <2>2, TestAndSetTyped DEF TakeLock, TypeOK, Ongoing
<1>2. ASSUME NEW t \in Tasks, DrivePin(t) PROVE TypeOK'
  <2>1. writes[t] \in Writing /\ writes[t].relay \in Relays
          /\ writes[t].level \in Levels /\ writes[t].as \in Writers
    BY <1>2, CallInProgress DEF DrivePin, Stage
  <2>2. writes' \in [Tasks -> Writing \cup {NoWrite}]
    BY <1>2, <2>1, CallTyped DEF DrivePin, TypeOK
  <2> QED BY <1>2, <2>1, <2>2 DEF DrivePin, TypeOK, Writers
<1>3. ASSUME NEW t \in Tasks, NotePause(t) PROVE TypeOK'
  BY <1>3 DEF NotePause, TypeOK
<1>4. CASE Evaluate
  BY <1>4 DEF Evaluate, Ongoing, TypeOK, LoopSteps, Writers
<1>5. ASSUME NEW i \in DOMAIN Timers, CloseOccurrence(i) PROVE TypeOK'
  <2>1. ForceOff(Timers[i].relay, "off") /\ Timers[i].relay \in Relays
    BY <1>5, TimerRelay DEF CloseOccurrence
  <2>2. "off" \in LoopSteps
    BY DEF LoopSteps
  <2> QED BY <1>5, <2>1, <2>2, ForceOffTyped
          DEF CloseOccurrence, OpenWindow, TypeOK
<1>6. ASSUME NEW i \in DOMAIN Timers, HoldOccurrence(i) PROVE TypeOK'
  <2>1. Timers[i].relay \in Relays
    BY TimerRelay
  <2>2. WriteCall(Timers[i].relay, HIGH, "calendar") \in Writing
    BY <2>1, WriteCallTyped DEF Writers
  <2>3. writes' \in [Tasks -> Writing \cup {NoWrite}]
    BY <1>6, <2>2 DEF HoldOccurrence, TypeOK
  <2> QED BY <1>6, <2>1, <2>3 DEF HoldOccurrence, OpenWindow, TypeOK
<1>7. ASSUME NEW r \in Relays, ReleaseRelay(r) PROVE TypeOK'
  <2>1. "released" \in LoopSteps
    BY DEF LoopSteps
  <2> QED BY <1>7, <2>1, ForceOffTyped DEF ReleaseRelay, TypeOK
<1>8. CASE LetGo
  BY <1>8 DEF LetGo, TypeOK, LoopSteps, Writers
<1>9. CASE Evaluated
  BY <1>9 DEF Evaluated, TypeOK, LoopSteps, Writers
<1>10. CASE LoadCalendar
  BY <1>10 DEF LoadCalendar, TypeOK, LoopSteps, Writers
<1>11. CASE EndService
  BY <1>11 DEF EndService, TypeOK, LoopSteps, Writers
<1>12. ASSUME NEW r \in Relays, NEW level \in Levels, Command(r, level)
      PROVE  TypeOK'
  <2>1. WriteCall(r, level, "user") \in Writing
    BY WriteCallTyped DEF Writers
  <2>2. TestAndSet("user", WriteCall(r, level, "user"))
    BY <1>12 DEF Command
  <2>3. events' \in 0..MaxEvents
    BY <1>12, TimersAssumption DEF Command, Event, TypeOK
  <2> QED BY <1>12, <2>1, <2>2, <2>3, TestAndSetTyped DEF Command, TypeOK
<1>13. ASSUME NEW r \in Relays, OnRetained(r) PROVE TypeOK'
  <2>1. WriteCall(r, HIGH, retained[r]) \in Writing
    BY WriteCallTyped DEF TypeOK
  <2>2. TestAndSet("user", WriteCall(r, HIGH, retained[r]))
    BY <1>13 DEF OnRetained
  <2> QED BY <1>13, <2>1, <2>2, TestAndSetTyped DEF OnRetained, TypeOK, Writers
<1>14. ASSUME NEW r \in Relays, NEW pause \in BOOLEAN, TimerControl(r, pause)
      PROVE  TypeOK'
  BY <1>14, TimersAssumption DEF TimerControl, Event, TypeOK, LoopSteps, Writers
<1>15. ASSUME NEW i \in DOMAIN Timers, SaveTimer(i) PROVE TypeOK'
  BY <1>15, TimersAssumption DEF SaveTimer, Event, TypeOK, LoopSteps, Writers
<1>16. ASSUME NEW r \in Relays, FreeLock(r) PROVE TypeOK'
  BY <1>16, CrossedTyped DEF FreeLock, TypeOK
<1>17. ASSUME NEW second \in Nat, Reach(second), events' \in 0..MaxEvents
      PROVE  TypeOK'
  BY <1>17, TimersAssumption DEF Reach, TypeOK, LoopSteps, Writers
<1>18. CASE SetTime
  BY <1>18 DEF SetTime, TypeOK, LoopSteps, Writers
<1>19. CASE Restart
  <2>1. retained' \in [Relays -> Writers]
    BY <1>19 DEF Restart, TypeOK, Writers
  <2>2. events' \in 0..MaxEvents
    BY <1>19, TimersAssumption DEF Restart, Event, TypeOK
  <2>3. writes' \in [Tasks -> Writing \cup {NoWrite}]
    BY <1>19 DEF Restart
  <2> QED BY <1>19, <2>1, <2>2, <2>3 DEF Restart, TypeOK, LoopSteps, Writers
<1>20. CASE UNCHANGED vars
  BY <1>20 DEF vars, TypeOK
<1> QED
  BY Steps, <1>1, <1>2, <1>3, <1>4, <1>5, <1>6, <1>7, <1>8, <1>9, <1>10, <1>11,
     <1>12, <1>13, <1>14, <1>15, <1>16, <1>17, <1>18, <1>19, <1>20, Zenon

LEMMA InitTyped == Init => TypeOK
<1> SUFFICES ASSUME Init PROVE TypeOK
  OBVIOUS
<1>1. clock \in 0..Day - 1 /\ events \in 0..MaxEvents
  BY TimersAssumption DEF Init
<1>2. writes \in [Tasks -> Writing \cup {NoWrite}]
  BY DEF Init
<1>3. /\ lpc \in LoopSteps
      /\ retained \in [Relays -> Writers] /\ writer \in [Relays -> Writers]
  BY DEF Init, LoopSteps, Writers
<1> QED BY <1>1, <1>2, <1>3 DEF Init, TypeOK

(* In every state every variable has its type.                             *)
THEOREM TypeCorrect == Spec => []TypeOK
<1>1. TypeOK /\ [Next]_vars => TypeOK'
  BY TypeKept
<1> QED BY <1>1, InitTyped, PTL DEF Spec

(* What ForceOff() does to the calls and the lock.                         *)
LEMMA ForceOffCalls ==
  ASSUME TypeOK, NEW r \in Relays, NEW next, ForceOff(r, next)
  PROVE  /\ writes'["loop"] = WriteCall(r, LOW, "calendar")
         /\ writes'["loop"].stage = "take" /\ writes'["loop"].relay = r
         /\ writes'["loop"].level = LOW /\ writes'["loop"].as = "calendar"
         /\ writes'["user"].stage = writes["user"].stage
         /\ writes["user"].stage # "none" =>
              /\ writes'["user"].relay = writes["user"].relay
              /\ writes'["user"].level = writes["user"].level
              /\ writes'["user"].as = writes["user"].as
              /\ writes["user"].crossed => writes'["user"].crossed
         /\ InCall("user", r) => writes'["user"].crossed
         /\ \A q \in Relays \ {r} :
              /\ lockupdate'[q] = lockupdate[q]
              /\ InCall("user", q) =>
                   writes'["user"].crossed = writes["user"].crossed
         /\ ~lockupdate'[r]
         /\ rly' = {r} /\ lpc' = next
<1>1. writes'["loop"] = WriteCall(r, LOW, "calendar")
  BY DEF ForceOff, Crossed
<1>2. /\ lpc' = next /\ rly' = {r} /\ ~lockupdate'[r]
      /\ \A q \in Relays \ {r} : lockupdate'[q] = lockupdate[q]
  BY DEF ForceOff, TypeOK
<1>3. writes'["user"] = Crossed(r)["user"]
  BY DEF ForceOff, Crossed
<1>4. CASE InCall("user", r)
  <2>1. writes["user"] \in Writing
    BY <1>4, CallInProgress DEF InCall
  <2>2. writes'["user"] = [writes["user"] EXCEPT !.crossed = TRUE]
    BY <1>3, <1>4 DEF Crossed, InCall
  <2>3. /\ writes'["user"].stage = writes["user"].stage
        /\ writes'["user"].relay = writes["user"].relay
        /\ writes'["user"].level = writes["user"].level
        /\ writes'["user"].as = writes["user"].as
        /\ writes'["user"].crossed
    BY <2>1, <2>2 DEF Writing
  <2>4. \A q \in Relays \ {r} : ~InCall("user", q)
    BY <1>4 DEF InCall
  <2>5. /\ writes'["loop"].stage = "take" /\ writes'["loop"].relay = r
        /\ writes'["loop"].level = LOW /\ writes'["loop"].as = "calendar"
    BY <1>1 DEF WriteCall
  <2> QED BY <1>1, <1>2, <2>3, <2>4, <2>5, Zenon
<1>5. CASE ~InCall("user", r)
  <2>1. writes'["user"] = writes["user"]
    BY <1>3, <1>5 DEF Crossed, InCall
  <2> QED BY <1>1, <1>2, <1>5, <2>1 DEF WriteCall
<1> QED BY <1>4, <1>5

(* Every step keeps the calls in their places.                             *)
LEMMA CallsKept ==
  ASSUME TypeOK, Calls, [Next]_vars
  PROVE  Calls'
<1>1. CASE TakeLock
  BY <1>1 DEF TakeLock, TestAndSet, Stage, Calls, TypeOK, vars
<1>2. ASSUME NEW t \in Tasks, DrivePin(t) PROVE Calls'
  BY <1>2 DEF DrivePin, Stage, Calls, TypeOK, vars
<1>3. ASSUME NEW t \in Tasks, NotePause(t) PROVE Calls'
  BY <1>3 DEF NotePause, Stage, Calls, TypeOK, vars
<1>4. CASE Evaluate
  BY <1>4 DEF Evaluate, Calls, TypeOK, vars
<1>5. ASSUME NEW i \in DOMAIN Timers, CloseOccurrence(i) PROVE Calls'
  <2>1. ForceOff(Timers[i].relay, "off") /\ Timers[i].relay \in Relays
    BY <1>5, TimerRelay DEF CloseOccurrence
  <2> QED BY <1>5, <2>1, ForceOffCalls
          DEF CloseOccurrence, OpenWindow, Calls, TypeOK
<1>6. ASSUME NEW i \in DOMAIN Timers, HoldOccurrence(i) PROVE Calls'
  <2> DEFINE e == Timers[i]
  <2>1. e.relay \in Relays
    BY TimerRelay
  <2>2. CASE Holds(e) /\ pin[e.relay] = LOW /\ ~timerpaused'[e.relay]
    <3>1. writes' = [writes EXCEPT !["loop"] = WriteCall(e.relay, HIGH, "calendar")]
      BY <1>6, <2>2 DEF HoldOccurrence
    <3>2. hastimerrunning'[e.relay]
      BY <1>6, <2>1, <2>2 DEF HoldOccurrence, TypeOK
    <3>3. /\ writes'["loop"] = WriteCall(e.relay, HIGH, "calendar")
          /\ writes'["user"] = writes["user"]
      BY <3>1 DEF TypeOK
    <3> QED BY <1>6, <3>2, <3>3 DEF HoldOccurrence, Calls, WriteCall
  <2>3. CASE ~(Holds(e) /\ pin[e.relay] = LOW /\ ~timerpaused'[e.relay])
    <3>1. writes' = writes
      BY <1>6, <2>3 DEF HoldOccurrence
    <3> QED BY <1>6, <3>1 DEF HoldOccurrence, Calls, TypeOK
  <2> QED BY <2>2, <2>3
<1>7. ASSUME NEW r \in Relays, ReleaseRelay(r) PROVE Calls'
  <2>1. ForceOff(r, "released") /\ r \in Relays
    BY <1>7 DEF ReleaseRelay
  <2> QED BY <1>7, <2>1, ForceOffCalls DEF ReleaseRelay, Calls, TypeOK
<1>8. CASE LetGo
  BY <1>8 DEF LetGo, Calls, TypeOK, vars
<1>9. CASE Evaluated
  BY <1>9 DEF Evaluated, Calls, TypeOK, vars
<1>10. CASE LoadCalendar
  BY <1>10 DEF LoadCalendar, Calls, TypeOK, vars
<1>11. CASE EndService
  BY <1>11 DEF EndService, Calls, TypeOK, vars
<1>12. ASSUME NEW r \in Relays, NEW level \in Levels, Command(r, level)
      PROVE  Calls'
  BY <1>12 DEF Command, TestAndSet, WriteCall, Event, Calls, TypeOK, vars
<1>13. ASSUME NEW r \in Relays, OnRetained(r) PROVE Calls'
  BY <1>13 DEF OnRetained, TestAndSet, WriteCall, Calls, TypeOK, vars
<1>14. ASSUME NEW r \in Relays, NEW pause \in BOOLEAN, TimerControl(r, pause)
      PROVE  Calls'
  BY <1>14 DEF TimerControl, Event, Calls, TypeOK, vars
<1>15. ASSUME NEW i \in DOMAIN Timers, SaveTimer(i) PROVE Calls'
  BY <1>15 DEF SaveTimer, Event, Calls, TypeOK, vars
<1>16. ASSUME NEW r \in Relays, FreeLock(r) PROVE Calls'
  BY <1>16 DEF FreeLock, Crossed, Calls, TypeOK, vars
<1>17. ASSUME NEW second \in Nat, Reach(second), events' \in 0..MaxEvents
      PROVE  Calls'
  BY <1>17 DEF Reach, Calls, TypeOK, vars
<1>18. CASE SetTime
  BY <1>18 DEF SetTime, Calls, TypeOK, vars
<1>19. CASE Restart
  BY <1>19 DEF Restart, Event, Calls, TypeOK, vars
<1>20. CASE UNCHANGED vars
  BY <1>20 DEF Calls, TypeOK, vars
<1> QED
  BY Steps, <1>1, <1>2, <1>3, <1>4, <1>5, <1>6, <1>7, <1>8, <1>9, <1>10, <1>11,
     <1>12, <1>13, <1>14, <1>15, <1>16, <1>17, <1>18, <1>19, <1>20, Zenon

(* Every step keeps the locks with the calls that drive.                   *)
LEMMA LockHeldKept ==
  ASSUME TypeOK, Calls, LockHeld, [Next]_vars
  PROVE  LockHeld'
<1>1. CASE TakeLock
  BY <1>1 DEF TakeLock, TestAndSet, Stage, Calls, LockHeld, InCall, TypeOK, vars
<1>2. ASSUME NEW t \in Tasks, DrivePin(t) PROVE LockHeld'
  BY <1>2 DEF DrivePin, Stage, Calls, LockHeld, InCall, TypeOK, vars
<1>3. ASSUME NEW t \in Tasks, NotePause(t) PROVE LockHeld'
  BY <1>3 DEF NotePause, Stage, Calls, LockHeld, InCall, TypeOK, vars
<1>4. CASE Evaluate
  BY <1>4 DEF Evaluate, Calls, LockHeld, InCall, TypeOK, vars
<1>5. ASSUME NEW i \in DOMAIN Timers, CloseOccurrence(i) PROVE LockHeld'
  <2>1. ForceOff(Timers[i].relay, "off") /\ Timers[i].relay \in Relays
    BY <1>5, TimerRelay DEF CloseOccurrence
  <2> QED BY <1>5, <2>1, ForceOffCalls
          DEF CloseOccurrence, OpenWindow, Calls, LockHeld, InCall
<1>6. ASSUME NEW i \in DOMAIN Timers, HoldOccurrence(i) PROVE LockHeld'
  BY <1>6
  DEF HoldOccurrence, OpenWindow, WriteCall, Calls, LockHeld, InCall, TypeOK,
      vars
<1>7. ASSUME NEW r \in Relays, ReleaseRelay(r) PROVE LockHeld'
  <2>1. ForceOff(r, "released") /\ r \in Relays
    BY <1>7 DEF ReleaseRelay
  <2> QED BY <1>7, <2>1, ForceOffCalls DEF ReleaseRelay, Calls, LockHeld, InCall
<1>8. CASE LetGo
  BY <1>8 DEF LetGo, Calls, LockHeld, InCall, TypeOK, vars
<1>9. CASE Evaluated
  BY <1>9 DEF Evaluated, Calls, LockHeld, InCall, TypeOK, vars
<1>10. CASE LoadCalendar
  BY <1>10 DEF LoadCalendar, Calls, LockHeld, InCall, TypeOK, vars
<1>11. CASE EndService
  BY <1>11 DEF EndService, Calls, LockHeld, InCall, TypeOK, vars
<1>12. ASSUME NEW r \in Relays, NEW level \in Levels, Command(r, level)
      PROVE  LockHeld'
  BY <1>12
  DEF Command, TestAndSet, WriteCall, Event, Calls, LockHeld, InCall, TypeOK,
      vars
<1>13. ASSUME NEW r \in Relays, OnRetained(r) PROVE LockHeld'
  BY <1>13
  DEF OnRetained, TestAndSet, WriteCall, Calls, LockHeld, InCall, TypeOK, vars
<1>14. ASSUME NEW r \in Relays, NEW pause \in BOOLEAN, TimerControl(r, pause)
      PROVE  LockHeld'
  BY <1>14 DEF TimerControl, Event, Calls, LockHeld, InCall, TypeOK, vars
<1>15. ASSUME NEW i \in DOMAIN Timers, SaveTimer(i) PROVE LockHeld'
  BY <1>15 DEF SaveTimer, Event, Calls, LockHeld, InCall, TypeOK, vars
<1>16. ASSUME NEW r \in Relays, FreeLock(r) PROVE LockHeld'
  BY <1>16 DEF FreeLock, Crossed, Calls, LockHeld, InCall, TypeOK, vars
<1>17. ASSUME NEW second \in Nat, Reach(second), events' \in 0..MaxEvents
      PROVE  LockHeld'
  BY <1>17 DEF Reach, Calls, LockHeld, InCall, TypeOK, vars
<1>18. CASE SetTime
  BY <1>18 DEF SetTime, Calls, LockHeld, InCall, TypeOK, vars
<1>19. CASE Restart
  BY <1>19 DEF Restart, Event, Calls, LockHeld, InCall, TypeOK, vars
<1>20. CASE UNCHANGED vars
  BY <1>20 DEF Calls, LockHeld, InCall, TypeOK, vars
<1> QED
  BY Steps, <1>1, <1>2, <1>3, <1>4, <1>5, <1>6, <1>7, <1>8, <1>9, <1>10, <1>11,
     <1>12, <1>13, <1>14, <1>15, <1>16, <1>17, <1>18, <1>19, <1>20, Zenon

(* Every step keeps a standing OFF in force.                               *)
LEMMA OffPausedKept ==
  ASSUME TypeOK, Calls, LockHeld, OffPaused, [Next]_vars
  PROVE  OffPaused'
<1>1. CASE TakeLock
  BY <1>1
  DEF TakeLock, TestAndSet, Stage, Calls, LockHeld, OffPaused, InCall, Calling,
      TypeOK, vars
<1>2. ASSUME NEW t \in Tasks, DrivePin(t) PROVE OffPaused'
  BY <1>2
  DEF DrivePin, Stage, Calls, LockHeld, OffPaused, InCall, Calling, TypeOK, vars
<1>3. ASSUME NEW t \in Tasks, NotePause(t) PROVE OffPaused'
  <2>1. writes[t].relay \in Relays /\ writes[t].level \in Levels
    BY <1>3, CallInProgress DEF NotePause, Stage
  <2>2. CASE t = "user"
    BY <1>3, <2>1, <2>2
    DEF NotePause, Stage, Calls, LockHeld, OffPaused, InCall, Calling, TypeOK
  <2>3. CASE t = "loop"
    BY <1>3, <2>1, <2>3 DEF NotePause, Stage, Calls, OffPaused, Calling, TypeOK
  <2> QED BY <2>2, <2>3
<1>4. CASE Evaluate
  BY <1>4
  DEF Evaluate, Calls, LockHeld, OffPaused, InCall, Calling, TypeOK, vars
<1>5. ASSUME NEW i \in DOMAIN Timers, CloseOccurrence(i) PROVE OffPaused'
  BY <1>5
  DEF CloseOccurrence, OpenWindow, ForceOff, WriteCall, Crossed, Calls,
      LockHeld, OffPaused, InCall, Calling, TypeOK, vars
<1>6. ASSUME NEW i \in DOMAIN Timers, HoldOccurrence(i) PROVE OffPaused'
  BY <1>6
  DEF HoldOccurrence, OpenWindow, WriteCall, Calls, LockHeld, OffPaused, InCall,
      Calling, TypeOK, vars
<1>7. ASSUME NEW r \in Relays, ReleaseRelay(r) PROVE OffPaused'
  BY <1>7
  DEF ReleaseRelay, ForceOff, WriteCall, Crossed, Calls, LockHeld, OffPaused,
      InCall, Calling, TypeOK, vars
<1>8. CASE LetGo
  BY <1>8 DEF LetGo, Calls, LockHeld, OffPaused, InCall, Calling, TypeOK, vars
<1>9. CASE Evaluated
  BY <1>9
  DEF Evaluated, Calls, LockHeld, OffPaused, InCall, Calling, TypeOK, vars
<1>10. CASE LoadCalendar
  BY <1>10
  DEF LoadCalendar, Calls, LockHeld, OffPaused, InCall, Calling, TypeOK, vars
<1>11. CASE EndService
  BY <1>11
  DEF EndService, Calls, LockHeld, OffPaused, InCall, Calling, TypeOK, vars
<1>12. ASSUME NEW r \in Relays, NEW level \in Levels, Command(r, level)
      PROVE  OffPaused'
  BY <1>12
  DEF Command, TestAndSet, WriteCall, Event, Calls, LockHeld, OffPaused, InCall,
      Calling, TypeOK, vars
<1>13. ASSUME NEW r \in Relays, OnRetained(r) PROVE OffPaused'
  BY <1>13
  DEF OnRetained, TestAndSet, WriteCall, Calls, LockHeld, OffPaused, InCall,
      Calling, TypeOK, vars
<1>14. ASSUME NEW r \in Relays, NEW pause \in BOOLEAN, TimerControl(r, pause)
      PROVE  OffPaused'
  BY <1>14
  DEF TimerControl, Event, Calls, LockHeld, OffPaused, InCall, Calling, TypeOK,
      vars
<1>15. ASSUME NEW i \in DOMAIN Timers, SaveTimer(i) PROVE OffPaused'
  BY <1>15
  DEF SaveTimer, Event, Calls, LockHeld, OffPaused, InCall, Calling, TypeOK,
      vars
<1>16. ASSUME NEW r \in Relays, FreeLock(r) PROVE OffPaused'
  BY <1>16
  DEF FreeLock, Crossed, Calls, LockHeld, OffPaused, InCall, Calling, TypeOK,
      vars
<1>17. ASSUME NEW second \in Nat, Reach(second), events' \in 0..MaxEvents
      PROVE  OffPaused'
  BY <1>17 DEF Reach, Calls, LockHeld, OffPaused, InCall, Calling, TypeOK, vars
<1>18. CASE SetTime
  BY <1>18
  DEF SetTime, Calls, LockHeld, OffPaused, InCall, Calling, TypeOK, vars
<1>19. CASE Restart
  BY <1>19
  DEF Restart, Event, Calls, LockHeld, OffPaused, InCall, Calling, TypeOK, vars
<1>20. CASE UNCHANGED vars
  BY <1>20 DEF Calls, LockHeld, OffPaused, InCall, Calling, TypeOK, vars
<1> QED
  BY Steps, <1>1, <1>2, <1>3, <1>4, <1>5, <1>6, <1>7, <1>8, <1>9, <1>10, <1>11,
     <1>12, <1>13, <1>14, <1>15, <1>16, <1>17, <1>18, <1>19, <1>20, Zenon

(* Every step keeps hold of what the calendar turned on.                   *)
LEMMA HeldKept ==
  ASSUME TypeOK, Calls, Held, [Next]_vars
  PROVE  Held'
<1>1. CASE TakeLock
  <2>1. writes["loop"].relay \in Relays /\ writes["loop"].level \in Levels
    BY <1>1, CallInProgress DEF TakeLock, Stage
  <2>2. writes'["user"] = writes["user"]
    BY <1>1 DEF TakeLock, TestAndSet, TypeOK
  <2>3. CASE lockupdate[writes["loop"].relay]
    <3>1. writes'["loop"] = NoWrite /\ lockupdate' = lockupdate
      BY <1>1, <2>1, <2>3 DEF TakeLock, TestAndSet, TypeOK
    <3> QED BY <1>1, <2>1, <2>2, <2>3, <3>1
            DEF TakeLock, Stage, Calls, Held, CalendarOn, Rewritten
  <2>4. CASE ~lockupdate[writes["loop"].relay]
    <3>1. writes'["loop"].stage = "drive"
      BY <1>1, <2>4, CallInProgress
      DEF TakeLock, TestAndSet, Stage, TypeOK, Writing
    <3> QED BY <1>1, <2>1, <2>2, <3>1
            DEF TakeLock, Stage, Calls, Held, CalendarOn, Rewritten
  <2> QED BY <2>3, <2>4
<1>2. ASSUME NEW t \in Tasks, DrivePin(t) PROVE Held'
  <2>1. writes[t].relay \in Relays /\ writes[t].level \in Levels
    BY <1>2, CallInProgress DEF DrivePin, Stage
  <2>2. CASE t = "user"
    <3>1. writes'["loop"] = writes["loop"] /\ writes'["user"].stage = "pause"
      BY <1>2, <2>2 DEF DrivePin, Stage, TypeOK
    <3> QED BY <1>2, <2>1, <2>2, <3>1
            DEF DrivePin, Stage, Calls, Held, CalendarOn, Rewritten, TypeOK
  <2>3. CASE t = "loop"
    <3>1. writes'["user"] = writes["user"] /\ writes'["loop"].stage = "pause"
      BY <1>2, <2>3 DEF DrivePin, Stage, TypeOK
    <3> QED BY <1>2, <2>1, <2>3, <3>1
            DEF DrivePin, Stage, Calls, Held, CalendarOn, Rewritten, TypeOK
  <2> QED BY <2>2, <2>3
<1>3. ASSUME NEW t \in Tasks, NotePause(t) PROVE Held'
  BY <1>3 DEF NotePause, Stage, Calls, Held, CalendarOn, Rewritten, TypeOK, vars
<1>4. CASE Evaluate
  BY <1>4 DEF Evaluate, Calls, Held, CalendarOn, Rewritten, TypeOK, vars
<1>5. ASSUME NEW i \in DOMAIN Timers, CloseOccurrence(i) PROVE Held'
  <2>1. ForceOff(Timers[i].relay, "off") /\ Timers[i].relay \in Relays
    BY <1>5, TimerRelay DEF CloseOccurrence
  <2> QED BY <1>5, <2>1, ForceOffCalls
          DEF CloseOccurrence, OpenWindow, Calls, Held, CalendarOn, Rewritten,
              TypeOK
<1>6. ASSUME NEW i \in DOMAIN Timers, HoldOccurrence(i) PROVE Held'
  BY <1>6
  DEF HoldOccurrence, OpenWindow, WriteCall, Calls, Held, CalendarOn, Rewritten,
      TypeOK, vars
<1>7. ASSUME NEW r \in Relays, ReleaseRelay(r) PROVE Held'
  <2>1. ForceOff(r, "released") /\ r \in Relays
    BY <1>7 DEF ReleaseRelay
  <2> QED BY <1>7, <2>1, ForceOffCalls
          DEF ReleaseRelay, Calls, Held, CalendarOn, Rewritten, TypeOK
<1>8. CASE LetGo
  BY <1>8 DEF LetGo, Calls, Held, CalendarOn, Rewritten, TypeOK, vars
<1>9. CASE Evaluated
  BY <1>9 DEF Evaluated, Calls, Held, CalendarOn, Rewritten, TypeOK, vars
<1>10. CASE LoadCalendar
  BY <1>10 DEF LoadCalendar, Calls, Held, CalendarOn, Rewritten, TypeOK, vars
<1>11. CASE EndService
  BY <1>11 DEF EndService, Calls, Held, CalendarOn, Rewritten, TypeOK, vars
<1>12. ASSUME NEW r \in Relays, NEW level \in Levels, Command(r, level)
      PROVE  Held'
  BY <1>12
  DEF Command, TestAndSet, WriteCall, Event, Calls, Held, CalendarOn, Rewritten,
      TypeOK, vars
<1>13. ASSUME NEW r \in Relays, OnRetained(r) PROVE Held'
  BY <1>13
  DEF OnRetained, TestAndSet, WriteCall, Calls, Held, CalendarOn, Rewritten,
      TypeOK, vars
<1>14. ASSUME NEW r \in Relays, NEW pause \in BOOLEAN, TimerControl(r, pause)
      PROVE  Held'
  BY <1>14
  DEF TimerControl, Event, Calls, Held, CalendarOn, Rewritten, TypeOK, vars
<1>15. ASSUME NEW i \in DOMAIN Timers, SaveTimer(i) PROVE Held'
  BY <1>15
  DEF SaveTimer, Event, Calls, Held, CalendarOn, Rewritten, TypeOK, vars
<1>16. ASSUME NEW r \in Relays, FreeLock(r) PROVE Held'
  BY <1>16
  DEF FreeLock, Crossed, Calls, Held, CalendarOn, Rewritten, TypeOK, vars
<1>17. ASSUME NEW second \in Nat, Reach(second), events' \in 0..MaxEvents
      PROVE  Held'
  BY <1>17 DEF Reach, Calls, Held, CalendarOn, Rewritten, TypeOK, vars
<1>18. CASE SetTime
  BY <1>18 DEF SetTime, Calls, Held, CalendarOn, Rewritten, TypeOK, vars
<1>19. CASE Restart
  BY <1>19 DEF Restart, Event, Calls, Held, CalendarOn, Rewritten, TypeOK, vars
<1>20. CASE UNCHANGED vars
  BY <1>20 DEF Calls, Held, CalendarOn, Rewritten, TypeOK, vars
<1> QED
  BY Steps, <1>1, <1>2, <1>3, <1>4, <1>5, <1>6, <1>7, <1>8, <1>9, <1>10, <1>11,
     <1>12, <1>13, <1>14, <1>15, <1>16, <1>17, <1>18, <1>19, <1>20, Zenon

(* Every step keeps what the loop has found out.                           *)
LEMMA ListedKept ==
  ASSUME TypeOK, Calls, Listed, [Next]_vars
  PROVE  Listed'
<1>1. CASE TakeLock
  BY <1>1 DEF TakeLock, TestAndSet, Stage, Calls, Listed, Ongoing, TypeOK, vars
<1>2. ASSUME NEW t \in Tasks, DrivePin(t) PROVE Listed'
  BY <1>2 DEF DrivePin, Stage, Calls, Listed, Ongoing, TypeOK, vars
<1>3. ASSUME NEW t \in Tasks, NotePause(t) PROVE Listed'
  BY <1>3 DEF NotePause, Stage, Calls, Listed, Ongoing, TypeOK, vars
<1>4. CASE Evaluate
  BY <1>4 DEF Evaluate, Calls, Listed, Ongoing, TypeOK, vars
<1>5. ASSUME NEW i \in DOMAIN Timers, CloseOccurrence(i) PROVE Listed'
  BY <1>5
  DEF CloseOccurrence, OpenWindow, ForceOff, WriteCall, Crossed, Calls, Listed,
      Ongoing, TypeOK, vars
<1>6. ASSUME NEW i \in DOMAIN Timers, HoldOccurrence(i) PROVE Listed'
  BY <1>6
  DEF HoldOccurrence, OpenWindow, WriteCall, Calls, Listed, Ongoing, TypeOK,
      vars
<1>7. ASSUME NEW r \in Relays, ReleaseRelay(r) PROVE Listed'
  BY <1>7
  DEF ReleaseRelay, ForceOff, WriteCall, Crossed, Calls, Listed, Ongoing,
      TypeOK, vars
<1>8. CASE LetGo
  BY <1>8 DEF LetGo, Calls, Listed, Ongoing, TypeOK, vars
<1>9. CASE Evaluated
  BY <1>9 DEF Evaluated, Calls, Listed, Ongoing, TypeOK, vars
<1>10. CASE LoadCalendar
  BY <1>10 DEF LoadCalendar, Calls, Listed, Ongoing, TypeOK, vars
<1>11. CASE EndService
  BY <1>11 DEF EndService, Calls, Listed, Ongoing, TypeOK, vars
<1>12. ASSUME NEW r \in Relays, NEW level \in Levels, Command(r, level)
      PROVE  Listed'
  BY <1>12
  DEF Command, TestAndSet, WriteCall, Event, Calls, Listed, Ongoing, TypeOK,
      vars
<1>13. ASSUME NEW r \in Relays, OnRetained(r) PROVE Listed'
  BY <1>13
  DEF OnRetained, TestAndSet, WriteCall, Calls, Listed, Ongoing, TypeOK, vars
<1>14. ASSUME NEW r \in Relays, NEW pause \in BOOLEAN, TimerControl(r, pause)
      PROVE  Listed'
  BY <1>14 DEF TimerControl, Event, Calls, Listed, Ongoing, TypeOK, vars
<1>15. ASSUME NEW i \in DOMAIN Timers, SaveTimer(i) PROVE Listed'
  BY <1>15 DEF SaveTimer, Event, Calls, Listed, Ongoing, TypeOK, vars
<1>16. ASSUME NEW r \in Relays, FreeLock(r) PROVE Listed'
  BY <1>16 DEF FreeLock, Crossed, Calls, Listed, Ongoing, TypeOK, vars
<1>17. ASSUME NEW second \in Nat, Reach(second), events' \in 0..MaxEvents
      PROVE  Listed'
  BY <1>17 DEF Reach, Calls, Listed, Ongoing, TypeOK, vars
<1>18. CASE SetTime
  BY <1>18 DEF SetTime, Calls, Listed, Ongoing, TypeOK, vars
<1>19. CASE Restart
  BY <1>19 DEF Restart, Event, Calls, Listed, Ongoing, TypeOK, vars
<1>20. CASE UNCHANGED vars
  BY <1>20 DEF Calls, Listed, Ongoing, TypeOK, vars
<1> QED
  BY Steps, <1>1, <1>2, <1>3, <1>4, <1>5, <1>6, <1>7, <1>8, <1>9, <1>10, <1>11,
     <1>12, <1>13, <1>14, <1>15, <1>16, <1>17, <1>18, <1>19, <1>20, Zenon

(* The calls, locks, pauses, held relays and lists are as Ind says: what   *)
(* chronosevaluatetimers() and mdigitalWrite() keep between their steps.   *)
THEOREM CalendarInvariant == Spec => []Ind
<1>1. ASSUME Init PROVE Ind
  <2>1. TypeOK
    BY <1>1, InitTyped
  <2>2. Calls /\ LockHeld /\ OffPaused /\ Listed
    BY <1>1 DEF Init, Calls, LockHeld, OffPaused, Listed, InCall, Calling
  <2>3. Held
    BY <1>1 DEF Init, Held, CalendarOn
  <2> QED BY <2>1, <2>2, <2>3 DEF Ind
<1>2. ASSUME Ind, [Next]_vars PROVE Ind'
  BY <1>2, TypeKept, CallsKept, LockHeldKept, OffPausedKept, HeldKept,
     ListedKept
     DEF Ind
<1> QED BY <1>1, <1>2, PTL DEF Spec

(* Nothing the calendar turned on is still on when an evaluation has found *)
(* nothing ongoing: the release of main.cpp:1674-1687 misses no relay.     *)
THEOREM NothingOutlastsItsEvent == Spec => []ReleasedWhenIdle
<1>1. Ind => ReleasedWhenIdle
  BY DEF Ind, ReleasedWhenIdle, Listed, Held, CalendarOn, Rewritten, NoCalls
<1> QED BY <1>1, CalendarInvariant, PTL

(* The loop's call to turn a relay on begins in HoldOccurrence().          *)
LEMMA OnlyHolding ==
  ASSUME TypeOK, [Next]_vars,
         writes["loop"] = NoWrite, writes'["loop"] # NoWrite,
         writes'["loop"].level = HIGH
  PROVE  \E i \in DOMAIN Timers : HoldOccurrence(i)
<1>1. CASE TakeLock
  BY <1>1 DEF TakeLock, TestAndSet, Stage, TypeOK, vars
<1>2. ASSUME NEW t \in Tasks, DrivePin(t) PROVE FALSE
  BY <1>2 DEF DrivePin, Stage, TypeOK, vars
<1>3. ASSUME NEW t \in Tasks, NotePause(t) PROVE FALSE
  BY <1>3 DEF NotePause, Stage, TypeOK, vars
<1>4. CASE Evaluate
  BY <1>4 DEF Evaluate, TypeOK, vars
<1>5. ASSUME NEW i \in DOMAIN Timers, CloseOccurrence(i) PROVE FALSE
  BY <1>5, TimerRelay, ForceOffCalls DEF CloseOccurrence
<1>6. ASSUME NEW r \in Relays, ReleaseRelay(r) PROVE FALSE
  BY <1>6, ForceOffCalls DEF ReleaseRelay
<1>7. CASE LetGo
  BY <1>7 DEF LetGo, TypeOK, vars
<1>8. CASE Evaluated
  BY <1>8 DEF Evaluated, TypeOK, vars
<1>9. CASE LoadCalendar
  BY <1>9 DEF LoadCalendar, TypeOK, vars
<1>10. CASE EndService
  BY <1>10 DEF EndService, TypeOK, vars
<1>11. ASSUME NEW r \in Relays, NEW level \in Levels, Command(r, level)
      PROVE  FALSE
  BY <1>11 DEF Command, TestAndSet, WriteCall, Event, TypeOK, vars
<1>12. ASSUME NEW r \in Relays, OnRetained(r) PROVE FALSE
  BY <1>12 DEF OnRetained, TestAndSet, WriteCall, TypeOK, vars
<1>13. ASSUME NEW r \in Relays, NEW pause \in BOOLEAN, TimerControl(r, pause)
      PROVE  FALSE
  BY <1>13 DEF TimerControl, Event, TypeOK, vars
<1>14. ASSUME NEW i \in DOMAIN Timers, SaveTimer(i) PROVE FALSE
  BY <1>14 DEF SaveTimer, Event, TypeOK, vars
<1>15. ASSUME NEW r \in Relays, FreeLock(r) PROVE FALSE
  BY <1>15 DEF FreeLock, Crossed, TypeOK, vars
<1>16. ASSUME NEW second \in Nat, Reach(second), events' \in 0..MaxEvents
      PROVE  FALSE
  BY <1>16 DEF Reach, TypeOK, vars
<1>17. CASE SetTime
  BY <1>17 DEF SetTime, TypeOK, vars
<1>18. CASE Restart
  BY <1>18 DEF Restart, Event, TypeOK, vars
<1>19. CASE UNCHANGED vars
  BY <1>19 DEF TypeOK, vars
<1> QED
  BY Steps, <1>1, <1>2, <1>3, <1>4, <1>5, <1>6, <1>7, <1>8, <1>9, <1>10, <1>11,
     <1>12, <1>13, <1>14, <1>15, <1>16, <1>17, <1>18, <1>19, Zenon

(* The calendar does not override a standing OFF: the pause that           *)
(* RelayClass.cpp:438 notes lasts until main.cpp:1648 or a user ends it.   *)
THEOREM StandingOffRespected == Spec => OffRespected
<1> DEFINE Respects == \A r \in Relays :
      /\ writes["loop"] = NoWrite /\ writes'["loop"] # NoWrite
      /\ writes'["loop"].relay = r /\ writes'["loop"].level = HIGH
      => ~offAsked'[r]
<1>1. ASSUME Ind, Ind', [Next]_vars PROVE [Respects]_vars
  <2> SUFFICES ASSUME NEW r \in Relays,
                      writes["loop"] = NoWrite, writes'["loop"] # NoWrite,
                      writes'["loop"].relay = r, writes'["loop"].level = HIGH
               PROVE  ~offAsked'[r]
    OBVIOUS
  <2>1. TypeOK /\ TypeOK' /\ OffPaused /\ OffPaused'
    BY <1>1 DEF Ind
  <2>2. PICK i \in DOMAIN Timers : HoldOccurrence(i)
    BY <1>1, <2>1, OnlyHolding
  <2> QED BY <1>1, <2>1, <2>2, TimerRelay
          DEF HoldOccurrence, OpenWindow, WriteCall, OffPaused, TypeOK
<1> QED BY <1>1, CalendarInvariant, PTL DEF Spec, OffRespected

=============================================================================
