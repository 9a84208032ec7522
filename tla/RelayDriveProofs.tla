-------------------------- MODULE RelayDriveProofs --------------------------
(***************************************************************************)
(* Proofs about RelayDrive, for every set of tasks that drive the relay.   *)
(***************************************************************************)
EXTENDS RelayDrive, TLAPS

USE DEF Tasks, Levels, LOW, HIGH, NotYet, LoopPositions

(* A call of mdigitalWrite() keeps what it may change in its type.         *)
LEMMA CallTyped ==
  ASSUME TypeOK, NEW t \in Tasks, NEW v \in Levels, Call(t, v)
  PROVE  /\ lockupdate' \in BOOLEAN
         /\ at' \in [Tasks -> {"idle", "write", "flag"}]
         /\ arg' \in [Tasks -> Levels]
<1>1. CASE lockupdate
  BY <1>1 DEF TypeOK, Call, calls
<1>2. CASE ~lockupdate
  BY <1>2 DEF TypeOK, Call
<1> QED BY <1>1, <1>2

(* Every step of the specification keeps every variable in its type.       *)
THEOREM TypeCorrect == Spec => []TypeOK
<1>1. Init => TypeOK
  BY DEF Init, TypeOK
<1>2. TypeOK /\ [Next]_vars => TypeOK'
  <2> SUFFICES ASSUME TypeOK, [Next]_vars
               PROVE  TypeOK'
    OBVIOUS
  <2> USE DEF TypeOK, InLoop, GoTo, object, calls, report, topics
  <2>1. ASSUME NEW v \in Levels, ServiceWrite(v)
        PROVE  TypeOK'
    BY <2>1, CallTyped DEF ServiceWrite
  <2>2. CASE NoServiceWrite
    BY <2>2 DEF NoServiceWrite
  <2>3. CASE CalendarOn
    BY <2>3, CallTyped DEF CalendarOn
  <2>4. CASE CalendarRelease
    BY <2>4 DEF CalendarRelease
  <2>5. CASE CalendarOff
    BY <2>5, CallTyped DEF CalendarOff
  <2>6. CASE NoCalendarEvent
    BY <2>6 DEF NoCalendarEvent
  <2>7. CASE WatchSnapshot
    BY <2>7 DEF WatchSnapshot
  <2>8. CASE TtlCallback
    BY <2>8, CallTyped DEF TtlCallback
  <2>9. CASE TtaCallback
    BY <2>9, CallTyped DEF TtaCallback
  <2>10. CASE PublishState
    BY <2>10 DEF PublishState
  <2>11. CASE ReadLevel
    BY <2>11 DEF ReadLevel
  <2>12. CASE PublishLevel
    BY <2>12 DEF PublishLevel
  <2>13. ASSUME NEW elapsed \in BOOLEAN, FreeLockTest(elapsed)
         PROVE  TypeOK'
    BY <2>13 DEF FreeLockTest
  <2>14. CASE FreeLock
    BY <2>14 DEF FreeLock
  <2>15. ASSUME NEW t \in Tasks, Write(t)
         PROVE  TypeOK'
    BY <2>15 DEF Write
  <2>16. ASSUME NEW t \in Tasks, Flag(t)
         PROVE  TypeOK'
    BY <2>16 DEF Flag
  <2>17. ASSUME NEW t \in Others, NEW v \in Levels, Command(t, v)
         PROVE  TypeOK'
    BY <2>17, CallTyped DEF Command
  <2>18. CASE UNCHANGED vars
    BY <2>18 DEF vars
  <2>19. CASE AnnounceRead
    BY <2>19 DEF AnnounceRead
  <2>20. CASE Announce
    BY <2>20 DEF Announce
  <2>21. CASE NothingToAnnounce
    BY <2>21 DEF NothingToAnnounce
  <2>22. CASE TtlPublish
    BY <2>22 DEF TtlPublish
  <2>23. CASE NoTtlExpired
    BY <2>23 DEF NoTtlExpired
  <2>24. QED
    BY <2>1, <2>2, <2>3, <2>4, <2>5, <2>6, <2>7, <2>8, <2>9, <2>10, <2>11,
       <2>12, <2>13, <2>14, <2>15, <2>16, <2>17, <2>18, <2>19,
       <2>20, <2>21, <2>22, <2>23 DEF Next, LoopStep
<1>3. QED
  BY <1>1, <1>2, PTL DEF Spec

-----------------------------------------------------------------------------
(* The level is read one step before it is published to the command topic *)
(* or announced; if the GPIO is driven in between, that change is pending. *)
ReadIsFresh ==
  lpc \in {"publish", "announce"} => \/ curState = pin
                                    \/ rchangedflag
                                    \/ FlagDue

(* The OFF a TTL publishes is followed by a report, unless its write was   *)
(* dropped.                                                                *)
TtlIsReported ==
  lpc = "ttlPublish" => \/ offDropped
                        \/ at[Loop] \in {"write", "flag"}
                        \/ rchangedflag

(* The inductive invariant.  CommandTopicReported alone is not preserved   *)
(* by PublishLevel and Announce, which may publish a level that is no      *)
(* longer right, nor by TtlPublish, which does not look at the level.      *)
ReportInv ==
  /\ CommandTopicReported /\ StateTopicReported
  /\ ReadIsFresh /\ TtlIsReported

(* Steps that do not drive the GPIO, do not touch the flag and stay within *)
(* or outside the report keep whatever is pending.                         *)
LEMMA ReportInvInductive ==
  ASSUME TypeOK, ReportInv, [Next]_vars
  PROVE  ReportInv'
<1> USE DEF TypeOK, ReportInv, CommandTopicReported, StateTopicReported,
            ReadIsFresh, TtlIsReported, ChangePending, FlagDue, Shown, BeforeStateRead,
            BeforeLevelRead, Call, InLoop, GoTo, object, calls, report, topics
<1>1. ASSUME NEW v \in Levels, ServiceWrite(v)
      PROVE  ReportInv'
  BY <1>1 DEF ServiceWrite
<1>2. CASE NoServiceWrite
  BY <1>2 DEF NoServiceWrite
<1>3. CASE CalendarOn
  BY <1>3 DEF CalendarOn
<1>4. CASE CalendarRelease
  BY <1>4 DEF CalendarRelease
<1>5. CASE CalendarOff
  BY <1>5 DEF CalendarOff
<1>6. CASE NoCalendarEvent
  BY <1>6 DEF NoCalendarEvent
<1>7. CASE WatchSnapshot
  BY <1>7 DEF WatchSnapshot
<1>8. CASE TtlCallback
  BY <1>8 DEF TtlCallback
<1>9. CASE TtaCallback
  BY <1>9 DEF TtaCallback
<1>10. CASE PublishState
  BY <1>10 DEF PublishState
<1>11. CASE ReadLevel
  BY <1>11 DEF ReadLevel
<1>12. CASE PublishLevel
  BY <1>12 DEF PublishLevel
<1>13. ASSUME NEW elapsed \in BOOLEAN, FreeLockTest(elapsed)
       PROVE  ReportInv'
  BY <1>13 DEF FreeLockTest
<1>14. CASE FreeLock
  BY <1>14 DEF FreeLock
<1>15. ASSUME NEW t \in Tasks, Write(t)
       PROVE  ReportInv'
  BY <1>15 DEF Write
<1>16. ASSUME NEW t \in Tasks, Flag(t)
       PROVE  ReportInv'
  BY <1>16 DEF Flag
<1>17. ASSUME NEW t \in Others, NEW v \in Levels, Command(t, v)
       PROVE  ReportInv'
  BY <1>17 DEF Command
<1>18. CASE UNCHANGED vars
  BY <1>18 DEF vars
<1>19. CASE AnnounceRead
  BY <1>19 DEF AnnounceRead
<1>20. CASE Announce
  BY <1>20 DEF Announce
<1>21. CASE NothingToAnnounce
  BY <1>21 DEF NothingToAnnounce
<1>22. CASE TtlPublish
  BY <1>22 DEF TtlPublish
<1>23. CASE NoTtlExpired
  BY <1>23 DEF NoTtlExpired
<1>24. QED
  BY <1>1, <1>2, <1>3, <1>4, <1>5, <1>6, <1>7, <1>8, <1>9, <1>10, <1>11,
     <1>12, <1>13, <1>14, <1>15, <1>16, <1>17, <1>18, <1>19,
     <1>20, <1>21, <1>22, <1>23 DEF Next, LoopStep

THEOREM ReportInvHolds == Spec => []ReportInv
<1>1. Init => ReportInv
  BY DEF Init, ReportInv, CommandTopicReported, StateTopicReported,
         ReadIsFresh, TtlIsReported, Shown
<1>2. TypeOK /\ ReportInv /\ [Next]_vars => ReportInv'
  BY ReportInvInductive
<1>3. QED
  BY <1>1, <1>2, TypeCorrect, PTL DEF Spec

(* However many tasks drive the relay and however their steps interleave,  *)
(* a level the command topic does not show has a report on its way (main.  *)
(* cpp:1013-1017, RelayClass.cpp:134-139), unless a TTL's OFF was          *)
(* published whose write was dropped, or the last report found the level   *)
(* of the report before and published nothing.                             *)
THEOREM NoChangeIsForgotten == Spec => []CommandTopicReported
<1>1. ReportInv => CommandTopicReported
  BY DEF ReportInv
<1>2. QED
  BY <1>1, ReportInvHolds, PTL

(* The same for the state topic, without an exception (main.cpp:1007): no  *)
(* brownout started the board, see the head of RelayDrive.                 *)
THEOREM StateTopicIsTold == Spec => []StateTopicReported
<1>1. ReportInv => StateTopicReported
  BY DEF ReportInv
<1>2. QED
  BY <1>1, ReportInvHolds, PTL

-----------------------------------------------------------------------------
(* Each step of the relay is a step of the abstract output: driving the    *)
(* GPIO is Drive, reading it for the state topic, in a report or for an    *)
(* announcement, is Report, and nothing else changes the level or what was *)
(* last reported.                                                          *)
LEMMA StepRefinesOutput ==
  ASSUME TypeOK, [Next]_vars
  PROVE  [Output!Next]_(Output!rvars)
<1> USE DEF TypeOK, Call, InLoop, GoTo, object, calls, report, topics, Shown,
            Output!Next, Output!Drive, Output!Report, Output!rvars
<1>1. ASSUME NEW v \in Levels, ServiceWrite(v)
      PROVE  UNCHANGED Output!rvars
  BY <1>1 DEF ServiceWrite
<1>2. ASSUME \/ NoServiceWrite \/ CalendarOn \/ CalendarRelease
             \/ CalendarOff \/ NoCalendarEvent \/ NothingToAnnounce
      PROVE  UNCHANGED Output!rvars
  BY <1>2 DEF NoServiceWrite, CalendarOn, CalendarRelease, CalendarOff,
              NoCalendarEvent, NothingToAnnounce
<1>3. ASSUME \/ WatchSnapshot \/ TtlCallback \/ TtlPublish \/ NoTtlExpired
             \/ TtaCallback \/ ReadLevel \/ PublishLevel
      PROVE  UNCHANGED Output!rvars
  BY <1>3 DEF WatchSnapshot, TtlCallback, TtlPublish, NoTtlExpired, TtaCallback,
              ReadLevel, PublishLevel
<1>4. ASSUME AnnounceRead \/ PublishState
      PROVE  Output!Report
  BY <1>4 DEF AnnounceRead, PublishState
<1>5. CASE Announce
  BY <1>5 DEF Announce
<1>6. ASSUME NEW elapsed \in BOOLEAN, FreeLockTest(elapsed)
      PROVE  UNCHANGED Output!rvars
  BY <1>6 DEF FreeLockTest
<1>7. CASE FreeLock
  BY <1>7 DEF FreeLock
<1>8. ASSUME NEW t \in Tasks, Write(t)
      PROVE  Output!Drive
  BY <1>8 DEF Write
<1>9. ASSUME NEW t \in Tasks, Flag(t)
      PROVE  UNCHANGED Output!rvars
  BY <1>9 DEF Flag
<1>10. ASSUME NEW t \in Others, NEW v \in Levels, Command(t, v)
       PROVE  UNCHANGED Output!rvars
  BY <1>10 DEF Command
<1>11. CASE UNCHANGED vars
  BY <1>11 DEF vars
<1>12. QED
  BY <1>1, <1>2, <1>3, <1>4, <1>5, <1>6, <1>7, <1>8, <1>9, <1>10, <1>11
     DEF Next, LoopStep

(* The safety half of OutputSpec; its fairness is left to TLC.             *)
THEOREM RelayRefinesOutput ==
  Spec => Output!Init /\ [][Output!Next]_(Output!rvars)
<1>1. Init => Output!Init
  BY DEF Init, Output!Init, Shown
<1>2. TypeOK /\ [Next]_vars => [Output!Next]_(Output!rvars)
  BY StepRefinesOutput
<1>3. QED
  BY <1>1, <1>2, TypeCorrect, PTL DEF Spec
=============================================================================
