---------------------------- MODULE TimerWindow ----------------------------
(***************************************************************************)
(* isNodeTimerActiveNow() (TimerClass.cpp): is it now within the window of *)
(* a saved timer?  The automation rules use it as their time gate.         *)
(*                                                                         *)
(* A moment is a day, counted from a Sunday, and a minute of that day.  A  *)
(* timer's configuration has the fields of TimerScheduleCache: the kind,   *)
(* the days a range of dates stands for, the weekdays, the minutes of from *)
(* and to, and the mark, a length that takes the place of to when it is    *)
(* not 0.                                                                  *)
(***************************************************************************)
EXTENDS Integers

DayMinutes == 1440
WeekDays   == 0..6
Minutes    == 0..(DayMinutes - 1)
Moments    == [day : Nat, minute : Minutes]

TimerConfigs ==
  [enabled : BOOLEAN, weekly : BOOLEAN, fromDay : Nat, toDay : Nat,
   weekdays : SUBSET WeekDays, from : Minutes, to : Minutes, mark : Nat]

(* The minute the window ends with; over the day's end when it is too big. *)
ToMinutes(c) == IF c.mark > 0 THEN c.from + c.mark ELSE c.to

DateMatches(c, now) == ~c.weekly => now.day \in c.fromDay..c.toDay

(* The weekday is that of the moment, not of the window's beginning.       *)
DayMatches(c, now) == c.weekly => (now.day % 7) \in c.weekdays

InHours(c, now) ==
  LET to == ToMinutes(c)
  IN  IF to >= DayMinutes
      THEN now.minute >= c.from \/ now.minute <= to - DayMinutes
      ELSE IF c.from <= to
           THEN now.minute >= c.from /\ now.minute <= to
           ELSE now.minute >= c.from \/ now.minute <= to

isNodeTimerActiveNow(c, now) ==
  /\ c.enabled
  /\ DateMatches(c, now)
  /\ DayMatches(c, now)
  /\ InHours(c, now)

-----------------------------------------------------------------------------
(* What the window means: the minutes that are passed when one goes from   *)
(* the first on, over midnight if need be, both ends included.             *)
Elapsed(c, now) == (now.minute - c.from) % DayMinutes
Length(c)       == IF c.mark > 0 THEN c.mark ELSE (c.to - c.from) % DayMinutes

InWindow(c, now) == Elapsed(c, now) <= Length(c)
=============================================================================
