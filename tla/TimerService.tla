---------------------------- MODULE TimerService ----------------------------
(***************************************************************************)
(* The FreeRTOS software timers, as RelayClass.cpp uses them (external).   *)
(*                                                                         *)
(* xTimerStart(), xTimerStop() and xTimerChangePeriod() only put a command *)
(* on the queue of the timer daemon.  The firmware calls them with a block *)
(* time of 0 and ignores the result: a command that finds the queue full   *)
(* is lost.  The daemon, a task of its own, carries the commands out in    *)
(* order and calls a timer's callback each time its period has elapsed;    *)
(* after a callback it first empties the queue.  How long a period is does *)
(* not matter here: an active timer may fire at any moment.                *)
(***************************************************************************)
EXTENDS Naturals, Sequences

CONSTANTS Timers,       \* the timers of the relay
          TimerPeriods, \* the periods they are given, in seconds
          QLen          \* configTIMER_QUEUE_LENGTH

VARIABLES active,  \* timer -> xTimerIsTimerActive()
          period,  \* timer -> seconds between two calls of its callback
          timerQ,  \* the commands the daemon has yet to carry out
          daemon   \* the daemon waits, empties the queue, or is still in the
                   \* callback of a timer

timers == <<active, period, timerQ, daemon>>

(* Every timer is created with a period of one second, auto-reload, dormant *)
TimersInit ==
  /\ active = [t \in Timers |-> FALSE]
  /\ period = [t \in Timers |-> 1]
  /\ timerQ = <<>>
  /\ daemon = "wait"

Start(t)           == [op |-> "start", timer |-> t, period |-> 1]
Stop(t)            == [op |-> "stop", timer |-> t, period |-> 1]
ChangePeriod(t, p) == [op |-> "change", timer |-> t, period |-> p]

Commands ==
  {Start(t) : t \in Timers} \cup {Stop(t) : t \in Timers}
    \cup {ChangePeriod(t, p) : t \in Timers, p \in TimerPeriods}

(* The queue once a command has been sent to it.                           *)
Sent(q, command) == IF Len(q) < QLen THEN Append(q, command) ELSE q

(* A timer's callback may be called.                                       *)
Fires(t) == daemon = "wait" /\ active[t]

(* Where the daemon goes when a callback has returned, the queue being q.  *)
AfterCallback(q) == IF q = <<>> THEN "wait" ELSE "drain"

(* A change of period also starts a dormant timer.                         *)
DaemonCommand ==
  /\ timerQ # <<>>
  /\ daemon \in {"wait", "drain"}
  /\ daemon' = IF Len(timerQ) = 1 THEN "wait" ELSE daemon
  /\ LET c == Head(timerQ)
     IN  /\ active' = [active EXCEPT ![c.timer] = c.op # "stop"]
         /\ period' = IF c.op = "change"
                      THEN [period EXCEPT ![c.timer] = c.period]
                      ELSE period
  /\ timerQ' = Tail(timerQ)

TimersOK ==
  /\ active \in [Timers -> BOOLEAN]
  /\ period \in [Timers -> TimerPeriods \cup {1}]
  /\ timerQ \in Seq(Commands)
  /\ Len(timerQ) =< QLen
  /\ daemon \in Timers \cup {"wait", "drain"}
=============================================================================
