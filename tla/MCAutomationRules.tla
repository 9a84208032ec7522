------------------------- MODULE MCAutomationRules -------------------------
(* One relay.  The first rule turns it on while the slot reads 1, within   *)
(* the window of a timer, after a second's hold, at most every four        *)
(* seconds; the second, which is saved later, keeps it off while the slot  *)
(* reads 0 or the board's own sensor 1, and says so every second.  The     *)
(* first can also be saved anew with the other action.                     *)
EXTENDS AutomationRules

Night == [enabled |-> TRUE, weekly |-> TRUE, fromDay |-> 0, toDay |-> 0,
          weekdays |-> {1}, from |-> 1320, to |-> 360, mark |-> 0]
AtNight == [day |-> 1, minute |-> 1400]
AtNoon  == [day |-> 1, minute |-> 720]

Pump == [enabled |-> TRUE, targetRelay |-> 1, action |-> "ON", logic |-> "AND",
         conditions |-> {[source |-> "slot1", accepts |-> {1}]},
         trigger |-> "CHANGE", gate |-> 1, hold |-> 1, cooldown |-> 4]
Valve == [enabled |-> TRUE, targetRelay |-> 1, action |-> "OFF", logic |-> "OR",
          conditions |-> {[source |-> "slot1", accepts |-> {0}],
                          [source |-> "own", accepts |-> {1}]},
          trigger |-> "PERIODIC", gate |-> 0, hold |-> 0, cooldown |-> 0]

MCSlots      == {"slot1"}
MCLocals     == {"own"}
MCFirstRules == [r \in 1..2 |-> IF r = 1 THEN Pump ELSE None]
MCTimers     == [t \in {1} |-> Night]
PumpOff      == [Pump EXCEPT !.action = "OFF"]
MCRuleForms  == {[rule |-> 1, config |-> Pump], [rule |-> 1, config |-> PumpOff],
                 [rule |-> 2, config |-> Valve]}
MCTimerForms == {[timer |-> 1, config |-> Night]}
MCSlotForms  == {MCSlots}
MCNows       == {AtNight, AtNoon}
=============================================================================
