----------------------------- MODULE MCCalendar -----------------------------
(* Two relays, one timer each; the occurrences overlap. *)
EXTENDS Calendar

TwoTimers == << [relay |-> 1, start |-> 1, finish |-> 9],
                [relay |-> 2, start |-> 5, finish |-> 11] >>
=============================================================================
