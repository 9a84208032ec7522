--------------------------- MODULE ReportedLevel ---------------------------
(***************************************************************************)
(* What a relay output promises to whoever watches it, whatever tasks      *)
(* drive it: its level may change at any time, a report always carries the *)
(* level the output has at that moment, and reports are never given up     *)
(* while the last one is out of date.  RelayDrive keeps this promise on    *)
(* the state topic.                                                        *)
(***************************************************************************)
CONSTANTS Levels,   \* the levels an output can have
          Off       \* the level after power-on

VARIABLES level,    \* the level of the output
          reported  \* the level the last report carried

rvars == <<level, reported>>

Init ==
  /\ level = Off
  /\ reported = Off

(* Some task drives the output.                                            *)
Drive ==
  /\ level' \in Levels
  /\ UNCHANGED reported

(* The output reports itself.                                              *)
Report ==
  /\ reported' = level
  /\ UNCHANGED level

Next == Drive \/ Report

Spec == Init /\ [][Next]_rvars /\ WF_rvars(Report)
=============================================================================
