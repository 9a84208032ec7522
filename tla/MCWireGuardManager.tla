------------------------- MODULE MCWireGuardManager -------------------------
EXTENDS WireGuardManager

Scenario(m, n, f, s, e) ==
  [mqtt |-> m, ntp |-> n, file |-> f, saves |-> s, events |-> e]

\* Saves that follow each other; NTP pages and the tunnel's start by two tasks;
\* each place of the broker with what may disturb its route.
MCScenarios == {
  Scenario("off",  FALSE, "plain",   2, 0),
  Scenario("off",  TRUE,  "plain",   0, 2),
  Scenario("off",  TRUE,  "checked", 0, 1),
  Scenario("wifi", TRUE,  "plain",   0, 1),
  Scenario("near", TRUE,  "plain",   0, 0),
  Scenario("near", FALSE, "plain",   0, 1),
  Scenario("far",  FALSE, "checked", 0, 1),
  Scenario("far",  TRUE,  "off",     1, 0) }
=============================================================================
