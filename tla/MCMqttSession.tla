--------------------------- MODULE MCMqttSession ---------------------------
(* MqttSession for TLC; its configurations give the constants. *)
EXTENDS MqttSession
==============================================================================
