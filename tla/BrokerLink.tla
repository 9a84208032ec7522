----------------------------- MODULE BrokerLink -----------------------------
(***************************************************************************)
(* The MQTT client, the connection and the broker, for the command topic   *)
(* of one relay.  The board's half is AsyncMqttClient with a clean session *)
(* (libdeps, AsyncMqttClient.cpp); the broker is external.                 *)
(*                                                                         *)
(* The relay publishes its level, retained, on the same topic it listens   *)
(* to, so the broker sends every publication back.  Each relay of the      *)
(* board subscribes with the same wildcard (JSONConfig.cpp:668), and a     *)
(* broker sends a retained message again for every SUBSCRIBE packet.       *)
(* A lost connection loses what is on its way, and the subscription.       *)
(***************************************************************************)
EXTENDS Naturals, Sequences

CONSTANTS Levels,        \* the payloads ON and OFF, as the levels they mean
          Toggle,        \* the payload TOG
          Subscriptions  \* how many SUBSCRIBE packets the board sends

VARIABLES connected,  \* mqttClient.connected()
          brokerSub,  \* the broker has the board's subscription
          up,         \* packets on their way to the broker
          down,       \* messages on their way to onMqttMessage()
          retained    \* the message the broker keeps for the topic

link == <<connected, brokerSub, up, down, retained>>

Nothing   == "Nothing"
Subscribe == "Subscribe"
Payloads  == Levels \cup {Toggle}

LinkInit ==
  /\ connected = FALSE
  /\ brokerSub = FALSE
  /\ up = <<>>
  /\ down = <<>>
  /\ retained = Nothing

Message(v, fromRetained, own) ==
  [val |-> v, retain |-> fromRetained, own |-> own]

Messages == [val : Payloads, retain : BOOLEAN, own : BOOLEAN]

(* The messages that a publication adds to those on their way down.        *)
Delivery(v, own) == IF brokerSub THEN <<Message(v, FALSE, own)>> ELSE <<>>

(* The broker handles the next packet of the board.                        *)
BrokerReceive ==
  /\ up # <<>>
  /\ up' = Tail(up)
  /\ IF Head(up) = Subscribe
     THEN /\ brokerSub' = TRUE
          /\ down' = IF retained = Nothing
                     THEN down
                     ELSE Append(down, Message(retained, TRUE, FALSE))
          /\ UNCHANGED retained
     ELSE /\ retained' = Head(up)
          /\ down' = down \o Delivery(Head(up), TRUE)
          /\ UNCHANGED brokerSub
  /\ UNCHANGED connected

(* Another client publishes on the topic.                                  *)
ForeignMessage(v, retain) ==
  /\ retained' = IF retain THEN v ELSE retained
  /\ down' = down \o Delivery(v, FALSE)
  /\ UNCHANGED <<connected, brokerSub, up>>

LinkDown ==
  /\ connected' = FALSE
  /\ brokerSub' = FALSE
  /\ up' = <<>>
  /\ down' = <<>>
  /\ UNCHANGED retained

LinkUp ==
  /\ ~connected
  /\ connected' = TRUE
  /\ UNCHANGED <<brokerSub, up, down, retained>>

LinkOK ==
  /\ connected \in BOOLEAN
  /\ brokerSub \in BOOLEAN
  /\ up \in Seq(Levels \cup {Subscribe})
  /\ down \in Seq(Messages)
  /\ retained \in Payloads \cup {Nothing}
=============================================================================
