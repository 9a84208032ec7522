---------------------------- MODULE RelayProofs ----------------------------
(***************************************************************************)
(* The types of Relay, and what a brownout promises, for every number of   *)
(* outages, commands and restarts and every length of the timer queue.     *)
(***************************************************************************)
EXTENDS Relay, TLAPS

Packets  == Levels \cup {"Subscribe"}
AnyMessage == [val : Levels \cup {TOG}, retain : BOOLEAN, own : BOOLEAN]

(* No client keeps a TOG on the topic: a retained TOG, which the firmware  *)
(* does not suppress, would turn the relay on.                             *)
NoRetainedToggle == \A c \in ForeignCommands : c.val = TOG => ~c.retain

(* Packets and messages that leave a relay off after a brownout.           *)
HarmlessPackets  == {LOW, "Subscribe"}
HarmlessMessages ==
  {m \in AnyMessage : m.val = LOW \/ (m.val = HIGH /\ m.retain)}

Typed ==
  /\ pin \in Levels
  /\ curState \in Levels
  /\ up \in Seq(Packets)
  /\ down \in Seq(AnyMessage)
  /\ retained \in Levels \cup {"Nothing"}

Harmless ==
  suppressRetainedOn /\ uncommanded =>
    /\ pin = LOW
    /\ curState = LOW
    /\ up \in Seq(HarmlessPackets)
    /\ down \in Seq(HarmlessMessages)

Ind == Typed /\ Harmless

(* All that the invariant speaks of.                                       *)
view == <<pin, curState, up, down, retained, suppressRetainedOn, uncommanded>>

USE DEF LOW, HIGH, Levels, TOG

(* A step that changes nothing the invariant speaks of preserves it.       *)
LEMMA ViewKept == Ind /\ UNCHANGED view => Ind'
  BY DEF Ind, Typed, Harmless, view

(* mdigitalWrite(LOW) leaves a relay that is off as it is.                 *)
LEMMA WriteTyped ==
  ASSUME pin \in Levels, NEW v \in Levels, MdigitalWrite(v)
  PROVE  /\ pin' \in Levels
         /\ pin = LOW /\ v = LOW => pin' = LOW
  BY DEF MdigitalWrite

(* What publishing a level adds to the packets on their way.               *)
LEMMA PublishTyped ==
  ASSUME NEW v \in Levels, Publish(v), up \in Seq(Packets)
  PROVE  /\ up' \in Seq(Packets)
         /\ v = LOW /\ up \in Seq(HarmlessPackets)
              => up' \in Seq(HarmlessPackets)
         /\ UNCHANGED <<down, retained>>
  BY DEF Publish, Packets, HarmlessPackets

(* The actions that leave the level, the packets and the messages alone.   *)
LEMMA Elsewhere ==
  ASSUME \/ NothingToAnnounce \/ WatchSnapshot \/ CountEcho \/ ArmTtl
         \/ NoOvercurrent \/ (\E elapsed \in BOOLEAN : FreeLock(elapsed))
         \/ LoopService \/ NoService \/ SwallowStore
         \/ (\E newTtl \in Ttls : SetTtl(newTtl))
         \/ OnMqttConnect \/ TtlTick \/ TtaTick
         \/ (\E t \in {"ttl", "tta"} : TickStop(t)) \/ TimerCommand
  PROVE  UNCHANGED view
<1> USE DEF view, object, looping, link, session, history
<1>1. CASE NothingToAnnounce
  BY <1>1 DEF NothingToAnnounce
<1>2. CASE WatchSnapshot
  BY <1>2 DEF WatchSnapshot
<1>3. CASE CountEcho
  BY <1>3 DEF CountEcho, Miscounted
<1>4. CASE ArmTtl
  BY <1>4 DEF ArmTtl
<1>5. CASE NoOvercurrent
  BY <1>5 DEF NoOvercurrent
<1>6. CASE \E elapsed \in BOOLEAN : FreeLock(elapsed)
  BY <1>6 DEF FreeLock
<1>7. CASE LoopService
  BY <1>7 DEF LoopService
<1>8. CASE NoService
  BY <1>8 DEF NoService
<1>9. CASE SwallowStore
  BY <1>9 DEF SwallowStore
<1>10. CASE \E newTtl \in Ttls : SetTtl(newTtl)
  BY <1>10 DEF SetTtl
<1>11. CASE OnMqttConnect
  BY <1>11 DEF OnMqttConnect, Broker!LinkUp
<1>12. CASE TtlTick
  BY <1>12 DEF TtlTick
<1>13. CASE TtaTick
  BY <1>13 DEF TtaTick
<1>14. CASE \E t \in {"ttl", "tta"} : TickStop(t)
  BY <1>14 DEF TickStop
<1>15. CASE TimerCommand
  BY <1>15 DEF TimerCommand
<1> QED
  BY <1>1, <1>2, <1>3, <1>4, <1>5, <1>6, <1>7, <1>8,
     <1>9, <1>10, <1>11, <1>12, <1>13, <1>14, <1>15

(* Taking the next message away leaves messages of the same kind.          *)
LEMMA ReceiveTyped ==
  ASSUME Receive, down \in Seq(AnyMessage)
  PROVE  /\ down' \in Seq(AnyMessage)
         /\ Head(down) \in AnyMessage
         /\ down \in Seq(HarmlessMessages)
              => /\ down' \in Seq(HarmlessMessages)
                 /\ Head(down) \in HarmlessMessages
  BY DEF Receive

(* Adding a sequence, an element or nothing stays within the sequences     *)
(* over a set.                                                             *)
LEMMA ConcatKeeps ==
  ASSUME NEW S, NEW q \in Seq(S), NEW s \in Seq(S), NEW r,
         r = q \/ r = q \o s
  PROVE  r \in Seq(S)
<1>1. q \o s \in Seq(S)
  OBVIOUS
<1> QED BY <1>1, Zenon

LEMMA AppendKeeps ==
  ASSUME NEW S, NEW q \in Seq(S), NEW e \in S, NEW r,
         r = q \/ r = Append(q, e)
  PROVE  r \in Seq(S)
<1>1. Append(q, e) \in Seq(S)
  OBVIOUS
<1> QED BY <1>1, Zenon

(* A sequence of at most one element.                                      *)
LEMMA AtMostOne ==
  ASSUME NEW S, NEW m \in S, NEW d, d = <<m>> \/ d = << >>
  PROVE  d \in Seq(S)
<1>1. <<m>> \in Seq(S)
  OBVIOUS
<1>2. << >> \in Seq(S)
  OBVIOUS
<1> QED BY <1>1, <1>2, Zenon

(* The broker sends harmless messages if it is sent harmless packets and   *)
(* keeps no TOG.                                                           *)
LEMMA BrokerHarmless ==
  ASSUME Typed, Broker!BrokerReceive
  PROVE  /\ up' \in Seq(Packets)
         /\ down' \in Seq(AnyMessage)
         /\ retained' \in Levels \cup {"Nothing"}
         /\ up \in Seq(HarmlessPackets) /\ down \in Seq(HarmlessMessages)
              => up' \in Seq(HarmlessPackets) /\ down' \in Seq(HarmlessMessages)
<1> USE DEF Broker!BrokerReceive, Broker!Subscribe, Broker!Nothing,
            Broker!Message, Typed
<1>1. /\ up' \in Seq(Packets)
      /\ up \in Seq(HarmlessPackets) => up' \in Seq(HarmlessPackets)
  OBVIOUS
<1>2. CASE Head(up) = "Subscribe"
  <2>1. CASE retained = "Nothing"
    BY <1>1, <1>2, <2>1
  <2>2. CASE retained # "Nothing"
    <3> DEFINE m == [val |-> retained, retain |-> TRUE, own |-> FALSE]
    <3>1. m \in HarmlessMessages /\ m \in AnyMessage
      BY <2>2 DEF HarmlessMessages, AnyMessage
    <3>2. down' = Append(down, m) /\ retained' = retained
      BY <1>2, <2>2
    <3> HIDE DEF m
    <3> QED BY <1>1, <3>1, <3>2
  <2> QED BY <2>1, <2>2
<1>3. CASE Head(up) # "Subscribe"
  <2> DEFINE m == [val |-> Head(up), retain |-> FALSE, own |-> TRUE]
             d == Broker!Delivery(Head(up), TRUE)
  <2>1. Head(up) \in Packets
    OBVIOUS
  <2>2. Head(up) \in Levels
    BY <1>3, <2>1 DEF Packets
  <2>3. m \in AnyMessage
    BY <2>2 DEF AnyMessage
  <2>4. up \in Seq(HarmlessPackets) => Head(up) = LOW /\ m \in HarmlessMessages
    BY <1>3, <2>2, <2>3 DEF HarmlessPackets, HarmlessMessages
  <2>5. d = <<m>> \/ d = << >>
    BY DEF Broker!Delivery
  <2>6. down' = down \o d /\ retained' = Head(up)
    BY <1>3
  <2> HIDE DEF m, d
  <2>7. d \in Seq(AnyMessage)
    BY <2>3, <2>5, AtMostOne
  <2>8. up \in Seq(HarmlessPackets) => d \in Seq(HarmlessMessages)
    BY <2>4, <2>5, AtMostOne
  <2> QED BY <1>1, <2>2, <2>6, <2>7, <2>8
<1> QED BY <1>2, <1>3

(* The initial state.                                                      *)
LEMMA IndInit == Init => Ind
<1> SUFFICES ASSUME Init PROVE Ind
  OBVIOUS
<1> USE DEF Init, RelayInit, Broker!LinkInit, Broker!Nothing
<1>1. up = << >> /\ down = << >>
  OBVIOUS
<1>2. up \in Seq(Packets) /\ up \in Seq(HarmlessPackets)
  BY <1>1
<1>3. down \in Seq(AnyMessage) /\ down \in Seq(HarmlessMessages)
  BY <1>1
<1> QED BY <1>2, <1>3 DEF Ind, Typed, Harmless

(* Every step preserves the invariant.                                     *)
LEMMA IndStep ==
  ASSUME NoRetainedToggle, Ind, [Next]_vars
  PROVE  Ind'
<1> USE DEF Ind, Typed, Harmless
<1> USE DEF object, looping, link, session, history
<1>1. CASE SubscribeRelays
  <2> DEFINE s == [i \in 1 .. Subscriptions |-> "Subscribe"]
  <2>1. s \in Seq(Packets) /\ s \in Seq(HarmlessPackets)
    BY RelayAssumption DEF Packets, HarmlessPackets
  <2>2. up' = up \/ up' = up \o s
    BY <1>1 DEF SubscribeRelays, Broker!Subscribe
  <2> HIDE DEF s
  <2>3. /\ up' \in Seq(Packets)
        /\ up \in Seq(HarmlessPackets) => up' \in Seq(HarmlessPackets)
    BY <2>1, <2>2, ConcatKeeps
  <2> QED BY <1>1, <2>3 DEF SubscribeRelays
<1>2. CASE Announce
  BY <1>2 DEF Announce
<1>3. CASE AnnouncePublish
  BY <1>3, PublishTyped DEF AnnouncePublish
<1>4. CASE TtlOff
  BY <1>4, WriteTyped DEF TtlOff, DrivenByMessage
<1>5. CASE TtlPublish
  BY <1>5, PublishTyped DEF TtlPublish
<1>6. CASE TtaOn
  BY <1>6, WriteTyped DEF TtaOn, Commanded
<1>7. CASE Report
  BY <1>7 DEF Report
<1>8. CASE PublishLevel
  BY <1>8, PublishTyped DEF PublishLevel, Miscounted
<1>9. CASE Overcurrent
  BY <1>9, WriteTyped DEF Overcurrent
<1>10. CASE \E v \in Levels : LocalWrite(v)
  BY <1>10, WriteTyped DEF LocalWrite, Commanded
<1>11. CASE CalendarOff
  BY <1>11 DEF CalendarOff, Commanded
<1>12. CASE ButtonClick
  BY <1>12, WriteTyped DEF ButtonClick, Commanded
<1>13. CASE \E v \in Levels : HttpCommand(v)
  BY <1>13, WriteTyped DEF HttpCommand, Commanded
<1>14. CASE SwallowLoad
  BY <1>14, ReceiveTyped DEF SwallowLoad
<1>15. CASE SuppressOn
  <2>1. up' = up \/ up' = Append(up, LOW)
    BY <1>15 DEF SuppressOn
  <2>2. LOW \in Packets /\ LOW \in HarmlessPackets
    BY DEF Packets, HarmlessPackets
  <2>3. /\ up' \in Seq(Packets)
        /\ up \in Seq(HarmlessPackets) => up' \in Seq(HarmlessPackets)
    BY <2>1, <2>2, AppendKeeps
  <2> QED BY <1>15, <2>3, ReceiveTyped, WriteTyped
    DEF SuppressOn, DrivenByMessage
<1>16. CASE ApplyCommand
  <2> DEFINE m == Head(down)
  <2>1. Receive /\ ~IsSuppressed(m)
    BY <1>16 DEF ApplyCommand
  <2>2. m \in AnyMessage
    BY <2>1, ReceiveTyped
  <2>3. IF m.val = TOG THEN Not(pin) \in Levels ELSE m.val \in Levels
    BY <2>2 DEF AnyMessage, Not
  <2>4. pin' \in Levels
    BY <1>16, <2>3, WriteTyped DEF ApplyCommand
  <2>5. suppressRetainedOn /\ m \in HarmlessMessages => m.val = LOW
    BY <2>1 DEF IsSuppressed, HarmlessMessages
  <2>6. pin = LOW /\ m.val = LOW => pin' = LOW
    BY <1>16, WriteTyped DEF ApplyCommand
  <2>7. suppressRetainedOn' = suppressRetainedOn /\ uncommanded' = uncommanded
    BY <1>16 DEF ApplyCommand, DrivenByMessage
  <2> QED BY <1>16, <2>1, <2>4, <2>5, <2>6, <2>7, ReceiveTyped DEF ApplyCommand
<1>17. CASE OnMqttDisconnect
  BY <1>17 DEF OnMqttDisconnect, Miscounted, Broker!LinkDown
<1>18. CASE BrokerStep
  BY <1>18, BrokerHarmless DEF BrokerStep
<1>19. CASE \E c \in ForeignCommands : ForeignCommand(c.val, c.retain)
  <2>1. PICK c \in ForeignCommands : ForeignCommand(c.val, c.retain)
    BY <1>19
  <2>2. /\ c.val \in Levels \cup {TOG}
        /\ c.retain \in BOOLEAN
        /\ c.retain => c.val \in Levels
    BY RelayAssumption DEF NoRetainedToggle
  <2> DEFINE d == Broker!Delivery(c.val, FALSE)
             m == [val |-> c.val, retain |-> FALSE, own |-> FALSE]
  <2>3. d = <<m>> \/ d = << >>
    BY DEF Broker!Delivery, Broker!Message
  <2>4. m \in AnyMessage
    BY <2>2 DEF AnyMessage
  <2>5. /\ down' = down \o d
        /\ retained' \in {c.val, retained}
        /\ ~c.retain => retained' = retained
        /\ uncommanded' = FALSE
        /\ UNCHANGED <<pin, curState, up>>
    BY <2>1 DEF ForeignCommand, Broker!ForeignMessage, Commanded
  <2> HIDE DEF d, m
  <2>6. d \in Seq(AnyMessage)
    BY <2>3, <2>4, AtMostOne
  <2> QED BY <2>2, <2>5, <2>6
<1>20. CASE Restart
  BY <1>20 DEF Restart, Broker!LinkDown
<1>21. CASE UNCHANGED vars
  BY <1>21, ViewKept DEF vars, view
<1>22. CASE UNCHANGED view
  BY <1>22, ViewKept
<1> QED
  BY <1>1, <1>2, <1>3, <1>4, <1>5, <1>6, <1>7, <1>8, <1>9, <1>10, <1>11,
     <1>12, <1>13, <1>14, <1>15, <1>16, <1>17, <1>18, <1>19, <1>20, <1>21,
     <1>22, Elsewhere
  DEF Next, LoopStep, TcpStep, Message, DaemonStep, WorldStep

(* If no client keeps a TOG on the command topic, a relay that nobody has  *)
(* commanded since a brownout is off, whatever is retained and however     *)
(* often the connection is lost, publications are refused or the board     *)
(* restarts (MQTT_Processes.cpp:835-841).                                  *)
THEOREM OffAfterBrownout ==
  ASSUME NoRetainedToggle
  PROVE  Spec => []BrownoutStaysOff
<1>1. Init => Ind
  BY IndInit
<1>2. Ind /\ [Next]_vars => Ind'
  BY IndStep
<1>3. Ind => BrownoutStaysOff
  BY DEF Ind, Harmless, BrownoutStaysOff
<1> QED BY <1>1, <1>2, <1>3, PTL DEF Spec

-----------------------------------------------------------------------------
(* The types of all variables.                                             *)

OwnOK ==
  /\ pin \in Levels
  /\ {lockupdate, rchangedflag, ttl_expired, tta_expired} \subseteq BOOLEAN
  /\ running_TTL \in Nat /\ running_TTA \in Nat
  /\ v_ttl \in Ttls
  /\ lastPub1State \in Levels \cup {NotYet}
  /\ pendingEchoCount \in 0 .. EchoMod - 1
  /\ lpc \in LoopPositions
  /\ local \in [ttl : BOOLEAN, tta : BOOLEAN, changed : BOOLEAN]
  /\ curState \in Levels
  /\ loaded \in {NotLoaded} \cup 0 .. EchoMod - 1
  /\ swallowing \in {NotLoaded} \cup 1 .. EchoMod - 1
  /\ {pending_mqtt_subscribe, pending_relay_state, suppressRetainedOn,
      uncommanded, dropped, undone, miscounted} \subseteq BOOLEAN

(* The type invariant in three parts: own fields, timers and connection.   *)
LEMMA TypeParts == TypeOK <=> OwnOK /\ Daemon!TimersOK /\ Broker!LinkOK
  BY DEF TypeOK, OwnOK

(* A command sent to the queue is in it, or the queue was full.            *)
LEMMA SentTyped ==
  ASSUME NEW C, NEW q \in Seq(C), Len(q) =< QLen, NEW c \in C
  PROVE  /\ Daemon!Sent(q, c) \in Seq(C)
         /\ Len(Daemon!Sent(q, c)) =< QLen
<1>1. Append(q, c) \in Seq(C) /\ Len(Append(q, c)) = Len(q) + 1
  OBVIOUS
<1>2. Len(q) < QLen => Len(q) + 1 =< QLen
  BY RelayAssumption
<1> QED BY <1>1, <1>2 DEF Daemon!Sent

(* The commands the firmware sends, and what a command holds.              *)
LEMMA CommandsTyped ==
  /\ \A t \in {"ttl", "tta"} : /\ Daemon!Start(t) \in Daemon!Commands
                               /\ Daemon!Stop(t) \in Daemon!Commands
  /\ \A p \in Ttls : Daemon!ChangePeriod("ttl", p) \in Daemon!Commands
  BY DEF Daemon!Commands

LEMMA CommandFields ==
  ASSUME NEW c \in Daemon!Commands
  PROVE  c.timer \in {"ttl", "tta"} /\ c.period \in Ttls \cup {1}
  BY DEF Daemon!Commands, Daemon!Start, Daemon!Stop, Daemon!ChangePeriod

(* Stopping and starting a timer.                                          *)
LEMMA StopTyped ==
  ASSUME Daemon!TimersOK, StopTtl \/ StopTta
  PROVE  Daemon!TimersOK'
<1>1. PICK t \in {"ttl", "tta"} :
        timerQ' = Daemon!Sent(timerQ, Daemon!Stop(t))
  BY DEF StopTtl, StopTta
<1>2. UNCHANGED <<active, period, daemon>>
  BY DEF StopTtl, StopTta
<1> QED BY <1>1, <1>2, SentTyped, CommandsTyped DEF Daemon!TimersOK

LEMMA StartTyped ==
  ASSUME Daemon!TimersOK, NEW t \in {"ttl", "tta"}, StartTimer(t)
  PROVE  Daemon!TimersOK'
  BY SentTyped, CommandsTyped DEF Daemon!TimersOK, StartTimer

(* Every step keeps the timers and the daemon in their type.               *)
LEMMA TimersStep ==
  ASSUME OwnOK, Daemon!TimersOK, [Next]_vars
  PROVE  Daemon!TimersOK'
<1> USE DEF timers
<1>1. CASE UNCHANGED timers
  BY <1>1 DEF Daemon!TimersOK
<1>2. CASE TtaOn
  BY <1>2, StopTyped DEF TtaOn
<1>3. CASE ArmTtl
  BY <1>3, <1>1, StopTyped, StartTyped DEF ArmTtl
<1>4. CASE Overcurrent
  BY <1>4, StartTyped DEF Overcurrent
<1>5. CASE LoopService
  BY <1>5, <1>1, StartTyped DEF LoopService
<1>6. CASE ButtonClick
  <2>1. CASE pin = HIGH
    <3> DEFINE q == Daemon!Sent(timerQ, Daemon!Stop("tta"))
    <3>1. /\ timerQ' = Daemon!Sent(q, Daemon!Stop("ttl"))
          /\ UNCHANGED <<active, period, daemon>>
      BY <1>6, <2>1 DEF ButtonClick
    <3>2. q \in Seq(Daemon!Commands) /\ Len(q) =< QLen
      BY SentTyped, CommandsTyped DEF Daemon!TimersOK
    <3> HIDE DEF q
    <3>3. timerQ' \in Seq(Daemon!Commands) /\ Len(timerQ') =< QLen
      BY <3>1, <3>2, SentTyped, CommandsTyped
    <3> QED BY <3>1, <3>3 DEF Daemon!TimersOK
  <2> QED BY <1>6, <2>1, StartTyped DEF ButtonClick
<1>7. CASE ApplyCommand
  BY <1>7, <1>1, StopTyped DEF ApplyCommand
<1>8. CASE \E newTtl \in Ttls : SetTtl(newTtl)
  BY <1>8, SentTyped, CommandsTyped DEF SetTtl, Daemon!TimersOK
<1>9. CASE TtlTick \/ TtaTick
  <2>1. UNCHANGED <<active, period, timerQ>>
    BY <1>9 DEF TtlTick, TtaTick
  <2>2. daemon' \in {"ttl", "tta", "wait", "drain"}
    BY <1>9 DEF TtlTick, TtaTick, Daemon!AfterCallback
  <2> QED BY <2>1, <2>2 DEF Daemon!TimersOK
<1>10. CASE \E t \in {"ttl", "tta"} : TickStop(t)
  <2>1. PICK t \in {"ttl", "tta"} : TickStop(t)
    BY <1>10
  <2>2. /\ timerQ' = Daemon!Sent(timerQ, Daemon!Stop(t))
        /\ UNCHANGED <<active, period>>
        /\ daemon' \in {"wait", "drain"}
    BY <2>1 DEF TickStop, Daemon!AfterCallback
  <2> QED BY <2>2, SentTyped, CommandsTyped DEF Daemon!TimersOK
<1>11. CASE TimerCommand
  <2> DEFINE c == Head(timerQ)
  <2>1. c \in Daemon!Commands
    BY <1>11 DEF TimerCommand, Daemon!DaemonCommand, Daemon!TimersOK
  <2>2. /\ timerQ' = Tail(timerQ) /\ timerQ # << >>
        /\ active' = [active EXCEPT ![c.timer] = c.op # "stop"]
        /\ period' \in {period, [period EXCEPT ![c.timer] = c.period]}
        /\ daemon' \in {"wait", daemon}
    BY <1>11 DEF TimerCommand, Daemon!DaemonCommand
  <2> HIDE DEF c
  <2>3. timerQ' \in Seq(Daemon!Commands) /\ Len(timerQ') =< QLen
    BY <2>2, RelayAssumption DEF Daemon!TimersOK
  <2>4. active' \in [{"ttl", "tta"} -> BOOLEAN]
    BY <2>2 DEF Daemon!TimersOK
  <2>5. period' \in [{"ttl", "tta"} -> Ttls \cup {1}]
    BY <2>1, <2>2, CommandFields DEF Daemon!TimersOK
  <2> QED BY <2>2, <2>3, <2>4, <2>5 DEF Daemon!TimersOK
<1>12. CASE Restart
  <2>1. /\ active' = [t \in {"ttl", "tta"} |-> FALSE]
        /\ period' = [t \in {"ttl", "tta"} |-> 1]
        /\ timerQ' = << >> /\ daemon' = "wait"
    BY <1>12 DEF Restart
  <2> QED BY <2>1, RelayAssumption DEF Daemon!TimersOK
<1>13. CASE \/ SubscribeRelays \/ Announce \/ AnnouncePublish
            \/ NothingToAnnounce \/ WatchSnapshot \/ TtlOff \/ TtlPublish
            \/ Report \/ CountEcho \/ PublishLevel \/ NoOvercurrent
            \/ (\E elapsed \in BOOLEAN : FreeLock(elapsed))
            \/ (\E v \in Levels : LocalWrite(v)) \/ CalendarOff \/ NoService
  BY <1>13, <1>1
  DEF SubscribeRelays, Announce, AnnouncePublish, NothingToAnnounce,
      WatchSnapshot, TtlOff, TtlPublish, Report, CountEcho, PublishLevel,
      NoOvercurrent, FreeLock, LocalWrite, CalendarOff, NoService
<1>14. CASE \/ SwallowLoad \/ SuppressOn \/ SwallowStore
            \/ (\E v \in Levels : HttpCommand(v))
            \/ OnMqttConnect \/ OnMqttDisconnect \/ BrokerStep
            \/ (\E c \in ForeignCommands : ForeignCommand(c.val, c.retain))
  BY <1>14, <1>1
  DEF SwallowLoad, SuppressOn, SwallowStore, HttpCommand, OnMqttConnect,
      OnMqttDisconnect, BrokerStep, ForeignCommand
<1>15. CASE UNCHANGED vars
  BY <1>15, <1>1 DEF vars
<1> QED
  BY <1>2, <1>3, <1>4, <1>5, <1>6, <1>7, <1>8, <1>9, <1>10, <1>11, <1>12,
     <1>13, <1>14, <1>15
  DEF Next, LoopStep, TcpStep, Message, DaemonStep, WorldStep

(* What the broker delivers has the type of a message.                     *)
LEMMA DeliveryTyped ==
  ASSUME NEW v \in Broker!Payloads, NEW own \in BOOLEAN
  PROVE  Broker!Delivery(v, own) \in Seq(Broker!Messages)
<1> DEFINE m == Broker!Message(v, FALSE, own)
<1>1. m \in Broker!Messages
  BY DEF Broker!Message, Broker!Messages
<1>2. Broker!Delivery(v, own) = <<m>> \/ Broker!Delivery(v, own) = << >>
  BY DEF Broker!Delivery
<1> HIDE DEF m
<1> QED BY <1>1, <1>2, AtMostOne

(* The connection keeps its type when a level is published ...             *)
LEMMA PublishLink ==
  ASSUME Broker!LinkOK, NEW v \in Levels, Publish(v)
  PROVE  Broker!LinkOK'
<1>1. up' = up \/ up' = Append(up, v)
  BY DEF Publish
<1>2. up' \in Seq(Levels \cup {Broker!Subscribe})
  BY <1>1, AppendKeeps DEF Broker!LinkOK
<1> QED BY <1>2 DEF Publish, Broker!LinkOK

(* A lost connection leaves empty queues.                                 *)
LEMMA EmptyTyped == \A S : << >> \in Seq(S)
  OBVIOUS

LEMMA DownTyped ==
  ASSUME Broker!LinkOK, Broker!LinkDown
  PROVE  Broker!LinkOK'
<1>1. up' = << >> /\ down' = << >> /\ retained' = retained
  BY DEF Broker!LinkDown
<1>2. connected' = FALSE /\ brokerSub' = FALSE
  BY DEF Broker!LinkDown
<1> QED BY <1>1, <1>2, EmptyTyped DEF Broker!LinkOK

(* ... and in every step.                                                  *)
LEMMA LinkStep ==
  ASSUME OwnOK, Broker!LinkOK, [Next]_vars
  PROVE  Broker!LinkOK'
<1> USE DEF link
<1>1. CASE UNCHANGED link
  BY <1>1 DEF Broker!LinkOK
<1>2. CASE SubscribeRelays
  <2> DEFINE s == [i \in 1 .. Subscriptions |-> Broker!Subscribe]
  <2>1. s \in Seq(Levels \cup {Broker!Subscribe})
    BY RelayAssumption
  <2>2. up' = up \/ up' = up \o s
    BY <1>2 DEF SubscribeRelays
  <2> HIDE DEF s
  <2>3. up' \in Seq(Levels \cup {Broker!Subscribe})
    BY <2>1, <2>2, ConcatKeeps DEF Broker!LinkOK
  <2> QED BY <1>2, <2>3 DEF SubscribeRelays, Broker!LinkOK
<1>3. CASE AnnouncePublish
  BY <1>3, PublishLink DEF AnnouncePublish, OwnOK
<1>4. CASE TtlPublish
  BY <1>4, PublishLink DEF TtlPublish
<1>5. CASE PublishLevel
  BY <1>5, PublishLink DEF PublishLevel, OwnOK
<1>6. CASE SwallowLoad \/ SuppressOn \/ ApplyCommand
  <2>0. down # << >> /\ down' = Tail(down)
    BY <1>6 DEF SwallowLoad, SuppressOn, ApplyCommand, Receive
  <2>1. down' \in Seq(Broker!Messages)
    BY <2>0 DEF Broker!LinkOK
  <2>2. UNCHANGED <<connected, brokerSub, retained>>
    BY <1>6 DEF SwallowLoad, SuppressOn, ApplyCommand
  <2>3. up' = up \/ up' = Append(up, LOW)
    BY <1>6 DEF SwallowLoad, SuppressOn, ApplyCommand
  <2>4. up' \in Seq(Levels \cup {Broker!Subscribe})
    BY <2>3, AppendKeeps DEF Broker!LinkOK
  <2> QED BY <2>1, <2>2, <2>4 DEF Broker!LinkOK
<1>7. CASE OnMqttConnect
  BY <1>7 DEF OnMqttConnect, Broker!LinkUp, Broker!LinkOK
<1>8. CASE OnMqttDisconnect
  BY <1>8, DownTyped DEF OnMqttDisconnect
<1>9. CASE BrokerStep
  <2> USE <1>9 DEF BrokerStep, Broker!BrokerReceive
  <2>1. /\ Head(up) \in Levels \cup {Broker!Subscribe}
        /\ up' \in Seq(Levels \cup {Broker!Subscribe})
    BY DEF Broker!LinkOK
  <2>2. CASE Head(up) = Broker!Subscribe
    <3> DEFINE m == Broker!Message(retained, TRUE, FALSE)
    <3>1. UNCHANGED <<connected, retained>> /\ brokerSub' = TRUE
      BY <2>2
    <3>2. retained # Broker!Nothing => m \in Broker!Messages
      BY DEF Broker!LinkOK, Broker!Message, Broker!Messages
    <3>3. down' = IF retained = Broker!Nothing THEN down ELSE Append(down, m)
      BY <2>2
    <3> HIDE DEF m
    <3>4. down' \in Seq(Broker!Messages)
      BY <3>2, <3>3, AppendKeeps DEF Broker!LinkOK
    <3> QED BY <2>1, <3>1, <3>4 DEF Broker!LinkOK
  <2>3. CASE Head(up) # Broker!Subscribe
    <3> DEFINE d == Broker!Delivery(Head(up), TRUE)
    <3>1. Head(up) \in Broker!Payloads
      BY <2>1, <2>3 DEF Broker!Payloads
    <3>2. d \in Seq(Broker!Messages)
      BY <3>1, DeliveryTyped
    <3>3. /\ retained' = Head(up) /\ down' = down \o d
          /\ UNCHANGED <<connected, brokerSub>>
      BY <2>3
    <3> HIDE DEF d
    <3>4. down' \in Seq(Broker!Messages)
      BY <3>2, <3>3, ConcatKeeps DEF Broker!LinkOK
    <3> QED BY <2>1, <3>1, <3>3, <3>4 DEF Broker!LinkOK
  <2> QED BY <2>2, <2>3
<1>10. CASE \E c \in ForeignCommands : ForeignCommand(c.val, c.retain)
  <2>1. PICK c \in ForeignCommands : ForeignCommand(c.val, c.retain)
    BY <1>10
  <2> DEFINE d == Broker!Delivery(c.val, FALSE)
  <2>2. c.val \in Broker!Payloads
    BY RelayAssumption DEF Broker!Payloads
  <2>3. d \in Seq(Broker!Messages)
    BY <2>2, DeliveryTyped
  <2>4. /\ down' = down \o d /\ retained' \in {c.val, retained}
        /\ UNCHANGED <<connected, brokerSub, up>>
    BY <2>1 DEF ForeignCommand, Broker!ForeignMessage
  <2> HIDE DEF d
  <2>5. down' \in Seq(Broker!Messages)
    BY <2>3, <2>4, ConcatKeeps DEF Broker!LinkOK
  <2> QED BY <2>2, <2>4, <2>5 DEF Broker!LinkOK
<1>11. CASE Restart
  BY <1>11, DownTyped DEF Restart
<1>12. CASE \/ Announce \/ NothingToAnnounce \/ WatchSnapshot \/ TtlOff
            \/ TtaOn \/ Report \/ CountEcho \/ ArmTtl \/ Overcurrent
            \/ NoOvercurrent \/ (\E elapsed \in BOOLEAN : FreeLock(elapsed))
            \/ LoopService \/ (\E v \in Levels : LocalWrite(v))
            \/ CalendarOff \/ ButtonClick \/ NoService
  BY <1>12, <1>1
  DEF Announce, NothingToAnnounce, WatchSnapshot, TtlOff, TtaOn, Report,
      CountEcho, ArmTtl, Overcurrent, NoOvercurrent, FreeLock, LoopService,
      LocalWrite, CalendarOff, ButtonClick, NoService
<1>13. CASE \/ SwallowStore \/ (\E v \in Levels : HttpCommand(v))
            \/ (\E newTtl \in Ttls : SetTtl(newTtl)) \/ TtlTick \/ TtaTick
            \/ (\E t \in {"ttl", "tta"} : TickStop(t)) \/ TimerCommand
            \/ UNCHANGED vars
  BY <1>13, <1>1
  DEF SwallowStore, HttpCommand, SetTtl, TtlTick, TtaTick, TickStop,
      TimerCommand, vars
<1> QED
  BY <1>2, <1>3, <1>4, <1>5, <1>6, <1>7, <1>8, <1>9, <1>10, <1>11, <1>12,
     <1>13
  DEF Next, LoopStep, TcpStep, Message, DaemonStep, WorldStep

(* The history, and what MdigitalWrite() does to the level and its flags.  *)
LEMMA WriteOwn ==
  ASSUME pin \in Levels, lockupdate \in BOOLEAN, rchangedflag \in BOOLEAN,
         NEW v \in Levels, MdigitalWrite(v)
  PROVE  /\ pin' \in Levels
         /\ lockupdate' \in BOOLEAN /\ rchangedflag' \in BOOLEAN
  BY DEF MdigitalWrite

LEMMA HistoryOwn ==
  ASSUME OwnOK,
         \/ Commanded \/ DrivenByMessage
         \/ Driven /\ UNCHANGED <<uncommanded, dropped, miscounted>>
  PROVE  {uncommanded, dropped, undone, miscounted}' \subseteq BOOLEAN
  BY DEF OwnOK, Commanded, DrivenByMessage, Driven

(* Wherever watch() goes on is a position of the loop task.                *)
LEMMA NextPosition == \A l : NextCallback(l) \in LoopPositions
  BY DEF NextCallback, AfterCallbacks, LoopPositions

(* Every step keeps the fields of the relay and of the loop in their type. *)
LEMMA OwnStep ==
  ASSUME OwnOK, Daemon!TimersOK, Broker!LinkOK, [Next]_vars
  PROVE  OwnOK'
<1> USE RelayAssumption DEF OwnOK, object, flags, running, echo, looping,
        session, history, InLoop, GoTo, NotYet, NotLoaded
<1>1. CASE SubscribeRelays
  BY <1>1 DEF SubscribeRelays, LoopPositions
<1>2. CASE Announce
  BY <1>2 DEF Announce, LoopPositions
<1>3. CASE AnnouncePublish
  BY <1>3 DEF AnnouncePublish, LoopPositions
<1>4. CASE NothingToAnnounce
  BY <1>4 DEF NothingToAnnounce, LoopPositions
<1>5. CASE WatchSnapshot
  BY <1>5, NextPosition DEF WatchSnapshot
<1>6. CASE TtlOff
  BY <1>6, WriteOwn, HistoryOwn DEF TtlOff, LoopPositions
<1>7. CASE TtlPublish
  BY <1>7, NextPosition DEF TtlPublish
<1>8. CASE TtaOn
  BY <1>8, WriteOwn, HistoryOwn, NextPosition DEF TtaOn, StopTta
<1>9. CASE Report
  BY <1>9 DEF Report, LoopPositions, NoFlags
<1>10. CASE CountEcho
  BY <1>10 DEF CountEcho, LoopPositions, Miscounted
<1>11. CASE PublishLevel
  BY <1>11 DEF PublishLevel, LoopPositions, Miscounted
<1>12. CASE ArmTtl
  BY <1>12 DEF ArmTtl, LoopPositions, AfterCallbacks, StartTimer, StopTtl
<1>13. CASE Overcurrent
  BY <1>13, WriteOwn, HistoryOwn DEF Overcurrent, LoopPositions, StartTimer
<1>14. CASE NoOvercurrent
  BY <1>14 DEF NoOvercurrent, LoopPositions
<1>15. CASE \E elapsed \in BOOLEAN : FreeLock(elapsed)
  BY <1>15 DEF FreeLock, LoopPositions
<1>16. CASE LoopService
  BY <1>16 DEF LoopService, LoopPositions, StartTimer
<1>17. CASE \E v \in Levels : LocalWrite(v)
  BY <1>17, WriteOwn, HistoryOwn DEF LocalWrite, LoopPositions
<1>18. CASE CalendarOff
  BY <1>18, HistoryOwn DEF CalendarOff, LoopPositions
<1>19. CASE ButtonClick
  BY <1>19, WriteOwn, HistoryOwn DEF ButtonClick, LoopPositions, StartTimer
<1>20. CASE NoService
  BY <1>20 DEF NoService, LoopPositions
<1>21. CASE \E v \in Levels : HttpCommand(v)
  BY <1>21, WriteOwn, HistoryOwn DEF HttpCommand
<1>22. CASE SwallowLoad
  BY <1>22 DEF SwallowLoad, IsEcho
<1>23. CASE SwallowStore
  BY <1>23 DEF SwallowStore
<1>24. CASE SuppressOn
  BY <1>24, WriteOwn, HistoryOwn DEF SuppressOn
<1>25. CASE ApplyCommand
  <2> DEFINE m == Head(down)
  <2>1. m \in Broker!Messages
    BY <1>25 DEF ApplyCommand, Receive, Broker!LinkOK
  <2>2. (IF m.val = TOG THEN Not(pin) ELSE m.val) \in Levels
    BY <2>1 DEF Broker!Messages, Broker!Payloads, Not
  <2>3. /\ MdigitalWrite(IF m.val = TOG THEN Not(pin) ELSE m.val)
        /\ DrivenByMessage
        /\ UNCHANGED <<flags, v_ttl, echo, looping, swallowing, session>>
        /\ StopTtl \/ UNCHANGED running
    BY <1>25 DEF ApplyCommand
  <2> HIDE DEF m
  <2>4. {running_TTL', running_TTA'} \subseteq Nat
    BY <2>3 DEF StopTtl
  <2> QED BY <2>2, <2>3, <2>4, WriteOwn, HistoryOwn
<1>26. CASE \E newTtl \in Ttls : SetTtl(newTtl)
  BY <1>26 DEF SetTtl
<1>27. CASE OnMqttConnect
  BY <1>27 DEF OnMqttConnect
<1>28. CASE OnMqttDisconnect
  BY <1>28 DEF OnMqttDisconnect, Miscounted
<1>29. CASE TtlTick
  BY <1>29 DEF TtlTick
<1>30. CASE TtaTick
  BY <1>30 DEF TtaTick
<1>31. CASE \E t \in {"ttl", "tta"} : TickStop(t)
  BY <1>31 DEF TickStop
<1>32. CASE TimerCommand
  BY <1>32 DEF TimerCommand
<1>33. CASE BrokerStep
  BY <1>33 DEF BrokerStep
<1>34. CASE \E c \in ForeignCommands : ForeignCommand(c.val, c.retain)
  BY <1>34, HistoryOwn DEF ForeignCommand
<1>35. CASE Restart
  <2>1. pin' = LOW /\ curState' = LOW /\ v_ttl' = v_ttl
    BY <1>35 DEF Restart
  <2>2. /\ {lockupdate, rchangedflag, ttl_expired, tta_expired}'
             \subseteq BOOLEAN
        /\ {pending_mqtt_subscribe, pending_relay_state, suppressRetainedOn,
            uncommanded, dropped, undone, miscounted}' \subseteq BOOLEAN
    BY <1>35 DEF Restart
  <2>3. /\ running_TTL' = 0 /\ running_TTA' = 0
        /\ pendingEchoCount' = 0 /\ lastPub1State' = NotYet
        /\ loaded' = NotLoaded /\ swallowing' = NotLoaded
    BY <1>35 DEF Restart
  <2>4. lpc' \in LoopPositions
    BY <1>35 DEF Restart, LoopPositions
  <2>5. local' \in [ttl : BOOLEAN, tta : BOOLEAN, changed : BOOLEAN]
    BY <1>35 DEF Restart, NoFlags
  <2> QED BY <2>1, <2>2, <2>3, <2>4, <2>5
<1>36. CASE UNCHANGED vars
  BY <1>36 DEF vars
<1> QED
  BY <1>1, <1>2, <1>3, <1>4, <1>5, <1>6, <1>7, <1>8, <1>9, <1>10, <1>11,
     <1>12, <1>13, <1>14, <1>15, <1>16, <1>17, <1>18, <1>19, <1>20, <1>21,
     <1>22, <1>23, <1>24, <1>25, <1>26, <1>27, <1>28, <1>29, <1>30, <1>31,
     <1>32, <1>33, <1>34, <1>35, <1>36
  DEF Next, LoopStep, TcpStep, Message, DaemonStep, WorldStep

(* Every step of every task keeps every variable in its type: the count of *)
(* echoes stays a uint8_t although both tasks store what they loaded       *)
(* before (main.cpp:1016, MQTT_Processes.cpp:826), and the timer daemon's  *)
(* queue within its length.                                                *)
THEOREM RelayTypeCorrect == Spec => []TypeOK
<1>1. Init => TypeOK
  <2> SUFFICES ASSUME Init PROVE TypeOK
    OBVIOUS
  <2>1. Daemon!TimersOK
    BY RelayAssumption DEF Init, Daemon!TimersInit, Daemon!TimersOK
  <2>2. Broker!LinkOK
    <3>1. /\ up = << >> /\ down = << >> /\ retained = Broker!Nothing
          /\ connected = FALSE /\ brokerSub = FALSE
      BY DEF Init, Broker!LinkInit
    <3> QED BY <3>1, EmptyTyped DEF Broker!LinkOK
  <2>3. OwnOK
    <3> USE DEF Init, RelayInit
    <3>1. /\ {lockupdate, rchangedflag, ttl_expired, tta_expired}
               \subseteq BOOLEAN
          /\ {pending_mqtt_subscribe, pending_relay_state,
              suppressRetainedOn, uncommanded, dropped, undone, miscounted}
               \subseteq BOOLEAN
      BY RelayAssumption
    <3>2. /\ running_TTL = 0 /\ running_TTA = 0 /\ v_ttl \in Ttls
          /\ pendingEchoCount = 0 /\ lastPub1State = NotYet
          /\ loaded = NotLoaded /\ swallowing = NotLoaded
      OBVIOUS
    <3>3. pin = LOW /\ curState = LOW /\ lpc \in LoopPositions
      BY DEF LoopPositions
    <3>4. local \in [ttl : BOOLEAN, tta : BOOLEAN, changed : BOOLEAN]
      BY DEF NoFlags
    <3>5. pendingEchoCount \in 0 .. EchoMod - 1
      BY <3>2, RelayAssumption
    <3> QED BY <3>1, <3>2, <3>3, <3>4, <3>5 DEF OwnOK
  <2> QED BY <2>1, <2>2, <2>3, TypeParts
<1>2. TypeOK /\ [Next]_vars => TypeOK'
  <2> SUFFICES ASSUME TypeOK, [Next]_vars PROVE TypeOK'
    OBVIOUS
  <2>1. OwnOK /\ Daemon!TimersOK /\ Broker!LinkOK
    BY TypeParts
  <2>2. OwnOK' /\ Daemon!TimersOK' /\ Broker!LinkOK'
    BY <2>1, OwnStep, TimersStep, LinkStep
  <2> QED BY <2>2, TypeParts DEF TypeOK, OwnOK
<1> QED BY <1>1, <1>2, PTL DEF Spec

=============================================================================
