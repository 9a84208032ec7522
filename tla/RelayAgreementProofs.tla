------------------------ MODULE RelayAgreementProofs ------------------------
(***************************************************************************)
(* Relay and broker agree when all is quiet, for every number of commands, *)
(* outages, restarts and subscriptions, unless the code has lost one of    *)
(* the things that CountedRightAgreed names.                               *)
(*                                                                         *)
(* The messages to come are numbered: those in down first, then the        *)
(* packets in up.  The proof follows the last of them that tells the       *)
(* broker's word, and shows that the echoes the board still counts on are  *)
(* all ahead of it, so that it will be applied.                            *)
(***************************************************************************)
EXTENDS RelayProofs

USE DEF LOW, HIGH, Levels, TOG, NotYet, NotLoaded

(* Nothing of what the property excepts has happened.                      *)
NoneLost == ~dropped /\ ~undone /\ ~miscounted /\ left.failures = MaxFailures

(* The bound on refusals is never exceeded.                                *)
LeftOK ==
  /\ left \in [commands : Int, outages : Int, failures : Int, restarts : Int]
  /\ left.failures =< MaxFailures

(* From place j on there are only subscriptions in up.                     *)
OnlySubs(j) == \A i \in 1 .. Len(up) : i >= j => up[i] = "Subscribe"

(* The level in place j of up will be sent back by the broker.             *)
Heard(j) ==
  /\ up[j] \in Levels
  /\ brokerSub \/ \E i \in 1 .. Len(up) : i < j /\ up[i] = "Subscribe"

(* The places of the levels that are to come.                              *)
Slots ==
  {p \in 1 .. Len(down) + Len(up) :
     IF p =< Len(down) THEN down[p].val \in Levels ELSE Heard(p - Len(down))}

(* n different places in D, all of them before l.                          *)
Fits(n, D, l) ==
  \E f \in [1 .. n -> Nat] :
    /\ \A i \in 1 .. n : f[i] \in D /\ f[i] < l
    /\ \A i, j \in 1 .. n : i < j => f[i] < f[j]

(* How many levels the board will swallow, once a count that is being      *)
(* stored is stored; how many of them are already on their way.            *)
Expected == IF swallowing = NotLoaded THEN pendingEchoCount ELSE swallowing - 1
Owed     == IF lpc = "publish" THEN Expected - 1 ELSE Expected

(* A report is due; a report is being made.                                *)
Pending ==
  \/ rchangedflag
  \/ local.changed /\ lpc \in {"ttlOff", "ttlPublish", "ttaOn", "report"}
Publishing == lpc \in {"countEcho", "publish"}
Reporting  == Publishing \/ (Pending /\ pin # lastPub1State)

(* What the broker keeps once up is empty.                                 *)
Told(v) ==
  \/ \E j \in 1 .. Len(up) : up[j] = v /\ v \in Levels /\ OnlySubs(j + 1)
  \/ OnlySubs(1) /\ retained = v

(* Place p will bring what the broker keeps then.                          *)
LastWord(p) ==
  IF p =< Len(down)
  THEN OnlySubs(1) /\ down[p].val = retained /\ retained \in Levels
  ELSE /\ OnlySubs(p - Len(down) + 1)
       /\ up[p - Len(down)] = "Subscribe" \/ Heard(p - Len(down))

(* The broker's word is on its way, behind all that will be swallowed.     *)
Coming ==
  \E p \in 1 .. Len(down) + Len(up) : LastWord(p) /\ Fits(Owed, Slots, p)

(* The board has yet to subscribe or to announce its level.                *)
Greeting == ~connected \/ pending_relay_state \/ pending_mqtt_subscribe

-----------------------------------------------------------------------------
(* The parts of the inductive invariant.                                   *)

(* What is being reported is what the relay takes as reported, and right   *)
(* or about to be followed by another report.                              *)
ReportOK ==
  Publishing => /\ curState = lastPub1State
                /\ pin = lastPub1State \/ Pending

(* A connection has its subscription, or it is on its way or pending.      *)
SubscriptionOK ==
  /\ connected /\ ~brokerSub /\ ~pending_mqtt_subscribe
       => \E i \in 1 .. Len(up) : up[i] = "Subscribe"
  /\ ~brokerSub => down = << >>

(* Every echo that is counted on is on its way.                            *)
CountOK == Fits(Owed, Slots, Len(down) + Len(up) + 1)

(* The relay is at the level the broker is told, or something is still to  *)
(* happen that makes it so.                                                *)
AgreeOK ==
  \/ Reporting
  \/ Told(pin) \/ Told("Nothing")
  \/ Coming
  \/ Greeting

Agreement == ReportOK /\ SubscriptionOK /\ CountOK /\ AgreeOK

AgreeInv == LeftOK /\ (NoneLost => Agreement)

-----------------------------------------------------------------------------
(* Places in a set of numbers.                                             *)

LEMMA FitsNone == ASSUME NEW n \in Int, n =< 0, NEW D, NEW l
                  PROVE  Fits(n, D, l)
<1> DEFINE f == [i \in 1 .. n |-> 0]
<1>1. 1 .. n = {}
  OBVIOUS
<1>2. f \in [1 .. n -> Nat]
  OBVIOUS
<1> QED BY <1>1, <1>2 DEF Fits

(* The places can be moved by any map that keeps their order.              *)
LEMMA FitsMap ==
  ASSUME NEW n \in Int, NEW D, NEW E, NEW l, NEW k, Fits(n, D, l),
         NEW h, h \in [Nat -> Int],
         \A q \in D : q \in Nat /\ q < l => h[q] \in E /\ h[q] \in Nat /\ h[q] < k,
         \A q, r \in D : q \in Nat /\ r \in Nat /\ q < r => h[q] < h[r]
  PROVE  Fits(n, E, k)
<1>1. PICK f \in [1 .. n -> Nat] :
        /\ \A i \in 1 .. n : f[i] \in D /\ f[i] < l
        /\ \A i, j \in 1 .. n : i < j => f[i] < f[j]
  BY DEF Fits
<1> DEFINE g == [i \in 1 .. n |-> h[f[i]]]
<1>2. g \in [1 .. n -> Nat]
  BY <1>1
<1>3. \A i \in 1 .. n : g[i] \in E /\ g[i] < k
  BY <1>1
<1>4. \A i, j \in 1 .. n : i < j => g[i] < g[j]
  BY <1>1
<1> HIDE DEF g
<1> QED BY <1>2, <1>3, <1>4 DEF Fits

LEMMA FitsGrow ==
  ASSUME NEW n \in Int, NEW D, NEW E, NEW l \in Int, NEW k \in Int,
         Fits(n, D, l), D \subseteq E, l =< k
  PROVE  Fits(n, E, k)
<1> DEFINE h == [q \in Nat |-> q]
<1>1. h \in [Nat -> Int]
  OBVIOUS
<1>2. \A q \in Nat : h[q] = q
  OBVIOUS
<1> HIDE DEF h
<1>3. \A q \in D : q \in Nat /\ q < l => h[q] \in E /\ h[q] \in Nat /\ h[q] < k
  BY <1>2
<1>4. \A q, r \in D : q \in Nat /\ r \in Nat /\ q < r => h[q] < h[r]
  BY <1>2
<1> QED BY <1>1, <1>3, <1>4, FitsMap

(* Place c, which is not used, is taken away.                              *)
LEMMA FitsDrop ==
  ASSUME NEW n \in Int, NEW D, NEW E, NEW l \in Int, NEW c \in Nat,
         Fits(n, D, l), c \notin D, c < l,
         \A q \in D : q < c => q \in E,
         \A q \in D : q > c => q - 1 \in E
  PROVE  Fits(n, E, l - 1)
<1> DEFINE h == [q \in Nat |-> IF q < c THEN q ELSE q - 1]
<1>1. h \in [Nat -> Int]
  OBVIOUS
<1>2. \A q \in Nat : h[q] = IF q < c THEN q ELSE q - 1
  OBVIOUS
<1> HIDE DEF h
<1>3. \A q \in D : q \in Nat /\ q < l
        => h[q] \in E /\ h[q] \in Nat /\ h[q] < l - 1
  BY <1>2
<1>4. \A q, r \in D : q \in Nat /\ r \in Nat /\ q < r => h[q] < h[r]
  BY <1>2
<1> QED BY <1>1, <1>3, <1>4, FitsMap

(* A place is added behind place c.                                        *)
LEMMA FitsInsert ==
  ASSUME NEW n \in Int, NEW D, NEW E, NEW l \in Int, NEW c \in Nat,
         Fits(n, D, l),
         \A q \in D : q =< c => q \in E,
         \A q \in D : q > c => q + 1 \in E
  PROVE  /\ Fits(n, E, l + 1)
         /\ l =< c + 1 => Fits(n, E, l)
<1> DEFINE h == [q \in Nat |-> IF q =< c THEN q ELSE q + 1]
<1>1. h \in [Nat -> Int]
  OBVIOUS
<1>2. \A q \in Nat : h[q] = IF q =< c THEN q ELSE q + 1
  OBVIOUS
<1> HIDE DEF h
<1>3. \A q \in D : q \in Nat /\ q < l
        => h[q] \in E /\ h[q] \in Nat /\ h[q] < l + 1
  BY <1>2
<1>4. \A q, r \in D : q \in Nat /\ r \in Nat /\ q < r => h[q] < h[r]
  BY <1>2
<1>5. l =< c + 1 => \A q \in D : q \in Nat /\ q < l
        => h[q] \in E /\ h[q] \in Nat /\ h[q] < l
  BY <1>2
<1>6. Fits(n, E, l + 1)
  BY <1>1, <1>3, <1>4, FitsMap
<1>7. l =< c + 1 => Fits(n, E, l)
  BY <1>1, <1>4, <1>5, FitsMap
<1> QED BY <1>6, <1>7

(* The first place of all is taken away, and used.                         *)
LEMMA FitsTake ==
  ASSUME NEW n \in Int, NEW D, NEW E, NEW l \in Int, Fits(n, D, l),
         \A q \in D : q \in Nat /\ q > 0,
         \A q \in D : q > 1 => q - 1 \in E
  PROVE  /\ Fits(n - 1, E, l - 1)
         /\ n > 0 => l > 1
<1>1. PICK f \in [1 .. n -> Nat] :
        /\ \A i \in 1 .. n : f[i] \in D /\ f[i] < l
        /\ \A i, j \in 1 .. n : i < j => f[i] < f[j]
  BY DEF Fits
<1>2. CASE n =< 0
  BY <1>2, FitsNone
<1>3. CASE n > 0
  <2>1. f[1] \in D /\ f[1] < l
    BY <1>1, <1>3
  <2> DEFINE g == [i \in 1 .. n - 1 |-> f[i + 1] - 1]
  <2>2. \A i \in 1 .. n - 1 : /\ i + 1 \in 1 .. n
                              /\ f[i + 1] > f[1]
                              /\ f[i + 1] \in D /\ f[i + 1] < l
    BY <1>1, <1>3
  <2>3. \A i \in 1 .. n - 1 : f[i + 1] > 1 /\ f[i + 1] \in Nat
    BY <2>1, <2>2
  <2>4. g \in [1 .. n - 1 -> Nat]
    BY <2>3
  <2>5. \A i \in 1 .. n - 1 : g[i] \in E /\ g[i] < l - 1
    BY <2>2, <2>3
  <2>6. \A i, j \in 1 .. n - 1 : i < j => g[i] < g[j]
    BY <1>1, <2>2, <2>3
  <2> HIDE DEF g
  <2>7. Fits(n - 1, E, l - 1)
    BY <2>4, <2>5, <2>6 DEF Fits
  <2>8. l > 1
    BY <2>1
  <2> QED BY <2>7, <2>8
<1> QED BY <1>2, <1>3

(* There is no place before the first.                                     *)
LEMMA NoPlace ==
  ASSUME NEW n \in Int, NEW D, Fits(n, D, 1), \A q \in D : q \in Nat /\ q > 0
  PROVE  ~(n > 0)
  BY DEF Fits

(* A place is added at the end, and used.                                  *)
LEMMA FitsMore ==
  ASSUME NEW n \in Int, NEW D, NEW l \in Nat, Fits(n, D, l), l \in D
  PROVE  Fits(n + 1, D, l + 1)
<1>1. PICK f \in [1 .. n -> Nat] :
        /\ \A i \in 1 .. n : f[i] \in D /\ f[i] < l
        /\ \A i, j \in 1 .. n : i < j => f[i] < f[j]
  BY DEF Fits
<1> DEFINE g == [i \in 1 .. n + 1 |-> IF i = n + 1 THEN l ELSE f[i]]
<1>2. g \in [1 .. n + 1 -> Nat]
  BY <1>1
<1>3. \A i \in 1 .. n + 1 : g[i] \in D /\ g[i] < l + 1
  BY <1>1
<1>4. \A i, j \in 1 .. n + 1 : i < j => g[i] < g[j]
  BY <1>1
<1> HIDE DEF g
<1> QED BY <1>2, <1>3, <1>4 DEF Fits

LEMMA FitsLess ==
  ASSUME NEW n \in Int, NEW m \in Int, NEW D, NEW l, Fits(n, D, l), m =< n
  PROVE  Fits(m, D, l)
<1>1. PICK f \in [1 .. n -> Nat] :
        /\ \A i \in 1 .. n : f[i] \in D /\ f[i] < l
        /\ \A i, j \in 1 .. n : i < j => f[i] < f[j]
  BY DEF Fits
<1> DEFINE g == [i \in 1 .. m |-> f[i]]
<1>2. g \in [1 .. m -> Nat]
  BY <1>1
<1>3. \A i \in 1 .. m : g[i] = f[i] /\ i \in 1 .. n
  OBVIOUS
<1> HIDE DEF g
<1>4. \A i \in 1 .. m : g[i] \in D /\ g[i] < l
  BY <1>1, <1>3
<1>5. \A i, j \in 1 .. m : i < j => g[i] < g[j]
  BY <1>1, <1>3
<1> QED BY <1>2, <1>4, <1>5 DEF Fits

-----------------------------------------------------------------------------
(* What happens to the places when a queue changes.                        *)

LEMMA Queues ==
  ASSUME Broker!LinkOK
  PROVE  /\ up \in Seq(Levels \cup {"Subscribe"}) /\ down \in Seq(Broker!Messages)
         /\ Len(up) \in Nat /\ Len(down) \in Nat
         /\ \A i \in 1 .. Len(up) : up[i] \in Levels \/ up[i] = "Subscribe"
         /\ \A i \in 1 .. Len(down) : down[i] \in Broker!Messages
  BY DEF Broker!LinkOK, Broker!Subscribe

LEMMA SlotsNat == Broker!LinkOK =>
  \A q \in Slots : q \in Nat /\ q > 0 /\ q =< Len(down) + Len(up)
  BY Queues DEF Slots

LEMMA TailPlaces ==
  ASSUME NEW S, NEW q \in Seq(S), q # << >>
  PROVE  /\ Len(q) > 0 /\ Head(q) = q[1]
         /\ Len(Tail(q)) = Len(q) - 1
         /\ \A i \in 1 .. Len(q) - 1 : Tail(q)[i] = q[i + 1]
         /\ Tail(q) \in Seq(S)
  OBVIOUS

LEMMA AppendPlaces ==
  ASSUME NEW S, NEW q \in Seq(S), NEW e
  PROVE  /\ Len(Append(q, e)) = Len(q) + 1
         /\ \A i \in 1 .. Len(q) : Append(q, e)[i] = q[i]
         /\ Append(q, e)[Len(q) + 1] = e
  OBVIOUS

LEMMA ConcatOne ==
  ASSUME NEW S, NEW q \in Seq(S), NEW e \in S
  PROVE  q \o <<e>> = Append(q, e)
  OBVIOUS

(* The places of two steps whose queues and subscription are the same.     *)
LEMMA SamePlaces ==
  ASSUME UNCHANGED <<up, down, brokerSub, retained>>
  PROVE  /\ Slots' = Slots
         /\ \A v : Told(v)' = Told(v)
         /\ \A p : LastWord(p)' = LastWord(p)
  BY DEF Slots, Heard, Told, LastWord, OnlySubs

(* The next message is taken.                                              *)
LEMMA ReceivePlaces ==
  ASSUME Broker!LinkOK, down # << >>, down' = Tail(down),
         UNCHANGED <<up, brokerSub, retained>>
  PROVE  /\ Len(down') = Len(down) - 1 /\ Len(down) > 0
         /\ \A q \in Slots : q > 1 => q - 1 \in Slots'
         /\ 1 \in Slots <=> Head(down).val \in Levels
         /\ \A p \in Nat : p > 1 /\ LastWord(p) => LastWord(p - 1)'
         /\ LastWord(1) => \A v : v = Head(down).val => Told(v)'
<1> USE Queues
<1>1. /\ Len(down) > 0 /\ Head(down) = down[1]
      /\ Len(down') = Len(down) - 1
      /\ \A i \in 1 .. Len(down) - 1 : down'[i] = down[i + 1]
  BY TailPlaces
<1>2. \A j : Heard(j)' = Heard(j) /\ OnlySubs(j)' = OnlySubs(j)
  BY DEF Heard, OnlySubs
<1>3. \A q \in Slots : q > 1 => q - 1 \in Slots'
  <2> SUFFICES ASSUME NEW q \in Slots, q > 1 PROVE q - 1 \in Slots'
    OBVIOUS
  <2>1. q \in 1 .. Len(down) + Len(up)
    BY DEF Slots
  <2>2. q - 1 \in 1 .. Len(down') + Len(up')
    BY <1>1, <2>1
  <2>3. CASE q =< Len(down)
    BY <1>1, <2>1, <2>2, <2>3 DEF Slots
  <2>4. CASE q > Len(down)
    <3>1. q - 1 - Len(down') = q - Len(down) /\ ~(q - 1 =< Len(down'))
      BY <1>1, <2>1, <2>4
    <3>2. Heard(q - Len(down))
      BY <2>1, <2>4 DEF Slots
    <3>3. Heard(q - 1 - Len(down))'
      BY <1>2, <3>1, <3>2
    <3> QED BY <2>2, <3>1, <3>3 DEF Slots
  <2> QED BY <2>1, <2>3, <2>4
<1>4. 1 \in Slots <=> Head(down).val \in Levels
  BY <1>1 DEF Slots
<1>5. \A p \in Nat : p > 1 /\ LastWord(p) => LastWord(p - 1)'
  <2> SUFFICES ASSUME NEW p \in Nat, p > 1, LastWord(p)
               PROVE  LastWord(p - 1)'
    OBVIOUS
  <2>1. CASE p =< Len(down)
    BY <1>1, <1>2, <2>1 DEF LastWord
  <2>2. CASE p > Len(down)
    <3>1. p - 1 - Len(down') = p - Len(down) /\ ~(p - 1 =< Len(down'))
      BY <1>1, <2>2
    <3> QED BY <1>2, <2>2, <3>1 DEF LastWord
  <2> QED BY <2>1, <2>2
<1>6. LastWord(1) => \A v : v = Head(down).val => Told(v)'
  BY <1>1, <1>2 DEF LastWord, Told
<1> QED BY <1>1, <1>3, <1>4, <1>5, <1>6

(* A level is sent.                                                        *)
LEMMA SendPlaces ==
  ASSUME Broker!LinkOK, NEW v \in Levels, up' = Append(up, v),
         UNCHANGED <<down, brokerSub, retained>>
  PROVE  /\ Len(up') = Len(up) + 1
         /\ Slots \subseteq Slots'
         /\ Told(v)'
         /\ EchoComes => \A p : p = Len(down) + Len(up) + 1
                                  => p \in Slots' /\ LastWord(p)'
<1> USE Queues
<1>1. /\ Len(up') = Len(up) + 1
      /\ \A i \in 1 .. Len(up) : up'[i] = up[i]
      /\ up'[Len(up) + 1] = v
  BY AppendPlaces
<1>2. \A j \in 1 .. Len(up) : Heard(j) => Heard(j)'
  BY <1>1 DEF Heard
<1>3. Slots \subseteq Slots'
  <2> SUFFICES ASSUME NEW q \in Slots PROVE q \in Slots'
    OBVIOUS
  <2>1. q \in 1 .. Len(down) + Len(up)
    BY DEF Slots
  <2>2. q \in 1 .. Len(down') + Len(up')
    BY <1>1, <2>1
  <2>3. CASE q =< Len(down)
    BY <2>2, <2>3 DEF Slots
  <2>4. CASE q > Len(down)
    <3>1. q - Len(down) \in 1 .. Len(up) /\ Heard(q - Len(down))
      BY <2>1, <2>4 DEF Slots
    <3>2. Heard(q - Len(down))'
      BY <1>2, <3>1
    <3> QED BY <2>2, <2>4, <3>2 DEF Slots
  <2> QED BY <2>1, <2>3, <2>4
<1>4. \A j : j = Len(up) + 2 => OnlySubs(j)'
  BY <1>1 DEF OnlySubs
<1>5. Told(v)'
  <2>1. PICK j \in Nat : j = Len(up) + 1
    OBVIOUS
  <2>2. j \in 1 .. Len(up') /\ up'[j] = v /\ OnlySubs(j + 1)'
    BY <1>1, <1>4, <2>1
  <2> QED BY <2>2 DEF Told
<1>6. ASSUME EchoComes, NEW p, p = Len(down) + Len(up) + 1
      PROVE  p \in Slots' /\ LastWord(p)'
  <2>1. PICK j \in Nat : j = Len(up) + 1
    OBVIOUS
  <2>2. Heard(j)'
    BY <1>1, <1>6, <2>1 DEF Heard, EchoComes, Broker!Subscribe
  <2>3. p - Len(down') = j /\ ~(p =< Len(down')) /\ p \in 1 .. Len(down') + Len(up')
    BY <1>1, <1>6, <2>1
  <2>4. OnlySubs(j + 1)'
    BY <1>4, <2>1
  <2>5. Heard(p - Len(down))' /\ OnlySubs(p - Len(down) + 1)'
    BY <2>2, <2>3, <2>4
  <2> QED BY <2>3, <2>5 DEF Slots, LastWord
<1> QED BY <1>1, <1>3, <1>5, <1>6

(* A subscription at the end of up brings the retained message.           *)
LEMMA LastIsWord ==
  ASSUME Len(up') \in Nat, Len(up') > 0, up'[Len(up')] = "Subscribe",
         Len(down') \in Nat,
         NEW p, p = Len(down') + Len(up')
  PROVE  LastWord(p)'
<1>1. p - Len(down') = Len(up') /\ ~(p =< Len(down')) /\ p \in Int
  OBVIOUS
<1>2. OnlySubs(p - Len(down) + 1)'
  BY <1>1 DEF OnlySubs
<1> QED BY <1>1, <1>2 DEF LastWord

(* The last of a queue to which subscriptions were appended is one.        *)
LEMMA LastOfAppended ==
  ASSUME NEW k \in Nat, NEW m \in Nat, m > 0,
         NEW s, \A i \in 1 .. m : s[i] = "Subscribe",
         NEW u, Len(u) = k + m,
         \A i \in k + 1 .. Len(u) : u[i] = s[i - k]
  PROVE  Len(u) \in 1 .. Len(u) /\ u[Len(u)] = "Subscribe"
<1> DEFINE n == k + m
<1>1. n \in k + 1 .. Len(u) /\ n \in 1 .. n /\ n - k = m /\ m \in 1 .. m
  OBVIOUS
<1> HIDE DEF n
<1>2. u[n] = s[m] /\ s[m] = "Subscribe"
  BY <1>1
<1> QED BY <1>1, <1>2 DEF n

(* The subscriptions are sent.                                             *)
LEMMA SubscribePlaces ==
  ASSUME Broker!LinkOK,
         up' = up \o [i \in 1 .. Subscriptions |-> Broker!Subscribe],
         UNCHANGED <<down, brokerSub, retained>>
  PROVE  /\ Len(up') = Len(up) + Subscriptions
         /\ Slots \subseteq Slots'
         /\ \E i \in 1 .. Len(up') : up'[i] = "Subscribe"
         /\ \A p : p = Len(down') + Len(up') => LastWord(p)'
<1> USE Queues
<1> DEFINE s == [i \in 1 .. Subscriptions |-> "Subscribe"]
<1>1. /\ s \in Seq({"Subscribe"}) /\ Len(s) = Subscriptions
      /\ Subscriptions \in Nat /\ Subscriptions > 0
      /\ \A i \in 1 .. Subscriptions : s[i] = "Subscribe"
  BY RelayAssumption
<1>2. up' = up \o s
  BY DEF Broker!Subscribe
<1> HIDE DEF s
<1>3. /\ Len(up') = Len(up) + Subscriptions
      /\ \A i \in 1 .. Len(up) : up'[i] = up[i]
      /\ \A i \in Len(up) + 1 .. Len(up') : up'[i] = s[i - Len(up)]
  BY <1>1, <1>2
<1>4. Len(up') \in Nat /\ Len(up') > Len(up) /\ Len(up') > 0
  BY <1>1, <1>3
<1>5. Len(down') \in Nat
  OBVIOUS
<1>6. Len(up') \in 1 .. Len(up') /\ up'[Len(up')] = "Subscribe"
  BY <1>1, <1>3, LastOfAppended
<1>7. \A j \in 1 .. Len(up) : Heard(j) => Heard(j)'
  BY <1>1, <1>3 DEF Heard
<1>8. Slots \subseteq Slots'
  <2> SUFFICES ASSUME NEW q \in Slots PROVE q \in Slots'
    OBVIOUS
  <2>1. q \in 1 .. Len(down) + Len(up)
    BY DEF Slots
  <2>2. q \in 1 .. Len(down') + Len(up')
    BY <1>1, <1>3, <2>1
  <2>3. CASE q =< Len(down)
    BY <2>2, <2>3 DEF Slots
  <2>4. CASE q > Len(down)
    <3>1. q - Len(down) \in 1 .. Len(up) /\ Heard(q - Len(down))
      BY <2>1, <2>4 DEF Slots
    <3>2. Heard(q - Len(down))'
      BY <1>7, <3>1
    <3> QED BY <2>2, <2>4, <3>2 DEF Slots
  <2> QED BY <2>1, <2>3, <2>4
<1>9. ASSUME NEW p, p = Len(down') + Len(up') PROVE LastWord(p)'
  BY <1>4, <1>5, <1>6, <1>9, LastIsWord
<1> QED BY <1>3, <1>6, <1>8, <1>9

(* The first packet of up is taken by the broker: what is behind it.       *)
LEMMA TakenPlaces ==
  ASSUME Broker!LinkOK, up # << >>, up' = Tail(up),
         brokerSub' = (brokerSub \/ Head(up) = "Subscribe")
  PROVE  /\ Len(up) > 0 /\ Len(up') = Len(up) - 1 /\ Head(up) = up[1]
         /\ \A j \in 2 .. Len(up) : /\ Heard(j) => Heard(j - 1)'
                                    /\ up'[j - 1] = up[j]
         /\ \A j \in Nat : j > 0 /\ OnlySubs(j + 1) => OnlySubs(j)'
         /\ Heard(1) => brokerSub
<1> USE Queues
<1>1. /\ Len(up) > 0 /\ Head(up) = up[1]
      /\ Len(up') = Len(up) - 1
      /\ \A i \in 1 .. Len(up) - 1 : up'[i] = up[i + 1]
  BY TailPlaces
<1>2. \A j \in 2 .. Len(up) : j - 1 \in 1 .. Len(up) - 1 /\ up'[j - 1] = up[j]
  BY <1>1
<1>3. ASSUME NEW j \in 2 .. Len(up), Heard(j) PROVE Heard(j - 1)'
  <2>1. up'[j - 1] \in Levels
    BY <1>2, <1>3 DEF Heard
  <2>2. brokerSub' \/ \E i \in 1 .. Len(up') : i < j - 1 /\ up'[i] = "Subscribe"
    <3>1. CASE brokerSub
      BY <3>1
    <3>2. CASE ~brokerSub
      <4>1. PICK i \in 1 .. Len(up) : i < j /\ up[i] = "Subscribe"
        BY <1>3, <3>2 DEF Heard
      <4>2. CASE i = 1
        BY <1>1, <4>1, <4>2
      <4>3. CASE i > 1
        BY <1>1, <1>2, <4>1, <4>3
      <4> QED BY <4>1, <4>2, <4>3
    <3> QED BY <3>1, <3>2
  <2> QED BY <2>1, <2>2 DEF Heard
<1>4. \A j \in Nat : j > 0 /\ OnlySubs(j + 1) => OnlySubs(j)'
  BY <1>1 DEF OnlySubs
<1>5. Heard(1) => brokerSub
  BY DEF Heard
<1> QED BY <1>1, <1>2, <1>3, <1>4, <1>5

(* The places if the message for the packet taken gets the packet's.       *)
Replaced ==
  /\ Len(down') + Len(up') = Len(down) + Len(up)
  /\ Slots \subseteq Slots'
  /\ \A p \in 1 .. Len(down) + Len(up) : LastWord(p) => LastWord(p)'

(* The places if there is no message for it.                               *)
Removed ==
  /\ Len(down') + Len(up') = Len(down) + Len(up) - 1
  /\ Len(down) + 1 \notin Slots
  /\ \A q \in Slots : q < Len(down) + 1 => q \in Slots'
  /\ \A q \in Slots : q > Len(down) + 1 => q - 1 \in Slots'
  /\ \A p \in 1 .. Len(down) + Len(up) : LastWord(p) =>
       IF p > Len(down) + 1 THEN LastWord(p - 1)' ELSE Told("Nothing")'

LEMMA AppendedPlaces ==
  ASSUME Broker!LinkOK, up # << >>, up' = Tail(up),
         brokerSub' = (brokerSub \/ Head(up) = "Subscribe"),
         NEW m, down' = Append(down, m), retained' = m.val,
         retained' \in Levels,
         \/ Head(up) = "Subscribe" /\ retained' = retained
         \/ Head(up) \in Levels
  PROVE  Replaced
<1> USE Queues, TakenPlaces
<1>1. Len(down) \in Nat /\ Len(up) \in Nat
  OBVIOUS
<1>2. /\ Len(down') = Len(down) + 1
      /\ \A i \in 1 .. Len(down) : down'[i] = down[i]
      /\ down'[Len(down) + 1] = m
  BY AppendPlaces
<1>3. Len(down') + Len(up') = Len(down) + Len(up)
  BY <1>2
<1>4. ASSUME NEW q \in Slots PROVE q \in Slots'
  <2>1. q \in 1 .. Len(down) + Len(up)
    BY DEF Slots
  <2>2. CASE q =< Len(down)
    BY <1>2, <1>3, <1>4, <2>1, <2>2 DEF Slots
  <2>3. CASE q = Len(down) + 1
    BY <1>2, <1>3, <2>1, <2>3 DEF Slots
  <2>4. CASE q > Len(down) + 1
    <3>1. q - Len(down) \in 2 .. Len(up)
      BY <2>1, <2>4
    <3>2. PICK k \in 2 .. Len(up) : k = q - Len(down)
      BY <3>1
    <3>3. Heard(k)
      BY <1>4, <2>1, <2>4, <3>2 DEF Slots
    <3>4. Heard(k - 1)'
      BY <3>3
    <3>5. q - Len(down') = k - 1 /\ ~(q =< Len(down'))
      BY <1>2, <2>1, <2>4, <3>2
    <3>6. Heard(q - Len(down))'
      BY <3>4, <3>5
    <3> QED BY <1>3, <2>1, <3>5, <3>6 DEF Slots
  <2> QED BY <2>1, <2>2, <2>3, <2>4
<1>5. ASSUME NEW p \in 1 .. Len(down) + Len(up), LastWord(p) PROVE LastWord(p)'
  <2>1. CASE p =< Len(down)
    <3>1. OnlySubs(1) /\ down[p].val = retained
      BY <1>5, <2>1 DEF LastWord
    <3>2. Head(up) = "Subscribe"
      BY <3>1 DEF OnlySubs
    <3>3. OnlySubs(2)
      BY <3>1 DEF OnlySubs
    <3>4. OnlySubs(1)'
      BY <3>3
    <3> QED BY <1>2, <1>5, <2>1, <3>1, <3>2, <3>4 DEF LastWord
  <2>2. CASE p = Len(down) + 1
    <3>1. OnlySubs(p - Len(down) + 1) /\ p - Len(down) + 1 = 2
      BY <1>5, <2>2 DEF LastWord
    <3>2. OnlySubs(1)'
      <4>1. OnlySubs(2)
        BY <3>1
      <4> QED BY <4>1
    <3> QED BY <1>2, <2>2, <3>2 DEF LastWord
  <2>3. CASE p > Len(down) + 1
    <3>1. p - Len(down) \in 2 .. Len(up)
      BY <2>3
    <3>2. PICK k \in 2 .. Len(up) : k = p - Len(down)
      BY <3>1
    <3>3. OnlySubs(p - Len(down) + 1) /\ (up[k] = "Subscribe" \/ Heard(k))
      BY <1>5, <2>3, <3>2 DEF LastWord
    <3>4. p - Len(down) + 1 = k + 1 /\ k \in Nat /\ k > 0
      BY <1>1, <3>2
    <3>5. OnlySubs(k)'
      BY <3>3, <3>4
    <3>6. p - Len(down') = k - 1 /\ ~(p =< Len(down')) /\ p - Len(down') + 1 = k
      BY <1>2, <2>3, <3>2
    <3>7. up'[k - 1] = "Subscribe" \/ Heard(k - 1)'
      BY <3>3
    <3>8. OnlySubs(p - Len(down) + 1)'
      BY <3>5, <3>6
    <3>9. up'[p - Len(down')] = "Subscribe" \/ Heard(p - Len(down))'
      BY <3>6, <3>7
    <3> QED BY <3>6, <3>8, <3>9 DEF LastWord
  <2> QED BY <2>1, <2>2, <2>3
<1> QED BY <1>3, <1>4, <1>5 DEF Replaced

LEMMA RemovedPlaces ==
  ASSUME Broker!LinkOK, up # << >>, up' = Tail(up),
         brokerSub' = (brokerSub \/ Head(up) = "Subscribe"), down' = down,
         \/ Head(up) = "Subscribe" /\ retained = "Nothing" /\ retained' = retained
         \/ Head(up) \in Levels /\ ~brokerSub /\ down = << >>
  PROVE  Removed
<1> USE Queues, TakenPlaces
<1>1. Len(down) \in Nat /\ Len(up) \in Nat /\ Len(down') = Len(down)
  OBVIOUS
<1>2. Len(down') + Len(up') = Len(down) + Len(up) - 1
  BY <1>1
<1>3. ~Heard(1)
  BY DEF Heard
<1>4. Len(down) + 1 \notin Slots
  <2>1. Len(down) + 1 - Len(down) = 1 /\ ~(Len(down) + 1 =< Len(down))
    BY <1>1
  <2> QED BY <1>3, <2>1 DEF Slots
<1>5. ASSUME NEW q \in Slots, q < Len(down) + 1 PROVE q \in Slots'
  <2>1. q \in 1 .. Len(down) + Len(up) /\ q =< Len(down)
    BY <1>1, <1>5 DEF Slots
  <2>2. q \in 1 .. Len(down') + Len(up') /\ q =< Len(down')
    BY <1>1, <1>2, <2>1
  <2>3. down'[q].val \in Levels
    BY <2>1 DEF Slots
  <2> QED BY <2>2, <2>3 DEF Slots
<1>6. ASSUME NEW q \in Slots, q > Len(down) + 1 PROVE q - 1 \in Slots'
  <2>1. q \in 1 .. Len(down) + Len(up)
    BY DEF Slots
  <2>2. q - Len(down) \in 2 .. Len(up)
    BY <1>1, <1>6, <2>1
  <2>3. PICK k \in 2 .. Len(up) : k = q - Len(down)
    BY <2>2
  <2>4. Heard(k)
    BY <1>1, <1>6, <2>1, <2>3 DEF Slots
  <2>5. Heard(k - 1)'
    BY <2>4
  <2>6. /\ q - 1 - Len(down') = k - 1 /\ ~(q - 1 =< Len(down'))
        /\ q - 1 \in 1 .. Len(down') + Len(up')
    BY <1>1, <1>2, <1>6, <2>1, <2>3
  <2>7. Heard(q - 1 - Len(down))'
    BY <2>5, <2>6
  <2> QED BY <2>6, <2>7 DEF Slots
<1>7. ASSUME NEW p \in 1 .. Len(down) + Len(up), LastWord(p)
      PROVE  IF p > Len(down) + 1 THEN LastWord(p - 1)' ELSE Told("Nothing")'
  <2>1. CASE p =< Len(down)
    <3>1. OnlySubs(1) /\ retained \in Levels /\ down # << >>
      BY <1>7, <2>1 DEF LastWord
    <3>2. Head(up) = "Subscribe"
      BY <3>1 DEF OnlySubs
    <3> QED BY <3>1, <3>2
  <2>2. CASE p = Len(down) + 1
    <3>1. /\ p - Len(down) = 1 /\ p - Len(down) + 1 = 2
          /\ ~(p =< Len(down)) /\ ~(p > Len(down) + 1)
      BY <1>1, <2>2
    <3>2. OnlySubs(p - Len(down) + 1) /\ (up[1] = "Subscribe" \/ Heard(1))
      BY <1>7, <3>1 DEF LastWord
    <3>3. OnlySubs(2) /\ Head(up) = "Subscribe"
      BY <1>3, <3>1, <3>2
    <3>4. OnlySubs(1)' /\ retained' = "Nothing"
      BY <3>3
    <3>5. Told("Nothing")'
      BY <3>4 DEF Told
    <3> QED BY <3>1, <3>5
  <2>3. CASE p > Len(down) + 1
    <3>1. p - Len(down) \in 2 .. Len(up)
      BY <1>1, <2>3
    <3>2. PICK k \in 2 .. Len(up) : k = p - Len(down)
      BY <3>1
    <3>3. OnlySubs(p - Len(down) + 1) /\ (up[k] = "Subscribe" \/ Heard(k))
      BY <1>1, <1>7, <2>3, <3>2 DEF LastWord
    <3>4. p - Len(down) + 1 = k + 1 /\ k \in Nat /\ k > 0
      BY <1>1, <3>2
    <3>5. OnlySubs(k)'
      BY <3>3, <3>4
    <3>6. /\ p - 1 - Len(down') = k - 1 /\ ~(p - 1 =< Len(down'))
          /\ p - 1 - Len(down') + 1 = k
      BY <1>1, <2>3, <3>2
    <3>7. up'[k - 1] = "Subscribe" \/ Heard(k - 1)'
      BY <3>3
    <3>8. OnlySubs(p - 1 - Len(down) + 1)'
      BY <3>5, <3>6
    <3>9. up'[p - 1 - Len(down')] = "Subscribe" \/ Heard(p - 1 - Len(down))'
      BY <3>6, <3>7
    <3>10. LastWord(p - 1)'
      BY <3>6, <3>8, <3>9 DEF LastWord
    <3> QED BY <2>3, <3>10
  <2> QED BY <1>1, <2>1, <2>2, <2>3
<1> QED BY <1>2, <1>4, <1>5, <1>6, <1>7 DEF Removed

(* The broker takes a packet: its message takes the place, or there is     *)
(* none, and what the broker is told stays so.                             *)
LEMMA BrokerPlaces ==
  ASSUME Broker!LinkOK, retained \in Levels \cup {"Nothing"},
         ~brokerSub => down = << >>, Broker!BrokerReceive
  PROVE  /\ Len(up) > 0
         /\ Replaced \/ Removed
         /\ \A v : Told(v) => Told(v)'
         /\ UNCHANGED connected
         /\ brokerSub' = (brokerSub \/ Head(up) = "Subscribe")
         /\ ~brokerSub' => down' = << >>
<1> USE Queues
<1>1. /\ up # << >> /\ up' = Tail(up) /\ UNCHANGED connected
      /\ brokerSub' = (brokerSub \/ Head(up) = "Subscribe")
  BY DEF Broker!BrokerReceive, Broker!Subscribe, Broker!LinkOK
<1>2. Head(up) \in Levels \/ Head(up) = "Subscribe"
  BY <1>1
<1>3. ASSUME NEW v, Told(v) PROVE Told(v)'
  <2>1. CASE \E j \in 1 .. Len(up) : up[j] = v /\ v \in Levels /\ OnlySubs(j + 1)
    <3>1. PICK j \in 1 .. Len(up) : up[j] = v /\ v \in Levels /\ OnlySubs(j + 1)
      BY <2>1
    <3>2. OnlySubs(j)'
      BY <1>1, <3>1, TakenPlaces
    <3>3. CASE j = 1
      <4>1. retained' = v
        BY <1>1, <3>1, <3>3, TakenPlaces
           DEF Broker!BrokerReceive, Broker!Subscribe
      <4> QED BY <3>2, <3>3, <4>1 DEF Told
    <3>4. CASE j > 1
      <4>1. PICK k \in 1 .. Len(up) - 1 : k + 1 = j /\ k = j - 1
        <5>1. j - 1 \in 1 .. Len(up) - 1 /\ (j - 1) + 1 = j
          BY <3>4
        <5> QED BY <5>1
      <4>2. Len(up') = Len(up) - 1 /\ up'[k] = v
        BY <1>1, <3>1, <3>4, <4>1, TakenPlaces
      <4>3. OnlySubs(k + 1)'
        BY <3>2, <4>1
      <4> QED BY <3>1, <4>1, <4>2, <4>3 DEF Told
    <3> QED BY <3>3, <3>4
  <2>2. CASE OnlySubs(1) /\ retained = v
    <3>1. Head(up) = "Subscribe" /\ OnlySubs(2)
      BY <1>1, <2>2, TakenPlaces DEF OnlySubs
    <3>2. retained' = v
      BY <2>2, <3>1 DEF Broker!BrokerReceive, Broker!Subscribe
    <3>3. OnlySubs(1)'
      <4>1. OnlySubs(1 + 1)
        BY <3>1
      <4> QED BY <1>1, <4>1, TakenPlaces
    <3> QED BY <3>2, <3>3 DEF Told
  <2> QED BY <1>3, <2>1, <2>2 DEF Told
<1>4. CASE Head(up) = "Subscribe" /\ retained # "Nothing"
  <2>1. /\ down' = Append(down, Broker!Message(retained, TRUE, FALSE))
        /\ retained' = retained
    BY <1>4 DEF Broker!BrokerReceive, Broker!Subscribe, Broker!Nothing
  <2>2. Broker!Message(retained, TRUE, FALSE).val = retained
    BY DEF Broker!Message
  <2> QED BY <1>1, <1>3, <1>4, <2>1, <2>2, AppendedPlaces, TakenPlaces
<1>5. CASE Head(up) = "Subscribe" /\ retained = "Nothing"
  <2>1. down' = down /\ retained' = retained
    BY <1>5 DEF Broker!BrokerReceive, Broker!Subscribe, Broker!Nothing
  <2> QED BY <1>1, <1>3, <1>5, <2>1, RemovedPlaces, TakenPlaces
<1>6. CASE Head(up) \in Levels /\ brokerSub
  <2>1. /\ down' = down \o <<Broker!Message(Head(up), FALSE, TRUE)>>
        /\ retained' = Head(up)
    BY <1>6 DEF Broker!BrokerReceive, Broker!Subscribe, Broker!Delivery
  <2>2. down' = Append(down, Broker!Message(Head(up), FALSE, TRUE))
    <3>1. Broker!Message(Head(up), FALSE, TRUE) \in Broker!Messages
      BY <1>6 DEF Broker!Message, Broker!Messages, Broker!Payloads
    <3> QED BY <2>1, <3>1, ConcatOne
  <2>3. Broker!Message(Head(up), FALSE, TRUE).val = Head(up)
    BY DEF Broker!Message
  <2> QED BY <1>1, <1>3, <1>6, <2>1, <2>2, <2>3, AppendedPlaces, TakenPlaces
<1>7. CASE Head(up) \in Levels /\ ~brokerSub
  <2>1. down' = down \o << >>
    BY <1>7 DEF Broker!BrokerReceive, Broker!Subscribe, Broker!Delivery
  <2>2. down' = down /\ down = << >>
    BY <1>7, <2>1
  <2> QED BY <1>1, <1>3, <1>7, <2>2, RemovedPlaces, TakenPlaces
<1> QED BY <1>2, <1>4, <1>5, <1>6, <1>7

(* All places are before the end of what holds them.                       *)
LEMMA FitsAll ==
  ASSUME NEW n \in Int, NEW D, NEW l, NEW k, Fits(n, D, l),
         \A q \in D : q < k
  PROVE  Fits(n, D, k)
<1>1. PICK f \in [1 .. n -> Nat] :
        /\ \A i \in 1 .. n : f[i] \in D /\ f[i] < l
        /\ \A i, j \in 1 .. n : i < j => f[i] < f[j]
  BY DEF Fits
<1>2. \A i \in 1 .. n : f[i] \in D /\ f[i] < k
  BY <1>1
<1> QED BY <1>1, <1>2 DEF Fits

(* Another client's message reaches the board behind those in down.        *)
LEMMA ForeignPlaces ==
  ASSUME Broker!LinkOK, NEW m, down' = Append(down, m),
         UNCHANGED <<up, brokerSub>>
  PROVE  /\ Len(down') + Len(up') = Len(down) + Len(up) + 1
         /\ \A q \in Slots : q =< Len(down) => q \in Slots'
         /\ \A q \in Slots : q > Len(down) => q + 1 \in Slots'
         /\ \A p \in 1 .. Len(down) + Len(up) : LastWord(p) =>
              IF p > Len(down) THEN LastWord(p + 1)'
                               ELSE retained' = retained => LastWord(p)'
         /\ OnlySubs(1) /\ retained' \in Levels /\ m.val = retained'
              => \A p : p = Len(down) + 1 => LastWord(p)'
<1> USE Queues
<1>1. Len(down) \in Nat /\ Len(up) \in Nat
  OBVIOUS
<1>2. /\ Len(down') = Len(down) + 1
      /\ \A i \in 1 .. Len(down) : down'[i] = down[i]
      /\ down'[Len(down) + 1] = m
  BY AppendPlaces
<1>3. \A j : (Heard(j)' <=> Heard(j)) /\ (OnlySubs(j)' <=> OnlySubs(j))
  BY DEF Heard, OnlySubs
<1>4. Len(down') + Len(up') = Len(down) + Len(up) + 1
  BY <1>1, <1>2
<1>5. ASSUME NEW q \in Slots, q =< Len(down) PROVE q \in Slots'
  <2>1. q \in 1 .. Len(down) /\ down[q].val \in Levels
    BY <1>1, <1>5 DEF Slots
  <2>2. q \in 1 .. Len(down') + Len(up') /\ q =< Len(down')
    BY <1>1, <1>2, <2>1
  <2> QED BY <1>2, <2>1, <2>2 DEF Slots
<1>6. ASSUME NEW q \in Slots, q > Len(down) PROVE q + 1 \in Slots'
  <2>1. q \in 1 .. Len(down) + Len(up) /\ Heard(q - Len(down))
    BY <1>1, <1>6 DEF Slots
  <2>2. /\ q + 1 - Len(down') = q - Len(down) /\ ~(q + 1 =< Len(down'))
        /\ q + 1 \in 1 .. Len(down') + Len(up')
    BY <1>1, <1>2, <1>6, <2>1
  <2>3. Heard(q + 1 - Len(down))'
    BY <1>3, <2>1, <2>2
  <2> QED BY <2>2, <2>3 DEF Slots
<1>7. ASSUME NEW p \in 1 .. Len(down) + Len(up), LastWord(p)
      PROVE  IF p > Len(down) THEN LastWord(p + 1)'
                              ELSE retained' = retained => LastWord(p)'
  <2>1. CASE p > Len(down)
    <3>1. /\ p + 1 - Len(down') = p - Len(down) /\ ~(p + 1 =< Len(down'))
          /\ ~(p =< Len(down))
      BY <1>1, <1>2, <2>1
    <3>2. /\ OnlySubs(p - Len(down) + 1)
          /\ up[p - Len(down)] = "Subscribe" \/ Heard(p - Len(down))
      BY <1>7, <3>1 DEF LastWord
    <3>3. OnlySubs(p + 1 - Len(down) + 1)'
      BY <1>3, <3>1, <3>2
    <3>4. up'[p + 1 - Len(down')] = "Subscribe" \/ Heard(p + 1 - Len(down))'
      BY <1>3, <3>1, <3>2
    <3>5. LastWord(p + 1)'
      BY <3>1, <3>3, <3>4 DEF LastWord
    <3> QED BY <2>1, <3>5
  <2>2. CASE ~(p > Len(down))
    <3>1. p =< Len(down) /\ p =< Len(down') /\ p \in 1 .. Len(down)
      BY <1>1, <1>2, <2>2
    <3>2. OnlySubs(1) /\ down[p].val = retained /\ retained \in Levels
      BY <1>7, <3>1 DEF LastWord
    <3>3. retained' = retained => LastWord(p)'
      BY <1>2, <1>3, <3>1, <3>2 DEF LastWord
    <3> QED BY <2>2, <3>3
  <2> QED BY <2>1, <2>2
<1>8. ASSUME OnlySubs(1), retained' \in Levels, m.val = retained',
             NEW p, p = Len(down) + 1
      PROVE  LastWord(p)'
  <2>1. p =< Len(down') /\ down'[p] = m
    BY <1>1, <1>2, <1>8
  <2> QED BY <1>3, <1>8, <2>1 DEF LastWord
<1> QED BY <1>4, <1>5, <1>6, <1>7, <1>8

(* With only subscriptions in up, all places are in down.                  *)
LEMMA DownPlaces ==
  ASSUME Broker!LinkOK, OnlySubs(1)
  PROVE  \A q \in Slots : q =< Len(down)
<1> USE Queues
<1> SUFFICES ASSUME NEW q \in Slots, q > Len(down) PROVE FALSE
  <2>1. Len(down) \in Nat /\ \A q \in Slots : q \in Nat
    BY SlotsNat
  <2> QED BY <2>1
<1>1. q \in 1 .. Len(down) + Len(up) /\ Heard(q - Len(down))
  BY DEF Slots
<1>2. q - Len(down) \in 1 .. Len(up) /\ q - Len(down) >= 1
  BY <1>1
<1>3. up[q - Len(down)] = "Subscribe"
  BY <1>2 DEF OnlySubs
<1> QED BY <1>1, <1>3 DEF Heard

-----------------------------------------------------------------------------
(* The history: what was lost stays lost until a restart.                  *)

Grows == (dropped => dropped') /\ (undone => undone') /\ (miscounted => miscounted')

LEMMA HistoryGrows ==
  ASSUME TypeOK, [Next]_vars, ~Restart
  PROVE  Grows
<1>1. dropped \in BOOLEAN /\ undone \in BOOLEAN /\ miscounted \in BOOLEAN
  BY DEF TypeOK
<1>2. UNCHANGED history \/ Commanded \/ DrivenByMessage => Grows
  BY <1>1 DEF history, Commanded, DrivenByMessage, Driven, Grows
<1>3. Driven /\ UNCHANGED <<dropped, miscounted>> => Grows
  BY <1>1 DEF Driven, Grows
<1>4. \A missing : Miscounted(missing) => Grows
  BY <1>1 DEF Miscounted, Grows
<1>5. CASE LoopStep
  <2>1. CASE CountEcho \/ PublishLevel
    BY <1>4, <2>1 DEF CountEcho, PublishLevel
  <2>2. CASE Overcurrent
    BY <1>3, <2>2 DEF Overcurrent
  <2>3. CASE TtlOff \/ TtaOn \/ (\E v \in Levels : LocalWrite(v))
             \/ CalendarOff \/ ButtonClick
    BY <1>2, <2>3 DEF TtlOff, TtaOn, LocalWrite, CalendarOff, ButtonClick
  <2>4. CASE \/ SubscribeRelays \/ Announce \/ AnnouncePublish
             \/ NothingToAnnounce \/ WatchSnapshot \/ TtlPublish \/ Report
             \/ ArmTtl \/ NoOvercurrent \/ (\E e \in BOOLEAN : FreeLock(e))
             \/ LoopService \/ NoService
    BY <1>2, <2>4 DEF SubscribeRelays, Announce, AnnouncePublish,
         NothingToAnnounce, WatchSnapshot, TtlPublish, Report, ArmTtl,
         NoOvercurrent, FreeLock, LoopService, NoService
  <2> QED BY <1>5, <2>1, <2>2, <2>3, <2>4 DEF LoopStep
<1>6. CASE TcpStep
  <2>1. CASE OnMqttDisconnect
    BY <1>4, <2>1 DEF OnMqttDisconnect
  <2>2. CASE TcpStep /\ ~OnMqttDisconnect
    BY <1>2, <2>2 DEF TcpStep, Message, SwallowLoad, SuppressOn, ApplyCommand,
         SwallowStore, HttpCommand, SetTtl, OnMqttConnect
  <2> QED BY <1>6, <2>1, <2>2
<1>7. CASE DaemonStep
  BY <1>2, <1>7 DEF DaemonStep, TtlTick, TtaTick, TickStop, TimerCommand
<1>8. CASE WorldStep
  BY <1>2, <1>8 DEF WorldStep, BrokerStep, ForeignCommand
<1>9. CASE UNCHANGED vars
  BY <1>2, <1>9 DEF vars
<1> QED BY <1>5, <1>6, <1>7, <1>8, <1>9 DEF Next

LEMMA LeftShrinks ==
  ASSUME LeftOK, [Next]_vars
  PROVE  LeftOK' /\ left'.failures =< left.failures
<1>1. ASSUME NEW what \in {"commands", "outages", "failures", "restarts"}, Spend(what)
      PROVE  LeftOK' /\ left'.failures =< left.failures
  BY <1>1, RelayAssumption DEF Spend, LeftOK
<1>2. ASSUME NEW v, Publish(v) PROVE LeftOK' /\ left'.failures =< left.failures
  BY <1>2, RelayAssumption DEF Publish, LeftOK
<1>3. ASSUME UNCHANGED left PROVE LeftOK' /\ left'.failures =< left.failures
  BY <1>3, RelayAssumption DEF LeftOK
<1>4. CASE LoopStep
  BY <1>1, <1>2, <1>3, <1>4 DEF LoopStep, SubscribeRelays, Announce,
       AnnouncePublish, NothingToAnnounce, WatchSnapshot, TtlOff, TtlPublish,
       TtaOn, Report, CountEcho, PublishLevel, ArmTtl, Overcurrent,
       NoOvercurrent, FreeLock, LoopService, LocalWrite, CalendarOff,
       ButtonClick, NoService
<1>5. CASE TcpStep
  BY <1>1, <1>3, <1>5 DEF TcpStep, Message, SwallowLoad, SuppressOn,
       ApplyCommand, SwallowStore, HttpCommand, SetTtl, OnMqttConnect,
       OnMqttDisconnect
<1>6. CASE DaemonStep
  BY <1>3, <1>6 DEF DaemonStep, TtlTick, TtaTick, TickStop, TimerCommand
<1>7. CASE WorldStep
  BY <1>1, <1>3, <1>7 DEF WorldStep, BrokerStep, ForeignCommand, Restart
<1>8. CASE UNCHANGED vars
  BY <1>3, <1>8 DEF vars
<1> QED BY <1>4, <1>5, <1>6, <1>7, <1>8 DEF Next

LEMMA NoneLostBefore ==
  ASSUME TypeOK, LeftOK, [Next]_vars, ~Restart, NoneLost'
  PROVE  NoneLost
<1>1. left.failures \in Int /\ left'.failures \in Int /\ left.failures =< MaxFailures
  BY LeftShrinks DEF LeftOK
<1>2. left'.failures =< left.failures /\ left'.failures = MaxFailures
  BY LeftShrinks DEF NoneLost
<1>3. left.failures = MaxFailures
  BY <1>1, <1>2, RelayAssumption
<1>4. ~dropped /\ ~undone /\ ~miscounted
  BY HistoryGrows, Zenon DEF NoneLost, Grows
<1> QED BY <1>3, <1>4 DEF NoneLost

(* A publication that is not refused is sent, unless there is no           *)
(* connection.                                                             *)
LEMMA SentOrOffline ==
  ASSUME LeftOK, NoneLost, NoneLost', NEW v, Publish(v)
  PROVE  /\ \/ connected /\ up' = Append(up, v)
            \/ ~connected /\ UNCHANGED up
         /\ UNCHANGED <<connected, brokerSub, down, retained>>
<1>1. left.failures \in Int /\ left'.failures = left.failures
  BY DEF LeftOK, NoneLost
<1>2. left' # [left EXCEPT !.failures = @ - 1]
  BY <1>1 DEF LeftOK
<1> QED BY <1>2 DEF Publish

(* The numbers.                                                            *)
LEMMA Numbers ==
  ASSUME TypeOK
  PROVE  /\ Broker!LinkOK
         /\ pin \in Levels /\ curState \in Levels
         /\ pendingEchoCount \in Nat /\ loaded \in Int /\ swallowing \in Int
         /\ swallowing >= -1
         /\ Expected \in Int /\ Owed \in Int /\ Owed =< Expected
         /\ Len(up) \in Nat /\ Len(down) \in Nat
<1>1. /\ Broker!LinkOK
      /\ pin \in Levels /\ curState \in Levels
      /\ pendingEchoCount \in Nat /\ loaded \in Int /\ swallowing \in Int
      /\ swallowing >= -1
  BY RelayAssumption DEF TypeOK
<1>2. Expected \in Int
  BY <1>1 DEF Expected
<1>3. Owed \in Int /\ Owed =< Expected
  BY <1>2 DEF Owed
<1> QED BY <1>1, <1>2, <1>3, Queues

-----------------------------------------------------------------------------
(* Steps that leave the queues alone.                                      *)

LEMMA QueuesKept ==
  ASSUME TypeOK, TypeOK', Agreement,
         UNCHANGED <<up, down, brokerSub, retained>>,
         Owed' =< Owed, ReportOK',
         Greeting => Greeting',
         connected' /\ ~pending_mqtt_subscribe'
           => connected /\ ~pending_mqtt_subscribe,
         Reporting \/ pin' # pin => Reporting'
  PROVE  Agreement'
<1> USE Numbers
<1>1. Owed' \in Int
  <2>1. Expected' \in Int
    BY RelayAssumption DEF TypeOK, Expected
  <2> QED BY <2>1 DEF Owed
<1>2. SubscriptionOK'
  BY DEF Agreement, SubscriptionOK
<1>3. \A l : Fits(Owed, Slots, l) => Fits(Owed', Slots', l)
  BY <1>1, SamePlaces, FitsLess
<1>4. CountOK'
  BY <1>3 DEF Agreement, CountOK
<1>5. AgreeOK'
  <2>1. CASE Reporting \/ pin' # pin
    BY <2>1 DEF AgreeOK
  <2>2. CASE Greeting
    BY <2>2 DEF AgreeOK
  <2>3. CASE (Told(pin) \/ Told("Nothing")) /\ pin' = pin
    BY <2>3, SamePlaces DEF AgreeOK
  <2>4. CASE Coming
    <3>1. PICK p \in 1 .. Len(down) + Len(up) : LastWord(p) /\ Fits(Owed, Slots, p)
      BY <2>4 DEF Coming
    <3>2. LastWord(p)' /\ Fits(Owed', Slots', p)
      BY <1>3, <3>1, SamePlaces
    <3> QED BY <3>1, <3>2 DEF AgreeOK, Coming
  <2> QED BY <2>1, <2>2, <2>3, <2>4 DEF Agreement, AgreeOK
<1> QED BY <1>2, <1>4, <1>5 DEF Agreement

(* The level may change if that is noticed; nothing else that counts.      *)
Noticed ==
  /\ UNCHANGED <<up, down, brokerSub, retained, connected, lastPub1State,
                 pending_relay_state, pending_mqtt_subscribe>>
  /\ Expected' = Expected
  /\ Pending => Pending'
  /\ Publishing' <=> Publishing
  /\ lpc' = "publish" <=> lpc = "publish"
  /\ Publishing => UNCHANGED curState
  /\ pin' # pin => Pending' /\ pin' # lastPub1State

LEMMA LevelNoticed ==
  ASSUME TypeOK, TypeOK', Agreement, Noticed
  PROVE  Agreement'
<1> USE Numbers
<1>1. Owed' =< Owed
  BY DEF Noticed, Owed
<1>2. ReportOK'
  BY DEF Noticed, Agreement, ReportOK
<1>3. Reporting \/ pin' # pin => Reporting'
  BY DEF Noticed, Reporting
<1>4. Greeting => Greeting'
  BY DEF Noticed, Greeting
<1> QED BY <1>1, <1>2, <1>3, <1>4, QueuesKept DEF Noticed

(* The steps that drive the relay: the lock was free, and the level is not *)
(* the one last reported.                                                  *)
LEMMA WriteNoticed ==
  ASSUME TypeOK, NEW v \in Levels, MdigitalWrite(v), Driven, ~undone'
  PROVE  /\ pin' # pin => rchangedflag' /\ pin' # lastPub1State
         /\ rchangedflag => rchangedflag'
         /\ ~lockupdate => pin' = v
<1>1. rchangedflag \in BOOLEAN /\ undone \in BOOLEAN /\ lockupdate \in BOOLEAN
  BY DEF TypeOK
<1>2. pin' # pin => pin' # lastPub1State
  BY <1>1 DEF Driven
<1>3. pin' # pin => rchangedflag'
  BY <1>1 DEF MdigitalWrite
<1>4. rchangedflag => rchangedflag'
  BY <1>1 DEF MdigitalWrite
<1>5. ~lockupdate => pin' = v
  BY DEF MdigitalWrite
<1> QED BY <1>2, <1>3, <1>4, <1>5

LEMMA WritesKeep ==
  ASSUME TypeOK, ~undone',
         \/ TtlOff \/ TtaOn \/ Overcurrent \/ CalendarOff \/ ButtonClick
         \/ \E v \in Levels : LocalWrite(v)
         \/ \E v \in Levels : HttpCommand(v)
  PROVE  Noticed
<1> USE DEF object, flags, running, echo, timers, looping, link, session,
            Noticed, Expected, Pending, Publishing, InLoop, GoTo, Commanded,
            DrivenByMessage
<1>1. CASE TtlOff
  <2>1. MdigitalWrite(LOW) /\ Driven
    BY <1>1 DEF TtlOff
  <2>2. /\ pin' # pin => rchangedflag' /\ pin' # lastPub1State
        /\ rchangedflag => rchangedflag'
    BY <2>1, WriteNoticed
  <2> QED BY <1>1, <2>2 DEF TtlOff
<1>2. CASE TtaOn
  <2>1. MdigitalWrite(HIGH) /\ Driven
    BY <1>2 DEF TtaOn
  <2>2. /\ pin' # pin => rchangedflag' /\ pin' # lastPub1State
        /\ rchangedflag => rchangedflag'
    BY <2>1, WriteNoticed
  <2>3. /\ lpc' \notin {"countEcho", "publish"}
        /\ local.changed => /\ local'.changed
                            /\ lpc' \in {"ttlOff", "ttaOn", "report"}
    BY <1>2 DEF TtaOn, NextCallback, AfterCallbacks, TypeOK
  <2> QED BY <1>2, <2>2, <2>3 DEF TtaOn
<1>3. CASE Overcurrent
  <2>1. MdigitalWrite(LOW) /\ Driven
    BY <1>3 DEF Overcurrent
  <2>2. /\ pin' # pin => rchangedflag' /\ pin' # lastPub1State
        /\ rchangedflag => rchangedflag'
    BY <2>1, WriteNoticed
  <2> QED BY <1>3, <2>2 DEF Overcurrent
<1>4. CASE CalendarOff
  <2>1. undone \in BOOLEAN /\ Driven
    BY <1>4 DEF CalendarOff, TypeOK
  <2>2. pin' # pin => pin' # lastPub1State
    BY <2>1 DEF Driven
  <2> QED BY <1>4, <2>2 DEF CalendarOff
<1>5. CASE ButtonClick
  <2>1. CASE pin = HIGH
    <3>1. MdigitalWrite(LOW) /\ Driven
      BY <1>5, <2>1 DEF ButtonClick
    <3>2. /\ pin' # pin => rchangedflag' /\ pin' # lastPub1State
          /\ rchangedflag => rchangedflag'
      BY <3>1, WriteNoticed
    <3> QED BY <1>5, <3>2 DEF ButtonClick
  <2>2. CASE pin # HIGH
    BY <1>5, <2>2 DEF ButtonClick
  <2> QED BY <2>1, <2>2
<1>6. CASE \E v \in Levels : LocalWrite(v)
  <2>1. PICK v \in Levels : LocalWrite(v)
    BY <1>6
  <2>2. MdigitalWrite(v) /\ Driven
    BY <2>1 DEF LocalWrite
  <2>3. /\ pin' # pin => rchangedflag' /\ pin' # lastPub1State
        /\ rchangedflag => rchangedflag'
    BY <2>2, WriteNoticed
  <2> QED BY <2>1, <2>3 DEF LocalWrite
<1>7. CASE \E v \in Levels : HttpCommand(v)
  <2>1. PICK v \in Levels : HttpCommand(v)
    BY <1>7
  <2>2. MdigitalWrite(v) /\ Driven
    BY <2>1 DEF HttpCommand
  <2>3. /\ pin' # pin => rchangedflag' /\ pin' # lastPub1State
        /\ rchangedflag => rchangedflag'
    BY <2>2, WriteNoticed
  <2> QED BY <2>1, <2>3 DEF HttpCommand
<1> QED BY <1>1, <1>2, <1>3, <1>4, <1>5, <1>6, <1>7

(* The steps that have nothing to do with it, the snapshot of the flags    *)
(* and the store of a swallowed echo.                                      *)
LEMMA OthersKeep ==
  ASSUME TypeOK,
         \/ Announce \/ NothingToAnnounce \/ WatchSnapshot \/ ArmTtl
         \/ NoOvercurrent \/ (\E elapsed \in BOOLEAN : FreeLock(elapsed))
         \/ LoopService \/ NoService \/ SwallowStore
         \/ (\E newTtl \in Ttls : SetTtl(newTtl))
         \/ TtlTick \/ TtaTick
         \/ (\E t \in {"ttl", "tta"} : TickStop(t)) \/ TimerCommand
         \/ UNCHANGED vars
  PROVE  Noticed
<1> USE DEF object, flags, running, echo, timers, looping, link, session,
            Noticed, Expected, Pending, Publishing, InLoop, GoTo
<1>1. CASE Announce
  BY <1>1 DEF Announce
<1>2. CASE NothingToAnnounce
  BY <1>2 DEF NothingToAnnounce
<1>3. CASE WatchSnapshot
  <2>1. /\ local'.changed = rchangedflag
        /\ lpc' = NextCallback(local')
        /\ lpc = "watch"
    BY <1>3 DEF WatchSnapshot
  <2>2. /\ lpc' \notin {"countEcho", "publish"}
        /\ rchangedflag => lpc' \in {"ttlOff", "ttaOn", "report"}
    BY <2>1 DEF NextCallback, AfterCallbacks
  <2> QED BY <1>3, <2>1, <2>2 DEF WatchSnapshot
<1>4. CASE ArmTtl
  <2>1. lpc' \in {"acs", "freelock"}
    BY <1>4 DEF ArmTtl, AfterCallbacks
  <2> QED BY <1>4, <2>1 DEF ArmTtl
<1>5. CASE NoOvercurrent
  BY <1>5 DEF NoOvercurrent
<1>6. CASE \E elapsed \in BOOLEAN : FreeLock(elapsed)
  BY <1>6 DEF FreeLock
<1>7. CASE LoopService
  BY <1>7 DEF LoopService
<1>8. CASE NoService
  BY <1>8 DEF NoService
<1>9. CASE SwallowStore
  BY <1>9 DEF SwallowStore
<1>10. CASE \E newTtl \in Ttls : SetTtl(newTtl)
  BY <1>10 DEF SetTtl
<1>11. CASE TtlTick
  BY <1>11 DEF TtlTick
<1>12. CASE TtaTick
  BY <1>12 DEF TtaTick
<1>13. CASE \E t \in {"ttl", "tta"} : TickStop(t)
  BY <1>13 DEF TickStop
<1>14. CASE TimerCommand
  BY <1>14 DEF TimerCommand
<1>15. CASE UNCHANGED vars
  BY <1>15 DEF vars
<1> QED BY <1>1, <1>2, <1>3, <1>4, <1>5, <1>6, <1>7, <1>8, <1>9, <1>10, <1>11,
           <1>12, <1>13, <1>14, <1>15

-----------------------------------------------------------------------------
(* A report: the level is taken, the echo counted, the level published.    *)

LEMMA ReportKeeps ==
  ASSUME TypeOK, TypeOK', Agreement, Report
  PROVE  Agreement'
<1> USE Numbers DEF object, flags, running, timers, link, session, InLoop, GoTo
<1>1. /\ UNCHANGED <<up, down, brokerSub, retained, connected, pin, rchangedflag,
                     pending_relay_state, pending_mqtt_subscribe>>
      /\ Expected' = Expected /\ lpc = "report" /\ lpc' \in {"countEcho", "arm"}
  BY DEF Report, Expected
<1>2. Owed' =< Owed
  BY <1>1 DEF Owed
<1>3. ReportOK'
  BY <1>1 DEF Report, ReportOK, Publishing
<1>4. Reporting \/ pin' # pin => Reporting'
  <2>1. Reporting => pin # lastPub1State
    BY <1>1 DEF Reporting, Publishing
  <2>2. pin # lastPub1State => lpc' = "countEcho"
    BY DEF Report
  <2>3. Reporting => Publishing'
    BY <2>1, <2>2 DEF Publishing
  <2>4. Publishing' => Reporting'
    BY DEF Reporting, Publishing
  <2> QED BY <1>1, <2>3, <2>4
<1>5. Greeting => Greeting'
  BY <1>1 DEF Greeting
<1> QED BY <1>1, <1>2, <1>3, <1>4, <1>5, QueuesKept

LEMMA ModLess ==
  ASSUME NEW n \in Nat \ {0}, NEW x \in 0 .. n
  PROVE  x % n =< x
<1>1. CASE x = n
  BY <1>1
<1>2. CASE x < n
  BY <1>2
<1> QED BY <1>1, <1>2

(* The count that is stored is the count now, and one more, or less.       *)
LEMMA CountKeeps ==
  ASSUME TypeOK, TypeOK', Agreement, ~miscounted', CountEcho
  PROVE  Agreement'
<1> USE Numbers DEF object, flags, running, timers, link, session, InLoop, GoTo
<1>1. /\ UNCHANGED <<up, down, brokerSub, retained, connected, pin, rchangedflag,
                     lastPub1State, local, curState, swallowing,
                     pending_relay_state, pending_mqtt_subscribe>>
      /\ lpc = "countEcho" /\ lpc' = "publish"
  BY DEF CountEcho
<1>2. Owed' =< Owed
  <2>1. CASE swallowing = NotLoaded
    <3>1. loaded =< pendingEchoCount
      <4>1. miscounted \in BOOLEAN
        BY DEF TypeOK
      <4>2. ~(pendingEchoCount < loaded)
        BY <4>1 DEF CountEcho, Miscounted
      <4> QED BY <4>2
    <3>2. pendingEchoCount' =< loaded + 1
      <4>1. EchoMod \in Nat \ {0} /\ loaded + 1 \in 0 .. EchoMod
        BY RelayAssumption DEF TypeOK
      <4> QED BY <4>1, ModLess DEF CountEcho
    <3>3. Expected' = pendingEchoCount' /\ Expected = pendingEchoCount
      BY <1>1, <2>1 DEF Expected
    <3>4. Owed' = pendingEchoCount' - 1 /\ Owed = pendingEchoCount
      BY <1>1, <3>3 DEF Owed
    <3>5. pendingEchoCount' \in Int
      BY RelayAssumption DEF TypeOK
    <3> QED BY <3>1, <3>2, <3>4, <3>5
  <2>2. CASE swallowing # NotLoaded
    BY <1>1, <2>2 DEF Owed, Expected
  <2> QED BY <2>1, <2>2
<1>3. ReportOK'
  BY <1>1 DEF Agreement, ReportOK, Publishing, Pending
<1>4. Reporting \/ pin' # pin => Reporting'
  BY <1>1 DEF Reporting, Publishing
<1>5. Greeting => Greeting'
  BY <1>1 DEF Greeting
<1> QED BY <1>1, <1>2, <1>3, <1>4, <1>5, QueuesKept

(* What sending a level leaves.                                            *)
LEMMA SentFits ==
  ASSUME TypeOK, Agreement, NEW v \in Levels, up' = Append(up, v),
         UNCHANGED <<down, brokerSub, retained>>
  PROVE  /\ Told(v)'
         /\ Fits(Owed, Slots', Len(down') + Len(up') + 1)
         /\ EchoComes =>
              /\ Fits(Owed + 1, Slots', Len(down') + Len(up') + 1)
              /\ \E p \in 1 .. Len(down') + Len(up') :
                   LastWord(p)' /\ Fits(Owed, Slots', p)
         /\ ~EchoComes => ~connected \/ pending_mqtt_subscribe
         /\ (\E i \in 1 .. Len(up) : up[i] = "Subscribe")
              => \E i \in 1 .. Len(up') : up'[i] = "Subscribe"
<1> USE Numbers
<1>1. /\ Len(up') = Len(up) + 1 /\ Slots \subseteq Slots' /\ Told(v)'
      /\ EchoComes => \A p : p = Len(down) + Len(up) + 1 => p \in Slots' /\ LastWord(p)'
  BY SendPlaces
<1>2. PICK l \in Nat : l = Len(down) + Len(up) + 1
  OBVIOUS
<1>3. l > 0 /\ Len(down') + Len(up') = l
  BY <1>1, <1>2
<1>4. Fits(Owed, Slots', l)
  <2>1. Fits(Owed, Slots, l)
    BY <1>2 DEF Agreement, CountOK
  <2> QED BY <1>1, <2>1, FitsGrow
<1>5. EchoComes => l \in Slots' /\ LastWord(l)'
  BY <1>1, <1>2
<1>6. Fits(Owed, Slots', l + 1)
  BY <1>4, FitsGrow
<1>7. EchoComes => Fits(Owed + 1, Slots', l + 1)
  BY <1>4, <1>5, FitsMore
<1>8. EchoComes => \E p \in 1 .. l : LastWord(p)' /\ Fits(Owed, Slots', p)
  <2>1. l \in 1 .. l
    BY <1>3
  <2> QED BY <1>4, <1>5, <2>1
<1>9. ~EchoComes => ~connected \/ pending_mqtt_subscribe
  BY DEF Agreement, SubscriptionOK, EchoComes, Broker!Subscribe
<1>10. (\E i \in 1 .. Len(up) : up[i] = "Subscribe")
        => \E i \in 1 .. Len(up') : up'[i] = "Subscribe"
  <2>1. \A i \in 1 .. Len(up) : i \in 1 .. Len(up') /\ up'[i] = up[i]
    BY <1>1, Queues, AppendPlaces
  <2> QED BY <2>1
<1> QED BY <1>1, <1>3, <1>6, <1>7, <1>8, <1>9, <1>10

LEMMA PublishKeeps ==
  ASSUME TypeOK, TypeOK', LeftOK, NoneLost, NoneLost', Agreement, PublishLevel
  PROVE  Agreement'
<1> USE Numbers DEF object, flags, running, timers, session, InLoop, GoTo
<1>1. /\ UNCHANGED <<pin, rchangedflag, lastPub1State, pendingEchoCount,
                     swallowing, local, pending_relay_state,
                     pending_mqtt_subscribe>>
      /\ lpc = "publish" /\ lpc' = "arm"
      /\ Publish(curState) /\ Miscounted(up' = up \/ ~EchoComes)
  BY DEF PublishLevel, echo
<1>2. UNCHANGED <<connected, brokerSub, down, retained>>
  BY <1>1 DEF Publish
<1>3. up' # up /\ EchoComes
  BY <1>1 DEF Miscounted, NoneLost, TypeOK
<1>4. connected /\ up' = Append(up, curState)
  BY <1>1, <1>3, SentOrOffline
<1>5. PICK v \in Levels : v = curState
  OBVIOUS
<1>6. /\ Told(v)'
      /\ Fits(Owed + 1, Slots', Len(down') + Len(up') + 1)
      /\ (\E i \in 1 .. Len(up) : up[i] = "Subscribe")
           => \E i \in 1 .. Len(up') : up'[i] = "Subscribe"
  BY <1>2, <1>3, <1>4, <1>5, SentFits
<1>7. Owed' = Owed + 1
  BY <1>1 DEF Owed, Expected
<1>8. CountOK'
  BY <1>6, <1>7 DEF CountOK
<1>9. SubscriptionOK'
  BY <1>1, <1>2, <1>6 DEF Agreement, SubscriptionOK
<1>10. ReportOK'
  BY <1>1 DEF ReportOK, Publishing
<1>11. AgreeOK'
  <2>1. curState = lastPub1State /\ (pin = lastPub1State \/ Pending)
    BY <1>1 DEF Agreement, ReportOK, Publishing
  <2>2. CASE pin = lastPub1State
    <3>1. pin' = v
      BY <1>1, <1>5, <2>1, <2>2
    <3>2. Told(pin)'
      BY <1>6, <3>1
    <3> QED BY <3>2 DEF AgreeOK
  <2>3. CASE pin # lastPub1State /\ Pending
    <3>1. rchangedflag
      BY <1>1, <2>3 DEF Pending
    <3> QED BY <1>1, <2>3, <3>1 DEF AgreeOK, Reporting, Pending
  <2> QED BY <2>1, <2>2, <2>3
<1> QED BY <1>8, <1>9, <1>10, <1>11 DEF Agreement

(* The announcement and the OFF of a TTL are no echo that is counted.      *)
LEMMA UncountedKeeps ==
  ASSUME TypeOK, TypeOK', LeftOK, NoneLost, NoneLost', Agreement,
         AnnouncePublish \/ TtlPublish
  PROVE  Agreement'
<1> USE Numbers DEF object, flags, running, timers, session, echo, InLoop, GoTo
<1>1. PICK v \in Levels : Publish(v)
  BY DEF AnnouncePublish, TtlPublish
<1>2. /\ UNCHANGED <<pin, rchangedflag, lastPub1State, pendingEchoCount,
                     swallowing, pending_mqtt_subscribe>>
      /\ lpc \in {"announcePublish", "ttlPublish"}
  BY DEF AnnouncePublish, TtlPublish
<1>3. /\ lpc' \notin {"countEcho", "publish"}
      /\ Pending => Pending'
  <2>1. CASE AnnouncePublish
    BY <2>1 DEF AnnouncePublish, Pending
  <2>2. CASE TtlPublish
    <3>1. /\ lpc' = NextCallback(local') /\ rchangedflag' = rchangedflag
          /\ local'.changed = local.changed
      BY <2>2 DEF TtlPublish, TypeOK
    <3>2. /\ lpc' \notin {"countEcho", "publish"}
          /\ local'.changed => lpc' \in {"ttlOff", "ttaOn", "report"}
      BY <3>1 DEF NextCallback, AfterCallbacks
    <3> QED BY <3>1, <3>2 DEF Pending
  <2> QED BY <2>1, <2>2
<1>4. Owed' = Owed
  BY <1>2, <1>3 DEF Owed, Expected
<1>5. ReportOK'
  BY <1>3 DEF ReportOK, Publishing
<1>6. Reporting => Reporting'
  BY <1>2, <1>3 DEF Reporting, Publishing
<1>7. /\ \/ connected /\ up' = Append(up, v)
         \/ ~connected /\ UNCHANGED up
      /\ UNCHANGED <<connected, brokerSub, down, retained>>
  BY <1>1, SentOrOffline
<1>8. CASE ~connected
  <2>1. Greeting'
    BY <1>7, <1>8 DEF Greeting
  <2>2. UNCHANGED up
    BY <1>7, <1>8
  <2> QED BY <1>2, <1>4, <1>5, <1>6, <1>7, <1>8, <2>1, <2>2, QueuesKept
<1>9. CASE connected
  <2>1. up' = Append(up, v)
    BY <1>7, <1>9
  <2>2. /\ Told(v)'
        /\ Fits(Owed, Slots', Len(down') + Len(up') + 1)
        /\ EchoComes => \E p \in 1 .. Len(down') + Len(up') :
                          LastWord(p)' /\ Fits(Owed, Slots', p)
        /\ ~EchoComes => ~connected \/ pending_mqtt_subscribe
        /\ (\E i \in 1 .. Len(up) : up[i] = "Subscribe")
             => \E i \in 1 .. Len(up') : up'[i] = "Subscribe"
    BY <1>7, <2>1, SentFits
  <2>3. CountOK'
    BY <1>4, <2>2 DEF CountOK
  <2>4. SubscriptionOK'
    BY <1>2, <1>7, <2>2 DEF Agreement, SubscriptionOK
  <2>5. AgreeOK'
    <3>1. CASE EchoComes
      <4>1. Coming'
        BY <1>4, <2>2, <3>1 DEF Coming
      <4> QED BY <4>1 DEF AgreeOK
    <3>2. CASE ~EchoComes
      <4>1. Greeting'
        BY <1>2, <1>7, <1>9, <2>2, <3>2 DEF Greeting
      <4> QED BY <4>1 DEF AgreeOK
    <3> QED BY <3>1, <3>2
  <2> QED BY <1>5, <2>3, <2>4, <2>5 DEF Agreement
<1> QED BY <1>7, <1>8, <1>9

LEMMA SubscribeKeeps ==
  ASSUME TypeOK, TypeOK', Agreement, SubscribeRelays
  PROVE  Agreement'
<1> USE Numbers DEF object, flags, running, timers, session, echo, InLoop, GoTo
<1>1. /\ UNCHANGED <<pin, rchangedflag, lastPub1State, pendingEchoCount,
                     swallowing, connected, brokerSub, down, retained,
                     pending_relay_state, curState>>
      /\ lpc = "session" /\ lpc' = "announce"
  BY DEF SubscribeRelays
<1>2. CASE ~(pending_mqtt_subscribe /\ connected)
  <2>1. Noticed
    BY <1>1, <1>2 DEF SubscribeRelays, Noticed, Expected, Pending, Publishing
  <2> QED BY <2>1, LevelNoticed
<1>3. CASE pending_mqtt_subscribe /\ connected
  <2>1. up' = up \o [i \in 1 .. Subscriptions |-> Broker!Subscribe]
    BY <1>3 DEF SubscribeRelays
  <2>2. /\ Len(up') = Len(up) + Subscriptions
        /\ Slots \subseteq Slots'
        /\ \E i \in 1 .. Len(up') : up'[i] = "Subscribe"
        /\ \A p : p = Len(down') + Len(up') => LastWord(p)'
    BY <1>1, <2>1, SubscribePlaces
  <2>3. Owed' = Owed
    BY <1>1 DEF Owed, Expected
  <2>4. PICK l \in Nat : l = Len(down') + Len(up')
    BY <1>1, <2>2, RelayAssumption
  <2>5. l >= Len(down) + Len(up) + 1 /\ l \in 1 .. l
    BY <1>1, <2>2, <2>4, RelayAssumption
  <2>6. Fits(Owed, Slots', l) /\ Fits(Owed, Slots', l + 1)
    <3>1. Fits(Owed, Slots, Len(down) + Len(up) + 1)
      BY DEF Agreement, CountOK
    <3> QED BY <2>2, <2>5, <3>1, FitsGrow
  <2>7. CountOK'
    BY <2>3, <2>4, <2>6 DEF CountOK
  <2>8. SubscriptionOK'
    BY <1>1, <2>2 DEF Agreement, SubscriptionOK
  <2>9. Coming'
    <3>1. LastWord(l)'
      BY <2>2, <2>4
    <3> QED BY <2>3, <2>4, <2>5, <2>6, <3>1 DEF Coming
  <2>10. ReportOK'
    BY <1>1 DEF ReportOK, Publishing
  <2> QED BY <2>7, <2>8, <2>9, <2>10 DEF Agreement, AgreeOK
<1> QED BY <1>2, <1>3

-----------------------------------------------------------------------------
(* A message is taken: swallowed, suppressed or applied.                   *)

(* What taking it leaves, if n levels are to be swallowed afterwards.      *)
LEMMA TakenFits ==
  ASSUME TypeOK, Agreement, Receive, UNCHANGED <<up, brokerSub, retained>>,
         NEW n \in Int, NEW l \in Int, l > 1, Fits(Owed, Slots, l),
         \/ n =< 0
         \/ n = Owed /\ 1 \notin Slots
         \/ n = Owed - 1
  PROVE  Fits(n, Slots', l - 1)
<1> USE Numbers
<1>1. /\ \A q \in Slots : q > 1 => q - 1 \in Slots'
      /\ \A q \in Slots : q \in Nat /\ q > 0
  BY ReceivePlaces, SlotsNat DEF Receive
<1>2. CASE n =< 0
  BY <1>2, FitsNone
<1>3. CASE n = Owed /\ 1 \notin Slots
  <2>1. 1 \in Nat /\ \A q \in Slots : q < 1 => q \in Slots'
    BY <1>1
  <2> QED BY <1>1, <1>3, <2>1, FitsDrop
<1>4. CASE n = Owed - 1
  BY <1>1, <1>4, FitsTake
<1> QED BY <1>2, <1>3, <1>4

(* What is to be swallowed is all ahead of the last word, which comes one  *)
(* place earlier, unless it is the message that is taken.                  *)
LEMMA MessageKeeps ==
  ASSUME TypeOK, TypeOK', Agreement, Receive,
         UNCHANGED <<up, brokerSub, retained, connected, pending_relay_state,
                     pending_mqtt_subscribe, lpc, local, curState, lastPub1State>>,
         Owed' \in Int,
         \/ Owed' =< 0
         \/ Owed' = Owed /\ 1 \notin Slots
         \/ Owed' = Owed - 1,
         Pending => Pending',
         pin' # pin => Pending' /\ pin' # lastPub1State,
         LastWord(1) /\ Fits(Owed, Slots, 1) => Reporting' \/ Told(pin)'
  PROVE  Agreement'
<1> USE Numbers
<1>1. /\ Len(down') = Len(down) - 1 /\ Len(down) > 0
      /\ \A p \in Nat : p > 1 /\ LastWord(p) => LastWord(p - 1)'
  BY ReceivePlaces DEF Receive
<1>2. CountOK'
  <2>1. PICK l \in Int : l = Len(down) + Len(up) + 1
    OBVIOUS
  <2>2. Fits(Owed, Slots, l) /\ l > 1
    BY <1>1, <2>1 DEF Agreement, CountOK
  <2>3. Fits(Owed', Slots', l - 1)
    BY <2>2, TakenFits
  <2>4. l - 1 = Len(down') + Len(up') + 1
    BY <1>1, <2>1
  <2> QED BY <2>3, <2>4 DEF CountOK
<1>3. ReportOK'
  BY DEF Agreement, ReportOK, Publishing
<1>4. SubscriptionOK'
  BY <1>1 DEF Agreement, SubscriptionOK, Receive
<1>5. AgreeOK'
  <2>1. CASE Reporting \/ pin' # pin
    <3>1. Reporting'
      BY <2>1 DEF Reporting, Publishing
    <3> QED BY <3>1 DEF AgreeOK
  <2>2. CASE Greeting
    <3>1. Greeting'
      BY <2>2 DEF Greeting
    <3> QED BY <3>1 DEF AgreeOK
  <2>3. CASE (Told(pin) \/ Told("Nothing")) /\ pin' = pin
    <3>1. \A v : Told(v)' <=> Told(v)
      BY DEF Told, OnlySubs
    <3> QED BY <2>3, <3>1 DEF AgreeOK
  <2>4. CASE Coming
    <3>1. PICK p \in 1 .. Len(down) + Len(up) : LastWord(p) /\ Fits(Owed, Slots, p)
      BY <2>4 DEF Coming
    <3>2. CASE p = 1
      BY <3>1, <3>2 DEF AgreeOK
    <3>3. CASE p > 1
      <4>1. PICK k \in Nat : k = p - 1
        BY <3>3
      <4>2. k \in 1 .. Len(down') + Len(up')
        BY <1>1, <3>1, <3>3, <4>1
      <4>3. LastWord(k)'
        BY <1>1, <3>1, <3>3, <4>1
      <4>4. Fits(Owed', Slots', k)
        BY <3>1, <3>3, <4>1, TakenFits
      <4>5. Coming'
        BY <4>2, <4>3, <4>4 DEF Coming
      <4> QED BY <4>5 DEF AgreeOK
    <3> QED BY <3>1, <3>2, <3>3
  <2> QED BY <2>1, <2>2, <2>3, <2>4 DEF Agreement, AgreeOK
<1> QED BY <1>2, <1>3, <1>4, <1>5 DEF Agreement

LEMMA SwallowKeeps ==
  ASSUME TypeOK, TypeOK', Agreement, SwallowLoad
  PROVE  Agreement'
<1> USE Numbers
<1>1. /\ UNCHANGED <<up, brokerSub, retained, connected, pending_relay_state,
                     pending_mqtt_subscribe, lpc, local, curState, lastPub1State,
                     pin, rchangedflag, pendingEchoCount>>
      /\ Receive /\ swallowing = NotLoaded /\ pendingEchoCount > 0
      /\ swallowing' = pendingEchoCount
  BY DEF SwallowLoad, Receive, TcpIdle, IsEcho, object, echo, looping, session
<1>2. Owed' \in Int /\ Owed' = Owed - 1
  BY <1>1 DEF Owed, Expected
<1>3. Pending => Pending'
  BY <1>1 DEF Pending
<1>4. LastWord(1) /\ Fits(Owed, Slots, 1) => Reporting'
  <2> SUFFICES ASSUME Fits(Owed, Slots, 1) PROVE Reporting'
    OBVIOUS
  <2>1. \A q \in Slots : q \in Nat /\ q > 0
    BY SlotsNat
  <2>2. ~(Owed > 0)
    BY <2>1, NoPlace
  <2>3. lpc = "publish"
    BY <1>1, <2>2 DEF Owed, Expected
  <2> QED BY <1>1, <2>3 DEF Reporting, Publishing
<1> QED BY <1>1, <1>2, <1>3, <1>4, MessageKeeps

(* ON, OFF or TOG: no echo is expected when a level is applied.            *)
LEMMA ApplyKeeps ==
  ASSUME TypeOK, TypeOK', Agreement, NoneLost, NoneLost', ApplyCommand
  PROVE  Agreement'
<1> USE Numbers
<1> DEFINE m == Head(down)
           v == IF m.val = TOG THEN Not(pin) ELSE m.val
<1>1. /\ UNCHANGED <<up, brokerSub, retained, connected, pending_relay_state,
                     pending_mqtt_subscribe, lpc, local, curState, lastPub1State,
                     pendingEchoCount, swallowing>>
      /\ Receive /\ swallowing = NotLoaded
      /\ ~IsEcho(m)
      /\ MdigitalWrite(v) /\ DrivenByMessage
  BY DEF ApplyCommand, Receive, TcpIdle, echo, looping, session
<1>2. m \in Broker!Messages /\ (m.val \in Levels \/ m.val = TOG)
  <2>1. down \in Seq(Broker!Messages) /\ down # << >>
    BY <1>1, Queues DEF Receive
  <2>2. m \in Broker!Messages
    BY <2>1
  <2> QED BY <2>2 DEF Broker!Messages, Broker!Payloads
<1>3. v \in Levels
  BY <1>2 DEF Not
<1>4. ~lockupdate /\ ~undone'
  <2>1. /\ dropped' = (dropped \/ lockupdate)
        /\ dropped \in BOOLEAN /\ lockupdate \in BOOLEAN
    BY <1>1 DEF DrivenByMessage, TypeOK
  <2> QED BY <2>1 DEF NoneLost
<1>5. /\ pin' # pin => rchangedflag' /\ pin' # lastPub1State
      /\ rchangedflag => rchangedflag'
      /\ pin' = v
  <2>1. Driven
    BY <1>1 DEF DrivenByMessage
  <2> HIDE DEF v
  <2> QED BY <1>1, <1>3, <1>4, <2>1, WriteNoticed
<1>6. Pending => Pending'
  BY <1>1, <1>5 DEF Pending
<1>7. Owed' = Owed
  BY <1>1 DEF Owed, Expected
<1>8. 1 \in Slots <=> m.val \in Levels
  BY <1>1, ReceivePlaces DEF Receive
<1>9. CASE m.val \in Levels
  <2>1. Owed' =< 0
    <3>1. ~(pendingEchoCount > 0)
      BY <1>1, <1>9 DEF IsEcho
    <3> QED BY <1>1, <1>7, <3>1 DEF Owed, Expected
  <2>2. LastWord(1) => Told(pin)'
    <3>1. LastWord(1) => \A w : w = m.val => Told(w)'
      BY <1>1, ReceivePlaces DEF Receive
    <3>2. pin' = m.val
      BY <1>5, <1>9
    <3> QED BY <3>1, <3>2
  <2> HIDE DEF m, v
  <2> QED BY <1>1, <1>5, <1>6, <1>7, <2>1, <2>2, MessageKeeps DEF Pending
<1>10. CASE m.val = TOG
  <2>1. 1 \notin Slots
    BY <1>8, <1>10
  <2>2. pin' # pin
    BY <1>5, <1>10 DEF Not
  <2>3. Reporting'
    BY <1>1, <1>5, <2>2 DEF Reporting, Pending
  <2> HIDE DEF m, v
  <2> QED BY <1>1, <1>5, <1>6, <1>7, <2>1, <2>3, MessageKeeps DEF Pending
<1> QED BY <1>2, <1>9, <1>10

(* A retained ON is answered with OFF, which the broker is told.           *)
LEMMA SuppressKeeps ==
  ASSUME TypeOK, TypeOK', LeftOK, Agreement, NoneLost, NoneLost', SuppressOn
  PROVE  Agreement'
<1> USE Numbers
<1> DEFINE m == Head(down)
<1>1. /\ UNCHANGED <<brokerSub, retained, connected, pending_relay_state,
                     pending_mqtt_subscribe, lpc, local, curState, lastPub1State,
                     pendingEchoCount, swallowing>>
      /\ Receive /\ swallowing = NotLoaded
      /\ ~IsEcho(m) /\ m.val = HIGH
      /\ MdigitalWrite(LOW) /\ DrivenByMessage
  BY DEF SuppressOn, IsSuppressed, Receive, TcpIdle, echo, looping, session
<1>2. up' = Append(up, LOW)
  <2>1. ~Spend("failures")
    BY DEF Spend, LeftOK, NoneLost
  <2> QED BY <2>1 DEF SuppressOn
<1>3. ~lockupdate /\ ~undone'
  <2>1. /\ dropped' = (dropped \/ lockupdate)
        /\ dropped \in BOOLEAN /\ lockupdate \in BOOLEAN
    BY <1>1 DEF DrivenByMessage, TypeOK
  <2> QED BY <2>1 DEF NoneLost
<1>4. /\ pin' # pin => rchangedflag' /\ pin' # lastPub1State
      /\ rchangedflag => rchangedflag'
      /\ pin' = LOW
  <2>1. Driven
    BY <1>1 DEF DrivenByMessage
  <2> QED BY <1>1, <1>3, <2>1, WriteNoticed
<1>5. Owed' \in Int /\ Owed' =< 0
  <2>1. ~(pendingEchoCount > 0)
    BY <1>1 DEF IsEcho
  <2> QED BY <1>1, <2>1 DEF Owed, Expected
<1>6. CountOK'
  BY <1>5, FitsNone DEF CountOK
<1>7. ReportOK'
  <2>1. Pending => Pending'
    BY <1>1, <1>4 DEF Pending
  <2>2. pin' # pin => Pending'
    BY <1>4 DEF Pending
  <2> QED BY <1>1, <2>1, <2>2 DEF Agreement, ReportOK, Publishing
<1>8. brokerSub
  BY <1>1 DEF Agreement, SubscriptionOK, Receive
<1>9. SubscriptionOK'
  BY <1>1, <1>8 DEF SubscriptionOK
<1>10. AgreeOK'
  <2>1. /\ Len(up') = Len(up) + 1
        /\ up'[Len(up) + 1] = LOW
    BY <1>2, Queues, AppendPlaces
  <2>2. PICK j \in Nat : j = Len(up) + 1
    OBVIOUS
  <2>3. j \in 1 .. Len(up') /\ up'[j] = LOW /\ OnlySubs(j + 1)'
    BY <2>1, <2>2 DEF OnlySubs
  <2>4. Told(pin)'
    BY <1>4, <2>3 DEF Told
  <2> QED BY <2>4 DEF AgreeOK
<1> QED BY <1>6, <1>7, <1>9, <1>10 DEF Agreement

-----------------------------------------------------------------------------
(* The connection comes and goes, the broker and its other clients act.    *)

LEMMA ConnectKeeps ==
  ASSUME TypeOK, TypeOK', Agreement, OnMqttConnect
  PROVE  Agreement'
<1> USE Numbers
<1>1. /\ UNCHANGED <<up, down, brokerSub, retained, lpc, local, curState,
                     lastPub1State, pendingEchoCount, swallowing, pin,
                     rchangedflag>>
      /\ pending_mqtt_subscribe' = TRUE /\ pending_relay_state' = TRUE
  BY DEF OnMqttConnect, Broker!LinkUp, object, echo, looping
<1>2. Owed' =< Owed
  BY <1>1 DEF Owed, Expected
<1>3. ReportOK'
  BY <1>1 DEF Agreement, ReportOK, Publishing, Pending
<1>4. Greeting'
  BY <1>1 DEF Greeting
<1>5. Reporting \/ pin' # pin => Reporting'
  BY <1>1 DEF Reporting, Publishing, Pending
<1> QED BY <1>1, <1>2, <1>3, <1>4, <1>5, QueuesKept

(* No echo is counted when the connection breaks, or it is miscounted.     *)
LEMMA DisconnectKeeps ==
  ASSUME TypeOK, TypeOK', Agreement, NoneLost', OnMqttDisconnect
  PROVE  Agreement'
<1> USE Numbers
<1>1. /\ UNCHANGED <<lpc, local, curState, lastPub1State, pendingEchoCount,
                     swallowing, pin, rchangedflag>>
      /\ connected' = FALSE /\ brokerSub' = FALSE
      /\ up' = << >> /\ down' = << >>
      /\ swallowing = NotLoaded /\ Miscounted(pendingEchoCount > 0)
  BY DEF OnMqttDisconnect, Broker!LinkDown, object, echo, looping, TcpIdle
<1>2. ~(pendingEchoCount > 0)
  BY <1>1 DEF Miscounted, NoneLost, TypeOK
<1>3. Owed' \in Int /\ Owed' =< 0
  BY <1>1, <1>2 DEF Owed, Expected
<1>4. CountOK'
  BY <1>3, FitsNone DEF CountOK
<1>5. ReportOK'
  BY <1>1 DEF Agreement, ReportOK, Publishing, Pending
<1>6. SubscriptionOK'
  BY <1>1 DEF SubscriptionOK
<1>7. AgreeOK'
  BY <1>1 DEF AgreeOK, Greeting
<1> QED BY <1>4, <1>5, <1>6, <1>7 DEF Agreement

LEMMA RestartKeeps ==
  ASSUME Restart
  PROVE  Agreement'
<1>1. /\ connected' = FALSE /\ brokerSub' = FALSE
      /\ up' = << >> /\ down' = << >>
      /\ swallowing' = NotLoaded /\ pendingEchoCount' = 0 /\ lpc' = "session"
  BY DEF Restart, Broker!LinkDown
<1>2. Owed' \in Int /\ Owed' =< 0
  BY <1>1 DEF Owed, Expected
<1>3. CountOK'
  BY <1>2, FitsNone DEF CountOK
<1>4. ReportOK' /\ SubscriptionOK'
  BY <1>1 DEF ReportOK, Publishing, SubscriptionOK
<1>5. AgreeOK'
  BY <1>1 DEF AgreeOK, Greeting
<1> QED BY <1>3, <1>4, <1>5 DEF Agreement

LEMMA BrokerKeeps ==
  ASSUME TypeOK, TypeOK', Agreement, retained \in Levels \cup {"Nothing"},
         BrokerStep
  PROVE  Agreement'
<1> USE Numbers
<1>1. /\ UNCHANGED <<lpc, local, curState, lastPub1State, pendingEchoCount,
                     swallowing, pin, rchangedflag, pending_relay_state,
                     pending_mqtt_subscribe>>
      /\ Broker!BrokerReceive
  BY DEF BrokerStep, object, echo, looping, session
<1>2. /\ Len(up) > 0
      /\ Replaced \/ Removed
      /\ \A v : Told(v) => Told(v)'
      /\ UNCHANGED connected
      /\ brokerSub' = (brokerSub \/ Head(up) = "Subscribe")
      /\ ~brokerSub' => down' = << >>
  BY <1>1, BrokerPlaces DEF Agreement, SubscriptionOK
<1>3. Owed' = Owed
  BY <1>1 DEF Owed, Expected
<1>4. ReportOK'
  BY <1>1 DEF Agreement, ReportOK, Publishing, Pending
<1>5. SubscriptionOK'
  <2> SUFFICES ASSUME connected', ~brokerSub', ~pending_mqtt_subscribe'
               PROVE  \E i \in 1 .. Len(up') : up'[i] = "Subscribe"
    BY <1>2 DEF SubscriptionOK
  <2>1. ~brokerSub /\ Head(up) # "Subscribe"
    BY <1>2
  <2>2. PICK i \in 1 .. Len(up) : up[i] = "Subscribe"
    BY <1>1, <1>2, <2>1 DEF Agreement, SubscriptionOK
  <2>3. /\ Head(up) = up[1] /\ Len(up') = Len(up) - 1
        /\ \A k \in 1 .. Len(up) - 1 : up'[k] = up[k + 1]
    BY <1>1, Queues, TailPlaces DEF Broker!BrokerReceive
  <2>4. i - 1 \in 1 .. Len(up') /\ i - 1 + 1 = i
    BY <2>1, <2>2, <2>3
  <2> QED BY <2>2, <2>3, <2>4
<1>6. CASE Replaced
  <2>1. /\ Len(down') + Len(up') = Len(down) + Len(up)
        /\ Slots \subseteq Slots'
        /\ \A p \in 1 .. Len(down) + Len(up) : LastWord(p) => LastWord(p)'
    BY <1>6 DEF Replaced
  <2>2. \A l \in Int : Fits(Owed, Slots, l) => Fits(Owed', Slots', l)
    BY <1>3, <2>1, FitsGrow
  <2>3. CountOK'
    BY <2>1, <2>2 DEF Agreement, CountOK
  <2>4. Coming => Coming'
    BY <2>1, <2>2 DEF Coming
  <2>5. AgreeOK'
    BY <1>1, <1>2, <2>4 DEF Agreement, AgreeOK, Reporting, Publishing, Pending, Greeting
  <2> QED BY <1>4, <1>5, <2>3, <2>5 DEF Agreement
<1>7. CASE Removed
  <2>1. PICK c \in Nat : c = Len(down) + 1
    OBVIOUS
  <2>2. /\ Len(down') + Len(up') = Len(down) + Len(up) - 1
        /\ c \notin Slots
        /\ \A q \in Slots : q < c => q \in Slots'
        /\ \A q \in Slots : q > c => q - 1 \in Slots'
        /\ \A p \in 1 .. Len(down) + Len(up) : LastWord(p) =>
             IF p > c THEN LastWord(p - 1)' ELSE Told("Nothing")'
    BY <1>7, <2>1 DEF Removed
  <2>3. ASSUME NEW l \in Int, l > c, Fits(Owed, Slots, l)
        PROVE  Fits(Owed', Slots', l - 1)
    BY <1>3, <2>2, <2>3, FitsDrop
  <2>4. CountOK'
    <3>1. PICK l \in Int : l = Len(down) + Len(up) + 1
      OBVIOUS
    <3>2. l > c /\ Fits(Owed, Slots, l)
      BY <1>2, <2>1, <3>1 DEF Agreement, CountOK
    <3>3. Fits(Owed', Slots', l - 1) /\ l - 1 = Len(down') + Len(up') + 1
      BY <2>2, <2>3, <3>1, <3>2
    <3> QED BY <3>3 DEF CountOK
  <2>5. Coming => Coming' \/ Told("Nothing")'
    <3> SUFFICES ASSUME NEW p \in 1 .. Len(down) + Len(up), LastWord(p),
                        Fits(Owed, Slots, p)
                 PROVE  Coming' \/ Told("Nothing")'
      BY DEF Coming
    <3>1. CASE ~(p > c)
      BY <2>2, <3>1
    <3>2. CASE p > c
      <4>1. PICK k \in Nat : k = p - 1
        BY <2>1, <3>2
      <4>2. k \in 1 .. Len(down') + Len(up')
        BY <2>1, <2>2, <3>2, <4>1
      <4>3. LastWord(k)' /\ Fits(Owed', Slots', k)
        BY <2>2, <2>3, <3>2, <4>1
      <4> QED BY <4>2, <4>3 DEF Coming
    <3> QED BY <3>1, <3>2
  <2>6. AgreeOK'
    BY <1>1, <1>2, <2>5 DEF Agreement, AgreeOK, Reporting, Publishing, Pending, Greeting
  <2> QED BY <1>4, <1>5, <2>4, <2>6 DEF Agreement
<1> QED BY <1>2, <1>6, <1>7

LEMMA ForeignKeeps ==
  ASSUME TypeOK, TypeOK', Agreement, NoRetainedToggle,
         NEW c \in ForeignCommands, ForeignCommand(c.val, c.retain)
  PROVE  Agreement'
<1> USE Numbers
<1>1. /\ UNCHANGED <<lpc, local, curState, lastPub1State, pendingEchoCount,
                     swallowing, pin, rchangedflag, pending_relay_state,
                     pending_mqtt_subscribe, connected, brokerSub, up>>
      /\ retained' = IF c.retain THEN c.val ELSE retained
      /\ down' = down \o Broker!Delivery(c.val, FALSE)
  BY DEF ForeignCommand, Broker!ForeignMessage, object, echo, looping, session
<1>2. /\ c.val \in Broker!Payloads
      /\ c.retain \in BOOLEAN
      /\ c.retain => retained' \in Levels /\ retained' = c.val
      /\ ~c.retain => retained' = retained
  BY <1>1, RelayAssumption DEF NoRetainedToggle, Broker!Payloads
<1>3. Owed' = Owed
  BY <1>1 DEF Owed, Expected
<1>4. ReportOK'
  BY <1>1 DEF Agreement, ReportOK, Publishing, Pending
<1>5. (Reporting => Reporting') /\ (Greeting => Greeting')
  BY <1>1 DEF Reporting, Publishing, Pending, Greeting
<1>6. /\ \A v : Told(v) => (~c.retain => Told(v)')
      /\ \A v : Told(v) /\ ~OnlySubs(1) => Told(v)'
      /\ OnlySubs(1)' <=> OnlySubs(1)
  BY <1>1, <1>2 DEF Told, OnlySubs
<1>7. CASE brokerSub
  <2> DEFINE m == Broker!Message(c.val, FALSE, FALSE)
  <2>1. down' = Append(down, m) /\ m.val = c.val
    <3>1. m \in Broker!Messages
      BY <1>2 DEF Broker!Message, Broker!Messages
    <3>2. down' = down \o <<m>>
      BY <1>1, <1>7 DEF Broker!Delivery
    <3> QED BY <3>1, <3>2, Queues, ConcatOne DEF Broker!Message
  <2> HIDE DEF m
  <2>2. PICK d \in Nat : d = Len(down)
    OBVIOUS
  <2>3. /\ Len(down') + Len(up') = Len(down) + Len(up) + 1
        /\ \A q \in Slots : q =< d => q \in Slots'
        /\ \A q \in Slots : q > d => q + 1 \in Slots'
        /\ \A p \in 1 .. Len(down) + Len(up) : LastWord(p) =>
             IF p > d THEN LastWord(p + 1)'
                      ELSE retained' = retained => LastWord(p)'
        /\ OnlySubs(1) /\ retained' \in Levels /\ m.val = retained'
             => \A p : p = d + 1 => LastWord(p)'
    BY <1>1, <2>1, <2>2, ForeignPlaces
  <2>4. ASSUME NEW l \in Int, Fits(Owed, Slots, l)
        PROVE  /\ Fits(Owed', Slots', l + 1)
               /\ l =< d + 1 => Fits(Owed', Slots', l)
    BY <1>3, <2>3, <2>4, FitsInsert
  <2>5. Fits(Owed, Slots, Len(down) + Len(up) + 1)
    BY DEF Agreement, CountOK
  <2>6. CountOK'
    <3>1. PICK l \in Int : l = Len(down) + Len(up) + 1
      OBVIOUS
    <3>2. Fits(Owed', Slots', l + 1) /\ l + 1 = Len(down') + Len(up') + 1
      BY <2>3, <2>4, <2>5, <3>1
    <3> QED BY <3>2 DEF CountOK
  <2>7. SubscriptionOK'
    BY <1>1, <1>7 DEF SubscriptionOK
  <2>8. OnlySubs(1) /\ c.retain => Coming'
    <3> SUFFICES ASSUME OnlySubs(1), c.retain PROVE Coming'
      OBVIOUS
    <3>1. PICK p \in Nat : p = d + 1
      OBVIOUS
    <3>2. LastWord(p)'
      BY <1>2, <2>1, <2>3, <3>1
    <3>3. Fits(Owed, Slots, p)
      <4>1. \A q \in Slots : q < p
        <5>1. \A q \in Slots : q \in Nat /\ q =< Len(down)
          BY DownPlaces, SlotsNat
        <5> QED BY <2>2, <3>1, <5>1
      <4> QED BY <2>5, <4>1, FitsAll
    <3>4. Fits(Owed', Slots', p)
      BY <2>4, <3>1, <3>3
    <3>5. p \in 1 .. Len(down') + Len(up')
      BY <2>2, <2>3, <3>1
    <3> QED BY <3>2, <3>4, <3>5 DEF Coming
  <2>9. Coming /\ ~(OnlySubs(1) /\ c.retain) => Coming'
    <3> SUFFICES ASSUME ~(OnlySubs(1) /\ c.retain),
                        NEW p \in 1 .. Len(down) + Len(up), LastWord(p),
                        Fits(Owed, Slots, p)
                 PROVE  Coming'
      BY DEF Coming
    <3>1. CASE p > d
      <4>1. PICK k \in Nat : k = p + 1
        OBVIOUS
      <4>2. LastWord(k)' /\ Fits(Owed', Slots', k)
        BY <2>3, <2>4, <3>1, <4>1
      <4>3. k \in 1 .. Len(down') + Len(up')
        BY <2>3, <4>1
      <4> QED BY <4>2, <4>3 DEF Coming
    <3>2. CASE ~(p > d)
      <4>1. OnlySubs(1)
        BY <2>2, <3>2 DEF LastWord
      <4>2. LastWord(p)'
        BY <1>2, <2>3, <3>2, <4>1
      <4>3. Fits(Owed', Slots', p)
        BY <2>4, <3>2
      <4>4. p \in 1 .. Len(down') + Len(up')
        BY <2>3
      <4> QED BY <4>2, <4>3, <4>4 DEF Coming
    <3> QED BY <3>1, <3>2
  <2>10. AgreeOK'
    <3>1. CASE OnlySubs(1) /\ c.retain
      BY <2>8, <3>1 DEF AgreeOK
    <3>2. CASE ~(OnlySubs(1) /\ c.retain)
      <4>1. \A v : Told(v) => Told(v)'
        BY <1>6, <3>2
      <4>2. Told(pin) => Told(pin)'
        BY <1>1, <4>1
      <4> QED BY <1>5, <2>9, <3>2, <4>1, <4>2 DEF Agreement, AgreeOK
    <3> QED BY <3>1, <3>2
  <2> QED BY <1>4, <2>6, <2>7, <2>10 DEF Agreement
<1>8. CASE ~brokerSub
  <2>1. down' = down /\ down = << >> /\ Len(down) = 0
    <3>1. down' = down \o << >>
      BY <1>1, <1>8 DEF Broker!Delivery
    <3>2. down = << >>
      BY <1>8 DEF Agreement, SubscriptionOK
    <3> QED BY <3>1, <3>2
  <2>2. Slots' = Slots
    BY <1>1, <2>1 DEF Slots, Heard
  <2>3. \A l : Fits(Owed, Slots, l) => Fits(Owed', Slots', l)
    BY <1>3, <2>2
  <2>4. CountOK'
    BY <1>1, <2>1, <2>3 DEF Agreement, CountOK
  <2>5. SubscriptionOK'
    BY <1>1, <2>1 DEF Agreement, SubscriptionOK
  <2>6. ASSUME NEW p \in Nat, p > 0, LastWord(p) PROVE LastWord(p)'
    <3>1. \A j : (Heard(j)' <=> Heard(j)) /\ (OnlySubs(j)' <=> OnlySubs(j))
      BY <1>1 DEF Heard, OnlySubs
    <3>2. /\ p - Len(down) = p /\ ~(p =< Len(down))
          /\ p - Len(down') = p /\ ~(p =< Len(down'))
      BY <2>1, <2>6
    <3>3. OnlySubs(p - Len(down) + 1) /\ (up[p] = "Subscribe" \/ Heard(p))
      BY <2>6, <3>2 DEF LastWord
    <3>4. OnlySubs(p - Len(down) + 1)' /\ (up'[p] = "Subscribe" \/ Heard(p)')
      BY <1>1, <3>1, <3>2, <3>3
    <3>5. up'[p - Len(down')] = "Subscribe" \/ Heard(p - Len(down))'
      BY <3>2, <3>4
    <3> QED BY <3>2, <3>4, <3>5 DEF LastWord
  <2>7. Coming => Coming'
    <3> SUFFICES ASSUME NEW p \in 1 .. Len(down) + Len(up), LastWord(p),
                        Fits(Owed, Slots, p)
                 PROVE  Coming'
      BY DEF Coming
    <3>1. LastWord(p)' /\ Fits(Owed', Slots', p)
      BY <2>3, <2>6
    <3>2. p \in 1 .. Len(down') + Len(up')
      BY <1>1, <2>1
    <3> QED BY <3>1, <3>2 DEF Coming
  <2>8. OnlySubs(1) => Greeting \/ Coming'
    <3> SUFFICES ASSUME OnlySubs(1), ~Greeting PROVE Coming'
      OBVIOUS
    <3>1. Len(up) > 0
      BY <1>8 DEF Agreement, SubscriptionOK, Greeting
    <3>2. PICK p \in Nat : p = Len(up)
      OBVIOUS
    <3>3. LastWord(p)
      <4>1. p - Len(down) = p /\ ~(p =< Len(down)) /\ p \in 1 .. Len(up)
        BY <2>1, <3>1, <3>2
      <4>2. OnlySubs(p - Len(down) + 1) /\ up[p] = "Subscribe"
        BY <3>2, <4>1 DEF OnlySubs
      <4> QED BY <4>1, <4>2 DEF LastWord
    <3>4. Fits(Owed, Slots, p)
      <4>1. \A q \in Slots : q < p
        <5>1. \A q \in Slots : q \in Nat /\ q > 0 /\ q =< Len(down)
          BY DownPlaces, SlotsNat
        <5> QED BY <2>1, <5>1
      <4>2. Fits(Owed, Slots, Len(down) + Len(up) + 1)
        BY DEF Agreement, CountOK
      <4> QED BY <4>1, <4>2, FitsAll
    <3>5. Coming
      <4>1. p \in 1 .. Len(down) + Len(up)
        BY <2>1, <3>1, <3>2
      <4> QED BY <3>3, <3>4, <4>1 DEF Coming
    <3> QED BY <2>7, <3>5
  <2>9. AgreeOK'
    <3>1. CASE OnlySubs(1)
      BY <1>5, <2>8, <3>1 DEF AgreeOK
    <3>2. CASE ~OnlySubs(1)
      <4>1. \A v : Told(v) => Told(v)'
        BY <1>6, <3>2
      <4>2. Told(pin) => Told(pin)'
        BY <1>1, <4>1
      <4> QED BY <1>5, <2>7, <4>1, <4>2 DEF Agreement, AgreeOK
    <3> QED BY <3>1, <3>2
  <2> QED BY <1>4, <2>4, <2>5, <2>9 DEF Agreement
<1> QED BY <1>7, <1>8

-----------------------------------------------------------------------------
(* Every step preserves the agreement.                                     *)

LEMMA AgreeStep ==
  ASSUME NoRetainedToggle, TypeOK, TypeOK', Typed, AgreeInv, [Next]_vars
  PROVE  AgreeInv'
<1>1. LeftOK /\ LeftOK'
  BY LeftShrinks DEF AgreeInv
<1> SUFFICES ASSUME NoneLost' PROVE Agreement'
  BY <1>1 DEF AgreeInv
<1>2. CASE Restart
  BY <1>2, RestartKeeps
<1>3. CASE ~Restart
  <2>1. NoneLost /\ Agreement
    BY <1>1, <1>3, NoneLostBefore DEF AgreeInv
  <2>2. ~undone' /\ ~miscounted'
    BY DEF NoneLost
  <2>3. retained \in Levels \cup {"Nothing"}
    BY DEF Typed
  <2>4. CASE LoopStep
    <3>1. CASE SubscribeRelays
      BY <2>1, <3>1, SubscribeKeeps
    <3>2. CASE AnnouncePublish \/ TtlPublish
      BY <1>1, <2>1, <3>2, UncountedKeeps
    <3>3. CASE Report
      BY <2>1, <3>3, ReportKeeps
    <3>4. CASE CountEcho
      BY <2>1, <2>2, <3>4, CountKeeps
    <3>5. CASE PublishLevel
      BY <1>1, <2>1, <3>5, PublishKeeps
    <3>6. CASE \/ TtlOff \/ TtaOn \/ Overcurrent \/ CalendarOff \/ ButtonClick
               \/ \E v \in Levels : LocalWrite(v)
      BY <2>1, <2>2, <3>6, WritesKeep, LevelNoticed
    <3>7. CASE \/ Announce \/ NothingToAnnounce \/ WatchSnapshot \/ ArmTtl
               \/ NoOvercurrent \/ (\E elapsed \in BOOLEAN : FreeLock(elapsed))
               \/ LoopService \/ NoService
      BY <2>1, <3>7, OthersKeep, LevelNoticed
    <3> QED BY <2>4, <3>1, <3>2, <3>3, <3>4, <3>5, <3>6, <3>7 DEF LoopStep
  <2>5. CASE TcpStep
    <3>1. CASE SwallowLoad
      BY <2>1, <3>1, SwallowKeeps
    <3>2. CASE SuppressOn
      BY <1>1, <2>1, <3>2, SuppressKeeps
    <3>3. CASE ApplyCommand
      BY <2>1, <3>3, ApplyKeeps
    <3>4. CASE SwallowStore \/ (\E newTtl \in Ttls : SetTtl(newTtl))
      BY <2>1, <3>4, OthersKeep, LevelNoticed
    <3>5. CASE \E v \in Levels : HttpCommand(v)
      BY <2>1, <2>2, <3>5, WritesKeep, LevelNoticed
    <3>6. CASE OnMqttConnect
      BY <2>1, <3>6, ConnectKeeps
    <3>7. CASE OnMqttDisconnect
      BY <2>1, <3>7, DisconnectKeeps
    <3> QED BY <2>5, <3>1, <3>2, <3>3, <3>4, <3>5, <3>6, <3>7 DEF TcpStep, Message
  <2>6. CASE DaemonStep
    BY <2>1, <2>6, OthersKeep, LevelNoticed DEF DaemonStep
  <2>7. CASE WorldStep
    <3>1. CASE BrokerStep
      BY <2>1, <2>3, <3>1, BrokerKeeps
    <3>2. CASE \E c \in ForeignCommands : ForeignCommand(c.val, c.retain)
      BY <2>1, <3>2, ForeignKeeps
    <3> QED BY <1>3, <2>7, <3>1, <3>2 DEF WorldStep
  <2>8. CASE UNCHANGED vars
    BY <2>1, <2>8, OthersKeep, LevelNoticed
  <2> QED BY <2>4, <2>5, <2>6, <2>7, <2>8 DEF Next
<1> QED BY <1>2, <1>3

LEMMA AgreeInit == Init => AgreeInv
<1> SUFFICES ASSUME Init PROVE AgreeInv
  OBVIOUS
<1>1. LeftOK
  BY RelayAssumption DEF Init, LeftOK
<1>2. /\ connected = FALSE /\ down = << >> /\ lpc = "session"
      /\ swallowing = NotLoaded /\ pendingEchoCount = 0
  BY DEF Init, RelayInit, Broker!LinkInit
<1>3. Owed \in Int /\ Owed =< 0
  BY <1>2 DEF Owed, Expected
<1>4. CountOK
  BY <1>3, FitsNone DEF CountOK
<1>5. ReportOK /\ SubscriptionOK /\ AgreeOK
  BY <1>2 DEF ReportOK, Publishing, SubscriptionOK, AgreeOK, Greeting
<1> QED BY <1>1, <1>4, <1>5 DEF AgreeInv, Agreement

(* When all is quiet nothing is left to happen: the broker keeps the       *)
(* relay's level.                                                          *)
LEMMA QuietAgreed ==
  ASSUME TypeOK, AgreeInv
  PROVE  CountedRightAgreed
<1> USE Numbers
<1> SUFFICES ASSUME NoneLost, Quiet PROVE retained \in {pin, Broker!Nothing}
  <2>1. left.failures \in Int /\ left.failures =< MaxFailures
    BY DEF AgreeInv, LeftOK
  <2> QED BY <2>1, RelayAssumption DEF CountedRightAgreed, QuietMeansAgreed, NoneLost
<1>1. Agreement
  BY DEF AgreeInv
<1>2. ~Reporting /\ ~Greeting
  BY DEF Quiet, Reporting, Publishing, Pending, Greeting
<1>3. Len(up) = 0 /\ Len(down) = 0
  BY DEF Quiet
<1>4. ~Coming
  BY <1>3 DEF Coming
<1>5. Told(pin) \/ Told("Nothing")
  BY <1>1, <1>2, <1>4 DEF Agreement, AgreeOK
<1> QED BY <1>3, <1>5 DEF Told, Broker!Nothing

(* Once nothing is on its way, the message the broker keeps is the relay's *)
(* level, whatever the order of commands, reports, echoes, outages and     *)
(* restarts, unless the code has lost what it needs for it (main.cpp:      *)
(* 1013-1017 with MQTT_Processes.cpp:821-830).                             *)
THEOREM RelayAndBrokerAgree ==
  ASSUME NoRetainedToggle
  PROVE  Spec => []CountedRightAgreed
<1> DEFINE Inv == TypeOK /\ Ind /\ AgreeInv
<1>1. Init => Ind /\ AgreeInv
  BY IndInit, AgreeInit
<1>2. TypeOK /\ TypeOK' /\ Ind /\ AgreeInv /\ [Next]_vars => Ind' /\ AgreeInv'
  BY IndStep, AgreeStep DEF Ind
<1>3. TypeOK /\ AgreeInv => CountedRightAgreed
  BY QuietAgreed
<1> QED BY <1>1, <1>2, <1>3, RelayTypeCorrect, PTL DEF Spec
=============================================================================
