-------------------------- MODULE NtpClientProofs --------------------------
(***************************************************************************)
(* What holds of the NTP client for every set of servers, every interval   *)
(* and any number of events.                                               *)
(***************************************************************************)
EXTENDS NtpClient, TLAPS

USE NtpAssumption DEF Tasks, Busy, Inside

------------------------------------------------------------------------------
(* Types *)

ClientType == [server : Servers \cup {None}, enabled : BOOLEAN,
               resolving : BOOLEAN, resolved : BOOLEAN,
               address : Servers \cup {None}, synced : BOOLEAN,
               socket : Servers \cup {None}]

LEMMA InitTypes == Init => TypeOK
<1> SUFFICES ASSUME Init PROVE TypeOK
  OBVIOUS
<1>1. client \in ClientType
  BY DEF Init, NotBegun, ClientType
<1>2. requested \in 0..Retry /\ age \in 0..Interval /\ left \in 0..MaxEvents
  BY DEF Init
<1>3. lookups \in [Servers -> 0..MaxLookups]
  BY DEF Init
<1>4. begun \in [started : BOOLEAN, server : Servers \cup {None}]
  BY DEF Init
<1>5. stored \in [epoch : 0..2, stamp : 0..2]
  BY DEF Init, NeverSynced
<1>6. /\ pc \in [Tasks -> {"idle"}] /\ got \in [Tasks -> 0..2]
      /\ torn \in [Tasks -> BOOLEAN]
  BY DEF Init
<1>7. /\ config \in Servers /\ upload \in BOOLEAN /\ online \in BOOLEAN
      /\ mail = "none" /\ answer = None /\ clock = "unset" /\ mishap = {}
  BY DEF Init
<1> QED
  BY <1>1, <1>2, <1>3, <1>4, <1>5, <1>6, <1>7 DEF TypeOK, ClientType

LEMMA ClientRecord ==
  ASSUME NEW server \in Servers \cup {None}, NEW address \in Servers \cup {None},
         NEW on \in BOOLEAN, NEW resolved \in BOOLEAN
  PROVE  [server |-> server, enabled |-> on, resolving |-> FALSE,
          resolved |-> resolved, address |-> address, synced |-> FALSE,
          socket |-> None] \in ClientType
  BY DEF ClientType

LEMMA BegunTypes ==
  ASSUME NEW server \in Servers \cup {None}
  PROVE  Begun(server) \in ClientType
<1> DEFINE on == server # None
           resolved == server \in Numeric
           address == IF server \in Numeric THEN server ELSE None
<1>1. on \in BOOLEAN /\ resolved \in BOOLEAN /\ address \in Servers \cup {None}
  OBVIOUS
<1>2. Begun(server) = [server |-> server, enabled |-> on, resolving |-> FALSE,
          resolved |-> resolved, address |-> address, synced |-> FALSE,
          socket |-> None]
  BY Zenon DEF Begun
<1> HIDE DEF on, resolved, address
<1> QED
  BY <1>1, <1>2, ClientRecord, Zenon

LEMMA AnswerTypes ==
  ASSUME NEW s \in Servers, DnsAnswers(s)
  PROVE  answer' \in [server : Servers, found : BOOLEAN]
<1>1. CASE answer' = [server |-> s, found |-> TRUE]
  BY <1>1
<1>2. CASE answer' = [server |-> s, found |-> FALSE]
  BY <1>2
<1> QED
  BY <1>1, <1>2 DEF DnsAnswers

LEMMA StepTypes ==
  ASSUME TypeOK, NEW t \in Tasks, Step(t)
  PROVE  TypeOK'
<1> USE DEF TypeOK, world, device, locals
<1>1. CASE NtpBegin(t)
  BY <1>1 DEF NtpBegin, StartUpdate, Goto, Spend
<1>2. CASE Begin(t)
  <2>1. client' \in ClientType
    <3> HIDE DEF TypeOK
    <3>1. begun.server \in Servers \cup {None}
      BY DEF TypeOK
    <3>2. Begun(begun.server) \in ClientType
      BY <3>1, BegunTypes
    <3> QED
      BY <1>2, <3>2 DEF Begin
  <2>2. stored' \in [epoch : 0..2, stamp : 0..2]
    BY <1>2 DEF Begin, NeverSynced
  <2>3. torn' \in [Tasks -> BOOLEAN]
    BY <1>2 DEF Begin, Forgets
  <2>4. mishap' \subseteq {"begin", "answer", "stale"}
    BY <1>2 DEF Begin
  <2> QED
    BY <1>2, <2>1, <2>2, <2>3, <2>4 DEF Begin, Goto, ClientType
<1>3. CASE BeginGivesUp(t)
  BY <1>3 DEF BeginGivesUp, Goto
<1>4. CASE Started(t)
  <2>1. begun' \in [started : BOOLEAN, server : Servers \cup {None}]
    BY <1>4 DEF Started
  <2>2. CASE Goto(t, "poll")
    BY <1>4, <2>1, <2>2 DEF Started, Goto
  <2>3. CASE Goto(t, "return")
    BY <1>4, <2>1, <2>3 DEF Started, Goto
  <2> QED
    BY <1>4, <2>2, <2>3 DEF Started, StartUpdate
<1>5. CASE SkipUpdate(t)
  BY <1>5 DEF SkipUpdate, Goto
<1>6. CASE TakeAnswer(t)
  <2>1. client' \in ClientType
    BY <1>6 DEF TakeAnswer, ClientType
  <2>2. stored' \in [epoch : 0..2, stamp : 0..2]
    BY <1>6 DEF TakeAnswer, NextAnswer
  <2>3. torn' \in [Tasks -> BOOLEAN]
    BY <1>6 DEF TakeAnswer, Tears
  <2> QED
    BY <1>6, <2>1, <2>2, <2>3 DEF TakeAnswer, Goto, ClientType
<1>7. CASE StampAnswer(t)
  <2>1. /\ left' \in 0..MaxEvents /\ requested' \in 0..Retry
        /\ mail' \in {"none", "asked", "time", "error"}
    BY <1>7 DEF StampAnswer, Spend
  <2>2. stored' \in [epoch : 0..2, stamp : 0..2] /\ age' \in 0..Interval
    BY <1>7 DEF StampAnswer
  <2>3. torn' \in [Tasks -> BOOLEAN]
    BY <1>7 DEF StampAnswer, Tears
  <2>4. pc' \in [Tasks -> {"idle", "begin", "started", "poll", "return",
                           "readstamp", "readepoch", "stop", "stopped"} \cup Inside]
        /\ got' \in [Tasks -> 0..2]
    BY <1>7 DEF StampAnswer, Goto
  <2> QED
    BY <1>7, <2>1, <2>2, <2>3, <2>4 DEF StampAnswer
<1>8. CASE Wait(t)
  BY <1>8 DEF Wait, Polled, Goto
<1>9. CASE StartResolve(t)
  BY <1>9 DEF StartResolve, Polled, Goto, Spend, LookupRoom
<1>10. CASE SendRequest(t)
  BY <1>10 DEF SendRequest, Polled, Goto, Spend
<1>11. CASE EndRequest(t)
  <2>1. client' \in ClientType
    <3>1. client \in ClientType
      BY DEF ClientType
    <3>2. CASE pc[t] = "resolved"
      BY <1>11, <3>2 DEF EndRequest, ClientType
    <3>3. CASE pc[t] = "lookedup"
      BY <1>11, <3>3 DEF EndRequest, ClientType
    <3>4. CASE pc[t] \notin {"resolved", "lookedup"}
      BY <1>11, <3>1, <3>4 DEF EndRequest
    <3> QED
      BY <3>2, <3>3, <3>4
  <2> QED
    BY <1>11, <2>1 DEF EndRequest, Goto, ClientType
<1>12. CASE Return(t)
  BY <1>12 DEF Return, Goto
<1>13. CASE ReadStamp(t)
  BY <1>13 DEF ReadStamp
<1>14. CASE ReadEpoch(t)
  BY <1>14 DEF ReadEpoch, Goto
<1>15. CASE IsSynced(t)
  BY <1>15 DEF IsSynced, Goto
<1> QED
  BY <1>1, <1>2, <1>3, <1>4, <1>5, <1>6, <1>7, <1>8, <1>9, <1>10, <1>11, <1>12, <1>13, <1>14,
     <1>15 DEF Step

LEMMA OtherTypes ==
  ASSUME TypeOK,
         SaveConfig \/ Upload \/ (\E s \in Servers : DnsAnswers(s)) \/ Resolve
           \/ Reply \/ Network \/ Tick
  PROVE  TypeOK'
<1> USE DEF TypeOK, world, device, locals
<1>1. CASE SaveConfig
  BY <1>1 DEF SaveConfig, Spend
<1>2. CASE BeginUpload
  BY <1>2 DEF BeginUpload, Goto, Spend
<1>3. CASE Stop
  <2>1. client' \in ClientType
    BY <1>3 DEF Stop, ClientType
  <2>2. stored' \in [epoch : 0..2, stamp : 0..2]
    BY <1>3 DEF Stop, NeverSynced
  <2>3. torn' \in [Tasks -> BOOLEAN]
    BY <1>3 DEF Stop, Forgets
  <2> QED
    BY <1>3, <2>1, <2>2, <2>3 DEF Stop, Goto, ClientType
<1>4. CASE StopGivesUp
  BY <1>4 DEF StopGivesUp, Goto
<1>5. CASE Stopped
  BY <1>5 DEF Stopped, Goto
<1>6. CASE Restart
  <2>1. client' \in ClientType
    BY <1>6 DEF Restart, NotBegun, ClientType
  <2>2. stored' \in [epoch : 0..2, stamp : 0..2]
    BY <1>6 DEF Restart, NeverSynced
  <2>3. begun' \in [started : BOOLEAN, server : Servers \cup {None}]
    BY <1>6 DEF Restart
  <2>4. /\ lookups' \in [Servers -> 0..MaxLookups]
        /\ torn' \in [Tasks -> BOOLEAN]
    BY <1>6 DEF Restart
  <2> QED
    <3>1. requested' \in 0..Retry /\ age' \in 0..Interval
      BY <1>6 DEF Restart
    <3>2. /\ upload' \in BOOLEAN /\ online' \in BOOLEAN /\ mail' = "none"
          /\ answer' = None /\ clock' = "unset" /\ mishap' = {}
          /\ UNCHANGED <<config, left, pc, got>>
      BY <1>6 DEF Restart
    <3> QED
      BY <2>1, <2>2, <2>3, <2>4, <3>1, <3>2 DEF ClientType
<1>7. CASE HandleDnsResult
  <2>1. client' \in ClientType
    <3>1. answer.server \in Servers
      BY <1>7 DEF HandleDnsResult
    <3>2. CASE answer.found
      <4>1. client' = [client EXCEPT !.resolving = FALSE, !.resolved = TRUE,
                         !.address = answer.server, !.socket = None]
        BY <1>7, <3>2 DEF HandleDnsResult
      <4>2. client \in ClientType
        BY DEF ClientType
      <4> HIDE DEF TypeOK
      <4> QED
        BY <3>1, <4>1, <4>2 DEF ClientType
    <3>3. CASE ~answer.found
      BY <1>7, <3>3 DEF HandleDnsResult, ClientType
    <3> QED
      BY <3>2, <3>3
  <2> QED
    BY <1>7, <2>1 DEF HandleDnsResult, ClientType
<1>8. CASE DnsResultGivesUp
  BY <1>8 DEF DnsResultGivesUp
<1>9. CASE Reply
  BY <1>9 DEF Reply, Spend
<1>10. CASE Network
  BY <1>10 DEF Network, Spend
<1>11. CASE Tick
  BY <1>11 DEF Tick, Cap
<1>12. ASSUME NEW s \in Servers, DnsAnswers(s) PROVE TypeOK'
  <2>1. answer' \in [server : Servers, found : BOOLEAN]
    BY <1>12, AnswerTypes
  <2>2. lookups' \in [Servers -> 0..MaxLookups]
    BY <1>12 DEF DnsAnswers
  <2> QED
    BY <1>12, <2>1, <2>2 DEF DnsAnswers, Spend
<1> QED
  BY <1>1, <1>2, <1>3, <1>4, <1>5, <1>6, <1>7, <1>8, <1>9, <1>10, <1>11, <1>12 DEF Upload, Resolve

\* Every field keeps to its values.
THEOREM NtpTypeCorrect == Spec => []TypeOK
<1>1. TypeOK /\ [Next]_vars => TypeOK'
  <2> SUFFICES ASSUME TypeOK, [Next]_vars PROVE TypeOK'
    OBVIOUS
  <2>1. CASE UNCHANGED vars
    BY <2>1 DEF TypeOK, vars, world, device, locals
  <2> QED
    BY <2>1, StepTypes, OtherTypes DEF Next
<1> QED
  BY <1>1, InitTypes, PTL DEF Spec

------------------------------------------------------------------------------
(* Whose address, and whether a lookup is under way *)

LEMMA BegunFields ==
  ASSUME NEW server
  PROVE  /\ Begun(server).server = server
         /\ Begun(server).resolved => Begun(server).address = server
         /\ Begun(server).socket = None
         /\ Begun(server).resolving = FALSE /\ Begun(server).synced = FALSE
  BY Zenon DEF Begun

\* No lookup but of the client's server is open, and so no other address comes.
AddressInv ==
  \/ "stale" \in mishap
  \/ /\ \A s \in Servers : Outstanding(s) => s = client.server
     /\ client.resolved => client.address = client.server
     /\ client.socket # None => client.socket = client.address

\* The steps that have nothing to do with the address.
AddressKept ==
  /\ client'.server = client.server /\ client'.address = client.address
  /\ client'.resolved => client.resolved
  /\ client'.socket # None => client'.socket = client.socket
  /\ mishap \subseteq mishap'
  /\ \A s \in Servers : Outstanding(s)' => Outstanding(s)

LEMMA KeptAddress == AddressInv /\ AddressKept => AddressInv'
  BY DEF AddressInv, AddressKept

LEMMA SameAddress ==
  UNCHANGED <<client, lookups, answer>> /\ mishap \subseteq mishap' => AddressKept
  BY DEF AddressKept, Outstanding

LEMMA StepKeepsAddress ==
  ASSUME TypeOK, AddressInv, NEW t \in Tasks, Step(t)
  PROVE  AddressInv'
<1>1. CASE NtpBegin(t) \/ Started(t) \/ SkipUpdate(t) \/ StampAnswer(t)
             \/ Return(t) \/ IsSynced(t) \/ ReadStamp(t) \/ ReadEpoch(t)
             \/ BeginGivesUp(t)
  BY <1>1, SameAddress, KeptAddress
     DEF NtpBegin, Started, SkipUpdate, StampAnswer, Return, IsSynced, ReadStamp,
         ReadEpoch, BeginGivesUp, device
<1>2. CASE Begin(t)
  <2>1. UNCHANGED <<lookups, answer>> /\ client' = Begun(begun.server)
    BY <1>2 DEF Begin
  <2>2. "stale" \notin mishap' =>
          \A s \in Servers : Outstanding(s) => s = begun.server
    BY <1>2 DEF Begin
  <2> QED
    BY <2>1, <2>2, BegunFields DEF AddressInv, Outstanding
<1>3. CASE TakeAnswer(t)
  <2>1. AddressKept
    BY <1>3 DEF TakeAnswer, AddressKept, Outstanding, TypeOK
  <2> QED
    BY <2>1, KeptAddress
<1>4. CASE Wait(t)
  <2>1. AddressKept
    BY <1>4 DEF Wait, Polled, AddressKept, Outstanding, TypeOK
  <2> QED
    BY <2>1, KeptAddress
<1>5. CASE StartResolve(t)
  <2>1. /\ client'.server = client.server /\ client'.address = client.address
        /\ client'.resolved = client.resolved
        /\ client'.socket # None => client'.socket = client.socket
        /\ UNCHANGED <<mishap, answer>>
    BY <1>5 DEF StartResolve, Polled, TypeOK
  <2>2. \A s \in Servers : Outstanding(s)' => Outstanding(s) \/ s = client.server
    BY <1>5 DEF StartResolve, Outstanding, TypeOK
  <2> QED
    BY <2>1, <2>2 DEF AddressInv
<1>6. CASE SendRequest(t)
  <2>1. /\ client'.server = client.server /\ client'.address = client.address
        /\ client'.resolved = client.resolved
        /\ client'.socket \in {None, client.socket, client.address}
    BY <1>6 DEF SendRequest, Polled, TypeOK
  <2>2. UNCHANGED <<mishap, answer, lookups>>
    BY <1>6 DEF SendRequest
  <2> QED
    BY <2>1, <2>2 DEF AddressInv, Outstanding
<1>7. CASE EndRequest(t)
  <2>1. UNCHANGED <<mishap, answer, lookups>>
    BY <1>7 DEF EndRequest
  <2>2. CASE pc[t] = "resolved"
    <3>1. /\ client'.server = client.server /\ client'.address = client.server
          /\ client'.socket = None
      BY <1>7, <2>2 DEF EndRequest, TypeOK
    <3> QED
      BY <2>1, <3>1 DEF AddressInv, Outstanding
  <2>3. CASE pc[t] # "resolved"
    <3>1. AddressKept
      BY <1>7, <2>1, <2>3 DEF EndRequest, AddressKept, Outstanding, TypeOK
    <3> QED
      BY <3>1, KeptAddress
  <2> QED
    BY <2>2, <2>3
<1> QED
  BY <1>1, <1>2, <1>3, <1>4, <1>5, <1>6, <1>7 DEF Step

LEMMA OtherKeepsAddress ==
  ASSUME TypeOK, AddressInv,
         SaveConfig \/ Upload \/ (\E s \in Servers : DnsAnswers(s)) \/ Resolve
           \/ Reply \/ Network \/ Tick
  PROVE  AddressInv'
<1>1. CASE SaveConfig \/ BeginUpload \/ StopGivesUp \/ Stopped \/ Reply \/ Network
             \/ Tick
  BY <1>1, SameAddress, KeptAddress
     DEF SaveConfig, BeginUpload, StopGivesUp, Stopped, Reply, Network, Tick, device
<1>2. CASE Stop
  <2>1. AddressKept
    BY <1>2 DEF Stop, AddressKept, Outstanding, TypeOK
  <2> QED
    BY <2>1, KeptAddress
<1>3. CASE Restart
  <2>1. /\ lookups' = [s \in Servers |-> 0] /\ answer' = None
        /\ client' = NotBegun
    BY <1>3 DEF Restart
  <2> QED
    BY <2>1 DEF AddressInv, Outstanding, NotBegun
<1>4. ASSUME NEW s \in Servers, DnsAnswers(s) PROVE AddressInv'
  <2>1. UNCHANGED <<client, mishap>>
    BY <1>4 DEF DnsAnswers, device
  <2>2. \A r \in Servers : lookups'[r] > 0 => lookups[r] > 0
    BY <1>4 DEF DnsAnswers, TypeOK
  <2>3. answer'.server = s /\ lookups[s] > 0
    BY <1>4 DEF DnsAnswers
  <2> QED
    BY <2>1, <2>2, <2>3 DEF AddressInv, Outstanding
<1>5. CASE HandleDnsResult
  <2>1. UNCHANGED <<lookups, mishap>> /\ answer' = None /\ answer # None
    BY <1>5 DEF HandleDnsResult
  <2>2. answer.server \in Servers /\ Outstanding(answer.server)
    BY <2>1 DEF TypeOK, Outstanding
  <2>3. CASE answer.found
    <3>1. /\ client'.server = client.server /\ client'.address = answer.server
          /\ client'.socket = None
      BY <1>5, <2>3 DEF HandleDnsResult, TypeOK
    <3> QED
      BY <2>1, <2>2, <3>1 DEF AddressInv, Outstanding
  <2>4. CASE ~answer.found
    <3>1. AddressKept
      BY <1>5, <2>1, <2>4 DEF HandleDnsResult, AddressKept, Outstanding, TypeOK
    <3> QED
      BY <3>1, KeptAddress
  <2> QED
    BY <2>3, <2>4
<1>6. CASE DnsResultGivesUp
  <2>1. AddressKept
    BY <1>6 DEF DnsResultGivesUp, AddressKept, Outstanding, device
  <2> QED
    BY <2>1, KeptAddress
<1> QED
  BY <1>1, <1>2, <1>3, <1>4, <1>5, <1>6 DEF Upload, Resolve

\* Requests go to the server the client was begun with, unless a lookup of
\* another one was open then.
THEOREM AddressIsTheServers == Spec => []AddressOfServer
<1>1. Init => AddressInv
  BY DEF Init, AddressInv, Outstanding, NotBegun
<1>2. TypeOK /\ AddressInv /\ [Next]_vars => AddressInv'
  <2> SUFFICES ASSUME TypeOK, AddressInv, [Next]_vars PROVE AddressInv'
    OBVIOUS
  <2>1. CASE UNCHANGED vars
    BY <2>1, SameAddress, KeptAddress DEF vars, device
  <2> QED
    BY <2>1, StepKeepsAddress, OtherKeepsAddress DEF Next
<1>3. AddressInv => AddressOfServer
  BY DEF AddressInv, AddressOfServer
<1> QED
  BY <1>1, <1>2, <1>3, NtpTypeCorrect, PTL DEF Spec

\* The steps that neither open nor close a lookup, nor begin or end to wait.
WaitKept ==
  /\ client'.resolving => client.resolving
  /\ (\E t \in Tasks : pc[t] = "lookedup")' => \E t \in Tasks : pc[t] = "lookedup"
  /\ UNCHANGED <<lookups, answer>> /\ mishap \subseteq mishap'

LEMMA KeptWait == ResolvingIsAnswered /\ WaitKept => ResolvingIsAnswered'
  BY DEF ResolvingIsAnswered, WaitKept, Outstanding

LEMMA StepKeepsWait ==
  ASSUME TypeOK, ResolvingIsAnswered, NEW t \in Tasks, Step(t)
  PROVE  ResolvingIsAnswered'
<1>1. CASE NtpBegin(t) \/ Started(t)
  <2>1. WaitKept
    BY <1>1 DEF NtpBegin, Started, StartUpdate, Goto, WaitKept, device, TypeOK
  <2> QED
    BY <2>1, KeptWait
<1>2. CASE SkipUpdate(t) \/ StampAnswer(t) \/ Return(t) \/ IsSynced(t)
             \/ ReadStamp(t) \/ ReadEpoch(t) \/ BeginGivesUp(t)
  <2>1. WaitKept
    BY <1>2 DEF SkipUpdate, StampAnswer, Return, IsSynced, ReadStamp, ReadEpoch,
         BeginGivesUp, Goto, WaitKept, device, TypeOK
  <2> QED
    BY <2>1, KeptWait
<1>3. CASE Begin(t)
  <2>1. client'.resolving = FALSE
    BY <1>3, BegunFields DEF Begin
  <2>2. ~\E u \in Tasks : pc'[u] = "lookedup"
    BY <1>3 DEF Begin, MutexFree, Goto, TypeOK
  <2> QED
    BY <2>1, <2>2 DEF ResolvingIsAnswered
<1>4. CASE TakeAnswer(t) \/ Wait(t) \/ SendRequest(t)
  <2>1. WaitKept
    BY <1>4 DEF TakeAnswer, Wait, SendRequest, Polled, Goto, WaitKept, TypeOK
  <2> QED
    BY <2>1, KeptWait
<1>5. CASE StartResolve(t)
  <2>1. /\ client'.resolving = client.resolving
        /\ UNCHANGED <<answer, mishap>>
    BY <1>5 DEF StartResolve, Polled, TypeOK
  <2>2. CASE Goto(t, "lookedup") /\ client.server \in Servers
                /\ lookups' = [lookups EXCEPT ![client.server] = @ + 1]
    <3>1. lookups'[client.server] > 0
      BY <2>2 DEF TypeOK
    <3> QED
      BY <2>2, <3>1 DEF ResolvingIsAnswered, Outstanding
  <2>3. CASE UNCHANGED lookups /\ (Goto(t, "return") \/ Goto(t, "resolved")
                                     \/ Goto(t, "over"))
    <3>1. WaitKept
      BY <2>1, <2>3 DEF WaitKept, Goto, TypeOK
    <3> QED
      BY <3>1, KeptWait
  <2> QED
    BY <1>5, <2>2, <2>3 DEF StartResolve, LookupRoom, TypeOK
<1>6. CASE EndRequest(t)
  <2>1. UNCHANGED <<lookups, answer, mishap>>
    BY <1>6 DEF EndRequest
  <2>2. CASE pc[t] = "lookedup"
    BY <2>1, <2>2 DEF ResolvingIsAnswered, Outstanding
  <2>3. CASE pc[t] # "lookedup"
    <3>1. WaitKept
      BY <1>6, <2>1, <2>3 DEF EndRequest, WaitKept, Goto, TypeOK
    <3> QED
      BY <3>1, KeptWait
  <2> QED
    BY <2>2, <2>3
<1> QED
  BY <1>1, <1>2, <1>3, <1>4, <1>5, <1>6 DEF Step

LEMMA OtherKeepsWait ==
  ASSUME TypeOK, ResolvingIsAnswered,
         SaveConfig \/ Upload \/ (\E s \in Servers : DnsAnswers(s)) \/ Resolve
           \/ Reply \/ Network \/ Tick
  PROVE  ResolvingIsAnswered'
<1>1. CASE SaveConfig \/ Reply \/ Network \/ Tick
  <2>1. WaitKept
    BY <1>1 DEF SaveConfig, Reply, Network, Tick, WaitKept, device, locals
  <2> QED
    BY <2>1, KeptWait
<1>2. CASE BeginUpload \/ Stop \/ StopGivesUp \/ Stopped
  <2>1. CASE Stop
    <3>1. client'.resolving = FALSE
      BY <2>1 DEF Stop, TypeOK
    <3>2. /\ UNCHANGED <<lookups, answer, mishap>>
          /\ \A u \in Tasks : pc'[u] = "lookedup" => pc[u] = "lookedup"
      BY <2>1 DEF Stop, Goto, TypeOK
    <3> QED
      BY <3>1, <3>2 DEF ResolvingIsAnswered, Outstanding
  <2>2. CASE BeginUpload \/ StopGivesUp \/ Stopped
    <3>1. WaitKept
      BY <2>2 DEF BeginUpload, StopGivesUp, Stopped, Goto, WaitKept, device, TypeOK
    <3> QED
      BY <3>1, KeptWait
  <2> QED
    BY <1>2, <2>1, <2>2
<1>3. CASE Restart
  <2>1. client'.resolving = FALSE /\ \A t \in Tasks : pc'[t] = "idle"
    BY <1>3 DEF Restart, NotBegun
  <2> QED
    BY <2>1 DEF ResolvingIsAnswered
<1>4. ASSUME NEW s \in Servers, DnsAnswers(s) PROVE ResolvingIsAnswered'
  <2>1. answer' \in [server : Servers, found : BOOLEAN]
    BY <1>4, AnswerTypes
  <2>2. answer'.server = s
    BY <1>4 DEF DnsAnswers
  <2>3. Outstanding(s)'
    BY <2>1, <2>2 DEF Outstanding
  <2> QED
    BY <2>3 DEF ResolvingIsAnswered
<1>5. CASE HandleDnsResult
  <2>1. client'.resolving = FALSE
    BY <1>5 DEF HandleDnsResult, TypeOK
  <2>2. ~\E u \in Tasks : pc'[u] = "lookedup"
    BY <1>5 DEF HandleDnsResult, MutexFree, locals
  <2> QED
    BY <2>1, <2>2 DEF ResolvingIsAnswered
<1>6. CASE DnsResultGivesUp
  BY <1>6 DEF DnsResultGivesUp, ResolvingIsAnswered
<1> QED
  BY <1>1, <1>2, <1>3, <1>4, <1>5, <1>6 DEF Upload, Resolve

\* The client never waits for a lookup that is not open, unless the callback has
\* given up.
THEOREM WaitIsAnswered == Spec => []ResolvingIsAnswered
<1>1. Init => ResolvingIsAnswered
  BY DEF Init, ResolvingIsAnswered, NotBegun
<1>2. TypeOK /\ ResolvingIsAnswered /\ [Next]_vars => ResolvingIsAnswered'
  <2> SUFFICES ASSUME TypeOK, ResolvingIsAnswered, [Next]_vars
               PROVE  ResolvingIsAnswered'
    OBVIOUS
  <2>1. CASE UNCHANGED vars
    BY <2>1 DEF vars, device, locals, ResolvingIsAnswered, Outstanding
  <2> QED
    BY <2>1, StepKeepsWait, OtherKeepsWait DEF Next
<1> QED
  BY <1>1, <1>2, NtpTypeCorrect, PTL DEF Spec

------------------------------------------------------------------------------
(* The two halves of an answer *)

\* Apart from the step between them, time and moment are of one answer, and a
\* task that has read one half without being disturbed will read the other.
Halves ==
  /\ \A t \in Tasks : pc[t] = "stamp" => stored.epoch # 0
  /\ client.synced /\ (\A t \in Tasks : pc[t] # "stamp")
       => stored.epoch # 0 /\ stored.stamp = stored.epoch
  /\ \A t \in Tasks : pc[t] = "readstamp" /\ ~torn[t] => client.synced
  /\ \A t \in Tasks : pc[t] = "readepoch" /\ ~torn[t]
       => stored.epoch # 0 /\ got[t] = stored.epoch

\* The steps that do not write what timeprovider() reads.
HalvesKept ==
  /\ UNCHANGED stored
  /\ client'.synced = client.synced
  /\ \A t \in Tasks : (pc'[t] = "stamp") <=> (pc[t] = "stamp")
  /\ \A t \in Tasks : pc'[t] = "readstamp" =>
       client.synced \/ (pc[t] = "readstamp" /\ (torn[t] => torn'[t]))
  /\ \A t \in Tasks : pc'[t] = "readepoch" =>
       pc[t] = "readepoch" /\ got'[t] = got[t] /\ (torn[t] => torn'[t])

LEMMA KeptHalves ==
  ASSUME Halves, HalvesKept
  PROVE  Halves'
<1>1. stored' = stored /\ client'.synced = client.synced
  BY DEF HalvesKept
<1>2. \A t \in Tasks : pc'[t] = "stamp" => stored'.epoch # 0
  BY <1>1 DEF Halves, HalvesKept
<1>3. client'.synced /\ (\A t \in Tasks : pc'[t] # "stamp")
        => stored'.epoch # 0 /\ stored'.stamp = stored'.epoch
  BY <1>1 DEF Halves, HalvesKept
<1>4. ASSUME NEW t \in Tasks, pc'[t] = "readepoch", ~torn'[t]
      PROVE  stored'.epoch # 0 /\ got'[t] = stored'.epoch
  <2>1. pc[t] = "readepoch" /\ got'[t] = got[t] /\ ~torn[t]
    BY <1>4 DEF HalvesKept
  <2> QED
    BY <1>1, <2>1 DEF Halves
<1>5. \A t \in Tasks : pc'[t] = "readstamp" /\ ~torn'[t] => client'.synced
  BY <1>1 DEF Halves, HalvesKept
<1> QED
  BY <1>2, <1>3, <1>4, <1>5 DEF Halves

\* With nothing stored nobody may read on undisturbed.
LEMMA ClearedHalves ==
  ASSUME Halves, client'.synced = FALSE,
         \A t \in Tasks : pc'[t] # "stamp",
         \A t \in Tasks : pc'[t] \in {"readstamp", "readepoch"} => torn'[t]
  PROVE  Halves'
  BY DEF Halves

LEMMA StepKeepsHalves ==
  ASSUME TypeOK, Halves, NEW t \in Tasks, Step(t)
  PROVE  Halves'
<1>1. CASE NtpBegin(t) \/ Started(t)
  <2>1. HalvesKept
    BY <1>1 DEF NtpBegin, Started, StartUpdate, Goto, HalvesKept, device, TypeOK
  <2> QED
    BY <2>1, KeptHalves
<1>2. CASE SkipUpdate(t) \/ Return(t) \/ IsSynced(t) \/ BeginGivesUp(t)
  <2>1. HalvesKept
    BY <1>2 DEF SkipUpdate, Return, IsSynced, BeginGivesUp, Goto, HalvesKept, device, TypeOK
  <2> QED
    BY <2>1, KeptHalves
<1>3. CASE Begin(t)
  <2>1. client'.synced = FALSE
    BY <1>3, BegunFields DEF Begin
  <2>2. /\ \A u \in Tasks : pc'[u] # "stamp"
        /\ \A u \in Tasks : pc'[u] \in {"readstamp", "readepoch"} => torn'[u]
    BY <1>3 DEF Begin, MutexFree, Goto, Forgets, TypeOK
  <2> QED
    BY <2>1, <2>2, ClearedHalves
<1>4. CASE TakeAnswer(t)
  <2>1. stored'.epoch \in 1..2
    BY <1>4 DEF TakeAnswer, NextAnswer, TypeOK
  <2>2. /\ pc'[t] = "stamp"
        /\ \A u \in Tasks : pc'[u] = "readepoch" => torn'[u]
        /\ client'.synced
    BY <1>4 DEF TakeAnswer, Goto, Tears, TypeOK
  <2> QED
    BY <2>1, <2>2 DEF Halves
<1>5. CASE StampAnswer(t)
  <2>1. stored'.epoch = stored.epoch /\ stored'.stamp = stored.epoch
    BY <1>5 DEF StampAnswer, TypeOK
  <2>2. stored.epoch # 0
    BY <1>5 DEF StampAnswer, Halves
  <2>3. /\ UNCHANGED client
        /\ \A u \in Tasks :
             /\ pc'[u] = "readepoch" => torn'[u]
             /\ pc'[u] = "readstamp" => pc[u] = "readstamp" /\ (torn[u] => torn'[u])
    BY <1>5 DEF StampAnswer, Goto, Tears, TypeOK
  <2> QED
    BY <2>1, <2>2, <2>3 DEF Halves
<1>6. CASE Wait(t) \/ StartResolve(t) \/ SendRequest(t) \/ EndRequest(t)
  <2>1. client'.synced = client.synced /\ UNCHANGED <<stored, torn>>
    <3>1. CASE Wait(t) \/ StartResolve(t)
      BY <3>1 DEF Wait, StartResolve, Polled, TypeOK
    <3>2. CASE SendRequest(t)
      BY <3>2 DEF SendRequest, Polled, TypeOK
    <3>3. CASE EndRequest(t)
      BY <3>3 DEF EndRequest, TypeOK
    <3> QED
      BY <1>6, <3>1, <3>2, <3>3
  <2>2. /\ pc[t] \notin {"stamp", "readstamp", "readepoch"}
        /\ \E p \in {"return", "resolved", "lookedup", "over"} : Goto(t, p)
    BY <1>6 DEF Wait, StartResolve, SendRequest, EndRequest, Poll
  <2>3. HalvesKept
    BY <2>1, <2>2 DEF Goto, HalvesKept, TypeOK
  <2> QED
    BY <2>3, KeptHalves
<1>7. CASE ReadStamp(t)
  <2>1. /\ UNCHANGED <<stored, client>>
        /\ \A u \in Tasks \ {t} : /\ pc'[u] = pc[u] /\ got'[u] = got[u]
                                  /\ torn'[u] = torn[u]
        /\ pc[t] # "stamp" /\ pc'[t] = "readepoch" /\ got'[t] = stored.stamp
    BY <1>7 DEF ReadStamp, device, TypeOK
  <2>2. ~torn'[t] => client.synced /\ \A u \in Tasks : pc[u] # "stamp"
    BY <1>7 DEF ReadStamp, Halves, TypeOK
  <2> QED
    BY <2>1, <2>2 DEF Halves
<1>8. CASE ReadEpoch(t)
  <2>1. HalvesKept
    BY <1>8 DEF ReadEpoch, Goto, HalvesKept, device, TypeOK
  <2> QED
    BY <2>1, KeptHalves
<1> QED
  BY <1>1, <1>2, <1>3, <1>4, <1>5, <1>6, <1>7, <1>8 DEF Step

LEMMA OtherKeepsHalves ==
  ASSUME TypeOK, Halves,
         SaveConfig \/ Upload \/ (\E s \in Servers : DnsAnswers(s)) \/ Resolve
           \/ Reply \/ Network \/ Tick
  PROVE  Halves'
<1>1. CASE SaveConfig \/ (\E s \in Servers : DnsAnswers(s)) \/ Reply \/ Network
             \/ Tick \/ DnsResultGivesUp
  <2>1. HalvesKept
    BY <1>1 DEF SaveConfig, DnsAnswers, Reply, Network, Tick, DnsResultGivesUp,
         HalvesKept, device, locals
  <2> QED
    BY <2>1, KeptHalves
<1>2. CASE BeginUpload \/ StopGivesUp \/ Stopped
  <2>1. HalvesKept
    BY <1>2 DEF BeginUpload, StopGivesUp, Stopped, Goto, HalvesKept, device, TypeOK
  <2> QED
    BY <2>1, KeptHalves
<1>3. CASE Stop
  <2>1. client'.synced = FALSE
    BY <1>3 DEF Stop, TypeOK
  <2>2. /\ \A u \in Tasks : pc'[u] # "stamp"
        /\ \A u \in Tasks : pc'[u] \in {"readstamp", "readepoch"} => torn'[u]
    BY <1>3 DEF Stop, MutexFree, Goto, Forgets, TypeOK
  <2> QED
    BY <2>1, <2>2, ClearedHalves
<1>4. CASE Restart
  <2>1. client'.synced = FALSE /\ \A t \in Tasks : pc'[t] = "idle"
    BY <1>4 DEF Restart, NotBegun
  <2> QED
    BY <2>1 DEF Halves
<1>5. CASE HandleDnsResult
  <2>1. client'.synced = client.synced
    BY <1>5 DEF HandleDnsResult, TypeOK
  <2>2. HalvesKept
    BY <1>5, <2>1 DEF HandleDnsResult, HalvesKept, locals
  <2> QED
    BY <2>2, KeptHalves
<1> QED
  BY <1>1, <1>2, <1>3, <1>4, <1>5 DEF Upload, Resolve

LEMMA OnlyReadEpochEnds ==
  ASSUME TypeOK, [Next]_vars, NEW t \in Tasks,
         pc[t] = "readepoch", pc'[t] = "idle"
  PROVE  ReadEpoch(t)
<1>1. ASSUME NEW u \in Tasks, Step(u), u # t PROVE pc'[t] = pc[t]
  BY <1>1 DEF Step, NtpBegin, Begin, BeginGivesUp, Started, StartUpdate, SkipUpdate,
       TakeAnswer, StampAnswer, Wait, StartResolve, SendRequest, EndRequest, Return,
       IsSynced, ReadStamp, ReadEpoch, Goto, TypeOK
<1>2. CASE Step(t)
  BY <1>2 DEF Step, NtpBegin, Begin, BeginGivesUp, Started, SkipUpdate, TakeAnswer,
       StampAnswer, Wait, StartResolve, SendRequest, EndRequest, Return, IsSynced,
       ReadStamp, Goto, Poll
<1>3. CASE Upload
  BY <1>3 DEF Upload, BeginUpload, Stop, StopGivesUp, Stopped, Restart, Goto, TypeOK
<1>4. CASE SaveConfig \/ (\E s \in Servers : DnsAnswers(s)) \/ Resolve \/ Reply
             \/ Network \/ Tick \/ UNCHANGED vars
  BY <1>4 DEF SaveConfig, DnsAnswers, Resolve, HandleDnsResult, DnsResultGivesUp,
       Reply, Network, Tick, vars, locals
<1> QED
  BY <1>1, <1>2, <1>3, <1>4 DEF Next

\* The clock is set to a wrong time only by a task that another one disturbed.
THEOREM TimeIsOfOneAnswer == Spec => ClockRight
<1>1. Init => Halves
  BY DEF Init, Halves, NotBegun
<1>2. TypeOK /\ Halves /\ [Next]_vars => Halves'
  <2> SUFFICES ASSUME TypeOK, Halves, [Next]_vars PROVE Halves'
    OBVIOUS
  <2>1. CASE UNCHANGED vars
    BY <2>1 DEF vars, device, locals, Halves
  <2> QED
    BY <2>1, StepKeepsHalves, OtherKeepsHalves DEF Next
<1>3. ASSUME TypeOK, Halves, [Next]_vars, NEW t \in Tasks,
             pc[t] = "readepoch", pc'[t] = "idle", clock' = "wrong"
      PROVE  torn[t]
  <2>1. ReadEpoch(t)
    BY <1>3, OnlyReadEpochEnds
  <2> QED
    BY <1>3, <2>1 DEF ReadEpoch, Halves
<1>4. TypeOK /\ Halves /\ [Next]_vars =>
        [\A t \in Tasks : pc[t] = "readepoch" /\ pc'[t] = "idle" /\ clock' = "wrong"
                             => torn[t]]_vars
  BY <1>3
<1> QED
  BY <1>1, <1>2, <1>4, NtpTypeCorrect, PTL DEF Spec, ClockRight
=============================================================================
