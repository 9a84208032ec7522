----------------------------- MODULE NtpClient -----------------------------
(***************************************************************************)
(* How the board learns the time: AsyncNtpClient and the glue around it,   *)
(* KSBAsyncNTP.cpp.                                                        *)
(*                                                                         *)
(* The one client object is used by three tasks:                           *)
(*   - the loop task, which calls ntpLoop() in every pass, and             *)
(*     timeprovider() whenever the time library wants to be set again;     *)
(*   - the AsyncTCP task, which calls timeprovider() in the same way from  *)
(*     pages that show a time, saves the configuration, and stops the      *)
(*     client when an upload begins;                                       *)
(*   - the TCP/IP task, which brings the answers to DNS lookups.           *)
(* A mutex is held over update(), begin(), stop() and handleDnsResult():   *)
(* update() does without when it is taken, the others wait for a second    *)
(* and give up.  What begins update() and what timeprovider() reads is     *)
(* outside of it.                                                          *)
(*                                                                         *)
(* A server is named by what the user typed, and its address by the same   *)
(* name.  Times are ages; a comparison with a copy of millis() is made in  *)
(* the step that reads millis().  A packet that is no answer counts as     *)
(* lost.  The choice between the WiFi's and the tunnel's route is the      *)
(* outcome "ready or not"; that it may take long, with the mutex held, is  *)
(* kept (Busy).  A configuration without a server gets pool.ntp.org, so    *)
(* that there always is one.                                               *)
(***************************************************************************)
EXTENDS Integers

CONSTANTS
  Servers,     \* what MyConfParam.v_timeserver can be
  Numeric,     \* those of them that are addresses and need no lookup
  None,        \* no server
  Interval,    \* syncIntervalMs: how long a synchronization lasts
  Retry,       \* REQUEST_RETRY_MS: the least time between two requests
  MaxLookups,  \* bound: entries of the DNS table for one name
  MaxEvents    \* bound: pages with a time, configurations saved, uploads begun,
               \* losses of the WiFi, and requests that fail, together

ASSUME NtpAssumption ==
  /\ Numeric \subseteq Servers /\ Servers # {} /\ None \notin Servers
  /\ None \notin [server : Servers, found : BOOLEAN]
  /\ Interval \in Nat \ {0} /\ Retry \in Nat \ {0}
  /\ MaxLookups \in Nat \ {0} /\ MaxEvents \in Nat

Tasks == {"loop", "web"}

VARIABLES
  config,    \* MyConfParam.v_timeserver
  upload,    \* firmwareUpdateInProgress
  begun,     \* [started, server]: ntpClientStarted, activeNtpServer
  client,    \* the members of the AsyncNtpClient
  requested, \* age of lastRequestAt, up to Retry; Retry also when it is 0
  age,       \* age of lastSyncAt, up to Interval
  stored,    \* which answer syncedEpoch and lastSyncAt are from
  mail,      \* what is under way at the client's socket
  lookups,   \* how many lookups of each name the DNS has open
  answer,    \* the lookup whose callback the TCP/IP task is in
  clock,     \* the time library's: "unset", "right", "wrong"
  online,    \* WiFi is up and MQTT is not connecting
  pc,        \* per task: where it is
  got,       \* per task: which answer its copy of lastSyncAt is from
  left,      \* what is left of MaxEvents
  mishap,    \* history: what has gone wrong since the client was begun
  torn       \* history, per task: others wrote while it read the time

device == <<client, requested, age, stored, mail>>
world  == <<config, upload, online>>
locals == <<pc, got, torn>>
vars   == <<world, left, begun, device, lookups, answer, clock, locals, mishap>>

------------------------------------------------------------------------------
(* Values *)

\* connected and udpSocket >= 0 go together; socket is whose address the open
\* one is connected to.
NotBegun == [server |-> None, enabled |-> FALSE, resolving |-> FALSE,
             resolved |-> FALSE, address |-> None, synced |-> FALSE,
             socket |-> None]
NeverSynced == [epoch |-> 0, stamp |-> 0]

Cap(n, top) == IF n > top THEN top ELSE n

\* Answers are numbered 1, 2, 1, ...; 0 is before the first.
NextAnswer(n) == IF n = 1 THEN 2 ELSE 1

\* Inside of update(), with the mutex; Busy where the routes, the socket or the
\* DNS are being worked on, which may take more than a second.
Busy   == {"resolved", "lookedup", "over"}
Inside == Busy \cup {"stamp"}
MutexFree == \A t \in Tasks : pc[t] \notin Inside
Blocked   == \E t \in Tasks : pc[t] \in Busy

\* The DNS takes no empty name, and only so many lookups (a slip: any number).
AnyRoom(s)     == s # None
LookupRoom(s)  == s # None /\ lookups[s] < MaxLookups
Outstanding(s) == lookups[s] > 0 \/ (answer # None /\ answer.server = s)

Init ==
  /\ config \in Servers /\ upload = FALSE /\ online = FALSE
  /\ left = MaxEvents
  /\ begun = [started |-> FALSE, server |-> None]
  /\ client = NotBegun /\ requested = Retry /\ age = Interval
  /\ stored = NeverSynced /\ mail = "none"
  /\ lookups = [s \in Servers |-> 0] /\ answer = None
  /\ clock = "unset"
  /\ pc = [t \in Tasks |-> "idle"]
  /\ got = [t \in Tasks |-> 0] /\ torn = [t \in Tasks |-> FALSE]
  /\ mishap = {}

Spend == left > 0 /\ left' = left - 1

\* Task t goes on at p; what it has read of the time is of no more use.
Goto(t, p) == pc' = [pc EXCEPT ![t] = p] /\ got' = [got EXCEPT ![t] = 0]

\* Task t writes syncedEpoch or lastSyncAt: whoever is reading them is torn.
Tears(t) == torn' = [u \in Tasks |-> torn[u] \/ (u # t /\ pc[u] = "readepoch")]

\* Task t forgets that there is a time: whoever has just found one is torn too.
Forgets(t) ==
  torn' = [u \in Tasks |->
             torn[u] \/ (u # t /\ pc[u] \in {"readstamp", "readepoch"})]

------------------------------------------------------------------------------
(* ntpBegin(), and what update() tests before it takes the mutex *)

Recent == client.synced /\ age < Interval

StartUpdate(t) ==
  IF client.enabled /\ online /\ ~Recent THEN Goto(t, "poll") ELSE Goto(t, "return")

\* A slip: once begun, the client stays with its server.
NtpBeginOnce(t) ==
  /\ pc[t] = "idle"
  /\ \/ upload /\ Goto(t, "return") /\ UNCHANGED begun
     \/ ~upload /\ begun.started /\ StartUpdate(t) /\ UNCHANGED begun
     \/ /\ ~upload /\ ~begun.started /\ Goto(t, "begin")
        /\ begun' = [begun EXCEPT !.server = config]
  /\ IF t = "web" THEN Spend ELSE UNCHANGED left
  /\ UNCHANGED <<world, device, lookups, answer, clock, mishap, torn>>

\* Nothing during an upload; else the client is begun again when another
\* server is configured.  activeNtpServer is set before the client is.
NtpBegin(t) ==
  /\ pc[t] = "idle"
  /\ \/ upload /\ Goto(t, "return") /\ UNCHANGED begun
     \/ /\ ~upload /\ begun = [started |-> TRUE, server |-> config]
        /\ StartUpdate(t) /\ UNCHANGED begun
     \/ /\ ~upload /\ begun # [started |-> TRUE, server |-> config]
        /\ begun' = [begun EXCEPT !.server = config]
        /\ Goto(t, "begin")
  /\ IF t = "web" THEN Spend ELSE UNCHANGED left
  /\ UNCHANGED <<world, device, lookups, answer, clock, mishap, torn>>

\* A slip: the address of the server before is kept.
BegunAsBefore(server) ==
  [client EXCEPT !.server = server, !.enabled = server # None,
                 !.resolving = FALSE, !.synced = FALSE, !.socket = None]

\* begin() forgets everything, but not the lookups the DNS still has.
Begun(server) ==
  [server |-> server, enabled |-> server # None, resolving |-> FALSE,
   resolved |-> server \in Numeric,
   address |-> IF server \in Numeric THEN server ELSE None,
   synced |-> FALSE, socket |-> None]

Begin(t) ==
  /\ pc[t] = "begin" /\ MutexFree /\ Goto(t, "started")
  /\ client' = Begun(begun.server)
  /\ requested' = Retry /\ age' = Interval /\ stored' = NeverSynced
  /\ mail' = "none"
  /\ mishap' = IF \E s \in Servers \ {begun.server} : Outstanding(s)
                 THEN {"stale"} ELSE {}
  /\ Forgets(t)
  /\ UNCHANGED <<world, left, begun, lookups, answer, clock>>

\* No mutex within a second.  The caller is not told.
BeginGivesUp(t) ==
  /\ pc[t] = "begin" /\ Blocked /\ Goto(t, "started")
  /\ mishap' = mishap \cup {"begin"}
  /\ UNCHANGED <<world, left, begun, device, lookups, answer, clock, torn>>

Started(t) ==
  /\ pc[t] = "started" /\ StartUpdate(t)
  /\ begun' = [begun EXCEPT !.started = TRUE]
  /\ UNCHANGED <<world, left, device, lookups, answer, clock, mishap, torn>>

------------------------------------------------------------------------------
(* update() *)

SkipUpdate(t) ==
  /\ pc[t] = "poll" /\ ~MutexFree /\ Goto(t, "return")
  /\ UNCHANGED <<world, left, begun, device, lookups, answer, clock, mishap, torn>>

\* The mutex is taken and the socket read.  handlePacket() stores the answer's
\* time first, and when it came in StampAnswer.  A packet that is no answer is
\* as good as lost.
TakeAnswer(t) ==
  /\ pc[t] = "poll" /\ MutexFree /\ mail = "time"
  /\ Goto(t, "stamp") /\ Tears(t)
  /\ stored' = [stored EXCEPT !.epoch = NextAnswer(@)]
  /\ client' = [client EXCEPT !.synced = TRUE]
  /\ mail' = "none"
  /\ UNCHANGED <<world, left, begun, requested, age, lookups, answer, clock,
                 mishap>>

\* update() took millis() before handlePacket() did: when it is a millisecond or
\* more older, now - lastSyncAt wraps and the answer does not count as recent, so
\* that a request is sent when one is due.
StampAnswer(t) ==
  /\ pc[t] = "stamp" /\ Tears(t)
  /\ stored' = [stored EXCEPT !.stamp = stored.epoch]
  /\ age' = 0
  /\ \/ Goto(t, "return") /\ UNCHANGED <<requested, mail, left>>
     \/ /\ requested = Retry /\ requested' = 0
        /\ \/ Spend /\ Goto(t, "return") /\ UNCHANGED mail
           \/ Goto(t, "over") /\ mail' = "asked" /\ UNCHANGED left
  /\ UNCHANGED <<world, begun, client, lookups, answer, clock, mishap>>

\* The mutex is taken, and there is no answer.
Poll(t) == pc[t] = "poll" /\ MutexFree /\ mail # "time"
\* pollResponse() closes a socket that has failed.
Polled == IF mail = "error" THEN [client EXCEPT !.socket = None] ELSE client
Due    == ~Recent /\ requested = Retry

Wait(t) ==
  /\ Poll(t) /\ (~Due \/ (~client.resolved /\ client.resolving))
  /\ Goto(t, "return")
  /\ client' = Polled /\ mail' = IF mail = "error" THEN "none" ELSE mail
  /\ UNCHANGED <<world, left, begun, requested, age, stored, lookups, answer,
                 clock, mishap, torn>>

\* The route is not ready; or the DNS has the address, looks for it, or is
\* full.  The result is looked at after the route has been given back.
StartResolve(t) ==
  /\ Poll(t) /\ Due /\ ~client.resolved /\ ~client.resolving
  /\ requested' = 0
  /\ \/ Spend /\ Goto(t, "return") /\ UNCHANGED lookups
     \/ Goto(t, "resolved") /\ UNCHANGED <<lookups, left>>
     \/ /\ LookupRoom(client.server)
        /\ lookups' = [lookups EXCEPT ![client.server] = @ + 1]
        /\ Goto(t, "lookedup") /\ UNCHANGED left
     \/ /\ ~LookupRoom(client.server)
        /\ Goto(t, "over") /\ UNCHANGED <<lookups, left>>
     \/ Spend /\ Goto(t, "over") /\ UNCHANGED lookups
  /\ client' = Polled /\ mail' = IF mail = "error" THEN "none" ELSE mail
  /\ UNCHANGED <<world, begun, age, stored, answer, clock, mishap, torn>>

\* The route is not ready; or there is no socket; or the request is sent,
\* whether it gets anywhere or not.
SendRequest(t) ==
  /\ Poll(t) /\ Due /\ client.resolved /\ requested' = 0
  /\ \/ /\ Spend /\ Goto(t, "return") /\ client' = Polled
        /\ mail' = IF mail = "error" THEN "none" ELSE mail
     \/ /\ Spend /\ Polled.socket = None /\ Goto(t, "over")
        /\ client' = Polled /\ mail' = "none"
     \/ /\ Goto(t, "over") /\ mail' = "asked" /\ UNCHANGED left
        /\ client' = IF Polled.socket = None
                       THEN [client EXCEPT !.socket = client.address] ELSE client
  /\ UNCHANGED <<world, begun, age, stored, lookups, answer, clock, mishap,
                 torn>>

\* restorePrimaryRoute() has returned.
EndRequest(t) ==
  /\ pc[t] \in Busy /\ Goto(t, "return")
  /\ client' = CASE pc[t] = "resolved" -> [client EXCEPT !.resolved = TRUE,
                                !.address = client.server, !.socket = None]
                 [] pc[t] = "lookedup" -> [client EXCEPT !.resolving = TRUE]
                 [] OTHER -> client
  /\ mail' = IF pc[t] = "resolved" THEN "none" ELSE mail
  /\ UNCHANGED <<world, left, begun, requested, age, stored, lookups, answer,
                 clock, mishap, torn>>

------------------------------------------------------------------------------
(* timeprovider() *)

\* Back from update(): ntpLoop() ends, or timeprovider() ends without a time, or
\* it finds that there is one ...
Return(t) ==
  /\ pc[t] = "return" /\ Goto(t, "idle")
  /\ UNCHANGED <<world, left, begun, device, lookups, answer, clock, mishap, torn>>

\* (A slip: whether there is a time is not asked.)
IsSyncedUnasked(t) ==
  /\ pc[t] = "return" /\ Goto(t, "readstamp")
  /\ UNCHANGED <<world, left, begun, device, lookups, answer, clock, mishap, torn>>

IsSynced(t) ==
  /\ pc[t] = "return" /\ client.synced /\ Goto(t, "readstamp")
  /\ UNCHANGED <<world, left, begun, device, lookups, answer, clock, mishap, torn>>

\* ... and adjustedNtpEpoch() takes lastSyncAt, to add what has passed since then
ReadStamp(t) ==
  /\ pc[t] = "readstamp"
  /\ pc' = [pc EXCEPT ![t] = "readepoch"]
  /\ got' = [got EXCEPT ![t] = stored.stamp]
  /\ torn' = [torn EXCEPT ![t] = @ \/ \E u \in Tasks : pc[u] = "stamp"]
  /\ UNCHANGED <<world, left, begun, device, lookups, answer, clock, mishap>>

\* ... to syncedEpoch.  The library's clock is set, to the right time if both are
\* from one answer.
ReadEpoch(t) ==
  /\ pc[t] = "readepoch" /\ Goto(t, "idle")
  /\ clock' = IF stored.epoch # 0 /\ got[t] = stored.epoch THEN "right" ELSE "wrong"
  /\ torn' = [torn EXCEPT ![t] = FALSE]
  /\ UNCHANGED <<world, left, begun, device, lookups, answer, mishap>>

------------------------------------------------------------------------------
(* The AsyncTCP task: configuration and upload *)

SaveConfig ==
  /\ pc["web"] = "idle" /\ ~upload /\ Spend
  /\ config' \in Servers \ {config}
  /\ UNCHANGED <<upload, online, begun, device, lookups, answer, clock,
                 locals, mishap>>

BeginUpload ==
  /\ pc["web"] = "idle" /\ ~upload /\ Spend
  /\ upload' = TRUE /\ Goto("web", "stop")
  /\ UNCHANGED <<config, online, begun, device, lookups, answer, clock,
                 mishap, torn>>

Stop ==
  /\ pc["web"] = "stop" /\ MutexFree /\ Goto("web", "stopped")
  /\ client' = [client EXCEPT !.enabled = FALSE, !.resolving = FALSE,
                  !.resolved = FALSE, !.synced = FALSE, !.socket = None]
  /\ requested' = Retry /\ age' = Interval /\ stored' = NeverSynced
  /\ mail' = "none" /\ Forgets("web")
  /\ UNCHANGED <<world, left, begun, lookups, answer, clock, mishap>>

StopGivesUp ==
  /\ pc["web"] = "stop" /\ Blocked /\ Goto("web", "stopped")
  /\ UNCHANGED <<world, left, begun, device, lookups, answer, clock, mishap, torn>>

Stopped ==
  /\ pc["web"] = "stopped" /\ Goto("web", "idle")
  /\ begun' = [started |-> FALSE, server |-> None]
  /\ UNCHANGED <<world, left, device, lookups, answer, clock, mishap, torn>>

\* However the upload ends, the board restarts.
Restart ==
  /\ upload /\ \A t \in Tasks : pc[t] = "idle"
  /\ upload' = FALSE /\ online' = FALSE
  /\ begun' = [started |-> FALSE, server |-> None]
  /\ client' = NotBegun /\ requested' = Retry /\ age' = Interval
  /\ stored' = NeverSynced /\ mail' = "none"
  /\ lookups' = [s \in Servers |-> 0] /\ answer' = None
  /\ clock' = "unset" /\ mishap' = {}
  /\ torn' = [t \in Tasks |-> FALSE]
  /\ UNCHANGED <<config, left, pc, got>>

------------------------------------------------------------------------------
(* The TCP/IP task, the network and the clock *)

DnsAnswers(s) ==
  /\ lookups[s] > 0 /\ answer = None
  /\ lookups' = [lookups EXCEPT ![s] = @ - 1]
  /\ \/ answer' = [server |-> s, found |-> TRUE] /\ UNCHANGED left
     \/ answer' = [server |-> s, found |-> FALSE] /\ Spend
  /\ UNCHANGED <<world, begun, device, clock, locals, mishap>>

\* A slip: the client goes on waiting after a lookup that found nothing.
HandleAddressOnly ==
  /\ answer # None /\ MutexFree /\ answer' = None
  /\ IF answer.found
       THEN /\ client' = [client EXCEPT !.resolving = FALSE, !.resolved = TRUE,
                            !.address = answer.server, !.socket = None]
            /\ mail' = "none" /\ UNCHANGED requested
       ELSE requested' = 0 /\ UNCHANGED <<client, mail>>
  /\ UNCHANGED <<world, left, begun, age, stored, lookups, clock, locals, mishap>>

HandleDnsResult ==
  /\ answer # None /\ MutexFree /\ answer' = None
  /\ \/ /\ answer.found
        /\ client' = [client EXCEPT !.resolving = FALSE, !.resolved = TRUE,
                        !.address = answer.server, !.socket = None]
        /\ mail' = "none" /\ UNCHANGED requested
     \/ /\ ~answer.found
        /\ client' = [client EXCEPT !.resolving = FALSE]
        /\ requested' = 0 /\ UNCHANGED mail
  /\ UNCHANGED <<world, left, begun, age, stored, lookups, clock, locals, mishap>>

DnsResultGivesUp ==
  /\ answer # None /\ Blocked /\ answer' = None
  /\ mishap' = mishap \cup {"answer"}
  /\ UNCHANGED <<world, left, begun, device, lookups, clock, locals>>

\* A packet from the server, or none, or a failure of the socket.
Reply ==
  /\ mail = "asked"
  /\ \/ mail' = "time" /\ UNCHANGED left
     \/ mail' \in {"none", "error"} /\ Spend
  /\ UNCHANGED <<world, begun, client, requested, age, stored, lookups, answer,
                 clock, locals, mishap>>

Network ==
  /\ online' = ~online
  /\ IF online THEN Spend ELSE UNCHANGED left
  /\ UNCHANGED <<config, upload, begun, device, lookups, answer, clock, locals,
                 mishap>>

Tick ==
  /\ requested' = Cap(requested + 1, Retry) /\ age' = Cap(age + 1, Interval)
  /\ UNCHANGED <<world, left, begun, client, stored, mail, lookups, answer, clock,
                 locals, mishap>>

------------------------------------------------------------------------------
Step(t) ==
  \/ NtpBegin(t) \/ Begin(t) \/ BeginGivesUp(t) \/ Started(t)
  \/ SkipUpdate(t) \/ TakeAnswer(t) \/ StampAnswer(t) \/ Wait(t)
  \/ StartResolve(t) \/ SendRequest(t) \/ EndRequest(t)
  \/ Return(t) \/ IsSynced(t) \/ ReadStamp(t) \/ ReadEpoch(t)

Upload == BeginUpload \/ Stop \/ StopGivesUp \/ Stopped \/ Restart
Resolve == HandleDnsResult \/ DnsResultGivesUp

Next ==
  \/ \E t \in Tasks : Step(t)
  \/ SaveConfig \/ Upload
  \/ \E s \in Servers : DnsAnswers(s)
  \/ Resolve \/ Reply \/ Network \/ Tick

\* The tasks go on, and a task that waits for the mutex gets it when it is given
\* back; the loop asks for the time again and again; the DNS calls back for
\* every lookup, if only to say that it timed out.
Fairness ==
  /\ \A t \in Tasks : /\ WF_vars(pc[t] # "idle" /\ Step(t))
                       /\ SF_vars(Begin(t) \/ BeginGivesUp(t))
  /\ WF_vars(NtpBegin("loop")) /\ SF_vars(IsSynced("loop"))
  /\ WF_vars(Stop \/ StopGivesUp \/ Stopped \/ Restart)
  /\ \A s \in Servers : WF_vars(DnsAnswers(s))
  /\ WF_vars(Resolve) /\ WF_vars(Reply) /\ WF_vars(Tick)

Spec == Init /\ [][Next]_vars /\ Fairness

------------------------------------------------------------------------------
(* Properties *)

TypeOK ==
  /\ config \in Servers /\ upload \in BOOLEAN /\ online \in BOOLEAN
  /\ left \in 0..MaxEvents
  /\ begun \in [started : BOOLEAN, server : Servers \cup {None}]
  /\ client \in [server : Servers \cup {None}, enabled : BOOLEAN,
                 resolving : BOOLEAN, resolved : BOOLEAN,
                 address : Servers \cup {None}, synced : BOOLEAN,
                 socket : Servers \cup {None}]
  /\ requested \in 0..Retry /\ age \in 0..Interval
  /\ stored \in [epoch : 0..2, stamp : 0..2]
  /\ mail \in {"none", "asked", "time", "error"}
  /\ lookups \in [Servers -> 0..MaxLookups]
  /\ answer \in [server : Servers, found : BOOLEAN] \cup {None}
  /\ clock \in {"unset", "right", "wrong"}
  /\ pc \in [Tasks -> {"idle", "begin", "started", "poll", "return", "readstamp",
                       "readepoch", "stop", "stopped"} \cup Inside]
  /\ got \in [Tasks -> 0..2]
  /\ mishap \subseteq {"begin", "answer", "stale"}
  /\ torn \in [Tasks -> BOOLEAN]

\* The address the requests go to is the one of the server the client was begun
\* with: begin(), lookups answered at once or later and the reset of the socket
\* leave no way for another's, except that of a lookup that was already open
\* when the client was begun with another server.
AddressOfServer ==
  \/ "stale" \in mishap
  \/ /\ client.resolved => client.address = client.server
     /\ client.socket # None => client.socket = client.address

\* While the client waits for a lookup, and so starts no other, one is open or
\* its callback waits for the mutex: the answer that comes between the lookup
\* and resolving = true is not lost, unless it has to wait for more than a
\* second.
ResolvingIsAnswered ==
  client.resolving \/ (\E t \in Tasks : pc[t] = "lookedup")
    => (\E s \in Servers : Outstanding(s)) \/ "answer" \in mishap

\* The time is set from the time and the moment of one and the same answer,
\* unless another task stores an answer, or begins or stops the client, after
\* the time was found to be there or its first half was read.
ClockRight ==
  [][\A t \in Tasks : pc[t] = "readepoch" /\ pc'[t] = "idle" /\ clock' = "wrong"
                        => torn[t]]_vars

\* While the board is online for good, it is again and again synchronized with
\* the server that is configured, and its clock right, whatever went before:
\* failed lookups, lost answers, other servers.  Except when begin() or the
\* callback of a lookup has given up, or a lookup of another server was open.
Synchronized == /\ client.synced /\ age < Interval /\ clock = "right"
                /\ client.server = config /\ client.address = config
SyncsAgain == <>[](online /\ ~upload) => []<>(Synchronized \/ mishap # {})
=============================================================================
