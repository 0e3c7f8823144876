------------------------------ MODULE RunPool -------------------------------
(***************************************************************************)
(* One call of run_pool around its mining loop: the scan of the endpoints,  *)
(* the reader thread each connection gets, the monitoring threads (the      *)
(* writer of the lane's stats file and the HTTP server), and the shutdown.  *)
(* The loop and its submitter are PoolLane; here the one runs until stop is *)
(* set, and the other sends shares nobody counts.                           *)
(*                                                                         *)
(* An endpoint may refuse, close the connection at any moment, fall silent  *)
(* in the middle of a TLS handshake or record, or stop taking what is sent: *)
(* no call in the code limits any of these in time.  What is written to a   *)
(* connection the endpoint has closed may be lost, fail, or end the process *)
(* (SIGPIPE).  The 25 s wait for a first job may end at any moment: time is *)
(* not modelled.  Signals from outside, which end the process anywhere, are *)
(* Supervisor's.                                                            *)
(***************************************************************************)
EXTENDS Naturals, FiniteSets

CONSTANTS
  N,            \* how many endpoints the command line names
  Tls,          \* those reached through TLS
  MaxNotifies,  \* bound: job notifications an endpoint sends per connection
  MaxVisits,    \* bound: clients of the monitoring server
  Serves        \* whether this process runs the monitoring server itself

ASSUME EndpointsAssumption == N \in Nat \ {0} /\ Tls \subseteq 1..N
ASSUME BoundsAssumption    == MaxNotifies \in Nat /\ MaxVisits \in Nat
ASSUME ServesAssumption    == Serves \in BOOLEAN

Endpoints == 1..N

VARIABLES
  main,    \* the thread in run_pool: pc, ep (ei + 1), rc
  st,      \* PoolState: stop, have (have_job), job (the endpoint that sent it)
  reader,  \* pool_reader's thread for each endpoint
  lane,    \* the threads beside the mining loop: sub (submit_th), stats (stats_th)
  wire,    \* the endpoint's side of the connection: peer, unread (notifications
           \*   sent), budget (those still to send), takes (a send finds room)
  open,    \* descriptors and TLS objects held: <<kind, endpoint>>
  api,     \* monitoring: stop, writer, server, tmp, file, served
  client   \* the server's client: at, visits left

vars == <<main, st, reader, lane, wire, open, api, client>>

Scanning == {"device", "connect", "context", "handshake", "start", "wait", "judge", "join"}
Mining   == {"monitor", "mine", "drain", "guard", "joinwriter", "joinserver"}
Ended    == {"returned", "killed"}
Contents == {"absent", "part", "whole"}

TypeOK ==
  /\ main \in [pc : Scanning \cup Mining \cup Ended, ep : 1..(N + 1), rc : {0, 2, 3}]
  /\ st \in [stop : BOOLEAN, have : BOOLEAN, job : 0..N]
  /\ reader \in [Endpoints -> {"none", "test", "select", "recv", "line", "done"}]
  /\ lane \in [sub : {"none", "idle", "send", "await", "done"}, stats : {"none", "run", "done"}]
  /\ wire \in [peer : {"up", "silent", "closed"}, unread : 0..MaxNotifies,
               budget : 0..MaxNotifies, takes : BOOLEAN]
  /\ open \subseteq {"fd", "ctx", "ssl"} \X Endpoints
  /\ api \in [stop : BOOLEAN, writer : {"none", "open", "write", "rename", "pause", "done"},
              server : {"none", "bind", "select", "recv", "read", "reply", "done"},
              tmp : Contents, file : Contents, served : Contents]
  /\ client \in [at : {"none", "connected", "asked", "gone"}, visits : 0..MaxVisits]

NewWire == [peer |-> "up", unread |-> 0, budget |-> MaxNotifies, takes |-> TRUE]

Init ==
  /\ main = [pc |-> "device", ep |-> 1, rc |-> 0]
  /\ st = [stop |-> FALSE, have |-> FALSE, job |-> 0]
  /\ reader = [e \in Endpoints |-> "none"]
  /\ lane = [sub |-> "none", stats |-> "none"]
  /\ wire = NewWire
  /\ open = {}
  /\ api = [stop |-> FALSE, writer |-> "none", server |-> "none",
            tmp |-> "absent", file |-> "absent", served |-> "whole"]
  /\ client = [at |-> "none", visits |-> MaxVisits]

(* What a connection to endpoint e holds, and what the current one holds. *)
Needs(e) == {<<"fd", e>>} \cup IF e \in Tls THEN {<<"ctx", e>>, <<"ssl", e>>} ELSE {}
Held     == Needs(main.ep)

At(pc)   == main.pc = pc
Go(pc)   == main' = [main EXCEPT !.pc = pc]
Alive    == main.pc \notin Ended

-----------------------------------------------------------------------------
(* The CUDA device of the lane. *)
DeviceFails ==
  /\ At("device")
  /\ main' = [main EXCEPT !.pc = "returned", !.rc = 2]
  /\ UNCHANGED <<st, reader, lane, wire, open, api, client>>

SelectDevice == At("device") /\ Go("connect") /\ UNCHANGED <<st, reader, lane, wire, open, api, client>>

(* The scan.  After a failure the next endpoint is tried; after the last    *)
(* one the call returns 3.                                                  *)
MoreEndpointsOffByOne == main.ep \in 1..(N + 1)
MoreEndpoints == main.ep \in Endpoints
NextEndpoint  == main' = [main EXCEPT !.pc = "connect", !.ep = @ + 1]

AllFailed ==
  /\ At("connect") /\ ~MoreEndpoints
  /\ main' = [main EXCEPT !.pc = "returned", !.rc = 3]
  /\ UNCHANGED <<st, reader, lane, wire, open, api, client>>

ConnectFails ==
  /\ At("connect") /\ MoreEndpoints /\ NextEndpoint
  /\ UNCHANGED <<st, reader, lane, wire, open, api, client>>

Connect ==
  /\ At("connect") /\ MoreEndpoints
  /\ open' = open \cup {<<"fd", main.ep>>}
  /\ wire' = NewWire
  /\ Go(IF main.ep \in Tls THEN "context" ELSE "start")
  /\ UNCHANGED <<st, reader, lane, api, client>>

ContextFails ==
  /\ At("context") /\ NextEndpoint
  /\ open' = open \ {<<"fd", main.ep>>}
  /\ UNCHANGED <<st, reader, lane, wire, api, client>>

NewContext ==
  /\ At("context") /\ Go("handshake")
  /\ open' = open \cup Held
  /\ UNCHANGED <<st, reader, lane, wire, api, client>>

AfterHandshakeLeak == open \ {<<"fd", main.ep>>}
AfterHandshake     == open \ Held

(* SSL_connect returns only once the endpoint answers or hangs up. *)
HandshakeFails ==
  /\ At("handshake") /\ wire.peer # "silent"
  /\ NextEndpoint
  /\ open' = AfterHandshake
  /\ UNCHANGED <<st, reader, lane, wire, api, client>>

Handshake ==
  /\ At("handshake") /\ wire.peer = "up"
  /\ Go("start")
  /\ UNCHANGED <<st, reader, lane, wire, open, api, client>>

ClearedStopOnly == [st EXCEPT !.stop = FALSE]
Cleared         == [st EXCEPT !.stop = FALSE, !.have = FALSE]

(* The reader starts and the login is sent; whether it was sent is not      *)
(* looked at.  BrokenSend is the other outcome.                             *)
StartReader ==
  /\ At("start") /\ Go("wait")
  /\ st' = Cleared
  /\ reader' = [reader EXCEPT ![main.ep] = "test"]
  /\ UNCHANGED <<lane, wire, open, api, client>>

(* A job, a stop or 25 s end the wait. *)
WaitEnds == At("wait") /\ Go("judge") /\ UNCHANGED <<st, reader, lane, wire, open, api, client>>

Accept ==
  /\ At("judge") /\ st.have /\ Go("monitor")
  /\ UNCHANGED <<st, reader, lane, wire, open, api, client>>

RejectedRunning == st
Rejected        == [st EXCEPT !.stop = TRUE]

Reject ==
  /\ At("judge") /\ ~st.have /\ Go("join")
  /\ st' = Rejected
  /\ UNCHANGED <<reader, lane, wire, open, api, client>>

ReaderJoinedNever == TRUE
ReaderJoined      == reader[main.ep] = "done"

(* SSL_shutdown may end the process instead: BrokenTls.                     *)
JoinAndClose ==
  /\ At("join") /\ ReaderJoined
  /\ NextEndpoint
  /\ open' = open \ Held
  /\ UNCHANGED <<st, reader, lane, wire, api, client>>

-----------------------------------------------------------------------------
(* The monitoring threads, the lane, and the shutdown. *)
StartMonitoring ==
  /\ At("monitor") /\ Go("mine")
  /\ api' = [api EXCEPT !.writer = "open", !.server = IF Serves THEN "bind" ELSE "none"]
  /\ lane' = [sub |-> "idle", stats |-> "run"]
  /\ UNCHANGED <<st, reader, wire, open, client>>

LeaveLoop == At("mine") /\ st.stop /\ Go("drain") /\ UNCHANGED <<st, reader, lane, wire, open, api, client>>

(* submit_stop is set on the way out of the loop, and stats_th, submit_th   *)
(* and the reader are joined.  SSL_shutdown sends a last record, which      *)
(* needs room as any other, and may end the process: BrokenTls.             *)
Joined == lane.stats = "done" /\ lane.sub = "done" /\ ReaderJoined

CloseLane ==
  /\ At("drain") /\ Joined /\ (main.ep \in Tls => wire.takes)
  /\ Go("guard")
  /\ open' = open \ Held
  /\ UNCHANGED <<st, reader, lane, wire, api, client>>

StopMonitoring ==
  /\ At("guard") /\ Go("joinwriter")
  /\ api' = [api EXCEPT !.stop = TRUE]
  /\ UNCHANGED <<st, reader, lane, wire, open, client>>

JoinWriter ==
  /\ At("joinwriter") /\ api.writer = "done" /\ Go("joinserver")
  /\ UNCHANGED <<st, reader, lane, wire, open, api, client>>

JoinServer ==
  /\ At("joinserver") /\ api.server \in {"none", "done"} /\ Go("returned")
  /\ UNCHANGED <<st, reader, lane, wire, open, api, client>>

Main ==
  \/ DeviceFails \/ SelectDevice \/ AllFailed \/ ConnectFails \/ Connect \/ ContextFails \/ NewContext \/ HandshakeFails \/ Handshake
  \/ StartReader \/ WaitEnds \/ Accept \/ Reject \/ JoinAndClose
  \/ StartMonitoring \/ LeaveLoop \/ CloseLane \/ StopMonitoring \/ JoinWriter \/ JoinServer

-----------------------------------------------------------------------------
(* submit_th and stats_th. *)
SubGoes(pc) == lane' = [lane EXCEPT !.sub = pc]

TakeShare ==
  /\ lane.sub = "idle" /\ At("mine") /\ SubGoes("send")
  /\ UNCHANGED <<main, st, reader, wire, open, api, client>>

SendEnds ==
  /\ lane.sub = "send" /\ wire.takes /\ SubGoes("await")
  /\ UNCHANGED <<main, st, reader, wire, open, api, client>>

(* A send that fails stops the lane. *)
SendFails ==
  /\ lane.sub = "send" /\ SubGoes("idle")
  /\ st' = [st EXCEPT !.stop = TRUE]
  /\ UNCHANGED <<main, reader, wire, open, api, client>>

(* A verdict, a stop or 30 s end the wait. *)
AwaitEnds ==
  /\ lane.sub = "await" /\ SubGoes("idle")
  /\ UNCHANGED <<main, st, reader, wire, open, api, client>>

(* submit_stop is looked at between two shares. *)
SubmitterStops ==
  /\ lane.sub = "idle" /\ At("drain") /\ SubGoes("done")
  /\ UNCHANGED <<main, st, reader, wire, open, api, client>>

StatsStop ==
  /\ lane.stats = "run" /\ st.stop
  /\ lane' = [lane EXCEPT !.stats = "done"]
  /\ UNCHANGED <<main, st, reader, wire, open, api, client>>

(* What goes on by itself; whether there is a share, or a failure, is up to *)
(* the prover and the network.                                              *)
Submitter == SendEnds \/ AwaitEnds \/ SubmitterStops

-----------------------------------------------------------------------------
(* pool_reader on the connection to e. *)
ReaderGoes(e, pc) == reader' = [reader EXCEPT ![e] = pc]

TestStop(e) ==
  /\ reader[e] = "test" /\ ReaderGoes(e, IF st.stop THEN "done" ELSE "select")
  /\ UNCHANGED <<main, st, lane, wire, open, api, client>>

(* select sees lines, the end of the stream, or the first bytes of a record *)
(* whose rest does not come; otherwise it times out.                        *)
Readable(e) == wire.unread > 0 \/ wire.peer = "closed" \/ (e \in Tls /\ wire.peer = "silent")

Select(e) ==
  /\ reader[e] = "select" /\ ReaderGoes(e, IF Readable(e) THEN "recv" ELSE "test")
  /\ UNCHANGED <<main, st, lane, wire, open, api, client>>

Receive(e) ==
  /\ reader[e] = "recv" /\ wire.unread > 0
  /\ wire' = [wire EXCEPT !.unread = @ - 1]
  /\ ReaderGoes(e, "line")
  /\ UNCHANGED <<main, st, lane, open, api, client>>

ReceiveEnd(e) ==
  /\ reader[e] = "recv" /\ wire.unread = 0 /\ wire.peer = "closed"
  /\ st' = [st EXCEPT !.stop = TRUE]
  /\ ReaderGoes(e, "done")
  /\ UNCHANGED <<main, lane, wire, open, api, client>>

(* SSL_read was entered for a record whose rest has come after all, and     *)
(* held no whole line.                                                      *)
ReceivePart(e) ==
  /\ reader[e] = "recv" /\ wire.unread = 0 /\ wire.peer = "up"
  /\ ReaderGoes(e, "test")
  /\ UNCHANGED <<main, st, lane, wire, open, api, client>>

HandleNotify(e) ==
  /\ reader[e] = "line"
  /\ st' = [st EXCEPT !.have = TRUE, !.job = e]
  /\ ReaderGoes(e, "test")
  /\ UNCHANGED <<main, lane, wire, open, api, client>>

Reader(e) ==
  TestStop(e) \/ Select(e) \/ Receive(e) \/ ReceiveEnd(e) \/ ReceivePart(e) \/ HandleNotify(e)

(* The endpoint of the connection that is open. *)
Connected == <<"fd", main.ep>> \in open

Notify ==
  /\ Connected /\ reader[main.ep] # "none" /\ wire.peer = "up" /\ wire.budget > 0
  /\ wire' = [wire EXCEPT !.unread = @ + 1, !.budget = @ - 1]

(* Only what is being sent fills the buffers.  Room comes back when the     *)
(* endpoint reads on, or resets the connection.                             *)
StopTaking == lane.sub = "send" /\ wire.takes /\ wire' = [wire EXCEPT !.takes = FALSE]
TakeAgain  == ~wire.takes /\ wire' = [wire EXCEPT !.takes = TRUE]

HangUp     == Connected /\ wire.peer # "closed" /\ wire' = [wire EXCEPT !.peer = "closed"]
FallSilent == Connected /\ wire.peer = "up" /\ wire' = [wire EXCEPT !.peer = "silent"]
Resume     == Connected /\ wire.peer = "silent" /\ wire' = [wire EXCEPT !.peer = "up"]

Pool ==
  /\ Notify \/ StopTaking \/ TakeAgain \/ HangUp \/ FallSilent \/ Resume
  /\ UNCHANGED <<main, st, reader, lane, open, api, client>>

-----------------------------------------------------------------------------
(* The writer: the stats go to a temporary file that is then renamed. *)
TmpOpenedInPlace == [api EXCEPT !.writer = "write", !.tmp = "part", !.file = "part"]
TmpOpened        == [api EXCEPT !.writer = "write", !.tmp = "part"]

OpenTmp   == api.writer = "open" /\ api' = TmpOpened
OpenFails == api.writer = "open" /\ api' = [api EXCEPT !.writer = "pause"]

WriteTmp ==
  /\ api.writer = "write"
  /\ api' = [api EXCEPT !.writer = "rename", !.tmp = "whole"]

Rename ==
  /\ api.writer = "rename"
  /\ api' = [api EXCEPT !.writer = "pause", !.file = api.tmp, !.tmp = "absent"]

Pause ==
  /\ api.writer = "pause"
  /\ api' = [api EXCEPT !.writer = IF api.stop THEN "done" ELSE "open"]

Writer == (OpenTmp \/ OpenFails \/ WriteTmp \/ Rename \/ Pause) /\ UNCHANGED <<main, st, reader, lane, wire, open, client>>

(* The server: one client at a time.  recv waits for the request for as     *)
(* long as the client is connected and says nothing.                        *)
Bind ==
  /\ api.server = "bind"
  /\ \E pc \in {"select", "done"} : api' = [api EXCEPT !.server = pc]
  /\ UNCHANGED client

ServerStops ==
  /\ api.server = "select" /\ api.stop
  /\ api' = [api EXCEPT !.server = "done"]
  /\ UNCHANGED client

AcceptClient ==
  /\ api.server = "select" /\ client.at # "none" /\ ~api.stop
  /\ api' = [api EXCEPT !.server = "recv"]
  /\ UNCHANGED client

RecvRequest ==
  /\ api.server = "recv" /\ client.at # "connected"
  /\ api' = [api EXCEPT !.server = "read"]
  /\ UNCHANGED client

Aggregate ==
  /\ api.server = "read"
  /\ api' = [api EXCEPT !.server = "reply", !.served = api.file]
  /\ UNCHANGED client

Reply ==
  /\ api.server = "reply"
  /\ api' = [api EXCEPT !.server = "select"]
  /\ client' = [client EXCEPT !.at = "none"]

Server ==
  /\ Bind \/ ServerStops \/ AcceptClient \/ RecvRequest \/ Aggregate \/ Reply
  /\ UNCHANGED <<main, st, reader, lane, wire, open>>

(* Writing to a client that has gone, or to an endpoint that has closed the *)
(* connection - the login, a share, or what OpenSSL sends in a handshake, a *)
(* read and a shutdown - may raise SIGPIPE, which ends the process.         *)
BrokenReply == api.server = "reply" /\ client.at = "gone"
BrokenSend  == wire.peer = "closed" /\ (At("start") \/ lane.sub = "send")
BrokenTls ==
  /\ wire.peer = "closed" /\ main.ep \in Tls
  /\ \/ At("handshake")
     \/ At("join") /\ ReaderJoined
     \/ At("drain") /\ Joined
     \/ \E e \in Endpoints : reader[e] = "recv"

BrokenPipe ==
  /\ BrokenReply \/ BrokenSend \/ BrokenTls
  /\ Go("killed")
  /\ UNCHANGED <<st, reader, lane, wire, open, api, client>>

ClientConnects ==
  /\ api.server \notin {"none", "bind", "done"} /\ client.at = "none" /\ client.visits > 0
  /\ client' = [at |-> "connected", visits |-> client.visits - 1]

ClientAsks   == client.at = "connected" /\ client' = [client EXCEPT !.at = "asked"]
ClientLeaves == client.at \in {"connected", "asked"} /\ client' = [client EXCEPT !.at = "gone"]

Client ==
  (ClientConnects \/ ClientAsks \/ ClientLeaves) /\ UNCHANGED <<main, st, reader, lane, wire, open, api>>

(* The call is over; so is the process. *)
Over == ~Alive /\ UNCHANGED vars

Next ==
  \/ Alive /\ (Main \/ TakeShare \/ SendFails \/ Submitter \/ StatsStop
               \/ (\E e \in Endpoints : Reader(e)) \/ Pool \/ Writer \/ Server \/ BrokenPipe \/ Client)
  \/ Over

Spec == Init /\ [][Next]_vars

(* Every thread is scheduled; nothing is assumed of pools. *)
FairSpec ==
  /\ Spec
  /\ WF_vars(Alive /\ Main) /\ WF_vars(Alive /\ Submitter) /\ WF_vars(Alive /\ StatsStop)
  /\ WF_vars(Alive /\ Writer) /\ WF_vars(Alive /\ Server)
  /\ \A e \in Endpoints : WF_vars(Alive /\ Reader(e))

(* Clients of the server ask for something or go away. *)
Prompt     == Alive /\ (ClientAsks \/ ClientLeaves) /\ UNCHANGED <<main, st, reader, lane, wire, open, api>>
PromptSpec == FairSpec /\ WF_vars(Prompt)

-----------------------------------------------------------------------------
(* No thread uses a connection that is closed: while a reader lives, its    *)
(* socket and TLS objects exist, also when its endpoint has been given up   *)
(* and the next one is being tried, and so they do while the submitter      *)
(* lives (the joins of run_pool before each close).                         *)
NoUseAfterFree ==
  /\ \A e \in Endpoints : reader[e] \notin {"none", "done"} => Needs(e) \subseteq open
  /\ main.pc \in {"monitor", "mine"} \/ lane.sub \notin {"none", "done"} => Held \subseteq open

(* Whatever fails, and in whatever order: only the endpoint being tried     *)
(* holds resources, and a call that returns leaves no descriptor, no TLS    *)
(* object and no thread behind.                                             *)
NothingLeft ==
  /\ \A r \in open : r[2] = main.ep
  /\ At("returned") =>
       /\ open = {}
       /\ \A e \in Endpoints : reader[e] \in {"none", "done"}
       /\ lane.sub \in {"none", "done"} /\ lane.stats \in {"none", "done"}
       /\ api.writer \in {"none", "done"} /\ api.server \in {"none", "done"}

(* The monitoring server never serves a stats file the lane is still        *)
(* writing.                                                                 *)
ServesWholeFiles == api.served # "part"

(* The endpoints are tried in order, the first that delivers a job is used, *)
(* and every job mined is one of that endpoint, never one left over from    *)
(* an endpoint given up before.  A broken pipe may end the process at any   *)
(* endpoint (Failover!Dies): those after it are then not tried.             *)
Abstract == INSTANCE Failover WITH
  failed  <- main.ep - 1,
  outcome <- IF main.pc \in Scanning THEN "scanning"
             ELSE IF main.pc \in Mining THEN "mining"
             ELSE IF At("killed") THEN "killed"
             ELSE IF main.rc = 0 THEN "ended" ELSE "gaveup",
  job     <- IF main.pc \in Mining THEN st.job ELSE 0

GoesInOrder == Abstract!Spec

(* A scan ends in a lane that mines or in a return, and a lane that is      *)
(* stopped returns - unless the endpoint holds it: falls silent inside the  *)
(* TLS layer, or does not take what the submitter or SSL_shutdown sends.    *)
Silent == main.ep \in Tls /\ wire.peer = "silent"
Full   == ~wire.takes /\ (lane.sub = "send" \/ (At("drain") /\ Joined /\ main.ep \in Tls))

EndsUnlessHeld ==
  (~At("mine") \/ st.stop) ~> (~Alive \/ Silent \/ Full \/ (At("mine") /\ ~st.stop))

(* The comment on api_serve: once stop is set the server thread sees it.    *)
ServerObservesStop == api.stop ~> (api.server \in {"none", "done"} \/ ~Alive)
=============================================================================
