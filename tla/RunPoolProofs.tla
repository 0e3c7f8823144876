---------------------------- MODULE RunPoolProofs ---------------------------
(***************************************************************************)
(* What RunPool promises, proved for any number of endpoints, with or       *)
(* without TLS, of notifies and of clients: no thread uses a connection     *)
(* that is closed, a call that returns leaves nothing behind, no file is    *)
(* served in part, and the endpoints are gone through as Failover says.     *)
(***************************************************************************)
EXTENDS RunPool, TLAPS

Mains   == [pc : Scanning \cup Mining \cup Ended, ep : 1..(N + 1), rc : {0, 2, 3}]
States  == [stop : BOOLEAN, have : BOOLEAN, job : 0..N]
Lanes  == [sub : {"none", "idle", "send", "await", "done"}, stats : {"none", "run", "done"}]
Wires   == [peer : {"up", "silent", "closed"}, unread : 0..MaxNotifies, budget : 0..MaxNotifies,
            takes : BOOLEAN]
Apis    == [stop : BOOLEAN, writer : {"none", "open", "write", "rename", "pause", "done"},
            server : {"none", "bind", "select", "recv", "read", "reply", "done"},
            tmp : Contents, file : Contents, served : Contents]
Clients == [at : {"none", "connected", "asked", "gone"}, visits : 0..MaxVisits]
ReaderPoints == {"none", "test", "select", "recv", "line", "done"}

(* What is still to come fits the bound on notifies. *)
Typed ==
  /\ main \in Mains /\ st \in States /\ reader \in [Endpoints -> ReaderPoints]
  /\ lane \in Lanes /\ wire \in Wires /\ api \in Apis /\ client \in Clients
  /\ wire.unread + wire.budget <= MaxNotifies

(* Between the first attempt at an endpoint and the end of the lane there   *)
(* is an endpoint; the result is not decided yet.                           *)
EndpointOK ==
  /\ At("device") => main.ep = 1
  /\ main.pc \in (Scanning \ {"connect"}) \cup Mining \cup {"killed"} => main.ep \in Endpoints
  /\ main.pc \in Scanning \cup Mining \cup {"killed"} => main.rc = 0

(* What is held is a matter of where the thread is. *)
Bare    == {"device", "connect", "guard", "joinwriter", "joinserver", "returned"}
Holding == {"handshake", "start", "wait", "judge", "join", "monitor", "mine", "drain"}
Reading == {"wait", "judge", "join", "monitor", "mine", "drain"}

HoldOK ==
  /\ main.pc \in Bare => open = {}
  /\ At("context") => open = {<<"fd", main.ep>>}
  /\ main.pc \in Holding => open = Held
  /\ At("killed") => open = {} \/ open = Held

(* A reader lives only beside its own connection. *)
Lives(e) == reader[e] \notin {"none", "done"}

ReaderOK ==
  \A e \in Endpoints : Lives(e) =>
    e = main.ep /\ main.pc \in Reading \cup {"killed"} /\ open = Held

(* The submitter and the statistics thread live while the lane mines and    *)
(* until they are joined.                                                   *)
LaneOK ==
  /\ main.pc \in Scanning \cup {"monitor"} => lane.sub = "none" /\ lane.stats = "none"
  /\ main.pc \in {"guard", "joinwriter", "joinserver"} => lane.sub = "done" /\ lane.stats = "done"
  /\ At("returned") => lane.sub \in {"none", "done"} /\ lane.stats \in {"none", "done"}
  /\ lane.sub \notin {"none", "done"} => open = Held

MonitorOK ==
  /\ main.pc \in Scanning \cup {"monitor"} => api.writer = "none" /\ api.server = "none"
  /\ At("joinserver") => api.writer = "done"
  /\ At("returned") => api.writer \in {"none", "done"} /\ api.server \in {"none", "done"}

FileOK == api.file # "part" /\ api.served # "part" /\ (api.writer = "rename" => api.tmp = "whole")

(* The job is that of the endpoint connected to, from its first notify on.  *)
JobOK ==
  /\ main.pc \in {"wait", "judge"} /\ st.have => st.job = main.ep
  /\ main.pc \in Mining => st.job = main.ep

IInv == Typed /\ EndpointOK /\ HoldOK /\ ReaderOK /\ LaneOK /\ MonitorOK /\ FileOK /\ JobOK

-----------------------------------------------------------------------------
(* The thread in run_pool: where each step leads. *)

LEMMA GoKeeps ==
  ASSUME main \in Mains, NEW pc \in Scanning \cup Mining \cup Ended, Go(pc)
  PROVE  main' \in Mains /\ main'.pc = pc /\ main'.ep = main.ep /\ main'.rc = main.rc
BY DEF Mains, Go

LEMMA NextKeeps ==
  ASSUME main \in Mains, main.ep \in Endpoints, NextEndpoint
  PROVE  main' \in Mains /\ main'.pc = "connect" /\ main'.ep = main.ep + 1 /\ main'.rc = main.rc
<1> DEFINE here == main.ep + 1
<1>1. here \in 1..(N + 1) /\ "connect" \in Scanning \cup Mining \cup Ended
  BY EndpointsAssumption DEF Endpoints, Scanning
<1>2. main' = [main EXCEPT !.pc = "connect", !.ep = here]
  BY DEF NextEndpoint
<1> HIDE DEF here
<1>3. main' \in Mains /\ main'.pc = "connect" /\ main'.ep = here /\ main'.rc = main.rc
  BY <1>1, <1>2 DEF Mains
<1> QED
  BY <1>3 DEF here

LEMMA ReturnKeeps ==
  ASSUME main \in Mains, DeviceFails \/ AllFailed
  PROVE  /\ main' \in Mains /\ main'.pc = "returned" /\ main'.ep = main.ep
         /\ main'.rc = IF At("device") THEN 2 ELSE 3
<1>1. CASE DeviceFails
  <2>1. main' = [main EXCEPT !.pc = "returned", !.rc = 2] /\ At("device")
    BY <1>1 DEF DeviceFails
  <2> QED
    BY <2>1 DEF Mains, Ended
<1>2. CASE AllFailed
  <2>1. main' = [main EXCEPT !.pc = "returned", !.rc = 3] /\ main.pc = "connect"
    BY <1>2 DEF AllFailed, At
  <2> QED
    BY <2>1 DEF Mains, Ended, At
<1> QED
  BY <1>1, <1>2

Fails == ConnectFails \/ ContextFails \/ HandshakeFails \/ JoinAndClose

LEMMA FailsKeep ==
  ASSUME IInv, Fails
  PROVE  /\ main' \in Mains /\ main'.pc = "connect" /\ main'.ep = main.ep + 1 /\ main'.rc = main.rc
         /\ main.ep \in Endpoints
<1>1. main \in Mains
  BY DEF IInv, Typed
<1>2. main.ep \in Endpoints
  BY DEF IInv, EndpointOK, Fails, ConnectFails, MoreEndpoints, ContextFails, HandshakeFails,
         JoinAndClose, At, Scanning
<1>3. NextEndpoint
  BY DEF Fails, ConnectFails, ContextFails, HandshakeFails, JoinAndClose
<1> QED
  BY <1>1, <1>2, <1>3, NextKeeps

(* From where to where the other steps go. *)
Path(from, to) == main.pc = from /\ main'.pc = to

Goes ==
  \/ SelectDevice \/ Connect \/ NewContext \/ Handshake \/ StartReader \/ WaitEnds \/ Accept
  \/ Reject \/ StartMonitoring \/ LeaveLoop \/ CloseLane \/ StopMonitoring \/ JoinWriter
  \/ JoinServer \/ BrokenPipe

LEMMA GoesKeep ==
  ASSUME IInv, Goes
  PROVE  /\ main' \in Mains /\ main'.ep = main.ep /\ main'.rc = main.rc
         /\ \/ SelectDevice /\ Path("device", "connect")
            \/ Connect /\ Path("connect", "context") /\ main.ep \in Tls
            \/ Connect /\ Path("connect", "start") /\ main.ep \notin Tls
            \/ NewContext /\ Path("context", "handshake")
            \/ Handshake /\ Path("handshake", "start")
            \/ StartReader /\ Path("start", "wait")
            \/ WaitEnds /\ Path("wait", "judge")
            \/ Accept /\ Path("judge", "monitor")
            \/ Reject /\ Path("judge", "join")
            \/ StartMonitoring /\ Path("monitor", "mine")
            \/ LeaveLoop /\ Path("mine", "drain")
            \/ CloseLane /\ Path("drain", "guard")
            \/ StopMonitoring /\ Path("guard", "joinwriter")
            \/ JoinWriter /\ Path("joinwriter", "joinserver")
            \/ JoinServer /\ Path("joinserver", "returned")
            \/ BrokenPipe /\ main'.pc = "killed"
<1> USE GoKeeps DEF Path, At, Scanning, Mining, Ended
<1>1. main \in Mains
  BY DEF IInv, Typed
<1>2. CASE SelectDevice \/ WaitEnds \/ Accept \/ Reject
  BY <1>1, <1>2 DEF SelectDevice, WaitEnds, Accept, Reject
<1>3. CASE Connect
  <2>1. CASE main.ep \in Tls
    BY <1>1, <1>3, <2>1 DEF Connect
  <2>2. CASE main.ep \notin Tls
    BY <1>1, <1>3, <2>2 DEF Connect
  <2> QED
    BY <2>1, <2>2
<1>4. CASE NewContext \/ Handshake \/ StartReader
  BY <1>1, <1>4 DEF NewContext, Handshake, StartReader
<1>5. CASE StartMonitoring \/ LeaveLoop \/ CloseLane \/ StopMonitoring
  BY <1>1, <1>5 DEF StartMonitoring, LeaveLoop, CloseLane, StopMonitoring
<1>6. CASE JoinWriter \/ JoinServer \/ BrokenPipe
  BY <1>1, <1>6 DEF JoinWriter, JoinServer, BrokenPipe
<1> QED
  BY <1>2, <1>3, <1>4, <1>5, <1>6 DEF Goes

(* The steps of the other threads. *)
LaneThreads == TakeShare \/ SendFails \/ Submitter \/ StatsStop

LEMMA LaneThreadsKeep ==
  ASSUME LaneThreads
  PROVE  /\ UNCHANGED <<main, reader, wire, open, api, client>>
         /\ UNCHANGED st \/ st' = [st EXCEPT !.stop = TRUE]
BY DEF LaneThreads, TakeShare, SendFails, Submitter, SendEnds, AwaitEnds, SubmitterStops, StatsStop

Beside ==
  \/ LaneThreads \/ (\E e \in Endpoints : Reader(e)) \/ Pool \/ Writer \/ Server \/ Client
  \/ UNCHANGED vars

Step == DeviceFails \/ AllFailed \/ Fails \/ Goes \/ Beside

LEMMA Steps ==
  ASSUME [Next]_vars
  PROVE  UNCHANGED vars \/ (Alive /\ Step)
BY DEF Next, Over, Main, Fails, Goes, Beside, LaneThreads, Step

LEMMA BesideKeeps ==
  ASSUME Beside
  PROVE  main' = main /\ open' = open
BY LaneThreadsKeep DEF Beside, Reader, TestStop, Select, Receive, ReceiveEnd, ReceivePart, HandleNotify,
       Pool, Writer, Server, Client, vars

-----------------------------------------------------------------------------
(* The invariant is inductive, a conjunct at a time. *)

LEMMA ReaderTyped ==
  ASSUME IInv, Step
  PROVE  reader' \in [Endpoints -> ReaderPoints]
<1>1. reader \in [Endpoints -> ReaderPoints]
  BY DEF IInv, Typed
<1>2. CASE DeviceFails \/ AllFailed \/ Fails
  BY <1>1, <1>2 DEF DeviceFails, AllFailed, Fails, ConnectFails, ContextFails, HandshakeFails, JoinAndClose
<1>3. CASE Goes
  BY <1>1, <1>3 DEF Goes, SelectDevice, Connect, NewContext, Handshake, StartReader, WaitEnds, Accept,
     Reject, StartMonitoring, LeaveLoop, CloseLane, StopMonitoring, JoinWriter, JoinServer, BrokenPipe,
     ReaderPoints
<1>4. CASE LaneThreads \/ Pool \/ Writer \/ Server \/ Client \/ UNCHANGED vars
  BY <1>1, <1>4, LaneThreadsKeep DEF Pool, Writer, Server, Client, vars
<1>5. ASSUME NEW e \in Endpoints, Reader(e)
      PROVE  reader' \in [Endpoints -> ReaderPoints]
  BY <1>1, <1>5 DEF Reader, TestStop, Select, Receive, ReceiveEnd, ReceivePart, HandleNotify, ReaderGoes,
     ReaderPoints
<1> QED
  BY <1>2, <1>3, <1>4, <1>5 DEF Step, Beside

LEMMA StateTyped ==
  ASSUME IInv, Step
  PROVE  st' \in States
<1>1. st \in States
  BY DEF IInv, Typed
<1>2. CASE DeviceFails \/ AllFailed \/ Fails
  BY <1>1, <1>2 DEF DeviceFails, AllFailed, Fails, ConnectFails, ContextFails, HandshakeFails, JoinAndClose
<1>3. CASE Goes
  BY <1>1, <1>3 DEF Goes, SelectDevice, Connect, NewContext, Handshake, StartReader, WaitEnds, Accept,
     Reject, StartMonitoring, LeaveLoop, CloseLane, StopMonitoring, JoinWriter, JoinServer, BrokenPipe,
     Cleared, Rejected, States
<1>4. CASE LaneThreads
  BY <1>1, <1>4, LaneThreadsKeep DEF States
<1>5. ASSUME NEW e \in Endpoints, Reader(e)
      PROVE  st' \in States
  <2>1. e \in 0..N
    BY EndpointsAssumption DEF Endpoints
  <2> QED
    BY <1>1, <1>5, <2>1 DEF Reader, TestStop, Select, Receive, ReceiveEnd, ReceivePart, HandleNotify, States
<1>6. CASE Pool \/ Writer \/ Server \/ Client \/ UNCHANGED vars
  BY <1>1, <1>6 DEF Pool, Writer, Server, Client, vars
<1> QED
  BY <1>2, <1>3, <1>4, <1>5, <1>6 DEF Step, Beside

LEMMA WireTyped ==
  ASSUME IInv, Step
  PROVE  wire' \in Wires /\ wire'.unread + wire'.budget <= MaxNotifies
<1>1. wire \in Wires /\ wire.unread + wire.budget <= MaxNotifies
  BY DEF IInv, Typed
<1>2. CASE DeviceFails \/ AllFailed \/ Fails
  BY <1>1, <1>2 DEF DeviceFails, AllFailed, Fails, ConnectFails, ContextFails, HandshakeFails, JoinAndClose
<1>3. CASE Goes
  <2>1. CASE Connect
    BY <2>1, BoundsAssumption DEF Connect, NewWire, Wires
  <2>2. CASE ~Connect
    BY <1>1, <1>3, <2>2 DEF Goes, SelectDevice, NewContext, Handshake, StartReader, WaitEnds, Accept,
       Reject, StartMonitoring, LeaveLoop, CloseLane, StopMonitoring, JoinWriter, JoinServer, BrokenPipe
  <2> QED
    BY <2>1, <2>2
<1>4. CASE LaneThreads \/ Writer \/ Server \/ Client \/ UNCHANGED vars
  BY <1>1, <1>4, LaneThreadsKeep DEF Writer, Server, Client, vars
<1>5. ASSUME NEW e \in Endpoints, Reader(e)
      PROVE  wire' \in Wires /\ wire'.unread + wire'.budget <= MaxNotifies
  <2>1. CASE Receive(e)
    <3> DEFINE left == wire.unread - 1
    <3>1. left \in 0..MaxNotifies /\ left + wire.budget <= MaxNotifies
      BY <1>1, <2>1, BoundsAssumption DEF Receive, Wires
    <3>2. wire' = [wire EXCEPT !.unread = left]
      BY <2>1 DEF Receive
    <3> HIDE DEF left
    <3> QED
      BY <1>1, <3>1, <3>2 DEF Wires
  <2>2. CASE ~Receive(e)
    BY <1>1, <1>5, <2>2 DEF Reader, TestStop, Select, ReceiveEnd, ReceivePart, HandleNotify
  <2> QED
    BY <2>1, <2>2
<1>6. CASE Pool
  <2>1. CASE Notify
    <3> DEFINE more == wire.unread + 1
               less == wire.budget - 1
    <3>1. more \in 0..MaxNotifies /\ less \in 0..MaxNotifies /\ more + less <= MaxNotifies
      BY <1>1, <2>1, BoundsAssumption DEF Notify, Wires
    <3>2. wire' = [wire EXCEPT !.unread = more, !.budget = less]
      BY <2>1 DEF Notify
    <3> HIDE DEF more, less
    <3> QED
      BY <1>1, <3>1, <3>2 DEF Wires
  <2>2. CASE ~Notify
    BY <1>1, <1>6, <2>2 DEF Pool, StopTaking, TakeAgain, HangUp, FallSilent, Resume, Wires
  <2> QED
    BY <2>1, <2>2
<1> QED
  BY <1>2, <1>3, <1>4, <1>5, <1>6 DEF Step, Beside

LEMMA LaneTyped ==
  ASSUME IInv, Step
  PROVE  lane' \in Lanes
<1>1. lane \in Lanes
  BY DEF IInv, Typed
<1>2. CASE DeviceFails \/ AllFailed \/ Fails
  BY <1>1, <1>2 DEF DeviceFails, AllFailed, Fails, ConnectFails, ContextFails, HandshakeFails, JoinAndClose
<1>3. CASE Goes
  BY <1>1, <1>3 DEF Goes, SelectDevice, Connect, NewContext, Handshake, StartReader, WaitEnds, Accept,
     Reject, StartMonitoring, LeaveLoop, CloseLane, StopMonitoring, JoinWriter, JoinServer, BrokenPipe,
     Lanes
<1>4. CASE LaneThreads
  BY <1>1, <1>4 DEF LaneThreads, TakeShare, SendFails, Submitter, SendEnds, AwaitEnds, SubmitterStops,
     StatsStop, SubGoes, Lanes
<1>5. CASE (\E e \in Endpoints : Reader(e)) \/ Pool \/ Writer \/ Server \/ Client \/ UNCHANGED vars
  BY <1>1, <1>5 DEF Reader, TestStop, Select, Receive, ReceiveEnd, ReceivePart, HandleNotify,
     Pool, Writer, Server, Client, vars
<1> QED
  BY <1>2, <1>3, <1>4, <1>5 DEF Step, Beside

LEMMA ApiTyped ==
  ASSUME IInv, Step
  PROVE  api' \in Apis
<1>1. api \in Apis
  BY DEF IInv, Typed
<1>2. CASE DeviceFails \/ AllFailed \/ Fails
  BY <1>1, <1>2 DEF DeviceFails, AllFailed, Fails, ConnectFails, ContextFails, HandshakeFails, JoinAndClose
<1>3. CASE Goes
  <2>1. CASE StartMonitoring
    <3>1. CASE Serves
      BY <1>1, <2>1, <3>1 DEF StartMonitoring, Apis
    <3>2. CASE ~Serves
      BY <1>1, <2>1, <3>2 DEF StartMonitoring, Apis
    <3> QED
      BY <3>1, <3>2
  <2>2. CASE StopMonitoring
    BY <1>1, <2>2 DEF StopMonitoring, Apis
  <2>3. CASE ~StartMonitoring /\ ~StopMonitoring
    BY <1>1, <1>3, <2>3 DEF Goes, SelectDevice, Connect, NewContext, Handshake, StartReader, WaitEnds, Accept,
       Reject, LeaveLoop, CloseLane, JoinWriter, JoinServer, BrokenPipe
  <2> QED
    BY <2>1, <2>2, <2>3
<1>4. CASE LaneThreads \/ (\E e \in Endpoints : Reader(e)) \/ Pool \/ Client \/ UNCHANGED vars
  BY <1>1, <1>4, LaneThreadsKeep DEF Reader, TestStop, Select, Receive, ReceiveEnd, ReceivePart, HandleNotify,
     Pool, Client, vars
<1>5. CASE Writer
  <2>1. CASE OpenTmp
    BY <1>1, <2>1 DEF OpenTmp, TmpOpened, Apis, Contents
  <2>2. CASE OpenFails
    BY <1>1, <2>2 DEF OpenFails, Apis
  <2>3. CASE WriteTmp
    BY <1>1, <2>3 DEF WriteTmp, Apis, Contents
  <2>4. CASE Rename
    BY <1>1, <2>4 DEF Rename, Apis, Contents
  <2>5. CASE Pause
    BY <1>1, <2>5 DEF Pause, Apis
  <2> QED
    BY <1>5, <2>1, <2>2, <2>3, <2>4, <2>5 DEF Writer
<1>6. CASE Server
  BY <1>1, <1>6 DEF Server, Bind, ServerStops, AcceptClient, RecvRequest, Aggregate, Reply, Apis
<1> QED
  BY <1>2, <1>3, <1>4, <1>5, <1>6 DEF Step, Beside

LEMMA ClientTyped ==
  ASSUME IInv, Step
  PROVE  client' \in Clients
<1>1. client \in Clients
  BY DEF IInv, Typed
<1>2. CASE DeviceFails \/ AllFailed \/ Fails
  BY <1>1, <1>2 DEF DeviceFails, AllFailed, Fails, ConnectFails, ContextFails, HandshakeFails, JoinAndClose
<1>3. CASE Goes
  BY <1>1, <1>3 DEF Goes, SelectDevice, Connect, NewContext, Handshake, StartReader, WaitEnds, Accept,
     Reject, StartMonitoring, LeaveLoop, CloseLane, StopMonitoring, JoinWriter, JoinServer, BrokenPipe
<1>4. CASE LaneThreads \/ (\E e \in Endpoints : Reader(e)) \/ Pool \/ Writer \/ UNCHANGED vars
  BY <1>1, <1>4, LaneThreadsKeep DEF Reader, TestStop, Select, Receive, ReceiveEnd, ReceivePart, HandleNotify,
     Pool, Writer, vars
<1>5. CASE Server
  BY <1>1, <1>5 DEF Server, Bind, ServerStops, AcceptClient, RecvRequest, Aggregate, Reply, Clients
<1>6. CASE Client
  <2>1. CASE ClientConnects
    BY <1>1, <2>1, BoundsAssumption DEF ClientConnects, Clients
  <2>2. CASE ClientAsks \/ ClientLeaves
    BY <1>1, <2>2 DEF ClientAsks, ClientLeaves, Clients
  <2> QED
    BY <1>6, <2>1, <2>2 DEF Client
<1> QED
  BY <1>2, <1>3, <1>4, <1>5, <1>6 DEF Step, Beside

(* A write that ends the process is one of the scan to an endpoint, or one  *)
(* of the lane; it changes nothing else.                                    *)
LEMMA BrokenWhere ==
  ASSUME IInv, Alive, BrokenPipe
  PROVE  /\ main.pc \in (Scanning \ {"device", "connect"}) \cup Mining
         /\ main'.pc = "killed" /\ UNCHANGED <<st, reader, lane, wire, open, api, client>>
<1>1. main \in Mains /\ main.pc \in Scanning \cup Mining
  BY DEF IInv, Typed, Alive, Mains
<1>2. main'.pc = "killed" /\ UNCHANGED <<st, reader, lane, wire, open, api, client>>
  BY <1>1 DEF BrokenPipe, Go, Mains
<1>3. CASE BrokenReply
  <2>1. main.pc \notin Scanning
    BY <1>3 DEF BrokenReply, IInv, MonitorOK
  <2> QED
    BY <1>1, <1>2, <2>1
<1>4. CASE BrokenSend
  <2>1. main.pc = "start" \/ main.pc \notin Scanning
    BY <1>4 DEF BrokenSend, At, IInv, LaneOK
  <2> QED
    BY <1>1, <1>2, <2>1
<1>5. CASE BrokenTls
  <2>1. main.pc \in {"handshake", "join", "drain"} \/ \E e \in Endpoints : reader[e] = "recv"
    BY <1>5 DEF BrokenTls, At
  <2>2. ASSUME NEW e \in Endpoints, reader[e] = "recv"
        PROVE  main.pc \in Reading \cup {"killed"}
    BY <2>2 DEF IInv, ReaderOK, Lives
  <2>3. main.pc \notin {"device", "connect"}
    BY <2>1, <2>2 DEF Reading
  <2> QED
    BY <1>1, <1>2, <2>3
<1> QED
  BY <1>2, <1>3, <1>4, <1>5 DEF BrokenPipe

LEMMA EndpointKept ==
  ASSUME IInv, Alive, Step
  PROVE  main' \in Mains /\ EndpointOK'
<1>1. main \in Mains /\ EndpointOK
  BY DEF IInv, Typed
<1>2. CASE DeviceFails \/ AllFailed
  BY <1>1, <1>2, ReturnKeeps DEF EndpointOK, At, Scanning, Mining
<1>3. CASE Fails
  <2>1. main.pc \in Scanning
    BY <1>3 DEF Fails, ConnectFails, ContextFails, HandshakeFails, JoinAndClose, At, Scanning
  <2>2. main' \in Mains /\ main'.pc = "connect" /\ main'.rc = 0
    BY <1>1, <1>3, <2>1, FailsKeep DEF EndpointOK
  <2> QED
    BY <2>2 DEF EndpointOK, At, Scanning, Mining
<1>4. CASE Goes
  <2>1. main' \in Mains /\ main'.ep = main.ep /\ main'.rc = main.rc
    BY <1>4, GoesKeep
  <2>2. CASE Connect
    <3>1. main.ep \in Endpoints /\ At("connect")
      BY <2>2 DEF Connect, MoreEndpoints
    <3>2. main'.pc # "device"
      BY <1>4, GoesKeep, <3>1 DEF Path, At
    <3> QED
      BY <1>1, <2>1, <3>1, <3>2 DEF EndpointOK, At, Scanning
  <2>3. CASE BrokenPipe
    <3>1. main'.pc = "killed" /\ main.pc \in (Scanning \ {"connect"}) \cup Mining
      BY <2>3, BrokenWhere
    <3> QED
      BY <1>1, <2>1, <3>1 DEF EndpointOK, At
  <2>4. CASE ~Connect /\ ~BrokenPipe
    BY <1>1, <1>4, <2>1, <2>4, GoesKeep DEF EndpointOK, At, Path, Scanning, Mining
  <2> QED
    BY <2>2, <2>3, <2>4
<1>5. CASE Beside
  BY <1>1, <1>5, BesideKeeps DEF EndpointOK, At
<1> QED
  BY <1>2, <1>3, <1>4, <1>5 DEF Step

LEMMA HoldKept ==
  ASSUME IInv, Alive, Step
  PROVE  HoldOK'
<1>1. main \in Mains /\ HoldOK
  BY DEF IInv, Typed
<1>2. CASE DeviceFails \/ AllFailed
  <2>1. open' = open /\ main.pc \in {"device", "connect"}
    BY <1>2 DEF DeviceFails, AllFailed, At
  <2> QED
    BY <1>1, <1>2, <2>1, ReturnKeeps DEF HoldOK, At, Bare, Holding
<1>3. CASE Fails
  <2>1. main'.pc = "connect"
    BY <1>3, FailsKeep
  <2>2. open' = {}
    <3>1. CASE ConnectFails
      BY <1>1, <3>1 DEF ConnectFails, HoldOK, At, Bare
    <3>2. CASE ContextFails
      BY <1>1, <3>2 DEF ContextFails, HoldOK, At
    <3>3. CASE HandshakeFails
      BY <1>1, <3>3 DEF HandshakeFails, AfterHandshake, HoldOK, At, Holding
    <3>4. CASE JoinAndClose
      BY <1>1, <3>4 DEF JoinAndClose, HoldOK, At, Holding
    <3> QED
      BY <1>3, <3>1, <3>2, <3>3, <3>4 DEF Fails
  <2> QED
    BY <2>1, <2>2 DEF HoldOK, At, Holding
<1>4. CASE Goes
  <2>1. main'.ep = main.ep /\ Held' = Held
    BY <1>4, GoesKeep DEF Held, Needs
  <2>2. CASE Connect
    <3>1. open = {}
      BY <1>1, <2>2 DEF Connect, HoldOK, At, Bare
    <3>2. open' = {<<"fd", main.ep>>}
      BY <2>2, <3>1 DEF Connect
    <3>3. \/ main'.pc = "context"
          \/ main'.pc = "start" /\ main.ep \notin Tls
      BY <1>1, <2>2 DEF Connect, Go, Mains
    <3>4. main.ep \notin Tls => Held = {<<"fd", main.ep>>}
      BY DEF Held, Needs
    <3> QED
      BY <2>1, <3>2, <3>3, <3>4 DEF HoldOK, At, Bare, Holding
  <2>3. CASE NewContext
    <3>1. open = {<<"fd", main.ep>>} /\ open' = open \cup Held
      BY <1>1, <2>3 DEF NewContext, HoldOK
    <3>2. open' = Held
      BY <3>1 DEF Held, Needs
    <3>3. main'.pc = "handshake"
      BY <1>1, <2>3 DEF NewContext, Go, Mains
    <3> QED
      BY <2>1, <3>2, <3>3 DEF HoldOK, At, Bare, Holding
  <2>4. CASE CloseLane
    <3>1. open' = {}
      BY <1>1, <2>4 DEF CloseLane, HoldOK, At, Holding
    <3>2. main'.pc = "guard"
      BY <1>1, <2>4 DEF CloseLane, Go, Mains
    <3> QED
      BY <3>1, <3>2 DEF HoldOK, At, Holding
  <2>5. CASE BrokenPipe
    <3>1. main'.pc = "killed" /\ open' = open
      BY <2>5, BrokenWhere
    <3>2. main.pc \in (Scanning \ {"context"}) \cup Mining
      BY <1>1, <2>5, BrokenWhere DEF BrokenPipe, BrokenReply, BrokenSend, BrokenTls, At, IInv, MonitorOK,
         LaneOK, ReaderOK, Lives, Reading, Scanning
    <3>3. open = {} \/ open = Held
      BY <1>1, <3>2 DEF HoldOK, Scanning, Mining, Bare, Holding
    <3> QED
      BY <2>1, <3>1, <3>3 DEF HoldOK, At, Bare, Holding
  <2>6. CASE ~Connect /\ ~NewContext /\ ~CloseLane /\ ~BrokenPipe
    <3>1. open' = open
      BY <1>4, <2>6 DEF Goes, SelectDevice, Handshake, StartReader, WaitEnds, Accept,
         Reject, StartMonitoring, LeaveLoop, StopMonitoring, JoinWriter, JoinServer
    <3>2. (main.pc \in Bare <=> main'.pc \in Bare) /\ (main.pc \in Holding <=> main'.pc \in Holding)
      BY <1>4, <2>6, GoesKeep DEF Path, Bare, Holding
    <3>3. main'.pc \notin {"context", "killed"}
      BY <1>4, <2>6, GoesKeep DEF Path
    <3> QED
      BY <1>1, <2>1, <3>1, <3>2, <3>3 DEF HoldOK, At
  <2> QED
    BY <2>2, <2>3, <2>4, <2>5, <2>6
<1>5. CASE Beside
  BY <1>1, <1>5, BesideKeeps DEF HoldOK, At, Held, Needs
<1> QED
  BY <1>2, <1>3, <1>4, <1>5 DEF Step

(* The reader of the endpoint connected to: the join before each close is   *)
(* what keeps it from outliving its connection.                             *)
LEMMA ReaderKept ==
  ASSUME IInv, Alive, Step
  PROVE  ReaderOK'
<1>1. main \in Mains /\ ReaderOK /\ reader \in [Endpoints -> ReaderPoints]
  BY DEF IInv, Typed
<1>2. CASE DeviceFails \/ AllFailed
  <2>1. reader' = reader /\ main.pc \in {"device", "connect"}
    BY <1>2 DEF DeviceFails, AllFailed, At
  <2>2. \A e \in Endpoints : ~Lives(e)
    BY <1>1, <2>1 DEF ReaderOK, Reading
  <2> QED
    BY <2>1, <2>2 DEF ReaderOK, Lives
<1>3. CASE Fails
  <2>1. reader' = reader
    BY <1>3 DEF Fails, ConnectFails, ContextFails, HandshakeFails, JoinAndClose
  <2>2. \A e \in Endpoints : ~Lives(e)
    <3>1. CASE JoinAndClose
      BY <1>1, <3>1 DEF JoinAndClose, ReaderJoined, ReaderOK, Lives
    <3>2. CASE ~JoinAndClose
      BY <1>1, <1>3, <3>2 DEF Fails, ConnectFails, ContextFails, HandshakeFails, At, ReaderOK, Reading
    <3> QED
      BY <3>1, <3>2
  <2> QED
    BY <2>1, <2>2 DEF ReaderOK, Lives
<1>4. CASE Goes
  <2>1. main'.ep = main.ep /\ Held' = Held
    BY <1>4, GoesKeep DEF Held, Needs
  <2>2. CASE SelectDevice \/ Connect \/ NewContext \/ Handshake \/ StopMonitoring \/ JoinWriter \/ JoinServer
    <3>1. reader' = reader /\ main.pc \notin Reading \cup {"killed"}
      BY <2>2 DEF SelectDevice, Connect, NewContext, Handshake, StopMonitoring, JoinWriter, JoinServer,
         At, Reading
    <3>2. \A e \in Endpoints : ~Lives(e)
      BY <1>1, <3>1 DEF ReaderOK
    <3> QED
      BY <3>1, <3>2 DEF ReaderOK, Lives
  <2>3. CASE StartReader
    <3>1. main.pc = "start" /\ main'.pc = "wait" /\ open' = open
      BY <1>1, <2>3 DEF StartReader, At, Go, Mains
    <3>2. open' = Held'
      BY <2>1, <3>1 DEF IInv, HoldOK, Holding
    <3>3. \A e \in Endpoints : ~Lives(e)
      BY <1>1, <3>1 DEF ReaderOK, Reading
    <3>4. \A e \in Endpoints : e # main.ep => ~Lives(e)'
      BY <1>1, <2>3, <3>3 DEF StartReader, Lives
    <3> QED
      BY <2>1, <3>1, <3>2, <3>4 DEF ReaderOK, Reading
  <2>4. CASE WaitEnds \/ Accept \/ Reject \/ StartMonitoring \/ LeaveLoop
    <3>1. reader' = reader /\ open' = open /\ main'.pc \in Reading
      BY <1>1, <2>4 DEF WaitEnds, Accept, Reject, StartMonitoring, LeaveLoop, Go, Mains, Reading
    <3> QED
      BY <1>1, <2>1, <3>1 DEF ReaderOK, Lives
  <2>5. CASE CloseLane
    <3>1. reader' = reader /\ \A e \in Endpoints : ~Lives(e)
      BY <1>1, <2>5 DEF CloseLane, Joined, ReaderJoined, ReaderOK, Lives
    <3> QED
      BY <3>1 DEF ReaderOK, Lives
  <2>6. CASE BrokenPipe
    <3>1. reader' = reader /\ open' = open /\ main'.pc = "killed"
      BY <1>1, <2>6 DEF BrokenPipe, Go, Mains
    <3> QED
      BY <1>1, <2>1, <3>1 DEF ReaderOK, Lives
  <2> QED
    BY <1>4, <2>2, <2>3, <2>4, <2>5, <2>6 DEF Goes
<1>5. CASE Beside
  <2>1. main' = main /\ open' = open /\ Held' = Held
    BY <1>5, BesideKeeps DEF Held, Needs
  <2>2. \A e \in Endpoints : Lives(e)' => Lives(e)
    <3>1. ASSUME NEW e \in Endpoints, Reader(e), NEW f \in Endpoints
          PROVE  Lives(f)' => Lives(f)
      BY <1>1, <3>1 DEF Reader, TestStop, Select, Receive, ReceiveEnd, ReceivePart, HandleNotify, ReaderGoes, Lives
    <3>2. CASE LaneThreads \/ Pool \/ Writer \/ Server \/ Client \/ UNCHANGED vars
      BY <3>2, LaneThreadsKeep DEF Pool, Writer, Server, Client, vars, Lives
    <3> QED
      BY <1>5, <3>1, <3>2 DEF Beside
  <2> QED
    BY <1>1, <2>1, <2>2 DEF ReaderOK
<1> QED
  BY <1>2, <1>3, <1>4, <1>5 DEF Step

(* The other two threads of the lane. *)
LEMMA LaneKept ==
  ASSUME IInv, Alive, Step
  PROVE  LaneOK'
<1>1. main \in Mains /\ LaneOK /\ HoldOK /\ lane \in Lanes
  BY DEF IInv, Typed
<1>2. CASE DeviceFails \/ AllFailed
  <2>1. lane' = lane /\ main.pc \in Scanning /\ main'.pc = "returned"
    BY <1>1, <1>2, ReturnKeeps DEF DeviceFails, AllFailed, At, Scanning
  <2> QED
    BY <1>1, <2>1 DEF LaneOK, At, Scanning
<1>3. CASE Fails
  <2>1. lane' = lane /\ main.pc \in Scanning /\ main'.pc = "connect"
    BY <1>3, FailsKeep DEF Fails, ConnectFails, ContextFails, HandshakeFails, JoinAndClose, At, Scanning
  <2> QED
    BY <1>1, <2>1 DEF LaneOK, At
<1>4. CASE Goes
  <2>1. main'.ep = main.ep /\ Held' = Held
    BY <1>4, GoesKeep DEF Held, Needs
  <2>2. CASE StartMonitoring
    <3>1. main.pc = "monitor" /\ main'.pc = "mine" /\ open' = open
      BY <1>1, <2>2 DEF StartMonitoring, At, Go, Mains
    <3>2. open = Held
      BY <1>1, <3>1 DEF HoldOK, Holding
    <3> QED
      BY <2>1, <3>1, <3>2 DEF LaneOK, At, Scanning
  <2>3. CASE CloseLane
    <3>1. main'.pc = "guard" /\ lane' = lane /\ lane.sub = "done" /\ lane.stats = "done"
      BY <1>1, <2>3 DEF CloseLane, Joined, Go, Mains
    <3> QED
      BY <3>1 DEF LaneOK, At, Scanning
  <2>4. CASE BrokenPipe
    <3>1. main'.pc = "killed" /\ lane' = lane /\ open' = open
      BY <2>4, BrokenWhere
    <3> QED
      BY <1>1, <2>1, <3>1 DEF LaneOK, At, Scanning
  <2>5. CASE LeaveLoop
    <3>1. main'.pc = "drain" /\ lane' = lane /\ open' = open
      BY <1>1, <2>5 DEF LeaveLoop, Go, Mains
    <3> QED
      BY <1>1, <2>1, <3>1 DEF LaneOK, At, Scanning
  <2>6. CASE StopMonitoring \/ JoinWriter \/ JoinServer
    <3>1. /\ main.pc \in {"guard", "joinwriter", "joinserver"} /\ lane' = lane
          /\ main'.pc \in {"joinwriter", "joinserver", "returned"}
      BY <1>1, <2>6 DEF StopMonitoring, JoinWriter, JoinServer, At, Go, Mains
    <3> QED
      BY <1>1, <3>1 DEF LaneOK, At, Scanning
  <2>7. CASE ~(StartMonitoring \/ CloseLane \/ BrokenPipe \/ LeaveLoop \/ StopMonitoring \/ JoinWriter
               \/ JoinServer)
    <3>1. lane' = lane /\ main.pc \in Scanning
      BY <1>4, <2>7 DEF Goes, SelectDevice, Connect, NewContext, Handshake, StartReader, WaitEnds, Accept,
         Reject, At, Scanning
    <3>2. main'.pc \in Scanning \cup {"monitor"}
      BY <1>4, <2>7, GoesKeep DEF Path, Scanning
    <3> QED
      BY <1>1, <3>1, <3>2 DEF LaneOK, At, Scanning
  <2> QED
    BY <2>2, <2>3, <2>4, <2>5, <2>6, <2>7
<1>5. CASE Beside
  <2>1. main' = main /\ open' = open /\ Held' = Held
    BY <1>5, BesideKeeps DEF Held, Needs
  <2>2. CASE LaneThreads
    <3>1. /\ lane.sub \in {"none", "done"} => lane'.sub = lane.sub
          /\ lane.stats \in {"none", "done"} => lane'.stats = lane.stats
      BY <1>1, <2>2 DEF LaneThreads, TakeShare, SendFails, Submitter, SendEnds, AwaitEnds, SubmitterStops,
         StatsStop, SubGoes, Lanes
    <3> QED
      BY <1>1, <2>1, <3>1 DEF LaneOK, At
  <2>3. CASE (\E e \in Endpoints : Reader(e)) \/ Pool \/ Writer \/ Server \/ Client \/ UNCHANGED vars
    <3>1. lane' = lane
      BY <2>3 DEF Reader, TestStop, Select, Receive, ReceiveEnd, ReceivePart, HandleNotify,
         Pool, Writer, Server, Client, vars
    <3> QED
      BY <1>1, <2>1, <3>1 DEF LaneOK, At
  <2> QED
    BY <1>5, <2>2, <2>3 DEF Beside
<1> QED
  BY <1>2, <1>3, <1>4, <1>5 DEF Step

LEMMA MonitorKept ==
  ASSUME IInv, Alive, Step
  PROVE  MonitorOK'
<1>1. main \in Mains /\ MonitorOK /\ api \in Apis
  BY DEF IInv, Typed
<1>2. CASE DeviceFails \/ AllFailed
  <2>1. api' = api /\ main.pc \in Scanning /\ main'.pc = "returned"
    BY <1>1, <1>2, ReturnKeeps DEF DeviceFails, AllFailed, At, Scanning
  <2> QED
    BY <1>1, <2>1 DEF MonitorOK, At, Scanning
<1>3. CASE Fails
  <2>1. api' = api /\ main.pc \in Scanning /\ main'.pc = "connect"
    BY <1>3, FailsKeep DEF Fails, ConnectFails, ContextFails, HandshakeFails, JoinAndClose, At, Scanning
  <2> QED
    BY <1>1, <2>1 DEF MonitorOK, At
<1>4. CASE Goes
  <2>1. CASE StartMonitoring
    <3>1. main'.pc = "mine"
      BY <1>1, <2>1 DEF StartMonitoring, Go, Mains
    <3> QED
      BY <3>1 DEF MonitorOK, At, Scanning
  <2>2. CASE StopMonitoring
    <3>1. main'.pc = "joinwriter"
      BY <1>1, <2>2 DEF StopMonitoring, Go, Mains
    <3> QED
      BY <3>1 DEF MonitorOK, At, Scanning
  <2>3. CASE BrokenPipe
    <3>1. main'.pc = "killed"
      BY <1>1, <2>3 DEF BrokenPipe, Go, Mains
    <3> QED
      BY <3>1 DEF MonitorOK, At, Scanning
  <2>4. CASE JoinWriter \/ JoinServer
    BY <1>1, <2>4 DEF JoinWriter, JoinServer, Go, Mains, MonitorOK, At, Scanning
  <2>5. CASE LeaveLoop \/ CloseLane
    BY <1>1, <2>5 DEF LeaveLoop, CloseLane, Go, Mains, MonitorOK, At, Scanning
  <2>6. CASE ~(StartMonitoring \/ StopMonitoring \/ BrokenPipe \/ JoinWriter \/ JoinServer \/ LeaveLoop \/ CloseLane)
    <3>1. api' = api /\ main.pc \in Scanning
      BY <1>4, <2>6 DEF Goes, SelectDevice, Connect, NewContext, Handshake, StartReader, WaitEnds, Accept,
         Reject, At, Scanning
    <3>2. main'.pc \in Scanning \cup {"monitor"}
      BY <1>4, <2>6, GoesKeep DEF Path, Scanning
    <3> QED
      BY <1>1, <3>1, <3>2 DEF MonitorOK, At, Scanning
  <2> QED
    BY <2>1, <2>2, <2>3, <2>4, <2>5, <2>6
<1>5. CASE Beside
  <2>1. main' = main
    BY <1>5, BesideKeeps
  <2>2. (api.writer \in {"none", "done"} => api'.writer = api.writer) /\ (api.server \in {"none", "done"} => api'.server = api.server)
    <3>1. CASE Writer
      BY <1>1, <3>1 DEF Writer, OpenTmp, TmpOpened, OpenFails, WriteTmp, Rename, Pause, Apis
    <3>2. CASE Server
      BY <1>1, <3>2 DEF Server, Bind, ServerStops, AcceptClient, RecvRequest, Aggregate, Reply, Apis
    <3>3. CASE LaneThreads \/ (\E e \in Endpoints : Reader(e)) \/ Pool \/ Client \/ UNCHANGED vars
      BY <3>3, LaneThreadsKeep DEF Reader, TestStop, Select, Receive, ReceiveEnd, ReceivePart, HandleNotify,
         Pool, Client, vars
    <3> QED
      BY <1>5, <3>1, <3>2, <3>3 DEF Beside
  <2> QED
    BY <1>1, <2>1, <2>2 DEF MonitorOK, At
<1> QED
  BY <1>2, <1>3, <1>4, <1>5 DEF Step

LEMMA FileKept ==
  ASSUME IInv, Step
  PROVE  FileOK'
<1>1. FileOK /\ api \in Apis
  BY DEF IInv, Typed
<1>2. CASE DeviceFails \/ AllFailed \/ Fails
  BY <1>1, <1>2 DEF DeviceFails, AllFailed, Fails, ConnectFails, ContextFails, HandshakeFails, JoinAndClose, FileOK
<1>3. CASE Goes
  <2>1. CASE StartMonitoring \/ StopMonitoring
    BY <1>1, <2>1 DEF StartMonitoring, StopMonitoring, FileOK, Apis
  <2>2. CASE ~StartMonitoring /\ ~StopMonitoring
    BY <1>1, <1>3, <2>2 DEF Goes, SelectDevice, Connect, NewContext, Handshake, StartReader, WaitEnds, Accept,
       Reject, LeaveLoop, CloseLane, JoinWriter, JoinServer, BrokenPipe, FileOK
  <2> QED
    BY <2>1, <2>2
<1>4. CASE LaneThreads \/ (\E e \in Endpoints : Reader(e)) \/ Pool \/ Client \/ UNCHANGED vars
  BY <1>1, <1>4, LaneThreadsKeep DEF Reader, TestStop, Select, Receive, ReceiveEnd, ReceivePart, HandleNotify,
     Pool, Client, vars, FileOK
<1>5. CASE Writer
  BY <1>1, <1>5 DEF Writer, OpenTmp, TmpOpened, OpenFails, WriteTmp, Rename, Pause, Apis, FileOK
<1>6. CASE Server
  BY <1>1, <1>6 DEF Server, Bind, ServerStops, AcceptClient, RecvRequest, Aggregate, Reply, Apis, FileOK
<1> QED
  BY <1>2, <1>3, <1>4, <1>5, <1>6 DEF Step, Beside

LEMMA JobKept ==
  ASSUME IInv, Alive, Step
  PROVE  JobOK'
<1>1. main \in Mains /\ JobOK /\ st \in States
  BY DEF IInv, Typed
<1>2. CASE DeviceFails \/ AllFailed
  BY <1>1, <1>2, ReturnKeeps DEF JobOK, Mining
<1>3. CASE Fails
  BY <1>3, FailsKeep DEF JobOK, Mining
<1>4. CASE Goes
  <2>1. main'.ep = main.ep
    BY <1>4, GoesKeep
  <2>2. CASE StartReader
    BY <1>1, <2>1, <2>2 DEF StartReader, Go, Mains, Cleared, States, JobOK, Mining
  <2>3. CASE Accept
    BY <1>1, <2>1, <2>3 DEF Accept, Go, At, Mains, JobOK, Mining
  <2>4. CASE Reject
    BY <1>1, <2>4 DEF Reject, Go, Mains, JobOK, Mining
  <2>5. CASE BrokenPipe
    BY <1>1, <2>5 DEF BrokenPipe, Go, Mains, JobOK, Mining
  <2>6. CASE ~StartReader /\ ~Accept /\ ~Reject /\ ~BrokenPipe
    <3>1. st' = st
      BY <1>4, <2>6 DEF Goes, SelectDevice, Connect, NewContext, Handshake, WaitEnds,
         StartMonitoring, LeaveLoop, CloseLane, StopMonitoring, JoinWriter, JoinServer
    <3>2. /\ main'.pc \in {"wait", "judge"} => main.pc \in {"wait", "judge"}
          /\ main'.pc \in Mining => main.pc \in Mining
      BY <1>4, <2>6, GoesKeep DEF Path, Mining
    <3> QED
      BY <1>1, <2>1, <3>1, <3>2 DEF JobOK
  <2> QED
    BY <2>2, <2>3, <2>4, <2>5, <2>6
<1>5. CASE Beside
  <2>1. main' = main
    BY <1>5, BesideKeeps
  <2>2. ASSUME NEW e \in Endpoints, Reader(e)
        PROVE  JobOK'
    <3>1. e = main.ep
      BY <2>2 DEF IInv, ReaderOK, Lives, Reader, TestStop, Select, Receive, ReceiveEnd, ReceivePart, HandleNotify
    <3> QED
      BY <1>1, <2>1, <2>2, <3>1 DEF Reader, TestStop, Select, Receive, ReceiveEnd, ReceivePart, HandleNotify,
         States, JobOK
  <2>3. CASE LaneThreads \/ Pool \/ Writer \/ Server \/ Client \/ UNCHANGED vars
    BY <1>1, <2>1, <2>3, LaneThreadsKeep DEF Pool, Writer, Server, Client, vars, States, JobOK
  <2> QED
    BY <1>5, <2>2, <2>3 DEF Beside
<1> QED
  BY <1>2, <1>3, <1>4, <1>5 DEF Step

-----------------------------------------------------------------------------
LEMMA InvInit == Init => IInv
<1> SUFFICES ASSUME Init PROVE IInv
  OBVIOUS
<1>1. Typed
  <2>1. 0 \in 0..N /\ 1 \in 1..(N + 1) /\ MaxNotifies \in 0..MaxNotifies /\ 0 \in 0..MaxNotifies /\ MaxVisits \in 0..MaxVisits
    BY EndpointsAssumption, BoundsAssumption
  <2> QED
    BY <2>1, BoundsAssumption DEF Init, NewWire, Typed, Mains, States, Lanes, Wires, Apis, Clients, ReaderPoints, Contents, Scanning
<1>2. EndpointOK
  BY EndpointsAssumption DEF Init, EndpointOK, At, Endpoints
<1>3. HoldOK /\ ReaderOK /\ LaneOK /\ MonitorOK /\ FileOK /\ JobOK
  BY DEF Init, HoldOK, Bare, Holding, ReaderOK, Lives, LaneOK, MonitorOK, FileOK, JobOK, At, Scanning, Mining
<1> QED
  BY <1>1, <1>2, <1>3 DEF IInv

LEMMA InvStep == IInv /\ [Next]_vars => IInv'
<1> SUFFICES ASSUME IInv, [Next]_vars PROVE IInv'
  OBVIOUS
<1>1. CASE UNCHANGED vars
  BY <1>1 DEF vars, IInv, Typed, EndpointOK, HoldOK, Held, Needs, ReaderOK, Lives, LaneOK, MonitorOK, FileOK, JobOK, At
<1>2. CASE Alive /\ Step
  BY <1>2, EndpointKept, StateTyped, ReaderTyped, LaneTyped, WireTyped, ApiTyped, ClientTyped, HoldKept, ReaderKept,
     LaneKept, MonitorKept, FileKept, JobKept DEF IInv, Typed
<1> QED
  BY <1>1, <1>2, Steps

LEMMA Invariance == Spec => []IInv
BY InvInit, InvStep, PTL DEF Spec

(* What is held belongs to the endpoint being tried. *)
LEMMA HeldHere == IInv => \A r \in open : r[2] = main.ep /\ main.ep \in Endpoints /\ r \in {"fd", "ctx", "ssl"} \X Endpoints
<1> SUFFICES ASSUME IInv, NEW r \in open
             PROVE  r[2] = main.ep /\ main.ep \in Endpoints /\ r \in {"fd", "ctx", "ssl"} \X Endpoints
  OBVIOUS
<1>1. main.pc \in Bare \cup Holding \cup {"context", "killed"}
  BY DEF IInv, Typed, Mains, Scanning, Mining, Ended, Bare, Holding
<1>2. main.pc \notin Bare /\ r \in Held
  BY <1>1 DEF IInv, HoldOK, At, Held, Needs
<1>3. main.ep \in Endpoints
  BY <1>1, <1>2 DEF IInv, EndpointOK, Holding, Scanning, Mining
<1> QED
  BY <1>2, <1>3 DEF Held, Needs

(* Types: a scan never goes past the end of its list of endpoints, and the  *)
(* lines an endpoint has sent stay within the bound.                        *)
THEOREM RunPoolTypeCorrect == Spec => []TypeOK
<1>1. IInv => TypeOK
  BY HeldHere DEF IInv, Typed, TypeOK, Mains, States, Lanes, Wires, Apis, Clients, ReaderPoints
<1> QED
  BY <1>1, Invariance, PTL

(* run_pool joins the reader, and the submitter, before it closes the       *)
(* socket and frees the TLS objects, on the path of a rejected endpoint and *)
(* on that of a lane that ends: whatever fails, their connection exists for *)
(* as long as they live.                                                    *)
THEOREM ReadersHaveTheirSockets == Spec => []NoUseAfterFree
<1>1. IInv => NoUseAfterFree
  BY DEF IInv, ReaderOK, HoldOK, Holding, Lives, LaneOK, Held, NoUseAfterFree
<1> QED
  BY <1>1, Invariance, PTL

(* Every error path of the scan closes what the attempt has opened and no   *)
(* more, and a call of run_pool that returns leaves no descriptor, no TLS   *)
(* object and no thread behind.                                             *)
THEOREM EveryPathCleansUp == Spec => []NothingLeft
<1>1. IInv => NothingLeft
  BY HeldHere DEF IInv, ReaderOK, Lives, Reading, HoldOK, Bare, LaneOK, MonitorOK, At, NothingLeft
<1> QED
  BY <1>1, Invariance, PTL

(* write_stats_json writes beside the file and renames: whenever the server *)
(* aggregates, what it reads is absent or whole.                            *)
THEOREM NoPartialFileServed == Spec => []ServesWholeFiles
<1>1. IInv => ServesWholeFiles
  BY DEF IInv, FileOK, ServesWholeFiles
<1> QED
  BY <1>1, Invariance, PTL

-----------------------------------------------------------------------------
(* The refinement of Failover. *)

LEMMA FailoverInit == Init => Abstract!Init
BY DEF Init, Abstract!Init, Scanning, Mining

(* A failed attempt is EndpointFails, an accepted one EndpointServes, the   *)
(* two returns of the scan GivesUp, the end of the lane Ends, a broken pipe *)
(* Dies; all else stutters.                                                 *)
LEMMA FailoverStep == IInv /\ [Next]_vars => [Abstract!Next]_(Abstract!vars)
<1> SUFFICES ASSUME IInv, [Next]_vars PROVE [Abstract!Next]_(Abstract!vars)
  OBVIOUS
<1>0. main \in Mains /\ EndpointOK /\ JobOK /\ MonitorOK
  BY DEF IInv, Typed
<1>1. CASE UNCHANGED vars
  BY <1>1 DEF vars, Abstract!vars, At
<1>2. CASE Alive /\ (DeviceFails \/ AllFailed)
  <2>1. main.pc \in Scanning /\ main.pc \notin Mining /\ main.pc \in {"device", "connect"}
    BY <1>2 DEF DeviceFails, AllFailed, At, Scanning, Mining
  <2>2. main'.pc = "returned" /\ main'.ep = main.ep /\ main'.rc # 0
    BY <1>0, <1>2, ReturnKeeps
  <2>3. main.ep - 1 \in {0, N}
    BY <1>0, <1>2, EndpointsAssumption DEF DeviceFails, AllFailed, MoreEndpoints, Endpoints, EndpointOK, Mains
  <2> QED
    BY <2>1, <2>2, <2>3 DEF Abstract!Next, Abstract!GivesUp, Scanning, Mining, At
<1>3. CASE Alive /\ Fails
  <2>1. main.pc \in Scanning /\ main.pc \notin Mining
    BY <1>3 DEF Fails, ConnectFails, ContextFails, HandshakeFails, JoinAndClose, At, Scanning, Mining
  <2>2. main'.pc = "connect" /\ main'.ep = main.ep + 1 /\ main.ep \in 1..N
    BY <1>3, FailsKeep DEF Endpoints
  <2>3. main'.ep - 1 = (main.ep - 1) + 1 /\ main.ep - 1 < N
    BY <2>2, EndpointsAssumption
  <2> QED
    BY <2>1, <2>2, <2>3 DEF Abstract!Next, Abstract!EndpointFails, Scanning, Mining
<1>4. CASE Alive /\ Goes
  <2>1. main'.ep = main.ep /\ main'.rc = main.rc
    BY <1>4, GoesKeep
  <2>2. CASE Accept
    <3>1. main.pc = "judge" /\ main'.pc = "monitor" /\ st' = st /\ st.have
      BY <1>0, <2>2 DEF Accept, At, Go, Mains
    <3>2. main.ep \in 1..N /\ st.job = main.ep
      BY <1>0, <3>1 DEF EndpointOK, JobOK, Endpoints, Scanning
    <3>3. (main.ep - 1) + 1 = main.ep /\ main.ep - 1 < N
      BY <3>2, EndpointsAssumption
    <3> QED
      BY <2>1, <3>1, <3>2, <3>3 DEF Abstract!Next, Abstract!EndpointServes, Scanning, Mining
  <2>3. CASE JoinServer
    <3>1. main.pc \in Mining /\ main'.pc = "returned"
      BY <1>0, <2>3 DEF JoinServer, At, Go, Mains, Mining
    <3>2. main.rc = 0
      BY <1>0, <3>1 DEF EndpointOK
    <3> QED
      BY <2>1, <3>1, <3>2 DEF Abstract!Next, Abstract!Ends, Scanning, Mining, At
  <2>5. CASE BrokenPipe
    <3>1. main.pc \in (Scanning \ {"device", "connect"}) \cup Mining /\ main'.pc = "killed"
      BY <1>4, <2>5, BrokenWhere
    <3>2. main.ep \in 1..N
      BY <1>0, <3>1 DEF EndpointOK, Endpoints
    <3>3. main.ep - 1 < N
      BY <3>2, EndpointsAssumption
    <3> QED
      BY <2>1, <3>1, <3>3 DEF Abstract!Next, Abstract!Dies, Scanning, Mining, At
  <2>4. CASE ~Accept /\ ~JoinServer /\ ~BrokenPipe
    <3>1. \/ main.pc \in Scanning /\ main'.pc \in Scanning
          \/ main.pc \in Mining /\ main'.pc \in Mining /\ st' = st
      <4>1. CASE StartMonitoring \/ LeaveLoop \/ CloseLane \/ StopMonitoring \/ JoinWriter
        BY <1>0, <4>1 DEF StartMonitoring, LeaveLoop, CloseLane, StopMonitoring, JoinWriter, At, Go, Mains, Mining
      <4>2. CASE ~(StartMonitoring \/ LeaveLoop \/ CloseLane \/ StopMonitoring \/ JoinWriter)
        BY <1>4, <2>4, <4>2, GoesKeep DEF Path, Scanning
      <4> QED
        BY <4>1, <4>2
    <3> QED
      BY <2>1, <3>1 DEF Abstract!vars, Scanning, Mining, At
  <2> QED
    BY <2>2, <2>3, <2>4, <2>5
<1>5. CASE Alive /\ Beside
  <2>1. main' = main
    BY <1>5, BesideKeeps
  <2>2. JobOK' /\ (main.pc \in Mining => st'.job = st.job)
    BY <1>0, <1>5, <2>1, JobKept DEF Step, JobOK
  <2> QED
    BY <2>1, <2>2 DEF Abstract!vars, At
<1> QED
  BY <1>1, <1>2, <1>3, <1>4, <1>5, Steps DEF Step

(* The scan of run_pool tries the endpoints in order, mines with the first  *)
(* that delivers a job and on jobs of that endpoint only - pool_reader of   *)
(* an endpoint given up cannot leave one behind -, and returns without      *)
(* having mined only before the first endpoint or after the last.  It may   *)
(* be ended by a broken pipe (Failover!Dies) at an endpoint it has reached. *)
THEOREM ImplementsFailover == Spec => GoesInOrder
<1>1. Init => Abstract!Init
  BY FailoverInit
<1>2. IInv /\ [Next]_vars => [Abstract!Next]_(Abstract!vars)
  BY FailoverStep
<1> QED
  BY <1>1, <1>2, Invariance, PTL DEF Spec, GoesInOrder, Abstract!Spec
=============================================================================
