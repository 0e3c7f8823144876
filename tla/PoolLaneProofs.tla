--------------------------- MODULE PoolLaneProofs ---------------------------
(***************************************************************************)
(* The safety properties of PoolLane, proved for every set of jobs and     *)
(* every value of the bounds.  The inductive invariant is built up in      *)
(* layers, each proved from the ones before it:                            *)
(*   Typed      the types, and when the submitter has a share in hand      *)
(*   Ordered    the ids of the shares ascend from the wire over the hand   *)
(*              and the queue to main.next                                 *)
(*   Awaited    the responses and where their verdicts come from           *)
(* and beside them the conservation of shares, the accounting of aborts,   *)
(* the generations and the end of the lane.                                *)
(***************************************************************************)
EXTENDS PoolLane, TLAPS

Busy == {"register", "send", "sendfail", "await", "parking", "parked"}

(* The share in hand is a share while the submitter works on one. *)
HandOK ==
  /\ sub.pc \in Busy => sub.cur \in Share
  /\ sub.pc \notin Busy => sub.cur = NoShare

(* A win is numbered within the bound. *)
WinOK ==
  main.pc \in {"unpublish", "check", "log"} /\ main.result = "win" => main.next <= MaxShares

Typed == TypeOK /\ HandOK /\ WinOK

(* The generations: of the snapshot, of the prover's last look, of now. *)
GenOK ==
  /\ main.gen <= st.gen
  /\ main.pc \in {"unpublish", "check"} /\ main.result = "win" =>
       main.gen <= hist.wonGen /\ hist.wonGen <= st.gen
  /\ main.pc = "log" /\ main.result = "win" => main.gen = hist.wonGen

(* One abort decided on is at most one pointer in the reader's hand, then  *)
(* one set flag that this attempt will log, then one attempt logged.       *)
AbortOK ==
  hist.aborted + (IF reader.abort # "null" THEN 1 ELSE 0)
    + (IF flag /\ main.pc \in {"publish", "mining", "unpublish", "check", "log"} THEN 1 ELSE 0)
  <= st.aborts

(* The end: the threads have ended before main returns. *)
EndOK ==
  /\ ~net.open => main.pc = "exited"
  /\ main.pc = "exited" => reader.pc = "done" /\ sub.pc = "done"
  /\ reader.abort # "null" => reader.pc = "signal"

(* Ids ascend along the way of a share. *)
OrderOK ==
  /\ \A i, j \in DOMAIN net.wire : i < j => net.wire[i].id < net.wire[j].id
  /\ \A i \in DOMAIN net.wire : net.wire[i].id < main.next
  /\ \A i \in DOMAIN net.wire, j \in DOMAIN queue.q : net.wire[i].id < queue.q[j].id
  /\ \A i, j \in DOMAIN queue.q : i < j => queue.q[i].id < queue.q[j].id
  /\ \A j \in DOMAIN queue.q : queue.q[j].id < main.next
  /\ sub.cur # NoShare =>
       /\ sub.cur.id < main.next
       /\ \A j \in DOMAIN queue.q : sub.cur.id < queue.q[j].id
       /\ sub.pc \in {"register", "send"} =>
            \A i \in DOMAIN net.wire : net.wire[i].id < sub.cur.id

(* A verdict, wherever it is, is the pool's answer to a share it received. *)
Genuine(line, replied) == line.kind = "reply" => <<line.id, line.verdict>> \in replied

VerdictOK ==
  /\ \A r \in net.replied : \E k \in DOMAIN net.wire : net.wire[k].id = r[1]
  /\ \A k \in DOMAIN net.inbox : Genuine(net.inbox[k], net.replied)
  /\ \A k \in DOMAIN reader.buf : Genuine(reader.buf[k], net.replied)
  /\ \A i \in ShareIds : st.resp[i] # "none" => <<i, st.resp[i]>> \in net.replied

-----------------------------------------------------------------------------
(* Types. *)

LEMMA ShareIsNotNoShare == NoShare \notin Share
  BY BoundsAssumption DEF Share, NoShare, ShareIds

LEMMA InitTyped == Init => Typed
<1> SUFFICES ASSUME Init PROVE Typed
  OBVIOUS
<1> USE BoundsAssumption
<1>1. StType /\ MainType
  BY DEF Init, StType, MainType, Pointers, Verdicts
<1>2. ReaderType
  BY DEF Init, ReaderType, Pointers
<1>6. OtherTypes
  <2>1. flag \in BOOLEAN /\ stats \in {"run", "done"}
    BY Zenon DEF Init
  <2>2. queue \in [q : Seq(Share), closed : BOOLEAN]
    BY DEF Init
  <2>3. count \in [accepted : Nat, rejected : Nat, missed : Nat]
    BY DEF Init
  <2>4. hist \in [wonGen : Nat, aborted : Nat]
    BY DEF Init
  <2> QED
    BY <2>1, <2>2, <2>3, <2>4 DEF OtherTypes
<1>5. NetType
  BY DEF Init, NetType
<1>3. SubType /\ HandOK
  BY DEF Init, SubType, HandOK, Busy
<1>4. WinOK
  BY DEF Init, WinOK
<1> QED
  BY <1>1, <1>2, <1>3, <1>4, <1>5, <1>6 DEF Typed, TypeOK

(* The line the reader is at. *)

LEMMA NotifyAtHead ==
  ASSUME ReaderType, LineIs("notify")
  PROVE  Head(reader.buf).job \in Jobs
<1>1. Head(reader.buf) \in Lines
  BY DEF ReaderType, LineIs
<1> QED
  BY <1>1 DEF LineIs, Lines, Notifies, Replies

LEMMA ReplyAtHead ==
  ASSUME ReaderType, LineIs("reply")
  PROVE  Head(reader.buf) \in Replies
<1>1. Head(reader.buf) \in Lines
  BY DEF ReaderType, LineIs
<1> QED
  BY <1>1 DEF LineIs, Lines, Notifies, Replies

(* Who writes what. *)

LEMMA StWriters ==
  ASSUME [Next]_vars
  PROVE  \/ st' = st
         \/ ReceiveFails \/ HandleNotify \/ HandleResponse \/ PublishFlag \/ UnpublishFlag
         \/ RegisterId \/ SendFails \/ StopAfterSendFailure \/ WaitOver \/ Deadline
BY ZenonT(60) DEF Next, vars, Environment, Reader, Main, Network, Bookkeeping, Exited,
     CheckFresh, PoolNotify, PoolReply, SelectIdle, Receive, IgnoreReply, ReaderSignal, LinesDone, ReaderExit,
     Snapshot, ResetFlag, ProverGivesUp, ProverWins, QueueShare, SkipShare,
     LeaveLoop, CloseQueue, JoinAndClose, PopShare, SubmitterExit, SendShare,
     WaitBegins, Park, BrokenPipe, StatsExit

LEMMA StPreserved == Typed /\ [Next]_vars => StType'
<1> SUFFICES ASSUME Typed, [Next]_vars PROVE StType'
  OBVIOUS
<1>1. StType /\ SubType /\ ReaderType /\ HandOK
  BY DEF Typed, TypeOK
<1>2. CASE st' = st
  BY <1>1, <1>2 DEF StType
<1>3. CASE ReceiveFails
  BY <1>1, <1>3 DEF StType, ReceiveFails
<1>4. CASE HandleNotify
  <2> DEFINE new == Head(reader.buf).job
             g   == IF new # st.job THEN st.gen + 1 ELSE st.gen
             a   == IF new # st.job /\ st.active # "null" THEN st.aborts + 1 ELSE st.aborts
  <2>1. st' = [st EXCEPT !.job = new, !.gen = g, !.aborts = a]
    BY <1>4 DEF HandleNotify
  <2>3. g \in Nat /\ a \in Nat
    BY <1>1 DEF StType
  <2>2. new \in Jobs
    BY <1>1, <1>4, NotifyAtHead DEF HandleNotify
  <2> HIDE DEF new, g, a
  <2> QED
    BY <1>1, <2>1, <2>2, <2>3 DEF StType
<1>5. CASE HandleResponse
  BY <1>1, <1>5, ReplyAtHead DEF StType, HandleResponse, Replies, Verdicts
<1>6. CASE PublishFlag \/ UnpublishFlag
  BY <1>1, <1>6 DEF StType, PublishFlag, UnpublishFlag, Pointers
<1>7. CASE RegisterId
  BY <1>1, <1>7 DEF StType, RegisterId, HandOK, Busy, Share
<1>8. CASE SendFails \/ StopAfterSendFailure
  BY <1>1, <1>8 DEF StType, SendFails, StopAfterSendFailure
<1>9. CASE WaitOver \/ Deadline
  <2> DEFINE taken == [st.resp EXCEPT ![sub.cur.id] = "none"]
  <2>1. taken \in [ShareIds -> Verdicts]
    BY <1>1 DEF StType, Verdicts
  <2>2. st' = [st EXCEPT !.resp = taken, !.ids = @ \ {sub.cur.id}]
    BY <1>9 DEF WaitOver, Deadline, TakeResponse
  <2> HIDE DEF taken
  <2> QED
    BY <1>1, <2>1, <2>2 DEF StType
<1> QED
  BY <1>2, <1>3, <1>4, <1>5, <1>6, <1>7, <1>8, <1>9, StWriters

LEMMA ReaderWriters ==
  ASSUME [Next]_vars
  PROVE  \/ reader' = reader
         \/ SelectIdle \/ (\E n \in 1..Len(net.inbox) : Receive(n)) \/ ReceiveFails
         \/ HandleNotify \/ HandleResponse \/ IgnoreReply \/ ReaderSignal \/ LinesDone
         \/ ReaderExit
BY ZenonT(60) DEF Next, vars, Environment, Reader, Main, Network, Bookkeeping, Exited,
     CheckFresh, PoolNotify, PoolReply, Snapshot, ResetFlag, PublishFlag, ProverGivesUp, ProverWins,
     UnpublishFlag, QueueShare, SkipShare, LeaveLoop, CloseQueue, JoinAndClose, PopShare,
     SubmitterExit, RegisterId, SendShare, SendFails, StopAfterSendFailure, WaitOver, Deadline,
     TakeResponse, WaitBegins, Park, BrokenPipe, StatsExit

LEMMA ReaderPreserved == Typed /\ [Next]_vars => ReaderType'
<1> SUFFICES ASSUME Typed, [Next]_vars PROVE ReaderType'
  OBVIOUS
<1>1. ReaderType /\ StType /\ NetType
  BY DEF Typed, TypeOK
<1>2. CASE reader' = reader
  BY <1>1, <1>2 DEF ReaderType
<1>3. CASE SelectIdle \/ ReceiveFails \/ ReaderExit
  BY <1>1, <1>3 DEF ReaderType, SelectIdle, ReceiveFails, ReaderExit
<1>4. ASSUME NEW n \in 1..Len(net.inbox), Receive(n) PROVE ReaderType'
  <2>1. SubSeq(net.inbox, 1, n) \in Seq(Lines)
    BY <1>1 DEF NetType
  <2> QED
    BY <1>1, <1>4, <2>1 DEF ReaderType, Receive
<1>5. CASE HandleNotify
  <2>1. Tail(reader.buf) \in Seq(Lines)
    BY <1>1, <1>5 DEF HandleNotify, LineIs, ReaderType
  <2>2. \E p \in Pointers : reader' = [pc |-> "signal", buf |-> Tail(reader.buf), abort |-> p]
    BY <1>1, <1>5 DEF HandleNotify, StType, Pointers
  <2> QED
    BY <2>1, <2>2 DEF ReaderType
<1>6. CASE HandleResponse \/ IgnoreReply
  <2>1. Tail(reader.buf) \in Seq(Lines)
    BY <1>1, <1>6 DEF HandleResponse, IgnoreReply, LineIs, ReaderType
  <2> QED
    BY <1>1, <1>6, <2>1 DEF ReaderType, HandleResponse, IgnoreReply
<1>7. CASE ReaderSignal \/ LinesDone
  BY <1>1, <1>7 DEF ReaderType, ReaderSignal, LinesDone, Pointers
<1> QED
  BY <1>2, <1>3, <1>4, <1>5, <1>6, <1>7, ReaderWriters

LEMMA MainWriters ==
  ASSUME [Next]_vars
  PROVE  \/ main' = main
         \/ Snapshot \/ ResetFlag \/ PublishFlag \/ ProverGivesUp \/ ProverWins
         \/ UnpublishFlag \/ CheckFresh \/ QueueShare \/ SkipShare \/ LeaveLoop \/ CloseQueue
         \/ JoinAndClose \/ BrokenPipe
BY ZenonT(60) DEF Next, vars, Environment, Reader, Main, Network, Bookkeeping, Exited,
     PoolNotify, PoolReply, SelectIdle, Receive, ReceiveFails, HandleNotify, HandleResponse,
     IgnoreReply, ReaderSignal, LinesDone, ReaderExit, PopShare, SubmitterExit, RegisterId,
     SendShare, SendFails, StopAfterSendFailure, WaitOver, Deadline, TakeResponse, WaitBegins,
     Park, StatsExit

LEMMA MainPreserved == Typed /\ [Next]_vars => MainType' /\ WinOK'
<1> SUFFICES ASSUME Typed, [Next]_vars PROVE MainType' /\ WinOK'
  OBVIOUS
<1> USE BoundsAssumption
<1>1. MainType /\ WinOK /\ st.job \in Jobs /\ st.gen \in Nat
  BY DEF Typed, TypeOK, StType
<1>2. CASE main' = main
  BY <1>1, <1>2 DEF MainType, WinOK
<1>3. CASE Snapshot \/ ResetFlag
  BY <1>1, <1>3 DEF MainType, WinOK, Snapshot, ResetFlag
<1>4. CASE PublishFlag \/ UnpublishFlag
  BY <1>1, <1>4 DEF MainType, WinOK, PublishFlag, UnpublishFlag
<1>5. CASE ProverGivesUp \/ ProverWins
  BY <1>1, <1>5 DEF MainType, WinOK, ProverGivesUp, ProverWins
<1>9. CASE CheckFresh
  BY <1>1, <1>9 DEF MainType, WinOK, CheckFresh
<1>6. CASE QueueShare
  <2>1. main.next + 1 \in 1..(MaxShares + 1)
    BY <1>1, <1>6 DEF MainType, WinOK, QueueShare
  <2>2. main' = [main EXCEPT !.pc = "top", !.next = main.next + 1]
    BY <1>6 DEF QueueShare
  <2> QED
    BY <1>1, <2>1, <2>2 DEF MainType, WinOK
<1>7. CASE SkipShare \/ LeaveLoop \/ CloseQueue
  BY <1>1, <1>7 DEF MainType, WinOK, SkipShare, LeaveLoop, CloseQueue
<1>8. CASE JoinAndClose \/ BrokenPipe
  BY <1>1, <1>8 DEF MainType, WinOK, JoinAndClose, BrokenPipe
<1> QED
  BY <1>2, <1>3, <1>4, <1>5, <1>6, <1>7, <1>8, <1>9, MainWriters

LEMMA SubWriters ==
  ASSUME [Next]_vars
  PROVE  \/ sub' = sub
         \/ ReceiveFails \/ ReaderSignal \/ ReaderExit \/ LeaveLoop
         \/ PopShare \/ SubmitterExit \/ RegisterId \/ SendShare \/ SendFails
         \/ StopAfterSendFailure \/ WaitOver \/ Deadline \/ WaitBegins \/ Park
BY ZenonT(60) DEF Next, vars, Environment, Reader, Main, Network, Bookkeeping, Exited,
     CheckFresh, PoolNotify, PoolReply, SelectIdle, Receive, HandleNotify, HandleResponse,
     IgnoreReply, LinesDone, Snapshot, ResetFlag, PublishFlag, ProverGivesUp, ProverWins,
     UnpublishFlag, QueueShare, SkipShare, CloseQueue, JoinAndClose, BrokenPipe, StatsExit

LEMMA SubPreserved == Typed /\ [Next]_vars => SubType' /\ HandOK'
<1> SUFFICES ASSUME Typed, [Next]_vars PROVE SubType' /\ HandOK'
  OBVIOUS
<1>1. SubType /\ HandOK /\ queue.q \in Seq(Share)
  BY DEF Typed, TypeOK, OtherTypes
<1>2. CASE sub' = sub
  BY <1>1, <1>2 DEF SubType, HandOK
<1>3. CASE ReceiveFails \/ ReaderSignal \/ ReaderExit \/ LeaveLoop
  <2>1. WakeSubmitter
    BY <1>3 DEF ReceiveFails, ReaderSignal, ReaderExit, LeaveLoop
  <2> QED
    BY <1>1, <2>1 DEF WakeSubmitter, SubType, HandOK, Busy
<1>4. CASE PopShare
  <2>1. Head(queue.q) \in Share
    BY <1>1, <1>4 DEF PopShare
  <2> QED
    BY <1>1, <1>4, <2>1 DEF PopShare, Popped, SubType, HandOK, Busy
<1>5. CASE SubmitterExit \/ RegisterId \/ SendShare \/ SendFails
  BY <1>1, <1>5 DEF SubmitterExit, RegisterId, SendShare, SendFails, SubType, HandOK, Busy
<1>6. CASE StopAfterSendFailure \/ WaitOver \/ Deadline
  BY <1>1, <1>6 DEF StopAfterSendFailure, WaitOver, Deadline, TakeResponse, SubType, HandOK, Busy
<1>7. CASE WaitBegins \/ Park
  BY <1>1, <1>7 DEF WaitBegins, Park, SubType, HandOK, Busy
<1> QED
  BY <1>2, <1>3, <1>4, <1>5, <1>6, <1>7, SubWriters

LEMMA NetWriters ==
  ASSUME [Next]_vars
  PROVE  \/ net' = net
         \/ (\E j \in Jobs : PoolNotify(j))
         \/ (\E i \in ShareIds, v \in Replied : PoolReply(i, v))
         \/ (\E n \in 1..Len(net.inbox) : Receive(n))
         \/ JoinAndClose \/ SendShare
BY ZenonT(60) DEF Next, vars, Environment, Reader, Main, Network, Bookkeeping, Exited,
     SelectIdle, ReceiveFails, HandleNotify, HandleResponse, IgnoreReply, ReaderSignal,
     LinesDone, ReaderExit, Snapshot, ResetFlag, PublishFlag, ProverGivesUp, ProverWins,
     UnpublishFlag, CheckFresh, QueueShare, SkipShare, LeaveLoop, CloseQueue, PopShare,
     SubmitterExit, RegisterId, SendFails, StopAfterSendFailure, WaitOver, Deadline,
     TakeResponse, WaitBegins, Park, BrokenPipe, StatsExit

LEMMA NetPreserved == Typed /\ [Next]_vars => NetType'
<1> SUFFICES ASSUME Typed, [Next]_vars PROVE NetType'
  OBVIOUS
<1> USE BoundsAssumption
<1>1. NetType /\ HandOK
  BY DEF Typed, TypeOK
<1>2. CASE net' = net
  BY <1>1, <1>2 DEF NetType
<1>3. ASSUME NEW j \in Jobs, PoolNotify(j) PROVE NetType'
  <2>1. NotifyLine(j) \in Lines
    BY DEF NotifyLine, Lines, Notifies
  <2>2. Append(net.inbox, NotifyLine(j)) \in Seq(Lines) /\ net.notified + 1 \in 0..MaxNotify
    BY <1>1, <1>3, <2>1 DEF NetType, PoolNotify
  <2> QED
    BY <1>1, <1>3, <2>2 DEF NetType, PoolNotify
<1>4. ASSUME NEW i \in ShareIds, NEW v \in Replied, PoolReply(i, v) PROVE NetType'
  <2>1. ReplyLine(i, v) \in Lines
    BY DEF ReplyLine, Lines, Replies
  <2>2. Append(net.inbox, ReplyLine(i, v)) \in Seq(Lines)
    BY <1>1, <2>1 DEF NetType
  <2>3. net.replied \cup {<<i, v>>} \in SUBSET (ShareIds \X Replied)
    BY <1>1 DEF NetType
  <2> QED
    BY <1>1, <1>4, <2>2, <2>3 DEF NetType, PoolReply
<1>5. ASSUME NEW n \in 1..Len(net.inbox), Receive(n) PROVE NetType'
  <2>1. SubSeq(net.inbox, n + 1, Len(net.inbox)) \in Seq(Lines)
    BY <1>1 DEF NetType
  <2> QED
    BY <1>1, <1>5, <2>1 DEF NetType, Receive
<1>6. CASE JoinAndClose
  BY <1>1, <1>6 DEF NetType, JoinAndClose
<1>7. CASE SendShare
  <2>1. Append(net.wire, sub.cur) \in Seq(Share)
    BY <1>1, <1>7 DEF NetType, SendShare, HandOK, Busy
  <2> QED
    BY <1>1, <1>7, <2>1 DEF NetType, SendShare
<1> QED
  BY <1>2, <1>3, <1>4, <1>5, <1>6, <1>7, NetWriters

LEMMA OtherWriters ==
  ASSUME [Next]_vars
  PROVE  /\ queue' = queue \/ QueueShare \/ CloseQueue \/ PopShare
         /\ count' = count \/ StopAfterSendFailure \/ WaitOver \/ Deadline
         /\ hist' = hist \/ ProverWins \/ QueueShare \/ SkipShare
         /\ flag' = flag \/ ResetFlag \/ ReaderSignal
         /\ stats' = stats \/ StatsExit
BY ZenonT(60) DEF Next, vars, Environment, Reader, Main, Network, Bookkeeping, Exited,
     CheckFresh, PoolNotify, PoolReply, SelectIdle, Receive, ReceiveFails, HandleNotify, HandleResponse,
     IgnoreReply, LinesDone, ReaderExit, Snapshot, PublishFlag, ProverGivesUp, ProverWins,
     UnpublishFlag, QueueShare, SkipShare, LeaveLoop, CloseQueue, JoinAndClose, PopShare,
     SubmitterExit, RegisterId, SendShare, SendFails, StopAfterSendFailure, WaitOver, Deadline,
     TakeResponse, WaitBegins, Park, BrokenPipe, ReaderSignal, ResetFlag, StatsExit

(* The CASE of Counted covers every verdict. *)
LEMMA ResponseIsVerdict ==
  ASSUME Typed, WaitOver \/ Deadline
  PROVE  Response \in Verdicts
<1>1. sub.cur.id \in ShareIds
  BY DEF Typed, HandOK, Busy, WaitOver, Deadline, Share
<1>2. st.resp \in [ShareIds -> Verdicts]
  BY DEF Typed, TypeOK, StType
<1> QED
  BY <1>1, <1>2 DEF Response

LEMMA OthersPreserved == Typed /\ [Next]_vars => OtherTypes'
<1> SUFFICES ASSUME Typed, [Next]_vars PROVE OtherTypes'
  OBVIOUS
<1>1. OtherTypes /\ MainType /\ WinOK /\ st.gen \in Nat
  BY DEF Typed, TypeOK, StType
<1>2. queue' \in [q : Seq(Share), closed : BOOLEAN]
  <2>1. CASE QueueShare
    <3>1. NewShare \in Share
      BY <1>1, <2>1, BoundsAssumption DEF QueueShare, NewShare, Share, ShareIds, MainType, WinOK
    <3>2. Append(queue.q, NewShare) \in Seq(Share)
      BY <1>1, <3>1 DEF OtherTypes
    <3> QED
      BY <1>1, <2>1, <3>2 DEF OtherTypes, QueueShare
  <2>2. CASE PopShare
    <3>1. Tail(queue.q) \in Seq(Share)
      BY <1>1, <2>2 DEF OtherTypes, PopShare
    <3> QED
      BY <1>1, <2>2, <3>1 DEF OtherTypes, PopShare, Popped
  <2> QED
    BY <1>1, <2>1, <2>2, OtherWriters DEF OtherTypes, CloseQueue
<1>3. count' \in [accepted : Nat, rejected : Nat, missed : Nat]
  <2>1. CASE WaitOver \/ Deadline
    <3>1. Response \in Verdicts /\ count' = Counted
      BY <2>1, ResponseIsVerdict DEF WaitOver, Deadline, TakeResponse
    <3> QED
      BY SMTT(30), <1>1, <3>1 DEF OtherTypes, Counted, Verdicts, Replied
  <2> QED
    BY <1>1, <2>1, OtherWriters DEF OtherTypes, StopAfterSendFailure
<1>4. hist' \in [wonGen : Nat, aborted : Nat]
  BY SMTT(30), <1>1, OtherWriters DEF OtherTypes, ProverWins, QueueShare, SkipShare, LogReason
<1>5. flag' \in BOOLEAN /\ stats' \in {"run", "done"}
  BY <1>1, OtherWriters, Zenon DEF OtherTypes, ResetFlag, ReaderSignal, StatsExit
<1> QED
  BY <1>2, <1>3, <1>4, <1>5 DEF OtherTypes

LEMMA StepTyped == Typed /\ [Next]_vars => Typed'
  BY StPreserved, ReaderPreserved, MainPreserved, SubPreserved, NetPreserved, OthersPreserved
  DEF Typed, TypeOK

(* Every variable keeps its type. *)
THEOREM TypeCorrect == Spec => []TypeOK
<1>1. Init => Typed
  BY InitTyped
<1>2. Typed /\ [Next]_vars => Typed'
  BY StepTyped
<1>3. Typed => TypeOK
  BY DEF Typed
<1> QED
  BY <1>1, <1>2, <1>3, PTL DEF Spec

-----------------------------------------------------------------------------
(* Conservation of shares. *)

(* Who numbers, moves and drops shares. *)
LEMMA ShareMovers ==
  ASSUME Typed, [Next]_vars
  PROVE  /\ main'.next = main.next \/ QueueShare
         /\ sub'.cur = sub.cur \/ PopShare \/ StopAfterSendFailure \/ WaitOver \/ Deadline
         /\ queue'.q = queue.q \/ QueueShare \/ PopShare
         /\ net'.wire = net.wire \/ SendShare
<1>1. main'.next = main.next \/ QueueShare
  BY MainWriters DEF Typed, TypeOK, MainType, Snapshot, ResetFlag, PublishFlag, ProverGivesUp,
     ProverWins, UnpublishFlag, CheckFresh, SkipShare, LeaveLoop, CloseQueue, JoinAndClose,
     BrokenPipe
<1>2. sub'.cur = sub.cur \/ PopShare \/ StopAfterSendFailure \/ WaitOver \/ Deadline
  BY SubWriters DEF Typed, TypeOK, SubType, ReceiveFails, ReaderSignal, ReaderExit, LeaveLoop,
     WakeSubmitter, SubmitterExit, RegisterId, SendShare, SendFails, WaitBegins, Park
<1>3. queue'.q = queue.q \/ QueueShare \/ PopShare
  BY OtherWriters DEF Typed, TypeOK, OtherTypes, CloseQueue
<1>4. net'.wire = net.wire \/ SendShare
  BY NetWriters DEF Typed, TypeOK, NetType, PoolNotify, PoolReply, Receive, JoinAndClose
<1> QED
  BY <1>1, <1>2, <1>3, <1>4

LEMMA AccountingInductive ==
  /\ Init => ShareAccounting
  /\ Typed /\ ShareAccounting /\ [Next]_vars => ShareAccounting'
<1>1. Init => ShareAccounting
  <2> SUFFICES ASSUME Init PROVE ShareAccounting
    OBVIOUS
  <2>1. main.next = 1 /\ queue.q = <<>> /\ sub.cur = NoShare
    BY DEF Init
  <2>2. count.accepted = 0 /\ count.rejected = 0 /\ count.missed = 0
    BY DEF Init
  <2> QED
    BY <2>1, <2>2 DEF ShareAccounting, InHand
<1>2. ASSUME Typed, ShareAccounting, [Next]_vars PROVE ShareAccounting'
  <2>1. main.next \in Nat /\ queue.q \in Seq(Share) /\ HandOK /\ WinOK
    BY <1>2, BoundsAssumption DEF Typed, TypeOK, MainType, OtherTypes
  <2>2. count \in [accepted : Nat, rejected : Nat, missed : Nat]
    BY <1>2 DEF Typed, TypeOK, OtherTypes
  <2>3. CASE QueueShare
    <3>1. main'.next = main.next + 1
      BY <1>2, <2>3 DEF QueueShare, Typed, TypeOK, MainType
    <3>2. Len(queue'.q) = Len(queue.q) + 1
      BY <1>2, <2>3 DEF QueueShare, Typed, TypeOK, OtherTypes
    <3>3. sub' = sub /\ count' = count
      BY <2>3 DEF QueueShare
    <3>4. PICK hand \in Nat : InHand = hand /\ InHand' = hand
      BY <3>3 DEF InHand
    <3>5. PICK n, a, r, m, l \in Nat :
            /\ n = main.next /\ l = Len(queue.q)
            /\ a = count.accepted /\ r = count.rejected /\ m = count.missed
      BY <2>1, <2>2
    <3>6. n - 1 = a + r + m + l + hand
      BY <1>2, <3>4, <3>5 DEF ShareAccounting
    <3>7. (n + 1) - 1 = a + r + m + (l + 1) + hand
      BY <3>6
    <3> QED
      BY <3>1, <3>2, <3>3, <3>4, <3>5, <3>7 DEF ShareAccounting
  <2>4. CASE PopShare
    <3>1. Head(queue.q) \in Share /\ Len(Tail(queue.q)) = Len(queue.q) - 1
      BY <2>1, <2>4 DEF PopShare
    <3>2. sub.cur = NoShare /\ sub'.cur = Head(queue.q) /\ queue'.q = Tail(queue.q)
      BY <1>2, <2>1, <2>4 DEF PopShare, Popped, HandOK, Busy, Typed, TypeOK, SubType, OtherTypes
    <3>3. main' = main /\ count' = count
      BY <2>4 DEF PopShare
    <3>4. InHand = 0 /\ InHand' = 1
      BY <3>1, <3>2, ShareIsNotNoShare DEF InHand
    <3> QED
      BY <1>2, <2>1, <2>2, <3>1, <3>2, <3>3, <3>4 DEF ShareAccounting
  <2>5. CASE StopAfterSendFailure \/ WaitOver \/ Deadline
    <3>1. sub.cur \in Share /\ sub'.cur = NoShare
      BY <1>2, <2>1, <2>5 DEF StopAfterSendFailure, WaitOver, Deadline, TakeResponse, HandOK, Busy,
         Typed, TypeOK, SubType
    <3>2. main' = main /\ queue' = queue
      BY <2>5 DEF StopAfterSendFailure, WaitOver, Deadline, TakeResponse
    <3>3. InHand = 1 /\ InHand' = 0
      BY <3>1, ShareIsNotNoShare DEF InHand
    <3>4. count'.accepted + count'.rejected + count'.missed
            = count.accepted + count.rejected + count.missed + 1
      <4>1. CASE StopAfterSendFailure
        BY <2>2, <4>1 DEF StopAfterSendFailure
      <4>2. CASE WaitOver \/ Deadline
        <5>1. Response \in Verdicts /\ count' = Counted
          BY <1>2, <4>2, ResponseIsVerdict DEF WaitOver, Deadline, TakeResponse
        <5> QED
          BY <2>2, <5>1 DEF Counted, Verdicts, Replied
      <4> QED
        BY <2>5, <4>1, <4>2
    <3>5. count' \in [accepted : Nat, rejected : Nat, missed : Nat]
      BY <1>2, StepTyped DEF Typed, TypeOK, OtherTypes
    <3> QED
      BY SMTT(30), <1>2, <2>1, <2>2, <3>2, <3>3, <3>4, <3>5 DEF ShareAccounting
  <2>6. CASE ~(QueueShare \/ PopShare \/ StopAfterSendFailure \/ WaitOver \/ Deadline)
    <3>1. main'.next = main.next /\ sub'.cur = sub.cur /\ queue'.q = queue.q /\ count' = count
      BY <1>2, <2>6, ShareMovers, OtherWriters
    <3> QED
      BY <1>2, <3>1 DEF ShareAccounting, InHand
  <2> QED
    BY <2>3, <2>4, <2>5, <2>6
<1> QED
  BY <1>1, <1>2

(* Every share is in exactly one place. *)
THEOREM SharesConserved == Spec => []ShareAccounting
<1>1. Init => Typed /\ ShareAccounting
  BY InitTyped, AccountingInductive
<1>2. Typed /\ ShareAccounting /\ [Next]_vars => (Typed /\ ShareAccounting)'
  BY StepTyped, AccountingInductive
<1> QED
  BY <1>1, <1>2, PTL DEF Spec

-----------------------------------------------------------------------------
(* Generations: what is queued was fresh. *)

LEMMA GenInductive ==
  /\ Init => GenOK
  /\ Typed /\ GenOK /\ [Next]_vars => GenOK'
<1>1. Init => GenOK
  BY DEF Init, GenOK
<1>2. ASSUME Typed, GenOK, [Next]_vars PROVE GenOK'
  <2>1. st.gen \in Nat /\ main.gen \in Nat /\ hist.wonGen \in Nat
    BY <1>2 DEF Typed, TypeOK, StType, MainType, OtherTypes
  <2>2. st'.gen \in Nat /\ st.gen <= st'.gen
    <3>1. CASE HandleNotify
      BY <1>2, <2>1, <3>1 DEF HandleNotify, Typed, TypeOK, StType
    <3>2. CASE ReceiveFails \/ StopAfterSendFailure
      BY <1>2, <2>1, <3>2 DEF Typed, TypeOK, StType, ReceiveFails, StopAfterSendFailure
    <3>3. CASE HandleResponse \/ RegisterId \/ SendFails
      BY <1>2, <2>1, <3>3 DEF Typed, TypeOK, StType, HandleResponse, RegisterId, SendFails
    <3>4. CASE PublishFlag \/ UnpublishFlag
      BY <1>2, <2>1, <3>4 DEF Typed, TypeOK, StType, PublishFlag, UnpublishFlag
    <3>5. CASE WaitOver \/ Deadline
      <4>1. st'.gen = st.gen
        BY <1>2, <3>5 DEF Typed, TypeOK, StType, WaitOver, Deadline, TakeResponse
      <4> QED
        BY <2>1, <4>1
    <3> QED
      BY <1>2, <2>1, <3>1, <3>2, <3>3, <3>4, <3>5, StWriters
  <2>3. MainType
    BY <1>2 DEF Typed, TypeOK
  <2>4. hist'.wonGen = hist.wonGen \/ ProverWins
    BY <1>2, OtherWriters DEF Typed, TypeOK, OtherTypes, QueueShare, SkipShare, LogReason
  <2>5. CASE ProverWins
    BY <1>2, <2>1, <2>2, <2>3, <2>5 DEF GenOK, ProverWins, Typed, TypeOK, OtherTypes
  <2>6. CASE ~ProverWins /\ main' = main
    BY <1>2, <2>1, <2>2, <2>4, <2>6 DEF GenOK
  <2>7. CASE Snapshot
    BY <1>2, <2>1, <2>2, <2>3, <2>7 DEF GenOK, MainType, Snapshot
  <2>8. CASE ResetFlag \/ PublishFlag
    BY <1>2, <2>1, <2>2, <2>3, <2>8 DEF GenOK, MainType, ResetFlag, PublishFlag
  <2>12. CASE ProverGivesUp
    BY <1>2, <2>1, <2>2, <2>3, <2>12 DEF GenOK, MainType, ProverGivesUp
  <2>9. CASE UnpublishFlag
    BY <1>2, <2>1, <2>2, <2>3, <2>9 DEF GenOK, MainType, UnpublishFlag
  <2>13. CASE CheckFresh
    BY <1>2, <2>1, <2>2, <2>3, <2>13 DEF GenOK, MainType, CheckFresh, IsFresh
  <2>10. CASE QueueShare \/ SkipShare
    BY <1>2, <2>1, <2>2, <2>3, <2>10 DEF GenOK, MainType, QueueShare, SkipShare
  <2>11. CASE LeaveLoop \/ CloseQueue \/ JoinAndClose \/ BrokenPipe
    BY <1>2, <2>1, <2>2, <2>3, <2>11 DEF GenOK, MainType, LeaveLoop, CloseQueue, JoinAndClose,
       BrokenPipe
  <2> QED
    BY <1>2, <2>5, <2>6, <2>7, <2>8, <2>9, <2>10, <2>11, <2>12, <2>13, MainWriters
<1> QED
  BY <1>1, <1>2

(* No share is queued whose job had changed when the prover last looked. *)
THEOREM FreshWhenQueued == Spec => QueuedFresh
<1>1. Init => Typed /\ GenOK
  BY InitTyped, GenInductive
<1>2. Typed /\ GenOK /\ [Next]_vars => (Typed /\ GenOK)'
  BY StepTyped, GenInductive
<1>3. Typed /\ GenOK /\ [Next]_vars =>
        [Len(queue'.q) > Len(queue.q) =>
           hist.wonGen = main.gen /\ queue'.q[Len(queue'.q)].job = main.job]_vars
  <2> SUFFICES ASSUME Typed, GenOK, [Next]_vars, Len(queue'.q) > Len(queue.q)
               PROVE  hist.wonGen = main.gen /\ queue'.q[Len(queue'.q)].job = main.job
    OBVIOUS
  <2>1. queue.q \in Seq(Share) /\ queue \in [q : Seq(Share), closed : BOOLEAN]
    BY DEF Typed, TypeOK, OtherTypes
  <2>2. CASE QueueShare
    <3>1. hist.wonGen = main.gen
      BY <2>2 DEF QueueShare, GenOK, Typed, TypeOK, StType, MainType, OtherTypes
    <3>2. queue'.q = Append(queue.q, NewShare)
      BY <2>1, <2>2 DEF QueueShare
    <3>3. NewShare.job = main.job
      BY DEF NewShare
    <3> QED
      BY <2>1, <3>1, <3>2, <3>3
  <2>3. CASE PopShare
    BY <2>1, <2>3 DEF PopShare, Popped
  <2> QED
    BY <2>1, <2>2, <2>3, ShareMovers
<1> QED
  BY <1>1, <1>2, <1>3, PTL DEF Spec, QueuedFresh

-----------------------------------------------------------------------------
(* Aborts. *)

Armed == {"publish", "mining", "unpublish", "check", "log"}

(* What AbortOK adds up: the pointer in the reader's hand, the set flag. *)
PointerHeld == IF reader.abort # "null" THEN 1 ELSE 0
FlagHeld    == IF flag /\ main.pc \in Armed THEN 1 ELSE 0

LEMMA AbortOKIs == AbortOK <=> hist.aborted + PointerHeld + FlagHeld <= st.aborts
  BY DEF AbortOK, PointerHeld, FlagHeld, Armed

(* Who decides on aborts, holds the pointer, and logs an abort. *)
LEMMA AbortMovers ==
  ASSUME Typed, [Next]_vars
  PROVE  /\ st'.aborts = st.aborts \/ HandleNotify
         /\ reader'.abort = reader.abort \/ HandleNotify \/ ReaderSignal
         /\ hist'.aborted = hist.aborted \/ QueueShare \/ SkipShare
<1>1. st'.aborts = st.aborts \/ HandleNotify
  <2>1. CASE ReceiveFails \/ StopAfterSendFailure
    BY <2>1 DEF Typed, TypeOK, StType, ReceiveFails, StopAfterSendFailure
  <2>2. CASE HandleResponse \/ RegisterId \/ SendFails
    BY <2>2 DEF Typed, TypeOK, StType, HandleResponse, RegisterId, SendFails
  <2>3. CASE PublishFlag \/ UnpublishFlag
    BY <2>3 DEF Typed, TypeOK, StType, PublishFlag, UnpublishFlag
  <2>4. CASE WaitOver \/ Deadline
    BY <2>4 DEF Typed, TypeOK, StType, WaitOver, Deadline, TakeResponse
  <2> QED
    BY <2>1, <2>2, <2>3, <2>4, StWriters
<1>2. reader'.abort = reader.abort \/ HandleNotify \/ ReaderSignal
  BY ReaderWriters DEF Typed, TypeOK, ReaderType, SelectIdle, Receive, ReceiveFails,
     HandleResponse, IgnoreReply, LinesDone, ReaderExit
<1>3. hist'.aborted = hist.aborted \/ QueueShare \/ SkipShare
  BY OtherWriters DEF Typed, TypeOK, OtherTypes, ProverWins
<1> QED
  BY <1>1, <1>2, <1>3

LEMMA AbortInductive ==
  /\ Init => AbortOK
  /\ Typed /\ AbortOK /\ [Next]_vars => AbortOK'
<1>1. Init => AbortOK
  BY DEF Init, AbortOK
<1>2. ASSUME Typed, AbortOK, [Next]_vars PROVE AbortOK'
  <2>1. /\ st.aborts \in Nat /\ hist.aborted \in Nat
        /\ PointerHeld \in {0, 1} /\ FlagHeld \in {0, 1} /\ FlagHeld' \in {0, 1}
        /\ PointerHeld' \in {0, 1}
    BY <1>2 DEF Typed, TypeOK, StType, OtherTypes, PointerHeld, FlagHeld
  <2>2. hist.aborted + PointerHeld + FlagHeld <= st.aborts
    BY <1>2, AbortOKIs
  <2> SUFFICES hist'.aborted + PointerHeld' + FlagHeld' <= st'.aborts
    BY DEF AbortOK, PointerHeld, FlagHeld, Armed
  <2>3. CASE HandleNotify
    <3>1. hist' = hist /\ FlagHeld' = FlagHeld
      BY <2>3 DEF HandleNotify, FlagHeld
    <3>2. CASE Head(reader.buf).job # st.job /\ st.active # "null"
      <4>1. st'.aborts = st.aborts + 1
        BY <1>2, <2>3, <3>2 DEF HandleNotify, Typed, TypeOK, StType
      <4> QED
        BY <2>1, <2>2, <3>1, <4>1
    <3>3. CASE ~(Head(reader.buf).job # st.job /\ st.active # "null")
      <4>1. st'.aborts = st.aborts
        BY <1>2, <2>3, <3>3 DEF HandleNotify, Typed, TypeOK, StType
      <4>2. PointerHeld' = 0
        BY <2>3, <3>3 DEF HandleNotify, PointerHeld
      <4> QED
        BY <2>1, <2>2, <3>1, <4>1, <4>2
    <3> QED
      BY <3>2, <3>3
  <2>4. CASE ReaderSignal
    <3>1. st' = st /\ hist' = hist /\ main' = main
      BY <2>4 DEF ReaderSignal
    <3>2. PointerHeld' = 0
      BY <1>2, <2>4 DEF ReaderSignal, PointerHeld, Typed, TypeOK, ReaderType
    <3>3. PointerHeld = 0 => FlagHeld' = FlagHeld
      BY <2>4, <3>1, Zenon DEF ReaderSignal, PointerHeld, FlagHeld
    <3> QED
      BY <2>1, <2>2, <3>1, <3>2, <3>3
  <2>5. CASE QueueShare \/ SkipShare
    <3>1. st' = st /\ PointerHeld' = PointerHeld /\ main.pc \in Armed
      BY <2>5 DEF QueueShare, SkipShare, PointerHeld, Armed
    <3>2. FlagHeld' = 0
      BY <1>2, <2>5 DEF QueueShare, SkipShare, FlagHeld, Armed, Typed, TypeOK, MainType
    <3>3. hist'.aborted = hist.aborted + FlagHeld
      BY <1>2, <2>5, <3>1 DEF QueueShare, SkipShare, LogReason, FlagHeld, Typed, TypeOK, OtherTypes
    <3> QED
      BY <2>1, <2>2, <3>1, <3>2, <3>3
  <2>6. CASE ~(HandleNotify \/ ReaderSignal \/ QueueShare \/ SkipShare)
    <3>1. st'.aborts = st.aborts /\ PointerHeld' = PointerHeld /\ hist'.aborted = hist.aborted
      BY <1>2, <2>6, AbortMovers DEF PointerHeld
    <3>2. FlagHeld' = 1 => FlagHeld = 1
      <4>1. flag' => flag
        BY <1>2, <2>6, OtherWriters DEF ResetFlag
      <4>2. main'.pc \in Armed => main.pc \in Armed \/ ResetFlag
        BY <1>2, <2>6, MainWriters DEF Armed, Typed, TypeOK, MainType, Snapshot, PublishFlag,
           ProverGivesUp, ProverWins, UnpublishFlag, CheckFresh, LeaveLoop, CloseQueue,
           JoinAndClose, BrokenPipe
      <4>3. ResetFlag => ~flag'
        BY DEF ResetFlag
      <4> QED
        BY <4>1, <4>2, <4>3 DEF FlagHeld
    <3> QED
      BY <2>1, <2>2, <3>1, <3>2
  <2> QED
    BY <2>3, <2>4, <2>5, <2>6
<1> QED
  BY <1>1, <1>2

(* No job change costs more than one attempt. *)
THEOREM AbortsAccounted == Spec => []AbortAccounting
<1>1. Init => Typed /\ AbortOK
  BY InitTyped, AbortInductive
<1>2. Typed /\ AbortOK /\ [Next]_vars => (Typed /\ AbortOK)'
  BY StepTyped, AbortInductive
<1>3. Typed /\ AbortOK => AbortAccounting
  BY DEF Typed, TypeOK, StType, OtherTypes, AbortOK, AbortAccounting
<1> QED
  BY <1>1, <1>2, <1>3, PTL DEF Spec

-----------------------------------------------------------------------------
(* The end of the lane. *)

LEMMA EndInductive ==
  /\ Init => EndOK
  /\ Typed /\ EndOK /\ [Next]_vars => EndOK'
<1>1. Init => EndOK
  BY DEF Init, EndOK
<1>2. ASSUME Typed, EndOK, [Next]_vars PROVE EndOK'
  <2>1. reader'.abort # "null" => reader'.pc = "signal"
    <3>1. CASE HandleNotify
      BY <3>1 DEF HandleNotify
    <3>2. CASE ReaderSignal
      BY <1>2, <3>2 DEF ReaderSignal, Typed, TypeOK, ReaderType
    <3>3. CASE ~HandleNotify /\ ~ReaderSignal
      <4>1. reader'.abort = reader.abort
        BY <1>2, <3>3, AbortMovers
      <4>2. reader.pc = "signal" => reader' = reader
        BY <1>2, <3>3, ReaderWriters DEF SelectIdle, Receive, ReceiveFails, HandleResponse,
           IgnoreReply, LineIs, LinesDone, ReaderExit
      <4> QED
        BY <1>2, <4>1, <4>2 DEF EndOK
    <3> QED
      BY <3>1, <3>2, <3>3
  <2>2. reader.pc = "done" => reader'.pc = "done"
    BY <1>2, ReaderWriters DEF SelectIdle, Receive,
       ReceiveFails, HandleNotify, HandleResponse, IgnoreReply, ReaderSignal, LinesDone,
       ReaderExit, LineIs
  <2>3. sub.pc = "done" => sub'.pc = "done"
    BY <1>2, SubWriters DEF Typed, TypeOK, SubType, ReceiveFails, ReaderSignal, ReaderExit,
       LeaveLoop, WakeSubmitter, PopShare, SubmitterExit, RegisterId, SendShare, SendFails,
       StopAfterSendFailure, WaitOver, Deadline, WaitBegins, Park
  <2>4. main'.pc = "exited" => main.pc = "exited" \/ JoinAndClose
    BY <1>2, MainWriters DEF Typed, TypeOK, MainType, Snapshot, ResetFlag, PublishFlag,
       ProverGivesUp, ProverWins, UnpublishFlag, CheckFresh, QueueShare, SkipShare, LeaveLoop,
       CloseQueue, BrokenPipe
  <2>5. main.pc = "exited" /\ sub.pc = "done" => main' = main
    BY <1>2, MainWriters DEF Snapshot, ResetFlag, PublishFlag, ProverGivesUp, ProverWins,
       UnpublishFlag, CheckFresh, QueueShare, SkipShare, LeaveLoop, CloseQueue, JoinAndClose,
       BrokenPipe
  <2>6. JoinAndClose => main'.pc = "exited" /\ reader.pc = "done" /\ sub.pc = "done"
    BY <1>2 DEF JoinAndClose, ThreadsDone, Typed, TypeOK, MainType
  <2>7. net'.open = net.open \/ JoinAndClose
    BY <1>2, NetWriters DEF Typed, TypeOK, NetType, PoolNotify, PoolReply, Receive, SendShare
  <2> QED
    BY <1>2, <2>1, <2>2, <2>3, <2>4, <2>5, <2>6, <2>7 DEF EndOK
<1> QED
  BY <1>1, <1>2

(* Nobody uses the connection or the flag after the lane has returned. *)
THEOREM ReturnIsLast == Spec => []NoUseAfterReturn
<1>1. Init => Typed /\ EndOK
  BY InitTyped, EndInductive
<1>2. Typed /\ EndOK /\ [Next]_vars => (Typed /\ EndOK)'
  BY StepTyped, EndInductive
<1>3. EndOK => NoUseAfterReturn
  BY DEF EndOK, NoUseAfterReturn
<1> QED
  BY <1>1, <1>2, <1>3, PTL DEF Spec

-----------------------------------------------------------------------------
(* The order of the shares. *)

LEMMA OrderInductive ==
  /\ Init => OrderOK
  /\ Typed /\ OrderOK /\ [Next]_vars => OrderOK'
<1>1. Init => OrderOK
  <2> SUFFICES ASSUME Init PROVE OrderOK
    OBVIOUS
  <2>1. net.wire = <<>> /\ queue.q = <<>> /\ sub.cur = NoShare
    BY DEF Init
  <2> QED
    BY <2>1 DEF OrderOK
<1>2. ASSUME Typed, OrderOK, [Next]_vars PROVE OrderOK'
  <2>1. /\ net.wire \in Seq(Share) /\ queue.q \in Seq(Share) /\ main.next \in Nat
        /\ sub \in [pc : {"idle", "register", "send", "sendfail", "await", "parking",
                         "parked", "done"}, cur : Share \cup {NoShare}]
        /\ sub.pc \in Busy => sub.cur \in Share
        /\ sub.pc \notin Busy => sub.cur = NoShare
    BY SMTT(30), <1>2, BoundsAssumption DEF Typed, TypeOK, NetType, OtherTypes, MainType, SubType, HandOK
  <2>2. \A s \in Share : s.id \in Nat /\ s # NoShare
    BY BoundsAssumption, ShareIsNotNoShare DEF Share, ShareIds
  <2>3. CASE QueueShare
    <3>1. queue'.q = Append(queue.q, NewShare) /\ NewShare.id = main.next
      BY <1>2, <2>3 DEF QueueShare, NewShare, Typed, TypeOK, OtherTypes
    <3>2. main'.next = main.next + 1
      BY <1>2, <2>3 DEF QueueShare, Typed, TypeOK, MainType
    <3>3. sub' = sub /\ net' = net
      BY <2>3 DEF QueueShare
    <3>4. \A k \in DOMAIN queue'.q :
            \/ k \in DOMAIN queue.q /\ queue'.q[k] = queue.q[k] /\ k < Len(queue.q) + 1
            \/ k = Len(queue.q) + 1 /\ queue'.q[k] = NewShare
      BY <2>1, <3>1
    <3>5. \A k \in DOMAIN queue.q : k \in Nat /\ queue.q[k].id < main.next
      BY <1>2, <2>1 DEF OrderOK
    <3>6. \A i \in DOMAIN net.wire : net.wire[i].id \in Nat /\ net.wire[i].id < main.next
      BY <1>2, <2>1, <2>2 DEF OrderOK
    <3>7. \A i, j \in DOMAIN queue'.q : i < j => queue'.q[i].id < queue'.q[j].id
      BY <1>2, <2>1, <3>1, <3>4, <3>5 DEF OrderOK
    <3>8. \A j \in DOMAIN queue'.q : queue'.q[j].id < main'.next
      <4>1. \A k \in DOMAIN queue.q : queue.q[k].id \in Nat
        BY <2>1, <2>2
      <4> QED
        BY <2>1, <3>1, <3>2, <3>4, <3>5, <4>1
    <3>9. \A i \in DOMAIN net.wire, j \in DOMAIN queue'.q : net.wire[i].id < queue'.q[j].id
      BY <1>2, <3>1, <3>4, <3>6 DEF OrderOK
    <3>10. \A i \in DOMAIN net.wire : net.wire[i].id < main'.next
      BY <2>1, <3>2, <3>6
    <3>11. sub.cur # NoShare =>
             sub.cur.id < main'.next /\ \A j \in DOMAIN queue'.q : sub.cur.id < queue'.q[j].id
      <4>1. sub.cur # NoShare => sub.cur.id \in Nat /\ sub.cur.id < main.next
        BY <1>2, <2>1, <2>2 DEF OrderOK
      <4> QED
        BY <1>2, <2>1, <3>1, <3>2, <3>4, <4>1 DEF OrderOK
    <3> QED
      BY <1>2, <3>3, <3>7, <3>8, <3>9, <3>10, <3>11 DEF OrderOK
  <2>4. CASE PopShare
    <3>1. queue.q # <<>> /\ queue'.q = Tail(queue.q) /\ sub'.cur = Head(queue.q)
      BY <1>2, <2>1, <2>4 DEF PopShare, Popped, Typed, TypeOK, OtherTypes
    <3>2. main' = main /\ net' = net
      BY <2>4 DEF PopShare
    <3>3. \A k \in DOMAIN queue'.q :
            k \in Nat /\ k + 1 \in DOMAIN queue.q /\ queue'.q[k] = queue.q[k + 1]
      BY <2>1, <3>1
    <3>4. 1 \in DOMAIN queue.q /\ sub'.cur = queue.q[1]
      BY <2>1, <3>1
    <3>5. \A i, j \in DOMAIN queue'.q : i < j => queue'.q[i].id < queue'.q[j].id
      BY <1>2, <3>3 DEF OrderOK
    <3>6. \A j \in DOMAIN queue'.q : queue'.q[j].id < main'.next
      BY <1>2, <3>2, <3>3 DEF OrderOK
    <3>7. \A i \in DOMAIN net'.wire, j \in DOMAIN queue'.q : net'.wire[i].id < queue'.q[j].id
      BY <1>2, <3>2, <3>3 DEF OrderOK
    <3>8. sub'.cur.id < main'.next /\ \A i \in DOMAIN net'.wire : net'.wire[i].id < sub'.cur.id
      BY <1>2, <3>2, <3>4 DEF OrderOK
    <3>9. \A j \in DOMAIN queue'.q : sub'.cur.id < queue'.q[j].id
      <4>1. \A j \in DOMAIN queue'.q : j + 1 \in DOMAIN queue.q /\ 1 < j + 1
        BY <2>1, <3>1
      <4> QED
        BY <1>2, <3>3, <3>4, <4>1 DEF OrderOK
    <3> QED
      BY <1>2, <3>2, <3>5, <3>6, <3>7, <3>8, <3>9 DEF OrderOK
  <2>5. CASE SendShare
    <3>1. net'.wire = Append(net.wire, sub.cur) /\ sub'.pc = "await" /\ sub'.cur = sub.cur
      BY <1>2, <2>1, <2>5 DEF SendShare, Typed, TypeOK, NetType
    <3>2. main' = main /\ queue' = queue /\ sub.pc = "send" /\ sub.cur \in Share
      BY <2>1, <2>5 DEF SendShare, Busy
    <3>3. \A k \in DOMAIN net'.wire :
            \/ k \in DOMAIN net.wire /\ net'.wire[k] = net.wire[k] /\ k < Len(net.wire) + 1
            \/ k = Len(net.wire) + 1 /\ net'.wire[k] = sub.cur
      BY <2>1, <3>1, <3>2
    <3>4. /\ \A i \in DOMAIN net.wire : i \in Nat /\ net.wire[i].id < sub.cur.id
          /\ sub.cur.id < main.next /\ \A j \in DOMAIN queue.q : sub.cur.id < queue.q[j].id
      BY <1>2, <2>1, <2>2, <3>2 DEF OrderOK
    <3>5. \A i, j \in DOMAIN net'.wire : i < j => net'.wire[i].id < net'.wire[j].id
      BY <1>2, <2>1, <3>3, <3>4 DEF OrderOK
    <3>6. /\ \A i \in DOMAIN net'.wire : net'.wire[i].id < main'.next
          /\ \A i \in DOMAIN net'.wire, j \in DOMAIN queue'.q : net'.wire[i].id < queue'.q[j].id
      BY <1>2, <3>2, <3>3, <3>4 DEF OrderOK
    <3> QED
      BY <1>2, <3>1, <3>2, <3>5, <3>6 DEF OrderOK
  <2>6. CASE StopAfterSendFailure \/ WaitOver \/ Deadline
    <3>1. sub'.cur = NoShare
      BY <2>1, <2>6 DEF StopAfterSendFailure, WaitOver, Deadline, TakeResponse
    <3>2. main' = main /\ queue' = queue /\ net' = net
      BY <2>6 DEF StopAfterSendFailure, WaitOver, Deadline, TakeResponse
    <3> QED
      BY <1>2, <3>1, <3>2 DEF OrderOK
  <2>7. CASE ~( QueueShare \/ PopShare \/ SendShare \/ StopAfterSendFailure \/ WaitOver
                \/ Deadline )
    <3>1. /\ main'.next = main.next /\ sub'.cur = sub.cur
          /\ queue'.q = queue.q /\ net'.wire = net.wire
      BY <1>2, <2>7, ShareMovers
    <3>2. sub'.pc \in {"register", "send"} => sub.pc \in {"register", "send"}
      BY <1>2, <2>1, <2>7, SubWriters DEF ReceiveFails, ReaderSignal, ReaderExit, LeaveLoop,
         WakeSubmitter, SubmitterExit, RegisterId, SendFails, WaitBegins, Park
    <3> QED
      BY <1>2, <3>1, <3>2 DEF OrderOK
  <2> QED
    BY <2>3, <2>4, <2>5, <2>6, <2>7
<1> QED
  BY <1>1, <1>2

(* Shares reach the pool once, and in the order they were found. *)
THEOREM SharesInOrder == Spec => []WireOrder
<1>1. Init => Typed /\ OrderOK
  BY InitTyped, OrderInductive
<1>2. Typed /\ OrderOK /\ [Next]_vars => (Typed /\ OrderOK)'
  BY StepTyped, OrderInductive
<1>3. OrderOK => WireOrder
  BY DEF OrderOK, WireOrder
<1> QED
  BY <1>1, <1>2, <1>3, PTL DEF Spec

-----------------------------------------------------------------------------
(* Verdicts and responses. *)

LEMMA VerdictInductive ==
  /\ Init => VerdictOK
  /\ Typed /\ VerdictOK /\ [Next]_vars => VerdictOK'
<1>1. Init => VerdictOK
  <2> SUFFICES ASSUME Init PROVE VerdictOK
    OBVIOUS
  <2>1. net.replied = {} /\ net.inbox = <<>> /\ reader.buf = <<>>
    BY DEF Init
  <2>2. \A i \in ShareIds : st.resp[i] = "none"
    BY DEF Init
  <2> QED
    BY <2>1, <2>2 DEF VerdictOK
<1>2. ASSUME Typed, VerdictOK, [Next]_vars PROVE VerdictOK'
  <2>1. NetType /\ ReaderType /\ HandOK
    BY <1>2 DEF Typed, TypeOK
  <2>2. net.replied \subseteq net'.replied
    BY ZenonT(60), <1>2, <2>1, NetWriters DEF NetType, PoolNotify, PoolReply, Receive, JoinAndClose, SendShare
  <2>3. \A line : Genuine(line, net.replied) => Genuine(line, net'.replied)
    BY <2>2 DEF Genuine
  <2>4. \A r \in net'.replied : \E k \in DOMAIN net'.wire : net'.wire[k].id = r[1]
    <3>1. CASE SendShare
      <4>1. net'.replied = net.replied /\ net'.wire = Append(net.wire, sub.cur)
        BY <2>1, <3>1 DEF NetType, SendShare
      <4>2. \A k \in DOMAIN net.wire : k \in DOMAIN net'.wire /\ net'.wire[k] = net.wire[k]
        BY <2>1, <3>1, <4>1 DEF NetType, SendShare, HandOK, Busy
      <4> QED
        BY <1>2, <4>1, <4>2 DEF VerdictOK
    <3>2. ASSUME NEW i \in ShareIds, NEW v \in Replied, PoolReply(i, v)
          PROVE  \A r \in net'.replied : \E k \in DOMAIN net'.wire : net'.wire[k].id = r[1]
      <4>1. net'.replied = net.replied \cup {<<i, v>>} /\ net'.wire = net.wire
        BY <2>1, <3>2 DEF NetType, PoolReply
      <4>2. \E k \in DOMAIN net.wire : net.wire[k].id = i
        BY <3>2 DEF PoolReply
      <4> QED
        BY <1>2, <4>1, <4>2 DEF VerdictOK
    <3>3. CASE net'.wire = net.wire /\ net'.replied = net.replied
      BY <1>2, <3>3 DEF VerdictOK
    <3> QED
      BY <1>2, <2>1, <3>1, <3>2, <3>3, NetWriters DEF NetType, PoolNotify, Receive, JoinAndClose
  <2>5. \A k \in DOMAIN net'.inbox : Genuine(net'.inbox[k], net'.replied)
    <3>1. ASSUME NEW j \in Jobs, PoolNotify(j)
          PROVE  \A k \in DOMAIN net'.inbox : Genuine(net'.inbox[k], net'.replied)
      <4>1. net'.inbox = Append(net.inbox, NotifyLine(j)) /\ Genuine(NotifyLine(j), net'.replied)
        BY <2>1, <3>1 DEF NetType, PoolNotify, NotifyLine, Genuine
      <4> QED
        BY <1>2, <2>1, <2>3, <4>1 DEF NetType, VerdictOK
    <3>2. ASSUME NEW i \in ShareIds, NEW v \in Replied, PoolReply(i, v)
          PROVE  \A k \in DOMAIN net'.inbox : Genuine(net'.inbox[k], net'.replied)
      <4>1. net'.inbox = Append(net.inbox, ReplyLine(i, v)) /\ Genuine(ReplyLine(i, v), net'.replied)
        BY <2>1, <3>2 DEF NetType, PoolReply, ReplyLine, Genuine
      <4> QED
        BY <1>2, <2>1, <2>3, <4>1 DEF NetType, VerdictOK
    <3>3. ASSUME NEW n \in 1..Len(net.inbox), Receive(n)
          PROVE  \A k \in DOMAIN net'.inbox : Genuine(net'.inbox[k], net'.replied)
      <4>1. net'.inbox = SubSeq(net.inbox, n + 1, Len(net.inbox))
        BY <2>1, <3>3 DEF NetType, Receive
      <4>2. \A k \in DOMAIN net'.inbox : n + k \in DOMAIN net.inbox /\ net'.inbox[k] = net.inbox[n + k]
        BY <2>1, <4>1 DEF NetType
      <4> QED
        BY <1>2, <2>3, <4>2 DEF VerdictOK
    <3>4. CASE net'.inbox = net.inbox
      BY <1>2, <2>3, <3>4 DEF VerdictOK
    <3> QED
      BY <1>2, <2>1, <3>1, <3>2, <3>3, <3>4, NetWriters DEF NetType, JoinAndClose, SendShare
  <2>6. \A k \in DOMAIN reader'.buf : Genuine(reader'.buf[k], net'.replied)
    <3>1. ASSUME NEW n \in 1..Len(net.inbox), Receive(n)
          PROVE  \A k \in DOMAIN reader'.buf : Genuine(reader'.buf[k], net'.replied)
      <4>1. reader'.buf = SubSeq(net.inbox, 1, n)
        BY <2>1, <3>1 DEF ReaderType, Receive
      <4>2. \A k \in DOMAIN reader'.buf : k \in DOMAIN net.inbox /\ reader'.buf[k] = net.inbox[k]
        BY <2>1, <4>1 DEF NetType
      <4> QED
        BY <1>2, <2>3, <4>2 DEF VerdictOK
    <3>2. CASE HandleNotify \/ HandleResponse \/ IgnoreReply
      <4>1. reader'.buf = Tail(reader.buf) /\ reader.buf # <<>>
        <5>1. CASE HandleNotify
          BY <5>1 DEF HandleNotify, LineIs
        <5>2. CASE HandleResponse \/ IgnoreReply
          BY <2>1, <5>2 DEF ReaderType, HandleResponse, IgnoreReply, LineIs
        <5> QED
          BY <3>2, <5>1, <5>2
      <4>2. \A k \in DOMAIN reader'.buf : k + 1 \in DOMAIN reader.buf /\ reader'.buf[k] = reader.buf[k + 1]
        BY <2>1, <4>1 DEF ReaderType
      <4> QED
        BY <1>2, <2>3, <4>2 DEF VerdictOK
    <3>3. CASE reader'.buf = reader.buf
      BY <1>2, <2>3, <3>3 DEF VerdictOK
    <3> QED
      BY <1>2, <2>1, <3>1, <3>2, <3>3, ReaderWriters DEF ReaderType, SelectIdle, ReceiveFails,
         ReaderSignal, LinesDone, ReaderExit
  <2>7. \A i \in ShareIds : st'.resp[i] # "none" => <<i, st'.resp[i]>> \in net'.replied
    <3>1. StType
      BY <1>2 DEF Typed, TypeOK
    <3>2. CASE HandleResponse
      <4> DEFINE line == Head(reader.buf)
      <4>1. line \in Replies /\ 1 \in DOMAIN reader.buf /\ line = reader.buf[1]
        BY <2>1, <3>2, ReplyAtHead DEF HandleResponse, LineIs, ReaderType
      <4>2. <<line.id, line.verdict>> \in net.replied
        BY <1>2, <4>1 DEF VerdictOK, Genuine, Replies
      <4>3. st'.resp = [st.resp EXCEPT ![line.id] = line.verdict]
        BY <3>1, <3>2 DEF HandleResponse, StType
      <4> QED
        BY <1>2, <2>2, <3>1, <4>2, <4>3 DEF VerdictOK, StType
    <3>3. CASE WaitOver \/ Deadline
      <4>1. st'.resp = [st.resp EXCEPT ![sub.cur.id] = "none"]
        BY <3>1, <3>3 DEF WaitOver, Deadline, TakeResponse, StType
      <4> QED
        BY <1>2, <2>2, <3>1, <4>1 DEF VerdictOK, StType
    <3>4. CASE st'.resp = st.resp
      BY <1>2, <2>2, <3>4 DEF VerdictOK
    <3>5. CASE HandleNotify
      BY <3>1, <3>4, <3>5 DEF HandleNotify, StType
    <3>6. CASE PublishFlag \/ UnpublishFlag
      BY <3>1, <3>4, <3>6 DEF PublishFlag, UnpublishFlag, StType
    <3>7. CASE ReceiveFails \/ StopAfterSendFailure
      BY <3>1, <3>4, <3>7 DEF ReceiveFails, StopAfterSendFailure, StType
    <3>8. CASE RegisterId \/ SendFails
      BY <3>1, <3>4, <3>8 DEF RegisterId, SendFails, StType
    <3> QED
      BY <1>2, <3>2, <3>3, <3>4, <3>5, <3>6, <3>7, <3>8, StWriters
  <2> QED
    BY <2>4, <2>5, <2>6, <2>7 DEF VerdictOK
<1> QED
  BY <1>1, <1>2

LEMMA AwaitedInductive ==
  /\ Init => ResponsesAwaited
  /\ Typed /\ OrderOK /\ VerdictOK /\ ResponsesAwaited /\ [Next]_vars => ResponsesAwaited'
<1> DEFINE Waiting == {"send", "await", "parking", "parked"}
<1>1. Init => ResponsesAwaited
  BY DEF Init, ResponsesAwaited
<1>2. ASSUME Typed, OrderOK, VerdictOK, ResponsesAwaited, [Next]_vars PROVE ResponsesAwaited'
  <2>1. StType /\ SubType /\ ReaderType /\ HandOK /\ NetType
    BY <1>2 DEF Typed, TypeOK
  <2>2. CASE HandleResponse
    <3>1. sub' = sub /\ Head(reader.buf).id \in st.ids
      BY <2>2 DEF HandleResponse, IsSubmit
    <3>2. /\ st'.ids = st.ids
          /\ st'.resp = [st.resp EXCEPT ![Head(reader.buf).id] = Head(reader.buf).verdict]
      BY <2>1, <2>2 DEF HandleResponse, StType
    <3> QED
      BY <1>2, <2>1, <3>1, <3>2 DEF ResponsesAwaited, StType
  <2>3. CASE RegisterId
    <3>1. st'.ids = st.ids \cup {sub.cur.id} /\ st'.resp = st.resp /\ st.ids = {}
      BY <1>2, <2>1, <2>3 DEF RegisterId, StType, ResponsesAwaited
    <3>2. sub'.cur = sub.cur /\ sub'.pc = "send"
      BY <2>1, <2>3 DEF RegisterId, SubType
    <3> QED
      BY <1>2, <3>1, <3>2 DEF ResponsesAwaited
  <2>4. CASE SendFails
    (* The share was never sent, so nothing has answered it. *)
    <3>1. sub.cur \in Share /\ sub.cur # NoShare /\ sub.cur.id \in ShareIds
      BY <2>1, <2>4, ShareIsNotNoShare DEF SendFails, HandOK, Busy, Share
    <3>2. \A k \in DOMAIN net.wire : net.wire[k].id < sub.cur.id
      BY <1>2, <2>4, <3>1 DEF OrderOK, SendFails
    <3>3. \A k \in DOMAIN net.wire : net.wire[k].id # sub.cur.id
      BY <3>1, <3>2, BoundsAssumption DEF ShareIds
    <3>4. st.resp[sub.cur.id] = "none"
      BY <1>2, <3>1, <3>3 DEF VerdictOK
    <3>5. st'.ids = st.ids \ {sub.cur.id} /\ st'.resp = st.resp
      BY <2>1, <2>4 DEF SendFails, StType
    <3>6. st'.ids = {}
      BY <1>2, <3>5 DEF ResponsesAwaited
    <3> QED
      BY <1>2, <3>4, <3>5, <3>6 DEF ResponsesAwaited
  <2>5. CASE WaitOver \/ Deadline
    <3>1. st'.resp = [st.resp EXCEPT ![sub.cur.id] = "none"] /\ st'.ids = st.ids \ {sub.cur.id}
      BY <2>1, <2>5 DEF WaitOver, Deadline, TakeResponse, StType
    <3>2. st'.ids = {}
      BY <1>2, <3>1 DEF ResponsesAwaited
    <3> QED
      BY <1>2, <2>1, <3>1, <3>2 DEF ResponsesAwaited, StType
  <2>6. CASE ~(HandleResponse \/ RegisterId \/ SendFails \/ WaitOver \/ Deadline)
    <3>1. st'.ids = st.ids /\ st'.resp = st.resp
      <4>1. CASE HandleNotify
        BY <2>1, <4>1 DEF HandleNotify, StType
      <4>2. CASE PublishFlag \/ UnpublishFlag
        BY <2>1, <4>2 DEF PublishFlag, UnpublishFlag, StType
      <4>3. CASE ReceiveFails \/ StopAfterSendFailure
        BY <2>1, <4>3 DEF ReceiveFails, StopAfterSendFailure, StType
      <4> QED
        BY <1>2, <2>6, <4>1, <4>2, <4>3, StWriters
    <3>2. sub.pc \in Waiting => sub'.pc \in Waiting /\ sub'.cur = sub.cur
      BY <1>2, <2>1, <2>6, SubWriters DEF SubType, ReceiveFails, ReaderSignal, ReaderExit,
         LeaveLoop, WakeSubmitter, PopShare, SubmitterExit, SendShare, StopAfterSendFailure,
         WaitBegins, Park
    <3> QED
      BY <1>2, <3>1, <3>2 DEF ResponsesAwaited
  <2> QED
    BY <2>2, <2>3, <2>4, <2>5, <2>6
<1> QED
  BY <1>1, <1>2

(* The whole of the invariant the verdicts rest on. *)
Settled == Typed /\ OrderOK /\ VerdictOK /\ ResponsesAwaited

LEMMA SettledInductive == (Init => Settled) /\ (Settled /\ [Next]_vars => Settled')
  BY InitTyped, StepTyped, OrderInductive, VerdictInductive, AwaitedInductive DEF Settled

(* Only the share in hand is awaited, and no response is left behind. *)
THEOREM OnlyAwaitedResponses == Spec => []ResponsesAwaited
<1>1. Settled => ResponsesAwaited
  BY DEF Settled
<1> QED
  BY <1>1, SettledInductive, PTL DEF Spec

(* No acceptance and no rejection without the pool's own verdict. *)
THEOREM VerdictsAreThePools == Spec => VerdictsEarned
<1>1. Settled /\ [Next]_vars =>
        [ /\ count'.accepted # count.accepted =>
                count'.accepted = count.accepted + 1 /\ <<sub.cur.id, "ok">> \in net.replied
          /\ count'.rejected # count.rejected =>
                count'.rejected = count.rejected + 1 /\ <<sub.cur.id, "bad">> \in net.replied ]_vars
  <2> SUFFICES ASSUME Settled, [Next]_vars
               PROVE  /\ count'.accepted # count.accepted =>
                           /\ count'.accepted = count.accepted + 1
                           /\ <<sub.cur.id, "ok">> \in net.replied
                      /\ count'.rejected # count.rejected =>
                           /\ count'.rejected = count.rejected + 1
                           /\ <<sub.cur.id, "bad">> \in net.replied
    OBVIOUS
  <2>1. Typed /\ count \in [accepted : Nat, rejected : Nat, missed : Nat]
    BY DEF Settled, Typed, TypeOK, OtherTypes
  <2>2. CASE WaitOver \/ Deadline
    <3>1. Response \in Verdicts /\ count' = Counted
      BY <2>1, <2>2, ResponseIsVerdict DEF WaitOver, Deadline, TakeResponse
    <3>2. sub.cur.id \in ShareIds
      BY <2>1, <2>2 DEF WaitOver, Deadline, Typed, HandOK, Busy, Share
    <3>3. Response # "none" => <<sub.cur.id, Response>> \in net.replied
      BY <3>2 DEF Settled, VerdictOK, Response
    <3> QED
      BY <2>1, <3>1, <3>3 DEF Counted, Verdicts, Replied
  <2>3. CASE StopAfterSendFailure
    BY <2>1, <2>3 DEF StopAfterSendFailure
  <2> QED
    BY <2>2, <2>3, OtherWriters
<1> QED
  BY <1>1, SettledInductive, PTL DEF Spec, VerdictsEarned
=============================================================================
