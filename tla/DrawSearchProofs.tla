-------------------------- MODULE DrawSearchProofs --------------------------
(***************************************************************************)
(* What the loop of DrawPipeline finds, proved for every number of draws    *)
(* and attempts and every set of builds: a search sees the panels and the   *)
(* key of its own draw while the next one is written under it, no win is    *)
(* missed, a win is refused only when the device was wrong, and the draws   *)
(* reported are those searched.                                             *)
(***************************************************************************)
EXTENDS DrawPipelineProofs

Here  == Id(host.draw)
Ahead1 == Id(host.draw + 1)
HasMore == ~stop /\ host.draw + 1 < MaxDraws

(* A search is queued, or done and not waited for yet. *)
InFlight ==
  At("wait") \/ (mode = "async" /\ (At("ahead") \/ (host.pc \in Preparing /\ host.next > 0)))

(* The loop prepares draw 0, or the next one; the latter with a stream that *)
(* has nothing left in it.                                                  *)
NextOK ==
  /\ At("prime") => host.cur = 0
  /\ host.pc \in Preparing =>
       \/ host.next = 0 /\ host.draw = 0
       \/ host.next > 0 /\ host.next = host.draw + 1 /\ (At("phase1") => prepq = <<>>)

-----------------------------------------------------------------------------
(* The stream of the search.  The operations are counted from the end of    *)
(* the queue, where the search is: failed attempts of the async build may   *)
(* have left theirs at its head, four at a time.                            *)
FromEnd(q, k) == q[Len(q) - k]

AfterGathers == IF mode = "async" THEN 2 ELSE 1      \* the record and the search

IsOp(op, name, m) == op.op = name /\ op.m = m

InFlightOp(k, op) ==
  /\ op.op = "search" <=> k = 0
  /\ mode = "async" => (op.op = "record" <=> k % 4 = 1)
  /\ k = AfterGathers => IsOp(op, "gather", "Bt")
  /\ k = AfterGathers + 1 => IsOp(op, "gather", "A")
  /\ k = AfterGathers + 2 => op.op = "setup" /\ op.x = Here

LeftoverOp(k, op) == op.op # "search" /\ (op.op = "record" <=> k % 4 = 0)

SearchShape ==
  /\ InFlight => \A k \in 0..(Len(searchq) - 1) : InFlightOp(k, FromEnd(searchq, k))
  /\ ~InFlight => \A k \in 0..(Len(searchq) - 1) : LeftoverOp(k, FromEnd(searchq, k))
  /\ mode # "async" /\ ~At("wait") => searchq = <<>>

(* The records still to come are those in the queue. *)
Pending == event.queued - event.done

EventOK ==
  mode = "async" =>
    LET n == Len(searchq) + IF InFlight THEN 2 ELSE 3
    IN  4 * Pending <= n /\ n < 4 * Pending + 4

(* What has been done of the search, and what it still needs. *)
FlightOK ==
  InFlight =>
    /\ Len(searchq) <= AfterGathers + 2 => dev.key = Here
    /\ Len(searchq) <= AfterGathers + 1 => dev.panel["A"] = Noised(Here)
    /\ Len(searchq) <= AfterGathers => dev.panel["Bt"] = Noised(Here)
    /\ Len(searchq) >= AfterGathers => dev.mat = Both(Noised(Here))
    /\ Len(searchq) = 0 =>
         dev.tile = Here /\ (hist.fault \/ (dev.win <=> host.draw \in wins))

-----------------------------------------------------------------------------
(* The stream of the preparation.  What a failed one has left behind fills  *)
(* matrices and waits, and is followed by a preparation of draw 0.          *)
Filling == {"wait", "rng"}

PrepShape ==
  /\ host.pc \notin {"sync1", "sync2"} =>
       \A k \in 0..(Len(prepq) - 1) : FromEnd(prepq, k).op \in Filling
  /\ At("sync1") =>
       \A k \in 0..(Len(prepq) - 1) :
         LET op == FromEnd(prepq, k)
         IN  /\ k = 0 => IsOp(op, "hash", "Bt")
             /\ k = 1 => IsOp(op, "hash", "A")
             /\ k = 2 => IsOp(op, "rng", "Bt") /\ op.x = Id(host.next)
             /\ k = 3 => IsOp(op, "rng", "A") /\ op.x = Id(host.next)
             /\ k > 3 => op.op \in Filling
  /\ At("sync2") =>
       \A k \in 0..(Len(prepq) - 1) :
         LET op == FromEnd(prepq, k)
         IN  /\ k = 0 => IsOp(op, "noise", "Bt") /\ op.x = Id(host.next)
             /\ k = 1 => IsOp(op, "noise", "A") /\ op.x = Id(host.next)
             /\ k < 2

PrepOK ==
  /\ At("sync1") =>
       /\ Len(prepq) <= 3 => dev.mat["A"] = Raw(Id(host.next))
       /\ Len(prepq) <= 2 => dev.mat["Bt"] = Raw(Id(host.next))
       /\ Len(prepq) <= 1 => data.hash["A"] = Id(host.next)
       /\ Len(prepq) = 0 => data.hash["Bt"] = Id(host.next)
  /\ At("sync2") =>
       /\ data.seeds = Id(host.next)
       /\ dev.mat["A"] = IF Len(prepq) = 2 THEN Raw(Id(host.next)) ELSE Noised(Id(host.next))
       /\ dev.mat["Bt"] = IF Len(prepq) >= 1 THEN Raw(Id(host.next)) ELSE Noised(Id(host.next))

(* Under a search, nothing is written before the gathers are recorded.      *)
GateOK ==
  mode = "async" /\ InFlight =>
    /\ \A k \in 0..(Len(prepq) - 1) :
         FromEnd(prepq, k).op = "wait" =>
           k = Len(prepq) - 1 /\ FromEnd(prepq, k).records = event.queued
    /\ \/ event.done >= event.queued
       \/ prepq # <<>> /\ Head(prepq).op = "wait"
       \/ prepq = <<>> /\ host.pc \notin {"sync1", "sync2"}

-----------------------------------------------------------------------------
(* The draw that comes next is ready when the loop gets to it. *)
OnGpu(x)     == dev.mat = Both(Noised(x)) /\ data.seeds = x
InSlot(s, x) == slot[s] = [mat |-> Both(Noised(x)), seed |-> x]

GpuReady ==
  mode # "cpu" =>
    /\ At("top") /\ ~stop /\ host.draw < MaxDraws => OnGpu(Here)
    /\ At("launch") => OnGpu(Here)
    /\ mode = "async" /\ (At("wait") \/ At("judge")) /\ HasMore => OnGpu(Ahead1)
    /\ mode = "sync" /\ At("judge") /\ host.ok = "none" /\ HasMore => OnGpu(Ahead1)

CpuReady ==
  mode = "cpu" =>
    /\ At("top") /\ ~stop /\ host.draw < MaxDraws => InSlot(host.cur, Here)
    /\ At("spawn") \/ At("launch") => InSlot(host.cur, Here)
    /\ At("judge") /\ HasMore => InSlot(1 - host.cur, Ahead1)
    /\ host.pc \in {"launch", "wait", "join"} /\ prod.pc = "off" => ~HasMore

ProducerOK ==
  prod.pc # "off" =>
    /\ prod.id = Ahead1 /\ prod.s = 1 - host.cur
    /\ prod.pc = "hash" => data.ab = Ahead1
    /\ prod.pc \in {"A", "Bt"} => data = Produced(Ahead1)
    /\ prod.pc = "Bt" => slot[prod.s].mat["A"] = Noised(Ahead1)
    /\ prod.pc = "done" => InSlot(prod.s, Ahead1)

-----------------------------------------------------------------------------
(* The answer to the search of the current draw is in, and was used.        *)
InHand ==
  \/ host.pc \in {"join", "judge", "rederive"}
  \/ mode = "sync" /\ (At("ahead") \/ (host.pc \in Preparing /\ host.next > 0))

AnswerOK ==
  /\ mode = "sync" /\ (At("ahead") \/ (host.pc \in Preparing /\ host.next > 0)) => host.ok = "none"
  /\ At("rederive") => host.ok = "win"
  /\ InHand =>
       /\ host.ok = "error" => hist.fault
       /\ host.ok = "win" => host.hit = Here
       /\ host.ok # "error" => hist.fault \/ (host.ok = "win" <=> host.draw \in wins)

PastOK == hist.fault \/ \A d \in wins : host.draw <= d

TileOK ==
  /\ (At("over") /\ host.found /\ ~stop) \/ At("postcheck") =>
       host.tile = Here /\ (hist.fault \/ host.draw \in wins)
  /\ At("proof") \/ (At("returned") /\ host.rc = 0) => host.tile = Here

(* How an attempt ends without a proof. *)
LossOK ==
  /\ At("drain") => hist.fault
  /\ At("over") /\ ~host.found /\ ~stop => host.draw >= MaxDraws
  /\ At("returned") /\ host.rc = 2 /\ ~stop => hist.fault \/ wins = {}
  /\ host.rc = 4 => hist.fault

Counted == InHand \/ (host.pc \in {"over", "postcheck", "proof", "returned"} /\ host.found)

CountOK ==
  ~hist.fault =>
    /\ hist.searched = IF Counted THEN host.draw + 1 ELSE host.draw
    /\ host.pc \in {"postcheck", "proof", "returned"} => host.draws = hist.searched

StreamsOK == NextOK /\ SearchShape /\ EventOK /\ FlightOK /\ PrepShape /\ PrepOK /\ GateOK
LoopOK    == GpuReady /\ CpuReady /\ ProducerOK
ResultOK  == AnswerOK /\ PastOK /\ TileOK /\ LossOK /\ CountOK

SInv == StreamsOK /\ LoopOK /\ ResultOK

-----------------------------------------------------------------------------
(* Queues, counted from the end. *)

LEMMA TailFromEnd ==
  ASSUME NEW S, NEW q \in Seq(S), q # <<>>
  PROVE  /\ Len(q) \in Nat /\ Len(q) > 0 /\ Len(Tail(q)) = Len(q) - 1
         /\ Head(q) = FromEnd(q, Len(q) - 1)
         /\ \A k \in 0..(Len(q) - 2) : FromEnd(Tail(q), k) = FromEnd(q, k)
<1>1. Len(q) \in Nat /\ Len(q) > 0 /\ Len(Tail(q)) = Len(q) - 1 /\ Head(q) = q[1]
  OBVIOUS
<1>2. \A i \in 1..(Len(q) - 1) : Tail(q)[i] = q[i + 1]
  OBVIOUS
<1> QED
  BY <1>1, <1>2 DEF FromEnd

LEMMA ConcatFromEnd ==
  ASSUME NEW S, NEW s \in Seq(S), NEW t \in Seq(S)
  PROVE  /\ s \o t \in Seq(S) /\ Len(s) \in Nat /\ Len(t) \in Nat /\ Len(s \o t) = Len(s) + Len(t)
         /\ \A k \in 0..(Len(t) - 1) : FromEnd(s \o t, k) = FromEnd(t, k)
         /\ \A k \in Len(t)..(Len(s) + Len(t) - 1) : FromEnd(s \o t, k) = FromEnd(s, k - Len(t))
<1>1. s \o t \in Seq(S) /\ Len(s) \in Nat /\ Len(t) \in Nat /\ Len(s \o t) = Len(s) + Len(t)
  OBVIOUS
<1>2. \A i \in 1..Len(s) : (s \o t)[i] = s[i]
  OBVIOUS
<1>3. \A i \in (Len(s) + 1)..(Len(s) + Len(t)) : (s \o t)[i] = t[i - Len(s)]
  OBVIOUS
<1> QED
  BY SMTT(30), <1>1, <1>2, <1>3 DEF FromEnd

(* The operations of one search, and of one preparation. *)
LEMMA OpTyped ==
  ASSUME NEW x \in Ids, NEW m \in Matrices
  PROVE  /\ \A op \in {"setup", "gather", "record", "search"} : Op(op, m, x) \in SearchOps
         /\ \A op \in {"rng", "hash", "noise"} : Op(op, m, x) \in PrepOps
         /\ \A n \in Nat : WaitFor(n) \in PrepOps
BY NoDrawIsId DEF Op, WaitFor, SearchOps, PrepOps, Matrices

LEMMA GathersFromEnd ==
  ASSUME Typed, NEW x \in Ids
  PROVE  /\ Gathers(x) \in Seq(SearchOps) /\ Len(Gathers(x)) = AfterGathers + 2
         /\ FromEnd(Gathers(x), AfterGathers - 1) = Op("gather", "Bt", x)
         /\ FromEnd(Gathers(x), AfterGathers) = Op("gather", "A", x)
         /\ FromEnd(Gathers(x), AfterGathers + 1) = Op("setup", "A", x)
         /\ mode = "async" => FromEnd(Gathers(x), 0) = Op("record", "A", x)
<1> DEFINE three == <<Op("setup", "A", x), Op("gather", "A", x), Op("gather", "Bt", x)>>
           last  == <<Op("record", "A", x)>>
<1>1. three \in Seq(SearchOps) /\ last \in Seq(SearchOps)
  BY OpTyped DEF Matrices
<1>2. /\ Len(three) = 3 /\ FromEnd(three, 0) = Op("gather", "Bt", x)
      /\ FromEnd(three, 1) = Op("gather", "A", x) /\ FromEnd(three, 2) = Op("setup", "A", x)
      /\ Len(last) = 1 /\ FromEnd(last, 0) = Op("record", "A", x)
  BY <1>1 DEF FromEnd
<1>3. Gathers(x) = three \o (IF mode = "async" THEN last ELSE <<>>)
  BY DEF Gathers
<1> HIDE DEF three, last
<1>4. CASE mode = "async"
  <2>1. /\ three \o last \in Seq(SearchOps) /\ Len(three \o last) = Len(three) + Len(last)
        /\ \A k \in 0..(Len(last) - 1) : FromEnd(three \o last, k) = FromEnd(last, k)
        /\ \A k \in Len(last)..(Len(three) + Len(last) - 1) : FromEnd(three \o last, k) = FromEnd(three, k - Len(last))
    BY <1>1, ConcatFromEnd
  <2>2. Gathers(x) = three \o last
    BY <1>3, <1>4
  <2> QED
    BY <1>2, <1>4, <2>1, <2>2 DEF AfterGathers
<1>5. CASE mode # "async"
  <2>1. Gathers(x) = three
    BY <1>1, <1>3, <1>5
  <2> QED
    BY <1>1, <1>2, <1>5, <2>1 DEF AfterGathers
<1> QED
  BY <1>4, <1>5

LEMMA SearchFromEnd ==
  ASSUME Typed, NEW x \in Ids
  PROVE  /\ Search(x) \in Seq(SearchOps) /\ Len(Search(x)) = AfterGathers + 3
         /\ FromEnd(Search(x), 0) = Op("search", "A", x)
         /\ mode = "async" => FromEnd(Search(x), 1) = Op("record", "A", x)
         /\ FromEnd(Search(x), AfterGathers) = Op("gather", "Bt", x)
         /\ FromEnd(Search(x), AfterGathers + 1) = Op("gather", "A", x)
         /\ FromEnd(Search(x), AfterGathers + 2) = Op("setup", "A", x)
<1> DEFINE last == <<Op("search", "A", x)>>
<1>1. last \in Seq(SearchOps)
  BY OpTyped DEF Matrices
<1>2. Len(last) = 1 /\ FromEnd(last, 0) = Op("search", "A", x)
  BY <1>1 DEF FromEnd
<1>3. Search(x) = Gathers(x) \o last
  BY DEF Search
<1> HIDE DEF last
<1>4. AfterGathers \in {1, 2}
  BY DEF AfterGathers
<1> QED
  <2>1. Gathers(x) \in Seq(SearchOps)
    BY GathersFromEnd
  <2>2. /\ Gathers(x) \o last \in Seq(SearchOps) /\ Len(Gathers(x) \o last) = Len(Gathers(x)) + Len(last)
        /\ \A k \in 0..(Len(last) - 1) : FromEnd(Gathers(x) \o last, k) = FromEnd(last, k)
        /\ \A k \in Len(last)..(Len(Gathers(x)) + Len(last) - 1) : FromEnd(Gathers(x) \o last, k) = FromEnd(Gathers(x), k - Len(last))
    BY <1>1, <2>1, ConcatFromEnd
  <2>3. Search(x) \in Seq(SearchOps) /\ Len(Search(x)) = AfterGathers + 3
    BY <1>2, <1>3, <1>4, <2>2, GathersFromEnd
  <2>4. \A k \in 1..(AfterGathers + 2) : FromEnd(Search(x), k) = FromEnd(Gathers(x), k - 1)
    BY <1>2, <1>3, <1>4, <2>2, GathersFromEnd
  <2>5. FromEnd(Search(x), 0) = Op("search", "A", x)
    BY <1>2, <1>3, <2>2
  <2> QED
    BY <1>4, <2>3, <2>4, <2>5, GathersFromEnd

LEMMA FillFromEnd ==
  ASSUME Typed, NEW x \in Ids
  PROVE  /\ Fill(x) \in Seq(PrepOps) /\ Len(Fill(x)) = (IF mode = "async" THEN 3 ELSE 2)
         /\ FromEnd(Fill(x), 0) = Op("rng", "Bt", x)
         /\ FromEnd(Fill(x), 1) = Op("rng", "A", x)
         /\ mode = "async" => FromEnd(Fill(x), 2) = WaitFor(event.queued)
<1> DEFINE two   == <<Op("rng", "A", x), Op("rng", "Bt", x)>>
           first == <<WaitFor(event.queued)>>
<1>1. two \in Seq(PrepOps) /\ first \in Seq(PrepOps)
  BY OpTyped DEF Matrices, Typed, TypeOK, StreamsType
<1>2. /\ Len(two) = 2 /\ FromEnd(two, 0) = Op("rng", "Bt", x) /\ FromEnd(two, 1) = Op("rng", "A", x)
      /\ Len(first) = 1 /\ FromEnd(first, 0) = WaitFor(event.queued)
  BY <1>1 DEF FromEnd
<1>3. Fill(x) = (IF mode = "async" THEN first ELSE <<>>) \o two
  BY DEF Fill, GatherDone
<1> HIDE DEF two, first
<1>4. CASE mode = "async"
  <2>1. /\ first \o two \in Seq(PrepOps) /\ Len(first \o two) = Len(first) + Len(two)
        /\ \A k \in 0..(Len(two) - 1) : FromEnd(first \o two, k) = FromEnd(two, k)
        /\ \A k \in Len(two)..(Len(first) + Len(two) - 1) : FromEnd(first \o two, k) = FromEnd(first, k - Len(two))
    BY <1>1, ConcatFromEnd
  <2>2. Fill(x) = first \o two
    BY <1>3, <1>4
  <2> QED
    BY <1>2, <1>4, <2>1, <2>2
<1>5. CASE mode # "async"
  <2>1. Fill(x) = two
    BY <1>1, <1>3, <1>5
  <2> QED
    BY <1>1, <1>2, <1>5, <2>1
<1> QED
  BY <1>4, <1>5

LEMMA PairsFromEnd ==
  ASSUME Typed, NEW x \in Ids
  PROVE  /\ Hashes(x) \in Seq(PrepOps) /\ Len(Hashes(x)) = 2
         /\ FromEnd(Hashes(x), 0) = Op("hash", "Bt", x) /\ FromEnd(Hashes(x), 1) = Op("hash", "A", x)
         /\ Noise(x) \in Seq(PrepOps) /\ Len(Noise(x)) = 2
         /\ FromEnd(Noise(x), 0) = Op("noise", "Bt", x) /\ FromEnd(Noise(x), 1) = Op("noise", "A", x)
<1>1. Hashes(x) \in Seq(PrepOps) /\ Noise(x) \in Seq(PrepOps)
  BY OpsTyped DEF Typed, TypeOK, StreamsType
<1> QED
  BY <1>1 DEF Hashes, Noise, FromEnd

(* The head of a queue is a record when the count of records is due to drop. *)
LEMMA RecordInFlight ==
  ASSUME NEW n \in Nat, n > 0, NEW p \in Int, 4 * p <= n + 2, n + 2 < 4 * p + 4
  PROVE  (n - 1) % 4 = 1 <=> n + 2 = 4 * p
OBVIOUS

LEMMA RecordLeft ==
  ASSUME NEW n \in Nat, n > 0, NEW p \in Int, 4 * p <= n + 3, n + 3 < 4 * p + 4
  PROVE  (n - 1) % 4 = 0 <=> n + 3 = 4 * p
OBVIOUS

LEMMA SmallQuarters == 0 % 4 = 0 /\ 1 % 4 = 1 /\ 2 % 4 = 2 /\ 3 % 4 = 3 /\ 4 % 4 = 0
OBVIOUS

-----------------------------------------------------------------------------
(* The steps of the device and of the threads beside the loop. *)

LEMMA ModeCases == Typed => mode \in {"async", "sync", "cpu"} /\ AfterGathers = IF mode = "async" THEN 2 ELSE 1
BY ModesAssumption DEF Typed, TypeOK, OtherTypes, AfterGathers

(* A fault only relaxes what is asked of the results. *)
LEMMA ResultsBeside ==
  ASSUME ResultOK, UNCHANGED <<host, mode, wins>>, stop' = stop \/ stop',
         hist' = hist \/ hist'.fault
  PROVE  ResultOK'
<1> USE DEF ResultOK, At, Here, Id, InHand
<1>1. AnswerOK' /\ PastOK'
  BY DEF AnswerOK, PastOK
<1>2. TileOK' /\ LossOK'
  BY DEF TileOK, LossOK
<1>3. CountOK'
  BY DEF CountOK, Counted
<1> QED
  BY <1>1, <1>2, <1>3

LEMMA SearchTyped ==
  ASSUME Typed, SearchStream
  PROVE  /\ searchq \in Seq(SearchOps) /\ Len(searchq) \in Nat /\ Len(searchq) > 0
         /\ searchq' \in Seq(SearchOps) /\ Len(searchq') = Len(searchq) - 1
         /\ Head(searchq) = FromEnd(searchq, Len(searchq) - 1)
         /\ \A k \in 0..(Len(searchq) - 2) : FromEnd(searchq', k) = FromEnd(searchq, k)
         /\ UNCHANGED <<mode, wins, host, data, slot, prod, prepq, stop>>
<1>1. searchq \in Seq(SearchOps) /\ searchq # <<>> /\ searchq' = Tail(searchq)
  BY DEF Typed, TypeOK, StreamsType, SearchStream
<1>2. Tail(searchq) \in Seq(SearchOps)
  BY <1>1
<1> QED
  BY <1>1, <1>2, TailFromEnd DEF SearchStream

LEMMA SearchStreamKeeps ==
  ASSUME IInv, SInv, SearchStream
  PROVE  SInv'
<1>0. Typed /\ BuildOK /\ QuietOK /\ HostType /\ DevType /\ event \in [queued : Nat, done : Nat]
  BY DEF IInv, Typed, TypeOK, StreamsType
<1> DEFINE n == Len(searchq)
           op == Head(searchq)
<1>1. /\ n \in Nat /\ n > 0 /\ Len(searchq') = n - 1 /\ op = FromEnd(searchq, n - 1)
      /\ \A k \in 0..(n - 2) : FromEnd(searchq', k) = FromEnd(searchq, k)
      /\ UNCHANGED <<mode, wins, host, data, slot, prod, prepq, stop>>
      /\ op \in SearchOps /\ searchq # <<>> /\ searchq' \in Seq(SearchOps) /\ n = Len(searchq)
  BY <1>0, SearchTyped DEF SearchStream
<1>2. /\ op.op = "setup" => dev' = [dev EXCEPT !.key = op.x, !.win = FALSE] /\ event' = event /\ hist' = hist
      /\ op.op = "gather" => dev' = [dev EXCEPT !.panel[op.m] = dev.mat[op.m]] /\ event' = event /\ hist' = hist
      /\ op.op = "record" => event' = [event EXCEPT !.done = @ + 1] /\ dev' = dev /\ hist' = hist
      /\ op.op = "search" => (\E reported \in BOOLEAN : SearchDone(reported)) /\ event' = event
      /\ op.op \in {"setup", "gather", "record", "search"} /\ op.m \in Matrices
  BY <1>1 DEF SearchStream, SearchOps
<1> HIDE DEF n, op
<1>3. hist' = hist \/ hist'.fault
  <2>1. ASSUME NEW reported \in BOOLEAN, SearchDone(reported)
        PROVE  hist' = hist \/ hist'.fault
    BY <1>0, <2>1 DEF SearchDone, Fault, Typed, TypeOK, OtherTypes
  <2> QED
    BY <1>2, <2>1
<1>4. dev'.mat = dev.mat
  BY <1>0, <1>2 DEF SearchDone, DevType
<1>5. ResultOK'
  BY <1>1, <1>3, ResultsBeside DEF SInv
<1>6. LoopOK'
  BY <1>1, <1>4 DEF SInv, LoopOK, GpuReady, CpuReady, ProducerOK, At, HasMore, OnGpu, InSlot, Here, Ahead1, Id
<1>7. InFlight' <=> InFlight
  BY <1>1 DEF InFlight, At
<1>8. Here' = Here /\ AfterGathers' = AfterGathers
  BY <1>1 DEF Here, Id, AfterGathers
<1>9. NextOK' /\ PrepShape' /\ PrepOK'
  <2>1. NextOK'
    BY <1>1, <1>4 DEF SInv, StreamsOK, NextOK, At, Id
  <2>2. PrepShape'
    BY <1>1 DEF SInv, StreamsOK, PrepShape, At, Id, FromEnd
  <2>3. PrepOK'
    BY <1>1, <1>4 DEF SInv, StreamsOK, PrepOK, At, Id
  <2> QED
    BY <2>1, <2>2, <2>3
<1>10. SearchShape'
  <2>1. SearchShape
    BY DEF SInv, StreamsOK
  <2>2. ASSUME InFlight, NEW k \in 0..(n - 2)
        PROVE  InFlightOp(k, FromEnd(searchq, k))'
    <3>1. InFlightOp(k, FromEnd(searchq, k))
      BY <1>1, <2>1, <2>2 DEF SearchShape
    <3> QED
      BY <1>1, <1>8, <3>1 DEF InFlightOp
  <2>3. ASSUME ~InFlight, NEW k \in 0..(n - 2)
        PROVE  LeftoverOp(k, FromEnd(searchq, k))'
    <3>1. LeftoverOp(k, FromEnd(searchq, k))
      BY <1>1, <2>1, <2>3 DEF SearchShape
    <3> QED
      BY <1>1, <3>1 DEF LeftoverOp
  <2>4. mode # "async" /\ ~At("wait") => searchq = <<>>
    BY <2>1 DEF SearchShape
  <2> QED
    BY <1>1, <1>7, <2>2, <2>3, <2>4 DEF SearchShape, At
<1>11. EventOK'
  <2> SUFFICES ASSUME mode = "async" PROVE EventOK'
    BY <1>1 DEF EventOK
  <2>1. EventOK /\ SearchShape
    BY DEF SInv, StreamsOK
  <2>2. op.op = "record" <=> (IF InFlight THEN (n - 1) % 4 = 1 ELSE (n - 1) % 4 = 0)
    <3>1. CASE InFlight
      <4>1. InFlightOp(n - 1, op)
        BY <1>1, <2>1, <3>1 DEF SearchShape
      <4> QED
        BY <3>1, <4>1 DEF InFlightOp
    <3>2. CASE ~InFlight
      <4>1. LeftoverOp(n - 1, op)
        BY <1>1, <2>1, <3>2 DEF SearchShape
      <4> QED
        BY <3>2, <4>1 DEF LeftoverOp
    <3> QED
      BY <3>1, <3>2
  <2>3. Pending' = IF op.op = "record" THEN Pending - 1 ELSE Pending
    BY <1>0, <1>2 DEF Pending
  <2>4. Pending \in Int
    BY <1>0 DEF Pending
  <2>5. CASE InFlight
    <3>1. 4 * Pending <= n + 2 /\ n + 2 < 4 * Pending + 4 /\ (op.op = "record" <=> (n - 1) % 4 = 1)
      BY <1>1, <2>1, <2>2, <2>5 DEF EventOK
    <3>2. op.op = "record" <=> n + 2 = 4 * Pending
      BY <1>1, <2>4, <3>1, RecordInFlight
    <3>3. 4 * Pending' <= n + 1 /\ n + 1 < 4 * Pending' + 4
      BY <1>1, <2>3, <2>4, <3>1, <3>2
    <3> QED
      BY <1>1, <1>7, <2>5, <3>3 DEF EventOK
  <2>6. CASE ~InFlight
    <3>1. 4 * Pending <= n + 3 /\ n + 3 < 4 * Pending + 4 /\ (op.op = "record" <=> (n - 1) % 4 = 0)
      BY <1>1, <2>1, <2>2, <2>6 DEF EventOK
    <3>2. op.op = "record" <=> n + 3 = 4 * Pending
      BY <1>1, <2>4, <3>1, RecordLeft
    <3>3. 4 * Pending' <= n + 2 /\ n + 2 < 4 * Pending' + 4
      BY <1>1, <2>3, <2>4, <3>1, <3>2
    <3> QED
      BY <1>1, <1>7, <2>6, <3>3 DEF EventOK
  <2> QED
    BY <2>5, <2>6
<1>12. GateOK'
  <2>1. event'.queued = event.queued /\ event'.done >= event.done /\ event'.done \in Nat
    BY <1>0, <1>2
  <2> QED
    BY <1>0, <1>1, <1>7, <2>1 DEF SInv, StreamsOK, GateOK, FromEnd, At
<1>13. FlightOK'
  <2> SUFFICES ASSUME InFlight PROVE FlightOK'
    BY <1>7 DEF FlightOK
  <2>1. FlightOK /\ SearchShape /\ AfterGathers \in {1, 2}
    BY <1>0, ModeCases DEF SInv, StreamsOK
  <2>2. InFlightOp(n - 1, op)
    BY <1>1, <2>1 DEF SearchShape, n
  <2>3. n <= AfterGathers + 2 => dev.key = Here
    BY <1>1, <2>1 DEF FlightOK
  <2>4. n <= AfterGathers + 1 => dev.panel["A"] = Noised(Here)
    BY <1>1, <2>1 DEF FlightOK
  <2>5. n <= AfterGathers => dev.panel["Bt"] = Noised(Here)
    BY <1>1, <2>1 DEF FlightOK
  <2>6. n >= AfterGathers => dev.mat = Both(Noised(Here))
    BY <1>1, <2>1 DEF FlightOK
  <2>0. AfterGathers = IF mode = "async" THEN 2 ELSE 1
    BY DEF AfterGathers
  <2>7. CASE op.op = "setup"
    <3>1. n - 1 > AfterGathers + 1
      <4>1. n - 1 # 0 /\ n - 1 # AfterGathers /\ n - 1 # AfterGathers + 1
        BY <1>1, <2>2, <2>7 DEF InFlightOp, IsOp
      <4>2. mode = "async" => n - 1 # 1
        BY <1>1, <2>2, <2>7, SmallQuarters DEF InFlightOp
      <4> QED
        BY <1>1, <2>0, <4>1, <4>2
    <3>2. dev'.key = op.x /\ dev'.panel = dev.panel
      BY <1>0, <1>2, <2>7 DEF DevType
    <3>3. n - 1 = AfterGathers + 2 => op.x = Here
      BY <2>2 DEF InFlightOp
    <3> QED
      BY SMTT(30), <1>1, <1>4, <1>7, <1>8, <2>1, <2>3, <2>4, <2>5, <2>6, <3>1, <3>2, <3>3 DEF FlightOK
  <2>8. CASE op.op = "gather"
    <3>1. n - 1 # 0 /\ (n - 1 \in {AfterGathers, AfterGathers + 1} \/ n - 1 > AfterGathers + 2)
      <4>1. n - 1 # 0 /\ n - 1 # AfterGathers + 2
        BY <1>1, <2>2, <2>8 DEF InFlightOp, IsOp
      <4>2. mode = "async" => n - 1 # 1
        BY <1>1, <2>2, <2>8, SmallQuarters DEF InFlightOp
      <4>3. n \in Nat /\ n >= 1
        BY <1>1
      <4> HIDE DEF n
      <4>4. CASE mode = "async"
        <5>1. AfterGathers = 2
          BY <2>0, <4>4
        <5> QED
          BY <4>1, <4>2, <4>3, <4>4, <5>1
      <4>5. CASE mode # "async"
        <5>1. AfterGathers = 1
          BY <2>0, <4>5
        <5> QED
          BY <4>1, <4>3, <5>1
      <4> QED
        BY <4>4, <4>5
    <3>2. dev'.key = dev.key /\ \A m \in Matrices : dev'.panel[m] = IF m = op.m THEN dev.mat[m] ELSE dev.panel[m]
      BY <1>0, <1>2, <2>8 DEF DevType
    <3>3. (n - 1 = AfterGathers + 1 => op.m = "A") /\ (n - 1 = AfterGathers => op.m = "Bt")
      BY <2>2 DEF InFlightOp, IsOp
    <3>4. n - 1 <= AfterGathers + 1 => dev'.panel["A"] = Noised(Here)
      BY <1>1, <2>1, <2>4, <2>6, <3>1, <3>2, <3>3 DEF Both, Matrices
    <3>5. n - 1 <= AfterGathers => dev'.panel["Bt"] = Noised(Here)
      BY <1>1, <2>1, <2>5, <2>6, <3>1, <3>2, <3>3 DEF Both, Matrices
    <3>6. n - 1 <= AfterGathers + 2 => dev'.key = Here
      BY <1>1, <2>1, <2>3, <3>1, <3>2
    <3>7. n - 1 >= AfterGathers => dev'.mat = Both(Noised(Here))
      BY <1>1, <1>4, <2>1, <2>6
    <3>8. Both(Noised(Here))' = Both(Noised(Here))
      BY <1>8 DEF Both, Noised
    <3> QED
      BY <1>1, <1>7, <1>8, <2>1, <3>1, <3>4, <3>5, <3>6, <3>7, <3>8 DEF FlightOK
  <2>9. CASE op.op = "record"
    <3>1. n # 1 /\ n - 1 # AfterGathers + 2 /\ n - 1 # AfterGathers /\ n - 1 # AfterGathers + 1
      BY <1>1, <2>1, <2>2, <2>9 DEF InFlightOp, IsOp
    <3>2. dev' = dev
      BY <1>2, <2>9
    <3> QED
      BY SMTT(30), <1>1, <1>7, <1>8, <2>1, <2>3, <2>4, <2>5, <2>6, <3>1, <3>2 DEF FlightOK
  <2>10. CASE op.op = "search"
    <3>1. n = 1
      BY <1>1, <2>2, <2>10 DEF InFlightOp
    <3>2. PICK reported \in BOOLEAN : SearchDone(reported)
      BY <1>2, <2>10
    <3>3. dev.key = Here /\ dev.panel = Both(Noised(Here))
      BY <1>0, <2>1, <2>3, <2>4, <2>5, <3>1 DEF DevType, Both, Matrices
    <3>4. Here.a = host.a /\ Here.d = host.draw
      BY DEF Here, Id
    <3>5. dev' = [dev EXCEPT !.win = reported, !.tile = Here]
      BY <3>2, <3>3 DEF SearchDone
    <3>6. dev'.win = reported /\ dev'.tile = Here
      BY <1>0, <3>5 DEF DevType
    <3>7. hist'.fault \/ reported = (host.draw \in wins)
      BY <1>0, <3>2, <3>3, <3>4 DEF SearchDone, Searches, Fault, Typed, TypeOK, OtherTypes
    <3>8. dev'.key = dev.key /\ dev'.panel = dev.panel
      BY <1>0, <3>5 DEF DevType
    <3> QED
      BY <1>1, <1>4, <1>7, <1>8, <2>1, <2>3, <2>4, <2>5, <3>1, <3>6, <3>7, <3>8 DEF FlightOK
  <2> QED
    BY <1>2, <2>7, <2>8, <2>9, <2>10
<1> QED
  BY <1>5, <1>6, <1>9, <1>10, <1>11, <1>12, <1>13 DEF SInv, StreamsOK

(* One operation of the preparation, at the head of a queue of m. *)
LEMMA PrepTyped ==
  ASSUME IInv, PrepStream
  PROVE  /\ prepq # <<>> /\ Len(prepq) \in Nat /\ Len(prepq) > 0
         /\ prepq' \in Seq(PrepOps) /\ Len(prepq') = Len(prepq) - 1
         /\ Head(prepq) \in PrepOps /\ Head(prepq) = FromEnd(prepq, Len(prepq) - 1)
         /\ \A k \in 0..(Len(prepq) - 2) : FromEnd(prepq', k) = FromEnd(prepq, k)
         /\ UNCHANGED <<mode, wins, host, slot, prod, searchq, event, stop, hist>>
<1>1. prepq \in Seq(PrepOps) /\ prepq # <<>> /\ prepq' = Tail(prepq)
  BY DEF IInv, Typed, TypeOK, StreamsType, PrepStream
<1>2. Tail(prepq) \in Seq(PrepOps) /\ Head(prepq) \in PrepOps
  BY <1>1
<1> QED
  BY <1>1, <1>2, TailFromEnd DEF PrepStream

LEMMA PrepDone ==
  ASSUME IInv, PrepStream
  PROVE  LET op == Head(prepq)
         IN  /\ op.op \in {"wait", "rng", "hash", "noise"}
             /\ op.op = "wait" => event.done >= op.records
             /\ op.op # "hash" => data' = data
             /\ op.op \in {"wait", "hash"} => dev' = dev
             /\ dev'.panel = dev.panel /\ dev'.key = dev.key /\ dev'.win = dev.win /\ dev'.tile = dev.tile
             /\ data'.seeds = data.seeds /\ data'.perms = data.perms /\ data'.ab = data.ab
             /\ \A m \in Matrices :
                  /\ op.op = "rng" => dev'.mat[m] = IF m = op.m THEN Raw(op.x) ELSE dev.mat[m]
                  /\ op.op = "noise" => dev'.mat[m] = IF m # op.m THEN dev.mat[m]
                                                    ELSE IF dev.mat[m] = Raw(op.x) THEN Noised(op.x) ELSE Junk
                  /\ op.op = "hash" => data'.hash[m] = IF m # op.m THEN data.hash[m]
                                                     ELSE IF dev.mat[m].form = "raw" THEN dev.mat[m].of ELSE NoDraw
<1> DEFINE op == Head(prepq)
<1>1. op \in PrepOps /\ op.m \in Matrices
  BY PrepTyped DEF PrepOps
<1>2. DevType /\ DataType
  BY DEF IInv, Typed, TypeOK
<1>3. \/ op.op = "wait" /\ event.done >= op.records /\ UNCHANGED <<dev, data>>
      \/ op.op = "rng" /\ dev' = [dev EXCEPT !.mat[op.m] = Raw(op.x)] /\ UNCHANGED data
      \/ /\ op.op = "hash" /\ UNCHANGED dev
         /\ data' = [data EXCEPT !.hash[op.m] =
                       IF dev.mat[op.m].form = "raw" THEN dev.mat[op.m].of ELSE NoDraw]
      \/ /\ op.op = "noise" /\ UNCHANGED data
         /\ dev' = [dev EXCEPT !.mat[op.m] =
                      IF dev.mat[op.m] = Raw(op.x) THEN Noised(op.x) ELSE Junk]
  BY DEF PrepStream
<1> HIDE DEF op
<1>4. CASE op.op = "wait"
  BY <1>3, <1>4 DEF op
<1>5. CASE op.op = "rng"
  <2>1. dev' = [dev EXCEPT !.mat[op.m] = Raw(op.x)] /\ data' = data
    BY <1>3, <1>5
  <2> QED
    BY <1>1, <1>2, <1>5, <2>1 DEF DevType, op
<1>6. CASE op.op = "hash"
  <2> DEFINE h == IF dev.mat[op.m].form = "raw" THEN dev.mat[op.m].of ELSE NoDraw
  <2>1. data' = [data EXCEPT !.hash[op.m] = h] /\ dev' = dev
    BY <1>3, <1>6
  <2>2. \A m \in Matrices : data'.hash[m] = IF m # op.m THEN data.hash[m] ELSE h
    <3> HIDE DEF h
    <3> QED
      BY <1>1, <1>2, <2>1 DEF DataType
  <2>3. data'.seeds = data.seeds /\ data'.perms = data.perms /\ data'.ab = data.ab
    <3> HIDE DEF h
    <3> QED
      BY <1>1, <1>2, <2>1 DEF DataType
  <2> QED
    BY <1>6, <2>1, <2>2, <2>3 DEF op
<1>7. CASE op.op = "noise"
  <2> DEFINE c == IF dev.mat[op.m] = Raw(op.x) THEN Noised(op.x) ELSE Junk
  <2>1. dev' = [dev EXCEPT !.mat[op.m] = c] /\ data' = data
    BY <1>3, <1>7
  <2>2. \A m \in Matrices : dev'.mat[m] = IF m # op.m THEN dev.mat[m] ELSE c
    <3> HIDE DEF c
    <3> QED
      BY <1>1, <1>2, <2>1 DEF DevType
  <2>3. dev'.panel = dev.panel /\ dev'.key = dev.key /\ dev'.win = dev.win /\ dev'.tile = dev.tile
    <3> HIDE DEF c
    <3> QED
      BY <1>1, <1>2, <2>1 DEF DevType
  <2> QED
    BY <1>7, <2>1, <2>2, <2>3 DEF op
<1> QED
  BY <1>3, <1>4, <1>5, <1>6, <1>7 DEF op

LEMMA PrepStreamKeeps ==
  ASSUME IInv, SInv, PrepStream
  PROVE  SInv'
<1> DEFINE m == Len(prepq)
           op == Head(prepq)
           y == Id(host.next)
<1>0. /\ Typed /\ BuildOK /\ HostType /\ DevType /\ event \in [queued : Nat, done : Nat]
      /\ NextOK /\ SearchShape /\ EventOK /\ FlightOK /\ PrepShape /\ PrepOK /\ GateOK
  BY DEF IInv, SInv, StreamsOK, Typed, TypeOK, StreamsType
<1>1. /\ prepq # <<>> /\ m \in Nat /\ m > 0 /\ Len(prepq') = m - 1
      /\ op \in PrepOps /\ op = FromEnd(prepq, m - 1) /\ m = Len(prepq) /\ op = Head(prepq)
      /\ \A k \in 0..(m - 2) : FromEnd(prepq', k) = FromEnd(prepq, k)
      /\ UNCHANGED <<mode, wins, host, slot, prod, searchq, event, stop, hist>>
      /\ prepq' \in Seq(PrepOps) /\ (m - 1 = 0 <=> prepq' = <<>>)
      /\ (m - 1 > 0 => Head(prepq') = FromEnd(prepq', m - 2))
  <2>1. (m - 1 = 0 <=> prepq' = <<>>) /\ (m - 1 > 0 => Head(prepq') = FromEnd(prepq', m - 2))
    BY PrepTyped DEF FromEnd
  <2> QED
    BY <2>1, PrepTyped
<1>2. /\ op.op \in {"wait", "rng", "hash", "noise"}
      /\ op.op = "wait" => event.done >= op.records
      /\ op.op # "hash" => data' = data
      /\ op.op \in {"wait", "hash"} => dev' = dev
      /\ dev'.panel = dev.panel /\ dev'.key = dev.key /\ dev'.win = dev.win /\ dev'.tile = dev.tile
      /\ data'.seeds = data.seeds /\ data'.perms = data.perms /\ data'.ab = data.ab
      /\ \A x \in Matrices :
           /\ op.op = "rng" => dev'.mat[x] = IF x = op.m THEN Raw(op.x) ELSE dev.mat[x]
           /\ op.op = "noise" => dev'.mat[x] = IF x # op.m THEN dev.mat[x]
                                             ELSE IF dev.mat[x] = Raw(op.x) THEN Noised(op.x) ELSE Junk
           /\ op.op = "hash" => data'.hash[x] = IF x # op.m THEN data.hash[x]
                                              ELSE IF dev.mat[x].form = "raw" THEN dev.mat[x].of ELSE NoDraw
  BY PrepDone
<1> HIDE DEF m, op
<1>3. \/ host.pc \in {"prime"} \cup Preparing
      \/ At("top") /\ (stop \/ MaxDraws = 0)
      \/ At("over") \/ At("returned")
  BY <1>1 DEF IInv, QuietOK
<1>4. mode # "cpu" /\ prod = NoProducer
  BY <1>0, <1>1 DEF BuildOK
<1>5. ResultOK'
  BY <1>1, ResultsBeside DEF SInv
<1>6. LoopOK'
  <2>1. GpuReady'
    BY <1>0, <1>1, <1>3 DEF GpuReady, At, HostType, Preparing
  <2>2. CpuReady'
    BY <1>1, <1>4 DEF CpuReady
  <2>3. ProducerOK'
    BY <1>1, <1>4 DEF ProducerOK, NoProducer
  <2> QED
    BY <2>1, <2>2, <2>3 DEF LoopOK
<1>7. /\ InFlight' <=> InFlight
      /\ Here' = Here /\ AfterGathers' = AfterGathers /\ Both(Noised(Here))' = Both(Noised(Here))
      /\ (FromEnd(searchq, 0))' = FromEnd(searchq, 0)
  BY <1>1 DEF InFlight, At, Here, Id, AfterGathers, Both, Noised, FromEnd
<1>8. NextOK' /\ EventOK' /\ SearchShape'
  <2>1. NextOK'
    BY <1>0, <1>1 DEF NextOK, At
  <2>2. EventOK'
    BY <1>0, <1>1, <1>7 DEF EventOK, Pending
  <2>3. SearchShape'
    BY <1>0, <1>1, <1>7 DEF SearchShape, InFlightOp, LeftoverOp, FromEnd, At
  <2> QED
    BY <2>1, <2>2, <2>3
<1>9. ASSUME InFlight PROVE FlightOK' /\ GateOK'
  <2>1. mode = "async" /\ host.pc \in Preparing /\ host.next > 0 /\ host.pc # "phase1"
    BY <1>0, <1>1, <1>3, <1>9 DEF InFlight, NextOK, At, Preparing
  <2>2. \/ op.op = "wait"
        \/ op.op # "wait" /\ event.done >= event.queued
    BY <1>0, <1>1, <1>9, <2>1 DEF GateOK
  <2>3. op.op = "wait" => event.done >= event.queued
    BY <1>0, <1>1, <1>2, <1>9, <2>1 DEF GateOK
  <2>4. FlightOK'
    <3>1. CASE op.op = "wait"
      BY <1>0, <1>1, <1>2, <1>7, <1>9, <3>1 DEF FlightOK
    <3>2. CASE op.op # "wait"
      <4>1. Len(searchq) < 2 /\ AfterGathers = 2 /\ Len(searchq) \in Nat
        <5>1. Len(searchq) \in Nat
          BY <1>0 DEF Typed, TypeOK, StreamsType
        <5>2. Pending \in Int /\ Pending <= 0
          BY <1>0, <2>2, <3>2 DEF Pending
        <5>3. Len(searchq) + 2 < 4 * Pending + 4
          BY <1>0, <1>9, <2>1 DEF EventOK
        <5> QED
          BY <2>1, <5>1, <5>2, <5>3 DEF AfterGathers
      <4> QED
        BY <1>0, <1>1, <1>2, <1>7, <1>9, <4>1 DEF FlightOK
    <3> QED
      BY <3>1, <3>2
  <2>5. GateOK'
    <3>1. \A k \in 0..(m - 2) : FromEnd(prepq', k).op # "wait"
      <4> TAKE k \in 0..(m - 2)
      <4>1. FromEnd(prepq', k) = FromEnd(prepq, k) /\ k \in 0..(m - 1) /\ k # m - 1
        BY <1>1
      <4> QED
        BY <1>0, <1>1, <1>9, <2>1, <4>1 DEF GateOK
    <3>2. event.done >= event.queued
      BY <2>2, <2>3
    <3> QED
      BY <1>1, <3>1, <3>2 DEF GateOK
  <2> QED
    BY <2>4, <2>5
<1>10. ASSUME ~InFlight PROVE FlightOK' /\ GateOK'
  BY <1>7, <1>10 DEF FlightOK, GateOK
<1>11. PrepShape'
  <2>1. CASE host.pc \notin {"sync1", "sync2"}
    <3>1. \A k \in 0..(m - 2) : FromEnd(prepq', k).op \in Filling
      <4> TAKE k \in 0..(m - 2)
      <4>1. k \in 0..(m - 1) /\ FromEnd(prepq', k) = FromEnd(prepq, k)
        BY <1>1
      <4> QED
        BY <1>0, <1>1, <2>1, <4>1 DEF PrepShape
    <3> QED
      BY <1>1, <2>1, <3>1 DEF PrepShape, At
  <2>2. CASE At("sync1")
    BY SMTT(60), <1>0, <1>1, <2>2 DEF PrepShape, At, IsOp, Id
  <2>3. CASE At("sync2")
    BY SMTT(60), <1>0, <1>1, <2>3 DEF PrepShape, At, IsOp, Id
  <2> QED
    BY <2>1, <2>2, <2>3 DEF At
<1>12. PrepOK'
  <2>0. y' = y /\ Raw(y).form = "raw" /\ Raw(y).of = y /\ Matrices = {"A", "Bt"}
    BY <1>1 DEF Id, Raw, Matrices
  <2>1. ASSUME At("sync1")
        PROVE  /\ m - 1 <= 3 => dev'.mat["A"] = Raw(y)
               /\ m - 1 <= 2 => dev'.mat["Bt"] = Raw(y)
               /\ m - 1 <= 1 => data'.hash["A"] = y
               /\ m - 1 = 0 => data'.hash["Bt"] = y
    <3>1. /\ m = 1 => IsOp(op, "hash", "Bt")
          /\ m = 2 => IsOp(op, "hash", "A")
          /\ m = 3 => IsOp(op, "rng", "Bt") /\ op.x = y
          /\ m = 4 => IsOp(op, "rng", "A") /\ op.x = y
      BY SMTT(60), <1>0, <1>1, <2>1 DEF PrepShape
    <3>2. /\ m <= 3 => dev.mat["A"] = Raw(y)
          /\ m <= 2 => dev.mat["Bt"] = Raw(y)
          /\ m <= 1 => data.hash["A"] = y
      BY <1>0, <1>1, <2>1 DEF PrepOK
    <3> HIDE DEF y
    <3>3. CASE m = 1
      BY <1>2, <2>0, <3>1, <3>2, <3>3 DEF IsOp
    <3>4. CASE m = 2
      BY <1>2, <2>0, <3>1, <3>2, <3>4 DEF IsOp
    <3>5. CASE m = 3
      BY <1>2, <2>0, <3>1, <3>2, <3>5 DEF IsOp
    <3>6. CASE m = 4
      BY <1>2, <2>0, <3>1, <3>2, <3>6 DEF IsOp
    <3>7. CASE m > 4
      BY <1>1, <3>7
    <3>8. m \in Nat /\ m >= 1
      BY <1>1
    <3>9. m = 1 \/ m = 2 \/ m = 3 \/ m = 4 \/ m > 4
      <4> HIDE DEF m
      <4> QED
        BY <3>8
    <3> QED
      BY ZenonT(30), <3>3, <3>4, <3>5, <3>6, <3>7, <3>9
  <2>2. ASSUME At("sync2")
        PROVE  /\ data'.seeds = y
               /\ dev'.mat["A"] = IF m - 1 = 2 THEN Raw(y) ELSE Noised(y)
               /\ dev'.mat["Bt"] = IF m - 1 >= 1 THEN Raw(y) ELSE Noised(y)
    <3>1. /\ m = 1 => IsOp(op, "noise", "Bt") /\ op.x = y
          /\ m = 2 => IsOp(op, "noise", "A") /\ op.x = y
          /\ m - 1 < 2
      <4>1. m - 1 \in 0..(m - 1)
        BY <1>1
      <4>2. /\ m - 1 = 0 => IsOp(op, "noise", "Bt") /\ op.x = y
            /\ m - 1 = 1 => IsOp(op, "noise", "A") /\ op.x = y
            /\ m - 1 < 2
        BY <1>0, <1>1, <2>2, <4>1 DEF PrepShape
      <4> QED
        BY <1>1, <4>2
    <3>2. /\ data.seeds = y
          /\ dev.mat["A"] = IF m = 2 THEN Raw(y) ELSE Noised(y)
          /\ dev.mat["Bt"] = IF m >= 1 THEN Raw(y) ELSE Noised(y)
      BY <1>0, <1>1, <2>2 DEF PrepOK
    <3> HIDE DEF y
    <3>3. CASE m = 1
      BY <1>2, <2>0, <3>1, <3>2, <3>3 DEF IsOp
    <3>4. CASE m = 2
      BY <1>2, <2>0, <3>1, <3>2, <3>4 DEF IsOp
    <3>5. m = 1 \/ m = 2
      <4>1. m \in Nat /\ m >= 1 /\ m - 1 < 2
        BY <1>1, <3>1
      <4> HIDE DEF m
      <4> QED
        BY <4>1
    <3> QED
      BY ZenonT(30), <3>3, <3>4, <3>5
  <2>3. UNCHANGED host
    BY <1>1
  <2> QED
    BY <1>1, <2>0, <2>1, <2>2, <2>3 DEF PrepOK, At
<1> QED
  BY <1>5, <1>6, <1>8, <1>9, <1>10, <1>11, <1>12 DEF SInv, StreamsOK

(* What the device does not see leaves the streams as they are. *)
LEMMA StreamsBeside ==
  ASSUME StreamsOK, UNCHANGED <<mode, wins, host, dev, prepq, searchq, event>>,
         data' = data \/ ~(At("sync1") \/ At("sync2")), hist' = hist \/ hist'.fault
  PROVE  StreamsOK'
<1>1. /\ InFlight' <=> InFlight
      /\ Here' = Here /\ AfterGathers' = AfterGathers
  BY DEF InFlight, At, Here, Id, AfterGathers
<1>2. NextOK' /\ EventOK' /\ GateOK'
  BY <1>1 DEF StreamsOK, NextOK, EventOK, Pending, GateOK, At, FromEnd
<1>3. SearchShape'
  BY <1>1 DEF StreamsOK, SearchShape, InFlightOp, LeftoverOp, At, FromEnd
<1>4. FlightOK'
  BY <1>1 DEF StreamsOK, FlightOK, Both, Noised
<1>5. PrepShape'
  BY DEF StreamsOK, PrepShape, At, FromEnd, Id
<1>6. PrepOK'
  BY DEF StreamsOK, PrepOK, At, Id, Raw, Noised
<1> QED
  BY <1>2, <1>3, <1>4, <1>5, <1>6 DEF StreamsOK

LEMMA ProducerKeeps ==
  ASSUME IInv, SInv, Producer
  PROVE  SInv'
<1>0. /\ Typed /\ HostType /\ ProducerType /\ DataType /\ BuildOK
      /\ StreamsOK /\ LoopOK /\ ResultOK /\ CpuReady /\ ProducerOK
  BY DEF IInv, SInv, LoopOK, Typed, TypeOK
<1>1. prod.pc \in {"fill", "hash", "A", "Bt"} /\ UNCHANGED <<mode, wins, host, dev, prepq, searchq, event, stop, hist>>
  BY DEF Producer, gpu
<1>2. mode = "cpu" /\ host.pc \in {"launch", "wait", "join"}
  BY <1>0, <1>1 DEF BuildOK, NoProducer
<1>3. StreamsOK' /\ ResultOK'
  BY <1>0, <1>1, <1>2, StreamsBeside, ResultsBeside DEF At
<1>4. Ahead1 = Ahead1' /\ Here' = Here
  BY <1>1 DEF Ahead1, Here, Id
<1>5. /\ prod.id = Ahead1 /\ prod.s = 1 - host.cur /\ prod.s \in 0..1 /\ host.cur \in 0..1
      /\ prod.s # host.cur
  BY <1>0, <1>1 DEF ProducerOK, ProducerType, HostType
<1>6. slot \in [0..1 -> [mat : [Matrices -> Contents], seed : Ids]] /\ prod \in [pc : {"off", "fill", "hash", "A", "Bt", "done"}, id : Ids, s : 0..1]
  BY <1>0 DEF ProducerType
<1>7. ProducerOK' /\ prod'.pc # "off" /\ slot'[host.cur] = slot[host.cur]
  <2>1. CASE prod.pc = "fill"
    <3>1. data' = [data EXCEPT !.ab = prod.id] /\ prod' = [prod EXCEPT !.pc = "hash"] /\ slot' = slot
      BY <2>1 DEF Producer
    <3> QED
      BY <1>0, <1>1, <1>4, <1>5, <1>6, <3>1 DEF ProducerOK, DataType
  <2>2. CASE prod.pc = "hash"
    <3>1. data' = Produced(data.ab) /\ prod' = [prod EXCEPT !.pc = "A"] /\ slot' = slot
      BY <2>2 DEF Producer
    <3>2. data.ab = Ahead1
      BY <1>0, <2>2 DEF ProducerOK
    <3>3. Produced(Ahead1)' = Produced(Ahead1)
      BY <1>4 DEF Produced, Both
    <3> QED
      BY <1>1, <1>4, <1>5, <1>6, <3>1, <3>2, <3>3 DEF ProducerOK
  <2>3. CASE prod.pc = "A"
    <3>1. slot' = [slot EXCEPT ![prod.s].mat["A"] = Built] /\ prod' = [prod EXCEPT !.pc = "Bt"] /\ data' = data
      BY <2>3 DEF Producer
    <3>2. data = Produced(Ahead1)
      BY <1>0, <2>3 DEF ProducerOK
    <3>3. Built = Noised(Ahead1)
      BY <3>2 DEF Built, Produced
    <3>4. slot'[prod.s].mat["A"] = Noised(Ahead1) /\ slot'[host.cur] = slot[host.cur]
      BY <1>5, <1>6, <3>1, <3>3 DEF Matrices
    <3>5. Produced(Ahead1)' = Produced(Ahead1) /\ Noised(Ahead1)' = Noised(Ahead1)
      BY <1>4 DEF Produced, Both, Noised
    <3>6. prod'.pc = "Bt" /\ prod'.id = prod.id /\ prod'.s = prod.s
      BY <1>6, <3>1
    <3> QED
      BY <1>1, <1>4, <1>5, <3>1, <3>2, <3>4, <3>5, <3>6 DEF ProducerOK
  <2>4. CASE prod.pc = "Bt"
    <3>1. slot' = [slot EXCEPT ![prod.s] = [mat |-> [slot[prod.s].mat EXCEPT !["Bt"] = Built], seed |-> data.seeds]]
      BY <2>4 DEF Producer
    <3>2. prod' = [prod EXCEPT !.pc = "done"] /\ data' = data
      BY <2>4 DEF Producer
    <3>3. data = Produced(Ahead1) /\ slot[prod.s].mat["A"] = Noised(Ahead1)
      BY <1>0, <2>4 DEF ProducerOK
    <3>4. Built = Noised(Ahead1) /\ data.seeds = Ahead1
      BY <3>3 DEF Built, Produced
    <3>5. [slot[prod.s].mat EXCEPT !["Bt"] = Built] = Both(Noised(Ahead1))
      BY <1>5, <1>6, <3>3, <3>4 DEF Both, Matrices
    <3>6. slot'[prod.s] = [mat |-> Both(Noised(Ahead1)), seed |-> Ahead1] /\ slot'[host.cur] = slot[host.cur]
      BY <1>5, <1>6, <3>1, <3>4, <3>5
    <3>7. prod'.pc = "done" /\ prod'.id = prod.id /\ prod'.s = prod.s
      BY <1>6, <3>2
    <3>8. Both(Noised(Ahead1))' = Both(Noised(Ahead1))
      BY <1>4 DEF Both, Noised
    <3> QED
      BY <1>1, <1>4, <1>5, <3>6, <3>7, <3>8 DEF ProducerOK, InSlot
  <2> QED
    BY <1>1, <2>1, <2>2, <2>3, <2>4
<1>8. CpuReady'
  <2>1. Both(Noised(Here))' = Both(Noised(Here))
    BY <1>4 DEF Both, Noised
  <2> QED
    BY <1>0, <1>1, <1>2, <1>4, <1>7, <2>1 DEF CpuReady, At, InSlot
<1> QED
  BY <1>1, <1>2, <1>3, <1>7, <1>8 DEF SInv, LoopOK, GpuReady

LEMMA BesideKeepsAll ==
  ASSUME IInv, SInv, Beside
  PROVE  SInv'
<1>1. CASE RaiseStop
  <2>1. UNCHANGED <<mode, wins, host, data, dev, prepq, searchq, event, slot, prod, hist>> /\ stop'
    BY <1>1 DEF RaiseStop, gpu, cpu
  <2>2. StreamsOK' /\ ResultOK'
    BY <2>1, StreamsBeside, ResultsBeside DEF SInv
  <2>3. LoopOK'
    BY <2>1 DEF SInv, LoopOK, GpuReady, CpuReady, ProducerOK, At, HasMore, OnGpu, InSlot, Here, Ahead1, Id,
       Produced, Both, Noised
  <2> QED
    BY <2>2, <2>3 DEF SInv
<1>2. CASE UNCHANGED vars
  <2>1. UNCHANGED <<mode, wins, host, data, dev, prepq, searchq, event, slot, prod, stop, hist>>
    BY <1>2 DEF vars
  <2>2. StreamsOK' /\ ResultOK'
    BY <2>1, StreamsBeside, ResultsBeside DEF SInv
  <2>3. LoopOK'
    BY <2>1 DEF SInv, LoopOK, GpuReady, CpuReady, ProducerOK, At, HasMore, OnGpu, InSlot, Here, Ahead1, Id,
       Produced, Both, Noised
  <2> QED
    BY <2>2, <2>3 DEF SInv
<1> QED
  BY <1>1, <1>2, ProducerKeeps, PrepStreamKeeps, SearchStreamKeeps DEF Beside, Over

-----------------------------------------------------------------------------
(* The steps of the loop: what they leave of the streams. *)

SearchOK == SearchShape /\ EventOK /\ FlightOK

(* No search is under way, before and after. *)
LEMMA Idle ==
  ASSUME SearchOK, ~InFlight, ~InFlight', UNCHANGED <<mode, searchq, event>>
  PROVE  SearchOK' /\ GateOK'
<1>1. ~At("wait") /\ ~At("wait")'
  BY DEF InFlight
<1>2. SearchShape'
  BY <1>1 DEF SearchOK, SearchShape, LeftoverOp, FromEnd
<1>3. EventOK'
  BY DEF SearchOK, EventOK, Pending
<1> QED
  BY <1>2, <1>3 DEF SearchOK, FlightOK, GateOK

(* The search has been waited for. *)
LEMMA Landed ==
  ASSUME SearchOK, searchq = <<>>, ~InFlight', UNCHANGED <<mode, searchq, event>>,
         event \in [queued : Nat, done : Nat]
  PROVE  SearchOK' /\ GateOK'
<1>1. Len(searchq) = 0 /\ Len(searchq') = 0 /\ Pending \in Int /\ Pending' = Pending /\ ~At("wait")'
  BY DEF Pending, InFlight
<1>2. SearchShape'
  BY <1>1 DEF SearchShape
<1>3. EventOK'
  BY <1>1 DEF SearchOK, EventOK
<1> QED
  BY <1>2, <1>3 DEF SearchOK, FlightOK, GateOK

(* The search goes on. *)
LEMMA Flying ==
  ASSUME SearchOK, InFlight, InFlight', UNCHANGED <<mode, wins, dev, searchq, event>>,
         host'.draw = host.draw, host'.a = host.a, hist'.fault = hist.fault \/ hist'.fault
  PROVE  SearchOK'
<1>1. Here' = Here /\ AfterGathers' = AfterGathers /\ Both(Noised(Here))' = Both(Noised(Here))
  BY DEF Here, Id, AfterGathers, Both, Noised
<1>2. SearchShape'
  BY <1>1 DEF SearchOK, SearchShape, InFlightOp, FromEnd, InFlight, At
<1>3. EventOK'
  BY DEF SearchOK, EventOK, Pending
<1>4. FlightOK'
  BY <1>1 DEF SearchOK, FlightOK
<1> QED
  BY <1>2, <1>3, <1>4 DEF SearchOK

(* The preparation is not started or is over. *)
LEMMA Unprepared ==
  ASSUME PrepShape, UNCHANGED prepq, host'.pc \notin {"sync1", "sync2"},
         host.pc \notin {"sync1", "sync2"} \/ prepq = <<>>
  PROVE  PrepShape' /\ PrepOK'
<1>1. PrepOK'
  BY DEF PrepOK, At
<1>2. CASE prepq = <<>>
  BY <1>1, <1>2 DEF PrepShape, At
<1>3. CASE host.pc \notin {"sync1", "sync2"}
  BY <1>1, <1>3 DEF PrepShape, At, FromEnd
<1> QED
  BY <1>2, <1>3

(* What the steps of the loop that only move leave alone besides.           *)
KeptRest == host'.ok = host.ok /\ host'.hit = host.hit /\ host'.cur = host.cur /\ host'.draws = host.draws

LEMMA Goes ==
  ASSUME HostType, NEW pc \in Points, Goto(pc)
  PROVE  host'.pc = pc /\ Kept /\ KeptWin /\ KeptRest /\ host'.rc = host.rc
BY DEF HostType, Goto, Kept, KeptWin, KeptRest

LEMMA Returns ==
  ASSUME HostType, NEW rc \in {0, 2, 4}, Return(rc)
  PROVE  host'.pc = "returned" /\ Kept /\ KeptWin /\ KeptRest /\ host'.rc = rc
BY DEF HostType, Return, Points, Kept, KeptWin, KeptRest

LEMMA SamePlaces ==
  ASSUME Kept
  PROVE  /\ Here' = Here /\ Ahead1' = Ahead1 /\ Id(host.next)' = Id(host.next)
         /\ Both(Noised(Here))' = Both(Noised(Here)) /\ Both(Noised(Ahead1))' = Both(Noised(Ahead1))
         /\ Noised(Ahead1)' = Noised(Ahead1) /\ Produced(Ahead1)' = Produced(Ahead1)
BY DEF Kept, Here, Ahead1, Id, Both, Noised, Produced

-----------------------------------------------------------------------------
(* The steps of the loop, one by one. *)

LEMMA Parts ==
  ASSUME IInv, SInv
  PROVE  /\ Typed /\ HostType /\ DataType /\ ProducerType /\ DevType /\ OtherTypes
         /\ prepq \in Seq(PrepOps) /\ searchq \in Seq(SearchOps) /\ event \in [queued : Nat, done : Nat]
         /\ DrawOK /\ BuildOK /\ QuietOK /\ ProvenOK
         /\ NextOK /\ SearchOK /\ PrepShape /\ PrepOK /\ GateOK
         /\ GpuReady /\ CpuReady /\ ProducerOK /\ AnswerOK /\ PastOK /\ TileOK /\ LossOK /\ CountOK
         /\ MaxDraws \in Nat /\ mode \in {"async", "sync", "cpu"}
         /\ host.draw \in Nat /\ host.next \in Nat
BY BoundsAssumption, ModeCases DEF IInv, Typed, TypeOK, StreamsType, SInv, StreamsOK, SearchOK, LoopOK, ResultOK, HostType

LEMMA Whole ==
  ASSUME NextOK', SearchOK', PrepShape', PrepOK', GateOK', GpuReady', CpuReady', ProducerOK',
         AnswerOK', PastOK', TileOK', LossOK', CountOK'
  PROVE  SInv'
BY DEF SInv, StreamsOK, SearchOK, LoopOK, ResultOK

LEMMA PrimeKeepsAll ==
  ASSUME IInv, SInv, Prime
  PROVE  SInv'
<1> USE Parts
<1>1. /\ At("prime") /\ host.draw = 0 /\ host.next = 0 /\ host.cur = 0 /\ ~host.found /\ prod.pc = "off"
      /\ UNCHANGED <<mode, wins, prod, dev, prepq, searchq, event, stop, hist>>
      /\ hist.fault \in BOOLEAN
  BY DEF Prime, gpu, DrawOK, ProvenOK, BuildOK, NoProducer, At, NextOK, HostType, OtherTypes
<1>2. /\ host'.pc \in {"phase1", "top", "over"} /\ Kept /\ KeptWin /\ KeptRest /\ host'.rc = host.rc
      /\ host'.pc = "phase1" => mode # "cpu"
      /\ host'.pc = "over" => mode = "cpu" /\ (stop \/ MaxDraws = 0)
      /\ host'.pc = "top" =>
           \/ mode # "cpu" /\ (stop \/ MaxDraws = 0)
           \/ mode = "cpu" /\ slot' = [slot EXCEPT ![0] = [mat |-> Both(Noised(Id(0))), seed |-> Id(0)]]
  BY Goes DEF Prime, Points
<1>3. ~InFlight /\ ~InFlight'
  BY <1>1, <1>2 DEF InFlight, At, Preparing, Kept
<1>4. NextOK' /\ SearchOK' /\ GateOK' /\ PrepShape' /\ PrepOK'
  <2>1. SearchOK' /\ GateOK'
    BY <1>1, <1>3, Idle
  <2>2. PrepShape' /\ PrepOK'
    BY <1>1, <1>2, Unprepared DEF At
  <2>3. NextOK'
    BY <1>1, <1>2 DEF NextOK, At, Kept, Preparing
  <2> QED
    BY <2>1, <2>2, <2>3
<1>5. GpuReady' /\ CpuReady' /\ ProducerOK'
  <2>1. GpuReady'
    BY <1>1, <1>2 DEF GpuReady, At, Kept
  <2>2. CpuReady'
    <3>1. CASE mode = "cpu" /\ host'.pc = "top"
      <4>1. slot'[0] = [mat |-> Both(Noised(Id(0))), seed |-> Id(0)]
        BY <1>2, <3>1 DEF ProducerType
      <4>2. Here' = Id(0) /\ Both(Noised(Here))' = Both(Noised(Id(0)))
        BY <1>1, <1>2 DEF Here, Id, Kept, Both, Noised
      <4> QED
        BY <1>1, <1>2, <3>1, <4>1, <4>2 DEF CpuReady, At, InSlot, KeptRest
    <3>2. CASE ~(mode = "cpu" /\ host'.pc = "top")
      BY <1>1, <1>2, <3>2 DEF CpuReady, At
    <3> QED
      BY <3>1, <3>2
  <2>3. ProducerOK'
    BY <1>1 DEF ProducerOK
  <2> QED
    BY <2>1, <2>2, <2>3
<1>6. AnswerOK' /\ PastOK' /\ TileOK' /\ LossOK' /\ CountOK'
  <2>1. ~InHand' /\ ~Counted' /\ ~Counted
    BY <1>1, <1>2 DEF InHand, Counted, At, Kept, KeptWin, Preparing
  <2>2. AnswerOK'
    BY <1>1, <1>2, <2>1 DEF AnswerOK, At, Kept, Preparing
  <2>3. PastOK' /\ TileOK'
    BY <1>1, <1>2 DEF PastOK, TileOK, At, Kept, KeptWin
  <2>4. LossOK' /\ CountOK'
    BY <1>1, <1>2, <2>1 DEF LossOK, CountOK, At, Kept, KeptWin
  <2> QED
    BY <2>2, <2>3, <2>4
<1> QED
  BY <1>4, <1>5, <1>6, Whole

(* A step from one phase of a preparation to the next. *)
LEMMA Preparation ==
  ASSUME IInv, SInv, host.pc \in Preparing, host'.pc \in Preparing,
         Kept, KeptWin, KeptRest, host'.rc = host.rc,
         UNCHANGED <<mode, wins, slot, prod, stop, searchq, event>>, dev' = dev,
         hist' = hist \/ hist'.fault, host'.pc = "drain" => hist'.fault
  PROVE  /\ InFlight' <=> InFlight
         /\ SearchOK' /\ GpuReady' /\ CpuReady' /\ ProducerOK'
         /\ AnswerOK' /\ PastOK' /\ TileOK' /\ LossOK' /\ CountOK'
<1> USE Parts
<1>1. /\ host'.pc \notin {"prime", "top", "spawn", "launch", "ahead", "wait", "join", "judge", "rederive",
                         "over", "postcheck", "proof", "returned"}
      /\ host.pc \notin {"prime", "top", "spawn", "launch", "ahead", "wait", "join", "judge", "rederive",
                         "over", "postcheck", "proof", "returned"}
  BY DEF Preparing
<1>2. InFlight' <=> InFlight
  BY <1>1 DEF InFlight, At, Kept
<1>3. SearchOK'
  BY <1>2, Idle, Flying DEF Kept
<1>4. prod.pc = "off"
  BY <1>1 DEF BuildOK, NoProducer
<1>5. GpuReady' /\ CpuReady' /\ ProducerOK'
  BY <1>1, <1>4 DEF GpuReady, CpuReady, ProducerOK, At
<1>6. InHand' <=> InHand
  BY <1>1 DEF InHand, At, Kept
<1>7. Here' = Here
  BY SamePlaces
<1>8. AnswerOK' /\ PastOK'
  BY <1>1, <1>6, <1>7 DEF AnswerOK, PastOK, At, Kept, KeptRest
<1>9. TileOK' /\ LossOK'
  BY <1>1 DEF TileOK, LossOK, At
<1>10. CountOK'
  BY <1>1, <1>6 DEF CountOK, Counted, At, Kept
<1> QED
  BY <1>2, <1>3, <1>5, <1>8, <1>9, <1>10

LEMMA FirstPhase ==
  ASSUME IInv, SInv, NEW x \in Ids, Id(host.next)' = x, At("phase1"), At("sync1")',
         prepq' = prepq \o Fill(x) \o Hashes(x)
  PROVE  /\ PrepShape' /\ PrepOK'
         /\ prepq = <<>> /\ mode = "async" =>
              /\ Len(prepq') = 5 /\ FromEnd(prepq', 4) = WaitFor(event.queued)
              /\ \A k \in 0..3 : FromEnd(prepq', k).op # "wait"
<1>0. Typed /\ prepq \in Seq(PrepOps) /\ PrepShape
  BY Parts
<1> DEFINE f == Fill(x)
           h == Hashes(x)
           F == Len(f)
           p == prepq \o f
<1>1. /\ f \in Seq(PrepOps) /\ h \in Seq(PrepOps) /\ F \in {2, 3} /\ Len(h) = 2 /\ F \in Nat
      /\ FromEnd(f, 0) = Op("rng", "Bt", x) /\ FromEnd(f, 1) = Op("rng", "A", x)
      /\ F = 3 => FromEnd(f, 2) = WaitFor(event.queued)
      /\ FromEnd(h, 0) = Op("hash", "Bt", x) /\ FromEnd(h, 1) = Op("hash", "A", x)
  <2>1. /\ mode = "async" => F = 3
        /\ mode # "async" => F = 2
    BY <1>0, FillFromEnd
  <2>2. F = 3 => mode = "async"
    BY <2>1
  <2>3. F \in {2, 3} /\ F \in Nat
    BY <2>1
  <2>4. /\ f \in Seq(PrepOps) /\ FromEnd(f, 0) = Op("rng", "Bt", x) /\ FromEnd(f, 1) = Op("rng", "A", x)
        /\ mode = "async" => FromEnd(f, 2) = WaitFor(event.queued)
    BY <1>0, FillFromEnd
  <2>5. /\ h \in Seq(PrepOps) /\ Len(h) = 2
        /\ FromEnd(h, 0) = Op("hash", "Bt", x) /\ FromEnd(h, 1) = Op("hash", "A", x)
    BY <1>0, PairsFromEnd
  <2> QED
    BY <2>2, <2>3, <2>4, <2>5
<1> HIDE DEF f, h
<1>2. /\ p \in Seq(PrepOps) /\ Len(p) = Len(prepq) + F /\ Len(prepq) \in Nat
      /\ \A k \in 0..(F - 1) : FromEnd(p, k) = FromEnd(f, k)
      /\ \A k \in F..(Len(prepq) + F - 1) : FromEnd(p, k) = FromEnd(prepq, k - F)
  BY <1>0, <1>1, ConcatFromEnd
<1>3. prepq' = p \o h
  BY DEF f, h
<1> HIDE DEF p, F
<1>4. /\ Len(prepq') = Len(prepq) + F + 2
      /\ \A k \in 0..1 : FromEnd(prepq', k) = FromEnd(h, k)
      /\ \A k \in 2..(Len(prepq) + F + 1) : FromEnd(prepq', k) = FromEnd(p, k - 2)
  <2>1. /\ Len(p \o h) = Len(p) + Len(h)
        /\ \A k \in 0..(Len(h) - 1) : FromEnd(p \o h, k) = FromEnd(h, k)
        /\ \A k \in Len(h)..(Len(p) + Len(h) - 1) : FromEnd(p \o h, k) = FromEnd(p, k - Len(h))
    <3>1. p \in Seq(PrepOps) /\ h \in Seq(PrepOps)
      BY <1>1, <1>2
    <3> QED
      BY <3>1, ConcatFromEnd
  <2> QED
    BY <1>1, <1>2, <1>3, <2>1
<1>5. /\ FromEnd(prepq', 0) = Op("hash", "Bt", x) /\ FromEnd(prepq', 1) = Op("hash", "A", x)
      /\ FromEnd(prepq', 2) = Op("rng", "Bt", x) /\ FromEnd(prepq', 3) = Op("rng", "A", x)
  BY <1>1, <1>2, <1>4
<1>6. \A k \in 4..(Len(prepq) + F + 1) : FromEnd(prepq', k).op \in Filling
  <2> TAKE k \in 4..(Len(prepq) + F + 1)
  <2>1. FromEnd(prepq', k) = FromEnd(p, k - 2)
    BY <1>1, <1>2, <1>4
  <2>2. CASE k - 2 < F
    <3>1. F = 3 /\ k - 2 = 2
      BY <1>1, <2>2
    <3> QED
      BY <1>1, <1>2, <2>1, <3>1 DEF WaitFor, Filling
  <2>3. CASE k - 2 >= F
    <3>1. k - 2 - F \in 0..(Len(prepq) - 1) /\ k - 2 \in F..(Len(prepq) + F - 1)
      BY <1>1, <1>2, <2>3
    <3>2. FromEnd(prepq, k - 2 - F).op \in Filling
      BY <1>0, <3>1 DEF PrepShape, At
    <3> QED
      BY <1>2, <2>1, <3>1, <3>2
  <2> QED
    BY <1>1, <1>2, <2>2, <2>3
<1>7. Id(host.next)' = x
  OBVIOUS
<1>8. PrepShape'
  <2> SUFFICES ASSUME NEW k \in 0..(Len(prepq') - 1)
               PROVE  LET op == FromEnd(prepq', k)
                      IN  /\ k = 0 => IsOp(op, "hash", "Bt")
                          /\ k = 1 => IsOp(op, "hash", "A")
                          /\ k = 2 => IsOp(op, "rng", "Bt") /\ op.x = x
                          /\ k = 3 => IsOp(op, "rng", "A") /\ op.x = x
                          /\ k > 3 => op.op \in Filling
    BY <1>7 DEF PrepShape, At
  <2>1. k > 3 => FromEnd(prepq', k).op \in Filling
    BY <1>1, <1>2, <1>4, <1>6
  <2> QED
    BY <1>5, <2>1 DEF IsOp, Op
<1>9. PrepOK'
  BY <1>1, <1>2, <1>4 DEF PrepOK, At
<1>10. ASSUME prepq = <<>>, mode = "async"
       PROVE  /\ Len(prepq') = 5 /\ FromEnd(prepq', 4) = WaitFor(event.queued)
              /\ \A k \in 0..3 : FromEnd(prepq', k).op # "wait"
  <2>1. F = 3 /\ FromEnd(f, 2) = WaitFor(event.queued)
    BY <1>0, <1>10, FillFromEnd DEF F, f
  <2>2. Len(prepq) = 0
    BY <1>10
  <2>3. Len(prepq') = 5 /\ FromEnd(prepq', 4) = FromEnd(p, 2) /\ FromEnd(p, 2) = FromEnd(f, 2)
    BY <1>2, <1>4, <2>1, <2>2
  <2>4. \A k \in 0..3 : k \in {0, 1, 2, 3}
    OBVIOUS
  <2>5. \A k \in {0, 1, 2, 3} : FromEnd(prepq', k).op # "wait"
    BY <1>5 DEF Op
  <2> QED
    BY <2>1, <2>3, <2>4, <2>5
<1> QED
  BY <1>8, <1>9, <1>10

LEMMA Phase1KeepsAll ==
  ASSUME IInv, SInv, Phase1
  PROVE  SInv'
<1> DEFINE x == Id(host.next)
<1>0. /\ Typed /\ HostType /\ DrawOK /\ NextOK /\ event \in [queued : Nat, done : Nat]
      /\ MaxDraws \in Nat /\ host.next \in Nat /\ prepq \in Seq(PrepOps)
  BY Parts
<1>1. /\ At("phase1") /\ prepq' = prepq \o Fill(x) \o Hashes(x)
      /\ UNCHANGED <<mode, wins, data, slot, prod, dev, searchq, event, stop, hist>>
  BY DEF Phase1
<1>2. host'.pc = "sync1" /\ Kept /\ KeptWin /\ KeptRest /\ host'.rc = host.rc
  BY <1>0, Goes DEF Phase1, Points
<1>3. x \in Ids /\ Id(host.next)' = x
  <2>1. host.next \in 0..(MaxDraws - 1)
    BY <1>0, <1>1 DEF DrawOK, At, Preparing
  <2> QED
    BY <1>0, <1>2, <2>1, IdIsId, SamePlaces
<1>4. host.pc = "phase1" /\ host.pc \in Preparing /\ host'.pc \in Preparing
  BY <1>1, <1>2 DEF At, Preparing
<1>5. /\ InFlight' <=> InFlight
      /\ SearchOK' /\ GpuReady' /\ CpuReady' /\ ProducerOK'
      /\ AnswerOK' /\ PastOK' /\ TileOK' /\ LossOK' /\ CountOK'
  BY <1>1, <1>2, <1>4, Preparation
<1>6. /\ PrepShape' /\ PrepOK'
      /\ prepq = <<>> /\ mode = "async" =>
           /\ Len(prepq') = 5 /\ FromEnd(prepq', 4) = WaitFor(event.queued)
           /\ \A k \in 0..3 : FromEnd(prepq', k).op # "wait"
  <2> HIDE DEF x
  <2> QED
    BY <1>1, <1>2, <1>3, FirstPhase DEF At, x
<1>7. GateOK'
  <2> SUFFICES ASSUME mode = "async", InFlight PROVE GateOK'
    BY <1>1, <1>5 DEF GateOK
  <2>1. prepq = <<>>
    BY <1>0, <1>1, <1>4 DEF InFlight, NextOK, At
  <2>2. /\ Len(prepq') = 5 /\ FromEnd(prepq', 4) = WaitFor(event.queued)
        /\ \A k \in 0..3 : FromEnd(prepq', k).op # "wait"
    BY <1>6, <2>1
  <2>3. prepq' # <<>> /\ Head(prepq') = FromEnd(prepq', 4)
    BY <2>2 DEF FromEnd
  <2>4. \A k \in 0..(Len(prepq') - 1) : k = 4 \/ k \in 0..3
    BY <2>2
  <2>5. WaitFor(event.queued).op = "wait" /\ WaitFor(event.queued).records = event.queued
    BY DEF WaitFor
  <2> QED
    BY <1>1, <2>2, <2>3, <2>4, <2>5 DEF GateOK
<1>8. NextOK'
  BY <1>0, <1>2, <1>4 DEF NextOK, At, Kept
<1> QED
  BY <1>5, <1>6, <1>7, <1>8, Whole

LEMMA Phase2KeepsAll ==
  ASSUME IInv, SInv, Phase2
  PROVE  SInv'
<1> DEFINE y == Id(host.next)
<1>0. /\ Typed /\ HostType /\ DataType /\ DrawOK /\ NextOK /\ PrepOK /\ GateOK
      /\ MaxDraws \in Nat /\ host.next \in Nat
  BY Parts
<1>1. At("sync1") /\ prepq = <<>> /\ UNCHANGED <<mode, wins, slot, prod, dev, searchq, event, stop, hist>>
  BY DEF Phase2
<1>2. host'.pc = "sync2" /\ Kept /\ KeptWin /\ KeptRest /\ host'.rc = host.rc
  BY <1>0, Goes DEF Phase2, Points
<1>3. y \in Ids /\ Id(host.next)' = y /\ y' = y
  <2>1. host.next \in 0..(MaxDraws - 1)
    BY <1>0, <1>1 DEF DrawOK, At, Preparing
  <2> QED
    BY <1>0, <1>2, <2>1, IdIsId, SamePlaces
<1>4. host.pc \in Preparing /\ host'.pc \in Preparing
  BY <1>1, <1>2 DEF At, Preparing
<1>5. /\ InFlight' <=> InFlight
      /\ SearchOK' /\ GpuReady' /\ CpuReady' /\ ProducerOK'
      /\ AnswerOK' /\ PastOK' /\ TileOK' /\ LossOK' /\ CountOK'
  BY <1>1, <1>2, <1>4, Preparation
<1>6. /\ dev.mat["A"] = Raw(y) /\ dev.mat["Bt"] = Raw(y)
      /\ data.hash["A"] = y /\ data.hash["Bt"] = y
  BY <1>0, <1>1 DEF PrepOK
<1>7. prepq' = Noise(y) /\ data'.seeds = y
  <2>1. data' = [data EXCEPT !.seeds = y, !.perms = y] /\ prepq' = Noise(y)
    BY <1>6 DEF Phase2
  <2> QED
    BY <1>0, <2>1 DEF DataType
<1> HIDE DEF y
<1>8. /\ Len(prepq') = 2 /\ FromEnd(prepq', 0) = Op("noise", "Bt", y) /\ FromEnd(prepq', 1) = Op("noise", "A", y)
      /\ \A k \in 0..1 : k \in {0, 1}
  BY <1>0, <1>3, <1>7, PairsFromEnd
<1>9. PrepShape'
  BY <1>2, <1>3, <1>8 DEF PrepShape, At, IsOp, Op
<1>10. PrepOK'
  <2>1. Raw(y)' = Raw(y) /\ Id(host.next)' = y
    BY <1>3 DEF Raw
  <2> QED
    BY <1>1, <1>2, <1>6, <1>7, <1>8, <2>1 DEF PrepOK, At
<1>11. GateOK'
  <2>1. \A k \in 0..1 : FromEnd(prepq', k).op # "wait"
    BY <1>8 DEF Op
  <2>2. mode = "async" /\ InFlight => event.done >= event.queued
    BY <1>0, <1>1 DEF GateOK, At
  <2> QED
    BY <1>1, <1>5, <1>8, <2>1, <2>2 DEF GateOK
<1>12. NextOK'
  BY <1>0, <1>1, <1>2, <1>4 DEF NextOK, At, Kept
<1> QED
  BY <1>5, <1>9, <1>10, <1>11, <1>12, Whole

LEMMA PreparedKeepsAll ==
  ASSUME IInv, SInv, Prepared
  PROVE  SInv'
<1> DEFINE y == Id(host.next)
<1>0. /\ Typed /\ HostType /\ DevType /\ DrawOK /\ BuildOK /\ NextOK /\ SearchOK /\ PrepShape /\ PrepOK
      /\ AnswerOK /\ PastOK /\ TileOK /\ LossOK /\ CountOK
      /\ MaxDraws \in Nat /\ host.next \in Nat /\ mode \in {"async", "sync", "cpu"}
  BY Parts
<1>1. /\ host.pc = "sync2" /\ prepq = <<>> /\ mode # "cpu" /\ prod.pc = "off"
      /\ UNCHANGED <<mode, wins, data, slot, prod, dev, prepq, searchq, event, stop, hist>>
  BY <1>0 DEF Prepared, gpu, cpu, At, BuildOK, NoProducer, Preparing
<1>2. /\ Kept /\ KeptWin /\ KeptRest /\ host'.rc = host.rc
      /\ \/ host'.pc = "top" /\ host.next = 0
         \/ host'.pc = "wait" /\ host.next > 0 /\ mode = "async"
         \/ host'.pc = "judge" /\ host.next > 0 /\ mode = "sync"
  <2>1. CASE host.next = 0
    BY <1>0, <2>1, Goes DEF Prepared, Points
  <2>2. CASE host.next > 0 /\ mode = "async"
    BY <1>0, <2>2, Goes DEF Prepared, Points
  <2>3. CASE host.next > 0 /\ mode = "sync"
    BY <1>0, <2>3, Goes DEF Prepared, Points
  <2> QED
    BY <1>0, <1>1, <2>1, <2>2, <2>3
<1>3. /\ host.next = 0 => y = Here
      /\ host.next > 0 => y = Ahead1
  BY <1>0, <1>1 DEF NextOK, Preparing, Here, Ahead1
<1>4. OnGpu(y)
  <2>1. dev.mat["A"] = Noised(y) /\ dev.mat["Bt"] = Noised(y) /\ data.seeds = y
    <3>1. Len(prepq) = 0
      BY <1>1
    <3> QED
      BY <1>0, <1>1, <3>1 DEF PrepOK, At
  <2>2. dev.mat \in [Matrices -> Contents]
    BY <1>0 DEF DevType
  <2> QED
    BY <2>1, <2>2 DEF OnGpu, Both, Matrices
<1> HIDE DEF y
<1>5. /\ Here' = Here /\ Ahead1' = Ahead1
      /\ OnGpu(Here)' = OnGpu(Here) /\ OnGpu(Ahead1)' = OnGpu(Ahead1)
  BY <1>1, <1>2, SamePlaces DEF OnGpu
<1>6. GpuReady' /\ CpuReady' /\ ProducerOK'
  BY <1>1, <1>2, <1>3, <1>4, <1>5 DEF GpuReady, CpuReady, ProducerOK, At
<1>7. SearchOK' /\ GateOK'
  <2>1. CASE host.next > 0 /\ mode = "async"
    <3>1. InFlight /\ InFlight' /\ host'.pc = "wait"
      BY <1>1, <1>2, <2>1 DEF InFlight, At, Preparing
    <3>2. SearchOK'
      BY <1>0, <1>1, <1>2, <3>1, Flying DEF Kept
    <3>3. GateOK'
      BY <1>1, <3>1 DEF GateOK
    <3> QED
      BY <3>2, <3>3
  <2>2. CASE ~(host.next > 0 /\ mode = "async")
    <3>1. ~InFlight /\ ~InFlight'
      BY <1>0, <1>1, <1>2, <2>2 DEF InFlight, At, Preparing
    <3> QED
      BY <1>0, <1>1, <3>1, Idle
  <2> QED
    BY <2>1, <2>2
<1>8. PrepShape' /\ PrepOK' /\ NextOK'
  <2>1. host'.pc \notin {"sync1", "sync2", "prime"} \cup Preparing
    BY <1>2 DEF Preparing
  <2> QED
    BY <1>0, <1>1, <2>1, Unprepared DEF NextOK, At
<1>9. AnswerOK' /\ PastOK' /\ TileOK' /\ LossOK' /\ CountOK'
  <2>1. /\ InHand <=> mode = "sync" /\ host.next > 0
        /\ InHand' <=> host'.pc = "judge"
    BY <1>1, <1>2 DEF InHand, At, Preparing
  <2>2. InHand' <=> InHand
    BY <1>0, <1>1, <1>2, <2>1
  <2>3. AnswerOK' /\ PastOK'
    BY <1>0, <1>1, <1>2, <1>5, <2>2 DEF AnswerOK, PastOK, At, Kept, KeptRest, Preparing
  <2>4. TileOK' /\ LossOK'
    BY <1>0, <1>1, <1>2 DEF TileOK, LossOK, At
  <2>5. CountOK'
    BY <1>0, <1>1, <1>2, <2>2 DEF CountOK, Counted, At, Kept
  <2> QED
    BY <2>3, <2>4, <2>5
<1> QED
  BY <1>6, <1>7, <1>8, <1>9, Whole

(* An attempt ends with a fault behind it. *)
LEMMA ReturnsFaulty ==
  ASSUME host'.pc = "returned", host'.rc = 2, hist'.fault, prod'.pc = "off"
  PROVE  /\ ~InFlight' /\ NextOK' /\ GpuReady' /\ CpuReady' /\ ProducerOK'
         /\ AnswerOK' /\ PastOK' /\ TileOK' /\ LossOK' /\ CountOK'
<1>1. ~InFlight' /\ ~InHand'
  BY DEF InFlight, InHand, At, Preparing
<1>2. NextOK' /\ GpuReady' /\ CpuReady' /\ ProducerOK'
  BY DEF NextOK, GpuReady, CpuReady, ProducerOK, At, Preparing
<1>3. AnswerOK' /\ PastOK' /\ TileOK'
  BY <1>1 DEF AnswerOK, PastOK, TileOK, At, Preparing
<1>4. LossOK' /\ CountOK'
  BY DEF LossOK, CountOK, At
<1> QED
  BY <1>1, <1>2, <1>3, <1>4

(* What a preparation that fails leaves in its stream. *)
LEMMA FillLeft ==
  ASSUME IInv, SInv, NEW x \in Ids, At("phase1"), prepq' = prepq \o Fill(x)
  PROVE  /\ \A k \in 0..(Len(prepq') - 1) : FromEnd(prepq', k).op \in Filling
         /\ prepq = <<>> /\ mode = "async" =>
              /\ Len(prepq') = 3 /\ FromEnd(prepq', 2) = WaitFor(event.queued)
              /\ \A k \in 0..1 : FromEnd(prepq', k).op # "wait"
<1>0. Typed /\ prepq \in Seq(PrepOps) /\ PrepShape
  BY Parts
<1> DEFINE f == Fill(x)
           F == Len(f)
<1>1. /\ f \in Seq(PrepOps) /\ F \in {2, 3}
      /\ FromEnd(f, 0) = Op("rng", "Bt", x) /\ FromEnd(f, 1) = Op("rng", "A", x)
      /\ F = 3 => FromEnd(f, 2) = WaitFor(event.queued)
      /\ mode = "async" => F = 3
  <2>1. /\ mode = "async" => F = 3
        /\ mode # "async" => F = 2
    BY <1>0, FillFromEnd
  <2>2. /\ f \in Seq(PrepOps) /\ FromEnd(f, 0) = Op("rng", "Bt", x) /\ FromEnd(f, 1) = Op("rng", "A", x)
        /\ mode = "async" => FromEnd(f, 2) = WaitFor(event.queued)
    BY <1>0, FillFromEnd
  <2>3. F \in {2, 3} /\ (F = 3 => mode = "async")
    <3> HIDE DEF f, F
    <3> QED
      BY <2>1
  <2> HIDE DEF f, F
  <2> QED
    BY <2>1, <2>2, <2>3
<1> HIDE DEF f
<1>2. /\ Len(prepq') = Len(prepq) + F /\ Len(prepq) \in Nat
      /\ \A k \in 0..(F - 1) : FromEnd(prepq', k) = FromEnd(f, k)
      /\ \A k \in F..(Len(prepq) + F - 1) : FromEnd(prepq', k) = FromEnd(prepq, k - F)
  <2>1. prepq \in Seq(PrepOps) /\ f \in Seq(PrepOps)
    BY <1>0, <1>1
  <2>2. /\ Len(prepq \o f) = Len(prepq) + F /\ Len(prepq) \in Nat
        /\ \A k \in 0..(F - 1) : FromEnd(prepq \o f, k) = FromEnd(f, k)
        /\ \A k \in F..(Len(prepq) + F - 1) : FromEnd(prepq \o f, k) = FromEnd(prepq, k - F)
    BY <2>1, ConcatFromEnd
  <2> QED
    BY <2>2 DEF f
<1> HIDE DEF F
<1>3. \A k \in 0..(F - 1) : k = 0 \/ k = 1 \/ (k = 2 /\ F = 3)
  BY <1>1
<1>4. \A k \in 0..(F - 1) : FromEnd(prepq', k).op \in Filling
  BY <1>1, <1>2, <1>3 DEF Op, WaitFor, Filling
<1>5. \A k \in F..(Len(prepq) + F - 1) : FromEnd(prepq', k).op \in Filling
  <2> TAKE k \in F..(Len(prepq) + F - 1)
  <2>1. k - F \in 0..(Len(prepq) - 1)
    BY <1>1, <1>2
  <2>2. FromEnd(prepq, k - F).op \in Filling
    BY <1>0, <2>1 DEF PrepShape, At
  <2> QED
    BY <1>2, <2>2
<1>6. \A k \in 0..(Len(prepq') - 1) : k \in 0..(F - 1) \/ k \in F..(Len(prepq) + F - 1)
  BY <1>1, <1>2
<1>7. ASSUME prepq = <<>>, mode = "async"
      PROVE  /\ Len(prepq') = 3 /\ FromEnd(prepq', 2) = WaitFor(event.queued)
             /\ \A k \in 0..1 : FromEnd(prepq', k).op # "wait"
  <2>1. F = 3 /\ Len(prepq) = 0 /\ \A k \in 0..1 : k = 0 \/ k = 1
    BY <1>1, <1>7
  <2> QED
    BY <1>1, <1>2, <2>1 DEF Op
<1> QED
  BY <1>4, <1>5, <1>6, <1>7

LEMMA PrepFailsKeepsAll ==
  ASSUME IInv, SInv, PrepFails
  PROVE  SInv'
<1> DEFINE x == Id(host.next)
<1>0. /\ Typed /\ HostType /\ OtherTypes /\ DrawOK /\ BuildOK /\ NextOK /\ SearchOK /\ PrepShape /\ GateOK
      /\ MaxDraws \in Nat /\ host.next \in Nat /\ mode \in {"async", "sync", "cpu"}
  BY Parts
<1>1. /\ host.pc \in {"phase1", "sync1", "sync2"} /\ host.pc \in Preparing
      /\ UNCHANGED <<mode, wins, data, slot, prod, dev, searchq, event, stop>>
      /\ hist'.fault
      /\ \/ prepq' = prepq /\ (host.pc # "phase1" => prepq = <<>>)
         \/ host.pc = "phase1" /\ prepq' = prepq \o Fill(x)
  BY <1>0 DEF PrepFails, Fault, At, Preparing, OtherTypes
<1>2. x \in Ids
  <2>1. host.next \in 0..(MaxDraws - 1)
    BY <1>0, <1>1 DEF DrawOK
  <2> QED
    BY <1>0, <2>1, IdIsId
<1> HIDE DEF x
<1>3. mode # "cpu" /\ prod.pc = "off"
  BY <1>0, <1>1 DEF BuildOK, NoProducer
<1>4. ASSUME host'.pc \notin {"sync1", "sync2"}
      PROVE  PrepShape' /\ PrepOK'
  <2>1. CASE prepq' = prepq
    BY <1>0, <1>1, <1>4, <2>1, Unprepared
  <2>2. CASE host.pc = "phase1" /\ prepq' = prepq \o Fill(x)
    <3>1. \A k \in 0..(Len(prepq') - 1) : FromEnd(prepq', k).op \in Filling
      BY <1>2, <2>2, FillLeft DEF At
    <3> QED
      BY <1>4, <3>1 DEF PrepShape, PrepOK, At
  <2> QED
    BY <1>1, <2>1, <2>2
<1>5. CASE host.next > 0 /\ mode = "async"
  <2>1. host'.pc = "drain" /\ Kept /\ KeptWin /\ KeptRest /\ host'.rc = host.rc
    BY <1>0, <1>5, Goes DEF PrepFails, Points
  <2>2. /\ InFlight' <=> InFlight
        /\ SearchOK' /\ GpuReady' /\ CpuReady' /\ ProducerOK'
        /\ AnswerOK' /\ PastOK' /\ TileOK' /\ LossOK' /\ CountOK'
    BY <1>1, <2>1, Preparation DEF Preparing
  <2>3. InFlight /\ prepq = <<>>
    BY <1>0, <1>1, <1>5 DEF InFlight, NextOK, At, Preparing
  <2>4. GateOK'
    <3>1. CASE prepq' = prepq
      BY <2>1, <2>3, <3>1 DEF GateOK, At
    <3>2. CASE host.pc = "phase1" /\ prepq' = prepq \o Fill(x)
      <4>1. /\ Len(prepq') = 3 /\ FromEnd(prepq', 2) = WaitFor(event.queued)
            /\ \A k \in 0..1 : FromEnd(prepq', k).op # "wait"
        BY <1>2, <1>5, <2>3, <3>2, FillLeft DEF At
      <4>2. prepq' # <<>> /\ Head(prepq') = FromEnd(prepq', 2)
        BY <4>1 DEF FromEnd
      <4>3. \A k \in 0..(Len(prepq') - 1) : k = 2 \/ k \in 0..1
        BY <4>1
      <4>4. WaitFor(event.queued).op = "wait" /\ WaitFor(event.queued).records = event.queued
        BY DEF WaitFor
      <4> QED
        BY <1>1, <4>1, <4>2, <4>3, <4>4 DEF GateOK
    <3> QED
      BY <1>1, <3>1, <3>2
  <2>5. NextOK'
    BY <1>0, <1>1, <2>1 DEF NextOK, At, Kept, Preparing
  <2>6. PrepShape' /\ PrepOK'
    BY <1>4, <2>1
  <2> QED
    BY <2>2, <2>4, <2>5, <2>6, Whole
<1>6. CASE ~(host.next > 0 /\ mode = "async")
  <2>1. host'.pc = "returned" /\ host'.rc = 2
    BY <1>0, <1>6, Returns DEF PrepFails
  <2>2. /\ ~InFlight' /\ NextOK' /\ GpuReady' /\ CpuReady' /\ ProducerOK'
        /\ AnswerOK' /\ PastOK' /\ TileOK' /\ LossOK' /\ CountOK'
    BY <1>1, <1>3, <2>1, ReturnsFaulty
  <2>3. ~InFlight
    BY <1>1, <1>6 DEF InFlight, At
  <2>4. SearchOK' /\ GateOK'
    BY <1>0, <1>1, <2>2, <2>3, Idle
  <2>5. PrepShape' /\ PrepOK'
    BY <1>4, <2>1
  <2> QED
    BY <2>2, <2>4, <2>5, Whole
<1> QED
  BY <1>5, <1>6

LEMMA DrainKeepsAll ==
  ASSUME IInv, SInv, Drain
  PROVE  SInv'
<1>0. /\ HostType /\ BuildOK /\ SearchOK /\ PrepShape /\ LossOK /\ event \in [queued : Nat, done : Nat]
  BY Parts
<1>1. /\ host.pc = "drain" /\ searchq = <<>> /\ Return(2)
      /\ UNCHANGED <<mode, wins, data, slot, prod, dev, prepq, searchq, event, stop, hist>>
  BY DEF Drain, At, gpu, cpu
<1>2. host'.pc = "returned" /\ host'.rc = 2 /\ prod'.pc = "off" /\ hist'.fault
  BY <1>0, <1>1, Returns DEF LossOK, At, BuildOK, NoProducer
<1>3. /\ ~InFlight' /\ NextOK' /\ GpuReady' /\ CpuReady' /\ ProducerOK'
      /\ AnswerOK' /\ PastOK' /\ TileOK' /\ LossOK' /\ CountOK'
  BY <1>2, ReturnsFaulty
<1>4. SearchOK' /\ GateOK'
  BY <1>0, <1>1, <1>3, Landed
<1>5. PrepShape' /\ PrepOK'
  BY <1>0, <1>1, <1>2, Unprepared
<1> QED
  BY <1>3, <1>4, <1>5, Whole

LEMMA SearchFailedKeepsAll ==
  ASSUME IInv, SInv, SearchFailed
  PROVE  SInv'
<1>0. /\ HostType /\ BuildOK /\ SearchOK /\ PrepShape /\ AnswerOK
  BY Parts
<1>1. /\ host.pc = "judge" /\ host.ok = "error" /\ Return(2)
      /\ UNCHANGED <<mode, wins, data, slot, prod, dev, prepq, searchq, event, stop, hist>>
  BY DEF SearchFailed, At, gpu, cpu
<1>2. host'.pc = "returned" /\ host'.rc = 2 /\ prod'.pc = "off" /\ hist'.fault
  BY <1>0, <1>1, Returns DEF AnswerOK, InHand, BuildOK, NoProducer
<1>3. /\ ~InFlight' /\ NextOK' /\ GpuReady' /\ CpuReady' /\ ProducerOK'
      /\ AnswerOK' /\ PastOK' /\ TileOK' /\ LossOK' /\ CountOK'
  BY <1>2, ReturnsFaulty
<1>4. ~InFlight
  BY <1>1 DEF InFlight, At, Preparing
<1>5. SearchOK' /\ GateOK'
  BY <1>0, <1>1, <1>3, <1>4, Idle
<1>6. PrepShape' /\ PrepOK'
  BY <1>0, <1>1, <1>2, Unprepared
<1> QED
  BY <1>3, <1>5, <1>6, Whole

LEMMA TopKeepsAll ==
  ASSUME IInv, SInv, Top
  PROVE  SInv'
<1>0. /\ HostType /\ OtherTypes /\ BuildOK /\ ProvenOK /\ SearchOK /\ PrepShape /\ GpuReady /\ CpuReady
      /\ PastOK /\ CountOK /\ MaxDraws \in Nat /\ host.draw \in Nat
  BY Parts
<1>1. /\ host.pc = "top" /\ ~host.found /\ prod.pc = "off"
      /\ UNCHANGED <<mode, wins, data, slot, prod, dev, prepq, searchq, event, stop, hist>>
  BY <1>0 DEF Top, At, gpu, cpu, ProvenOK, BuildOK, NoProducer
<1>2. /\ Kept /\ KeptWin /\ KeptRest
      /\ \/ host'.pc = "over" /\ ~GoesOn
         \/ host'.pc = "spawn" /\ mode = "cpu" /\ GoesOn
         \/ host'.pc = "launch" /\ mode # "cpu" /\ GoesOn
  <2>1. CASE ~GoesOn
    BY <1>0, <2>1, Goes DEF Top, Points
  <2>2. CASE GoesOn /\ mode = "cpu"
    BY <1>0, <2>2, Goes DEF Top, Points
  <2>3. CASE GoesOn /\ mode # "cpu"
    BY <1>0, <2>3, Goes DEF Top, Points
  <2> QED
    BY <2>1, <2>2, <2>3
<1>3. ~InFlight /\ ~InFlight' /\ ~InHand /\ ~InHand'
  BY <1>1, <1>2 DEF InFlight, InHand, At, Preparing
<1>4. SearchOK' /\ GateOK' /\ PrepShape' /\ PrepOK' /\ NextOK'
  <2>1. SearchOK' /\ GateOK'
    BY <1>0, <1>1, <1>3, Idle
  <2>2. PrepShape' /\ PrepOK'
    BY <1>0, <1>1, <1>2, Unprepared
  <2>3. NextOK'
    BY <1>2 DEF NextOK, At, Preparing
  <2> QED
    BY <2>1, <2>2, <2>3
<1>5. /\ Here' = Here /\ Both(Noised(Here))' = Both(Noised(Here))
  BY <1>2, SamePlaces
<1>6. GpuReady' /\ CpuReady' /\ ProducerOK'
  BY <1>0, <1>1, <1>2, <1>5 DEF GpuReady, CpuReady, ProducerOK, At, GoesOn, OnGpu, InSlot, KeptRest
<1>7. AnswerOK' /\ PastOK'
  BY <1>0, <1>1, <1>2, <1>3 DEF AnswerOK, PastOK, At, Kept, Preparing
<1>8. host'.rc = host.rc
  <2>1. \E pc \in Points : Goto(pc)
    BY DEF Top, Points
  <2> QED
    BY <1>0, <2>1, Goes
<1>9. TileOK' /\ LossOK'
  BY <1>0, <1>1, <1>2, <1>8, Parts DEF TileOK, LossOK, At, Kept, KeptWin, GoesOn
<1>10. CountOK'
  BY <1>0, <1>1, <1>2, <1>3 DEF CountOK, Counted, At, Kept, KeptWin
<1> QED
  BY <1>4, <1>6, <1>7, <1>9, <1>10, Whole

LEMMA SpawnKeepsAll ==
  ASSUME IInv, SInv, Spawn
  PROVE  SInv'
<1>0. /\ HostType /\ OtherTypes /\ BuildOK /\ ProvenOK /\ SearchOK /\ PrepShape /\ CpuReady
      /\ PastOK /\ LossOK /\ CountOK /\ MaxDraws \in Nat /\ host.draw \in Nat
  BY Parts
<1>1. /\ host.pc = "spawn" /\ mode = "cpu" /\ ~host.found
      /\ UNCHANGED <<mode, wins, data, slot, dev, prepq, searchq, event, stop, hist>>
  BY <1>0 DEF Spawn, At, gpu, ProvenOK, BuildOK
<1>2. host'.pc = "launch" /\ Kept /\ KeptWin /\ KeptRest /\ host'.rc = host.rc
  BY <1>0, Goes DEF Spawn, Points
<1>3. ~InFlight /\ ~InFlight' /\ ~InHand /\ ~InHand'
  BY <1>1, <1>2 DEF InFlight, InHand, At, Preparing
<1>4. SearchOK' /\ GateOK' /\ PrepShape' /\ PrepOK' /\ NextOK'
  <2>1. SearchOK' /\ GateOK'
    BY <1>0, <1>1, <1>3, Idle
  <2>2. PrepShape' /\ PrepOK'
    BY <1>0, <1>1, <1>2, Unprepared
  <2>3. NextOK'
    BY <1>2 DEF NextOK, At, Preparing
  <2> QED
    BY <2>1, <2>2, <2>3
<1>5. Here' = Here /\ Ahead1' = Ahead1 /\ Both(Noised(Here))' = Both(Noised(Here))
  BY <1>2, SamePlaces
<1>6. CpuReady'
  <2>1. prod'.pc = "off" => ~HasMore'
    BY <1>1, <1>2 DEF Spawn, HasNext, HasMore, Kept
  <2> QED
    BY <1>0, <1>1, <1>2, <1>5, <2>1 DEF CpuReady, At, InSlot, KeptRest
<1>7. ProducerOK' /\ GpuReady'
  BY <1>1, <1>2, <1>5 DEF Spawn, ProducerOK, GpuReady, At, Ahead1, NoProducer, KeptRest
<1>8. AnswerOK' /\ PastOK'
  BY <1>0, <1>1, <1>2, <1>3 DEF AnswerOK, PastOK, At, Kept, Preparing
<1>9. TileOK' /\ LossOK'
  BY <1>0, <1>1, <1>2 DEF TileOK, LossOK, At
<1>10. CountOK'
  BY <1>0, <1>1, <1>2, <1>3 DEF CountOK, Counted, At, Kept, KeptWin
<1> QED
  BY <1>4, <1>6, <1>7, <1>8, <1>9, <1>10, Whole

LEMMA JoinKeepsAll ==
  ASSUME IInv, SInv, Join
  PROVE  SInv'
<1>0. /\ HostType /\ OtherTypes /\ BuildOK /\ ProvenOK /\ SearchOK /\ PrepShape /\ CpuReady /\ ProducerOK
      /\ AnswerOK /\ PastOK /\ LossOK /\ CountOK
  BY Parts
<1>1. /\ host.pc = "join" /\ mode = "cpu" /\ ~host.found /\ prod.pc \in {"off", "done"}
      /\ prod' = NoProducer
      /\ UNCHANGED <<mode, wins, data, slot, dev, prepq, searchq, event, stop, hist>>
  BY <1>0 DEF Join, At, gpu, ProvenOK, BuildOK
<1>2. host'.pc = "judge" /\ Kept /\ KeptWin /\ KeptRest /\ host'.rc = host.rc
  BY <1>0, Goes DEF Join, Points
<1>3. ~InFlight /\ ~InFlight' /\ InHand /\ InHand'
  BY <1>1, <1>2 DEF InFlight, InHand, At, Preparing
<1>4. SearchOK' /\ GateOK' /\ PrepShape' /\ PrepOK' /\ NextOK'
  <2>1. SearchOK' /\ GateOK'
    BY <1>0, <1>1, <1>3, Idle
  <2>2. PrepShape' /\ PrepOK'
    BY <1>0, <1>1, <1>2, Unprepared
  <2>3. NextOK'
    BY <1>2 DEF NextOK, At, Preparing
  <2> QED
    BY <2>1, <2>2, <2>3
<1>5. Here' = Here /\ Ahead1' = Ahead1 /\ Both(Noised(Ahead1))' = Both(Noised(Ahead1))
  BY <1>2, SamePlaces
<1>6. CpuReady'
  <2>1. HasMore' => HasMore
    BY <1>1, <1>2 DEF HasMore, Kept
  <2>2. HasMore => InSlot(1 - host.cur, Ahead1)
    BY <1>0, <1>1 DEF CpuReady, ProducerOK
  <2> QED
    BY <1>1, <1>2, <1>5, <2>1, <2>2 DEF CpuReady, At, InSlot, KeptRest
<1>7. ProducerOK' /\ GpuReady'
  BY <1>1, <1>2 DEF ProducerOK, GpuReady, NoProducer
<1>8. AnswerOK' /\ PastOK'
  BY <1>0, <1>1, <1>2, <1>3, <1>5 DEF AnswerOK, PastOK, At, Kept, KeptRest, Preparing
<1>9. TileOK' /\ LossOK'
  BY <1>0, <1>1, <1>2 DEF TileOK, LossOK, At
<1>10. CountOK'
  BY <1>0, <1>1, <1>2, <1>3 DEF CountOK, Counted, At, Kept, KeptWin
<1> QED
  BY <1>4, <1>6, <1>7, <1>8, <1>9, <1>10, Whole

LEMMA ShiftFive == \A k \in Nat : k >= 5 => ((k - 5) % 4 = 0 <=> k % 4 = 1)
OBVIOUS

LEMMA ShiftFour == \A k \in Nat : k >= 4 => ((k - 4) % 4 = 0 <=> k % 4 = 0)
OBVIOUS

(* A search is queued behind what is left in the stream. *)
LEMMA SearchQueued ==
  ASSUME IInv, SInv, At("launch"), Here \in Ids, searchq' = searchq \o Search(Here), event' = Recorded,
         Kept, mode' = mode, wins' = wins, InFlight', dev'.mat = Both(Noised(Here))
  PROVE  SearchOK'
<1>0. Typed /\ searchq \in Seq(SearchOps) /\ SearchOK /\ event \in [queued : Nat, done : Nat]
  BY Parts
<1> DEFINE s == Search(Here)
           n == Len(searchq)
           G == AfterGathers
<1>1. /\ s \in Seq(SearchOps) /\ Len(s) = G + 3
      /\ FromEnd(s, 0) = Op("search", "A", Here)
      /\ mode = "async" => FromEnd(s, 1) = Op("record", "A", Here)
      /\ FromEnd(s, G) = Op("gather", "Bt", Here)
      /\ FromEnd(s, G + 1) = Op("gather", "A", Here)
      /\ FromEnd(s, G + 2) = Op("setup", "A", Here)
  BY <1>0, SearchFromEnd
<1>2. /\ mode \in {"async", "sync", "cpu"}
      /\ mode = "async" => G = 2
      /\ mode # "async" => G = 1
      /\ G \in {1, 2}
  BY <1>0, ModeCases
<1>3. ~InFlight /\ ~At("wait")
  BY DEF InFlight, At, Preparing
<1> HIDE DEF s, G
<1>4. /\ n \in Nat /\ Len(searchq') = n + G + 3
      /\ \A k \in 0..(G + 2) : FromEnd(searchq', k) = FromEnd(s, k)
      /\ \A k \in (G + 3)..(n + G + 2) : FromEnd(searchq', k) = FromEnd(searchq, k - G - 3)
  <2>1. /\ Len(searchq \o s) = Len(searchq) + Len(s) /\ Len(searchq) \in Nat
        /\ \A k \in 0..(Len(s) - 1) : FromEnd(searchq \o s, k) = FromEnd(s, k)
        /\ \A k \in Len(s)..(Len(searchq) + Len(s) - 1) : FromEnd(searchq \o s, k) = FromEnd(searchq, k - Len(s))
    <3>1. searchq \in Seq(SearchOps) /\ s \in Seq(SearchOps)
      BY <1>0, <1>1
    <3> HIDE DEF n
    <3> QED
      BY <3>1, ConcatFromEnd
  <2>2. searchq' = searchq \o s
    BY DEF s
  <2> HIDE DEF n
  <2>3. Len(searchq) = n
    BY DEF n
  <2> QED
    BY <1>1, <1>2, <2>1, <2>2, <2>3
<1>5. Here' = Here /\ AfterGathers' = G
  BY <1>2, SamePlaces DEF AfterGathers, G
<1>6. mode # "async" => n = 0
  BY <1>0, <1>3 DEF SearchOK, SearchShape
<1>7. \A k \in 0..(n - 1) : LeftoverOp(k, FromEnd(searchq, k))
  BY <1>0, <1>3 DEF SearchOK, SearchShape
<1> HIDE DEF n
<1>8. ASSUME NEW k \in 0..(Len(searchq') - 1), NEW op, op = FromEnd(searchq', k)
      PROVE  /\ op.op = "search" <=> k = 0
             /\ mode = "async" => (op.op = "record" <=> k % 4 = 1)
             /\ k = G => IsOp(op, "gather", "Bt")
             /\ k = G + 1 => IsOp(op, "gather", "A")
             /\ k = G + 2 => op.op = "setup" /\ op.x = Here
  <2>1. CASE k < G + 3
    <3>1. op = FromEnd(s, k)
      BY <1>2, <1>4, <1>8, <2>1
    <3>2. k \in {0, 1, 2, 3, 4} /\ (G = 1 => k # 4)
      BY <1>2, <1>4, <2>1
    <3>3. CASE mode = "async"
      <4>1. G = 2
        BY <1>2, <3>3
      <4>2. CASE k = 0
        BY <1>1, <3>1, <4>1, <4>2, SmallQuarters DEF Op
      <4>3. CASE k = 1
        BY <1>1, <3>1, <3>3, <4>1, <4>3, SmallQuarters DEF Op
      <4>4. CASE k = 2
        BY <1>1, <3>1, <4>1, <4>4, SmallQuarters DEF Op, IsOp
      <4>5. CASE k = 3
        BY <1>1, <3>1, <4>1, <4>5, SmallQuarters DEF Op, IsOp
      <4>6. CASE k = 4
        BY <1>1, <3>1, <4>1, <4>6, SmallQuarters DEF Op, IsOp
      <4> QED
        BY <3>2, <4>2, <4>3, <4>4, <4>5, <4>6
    <3>4. CASE mode # "async"
      <4>1. G = 1
        BY <1>2, <3>4
      <4> QED
        BY <1>1, <3>1, <3>2, <3>4, <4>1 DEF Op, IsOp
    <3> QED
      BY <3>3, <3>4
  <2>2. CASE k >= G + 3
    <3>1. /\ k - G - 3 \in 0..(n - 1) /\ k \in (G + 3)..(n + G + 2)
          /\ mode = "async" /\ G = 2 /\ k \in Nat /\ k >= 5 /\ k - G - 3 = k - 5
      BY <1>2, <1>4, <1>6, <2>2
    <3>2. LeftoverOp(k - 5, op)
      BY <1>4, <1>7, <1>8, <3>1
    <3> QED
      BY <3>1, <3>2, ShiftFive DEF LeftoverOp
  <2> QED
    BY <1>2, <1>4, <2>1, <2>2
<1>9. SearchShape'
  <2>1. mode # "async" => At("wait")'
    BY DEF InFlight
  <2>2. \A k \in 0..(Len(searchq') - 1) : InFlightOp(k, FromEnd(searchq, k))'
    BY ZenonT(60), <1>5, <1>8 DEF InFlightOp, IsOp, FromEnd
  <2> QED
    BY <2>1, <2>2 DEF SearchShape
<1>10. EventOK'
  <2> SUFFICES ASSUME mode = "async" PROVE EventOK'
    BY DEF EventOK
  <2>1. Pending' = Pending + 1 /\ Pending \in Int
    BY <1>0 DEF Pending, Recorded
  <2>2. 4 * Pending <= n + 3 /\ n + 3 < 4 * Pending + 4
    BY <1>0, <1>3 DEF SearchOK, EventOK, n
  <2>3. Len(searchq') + 2 = n + 3 + 4
    BY <1>2, <1>4
  <2> HIDE DEF Pending
  <2> QED
    BY <1>4, <2>1, <2>2, <2>3 DEF EventOK
<1>11. FlightOK'
  <2>1. Both(Noised(Here))' = Both(Noised(Here)) /\ Noised(Here)' = Noised(Here)
    BY <1>5 DEF Both, Noised
  <2>2. Len(searchq') > G + 2 /\ Len(searchq') \in Nat
    BY <1>2, <1>4
  <2> QED
    BY <1>2, <1>5, <2>1, <2>2 DEF FlightOK
<1> QED
  BY <1>9, <1>10, <1>11 DEF SearchOK

(* A launch that fails may leave all but its search. *)
LEMMA GathersQueued ==
  ASSUME IInv, SInv, mode = "async", At("launch"), data.seeds \in Ids,
         searchq' = searchq \o Gathers(data.seeds), event' = Recorded,
         mode' = mode, ~InFlight'
  PROVE  SearchOK' /\ GateOK'
<1>0. Typed /\ searchq \in Seq(SearchOps) /\ SearchOK /\ event \in [queued : Nat, done : Nat]
  BY Parts
<1> DEFINE s == Gathers(data.seeds)
           n == Len(searchq)
<1>1. AfterGathers = 2 /\ AfterGathers' = 2
  BY DEF AfterGathers
<1>2. /\ s \in Seq(SearchOps) /\ Len(s) = 4
      /\ FromEnd(s, 0) = Op("record", "A", data.seeds)
      /\ FromEnd(s, 1) = Op("gather", "Bt", data.seeds)
      /\ FromEnd(s, 2) = Op("gather", "A", data.seeds)
      /\ FromEnd(s, 3) = Op("setup", "A", data.seeds)
  BY <1>0, <1>1, GathersFromEnd
<1>3. ~InFlight
  BY DEF InFlight, At, Preparing
<1> HIDE DEF s
<1>4. /\ n \in Nat /\ Len(searchq') = n + 4
      /\ \A k \in 0..3 : FromEnd(searchq', k) = FromEnd(s, k)
      /\ \A k \in 4..(n + 3) : FromEnd(searchq', k) = FromEnd(searchq, k - 4)
  <2>1. /\ Len(searchq \o s) = Len(searchq) + Len(s) /\ Len(searchq) \in Nat
        /\ \A k \in 0..(Len(s) - 1) : FromEnd(searchq \o s, k) = FromEnd(s, k)
        /\ \A k \in Len(s)..(Len(searchq) + Len(s) - 1) : FromEnd(searchq \o s, k) = FromEnd(searchq, k - Len(s))
    <3>1. searchq \in Seq(SearchOps) /\ s \in Seq(SearchOps)
      BY <1>0, <1>2
    <3> HIDE DEF n
    <3> QED
      BY <3>1, ConcatFromEnd
  <2>2. searchq' = searchq \o s
    BY DEF s
  <2> HIDE DEF n
  <2>3. Len(searchq) = n
    BY DEF n
  <2> QED
    BY <1>2, <2>1, <2>2, <2>3
<1>5. \A k \in 0..(n - 1) : LeftoverOp(k, FromEnd(searchq, k))
  BY <1>0, <1>3 DEF SearchOK, SearchShape
<1> HIDE DEF n
<1>6. ASSUME NEW k \in 0..(n + 3)
      PROVE  LeftoverOp(k, FromEnd(searchq', k))
  <2>1. CASE k < 4
    <3>1. k \in {0, 1, 2, 3} /\ FromEnd(searchq', k) = FromEnd(s, k)
      BY <1>4, <2>1
    <3> QED
      <4>1. CASE k = 0
        BY <1>2, <3>1, <4>1, SmallQuarters DEF Op, LeftoverOp
      <4>2. CASE k = 1
        BY <1>2, <3>1, <4>2, SmallQuarters DEF Op, LeftoverOp
      <4>3. CASE k = 2
        BY <1>2, <3>1, <4>3, SmallQuarters DEF Op, LeftoverOp
      <4>4. CASE k = 3
        BY <1>2, <3>1, <4>4, SmallQuarters DEF Op, LeftoverOp
      <4> QED
        BY <3>1, <4>1, <4>2, <4>3, <4>4
  <2>2. CASE k >= 4
    <3>1. k - 4 \in 0..(n - 1) /\ FromEnd(searchq', k) = FromEnd(searchq, k - 4)
      BY <1>4, <2>2
    <3>2. LeftoverOp(k - 4, FromEnd(searchq', k))
      BY <1>5, <3>1
    <3>3. (k - 4) % 4 = 0 <=> k % 4 = 0
      BY <1>4, <2>2, ShiftFour
    <3> QED
      BY <3>2, <3>3 DEF LeftoverOp
  <2> QED
    BY <1>4, <2>1, <2>2
<1>7. SearchShape'
  <2>1. \A k \in 0..(Len(searchq') - 1) : LeftoverOp(k, FromEnd(searchq', k))
    BY <1>4, <1>6
  <2> QED
    BY <2>1 DEF SearchShape, LeftoverOp, FromEnd
<1>8. EventOK'
  <2>0. event'.queued = event.queued + 1 /\ event'.done = event.done
    BY <1>0 DEF Recorded
  <2>1. Pending' = Pending + 1 /\ Pending \in Int
    BY <1>0, <2>0 DEF Pending
  <2>2. 4 * Pending <= n + 3 /\ n + 3 < 4 * Pending + 4
    BY <1>0, <1>3 DEF SearchOK, EventOK, n
  <2> HIDE DEF Pending
  <2> QED
    BY <1>4, <2>1, <2>2 DEF EventOK
<1> QED
  BY <1>7, <1>8 DEF SearchOK, FlightOK, GateOK

(* At a launch the draw to search is there, and nothing is being prepared. *)
LEMMA LaunchReady ==
  ASSUME IInv, SInv, At("launch")
  PROVE  /\ mode # "cpu" => dev.mat = Both(Noised(Here)) /\ data.seeds = Here
         /\ mode = "cpu" => slot[host.cur] = [mat |-> Both(Noised(Here)), seed |-> Here]
         /\ Here \in Ids /\ prepq = <<>> /\ ~host.found
         /\ mode # "cpu" => prod.pc = "off"
         /\ ~InFlight /\ ~InHand
<1>0. /\ HostType /\ DrawOK /\ BuildOK /\ QuietOK /\ ProvenOK /\ GpuReady /\ CpuReady
      /\ MaxDraws \in Nat /\ host.draw \in Nat
  BY Parts
<1>1. Here \in Ids
  <2>1. host.draw \in 0..(MaxDraws - 1)
    BY <1>0 DEF DrawOK, At
  <2> QED
    BY <1>0, <2>1, IdIsId DEF Here
<1>2. prepq = <<>> /\ ~host.found
  BY <1>0 DEF QuietOK, ProvenOK, At, Preparing
<1>3. mode # "cpu" => prod.pc = "off"
  BY <1>0 DEF BuildOK, NoProducer
<1> QED
  BY <1>0, <1>1, <1>2, <1>3 DEF GpuReady, CpuReady, OnGpu, InSlot, InFlight, InHand, At, Preparing

LEMMA LaunchKeepsAll ==
  ASSUME IInv, SInv, Launch
  PROVE  SInv'
<1>0. /\ HostType /\ ProducerType /\ DevType /\ CpuReady /\ ProducerOK /\ PastOK /\ CountOK
      /\ mode \in {"async", "sync", "cpu"} /\ PrepShape
  BY Parts
<1>1. /\ host.pc = "launch" /\ At("launch") /\ event' = Recorded
      /\ UNCHANGED <<mode, wins, data, slot, prod, prepq, stop, hist>>
  BY DEF Launch, At
<1>2. /\ mode # "cpu" => dev.mat = Both(Noised(Here)) /\ data.seeds = Here
      /\ mode = "cpu" => slot[host.cur] = [mat |-> Both(Noised(Here)), seed |-> Here]
      /\ Here \in Ids /\ prepq = <<>> /\ ~host.found
      /\ mode # "cpu" => prod.pc = "off"
      /\ ~InFlight /\ ~InHand
  BY <1>1, LaunchReady
<1>3. /\ Kept /\ KeptWin /\ KeptRest /\ host'.rc = host.rc
      /\ \/ host'.pc = "ahead" /\ mode = "async"
         \/ host'.pc = "wait" /\ mode # "async"
  <2>1. CASE mode = "async"
    BY <1>0, <2>1, Goes DEF Launch, Points
  <2>2. CASE mode # "async"
    BY <1>0, <2>2, Goes DEF Launch, Points
  <2> QED
    BY <2>1, <2>2
<1>4. searchq' = searchq \o Search(Here) /\ dev'.mat = Both(Noised(Here))
  <2>1. CASE mode = "cpu"
    <3>1. /\ dev' = [dev EXCEPT !.mat = slot[host.cur].mat]
          /\ searchq' = searchq \o Search(slot[host.cur].seed)
      BY <2>1 DEF Launch
    <3>2. slot[host.cur].mat = Both(Noised(Here)) /\ slot[host.cur].seed = Here
      BY <1>2, <2>1
    <3> QED
      BY <1>0, <3>1, <3>2 DEF DevType
  <2>2. CASE mode # "cpu"
    BY <1>2, <2>2 DEF Launch
  <2> QED
    BY <2>1, <2>2
<1>5. InFlight' /\ ~InHand'
  BY <1>1, <1>3 DEF InFlight, InHand, At, Preparing
<1>6. SearchOK'
  BY <1>1, <1>2, <1>3, <1>4, <1>5, SearchQueued
<1>7. GateOK' /\ PrepShape' /\ PrepOK' /\ NextOK'
  <2>1. PrepShape' /\ PrepOK'
    BY <1>0, <1>1, <1>2, <1>3, Unprepared
  <2>2. GateOK' /\ NextOK'
    BY <1>1, <1>2, <1>3 DEF GateOK, NextOK, At, Preparing
  <2> QED
    BY <2>1, <2>2
<1>8. /\ Here' = Here /\ Ahead1' = Ahead1
      /\ Both(Noised(Ahead1))' = Both(Noised(Ahead1)) /\ Noised(Ahead1)' = Noised(Ahead1)
      /\ Produced(Ahead1)' = Produced(Ahead1)
  BY <1>3, SamePlaces
<1>9. GpuReady' /\ CpuReady' /\ ProducerOK'
  <2>1. GpuReady'
    BY <1>1, <1>3 DEF GpuReady, At
  <2>2. HasMore' <=> HasMore
    BY <1>1, <1>3 DEF HasMore, Kept
  <2>3. CpuReady'
    BY <1>0, <1>1, <1>3, <2>2 DEF CpuReady, At
  <2>4. ProducerOK'
    BY <1>0, <1>1, <1>3, <1>8 DEF ProducerOK, InSlot, KeptRest
  <2> QED
    BY <2>1, <2>3, <2>4
<1>10. AnswerOK' /\ PastOK' /\ TileOK' /\ LossOK' /\ CountOK'
  <2>1. AnswerOK' /\ PastOK'
    BY <1>0, <1>1, <1>3, <1>5 DEF AnswerOK, PastOK, At, Kept, Preparing
  <2>2. TileOK' /\ LossOK'
    BY <1>0, <1>1, <1>3, Parts DEF TileOK, LossOK, At
  <2>3. CountOK'
    BY <1>0, <1>1, <1>2, <1>3, <1>5 DEF CountOK, Counted, At, Kept
  <2> QED
    BY <2>1, <2>2, <2>3
<1> QED
  BY <1>6, <1>7, <1>9, <1>10, Whole

LEMMA LaunchFailsKeepsAll ==
  ASSUME IInv, SInv, LaunchFails
  PROVE  SInv'
<1>0. /\ HostType /\ DataType /\ OtherTypes /\ SearchOK /\ PrepShape /\ CpuReady /\ ProducerOK /\ LossOK
      /\ mode \in {"async", "sync", "cpu"}
  BY Parts
<1>1. /\ host.pc = "launch" /\ At("launch")
      /\ \/ UNCHANGED <<searchq, event>>
         \/ mode = "async" /\ searchq' = searchq \o Gathers(data.seeds) /\ event' = Recorded
      /\ hist'.fault
      /\ UNCHANGED <<mode, wins, data, slot, prod, dev, prepq, stop>>
  BY <1>0 DEF LaunchFails, At, Fault, OtherTypes
<1>2. /\ prepq = <<>> /\ ~InFlight /\ (mode # "cpu" => prod.pc = "off")
      /\ mode = "cpu" => slot[host.cur] = [mat |-> Both(Noised(Here)), seed |-> Here]
  BY <1>1, LaunchReady
<1>3. ASSUME host'.pc \in {"returned", "judge", "join"}
      PROVE  ~InFlight' /\ SearchOK' /\ GateOK' /\ PrepShape' /\ PrepOK' /\ NextOK'
  <2>1. ~InFlight'
    BY <1>3 DEF InFlight, At, Preparing
  <2>2. SearchOK' /\ GateOK'
    <3>1. CASE UNCHANGED <<searchq, event>>
      BY <1>0, <1>1, <1>2, <2>1, <3>1, Idle
    <3>2. CASE mode = "async" /\ searchq' = searchq \o Gathers(data.seeds) /\ event' = Recorded
      <4>1. data.seeds \in Ids
        BY <1>0 DEF DataType
      <4> QED
        BY <1>1, <2>1, <3>2, <4>1, GathersQueued
    <3> QED
      BY <1>1, <3>1, <3>2
  <2>3. PrepShape' /\ PrepOK'
    BY <1>0, <1>1, <1>2, <1>3, Unprepared
  <2>4. NextOK'
    BY <1>3 DEF NextOK, At, Preparing
  <2> QED
    BY <2>1, <2>2, <2>3, <2>4
<1>4. CASE mode = "async"
  <2>1. Return(2)
    BY <1>4 DEF LaunchFails
  <2>2. host'.pc = "returned" /\ host'.rc = 2
    BY <1>0, <2>1, Returns
  <2> QED
    BY <1>1, <1>2, <1>3, <1>4, <2>2, ReturnsFaulty, Whole
<1>5. ASSUME mode # "async", host'.pc \in {"judge", "join"}, host'.ok = "error", Kept, KeptWin,
             host'.cur = host.cur, host'.rc = host.rc
      PROVE  AnswerOK' /\ PastOK' /\ TileOK' /\ LossOK' /\ CountOK'
  <2>1. AnswerOK' /\ PastOK'
    BY <1>1, <1>5 DEF AnswerOK, PastOK, At, Preparing
  <2>2. TileOK' /\ LossOK'
    BY <1>0, <1>1, <1>5 DEF TileOK, LossOK, At
  <2>3. CountOK'
    BY <1>1 DEF CountOK
  <2> QED
    BY <2>1, <2>2, <2>3
<1>6. CASE mode = "sync"
  <2>1. host' = [host EXCEPT !.pc = "judge", !.ok = "error"]
    BY <1>6 DEF LaunchFails
  <2>2. /\ host'.pc = "judge" /\ host'.ok = "error" /\ Kept /\ KeptWin
        /\ host'.cur = host.cur /\ host'.rc = host.rc
    BY <1>0, <2>1 DEF HostType, Kept, KeptWin
  <2>3. GpuReady' /\ CpuReady' /\ ProducerOK'
    BY <1>1, <1>2, <1>6, <2>2 DEF GpuReady, CpuReady, ProducerOK, At
  <2> QED
    BY <1>3, <1>5, <1>6, <2>2, <2>3, Whole
<1>7. CASE mode = "cpu"
  <2>1. host' = [host EXCEPT !.pc = "join", !.ok = "error"]
    BY <1>7 DEF LaunchFails
  <2>2. /\ host'.pc = "join" /\ host'.ok = "error" /\ Kept /\ KeptWin
        /\ host'.cur = host.cur /\ host'.rc = host.rc
    BY <1>0, <2>1 DEF HostType, Kept, KeptWin
  <2>3. /\ Ahead1' = Ahead1 /\ Both(Noised(Ahead1))' = Both(Noised(Ahead1))
        /\ Noised(Ahead1)' = Noised(Ahead1) /\ Produced(Ahead1)' = Produced(Ahead1)
    BY <2>2, SamePlaces
  <2>4. HasMore' <=> HasMore
    BY <1>1, <2>2 DEF HasMore, Kept
  <2>5. GpuReady' /\ CpuReady'
    BY <1>0, <1>1, <1>7, <2>2, <2>4 DEF GpuReady, CpuReady, At
  <2>6. ProducerOK'
    BY <1>0, <1>1, <2>2, <2>3 DEF ProducerOK, InSlot
  <2> QED
    BY <1>3, <1>5, <1>7, <2>2, <2>5, <2>6, Whole
<1> QED
  BY <1>0, <1>4, <1>6, <1>7

LEMMA AheadKeepsAll ==
  ASSUME IInv, SInv, Ahead
  PROVE  SInv'
<1>0. /\ HostType /\ DrawOK /\ BuildOK /\ QuietOK /\ ProvenOK /\ SearchOK /\ PrepShape /\ GateOK
      /\ AnswerOK /\ PastOK /\ TileOK /\ LossOK /\ CountOK
      /\ MaxDraws \in Nat /\ host.draw \in Nat /\ mode \in {"async", "sync", "cpu"}
  BY Parts
<1>1. /\ host.pc = "ahead" /\ prepq = <<>> /\ mode # "cpu" /\ prod.pc = "off" /\ ~host.found
      /\ UNCHANGED <<mode, wins, data, slot, prod, dev, prepq, searchq, event, stop, hist>>
  BY <1>0 DEF Ahead, At, gpu, cpu, QuietOK, BuildOK, ProvenOK, NoProducer, Preparing
<1>2. /\ host'.a = host.a /\ host'.draw = host.draw /\ KeptWin /\ KeptRest /\ host'.rc = host.rc
      /\ \/ host'.pc = "phase1" /\ host'.next = host.draw + 1
         \/ host'.pc = "wait" /\ mode = "async" /\ ~HasMore
         \/ host'.pc = "judge" /\ mode # "async" /\ ~HasMore
  <2>1. CASE HasNext
    <3>1. host' = [host EXCEPT !.pc = "phase1", !.next = host.draw + 1]
      BY <2>1 DEF Ahead
    <3> QED
      BY <1>0, <3>1 DEF HostType, Points, KeptWin, KeptRest
  <2>2. CASE ~HasNext
    <3>1. host' = [host EXCEPT !.pc = IF mode = "async" THEN "wait" ELSE "judge"]
      BY <2>2 DEF Ahead
    <3>2. ~HasMore
      BY <2>2 DEF HasNext, HasMore
    <3> QED
      BY <1>0, <3>1, <3>2 DEF HostType, Points, KeptWin, KeptRest
  <2> QED
    BY <2>1, <2>2
<1>3. Here' = Here /\ (HasMore' <=> HasMore)
  BY <1>1, <1>2 DEF Here, Id, HasMore
<1>4. PrepShape' /\ PrepOK'
  BY <1>0, <1>1, <1>2, Unprepared
<1>5. NextOK'
  BY <1>0, <1>1, <1>2 DEF NextOK, At, Preparing
<1>6. SearchOK' /\ GateOK'
  <2>1. CASE mode = "async"
    <3>1. InFlight /\ InFlight'
      BY <1>0, <1>1, <1>2, <2>1 DEF InFlight, At, Preparing
    <3>2. SearchOK'
      BY <1>0, <1>1, <1>2, <3>1, Flying
    <3>3. GateOK'
      BY <1>1, <1>2 DEF GateOK, At
    <3> QED
      BY <3>2, <3>3
  <2>2. CASE mode # "async"
    <3>1. ~InFlight /\ ~InFlight'
      BY <1>0, <1>1, <1>2, <2>2 DEF InFlight, At, Preparing
    <3> QED
      BY <1>0, <1>1, <3>1, Idle
  <2> QED
    BY <2>1, <2>2
<1>7. GpuReady' /\ CpuReady' /\ ProducerOK'
  BY <1>1, <1>2, <1>3 DEF GpuReady, CpuReady, ProducerOK, At
<1>8. InHand' <=> InHand
  BY <1>0, <1>1, <1>2 DEF InHand, At, Preparing
<1>9. AnswerOK' /\ PastOK'
  BY <1>0, <1>1, <1>2, <1>3, <1>8 DEF AnswerOK, PastOK, At, KeptRest, Preparing
<1>10. TileOK' /\ LossOK'
  BY <1>0, <1>1, <1>2 DEF TileOK, LossOK, At
<1>11. CountOK'
  BY <1>0, <1>1, <1>2, <1>8 DEF CountOK, Counted, At
<1> QED
  BY <1>4, <1>5, <1>6, <1>7, <1>9, <1>10, <1>11, Whole

(* The loop goes on with an answer, or an error. *)
LEMMA AfterTheWait ==
  ASSUME IInv, SInv, At("wait"), searchq = <<>>, Kept, KeptWin, host'.cur = host.cur, host'.rc = host.rc,
         \/ host'.pc = "judge" /\ mode # "cpu"
         \/ host'.pc = "ahead" /\ mode = "sync"
         \/ host'.pc = "join" /\ mode = "cpu",
         mode = "sync" => (host'.pc = "ahead" <=> host'.ok = "none"),
         UNCHANGED <<mode, wins, data, slot, prod, dev, prepq, searchq, event, stop>>
  PROVE  /\ InHand' /\ ~Counted /\ ~host.found
         /\ NextOK' /\ SearchOK' /\ PrepShape' /\ PrepOK' /\ GateOK'
         /\ GpuReady' /\ CpuReady' /\ ProducerOK'
<1>0. /\ HostType /\ BuildOK /\ ProvenOK /\ SearchOK /\ PrepShape /\ GpuReady /\ CpuReady /\ ProducerOK
      /\ event \in [queued : Nat, done : Nat]
  BY Parts
<1>1. host.pc = "wait" /\ host.pc \notin {"sync1", "sync2"} /\ host'.pc \notin {"sync1", "sync2"}
  BY DEF At
<1>2. InHand' /\ ~Counted /\ ~host.found
  BY <1>0, <1>1 DEF InHand, Counted, At, ProvenOK, Preparing
<1>3. ~InFlight'
  BY DEF InFlight, At, Preparing
<1>4. SearchOK' /\ GateOK'
  BY <1>0, <1>3, Landed
<1>5. PrepShape' /\ PrepOK' /\ NextOK'
  <2>1. PrepShape' /\ PrepOK'
    BY <1>0, <1>1, Unprepared
  <2>2. NextOK'
    BY DEF NextOK, At, Preparing
  <2> QED
    BY <2>1, <2>2
<1>6. /\ Ahead1' = Ahead1 /\ Both(Noised(Ahead1))' = Both(Noised(Ahead1))
      /\ Noised(Ahead1)' = Noised(Ahead1) /\ Produced(Ahead1)' = Produced(Ahead1)
  BY SamePlaces
<1>7. HasMore' <=> HasMore
  BY DEF HasMore, Kept
<1>8. GpuReady'
  BY <1>0, <1>1, <1>6, <1>7 DEF GpuReady, At, OnGpu
<1>9. CpuReady'
  BY <1>0, <1>1, <1>7 DEF CpuReady, At
<1>10. ProducerOK'
  BY <1>0, <1>6 DEF ProducerOK, InSlot
<1> QED
  BY <1>2, <1>4, <1>5, <1>8, <1>9, <1>10

LEMMA WaitKeepsAll ==
  ASSUME IInv, SInv, Wait
  PROVE  SInv'
<1> DEFINE ok == IF dev.win THEN "win" ELSE "none"
<1>0. /\ Typed /\ HostType /\ DevType /\ OtherTypes /\ SearchOK /\ PastOK /\ TileOK /\ LossOK /\ CountOK
      /\ mode \in {"async", "sync", "cpu"} /\ host.draw \in Nat
  BY Parts
<1>1. /\ host.pc = "wait" /\ At("wait") /\ searchq = <<>>
      /\ host' = [host EXCEPT !.pc = AfterWait(ok), !.ok = ok, !.hit = dev.tile]
      /\ hist' = [hist EXCEPT !.searched = @ + 1]
      /\ UNCHANGED <<mode, wins, data, slot, prod, dev, prepq, searchq, event, stop>>
  BY DEF Wait, At, gpu, cpu
<1>2. /\ hist'.fault = hist.fault /\ hist'.searched = hist.searched + 1
      /\ hist.searched \in Nat /\ hist.fault \in BOOLEAN
  BY <1>0, <1>1 DEF OtherTypes
<1>3. dev.win \in BOOLEAN /\ dev.tile \in Ids /\ ok \in {"none", "win"} /\ (ok = "win" <=> dev.win)
  BY <1>0 DEF DevType
<1> HIDE DEF ok
<1>4. /\ host'.pc = AfterWait(ok) /\ host'.ok = ok /\ host'.hit = dev.tile
      /\ Kept /\ KeptWin /\ host'.cur = host.cur /\ host'.rc = host.rc
  BY <1>0, <1>1 DEF HostType, Kept, KeptWin
<1>5. /\ \/ host'.pc = "judge" /\ mode # "cpu"
         \/ host'.pc = "ahead" /\ mode = "sync"
         \/ host'.pc = "join" /\ mode = "cpu"
      /\ mode = "sync" => (host'.pc = "ahead" <=> host'.ok = "none")
  BY <1>0, <1>3, <1>4 DEF AfterWait
<1>6. /\ InHand' /\ ~Counted /\ ~host.found
      /\ NextOK' /\ SearchOK' /\ PrepShape' /\ PrepOK' /\ GateOK'
      /\ GpuReady' /\ CpuReady' /\ ProducerOK'
  BY <1>1, <1>4, <1>5, AfterTheWait
<1>7. dev.tile = Here /\ (hist.fault \/ (dev.win <=> host.draw \in wins))
  <2>1. InFlight /\ Len(searchq) = 0
    BY <1>1 DEF InFlight
  <2> QED
    BY <1>0, <2>1 DEF SearchOK, FlightOK
<1>8. Here' = Here
  BY <1>4, SamePlaces
<1>9. AnswerOK' /\ PastOK'
  <2>1. AnswerOK'
    BY <1>1, <1>2, <1>3, <1>4, <1>5, <1>7, <1>8 DEF AnswerOK, At, Kept, Preparing
  <2>2. PastOK'
    BY <1>0, <1>1, <1>2, <1>4 DEF PastOK, Kept
  <2> QED
    BY <2>1, <2>2
<1>10. TileOK' /\ LossOK'
  BY <1>0, <1>1, <1>2, <1>4, <1>5 DEF TileOK, LossOK, At
<1>11. CountOK'
  <2>1. ~hist.fault => hist.searched = host.draw
    BY <1>0, <1>6 DEF CountOK
  <2>2. Counted'
    BY <1>6 DEF Counted
  <2> QED
    BY <1>0, <1>2, <1>4, <1>5, <2>1, <2>2 DEF CountOK, Kept
<1> QED
  BY <1>6, <1>9, <1>10, <1>11, Whole

LEMMA WaitFailsKeepsAll ==
  ASSUME IInv, SInv, WaitFails
  PROVE  SInv'
<1>0. /\ HostType /\ OtherTypes /\ TileOK /\ LossOK /\ mode \in {"async", "sync", "cpu"}
  BY Parts
<1>1. /\ host.pc = "wait" /\ At("wait") /\ searchq = <<>>
      /\ host' = [host EXCEPT !.pc = AfterWait("error"), !.ok = "error"]
      /\ hist'.fault
      /\ UNCHANGED <<mode, wins, data, slot, prod, dev, prepq, searchq, event, stop>>
  BY <1>0 DEF WaitFails, At, gpu, cpu, Fault, OtherTypes
<1>2. /\ host'.pc = AfterWait("error") /\ host'.ok = "error"
      /\ Kept /\ KeptWin /\ host'.cur = host.cur /\ host'.rc = host.rc
  BY <1>0, <1>1 DEF HostType, Kept, KeptWin
<1>3. host'.pc \in {"judge", "join"} /\ (host'.pc = "join" <=> mode = "cpu")
  BY <1>0, <1>2 DEF AfterWait
<1>4. /\ NextOK' /\ SearchOK' /\ PrepShape' /\ PrepOK' /\ GateOK'
      /\ GpuReady' /\ CpuReady' /\ ProducerOK'
  BY <1>1, <1>2, <1>3, AfterTheWait
<1>5. AnswerOK' /\ PastOK'
  BY <1>1, <1>2, <1>3 DEF AnswerOK, PastOK, At, Preparing
<1>6. TileOK' /\ LossOK' /\ CountOK'
  BY <1>0, <1>1, <1>2, <1>3 DEF TileOK, LossOK, CountOK, At
<1> QED
  BY <1>4, <1>5, <1>6, Whole

(* The steps with the answer in hand: no stream is touched. *)
LEMMA JudgeStreams ==
  ASSUME IInv, SInv, host.pc \in {"judge", "rederive", "over", "postcheck", "proof", "returned"},
         host'.pc \in {"top", "rederive", "over", "postcheck", "proof", "returned", "prime"},
         host'.pc = "prime" => host'.cur = 0,
         UNCHANGED <<mode, prepq, searchq, event>>
  PROVE  /\ ~InFlight' /\ NextOK' /\ SearchOK' /\ PrepShape' /\ PrepOK' /\ GateOK'
<1>0. SearchOK /\ PrepShape
  BY Parts
<1>1. ~InFlight /\ ~InFlight'
  BY DEF InFlight, At, Preparing
<1>2. SearchOK' /\ GateOK'
  BY <1>0, <1>1, Idle
<1>3. PrepShape' /\ PrepOK'
  BY <1>0, Unprepared
<1>4. NextOK'
  BY DEF NextOK, At, Preparing
<1> QED
  BY <1>1, <1>2, <1>3, <1>4

LEMMA WinKeepsAll ==
  ASSUME IInv, SInv, Win
  PROVE  SInv'
<1>0. /\ HostType /\ OtherTypes /\ BuildOK /\ ProvenOK /\ AnswerOK /\ PastOK /\ LossOK /\ CountOK
  BY Parts
<1>1. /\ host.pc = "judge" /\ host.ok = "win" /\ ~host.found /\ prod.pc = "off"
      /\ UNCHANGED <<mode, wins, data, slot, prod, dev, prepq, searchq, event, stop, hist>>
  BY <1>0 DEF Win, At, gpu, cpu, ProvenOK, BuildOK, NoProducer
<1>2. /\ Kept /\ KeptRest /\ host'.tile = host.tile /\ host'.rc = host.rc
      /\ \/ stop /\ host'.pc = "over" /\ host'.found
         \/ ~stop /\ host'.pc = "rederive" /\ host'.found = host.found
  <2>1. CASE stop
    <3>1. host' = [host EXCEPT !.pc = "over", !.found = TRUE]
      BY <2>1 DEF Win
    <3> QED
      BY <1>0, <2>1, <3>1 DEF HostType, Kept, KeptRest
  <2>2. CASE ~stop
    <3>1. host' = [host EXCEPT !.pc = "rederive"]
      BY <2>2 DEF Win
    <3> QED
      BY <1>0, <2>2, <3>1 DEF HostType, Kept, KeptRest
  <2> QED
    BY <2>1, <2>2
<1>3. ~InFlight' /\ NextOK' /\ SearchOK' /\ PrepShape' /\ PrepOK' /\ GateOK'
  BY <1>1, <1>2, JudgeStreams
<1>4. GpuReady' /\ CpuReady' /\ ProducerOK'
  BY <1>1, <1>2 DEF GpuReady, CpuReady, ProducerOK, At
<1>5. Here' = Here /\ InHand /\ (InHand' <=> host'.pc = "rederive")
  BY <1>1, <1>2, SamePlaces DEF InHand, At, Preparing
<1>6. AnswerOK' /\ PastOK'
  BY <1>0, <1>1, <1>2, <1>5 DEF AnswerOK, PastOK, At, Kept, KeptRest, Preparing
<1>7. TileOK' /\ LossOK'
  BY <1>0, <1>1, <1>2 DEF TileOK, LossOK, At
<1>8. CountOK'
  BY <1>0, <1>1, <1>2, <1>5 DEF CountOK, Counted, Kept
<1> QED
  BY <1>3, <1>4, <1>6, <1>7, <1>8, Whole

LEMMA NoWinKeepsAll ==
  ASSUME IInv, SInv, NoWin
  PROVE  SInv'
<1>0. /\ HostType /\ OtherTypes /\ DrawOK /\ BuildOK /\ ProvenOK /\ AnswerOK /\ PastOK /\ TileOK /\ LossOK
      /\ CountOK /\ GpuReady /\ CpuReady /\ mode \in {"async", "sync", "cpu"}
      /\ MaxDraws \in Nat /\ host.draw \in Nat
  BY Parts
<1>1. /\ host.pc = "judge" /\ ~host.found /\ prod.pc = "off"
      /\ host.ok = "none" \/ (host.ok = "error" /\ mode = "cpu")
      /\ host' = [host EXCEPT !.pc = "top", !.draw = @ + 1, !.cur = 1 - @]
      /\ UNCHANGED <<mode, wins, data, slot, prod, dev, prepq, searchq, event, stop, hist>>
  BY <1>0 DEF NoWin, At, gpu, cpu, ProvenOK, BuildOK, NoProducer
<1>2. /\ host'.pc = "top" /\ host'.draw = host.draw + 1 /\ host'.cur = 1 - host.cur /\ host'.a = host.a
      /\ KeptWin /\ host'.rc = host.rc
  BY <1>0, <1>1 DEF HostType, KeptWin
<1>3. ~InFlight' /\ NextOK' /\ SearchOK' /\ PrepShape' /\ PrepOK' /\ GateOK'
  BY <1>1, <1>2, JudgeStreams
<1>4. /\ Here' = Ahead1 /\ Both(Noised(Here))' = Both(Noised(Ahead1))
      /\ ~stop /\ host'.draw < MaxDraws => HasMore
  BY <1>0, <1>2 DEF Here, Ahead1, Id, Both, Noised, HasMore
<1>5. GpuReady' /\ CpuReady' /\ ProducerOK'
  BY <1>0, <1>1, <1>2, <1>4 DEF GpuReady, CpuReady, ProducerOK, At, OnGpu, InSlot
<1>6. InHand /\ ~InHand' /\ ~Counted' /\ Counted
  BY <1>1, <1>2 DEF InHand, Counted, At, Preparing
<1>7. AnswerOK'
  BY <1>2, <1>6 DEF AnswerOK, At, Preparing
<1>8. PastOK'
  <2>1. hist.fault \/ host.draw \notin wins
    BY <1>0, <1>1, <1>6 DEF AnswerOK
  <2>2. wins \subseteq 0..(MaxDraws - 1)
    BY <1>0 DEF OtherTypes
  <2>3. ASSUME ~hist.fault, NEW d \in wins PROVE host.draw + 1 <= d
    <3>1. host.draw <= d /\ d # host.draw /\ d \in Int
      BY <1>0, <2>1, <2>2, <2>3 DEF PastOK
    <3> QED
      BY <1>0, <3>1
  <2> QED
    BY <1>1, <1>2, <2>3 DEF PastOK
<1>9. TileOK' /\ LossOK'
  BY <1>0, <1>1, <1>2 DEF TileOK, LossOK, At
<1>10. CountOK'
  BY <1>0, <1>1, <1>2, <1>6 DEF CountOK
<1> QED
  BY <1>3, <1>5, <1>7, <1>8, <1>9, <1>10, Whole

LEMMA RederiveKeepsAll ==
  ASSUME IInv, SInv, Rederive
  PROVE  SInv'
<1>0. /\ HostType /\ OtherTypes /\ BuildOK /\ AnswerOK /\ PastOK /\ LossOK /\ CountOK
  BY Parts
<1>1. /\ host.pc = "rederive" /\ host.ok = "win" /\ prod.pc = "off"
      /\ host' = [host EXCEPT !.pc = "over", !.found = TRUE, !.tile = host.hit]
      /\ UNCHANGED <<mode, wins, slot, prod, dev, prepq, searchq, event, stop, hist>>
  BY <1>0 DEF Rederive, At, gpu, cpu, AnswerOK, BuildOK, NoProducer
<1>2. /\ host'.pc = "over" /\ host'.found /\ host'.tile = host.hit /\ Kept /\ host'.rc = host.rc
  BY <1>0, <1>1 DEF HostType, Kept
<1>3. ~InFlight' /\ NextOK' /\ SearchOK' /\ PrepShape' /\ PrepOK' /\ GateOK'
  BY <1>1, <1>2, JudgeStreams
<1>4. GpuReady' /\ CpuReady' /\ ProducerOK'
  BY <1>1, <1>2 DEF GpuReady, CpuReady, ProducerOK, At
<1>5. Here' = Here /\ InHand /\ ~InHand'
  BY <1>1, <1>2, SamePlaces DEF InHand, At, Preparing
<1>6. AnswerOK' /\ PastOK'
  BY <1>0, <1>1, <1>2, <1>5 DEF AnswerOK, PastOK, At, Kept, Preparing
<1>7. TileOK'
  <2>1. host.hit = Here /\ (hist.fault \/ host.draw \in wins)
    BY <1>0, <1>1, <1>5 DEF AnswerOK
  <2> QED
    BY <1>1, <1>2, <1>5, <2>1 DEF TileOK, At, Kept
<1>8. LossOK' /\ CountOK'
  BY <1>0, <1>1, <1>2, <1>5 DEF LossOK, CountOK, Counted, At, Kept
<1> QED
  BY <1>3, <1>4, <1>6, <1>7, <1>8, Whole

LEMMA LoopOverKeepsAll ==
  ASSUME IInv, SInv, LoopOver
  PROVE  SInv'
<1>0. /\ HostType /\ OtherTypes /\ BuildOK /\ PastOK /\ TileOK /\ LossOK /\ CountOK
      /\ MaxDraws \in Nat /\ host.draw \in Nat
  BY Parts
<1>1. /\ host.pc = "over" /\ prod.pc = "off"
      /\ UNCHANGED <<mode, wins, data, slot, prod, dev, prepq, searchq, event, stop, hist>>
  BY <1>0 DEF LoopOver, At, gpu, cpu, BuildOK, NoProducer
<1>2. /\ Kept /\ KeptWin /\ host'.draws = DrawsDone
      /\ \/ host.found /\ ~stop /\ host'.pc = "postcheck" /\ host'.rc = host.rc
         \/ ~(host.found /\ ~stop) /\ host'.pc = "returned" /\ host'.rc = 2
  <2>1. CASE host.found /\ ~stop
    <3>1. host' = [host EXCEPT !.pc = "postcheck", !.draws = DrawsDone]
      BY <2>1 DEF LoopOver
    <3> QED
      BY <1>0, <2>1, <3>1 DEF HostType, Kept, KeptWin
  <2>2. CASE ~(host.found /\ ~stop)
    <3>1. host' = [host EXCEPT !.pc = "returned", !.rc = 2, !.draws = DrawsDone]
      BY <2>2 DEF LoopOver
    <3> QED
      BY <1>0, <2>2, <3>1 DEF HostType, Kept, KeptWin
  <2> QED
    BY <2>1, <2>2
<1>3. ~InFlight' /\ NextOK' /\ SearchOK' /\ PrepShape' /\ PrepOK' /\ GateOK'
  BY <1>1, <1>2, JudgeStreams
<1>4. GpuReady' /\ CpuReady' /\ ProducerOK'
  BY <1>1, <1>2 DEF GpuReady, CpuReady, ProducerOK, At
<1>5. Here' = Here /\ ~InHand /\ ~InHand'
  BY <1>1, <1>2, SamePlaces DEF InHand, At, Preparing
<1>6. AnswerOK' /\ PastOK'
  BY <1>0, <1>1, <1>2, <1>5 DEF AnswerOK, PastOK, At, Kept, Preparing
<1>7. TileOK'
  BY <1>0, <1>1, <1>2, <1>5 DEF TileOK, At, Kept, KeptWin
<1>8. LossOK'
  <2> SUFFICES ASSUME host'.pc = "returned", ~stop, ~hist.fault PROVE wins = {}
    BY <1>0, <1>1, <1>2 DEF LossOK, At
  <2>1. host.draw >= MaxDraws
    BY <1>0, <1>1, <1>2 DEF LossOK, At
  <2>2. wins \subseteq 0..(MaxDraws - 1) /\ \A d \in wins : host.draw <= d
    BY <1>0 DEF OtherTypes, PastOK
  <2> QED
    BY <1>0, <2>1, <2>2
<1>9. CountOK'
  <2>1. Counted <=> host.found
    BY <1>1, <1>5 DEF Counted
  <2>2. Counted' <=> host.found
    BY <1>2, <1>5 DEF Counted, KeptWin
  <2> QED
    BY <1>0, <1>1, <1>2, <2>1, <2>2 DEF CountOK, DrawsDone, Kept
<1> QED
  BY <1>3, <1>4, <1>6, <1>7, <1>8, <1>9, Whole

(* The host variables are back at the draw the tile was found in, so that   *)
(* the postcheck can only fail on a draw that does not win.                 *)
LEMMA PostcheckKeepsAll ==
  ASSUME IInv, SInv, Postcheck
  PROVE  SInv'
<1>0. /\ HostType /\ OtherTypes /\ BuildOK /\ ProvenOK /\ PastOK /\ TileOK /\ LossOK /\ CountOK
  BY Parts
<1>1. /\ host.pc = "postcheck" /\ prod.pc = "off"
      /\ UNCHANGED <<mode, wins, data, slot, prod, dev, prepq, searchq, event, stop, hist>>
  BY <1>0 DEF Postcheck, At, gpu, cpu, BuildOK, NoProducer
<1>2. PostOk \/ hist.fault
  <2>1. data = Produced(Here) /\ host.tile = Here /\ (hist.fault \/ host.draw \in wins)
    BY <1>0, <1>1 DEF ProvenOK, TileOK, At, Here
  <2> QED
    BY <2>1 DEF PostOk, Produced, Here, Id
<1>3. /\ Kept /\ KeptWin /\ KeptRest
      /\ \/ host'.pc = "proof" /\ host'.rc = host.rc
         \/ host'.pc = "returned" /\ host'.rc = 4 /\ hist.fault
  <2>1. CASE PostOk
    BY <1>0, <2>1, Goes DEF Postcheck, Points
  <2>2. CASE ~PostOk
    BY <1>0, <1>2, <2>2, Returns DEF Postcheck
  <2> QED
    BY <2>1, <2>2
<1>4. ~InFlight' /\ NextOK' /\ SearchOK' /\ PrepShape' /\ PrepOK' /\ GateOK'
  BY <1>1, <1>3, JudgeStreams
<1>5. GpuReady' /\ CpuReady' /\ ProducerOK'
  BY <1>1, <1>3 DEF GpuReady, CpuReady, ProducerOK, At
<1>6. Here' = Here /\ ~InHand /\ ~InHand'
  BY <1>1, <1>3, SamePlaces DEF InHand, At, Preparing
<1>7. AnswerOK' /\ PastOK' /\ TileOK'
  BY <1>0, <1>1, <1>3, <1>6 DEF AnswerOK, PastOK, TileOK, At, Kept, KeptWin, Preparing
<1>8. LossOK'
  BY <1>0, <1>1, <1>3 DEF LossOK, At
<1>9. CountOK'
  BY <1>0, <1>1, <1>3, <1>6 DEF CountOK, Counted, Kept, KeptWin, KeptRest
<1> QED
  BY <1>4, <1>5, <1>7, <1>8, <1>9, Whole

LEMMA ProofKeepsAll ==
  ASSUME IInv, SInv, Proof
  PROVE  SInv'
<1>0. /\ HostType /\ OtherTypes /\ BuildOK /\ PastOK /\ TileOK /\ LossOK /\ CountOK
  BY Parts
<1>1. /\ host.pc = "proof" /\ prod.pc = "off"
      /\ UNCHANGED <<mode, wins, data, slot, prod, dev, prepq, searchq, event, stop, hist>>
  BY <1>0 DEF Proof, At, gpu, cpu, BuildOK, NoProducer
<1>2. /\ Kept /\ KeptWin /\ KeptRest /\ host'.pc = "returned"
      /\ \/ host'.rc = 2 /\ stop
         \/ host'.rc = 0 /\ ~stop
  <2>1. Return(LastLook) /\ LastLook \in {0, 2, 4}
    BY DEF Proof, LastLook
  <2>2. Kept /\ KeptWin /\ KeptRest /\ host'.pc = "returned" /\ host'.rc = LastLook
    BY <1>0, <2>1, Returns
  <2> QED
    BY <2>2 DEF LastLook
<1>3. ~InFlight' /\ NextOK' /\ SearchOK' /\ PrepShape' /\ PrepOK' /\ GateOK'
  BY <1>1, <1>2, JudgeStreams
<1>4. GpuReady' /\ CpuReady' /\ ProducerOK'
  BY <1>1, <1>2 DEF GpuReady, CpuReady, ProducerOK, At
<1>5. Here' = Here /\ ~InHand /\ ~InHand'
  BY <1>1, <1>2, SamePlaces DEF InHand, At, Preparing
<1>6. AnswerOK' /\ PastOK' /\ TileOK'
  BY <1>0, <1>1, <1>2, <1>5 DEF AnswerOK, PastOK, TileOK, At, Kept, KeptWin, Preparing
<1>7. LossOK'
  BY <1>0, <1>1, <1>2 DEF LossOK, At
<1>8. CountOK'
  BY <1>0, <1>1, <1>2, <1>5 DEF CountOK, Counted, Kept, KeptWin, KeptRest
<1> QED
  BY <1>3, <1>4, <1>6, <1>7, <1>8, Whole

LEMMA NextAttemptKeepsAll ==
  ASSUME IInv, SInv, NextAttempt
  PROVE  SInv'
<1>1. /\ host.pc = "returned" /\ host' = FreshHost(host.a + 1) /\ wins' \in SUBSET (0..(MaxDraws - 1))
      /\ prod' = NoProducer /\ hist' = [fault |-> FALSE, searched |-> 0]
      /\ UNCHANGED <<mode, dev, prepq, searchq, event>>
  BY DEF NextAttempt, At, gpu
<1>2. /\ host'.pc = "prime" /\ host'.draw = 0 /\ host'.next = 0 /\ host'.cur = 0 /\ ~host'.found
      /\ host'.rc = 2 /\ prod'.pc = "off" /\ ~hist'.fault /\ hist'.searched = 0
  BY <1>1 DEF FreshHost, NoProducer
<1>3. ~InFlight' /\ NextOK' /\ SearchOK' /\ PrepShape' /\ PrepOK' /\ GateOK'
  BY <1>1, <1>2, JudgeStreams
<1>4. GpuReady' /\ CpuReady' /\ ProducerOK'
  BY <1>2 DEF GpuReady, CpuReady, ProducerOK, At
<1>5. ~InHand' /\ ~Counted'
  BY <1>2 DEF InHand, Counted, At, Preparing
<1>6. AnswerOK' /\ TileOK' /\ LossOK' /\ CountOK'
  BY <1>2, <1>5 DEF AnswerOK, TileOK, LossOK, CountOK, At, Preparing
<1>7. PastOK'
  <2>1. \A d \in wins' : d >= 0
    BY <1>1, Parts
  <2> QED
    BY <1>2, <2>1 DEF PastOK
<1> QED
  BY <1>3, <1>4, <1>6, <1>7, Whole

-----------------------------------------------------------------------------
(* The invariant, and what follows from it. *)

LEMMA SearchInit == Init => SInv
<1> SUFFICES ASSUME Init PROVE SInv
  OBVIOUS
<1>1. /\ host.pc = "prime" /\ host.draw = 0 /\ host.next = 0 /\ host.cur = 0 /\ ~host.found /\ host.rc = 2
      /\ prod.pc = "off" /\ ~hist.fault /\ hist.searched = 0
      /\ wins \in SUBSET (0..(MaxDraws - 1)) /\ MaxDraws \in Nat
      /\ event.queued = 0 /\ event.done = 0 /\ Len(prepq) = 0 /\ Len(searchq) = 0 /\ searchq = <<>>
  BY BoundsAssumption DEF Init, FreshHost, NoProducer
<1>2. ~InFlight /\ ~InHand /\ ~Counted
  BY <1>1 DEF InFlight, InHand, Counted, At, Preparing
<1>3. StreamsOK
  BY <1>1, <1>2 DEF StreamsOK, NextOK, SearchShape, EventOK, Pending, FlightOK, PrepShape, PrepOK, GateOK,
     At, Preparing
<1>4. LoopOK
  BY <1>1 DEF LoopOK, GpuReady, CpuReady, ProducerOK, At
<1>5. ResultOK
  <2>1. \A d \in wins : d >= 0
    BY <1>1
  <2> QED
    BY <1>1, <1>2, <2>1 DEF ResultOK, AnswerOK, PastOK, TileOK, LossOK, CountOK, At, Preparing
<1> QED
  BY <1>3, <1>4, <1>5 DEF SInv

LEMMA SearchStep == IInv /\ SInv /\ [Next]_vars => SInv'
<1> SUFFICES ASSUME IInv, SInv, [Next]_vars PROVE SInv'
  OBVIOUS
<1>1. CASE Moves
  BY <1>1, PrimeKeepsAll, Phase1KeepsAll, Phase2KeepsAll, PreparedKeepsAll, TopKeepsAll, SpawnKeepsAll,
     LaunchKeepsAll, JoinKeepsAll DEF Moves
<1>2. CASE PrepFails \/ Drain \/ SearchFailed \/ LaunchFails
  BY <1>2, PrepFailsKeepsAll, DrainKeepsAll, SearchFailedKeepsAll, LaunchFailsKeepsAll
<1>3. CASE Ahead \/ Wait \/ WaitFails \/ Win \/ NoWin
  BY <1>3, AheadKeepsAll, WaitKeepsAll, WaitFailsKeepsAll, WinKeepsAll, NoWinKeepsAll
<1>4. CASE Rederive \/ LoopOver \/ Postcheck \/ Proof \/ NextAttempt
  BY <1>4, RederiveKeepsAll, LoopOverKeepsAll, PostcheckKeepsAll, ProofKeepsAll, NextAttemptKeepsAll
<1>5. CASE Beside
  BY <1>5, BesideKeepsAll
<1> QED
  BY <1>1, <1>2, <1>3, <1>4, <1>5, Steps

LEMMA SearchInvariance == Spec => [](IInv /\ SInv)
BY SearchInit, SearchStep, Invariance, PTL DEF Spec

(* A search is started with both panels and the key of the draw the loop is *)
(* at, fully noised, although the preparation of the next draw writes the   *)
(* matrices the panels are gathered from, and failed attempts may have left *)
(* work in either stream (tc_search_launch, gpu_prep_draw).                 *)
THEOREM SearchesSeeTheirDraw == Spec => []SearchSeesItsDraw
<1>1. IInv /\ SInv => SearchSeesItsDraw
  <2> SUFFICES ASSUME IInv, SInv, searchq # <<>>, Head(searchq).op = "search"
               PROVE  Searches(Id(host.draw))
    BY DEF SearchSeesItsDraw
  <2>0. Typed /\ searchq \in Seq(SearchOps) /\ SearchOK /\ DevType
    BY Parts
  <2>1. /\ Len(searchq) \in Nat /\ Len(searchq) > 0 /\ Head(searchq) = FromEnd(searchq, Len(searchq) - 1)
        /\ Len(searchq) - 1 \in 0..(Len(searchq) - 1)
    BY <2>0, TailFromEnd
  <2>2. InFlight /\ Len(searchq) = 1
    <3> DEFINE k == Len(searchq) - 1
    <3>1. FromEnd(searchq, k).op = "search" /\ k \in 0..(Len(searchq) - 1)
      BY <2>1
    <3> HIDE DEF k
    <3>2. CASE InFlight
      <4>1. InFlightOp(k, FromEnd(searchq, k))
        BY <2>0, <3>1, <3>2 DEF SearchOK, SearchShape
      <4>2. k = 0
        BY <3>1, <4>1 DEF InFlightOp
      <4> QED
        BY <2>1, <3>2, <4>2 DEF k
    <3>3. CASE ~InFlight
      <4>1. LeftoverOp(k, FromEnd(searchq, k))
        BY <2>0, <3>1, <3>3 DEF SearchOK, SearchShape
      <4> QED
        BY <3>1, <4>1 DEF LeftoverOp
    <3> QED
      BY <3>2, <3>3
  <2>3. dev.key = Here /\ dev.panel["A"] = Noised(Here) /\ dev.panel["Bt"] = Noised(Here)
    BY <2>0, <2>2, ModeCases DEF SearchOK, FlightOK
  <2>4. dev.panel = Both(Noised(Here))
    BY <2>0, <2>3 DEF DevType, Both, Matrices
  <2> QED
    BY <2>3, <2>4 DEF Searches, Here
<1> QED
  BY <1>1, SearchInvariance, PTL

(* mine_plain_proof returns 4, a win refused by its postcheck, only after a *)
(* device error or a wrong answer of a search.                              *)
THEOREM RefusalsAreFaults == Spec => []RefusedOnlyIfFaulty
<1>1. SInv => RefusedOnlyIfFaulty
  BY DEF SInv, ResultOK, LossOK, RefusedOnlyIfFaulty
<1> QED
  BY <1>1, SearchInvariance, PTL

(* Without a fault and without a stop, an attempt that returns no proof had *)
(* no winning draw, and a proof is of the first draw that wins.             *)
THEOREM NoWinIsMissed == Spec => []NoWinMissed
<1>1. SInv => NoWinMissed
  <2> SUFFICES ASSUME SInv, At("returned"), ~hist.fault
               PROVE  /\ host.rc = 2 /\ ~stop => wins = {}
                      /\ host.rc = 0 => \A d \in wins : host.tile.d <= d
    BY DEF NoWinMissed
  <2>1. LossOK /\ TileOK /\ PastOK
    BY DEF SInv, ResultOK
  <2> QED
    BY <2>1 DEF LossOK, TileOK, PastOK, Here, Id
<1> QED
  BY <1>1, SearchInvariance, PTL

(* R.draws, from which the hashrate is computed, is the number of searches  *)
(* that were waited for.                                                    *)
THEOREM DrawsAreCounted == Spec => []DrawsCounted
<1>1. SInv => DrawsCounted
  BY DEF SInv, ResultOK, CountOK, DrawsCounted, At
<1> QED
  BY <1>1, SearchInvariance, PTL
=============================================================================
