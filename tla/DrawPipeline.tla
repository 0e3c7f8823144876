---------------------------- MODULE DrawPipeline ----------------------------
(***************************************************************************)
(* The redraw loop of mine_plain_proof (plainproof_gen.cpp) with the GPU    *)
(* work it overlaps: gpu_prep.cu prepares draw N+1 in dA and dBt on its own *)
(* stream while tc_cutlass_v2.cu searches draw N on another, from panels    *)
(* gathered out of the same dA and dBt.  Three builds of the loop:          *)
(*   async  GPU preparation under the search (CUTLASS)                      *)
(*   sync   GPU preparation after the search (WMMA, tc_block.cu)            *)
(*   cpu    a producer thread fills one of two slots while the GPU searches *)
(*          the other                                                       *)
(* A CUDA stream is a queue of operations done in order, some time after    *)
(* they were queued.  A matrix is the draw it was made from and how far it  *)
(* got; what is computed from parts of two draws is Junk, and belongs to no *)
(* draw.  Attempts follow one another on the same device buffers.           *)
(***************************************************************************)
EXTENDS Integers, Sequences

CONSTANTS
  Modes,        \* the builds considered
  MaxDraws,     \* maxdraws: draws in an attempt
  MaxAttempts   \* bound: how many attempts

ASSUME ModesAssumption  == Modes \subseteq {"async", "sync", "cpu"}
ASSUME BoundsAssumption == MaxDraws \in Nat /\ MaxAttempts \in Nat \ {0}

Matrices == {"A", "Bt"}
Draws    == [a : 1..MaxAttempts, d : 0..(MaxDraws - 1)]     \* (seed, draw)
NoDraw   == [a |-> 0, d |-> 0]
Ids      == Draws \cup {NoDraw}

Raw(x)    == [form |-> "raw", of |-> x]
Noised(x) == [form |-> "noised", of |-> x]
Junk      == [form |-> "junk", of |-> NoDraw]
Contents  == [form : {"raw", "noised"}, of : Ids] \cup {Junk}
Both(c)   == [m \in Matrices |-> c]

VARIABLES
  mode,
  wins,     \* the draws of this attempt in which some tile wins
  host,     \* the loop: pc, a (attempt), draw, next (draw prepared ahead), cur (slot),
            \*   ok (of the search), hit (rt, ct: as the draw whose tile it is), found,
            \*   tile (win_rows, win_cols), rc, draws (R.draws)
  data,     \* host variables of the current draw: ab (A and Bt), hash, seeds, perms
  slot,     \* the two slots of the cpu build: mat (a_noised, b_noised_t), seed
  prod,     \* the producer thread: pc, id, s (its slot)
  dev,      \* mat (dA, dBt), panel (dAp, dBtp), key, win and tile (df, dr and dc)
  prepq, searchq,   \* the streams
  event,    \* g_gather_evt: queued and done records of it
  stop,     \* *stop_flag
  hist      \* history: fault, a device error or a wrong result of a search;
            \*   searched, searches this attempt has got an answer of

vars == <<mode, wins, host, data, slot, prod, dev, prepq, searchq, event, stop, hist>>

gpu == <<dev, prepq, searchq, event>>
cpu == <<slot, prod>>

Op(op, m, x) == [op |-> op, m |-> m, x |-> x, records |-> 0]
WaitFor(n)   == [op |-> "wait", m |-> "A", x |-> NoDraw, records |-> n]

PrepOps ==
  [op : {"wait", "rng", "hash", "noise"}, m : Matrices, x : Ids, records : Nat]
SearchOps ==
  [op : {"setup", "gather", "record", "search"}, m : Matrices, x : Ids, records : {0}]

Points ==
  {"prime", "phase1", "sync1", "sync2", "top", "spawn", "launch", "ahead", "wait", "drain",
   "join", "judge", "rederive", "over", "postcheck", "proof", "returned"}

HostType ==
  host \in [pc : Points, a : 1..MaxAttempts, draw : 0..MaxDraws, next : 0..MaxDraws, cur : 0..1,
            ok : {"none", "win", "error"}, hit : Ids, found : BOOLEAN, tile : Ids,
            rc : {0, 2, 4}, draws : 0..(MaxDraws + 1)]
DataType == data \in [ab : Ids, hash : [Matrices -> Ids], seeds : Ids, perms : Ids]
ProducerType ==
  /\ slot \in [0..1 -> [mat : [Matrices -> Contents], seed : Ids]]
  /\ prod \in [pc : {"off", "fill", "hash", "A", "Bt", "done"}, id : Ids, s : 0..1]
DevType ==
  dev \in [mat : [Matrices -> Contents], panel : [Matrices -> Contents], key : Ids,
           win : BOOLEAN, tile : Ids]
StreamsType ==
  prepq \in Seq(PrepOps) /\ searchq \in Seq(SearchOps) /\ event \in [queued : Nat, done : Nat]
OtherTypes ==
  /\ mode \in Modes
  /\ wins \subseteq 0..(MaxDraws - 1)
  /\ stop \in BOOLEAN
  /\ hist \in [fault : BOOLEAN, searched : 0..MaxDraws]

TypeOK == HostType /\ DataType /\ ProducerType /\ DevType /\ StreamsType /\ OtherTypes

Id(n) == [a |-> host.a, d |-> n]

FreshHost(a) ==
  [pc |-> "prime", a |-> a, draw |-> 0, next |-> 0, cur |-> 0, ok |-> "none", hit |-> NoDraw,
   found |-> FALSE, tile |-> NoDraw, rc |-> 2, draws |-> 0]
NoSlots    == [s \in 0..1 |-> [mat |-> Both(Junk), seed |-> NoDraw]]
NoProducer == [pc |-> "off", id |-> NoDraw, s |-> 0]

Init ==
  /\ mode \in Modes
  /\ wins \in SUBSET (0..(MaxDraws - 1))
  /\ host = FreshHost(1)
  /\ data = [ab |-> NoDraw, hash |-> Both(NoDraw), seeds |-> NoDraw, perms |-> NoDraw]
  /\ slot = NoSlots /\ prod = NoProducer
  /\ dev = [mat |-> Both(Junk), panel |-> Both(Junk), key |-> NoDraw, win |-> FALSE,
            tile |-> NoDraw]
  /\ prepq = <<>> /\ searchq = <<>> /\ event = [queued |-> 0, done |-> 0]
  /\ stop = FALSE
  /\ hist = [fault |-> FALSE, searched |-> 0]

At(pc) == host.pc = pc

Goto(pc) == host' = [host EXCEPT !.pc = pc]

Return(rc) == host' = [host EXCEPT !.pc = "returned", !.rc = rc]

Fault == hist' = [hist EXCEPT !.fault = TRUE]

-----------------------------------------------------------------------------
(* The streams. *)

(* cudaStreamWaitEvent, rng_fill_kernel, tree_hash and noise_add_kernel. *)
PrepStream ==
  /\ prepq # <<>>
  /\ prepq' = Tail(prepq)
  /\ LET op == Head(prepq)
         c  == dev.mat[op.m]
     IN  \/ /\ op.op = "wait" /\ event.done >= op.records
            /\ UNCHANGED <<dev, data>>
         \/ /\ op.op = "rng"
            /\ dev' = [dev EXCEPT !.mat[op.m] = Raw(op.x)]
            /\ UNCHANGED data
         \/ /\ op.op = "hash"
            /\ data' = [data EXCEPT !.hash[op.m] = IF c.form = "raw" THEN c.of ELSE NoDraw]
            /\ UNCHANGED dev
         \/ /\ op.op = "noise"
            /\ dev' = [dev EXCEPT !.mat[op.m] = IF c = Raw(op.x) THEN Noised(op.x) ELSE Junk]
            /\ UNCHANGED data
  /\ UNCHANGED <<mode, wins, host, slot, prod, searchq, event, stop, hist>>

(* The panels and the key are all of draw x. *)
Searches(x) == dev.panel = Both(Noised(x)) /\ dev.key = x

(* The search reports a winning tile if there is one; a faulty device, or   *)
(* one that was handed parts of different draws, may report anything.       *)
SearchDone(reported) ==
  LET x == dev.key
  IN  /\ dev' = [dev EXCEPT !.win = reported, !.tile = x]
      /\ \/ /\ Searches(x)
            /\ reported = (x.a = host.a /\ x.d \in wins)
            /\ UNCHANGED hist
         \/ /\ Searches(x)
            /\ reported # (x.a = host.a /\ x.d \in wins)
            /\ Fault
         \/ /\ ~Searches(x)
            /\ UNCHANGED hist

SearchStream ==
  /\ searchq # <<>>
  /\ searchq' = Tail(searchq)
  /\ LET op == Head(searchq)
     IN  \/ /\ op.op = "setup"
            /\ dev' = [dev EXCEPT !.key = op.x, !.win = FALSE]
            /\ UNCHANGED <<event, hist>>
         \/ /\ op.op = "gather"
            /\ dev' = [dev EXCEPT !.panel[op.m] = dev.mat[op.m]]
            /\ UNCHANGED <<event, hist>>
         \/ /\ op.op = "record"
            /\ event' = [event EXCEPT !.done = @ + 1]
            /\ UNCHANGED <<dev, hist>>
         \/ /\ op.op = "search"
            /\ \E reported \in BOOLEAN : SearchDone(reported)
            /\ UNCHANGED event
  /\ UNCHANGED <<mode, wins, host, data, slot, prod, prepq, stop>>

-----------------------------------------------------------------------------
(* produce_draw on the host: everything a proof needs, from (seed, draw). *)

Produced(x) == [ab |-> x, hash |-> Both(x), seeds |-> x, perms |-> x]

(* The noised matrices built from what the host variables hold. *)
Built == IF data.ab = data.perms THEN Noised(data.ab) ELSE Junk

(* The producer thread. *)
Producer ==
  /\ \/ /\ prod.pc = "fill"
        /\ data' = [data EXCEPT !.ab = prod.id]
        /\ prod' = [prod EXCEPT !.pc = "hash"]
        /\ UNCHANGED slot
     \/ /\ prod.pc = "hash"
        /\ data' = Produced(data.ab)
        /\ prod' = [prod EXCEPT !.pc = "A"]
        /\ UNCHANGED slot
     \/ /\ prod.pc = "A"
        /\ slot' = [slot EXCEPT ![prod.s].mat["A"] = Built]
        /\ prod' = [prod EXCEPT !.pc = "Bt"]
        /\ UNCHANGED data
     \/ /\ prod.pc = "Bt"
        /\ slot' = [slot EXCEPT ![prod.s] = [mat |-> [@.mat EXCEPT !["Bt"] = Built],
                                            seed |-> data.seeds]]
        /\ prod' = [prod EXCEPT !.pc = "done"]
        /\ UNCHANGED data
  /\ UNCHANGED <<mode, wins, host, gpu, stop, hist>>

-----------------------------------------------------------------------------
(* gpu_prep_draw: two phases, each queued and then waited for. *)

(* Mutant: the preparation does not wait for the gathers. *)
GatherDoneForgotten == <<>>

(* tc_gather_done_event, which only the async build has. *)
GatherDone == IF mode = "async" THEN <<WaitFor(event.queued)>> ELSE <<>>

Fill(x)   == GatherDone \o <<Op("rng", "A", x), Op("rng", "Bt", x)>>
Hashes(x) == <<Op("hash", "A", x), Op("hash", "Bt", x)>>
Noise(x)  == <<Op("noise", "A", x), Op("noise", "Bt", x)>>

Phase1 ==
  /\ At("phase1")
  /\ LET x == Id(host.next) IN prepq' = prepq \o Fill(x) \o Hashes(x)
  /\ Goto("sync1")
  /\ UNCHANGED <<mode, wins, data, slot, prod, dev, searchq, event, stop, hist>>

(* The seeds and permutations of the hashes, and the noise queued. *)
Phase2 ==
  /\ At("sync1")
  /\ prepq = <<>>
  /\ LET x == IF data.hash["A"] = data.hash["Bt"] THEN data.hash["A"] ELSE NoDraw
     IN  /\ data' = [data EXCEPT !.seeds = x, !.perms = x]
         /\ prepq' = Noise(x)
  /\ Goto("sync2")
  /\ UNCHANGED <<mode, wins, slot, prod, dev, searchq, event, stop, hist>>

(* Back to where the preparation was started. *)
Prepared ==
  /\ At("sync2")
  /\ prepq = <<>>
  /\ Goto(CASE host.next = 0                   -> "top"
            [] host.next > 0 /\ mode = "async" -> "wait"
            [] host.next > 0 /\ mode = "sync"  -> "judge")
  /\ UNCHANGED <<mode, wins, data, gpu, cpu, stop, hist>>

(* A phase fails: nothing queued, the matrices but not the hashes queued,   *)
(* or after the wait.  Under a search the loop waits for that first.        *)
PrepFails ==
  /\ \/ At("phase1") /\ prepq' \in {prepq, prepq \o Fill(Id(host.next))}
     \/ (At("sync1") \/ At("sync2")) /\ prepq = <<>> /\ UNCHANGED prepq
  /\ Fault
  /\ IF host.next > 0 /\ mode = "async" THEN Goto("drain") ELSE Return(2)
  /\ UNCHANGED <<mode, wins, data, slot, prod, dev, searchq, event, stop>>

Drain ==
  /\ At("drain")
  /\ searchq = <<>>
  /\ Return(2)
  /\ UNCHANGED <<mode, wins, data, gpu, cpu, stop, hist>>

Prepare == Phase1 \/ Phase2 \/ Prepared \/ PrepFails \/ Drain

-----------------------------------------------------------------------------
(* The loop. *)

(* Draw 0 is prepared before the loop, unless stop is already set: then the *)
(* cpu build skips the loop, and the others leave it to the test at its top.*)
Prime ==
  /\ At("prime")
  /\ IF MaxDraws > 0 /\ ~stop
     THEN IF mode = "cpu"
          THEN /\ data' = Produced(Id(0))
               /\ slot' = [slot EXCEPT ![0] = [mat |-> Both(Noised(Id(0))), seed |-> Id(0)]]
               /\ Goto("top")
          ELSE Goto("phase1") /\ UNCHANGED <<data, slot>>
     ELSE /\ Goto(IF mode = "cpu" THEN "over" ELSE "top")
          /\ UNCHANGED <<data, slot>>
  /\ UNCHANGED <<mode, wins, prod, gpu, stop, hist>>

(* Mutants: one draw more; one draw less. *)
GoesOnLong  == host.draw <= MaxDraws /\ ~stop
GoesOnShort == host.draw + 1 < MaxDraws /\ ~stop

(* The loop test and the test of the stop flag. *)
GoesOn == host.draw < MaxDraws /\ ~stop

Top ==
  /\ At("top")
  /\ Goto(IF ~GoesOn THEN "over" ELSE IF mode = "cpu" THEN "spawn" ELSE "launch")
  /\ UNCHANGED <<mode, wins, data, gpu, cpu, stop, hist>>

HasNext == host.draw + 1 < MaxDraws /\ ~stop

(* cpu: the producer starts on the next draw, in the other slot. *)
Spawn ==
  /\ At("spawn")
  /\ prod' = IF HasNext THEN [pc |-> "fill", id |-> Id(host.draw + 1), s |-> 1 - host.cur]
                        ELSE NoProducer
  /\ Goto("launch")
  /\ UNCHANGED <<mode, wins, data, slot, gpu, stop, hist>>

(* What tc_search_launch queues: the key is taken at once, and the record   *)
(* of the event follows the gathers.                                        *)
Gathers(key) ==
  <<Op("setup", "A", key), Op("gather", "A", key), Op("gather", "Bt", key)>>
    \o (IF mode = "async" THEN <<Op("record", "A", key)>> ELSE <<>>)
Search(key) == Gathers(key) \o <<Op("search", "A", key)>>

Recorded == IF mode = "async" THEN [event EXCEPT !.queued = @ + 1] ELSE event

(* cpu: tc_jackpot_search copies the slot to dA and dBt before it launches. *)
Launch ==
  /\ At("launch")
  /\ IF mode = "cpu"
     THEN /\ dev' = [dev EXCEPT !.mat = slot[host.cur].mat]
          /\ searchq' = searchq \o Search(slot[host.cur].seed)
     ELSE /\ searchq' = searchq \o Search(data.seeds)
          /\ UNCHANGED dev
  /\ event' = Recorded
  /\ Goto(IF mode = "async" THEN "ahead" ELSE "wait")
  /\ UNCHANGED <<mode, wins, data, slot, prod, prepq, stop, hist>>

(* The launch fails, with nothing queued or with all but the search.        *)
LaunchFails ==
  /\ At("launch")
  /\ \/ UNCHANGED <<searchq, event>>
     \/ mode = "async" /\ searchq' = searchq \o Gathers(data.seeds) /\ event' = Recorded
  /\ Fault
  /\ CASE mode = "async" -> Return(2)
       [] mode = "sync"  -> host' = [host EXCEPT !.pc = "judge", !.ok = "error"]
       [] mode = "cpu"   -> host' = [host EXCEPT !.pc = "join", !.ok = "error"]
  /\ UNCHANGED <<mode, wins, data, slot, prod, dev, prepq, stop>>

(* async: prepare the next draw under the search; sync: after a search      *)
(* without a win.                                                           *)
Ahead ==
  /\ At("ahead")
  /\ host' = IF HasNext THEN [host EXCEPT !.pc = "phase1", !.next = host.draw + 1]
             ELSE [host EXCEPT !.pc = IF mode = "async" THEN "wait" ELSE "judge"]
  /\ UNCHANGED <<mode, wins, data, gpu, cpu, stop, hist>>

AfterWait(ok) ==
  CASE mode = "async"                  -> "judge"
    [] mode = "sync" /\ ok = "none"    -> "ahead"
    [] mode = "sync" /\ ok # "none"    -> "judge"
    [] mode = "cpu"                    -> "join"

(* tc_search_wait *)
Wait ==
  /\ At("wait")
  /\ searchq = <<>>
  /\ LET ok == IF dev.win THEN "win" ELSE "none"
     IN  host' = [host EXCEPT !.pc = AfterWait(ok), !.ok = ok, !.hit = dev.tile]
  /\ hist' = [hist EXCEPT !.searched = @ + 1]
  /\ UNCHANGED <<mode, wins, data, gpu, cpu, stop>>

WaitFails ==
  /\ At("wait")
  /\ searchq = <<>>
  /\ host' = [host EXCEPT !.pc = AfterWait("error"), !.ok = "error"]
  /\ Fault
  /\ UNCHANGED <<mode, wins, data, gpu, cpu, stop>>

Join ==
  /\ At("join")
  /\ prod.pc \in {"off", "done"}
  /\ prod' = NoProducer
  /\ Goto("judge")
  /\ UNCHANGED <<mode, wins, data, slot, gpu, stop, hist>>

(* A win: if stop is set by now, leave with found but without a tile.       *)
Win ==
  /\ At("judge") /\ host.ok = "win"
  /\ host' = IF stop THEN [host EXCEPT !.pc = "over", !.found = TRUE]
                     ELSE [host EXCEPT !.pc = "rederive"]
  /\ UNCHANGED <<mode, wins, data, gpu, cpu, stop, hist>>

(* No win; the cpu build takes an error for none. *)
NoWin ==
  /\ At("judge")
  /\ host.ok = "none" \/ (host.ok = "error" /\ mode = "cpu")
  /\ host' = [host EXCEPT !.pc = "top", !.draw = @ + 1, !.cur = 1 - @]
  /\ UNCHANGED <<mode, wins, data, gpu, cpu, stop, hist>>

SearchFailed ==
  /\ At("judge")
  /\ host.ok = "error" /\ mode # "cpu"
  /\ Return(2)
  /\ UNCHANGED <<mode, wins, data, gpu, cpu, stop, hist>>

(* Mutant: the draw is not made again. *)
RederivedNot == data

(* The host variables have moved on to the next draw: make this one again. *)
Rederived == Produced(Id(host.draw))

Rederive ==
  /\ At("rederive")
  /\ data' = Rederived
  /\ host' = [host EXCEPT !.pc = "over", !.found = TRUE, !.tile = host.hit]
  /\ UNCHANGED <<mode, wins, gpu, cpu, stop, hist>>

-----------------------------------------------------------------------------
(* After the loop: R.draws, and the proof of a win. *)

(* Mutant: the winning draw is not counted. *)
DrawsDoneShort == host.draw

DrawsDone == IF host.found THEN host.draw + 1 ELSE host.draw

(* Without a win, or if stop is set, there is no proof to make. *)
LoopOver ==
  /\ At("over")
  /\ host' = IF host.found /\ ~stop
             THEN [host EXCEPT !.pc = "postcheck", !.draws = DrawsDone]
             ELSE [host EXCEPT !.pc = "returned", !.rc = 2, !.draws = DrawsDone]
  /\ UNCHANGED <<mode, wins, data, gpu, cpu, stop, hist>>

(* Mutant: no postcheck. *)
PostOkAlways == TRUE

(* compute_tile_jackpot_hash_cpu against the bound.                         *)
PostOk ==
  LET x == data.ab
  IN  data.seeds = x /\ data.perms = x /\ host.tile = x /\ x.a = host.a /\ x.d \in wins

Postcheck ==
  /\ At("postcheck")
  /\ IF PostOk THEN Goto("proof") ELSE Return(4)
  /\ UNCHANGED <<mode, wins, data, gpu, cpu, stop, hist>>

(* Mutant: the flag is not looked at again. *)
LastLookNone == 0

(* The prover looks at the flag three more times while it builds the Merkle *)
(* trees; the last look decides.                                            *)
LastLook == IF stop THEN 2 ELSE 0

Proof ==
  /\ At("proof")
  /\ Return(LastLook)
  /\ UNCHANGED <<mode, wins, data, gpu, cpu, stop, hist>>

Host ==
  \/ Prime \/ Prepare \/ Top \/ Spawn \/ Launch \/ LaunchFails \/ Ahead \/ Wait \/ WaitFails
  \/ Join \/ Win \/ NoWin \/ SearchFailed \/ Rederive \/ LoopOver \/ Postcheck \/ Proof

-----------------------------------------------------------------------------
(* The caller: raises the flag, and starts the next attempt.  A and Bt keep *)
(* their contents from one call to the next, as the device does; the other  *)
(* host variables are new.                                                  *)

RaiseStop ==
  /\ ~stop
  /\ stop' = TRUE
  /\ UNCHANGED <<mode, wins, host, data, gpu, cpu, hist>>

NextAttempt ==
  /\ At("returned")
  /\ host.a < MaxAttempts
  /\ host' = FreshHost(host.a + 1)
  /\ wins' \in SUBSET (0..(MaxDraws - 1))
  /\ data' = [data EXCEPT !.hash = Both(NoDraw), !.seeds = NoDraw, !.perms = NoDraw]
  /\ slot' = NoSlots /\ prod' = NoProducer
  /\ stop' = FALSE
  /\ hist' = [fault |-> FALSE, searched |-> 0]
  /\ UNCHANGED <<mode, gpu>>

(* The bound on attempts is reached. *)
Over == At("returned") /\ host.a = MaxAttempts /\ UNCHANGED vars

Next ==
  Host \/ Producer \/ PrepStream \/ SearchStream \/ RaiseStop \/ NextAttempt \/ Over

Spec == Init /\ [][Next]_vars

(* The thread is scheduled, and the device gets its queues done. *)
FairSpec ==
  Spec /\ WF_vars(Host) /\ WF_vars(Producer) /\ WF_vars(PrepStream) /\ WF_vars(SearchStream)

-----------------------------------------------------------------------------
(* Properties. *)

(* A search is always given one draw, and the right one: both panels and    *)
(* the key are those of the draw the loop is at, fully noised - although    *)
(* the next draw is being written to the matrices the panels come from.     *)
SearchSeesItsDraw ==
  searchq # <<>> /\ Head(searchq).op = "search" => Searches(Id(host.draw))

(* A proof is of one draw of this attempt, hashes included, and that draw   *)
(* wins: whatever the device reported.                                      *)
ProofOfAWin ==
  At("returned") /\ host.rc = 0 =>
    \E d \in wins : data = Produced(Id(d)) /\ host.tile = Id(d)

(* The postcheck refuses a win only if the device was wrong: the draw is    *)
(* restored as it was searched.                                             *)
RefusedOnlyIfFaulty == host.rc = 4 => hist.fault

(* No win is missed: without a fault an attempt that was not stopped fails  *)
(* only if no draw wins, and its proof is of the first that does.           *)
NoWinMissed ==
  At("returned") /\ ~hist.fault =>
    /\ host.rc = 2 /\ ~stop => wins = {}
    /\ host.rc = 0 => \A d \in wins : host.tile.d <= d

(* The draws reported, from which the hashrate is computed, are those       *)
(* searched.                                                                *)
DrawsCounted == At("returned") /\ ~hist.fault => host.draws = hist.searched

(* The loop keeps the contract the mining loop relies on: no proof if the   *)
(* flag was up at the last look, and every attempt ends.                    *)
Contract ==
  INSTANCE ProverContract
    WITH phase <- IF ~At("returned") THEN "running" ELSE IF host.rc = 0 THEN "won" ELSE "lost",
         flag  <- stop

KeepsContract == Contract!FairSpec
=============================================================================
