---------------------------- MODULE FoldPipeline ----------------------------
(***************************************************************************)
(* The mainloop of one block of the search: slices of the two panels are     *)
(* copied asynchronously into a ring of stages in shared memory, the warps   *)
(* multiply one slice after another into their accumulators, and every       *)
(* fold_every slices each lane folds its tile's accumulators into the tile's *)
(* transcript.  A persistent block goes on to its next tile with the same    *)
(* ring and the same transcript memory.                                      *)
(*                                                                         *)
(* A warp's share of a stage holds the tile and the slice it was copied      *)
(* from, or Torn while the copy is in flight; accumulators hold the sequence *)
(* of what was multiplied into them; a transcript word, what was folded.     *)
(***************************************************************************)
EXTENDS Integers, Sequences

CONSTANTS
  MaxSlices,   \* bound: slices of a tile
  MaxStages,   \* bound: stages of the ring, KSTAGES
  Words,       \* words of a transcript, 16
  Tiles        \* bound: block tiles that one block walks

ASSUME PipelineAssumption == {MaxSlices, Words, Tiles} \subseteq Nat \ {0} /\ MaxStages \in Nat /\ MaxStages > 1

Warps == {0, 1}   \* kM = 1, kN = 2: side by side
Lanes == {0, 1}   \* JR = 2, JC = 1: each lane has one of its warp's tiles
Torn  == <<"torn">>
Zeros == <<"zeros">>
Nothing == <<"nothing">>   \* what a group without copies holds

(* The jackpot tiles of a block tile are numbered row by row.  The thread    *)
(* that folds one is not the thread that clears its words or hashes it.      *)
Jackpots      == 0..3
OwnTile(w, l) == 2 * l + w
ByStride(w, last) == {i \in 0..last : (i % 4) \div 2 = w}

VARIABLES
  shape,       \* of the launch: slices, stages and fold_every
  warp,        \* per warp: its registers
  ring,        \* per stage and warp: the warp's share of the stage
  jp_sh,       \* per jackpot tile and word: the transcript
  hashes       \* per jackpot tile: the transcript it was hashed from

pipeVars == <<shape, warp, ring, jp_sh, hashes>>

-----------------------------------------------------------------------------
(* A warp that starts a tile; the accumulators are clear, the ring's indices *)
(* at its first stage.                                                      *)
Fresh(tile) ==
  [pc |-> "clear", tile |-> tile, left |-> shape.slices, next |-> 0, masked |-> FALSE,
   read |-> 0, write |-> 0, frag |-> <<Torn, Torn>>, accum |-> <<>>, iter |-> 0, groups |-> <<>>]

Successor(stage) == (stage + 1) % shape.stages

advance_smem_write_stage(r) == [r EXCEPT !.write = Successor(@), !.next = @ + 1]
advance_smem_read_stage(r)  == [r EXCEPT !.read = Successor(@)]

(* Nothing is left to copy: the mask stays cleared. *)
clear_mask(r) == [r EXCEPT !.masked = @ \/ r.left = 0]

(* One group of copies: the warp's share of the slice it is at, or what is   *)
(* copied past the last slice.                                              *)
Group(r, past) == [stage |-> r.write, value |-> IF r.masked THEN past ELSE <<r.tile, r.next>>]

Issued(w, stage) == [ring EXCEPT ![stage][w] = Torn]

(* Past the barrier at most so many groups are in flight, cp_async_wait.     *)
KeptOneMore == shape.stages - 1
KeptByWait  == shape.stages - 2

(* A k-group of a whole stage, both warps' shares of it; Torn unless the two *)
(* are of one slice and have landed.                                        *)
Loaded(stage, k) ==
  IF ring[stage][0] = ring[stage][1] /\ ring[stage][0] # Torn THEN <<ring[stage][0], k>> ELSE Torn

-----------------------------------------------------------------------------
PipeInit ==
  /\ shape \in {s \in [slices : 1..MaxSlices, stages : 2..MaxStages, fold_every : 1..MaxSlices] :
                  s.slices % s.fold_every = 0}
  /\ warp   = [w \in Warps |-> Fresh(0)]
  /\ ring   = [s \in 0..(MaxStages - 1) |-> [w \in Warps |-> Zeros]]
  /\ jp_sh  = [t \in Jackpots |-> [q \in 0..(Words - 1) |-> <<>>]]
  /\ hashes = [t \in Jackpots |-> <<>>]

At(w, label)     == warp[w].pc = label
Goes(w, r, label) == warp' = [warp EXCEPT ![w] = [r EXCEPT !.pc = label]]

(* The threads clear the words between them, a stride apart; a tile's words  *)
(* are Words + 1 apart.                                                      *)
Clear(w) ==
  /\ At(w, "clear")
  /\ jp_sh' = [t \in Jackpots |-> [q \in 0..(Words - 1) |->
                 IF t * (Words + 1) + q \in ByStride(w, 4 * (Words + 1) - 1) THEN <<>> ELSE jp_sh[t][q]]]
  /\ Goes(w, warp[w], "clearsync")
  /\ UNCHANGED <<shape, ring, hashes>>

(* All stages but one are filled, one after the other, a group each; past    *)
(* the last slice with zeros.                                               *)
Prologue(w) ==
  LET r == clear_mask(warp[w])
      n == [advance_smem_write_stage(r) EXCEPT !.groups = Append(@, Group(r, Zeros)), !.left = @ - 1]
  IN /\ At(w, "prologue")
     /\ ring' = Issued(w, r.write)
     /\ Goes(w, n, IF n.next = shape.stages - 1 THEN "prologuewait" ELSE "prologue")
     /\ UNCHANGED <<shape, jp_sh, hashes>>

(* A warp's groups land in their order, each at any time. *)
Land(w) ==
  LET g == Head(warp[w].groups) IN
  /\ warp[w].groups # <<>>
  /\ ring' = IF g.value = Nothing THEN ring ELSE [ring EXCEPT ![g.stage][w] = g.value]
  /\ warp' = [warp EXCEPT ![w].groups = Tail(@)]
  /\ UNCHANGED <<shape, jp_sh, hashes>>

(* gmem_wait: until few enough are in flight, then the barrier. *)
gmem_wait(w, label, sync) ==
  /\ At(w, label)
  /\ Len(warp[w].groups) <= KeptByWait
  /\ Goes(w, warp[w], sync)
  /\ UNCHANGED <<shape, ring, jp_sh, hashes>>

PrologueWait(w) == gmem_wait(w, "prologuewait", "prologuesync")
RingWait(w)     == gmem_wait(w, "ringwait", "ringsync")

FirstLoad(w) ==
  /\ At(w, "first")
  /\ Goes(w, [clear_mask(warp[w]) EXCEPT !.frag[1] = Loaded(warp[w].read, 0)], "loop")
  /\ UNCHANGED <<shape, ring, jp_sh, hashes>>

(* mac_loop_iter, first k-group: the second is loaded, the first multiplied, *)
Multiplied(r, i) == [r EXCEPT !.accum = Append(@, r.frag[i])]

FirstHalf(w) ==
  LET r == warp[w] IN
  /\ At(w, "loop")
  /\ r.left > -shape.stages + 1
  /\ Goes(w, Multiplied([r EXCEPT !.frag[2] = Loaded(r.read, 1)], 1), "copy")
  /\ UNCHANGED <<shape, ring, jp_sh, hashes>>

(* the next slice's copy is issued (nothing is, once masked) and fenced,     *)
Copy(w) ==
  LET r == warp[w] IN
  /\ At(w, "copy")
  /\ ring' = IF r.masked THEN ring ELSE Issued(w, r.write)
  /\ Goes(w, [r EXCEPT !.groups = Append(@, Group(r, Nothing))], "ringwait")
  /\ UNCHANGED <<shape, jp_sh, hashes>>

(* and past the barrier, second k-group: the next stage's first is loaded,   *)
(* and every fold_every slices the accumulators are folded.                  *)
SecondHalf(w) ==
  LET r == advance_smem_read_stage(advance_smem_write_stage(warp[w]))
      m == clear_mask([r EXCEPT !.left = @ - 1])
      n == Multiplied([m EXCEPT !.frag[1] = Loaded(m.read, 0), !.iter = @ + 1], 2)
  IN /\ At(w, "advance")
     /\ Goes(w, n, IF n.iter % shape.fold_every = 0 THEN "fold" ELSE "loop")
     /\ UNCHANGED <<shape, ring, jp_sh, hashes>>

(* The first touch of a word stores, a later one rotates and adds. *)
Touched(old, c, acc) == IF c < Words THEN <<acc>> ELSE Append(old, acc)

Fold(w) ==
  LET r == warp[w]
      c == r.iter \div shape.fold_every - 1
      q == c % Words
  IN /\ At(w, "fold")
     /\ jp_sh' = [t \in Jackpots |->
                    IF \E l \in Lanes : t = OwnTile(w, l)
                    THEN [jp_sh[t] EXCEPT ![q] = Touched(@, c, r.accum)] ELSE jp_sh[t]]
     /\ Goes(w, r, "loop")
     /\ UNCHANGED <<shape, ring, hashes>>

(* The loop is over: everything has landed, then the barrier. *)
Drain(w) ==
  /\ At(w, "loop")
  /\ warp[w].left <= -shape.stages + 1
  /\ warp[w].groups = <<>>
  /\ Goes(w, warp[w], "drainsync")
  /\ UNCHANGED <<shape, ring, jp_sh, hashes>>

(* The tiles are hashed a stride apart. *)
Hash(w) ==
  /\ At(w, "hash")
  /\ hashes' = [t \in Jackpots |-> IF t \in ByStride(w, 3) THEN <<warp[w].tile, jp_sh[t]>> ELSE hashes[t]]
  /\ Goes(w, warp[w], "tilesync")
  /\ UNCHANGED <<shape, ring, jp_sh>>

(* __syncthreads lets the warps go on once all are at one. *)
Beyond == [x \in {"clearsync", "prologuesync", "ringsync", "drainsync"} |->
             CASE x = "clearsync"    -> "prologue"
               [] x = "prologuesync" -> "first"
               [] x = "ringsync"     -> "advance"
               [] x = "drainsync"    -> "hash"]

Syncthreads ==
  /\ \A w \in Warps : warp[w].pc \in DOMAIN Beyond \cup {"tilesync"}
  /\ \E w \in Warps : ~At(w, "tilesync") \/ warp[w].tile + 1 < Tiles
  /\ warp' = [w \in Warps |-> IF At(w, "tilesync") THEN Fresh(warp[w].tile + 1)
                              ELSE [warp[w] EXCEPT !.pc = Beyond[@]]]
  /\ UNCHANGED <<shape, ring, jp_sh, hashes>>

PipeNext ==
  \/ Syncthreads
  \/ \E w \in Warps : \/ Clear(w) \/ Prologue(w) \/ Land(w) \/ PrologueWait(w) \/ FirstLoad(w) \/ FirstHalf(w)
                      \/ Copy(w) \/ RingWait(w) \/ SecondHalf(w) \/ Fold(w) \/ Drain(w) \/ Hash(w)

PipeSpec == PipeInit /\ [][PipeNext]_pipeVars

-----------------------------------------------------------------------------
(* The accumulators after so many slices of a tile, and the transcript the   *)
(* jackpot rule asks for: chunk c, cumulative, folded into word c % Words.    *)
Accumulated(tile, slices) == [i \in 1..(2 * slices) |-> <<<<tile, (i - 1) \div 2>>, (i - 1) % 2>>]

TranscriptAfter(tile, chunks) ==
  LET Rounds(q) == IF q >= chunks THEN 0 ELSE (chunks - 1 - q) \div Words + 1
  IN [q \in 0..(Words - 1) |-> [i \in 1..Rounds(q) |->
        Accumulated(tile, ((i - 1) * Words + q + 1) * shape.fold_every)]]

Transcript(tile) == TranscriptAfter(tile, shape.slices \div shape.fold_every)

(* Every tile is hashed from the transcript of all its slices, each once and *)
(* in order, whatever the ring's depth: no fragment is loaded from a stage   *)
(* whose copy is in flight or that another warp refills, no word is stale    *)
(* from the tile before, and no warp hashes before all have folded.          *)
FoldsSeeTheirSlices ==
  \A t \in Jackpots : hashes[t] # <<>> => hashes[t][2] = Transcript(hashes[t][1])
=============================================================================
