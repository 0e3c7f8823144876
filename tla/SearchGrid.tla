----------------------------- MODULE SearchGrid -----------------------------
(***************************************************************************)
(* The search over one draw's tiles: tc_search_launch starts a grid of       *)
(* blocks, each block walks block tiles in the grouped raster order, its     *)
(* threads hash the jackpot tiles of each, and the first that beats the      *)
(* bound takes the win flag and writes the coordinates.  What the mainloop   *)
(* accumulates is FoldPipeline's; here a jackpot tile wins or it does not.   *)
(***************************************************************************)
EXTENDS Integers

CONSTANTS
  NRows, NCols,      \* jackpot tiles of the draw: nrow_off, ncol_off
  RtOff, CtOff,      \* jackpot tiles of a block tile: RTOFF, CTOFF
  GroupM,            \* row strips of a band of the raster
  Threads,           \* threads of a block: TPB
  PersistBlocks      \* blocks that fit on the device at once; 0: one per tile

ASSUME GridAssumption ==
  /\ {NRows, NCols, RtOff, CtOff, GroupM, Threads} \subseteq Nat \ {0}
  /\ PersistBlocks \in Nat

JackpotTiles == (0..(NRows - 1)) \X (0..(NCols - 1))

(* Block tiles, rounded up; the last of a row or a column may be partial. *)
nbm == (NRows + RtOff - 1) \div RtOff
nbn == (NCols + CtOff - 1) \div CtOff
total_tiles == nbm * nbn

GridDim == IF PersistBlocks > 0 /\ PersistBlocks < total_tiles THEN PersistBlocks ELSE total_tiles

Blocks  == 0..(GridDim - 1)
Workers == Blocks \X (0..(Threads - 1))

VARIABLES
  wins,      \* the tiles of the draw whose hash beats the bound
  pid,       \* per block: the block tile it is on
  at,        \* per thread: the next jackpot tile of it to hash
  pc,        \* per thread: "scan", "row", "col" (a win to write) or "barrier"
  win_flag, win_rt, win_ct

gridVars == <<wins, pid, at, pc, win_flag, win_rt, win_ct>>

-----------------------------------------------------------------------------
(* Bands of GroupM row strips, walked column by column within the band. *)
StripsFull(first) == GroupM
Strips(first) == IF nbm - first < GroupM THEN nbm - first ELSE GroupM

BlockRow(p) ==
  LET first == (p \div (GroupM * nbn)) * GroupM
  IN first + ((p - first * nbn) % Strips(first))
BlockCol(p) ==
  LET first == (p \div (GroupM * nbn)) * GroupM
  IN (p - first * nbn) \div Strips(first)

(* The t-th jackpot tile of block tile p. *)
Tile(p, t) == <<BlockRow(p) * RtOff + (t \div CtOff), BlockCol(p) * CtOff + (t % CtOff)>>

-----------------------------------------------------------------------------
(* The flag is cleared before the launch; the coordinates keep what an       *)
(* earlier draw left in them.  Bound: a draw has at most two winning tiles.  *)
GridInit ==
  /\ wins \in {{}} \cup {{a, b} : a, b \in JackpotTiles}
  /\ pid = [b \in Blocks |-> b]
  /\ at  = [w \in Workers |-> w[2]]
  /\ pc  = [w \in Workers |-> "scan"]
  /\ win_flag = 0
  /\ win_rt = 0
  /\ win_ct = 0

Busy(b) == pid[b] < total_tiles

(* A tile beyond the matrix is passed over; so is one that does not win, or  *)
(* that wins after another has taken the flag.                              *)
Scan(w) ==
  LET tile == Tile(pid[w[1]], at[w])
      won  == tile \in wins /\ win_flag = 0
  IN /\ Busy(w[1])
     /\ pc[w] = "scan"
     /\ at[w] < RtOff * CtOff
     /\ win_flag' = IF won THEN 1 ELSE win_flag
     /\ pc' = [pc EXCEPT ![w] = IF won THEN "row" ELSE @]
     /\ at' = [at EXCEPT ![w] = IF won THEN @ ELSE @ + Threads]
     /\ UNCHANGED <<wins, pid, win_rt, win_ct>>

WriteRow(w) ==
  /\ pc[w] = "row"
  /\ win_rt' = Tile(pid[w[1]], at[w])[1]
  /\ pc' = [pc EXCEPT ![w] = "col"]
  /\ UNCHANGED <<wins, pid, at, win_flag, win_ct>>

WriteCol(w) ==
  /\ pc[w] = "col"
  /\ win_ct' = Tile(pid[w[1]], at[w])[2]
  /\ pc' = [pc EXCEPT ![w] = "scan"]
  /\ at' = [at EXCEPT ![w] = @ + Threads]
  /\ UNCHANGED <<wins, pid, win_flag, win_rt>>

(* The barrier at the end of a tile: the last thread there lets all go on,   *)
(* a grid's width further.                                                  *)
Arrive(w) ==
  LET b     == w[1]
      mates == {v \in Workers : v[1] = b}
      last  == \A v \in mates \ {w} : pc[v] = "barrier"
  IN /\ Busy(b)
     /\ pc[w] = "scan"
     /\ at[w] >= RtOff * CtOff
     /\ pc'  = [v \in Workers |-> IF last /\ v \in mates THEN "scan"
                                  ELSE IF v = w THEN "barrier" ELSE pc[v]]
     /\ at'  = [v \in Workers |-> IF last /\ v \in mates THEN v[2] ELSE at[v]]
     /\ pid' = [pid EXCEPT ![b] = IF last THEN @ + GridDim ELSE @]
     /\ UNCHANGED <<wins, win_flag, win_rt, win_ct>>

GridNext == \E w \in Workers : Scan(w) \/ WriteRow(w) \/ WriteCol(w) \/ Arrive(w)

GridSpec == GridInit /\ [][GridNext]_gridVars

-----------------------------------------------------------------------------
Searched == \A b \in Blocks : ~Busy(b)

(* When the grid is done, the flag says whether the draw has a winning tile, *)
(* and the coordinates are those of one tile that won: none is missed by the *)
(* raster or by a block's stride, and two winners' coordinates never mix.    *)
SearchReportsAWin ==
  Searched => /\ (win_flag = 1) <=> (wins # {})
              /\ win_flag = 1 => <<win_rt, win_ct>> \in wins
=============================================================================
