-------------------------- MODULE SearchGridProofs --------------------------
(***************************************************************************)
(* What SearchGrid promises, proved for every size of matrix, tile, band,   *)
(* block and grid: the raster reaches every jackpot tile, and a search that *)
(* ends has reported a winning tile if and only if the draw has one.        *)
(***************************************************************************)
EXTENDS SearchGrid, TLAPS

(* Arithmetic. *)

LEMMA ProductTyped == \A x, y \in Nat : x * y \in Nat
OBVIOUS

LEMMA ProductDistributes == \A x, y, z \in Int : (x + y) * z = x * z + y * z /\ (x - y) * z = x * z - y * z
OBVIOUS

LEMMA ProductMonotone == \A x, y \in Int, z \in Nat : x <= y => x * z <= y * z
<1> TAKE x, y \in Int, z \in Nat
<1> HAVE x <= y
<1>1. (y - x) * z \in Nat
  <2>1. y - x \in Nat
    OBVIOUS
  <2> QED
    BY <2>1, ProductTyped
<1>2. (y - x) * z = y * z - x * z
  BY ProductDistributes
<1> QED
  BY <1>1, <1>2

(* A smaller multiple is smaller by a whole step at least. *)
LEMMA NextMultiple == \A x, y \in Int, z \in Nat : x * z < y * z => x * z + z <= y * z
<1> TAKE x, y \in Int, z \in Nat
<1> HAVE x * z < y * z
<1>1. x < y
  <2>1. y <= x => y * z <= x * z
    BY ProductMonotone
  <2> QED
    BY <2>1
<1>2. (x + 1) * z <= y * z
  BY <1>1, ProductMonotone
<1> QED
  BY <1>2, ProductDistributes

LEMMA Division ==
  \A a \in Nat, z \in Nat \ {0} :
    /\ a \div z \in Nat /\ a % z \in 0..(z - 1)
    /\ a = (a \div z) * z + (a % z)
OBVIOUS

LEMMA DivisionUnique ==
  ASSUME NEW q \in Nat, NEW z \in Nat \ {0}, NEW r \in 0..(z - 1)
  PROVE  (q * z + r) \div z = q /\ ((q * z + r) % z) = r
<1> DEFINE a == q * z + r
           d == a \div z
           m == a % z
<1>1. a \in Nat
  BY ProductTyped
<1>2. d \in Nat /\ m \in 0..(z - 1) /\ a = d * z + m
  BY <1>1, Division
<1>3. d * z \in Nat /\ q * z \in Nat
  BY <1>2, ProductTyped
<1>4. a = q * z + r
  OBVIOUS
<1> HIDE DEF a, d, m
<1>5. ~(d < q)
  <2>1. d < q => d * z + z <= q * z
    <3>1. d < q => (d + 1) * z <= q * z
      BY <1>2, ProductMonotone
    <3> QED
      BY <1>2, <3>1, ProductDistributes
  <2> QED
    BY <1>2, <1>3, <1>4, <2>1
<1>6. ~(q < d)
  <2>1. q < d => q * z + z <= d * z
    <3>1. q < d => (q + 1) * z <= d * z
      BY <1>2, ProductMonotone
    <3> QED
      BY <1>2, <3>1, ProductDistributes
  <2> QED
    BY <1>2, <1>3, <1>4, <2>1
<1>7. d = q
  BY <1>2, <1>5, <1>6
<1>8. m = r
  BY <1>2, <1>3, <1>4, <1>7
<1> QED
  BY <1>7, <1>8 DEF a, d, m

(* Rounded up, a quotient is large enough for every index. *)
LEMMA RoundedUp ==
  ASSUME NEW n \in Nat \ {0}, NEW z \in Nat \ {0}
  PROVE  /\ (n + z - 1) \div z \in Nat \ {0}
         /\ \A x \in 0..(n - 1) : x \div z \in 0..(((n + z - 1) \div z) - 1)
<1> DEFINE a == n + z - 1
           d == a \div z
<1>1. d \in Nat /\ d * z \in Nat /\ (a % z) \in 0..(z - 1) /\ a = d * z + (a % z)
  <2>1. a \in Nat
    OBVIOUS
  <2> HIDE DEF a
  <2> QED
    BY <2>1, Division, ProductTyped
<1>2. n <= d * z
  BY <1>1
<1>3. d # 0
  <2>1. 0 * z = 0
    OBVIOUS
  <2> QED
    BY <1>2, <2>1
<1>4. ASSUME NEW x \in 0..(n - 1)
      PROVE  x \div z \in 0..(d - 1)
  <2> DEFINE e == x \div z
  <2>1. e \in Nat /\ e * z \in Nat /\ (x % z) \in 0..(z - 1) /\ x = e * z + (x % z)
    <3>1. x \in Nat
      OBVIOUS
    <3> QED
      BY <3>1, Division, ProductTyped
  <2>2. e * z < d * z
    BY <1>1, <1>2, <2>1
  <2> HIDE DEF e, d
  <2>3. d <= e => d * z <= e * z
    BY <1>1, <2>1, ProductMonotone
  <2>4. e < d
    BY <1>1, <2>1, <2>2, <2>3
  <2> QED
    BY <1>1, <2>1, <2>4 DEF e
<1> QED
  BY <1>1, <1>3, <1>4

-----------------------------------------------------------------------------
(* The raster. *)

LEMMA GridTyped ==
  /\ NRows \in Nat \ {0} /\ NCols \in Nat \ {0} /\ RtOff \in Nat \ {0} /\ CtOff \in Nat \ {0}
  /\ GroupM \in Nat \ {0} /\ Threads \in Nat \ {0}
  /\ nbm \in Nat \ {0} /\ nbn \in Nat \ {0}
  /\ total_tiles \in Nat \ {0} /\ GridDim \in Nat \ {0}
<1>1. /\ NRows \in Nat \ {0} /\ NCols \in Nat \ {0} /\ RtOff \in Nat \ {0} /\ CtOff \in Nat \ {0}
      /\ GroupM \in Nat \ {0} /\ Threads \in Nat \ {0} /\ PersistBlocks \in Nat
  BY GridAssumption
<1>2. nbm \in Nat \ {0} /\ nbn \in Nat \ {0}
  BY <1>1, RoundedUp DEF nbm, nbn
<1>3. total_tiles \in Nat \ {0}
  <2>1. 1 * nbn <= nbm * nbn /\ nbm * nbn \in Nat
    BY <1>2, ProductMonotone, ProductTyped
  <2> QED
    BY <1>2, <2>1 DEF total_tiles
<1>4. GridDim \in Nat \ {0}
  BY <1>1, <1>3 DEF GridDim
<1> QED
  BY <1>1, <1>2, <1>3, <1>4

(* Every block tile is visited: the bands, the short one at the end         *)
(* included, are walked without a gap.                                      *)
LEMMA BandsReach ==
  ASSUME NEW br \in 0..(nbm - 1), NEW bc \in 0..(nbn - 1)
  PROVE  \E p \in 0..(total_tiles - 1) : BlockRow(p) = br /\ BlockCol(p) = bc
<1> DEFINE g     == br \div GroupM
           i     == br % GroupM
           first == g * GroupM
           S     == Strips(first)
           q     == bc * S + i
           p     == first * nbn + q
<1> USE GridTyped
<1>1. g \in Nat /\ i \in 0..(GroupM - 1) /\ br = first + i /\ first \in Nat
  <2>1. br \in Nat
    OBVIOUS
  <2> QED
    BY <2>1, Division, ProductTyped
<1>2. S \in Nat \ {0} /\ i \in 0..(S - 1) /\ S <= GroupM /\ first + S <= nbm
  BY <1>1 DEF Strips
<1> HIDE DEF g, i, S
<1>3. q \in Nat /\ q < nbn * S
  <2>1. bc * S \in Nat
    BY <1>2, ProductTyped
  <2>2. (bc + 1) * S <= nbn * S
    BY <1>2, ProductMonotone
  <2>3. (bc + 1) * S = bc * S + S
    BY <1>2, ProductDistributes
  <2>4. nbn * S \in Nat
    BY <1>2, ProductTyped
  <2> QED
    BY <1>2, <2>1, <2>2, <2>3, <2>4
<1>4. q \div S = bc /\ (q % S) = i
  BY SMTT(30), <1>2, DivisionUnique
<1> HIDE DEF q
<1>5. S * nbn <= GroupM * nbn /\ S * nbn = nbn * S /\ GroupM * nbn \in Nat \ {0}
  <2>1. 1 * nbn <= GroupM * nbn /\ GroupM * nbn \in Nat
    BY ProductMonotone, ProductTyped
  <2> QED
    BY <1>2, <2>1, ProductMonotone
<1>6. first * nbn = g * (GroupM * nbn)
  BY <1>1
<1>7. p \div (GroupM * nbn) = g
  <2> DEFINE w == GroupM * nbn
  <2>1. w \in Nat \ {0} /\ p = g * w + q
    BY <1>5, <1>6
  <2>2. q \in 0..(w - 1)
    BY <1>2, <1>3, <1>5
  <2> HIDE DEF w, p
  <2>3. p \div w = g
    BY <1>1, <2>1, <2>2, DivisionUnique
  <2> QED
    BY <2>3 DEF w
<1>8. p \in 0..(total_tiles - 1)
  <2>1. first * nbn \in Nat
    BY <1>1, ProductTyped
  <2>2. (first + S) * nbn <= nbm * nbn /\ nbm * nbn \in Nat
    BY <1>1, <1>2, ProductMonotone, ProductTyped
  <2>3. (first + S) * nbn = first * nbn + S * nbn /\ S * nbn \in Nat
    BY <1>1, <1>2, ProductDistributes, ProductTyped
  <2> QED
    BY <1>3, <1>5, <2>1, <2>2, <2>3 DEF total_tiles
<1>9. p - first * nbn = q
  <2>1. first * nbn \in Nat
    BY <1>1, ProductTyped
  <2> QED
    BY <1>3, <2>1
<1> HIDE DEF p
<1>10. BlockRow(p) = first + (q % S) /\ BlockCol(p) = q \div S
  BY <1>7, <1>9 DEF BlockRow, BlockCol, S
<1> QED
  BY <1>1, <1>4, <1>8, <1>10

(* Every jackpot tile is one of some block tile. *)
LEMMA RasterReaches ==
  ASSUME NEW tile \in JackpotTiles
  PROVE  \E p \in 0..(total_tiles - 1), t \in 0..(RtOff * CtOff - 1) : Tile(p, t) = tile
<1> USE GridTyped
<1>1. PICK r \in 0..(NRows - 1), c \in 0..(NCols - 1) : tile = <<r, c>>
  BY DEF JackpotTiles
<1> DEFINE i == r % RtOff
           j == c % CtOff
           t == i * CtOff + j
<1>2. /\ r \div RtOff \in 0..(nbm - 1) /\ i \in 0..(RtOff - 1) /\ r = (r \div RtOff) * RtOff + i
      /\ c \div CtOff \in 0..(nbn - 1) /\ j \in 0..(CtOff - 1) /\ c = (c \div CtOff) * CtOff + j
  <2>1. r \in Nat /\ c \in Nat
    OBVIOUS
  <2>2. r \div RtOff \in 0..(nbm - 1) /\ c \div CtOff \in 0..(nbn - 1)
    BY RoundedUp DEF nbm, nbn
  <2> QED
    BY <2>1, <2>2, Division
<1>3. PICK p \in 0..(total_tiles - 1) : BlockRow(p) = r \div RtOff /\ BlockCol(p) = c \div CtOff
  BY <1>2, BandsReach
<1> HIDE DEF i, j
<1>4. t \div CtOff = i /\ (t % CtOff) = j
  BY <1>2, DivisionUnique
<1>5. t \in 0..(RtOff * CtOff - 1)
  <2>1. i * CtOff \in Nat /\ RtOff * CtOff \in Nat /\ (i + 1) * CtOff <= RtOff * CtOff
    BY <1>2, ProductTyped, ProductMonotone
  <2>2. (i + 1) * CtOff = i * CtOff + CtOff
    BY <1>2, ProductDistributes
  <2> QED
    BY <1>2, <2>1, <2>2
<1> HIDE DEF t
<1>6. Tile(p, t) = <<r, c>>
  BY <1>2, <1>3, <1>4 DEF Tile
<1> QED
  BY <1>1, <1>5, <1>6

-----------------------------------------------------------------------------
(* The invariant. *)

Positions == {"scan", "row", "col", "barrier"}

Typed ==
  /\ wins \subseteq JackpotTiles
  /\ pid \in [Blocks -> Nat] /\ at \in [Workers -> Nat] /\ pc \in [Workers -> Positions]
  /\ win_flag \in {0, 1}

(* A block and a thread walk in steps of the grid's and the block's width.  *)
StrideOK ==
  /\ \A b \in Blocks  : \E k \in Nat : pid[b] = b + k * GridDim
  /\ \A w \in Workers : \E m \in Nat : at[w] = w[2] + m * Threads

(* One thread at most has taken the flag and not yet written both           *)
(* coordinates; it is still at the tile that won, and its block waits.      *)
Writing(w) == pc[w] \in {"row", "col"}
Current(w) == Tile(pid[w[1]], at[w])

WriterOK ==
  /\ \A w \in Workers : Writing(w) =>
       /\ win_flag = 1 /\ Busy(w[1]) /\ Current(w) \in wins
       /\ pc[w] = "col" => win_rt = Current(w)[1]
  /\ \A v, w \in Workers : Writing(v) /\ Writing(w) => v = w

FlagOK == win_flag = 1 => (\E w \in Workers : Writing(w)) \/ <<win_rt, win_ct>> \in wins

(* While the flag is down, every winning tile is still ahead of the thread  *)
(* whose turn it is: thread w's m-th of its block's k-th block tile.        *)
Ahead(w, k, m) ==
  \/ pid[w[1]] < w[1] + k * GridDim
  \/ /\ pid[w[1]] = w[1] + k * GridDim
     /\ pc[w] = "scan" /\ at[w] <= w[2] + m * Threads

Wins(w, k, m) ==
  /\ w[1] + k * GridDim < total_tiles /\ w[2] + m * Threads < RtOff * CtOff
  /\ Tile(w[1] + k * GridDim, w[2] + m * Threads) \in wins

PendingOK ==
  win_flag = 0 => \A w \in Workers, k, m \in Nat : Wins(w, k, m) => Ahead(w, k, m)

IInv == Typed /\ StrideOK /\ WriterOK /\ FlagOK /\ PendingOK

-----------------------------------------------------------------------------

LEMMA WorkerParts ==
  \A w \in Workers : /\ w[1] \in Blocks /\ w[2] \in 0..(Threads - 1) /\ w = <<w[1], w[2]>>
                     /\ w[1] \in Nat /\ w[2] \in Nat
BY DEF Workers, Blocks

LEMMA TileIsAPair == \A p, t \in Nat : Tile(p, t) = <<Tile(p, t)[1], Tile(p, t)[2]>>
BY DEF Tile

LEMMA InitOK == GridInit => IInv
<1> SUFFICES ASSUME GridInit PROVE IInv
  OBVIOUS
<1> USE GridTyped, WorkerParts
<1>1. Typed
  <2>1. wins \subseteq JackpotTiles /\ win_flag \in {0, 1}
    BY DEF GridInit
  <2>2. pid \in [Blocks -> Nat]
    BY DEF GridInit, Blocks
  <2>3. at \in [Workers -> Nat]
    BY DEF GridInit
  <2>4. pc \in [Workers -> Positions]
    BY DEF GridInit, Positions
  <2> QED
    BY <2>1, <2>2, <2>3, <2>4 DEF Typed
<1>2. StrideOK
  <2>1. 0 * GridDim = 0 /\ 0 * Threads = 0
    OBVIOUS
  <2>2. /\ \A b \in Blocks : b \in Nat /\ pid[b] = b
        /\ \A w \in Workers : at[w] = w[2]
    BY DEF GridInit, Blocks
  <2>3. \A b \in Blocks : pid[b] = b + 0 * GridDim
    BY <2>1, <2>2
  <2>4. \A w \in Workers : at[w] = w[2] + 0 * Threads
    BY <2>1, <2>2
  <2> QED
    BY <2>3, <2>4 DEF StrideOK
<1>3. WriterOK /\ FlagOK
  BY DEF GridInit, WriterOK, FlagOK, Writing
<1>4. PendingOK
  <2> SUFFICES ASSUME NEW w \in Workers, NEW k \in Nat, NEW m \in Nat
               PROVE  Ahead(w, k, m)
    BY DEF PendingOK
  <2>1. k * GridDim \in Nat /\ m * Threads \in Nat
    BY ProductTyped
  <2>2. pid[w[1]] = w[1] /\ pc[w] = "scan" /\ at[w] = w[2]
    BY DEF GridInit
  <2> QED
    BY <2>1, <2>2 DEF Ahead
<1> QED
  BY <1>1, <1>2, <1>3, <1>4 DEF IInv

-----------------------------------------------------------------------------
(* A thread looks at a tile. *)

LEMMA StepUp == \A m \in Nat, z \in Nat : (m + 1) * z = m * z + z /\ m + 1 \in Nat
OBVIOUS

LEMMA AtAdvances ==
  ASSUME IInv, NEW w \in Workers, at' = [at EXCEPT ![w] = @ + Threads], UNCHANGED pid
  PROVE  StrideOK' /\ at' \in [Workers -> Nat]
<1> USE GridTyped
<1>1. at \in [Workers -> Nat] /\ StrideOK
  BY DEF IInv, Typed
<1>2. ASSUME NEW v \in Workers
      PROVE  \E m \in Nat : at'[v] = v[2] + m * Threads
  <2>1. PICK m \in Nat : at[v] = v[2] + m * Threads
    BY <1>1 DEF StrideOK
  <2>2. CASE v = w
    <3>1. at'[v] = v[2] + m * Threads + Threads
      BY <1>1, <2>1, <2>2
    <3>2. m * Threads \in Nat /\ v[2] \in Nat
      BY ProductTyped, WorkerParts
    <3>3. at'[v] = v[2] + (m + 1) * Threads
      BY <3>1, <3>2, StepUp
    <3> QED
      BY <3>3, StepUp
  <2>3. CASE v # w
    BY <1>1, <2>1, <2>3
  <2> QED
    BY <2>2, <2>3
<1>3. at' \in [Workers -> Nat]
  BY <1>1
<1> QED
  BY <1>1, <1>2, <1>3 DEF StrideOK

LEMMA ScanPreserves ==
  ASSUME IInv, NEW w \in Workers, Scan(w)
  PROVE  IInv'
<1> USE GridTyped
<1>1. Typed /\ StrideOK /\ WriterOK /\ FlagOK /\ PendingOK
  BY DEF IInv
<1>2. Busy(w[1]) /\ pc[w] = "scan" /\ at[w] < RtOff * CtOff /\ UNCHANGED <<wins, pid, win_rt, win_ct>>
  BY DEF Scan
<1>3. CASE Current(w) \in wins /\ win_flag = 0
  <2>1. win_flag' = 1 /\ pc' = [pc EXCEPT ![w] = "row"] /\ at' = at
    <3>1. at' = [at EXCEPT ![w] = at[w]]
      BY <1>3 DEF Scan, Current
    <3> QED
      BY <1>1, <1>3, <3>1 DEF Scan, Current, Typed
  <2>2. Typed' /\ StrideOK'
    BY <1>1, <1>2, <2>1 DEF Typed, StrideOK, Positions
  <2>3. \A v \in Workers : ~Writing(v)
    BY <1>1, <1>3 DEF WriterOK
  <2>4. \A v \in Workers : Writing(v)' <=> v = w
    BY <1>1, <2>1, <2>3 DEF Writing, Typed
  <2>5. Current(w)' = Current(w) /\ Busy(w[1])' /\ pc'[w] = "row"
    BY <1>1, <1>2, <2>1 DEF Current, Busy, Typed
  <2>6. WriterOK' /\ FlagOK'
    BY <1>2, <1>3, <2>1, <2>4, <2>5 DEF WriterOK, FlagOK
  <2>7. PendingOK'
    BY <2>1 DEF PendingOK
  <2> QED
    BY <2>2, <2>6, <2>7 DEF IInv
<1>4. CASE ~(Current(w) \in wins /\ win_flag = 0)
  <2>1. win_flag' = win_flag /\ pc' = pc /\ at' = [at EXCEPT ![w] = @ + Threads]
    <3>1. pc' = [pc EXCEPT ![w] = pc[w]]
      BY <1>4 DEF Scan, Current
    <3> QED
      BY <1>1, <1>4, <3>1 DEF Scan, Current, Typed
  <2>2. Typed' /\ StrideOK'
    <3>1. StrideOK' /\ at' \in [Workers -> Nat]
      BY <1>2, <2>1, AtAdvances
    <3> QED
      BY <1>1, <1>2, <2>1, <3>1 DEF Typed
  <2>3. \A v \in Workers : Writing(v)' <=> Writing(v)
    BY <2>1 DEF Writing
  <2>4. \A v \in Workers : Writing(v) => v # w /\ Current(v)' = Current(v) /\ (Busy(v[1])' <=> Busy(v[1]))
    BY <1>1, <1>2, <2>1 DEF Writing, Current, Busy, Typed
  <2>5. WriterOK' /\ FlagOK'
    BY <1>1, <1>2, <2>1, <2>3, <2>4 DEF WriterOK, FlagOK
  <2>6. PendingOK'
    <3> SUFFICES ASSUME win_flag' = 0, NEW v \in Workers, NEW k \in Nat, NEW m \in Nat, Wins(v, k, m)'
                 PROVE  Ahead(v, k, m)'
      BY DEF PendingOK
    <3>1. win_flag = 0 /\ Wins(v, k, m) /\ Ahead(v, k, m)
      BY <1>1, <1>2, <2>1 DEF PendingOK, Wins
    <3>2. CASE v # w \/ pid[v[1]] < v[1] + k * GridDim
      BY <1>1, <1>2, <2>1, <3>1, <3>2 DEF Ahead, Typed
    <3>3. CASE v = w /\ ~(pid[v[1]] < v[1] + k * GridDim)
      <4>1. pid[w[1]] = w[1] + k * GridDim /\ at[w] <= w[2] + m * Threads
        BY <3>1, <3>3 DEF Ahead
      <4>2. at[w] # w[2] + m * Threads
        BY <1>4, <3>1, <3>3, <4>1 DEF Wins, Current
      <4>3. PICK n \in Nat : at[w] = w[2] + n * Threads
        BY <1>1 DEF StrideOK
      <4>4. n * Threads \in Nat /\ m * Threads \in Nat /\ w[2] \in Nat
        BY ProductTyped, WorkerParts
      <4>5. n * Threads < m * Threads
        BY <4>1, <4>2, <4>3, <4>4
      <4>6. n * Threads + Threads <= m * Threads
        BY <4>5, NextMultiple
      <4>7. at'[w] <= w[2] + m * Threads
        BY <1>1, <2>1, <4>3, <4>4, <4>6 DEF Typed
      <4> QED
        BY <1>2, <2>1, <3>3, <4>1, <4>7 DEF Ahead
    <3> QED
      BY <3>2, <3>3
  <2> QED
    BY <2>2, <2>5, <2>6 DEF IInv
<1> QED
  BY <1>3, <1>4

-----------------------------------------------------------------------------
(* A winner writes the coordinates. *)

LEMMA WriteRowPreserves ==
  ASSUME IInv, NEW w \in Workers, WriteRow(w)
  PROVE  IInv'
<1>1. Typed /\ StrideOK /\ WriterOK /\ FlagOK /\ PendingOK
  BY DEF IInv
<1>2. /\ pc[w] = "row" /\ win_rt' = Current(w)[1] /\ pc' = [pc EXCEPT ![w] = "col"]
      /\ UNCHANGED <<wins, pid, at, win_flag, win_ct>>
  BY DEF WriteRow, Current
<1>3. Typed' /\ StrideOK'
  BY <1>1, <1>2 DEF Typed, StrideOK, Positions
<1>4. Writing(w) /\ win_flag = 1
  BY <1>1, <1>2 DEF Writing, WriterOK
<1>5. \A v \in Workers : (Writing(v)' <=> Writing(v)) /\ Current(v)' = Current(v) /\ (Busy(v[1])' <=> Busy(v[1]))
  BY <1>1, <1>2 DEF Writing, Current, Busy, Typed
<1>6. \A v \in Workers : Writing(v) => v = w
  BY <1>1, <1>4 DEF WriterOK
<1>7. WriterOK' /\ FlagOK'
  BY <1>1, <1>2, <1>4, <1>5, <1>6 DEF WriterOK, FlagOK
<1>8. PendingOK'
  BY <1>2, <1>4 DEF PendingOK
<1> QED
  BY <1>3, <1>7, <1>8 DEF IInv

LEMMA WriteColPreserves ==
  ASSUME IInv, NEW w \in Workers, WriteCol(w)
  PROVE  IInv'
<1> USE GridTyped
<1>1. Typed /\ StrideOK /\ WriterOK /\ FlagOK /\ PendingOK
  BY DEF IInv
<1>2. /\ pc[w] = "col" /\ win_ct' = Current(w)[2] /\ pc' = [pc EXCEPT ![w] = "scan"]
      /\ at' = [at EXCEPT ![w] = @ + Threads]
      /\ UNCHANGED <<wins, pid, win_flag, win_rt>>
  BY DEF WriteCol, Current
<1>3. Typed' /\ StrideOK'
  <2>1. StrideOK' /\ at' \in [Workers -> Nat]
    BY <1>2, AtAdvances
  <2> QED
    BY <1>1, <1>2, <2>1 DEF Typed, Positions
<1>4. Writing(w) /\ win_flag = 1 /\ Current(w) \in wins /\ win_rt = Current(w)[1]
  BY <1>1, <1>2 DEF Writing, WriterOK
<1>5. \A v \in Workers : ~Writing(v)'
  BY <1>1, <1>2, <1>4 DEF Writing, WriterOK, Typed
<1>6. <<win_rt', win_ct'>> \in wins'
  <2>1. pid[w[1]] \in Nat /\ at[w] \in Nat
    BY <1>1, WorkerParts DEF Typed
  <2>2. Current(w) = <<win_rt', win_ct'>>
    BY <1>2, <1>4, <2>1, TileIsAPair DEF Current
  <2> QED
    BY <1>2, <1>4, <2>2
<1>7. WriterOK' /\ FlagOK'
  BY <1>5, <1>6 DEF WriterOK, FlagOK
<1>8. PendingOK'
  BY <1>2, <1>4 DEF PendingOK
<1> QED
  BY <1>3, <1>7, <1>8 DEF IInv

-----------------------------------------------------------------------------
(* A thread arrives at the barrier, or all leave it. *)

LEMMA ArrivePreserves ==
  ASSUME IInv, NEW w \in Workers, Arrive(w)
  PROVE  IInv'
<1> USE GridTyped
<1>1. Typed /\ StrideOK /\ WriterOK /\ FlagOK /\ PendingOK
  BY DEF IInv
<1> DEFINE mates == {v \in Workers : v[1] = w[1]}
           last  == \A v \in mates \ {w} : pc[v] = "barrier"
<1>2. /\ pc[w] = "scan" /\ at[w] >= RtOff * CtOff /\ w \in mates
      /\ UNCHANGED <<wins, win_flag, win_rt, win_ct>>
  BY DEF Arrive
<1>3. /\ pc'  = [v \in Workers |-> IF last /\ v \in mates THEN "scan"
                                   ELSE IF v = w THEN "barrier" ELSE pc[v]]
      /\ at'  = [v \in Workers |-> IF last /\ v \in mates THEN v[2] ELSE at[v]]
      /\ pid' = [pid EXCEPT ![w[1]] = IF last THEN @ + GridDim ELSE @]
  BY DEF Arrive
<1>4. \A v \in Workers : v \in mates <=> v[1] = w[1]
  OBVIOUS
<1>5. last \in BOOLEAN /\ (last => \A v \in mates : v = w \/ pc[v] = "barrier")
  OBVIOUS
<1>6. w[1] \in Blocks /\ pid[w[1]] \in Nat
  BY <1>1, WorkerParts DEF Typed
<1>7. /\ \A v \in Workers : last /\ v[1] = w[1] => pc'[v] = "scan" /\ at'[v] = v[2]
      /\ \A v \in Workers : ~(last /\ v[1] = w[1]) =>
           at'[v] = at[v] /\ (v # w => pc'[v] = pc[v]) /\ (v = w => pc'[v] = "barrier")
      /\ \A b \in Blocks : pid'[b] = IF last /\ b = w[1] THEN pid[b] + GridDim ELSE pid[b]
      /\ pid' \in [Blocks -> Nat] /\ at' \in [Workers -> Nat] /\ pc' \in [Workers -> Positions]
  <2>1. pid \in [Blocks -> Nat] /\ at \in [Workers -> Nat] /\ pc \in [Workers -> Positions]
    BY <1>1 DEF Typed
  <2>2. /\ \A b \in Blocks : pid'[b] = IF last /\ b = w[1] THEN pid[b] + GridDim ELSE pid[b]
        /\ pid' \in [Blocks -> Nat]
    <3> HIDE DEF last, mates
    <3> QED
      BY <1>3, <1>6, <2>1
  <2>3. /\ \A v \in Workers : at'[v] = IF last /\ v \in mates THEN v[2] ELSE at[v]
        /\ at' \in [Workers -> Nat]
    <3> HIDE DEF last, mates
    <3> QED
      BY <1>3, <2>1, WorkerParts
  <2>4. /\ \A v \in Workers : pc'[v] = IF last /\ v \in mates THEN "scan"
                                       ELSE IF v = w THEN "barrier" ELSE pc[v]
        /\ pc' \in [Workers -> Positions]
    <3> HIDE DEF last, mates
    <3> QED
      BY <1>3, <2>1 DEF Positions
  <2> HIDE DEF last, mates
  <2> QED
    BY <1>4, <2>2, <2>3, <2>4
<1> HIDE DEF last, mates
<1>8. Typed'
  BY <1>1, <1>2, <1>7 DEF Typed
<1>9. StrideOK'
  <2>1. ASSUME NEW b \in Blocks PROVE \E k \in Nat : pid'[b] = b + k * GridDim
    <3>1. PICK k \in Nat : pid[b] = b + k * GridDim
      BY <1>1 DEF StrideOK
    <3>2. b \in Nat /\ k * GridDim \in Nat /\ (k + 1) * GridDim = k * GridDim + GridDim /\ k + 1 \in Nat
      BY ProductTyped, StepUp DEF Blocks
    <3>3. pid[b] + GridDim = b + (k + 1) * GridDim
      BY <3>1, <3>2
    <3> QED
      BY <1>7, <3>1, <3>2, <3>3
  <2>2. ASSUME NEW v \in Workers PROVE \E m \in Nat : at'[v] = v[2] + m * Threads
    <3>1. v[2] = v[2] + 0 * Threads
      BY WorkerParts
    <3>2. at'[v] = v[2] \/ at'[v] = at[v]
      BY <1>7
    <3> QED
      BY <1>1, <3>1, <3>2 DEF StrideOK
  <2> QED
    BY <2>1, <2>2 DEF StrideOK
<1>10. \A v \in Workers : /\ Writing(v)' <=> Writing(v)
                          /\ Writing(v) => Current(v)' = Current(v) /\ (Busy(v[1])' <=> Busy(v[1])) /\ pc'[v] = pc[v]
  <2> TAKE v \in Workers
  <2>1. CASE last /\ v[1] = w[1]
    <3>1. v = w \/ pc[v] = "barrier"
      BY <1>4, <1>5, <2>1
    <3> QED
      BY <1>2, <1>7, <2>1, <3>1 DEF Writing
  <2>2. CASE ~(last /\ v[1] = w[1])
    <3>1. at'[v] = at[v] /\ pid'[v[1]] = pid[v[1]]
      BY <1>7, <2>2, WorkerParts
    <3> QED
      BY <1>2, <1>7, <2>2, <3>1 DEF Writing, Current, Busy
  <2> QED
    BY <2>1, <2>2
<1>11. WriterOK' /\ FlagOK'
  <2>1. WriterOK'
    BY <1>1, <1>2, <1>10 DEF WriterOK
  <2>2. FlagOK'
    BY <1>1, <1>2, <1>10 DEF FlagOK
  <2> QED
    BY <2>1, <2>2
<1>12. PendingOK'
  <2> SUFFICES ASSUME win_flag' = 0, NEW v \in Workers, NEW k \in Nat, NEW m \in Nat, Wins(v, k, m)'
               PROVE  Ahead(v, k, m)'
    BY DEF PendingOK
  <2>1. win_flag = 0 /\ Wins(v, k, m) /\ Ahead(v, k, m)
    BY <1>1, <1>2 DEF PendingOK, Wins
  <2>2. v[1] \in Blocks /\ v[1] \in Nat /\ v[2] \in Nat /\ k * GridDim \in Nat /\ m * Threads \in Nat
    BY WorkerParts, ProductTyped
  <2>3. CASE pid[v[1]] < v[1] + k * GridDim
    <3>1. CASE last /\ v[1] = w[1]
      <4>1. PICK n \in Nat : pid[v[1]] = v[1] + n * GridDim
        BY <1>1, <2>2 DEF StrideOK
      <4>2. n * GridDim \in Nat
        BY ProductTyped
      <4>3. n * GridDim + GridDim <= k * GridDim
        BY <2>2, <2>3, <4>1, <4>2, NextMultiple
      <4>4. pid'[v[1]] <= v[1] + k * GridDim /\ pid'[v[1]] \in Nat
        BY <1>7, <2>2, <3>1, <4>1, <4>2, <4>3
      <4>5. pc'[v] = "scan" /\ at'[v] <= v[2] + m * Threads
        BY <1>7, <2>2, <3>1
      <4>6. pid'[v[1]] < v[1] + k * GridDim \/ pid'[v[1]] = v[1] + k * GridDim
        BY <2>2, <4>4
      <4> QED
        BY <4>5, <4>6 DEF Ahead
    <3>2. CASE ~(last /\ v[1] = w[1])
      BY <1>7, <2>2, <2>3, <3>2 DEF Ahead
    <3> QED
      BY <3>1, <3>2
  <2>4. CASE ~(pid[v[1]] < v[1] + k * GridDim)
    <3>1. pid[v[1]] = v[1] + k * GridDim /\ pc[v] = "scan" /\ at[v] <= v[2] + m * Threads
      BY <2>1, <2>4 DEF Ahead
    <3>2. v # w
      <4>1. at[v] \in Nat /\ RtOff * CtOff \in Nat
        BY <1>1, ProductTyped DEF Typed
      <4> QED
        BY <1>2, <2>1, <2>2, <3>1, <4>1 DEF Wins
    <3>3. ~(last /\ v[1] = w[1])
      BY <1>4, <1>5, <3>1, <3>2
    <3> QED
      BY <1>7, <2>2, <3>1, <3>2, <3>3 DEF Ahead
  <2> QED
    BY <2>3, <2>4
<1> QED
  BY <1>8, <1>9, <1>11, <1>12 DEF IInv

LEMMA Invariance == GridSpec => []IInv
<1>1. IInv /\ [GridNext]_gridVars => IInv'
  <2> SUFFICES ASSUME IInv, [GridNext]_gridVars PROVE IInv'
    OBVIOUS
  <2>1. CASE GridNext
    BY <2>1, ScanPreserves, WriteRowPreserves, WriteColPreserves, ArrivePreserves DEF GridNext
  <2>2. CASE UNCHANGED gridVars
    BY <2>2 DEF gridVars, IInv, Typed, StrideOK, WriterOK, FlagOK, PendingOK, Writing, Current,
       Busy, Ahead, Wins
  <2> QED
    BY <2>1, <2>2
<1> QED
  BY <1>1, InitOK, PTL DEF GridSpec

-----------------------------------------------------------------------------
(* Whatever the sizes, the grid and the order its threads run in, a search  *)
(* that is over has its flag up if and only if the draw has a winning tile, *)
(* and then both coordinates are those of one tile that won                 *)
(* (tc_search_launch and the win flag of its kernel).                       *)
THEOREM SearchIsExact == GridSpec => []SearchReportsAWin
<1>1. IInv => SearchReportsAWin
  <2> SUFFICES ASSUME IInv, Searched
               PROVE  /\ (win_flag = 1) <=> (wins # {})
                      /\ win_flag = 1 => <<win_rt, win_ct>> \in wins
    BY DEF SearchReportsAWin
  <2> USE GridTyped
  <2>1. Typed /\ WriterOK /\ FlagOK /\ PendingOK
    BY DEF IInv
  <2>2. \A w \in Workers : ~Writing(w)
    BY <2>1, WorkerParts DEF WriterOK, Searched
  <2>3. win_flag = 1 => <<win_rt, win_ct>> \in wins
    BY <2>1, <2>2 DEF FlagOK
  <2>4. ASSUME win_flag = 0, NEW tile \in wins PROVE FALSE
    <3>1. tile \in JackpotTiles
      BY <2>1 DEF Typed
    <3>2. PICK p \in 0..(total_tiles - 1), t \in 0..(RtOff * CtOff - 1) : Tile(p, t) = tile
      BY <3>1, RasterReaches
    <3> DEFINE b == p % GridDim
               k == p \div GridDim
               j == t % Threads
               m == t \div Threads
    <3>3. p \in Nat /\ t \in Nat /\ p < total_tiles /\ t < RtOff * CtOff
      BY ProductTyped
    <3>4. /\ b \in 0..(GridDim - 1) /\ k \in Nat /\ p = k * GridDim + b
          /\ j \in 0..(Threads - 1) /\ m \in Nat /\ t = m * Threads + j
      BY <3>3, Division
    <3>5. b \in Blocks /\ <<b, j>> \in Workers
      BY <3>4 DEF Blocks, Workers
    <3>6. k * GridDim \in Nat /\ m * Threads \in Nat
      BY <3>4, ProductTyped
    <3> HIDE DEF b, k, j, m
    <3>7. b + k * GridDim = p /\ j + m * Threads = t
      BY <3>4, <3>6
    <3>8. Wins(<<b, j>>, k, m)
      BY <2>4, <3>2, <3>3, <3>7 DEF Wins
    <3>9. Ahead(<<b, j>>, k, m)
      BY <2>1, <2>4, <3>4, <3>5, <3>8 DEF PendingOK
    <3>10. pid[b] <= p /\ pid[b] \in Nat
      BY <2>1, <3>3, <3>5, <3>7, <3>9 DEF Ahead, Typed
    <3>11. Busy(b)
      BY <3>3, <3>10 DEF Busy
    <3> QED
      BY <3>5, <3>11 DEF Searched
  <2>5. win_flag \in {0, 1}
    BY <2>1 DEF Typed
  <2> QED
    BY <2>3, <2>4, <2>5
<1> QED
  BY <1>1, Invariance, PTL
=============================================================================
