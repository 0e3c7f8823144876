------------------------- MODULE FoldPipelineProofs -------------------------
(***************************************************************************)
(* What FoldPipeline promises, proved for every number of slices, stages,   *)
(* transcript words and tiles: each transcript is hashed from all slices of *)
(* its tile, in order, although the stages of the ring are refilled and the *)
(* transcripts cleared under warps that run on.                             *)
(***************************************************************************)
EXTENDS FoldPipeline, SequenceTheorems, TLAPS

N == shape.slices
S == shape.stages
F == shape.fold_every

Slot(j)     == j % S       \* the stage of slice j
FoldedAt(i) == i % F = 0   \* whether slices so many end a chunk

(* Where a warp is between two barriers, and halfway through a slice. *)
Clearing == {"clear", "clearsync"}
Filling  == {"prologue", "prologuewait", "prologuesync"}
Looping  == {"loop", "copy", "ringwait", "ringsync", "advance", "fold", "drainsync"}
Hashing  == {"hash", "tilesync"}
Points   == Clearing \cup Filling \cup {"first"} \cup Looping \cup Hashing
HalfWay  == {"copy", "ringwait", "ringsync", "advance"}

Slices    == Nat \X Nat
Cells     == {Torn, Zeros} \cup Slices
Fragments == {Torn} \cup (Cells \X {0, 1})
CopyGroups == [stage : Nat, value : {Zeros, Nothing} \cup Slices]
Registers == [pc : Points, tile : Nat, left : Int, next : Nat, masked : BOOLEAN, read : Nat,
              write : Nat, frag : [{1, 2} -> Fragments], accum : Seq(Fragments), iter : Nat,
              groups : Seq(CopyGroups)]

Typed ==
  /\ N \in Nat \ {0} /\ S \in 2..MaxStages /\ F \in Nat \ {0} /\ FoldedAt(N)
  /\ warp = [w \in Warps |-> warp[w]]
  /\ ring \in [0..(MaxStages - 1) -> [Warps -> Cells]]
  /\ \A t \in Jackpots : jp_sh[t] = [q \in 0..(Words - 1) |-> jp_sh[t][q]]

-----------------------------------------------------------------------------
(* The counters of a warp: what has been issued, multiplied and is left.    *)
CountersOK(r) ==
  r.pc \notin Hashing =>
    /\ r.left = N - r.next /\ r.write = Slot(r.next) /\ r.read = Slot(r.iter)
    /\ r.pc \in Clearing => r.next = 0 /\ r.iter = 0 /\ ~r.masked
    /\ r.pc \in Filling \cup {"first"} => r.iter = 0 /\ (r.masked <=> r.left < 0)
    /\ r.pc = "prologue" => r.next < S - 1
    /\ r.pc \in {"prologuewait", "prologuesync", "first"} => r.next = S - 1
    /\ r.pc \in Looping =>
         r.next = S - 1 + r.iter /\ r.iter <= N /\ (r.masked <=> r.left <= 0)
    /\ r.pc \in HalfWay => r.iter < N
    /\ r.pc = "fold" => r.iter > 0 /\ FoldedAt(r.iter)
    /\ r.pc = "drainsync" => r.iter = N

(* The accumulators hold the slices so far, and the fragments are those of  *)
(* the slice that comes next.                                               *)
Fragment(r, k) == <<<<r.tile, r.iter>>, k>>

SlicesOK(r) ==
  r.pc \notin Hashing =>
    /\ r.accum = IF r.pc \in HalfWay THEN Append(Accumulated(r.tile, r.iter), Fragment(r, 0))
                 ELSE Accumulated(r.tile, r.iter)
    /\ r.pc \in {"loop", "fold"} /\ r.iter < N => r.frag[1] = Fragment(r, 0)
    /\ r.pc \in HalfWay => r.frag[2] = Fragment(r, 1)

(* Slices whose copy was issued, and those of them that have landed. *)
Sent(r)   == IF r.pc \in HalfWay \ {"copy"} THEN r.next + 1 ELSE r.next
Arrived(r) == Sent(r) - Len(r.groups)

(* The groups in flight are of the latest slices issued, in order; past a   *)
(* wait there is a stage less in flight than the ring has to fill.          *)
InOrder(groups, from, tile) ==
  \A k \in 1..Len(groups) :
    LET j == from + k - 1
    IN  /\ groups[k].stage = Slot(j)
        /\ groups[k].value \in IF j < N THEN {<<tile, j>>} ELSE {Zeros, Nothing}

GroupsOK(r) ==
  /\ r.pc \in Clearing \cup {"drainsync"} \cup Hashing => r.groups = <<>>
  /\ r.pc \notin Hashing =>
       /\ Len(r.groups) <= IF r.pc \in {"prologuewait", "ringwait"} THEN S - 1 ELSE S - 2
       /\ Arrived(r) >= 0
       /\ InOrder(r.groups, Arrived(r), r.tile)

RegsOK(r) == r \in Registers /\ CountersOK(r) /\ SlicesOK(r) /\ GroupsOK(r)

(* Of the last S slices issued, those that have landed are in their stages. *)
RingOK(w) ==
  LET r == warp[w] IN
  r.pc \notin Hashing =>
    \A j \in 0..(N - 1) :
      Sent(r) - S <= j /\ j < Arrived(r) => ring[Slot(j)][w] = <<r.tile, j>>

(* Both warps are between the same two barriers. *)
Epoch(r) == IF r.pc = "advance" THEN r.iter + 1 ELSE r.iter

SyncOK ==
  LET a == warp[0]
      b == warp[1]
  IN /\ a.tile = b.tile
     /\ a.pc \in Clearing <=> b.pc \in Clearing
     /\ a.pc \in Filling  <=> b.pc \in Filling
     /\ a.pc \in Hashing  <=> b.pc \in Hashing
     /\ a.pc \in Looping \cup {"first"} => Epoch(a) = Epoch(b)

(* The transcripts: cleared by both warps, then folded by their own, then    *)
(* read by both.                                                            *)
Folded(r) == IF r.pc = "fold" THEN r.iter \div F - 1 ELSE r.iter \div F

TranscriptsOK(w) ==
  LET r == warp[w] IN
  /\ r.pc = "clearsync" =>
       \A t \in Jackpots, q \in 0..(Words - 1) :
         t * (Words + 1) + q \in ByStride(w, 4 * (Words + 1) - 1) => jp_sh[t][q] = <<>>
  /\ r.pc \in Filling \cup {"first"} \cup Looping =>
       \A l \in Lanes : jp_sh[OwnTile(w, l)] = TranscriptAfter(r.tile, Folded(r))
  /\ r.pc \in Hashing => \A t \in Jackpots : jp_sh[t] = Transcript(r.tile)

WarpOK(w) == RegsOK(warp[w]) /\ RingOK(w) /\ TranscriptsOK(w)

IInv == Typed /\ (\A w \in Warps : WarpOK(w)) /\ SyncOK /\ FoldsSeeTheirSlices

-----------------------------------------------------------------------------
(* Arithmetic. *)

LEMMA ProductTyped == \A x, y \in Nat : x * y \in Nat
OBVIOUS

LEMMA ProductDistributes ==
  \A x, y, z \in Int : x * z \in Int /\ (x + y) * z = x * z + y * z /\ (x - y) * z = x * z - y * z
OBVIOUS

LEMMA Division ==
  \A a \in Nat, z \in Nat \ {0} :
    /\ a \div z \in Nat /\ a % z \in 0..(z - 1)
    /\ a = (a \div z) * z + (a % z)
OBVIOUS

(* No multiple of z but 0 is nearer to 0 than z. *)
LEMMA SmallMultiple ==
  ASSUME NEW z \in Nat \ {0}, NEW k \in Int, -z < k * z, k * z < z
  PROVE  k = 0
<1>1. 1 * z = z /\ k * z \in Int
  OBVIOUS
<1>2. ~(k >= 1)
  <2>1. (k - 1) * z = k * z - z
    BY <1>1, ProductDistributes
  <2>2. k >= 1 => (k - 1) * z \in Nat
    <3>1. k >= 1 => k - 1 \in Nat
      OBVIOUS
    <3> QED
      BY <3>1, ProductTyped
  <2> QED
    BY <1>1, <2>1, <2>2
<1>3. ~(k <= -1)
  <2>1. (k + 1) * z = k * z + z
    BY <1>1, ProductDistributes
  <2>2. k <= -1 => (0 - (k + 1)) * z \in Nat
    <3>1. k <= -1 => 0 - (k + 1) \in Nat
      OBVIOUS
    <3> QED
      BY <3>1, ProductTyped
  <2>3. (0 - (k + 1)) * z = 0 - (k + 1) * z
    <3>1. (0 - (k + 1)) * z = 0 * z - (k + 1) * z
      BY ProductDistributes
    <3>2. 0 * z = 0
      OBVIOUS
    <3> QED
      BY <3>1, <3>2
  <2> QED
    BY <1>1, <2>1, <2>2, <2>3
<1> QED
  BY <1>2, <1>3

LEMMA DivisionUnique ==
  ASSUME NEW a \in Nat, NEW z \in Nat \ {0}, NEW q \in Nat, NEW r \in 0..(z - 1), a = q * z + r
  PROVE  a \div z = q /\ (a % z) = r
<1> DEFINE d == a \div z
           m == a % z
<1>1. d \in Nat /\ m \in 0..(z - 1) /\ a = d * z + m
  BY Division
<1> HIDE DEF d, m
<1>2. d * z \in Int /\ q * z \in Int /\ (d - q) * z = d * z - q * z
  BY <1>1, ProductDistributes
<1>3. d - q = 0
  <2>1. (d - q) * z = r - m
    BY <1>1, <1>2
  <2>2. -z < (d - q) * z /\ (d - q) * z < z /\ d - q \in Int
    BY <1>1, <2>1
  <2> QED
    BY <2>2, SmallMultiple
<1>4. d = q
  BY <1>1, <1>3
<1>5. m = r
  BY <1>1, <1>2, <1>4
<1> QED
  BY <1>4, <1>5 DEF d, m

(* The next number's quotient and remainder. *)
LEMMA NextDivision ==
  ASSUME NEW a \in Nat, NEW z \in Nat \ {0}
  PROVE  /\ ((a + 1) % z) = (((a % z) + 1) % z)
         /\ ((a + 1) \div z) = IF ((a + 1) % z) = 0 THEN (a \div z) + 1 ELSE a \div z
<1> DEFINE d == a \div z
           m == a % z
<1>1. d \in Nat /\ m \in 0..(z - 1) /\ a = d * z + m
  BY Division
<1> HIDE DEF d, m
<1>2. d * z \in Int /\ (d + 1) * z = d * z + z
  BY <1>1, ProductDistributes
<1>3. CASE m + 1 < z
  <2>1. m + 1 \in 0..(z - 1) /\ a + 1 = d * z + (m + 1) /\ a + 1 \in Nat
    BY <1>1, <1>2, <1>3
  <2>2. ((a + 1) \div z) = d /\ ((a + 1) % z) = m + 1
    BY <1>1, <2>1, DivisionUnique
  <2>3. m + 1 = 0 * z + (m + 1) /\ m + 1 \in Nat
    BY <1>1
  <2>4. ((m + 1) % z) = m + 1
    BY <2>1, <2>3, DivisionUnique
  <2>5. m + 1 # 0
    BY <1>1
  <2> QED
    BY <2>2, <2>4, <2>5 DEF d, m
<1>4. CASE m + 1 >= z
  <2>1. m + 1 = z /\ a + 1 = (d + 1) * z + 0 /\ a + 1 \in Nat /\ d + 1 \in Nat /\ 0 \in 0..(z - 1)
    BY <1>1, <1>2, <1>4
  <2>2. ((a + 1) \div z) = d + 1 /\ ((a + 1) % z) = 0
    BY <2>1, DivisionUnique
  <2>3. z = 1 * z + 0 /\ 1 \in Nat /\ z \in Nat
    OBVIOUS
  <2>4. (z % z) = 0
    BY <2>1, <2>3, DivisionUnique
  <2> QED
    BY <2>1, <2>2, <2>4 DEF d, m
<1> QED
  BY <1>1, <1>3, <1>4

(* Numbers less than z apart have different remainders. *)
LEMMA WindowDistinct ==
  ASSUME NEW a \in Nat, NEW b \in Nat, NEW z \in Nat \ {0}, a - b < z, b - a < z, (a % z) = (b % z)
  PROVE  a = b
<1> DEFINE d == a \div z
           e == b \div z
           m == a % z
<1>1. /\ d \in Nat /\ m \in 0..(z - 1) /\ a = d * z + m
      /\ e \in Nat /\ b = e * z + m
  BY Division
<1> HIDE DEF d, e, m
<1>2. d * z \in Int /\ e * z \in Int /\ (d - e) * z = d * z - e * z
  BY <1>1, ProductDistributes
<1>3. (d - e) * z = a - b
  BY <1>1, <1>2
<1>4. d - e = 0
  BY <1>1, <1>3, SmallMultiple
<1> QED
  BY <1>1, <1>4

LEMMA SmallRemainder ==
  ASSUME NEW a \in Nat, NEW z \in Nat \ {0}, a < z
  PROVE  (a % z) = a /\ (a \div z) = 0
<1>1. a = 0 * z + a /\ a \in 0..(z - 1)
  OBVIOUS
<1> QED
  BY <1>1, DivisionUnique

-----------------------------------------------------------------------------
(* What is accumulated, and what is folded from it. *)

LEMMA AccumulatedTyped ==
  ASSUME NEW tile \in Nat, NEW n \in Nat
  PROVE  Accumulated(tile, n) \in Seq(Fragments) /\ Len(Accumulated(tile, n)) = 2 * n
<1>1. \A i \in 1..(2 * n) : <<<<tile, (i - 1) \div 2>>, (i - 1) % 2>> \in Fragments
  BY DEF Fragments, Cells, Slices
<1>2. 2 * n \in Nat
  OBVIOUS
<1> QED
  BY <1>1, <1>2, IsASeq DEF Accumulated

LEMMA AccumulatedStarts == ASSUME NEW tile \in Nat PROVE Accumulated(tile, 0) = <<>>
<1>1. Accumulated(tile, 0) \in Seq(Fragments) /\ Len(Accumulated(tile, 0)) = 0
  BY AccumulatedTyped
<1> QED
  BY <1>1, EmptySeq

LEMMA AccumulatedGrows ==
  ASSUME NEW tile \in Nat, NEW n \in Nat
  PROVE  Append(Append(Accumulated(tile, n), <<<<tile, n>>, 0>>), <<<<tile, n>>, 1>>)
           = Accumulated(tile, n + 1)
<1> DEFINE old == Accumulated(tile, n)
           new == Accumulated(tile, n + 1)
           x == <<<<tile, n>>, 0>>
           y == <<<<tile, n>>, 1>>
<1>1. old \in Seq(Fragments) /\ Len(old) = 2 * n /\ new \in Seq(Fragments) /\ Len(new) = 2 * n + 2
  <2>1. old \in Seq(Fragments) /\ Len(old) = 2 * n
    BY AccumulatedTyped
  <2>2. new \in Seq(Fragments) /\ Len(new) = 2 * (n + 1)
    <3>1. n + 1 \in Nat
      OBVIOUS
    <3> QED
      BY <3>1, AccumulatedTyped
  <2> QED
    BY <2>1, <2>2
<1>2. x \in Fragments /\ y \in Fragments
  BY DEF Fragments, Cells, Slices
<1>3. \A i \in 1..(2 * n) : new[i] = old[i]
  <2>1. 1..(2 * n) \subseteq 1..(2 * (n + 1))
    OBVIOUS
  <2> QED
    BY <2>1 DEF Accumulated
<1>4. new[2 * n + 1] = x /\ new[2 * n + 2] = y
  <2>1. 2 * n + 1 \in 1..(2 * (n + 1)) /\ 2 * n + 2 \in 1..(2 * (n + 1))
    OBVIOUS
  <2>2. (2 * n + 1 - 1) \div 2 = n /\ ((2 * n + 1 - 1) % 2) = 0
    OBVIOUS
  <2>3. (2 * n + 2 - 1) \div 2 = n /\ ((2 * n + 2 - 1) % 2) = 1
    OBVIOUS
  <2> QED
    BY <2>1, <2>2, <2>3 DEF Accumulated
<1> HIDE DEF old, new, x, y
<1> DEFINE half == Append(old, x)
           whole == Append(half, y)
<1>5. /\ half \in Seq(Fragments) /\ Len(half) = 2 * n + 1 /\ half[2 * n + 1] = x
      /\ \A i \in 1..(2 * n) : half[i] = old[i]
  BY <1>1, <1>2, AppendProperties
<1> HIDE DEF half
<1>6. /\ whole \in Seq(Fragments) /\ Len(whole) = 2 * n + 2 /\ whole[2 * n + 2] = y
      /\ \A i \in 1..(2 * n + 1) : whole[i] = half[i]
  BY <1>1, <1>2, <1>5, AppendProperties
<1> HIDE DEF whole
<1>7. \A i \in 1..(2 * n + 2) : whole[i] = new[i]
  BY <1>3, <1>4, <1>5, <1>6
<1>8. whole = new
  BY <1>1, <1>6, <1>7, SeqEqual
<1> QED
  BY <1>8 DEF whole, half, old, new, x, y

(* The rounds of folds a word has had after so many chunks. *)
Rounds(q, chunks) == IF q >= chunks THEN 0 ELSE (chunks - 1 - q) \div Words + 1

LEMMA RoundsTyped == \A q, c \in Nat : Rounds(q, c) \in Nat
<1> SUFFICES ASSUME NEW q \in Nat, NEW c \in Nat, q < c
             PROVE  (c - 1 - q) \div Words \in Nat
  BY DEF Rounds
<1>1. c - 1 - q \in Nat
  OBVIOUS
<1> QED
  BY <1>1, Division, PipelineAssumption

(* Chunk c is folded into the word whose turn it is, and into no other. *)
LEMMA RoundsGrow ==
  ASSUME NEW c \in Nat, NEW q \in 0..(Words - 1)
  PROVE  /\ q = c % Words => /\ Rounds(q, c + 1) = Rounds(q, c) + 1
                             /\ c = Rounds(q, c) * Words + q
                             /\ c < Words <=> Rounds(q, c) = 0
         /\ q # c % Words => Rounds(q, c + 1) = Rounds(q, c)
<1>0. Words \in Nat \ {0} /\ q \in Nat
  BY PipelineAssumption
<1> DEFINE d == c \div Words
           m == c % Words
<1>1. d \in Nat /\ m \in 0..(Words - 1) /\ c = d * Words + m /\ d * Words \in Nat
  BY <1>0, Division, ProductTyped
<1> HIDE DEF d, m
<1>2. (d - 1) * Words = d * Words - Words /\ (d - 1) * Words \in Int
  <2>1. (d - 1) * Words = d * Words - 1 * Words /\ (d - 1) * Words \in Int
    BY <1>0, <1>1, ProductDistributes
  <2>2. 1 * Words = Words
    BY <1>0
  <2> QED
    BY <2>1, <2>2
<1>3. d = 0 => d * Words = 0
  BY <1>0
<1>4. d >= 1 => d * Words >= Words
  <2>1. d >= 1 => (d - 1) * Words \in Nat
    <3>1. d >= 1 => d - 1 \in Nat
      BY <1>1
    <3> QED
      BY <1>0, <3>1, ProductTyped
  <2> QED
    BY <1>0, <1>1, <1>2, <2>1
(* How often a word has had its turn by its place among the words. *)
<1>5. ASSUME NEW b \in Nat, b = c \/ b = c + 1, NEW k \in Nat, NEW r \in 0..(Words - 1), q < b,
             b - 1 - q = k * Words + r
      PROVE  Rounds(q, b) = k + 1
  <2>1. b - 1 - q \in Nat
    BY <1>0, <1>5
  <2>2. (b - 1 - q) \div Words = k
    BY <1>0, <1>5, <2>1, DivisionUnique
  <2> QED
    BY <1>0, <1>5, <2>2 DEF Rounds
<1>6. CASE q = m
  <2>1. c + 1 - 1 - q = d * Words + 0 /\ q < c + 1 /\ 0 \in 0..(Words - 1)
    BY <1>0, <1>1, <1>6
  <2>2. Rounds(q, c + 1) = d + 1
    BY <1>1, <1>5, <2>1
  <2>3. Rounds(q, c) = d
    <3>1. CASE d = 0
      <4>1. q >= c
        BY <1>0, <1>1, <1>3, <1>6, <3>1
      <4> QED
        BY <4>1, <3>1 DEF Rounds
    <3>2. CASE d >= 1
      <4>1. /\ c - 1 - q = (d - 1) * Words + (Words - 1) /\ q < c
            /\ d - 1 \in Nat /\ Words - 1 \in 0..(Words - 1)
        BY <1>0, <1>1, <1>2, <1>4, <1>6, <3>2
      <4>2. Rounds(q, c) = d - 1 + 1
        BY <1>5, <4>1
      <4> QED
        BY <1>1, <4>2
    <3> QED
      BY <1>1, <3>1, <3>2
  <2>4. c < Words <=> d = 0
    BY <1>0, <1>1, <1>3, <1>4
  <2> QED
    BY <1>1, <1>6, <2>2, <2>3, <2>4 DEF m
<1>7. CASE q < m
  <2>1. c - 1 - q = d * Words + (m - 1 - q) /\ q < c /\ m - 1 - q \in 0..(Words - 1)
    BY <1>0, <1>1, <1>7
  <2>2. c + 1 - 1 - q = d * Words + (m - q) /\ q < c + 1 /\ m - q \in 0..(Words - 1)
    BY <1>0, <1>1, <1>7
  <2>3. Rounds(q, c) = d + 1
    BY <1>1, <1>5, <2>1
  <2>4. Rounds(q, c + 1) = d + 1
    BY <1>1, <1>5, <2>2
  <2> QED
    BY <1>7, <1>1, <2>3, <2>4, <1>0 DEF m
<1>8. CASE q > m
  <2>1. CASE d = 0
    <3>1. q >= c /\ q >= c + 1
      BY <1>0, <1>1, <1>3, <1>8, <2>1
    <3> QED
      BY <1>0, <1>1, <1>8, <3>1 DEF Rounds, m
  <2>2. CASE d >= 1
    <3>1. /\ c - 1 - q = (d - 1) * Words + (Words + m - 1 - q) /\ q < c
          /\ Words + m - 1 - q \in 0..(Words - 1) /\ d - 1 \in Nat
      BY <1>0, <1>1, <1>2, <1>4, <1>8, <2>2
    <3>2. /\ c + 1 - 1 - q = (d - 1) * Words + (Words + m - q) /\ q < c + 1
          /\ Words + m - q \in 0..(Words - 1)
      BY <1>0, <1>1, <1>2, <1>4, <1>8, <2>2
    <3>3. Rounds(q, c) = d - 1 + 1
      BY <1>5, <3>1
    <3>4. Rounds(q, c + 1) = d - 1 + 1
      BY <1>5, <3>1, <3>2
    <3> QED
      BY <1>0, <1>1, <1>8, <3>3, <3>4 DEF m
  <2> QED
    BY <1>1, <2>1, <2>2
<1> QED
  BY <1>0, <1>1, <1>6, <1>7, <1>8

(* A word after so many rounds. *)
Word(tile, q, rounds) ==
  [i \in 1..rounds |-> Accumulated(tile, ((i - 1) * Words + q + 1) * shape.fold_every)]

LEMMA TranscriptWords ==
  ASSUME NEW tile, NEW chunks
  PROVE  TranscriptAfter(tile, chunks) = [q \in 0..(Words - 1) |-> Word(tile, q, Rounds(q, chunks))]
BY DEF TranscriptAfter, Word, Rounds

LEMMA WordTyped ==
  ASSUME F \in Nat, NEW tile \in Nat, NEW q \in Nat, NEW rounds \in Nat
  PROVE  Word(tile, q, rounds) \in Seq(Seq(Fragments)) /\ Len(Word(tile, q, rounds)) = rounds
<1>1. ASSUME NEW i \in 1..rounds
      PROVE  Accumulated(tile, ((i - 1) * Words + q + 1) * shape.fold_every) \in Seq(Fragments)
  <2>1. (i - 1) * Words \in Nat
    <3>1. i - 1 \in Nat /\ Words \in Nat
      BY PipelineAssumption
    <3> QED
      BY <3>1, ProductTyped
  <2>2. ((i - 1) * Words + q + 1) * shape.fold_every \in Nat
    <3>1. (i - 1) * Words + q + 1 \in Nat
      BY <2>1
    <3> QED
      BY <3>1, ProductTyped DEF F
  <2> QED
    BY <2>2, AccumulatedTyped
<1> QED
  BY <1>1, IsASeq DEF Word

LEMMA WordStarts ==
  ASSUME F \in Nat, NEW tile \in Nat, NEW q \in Nat
  PROVE  Word(tile, q, 0) = <<>>
BY WordTyped, EmptySeq

LEMMA WordGrows ==
  ASSUME F \in Nat, NEW tile \in Nat, NEW q \in Nat, NEW n \in Nat
  PROVE  Append(Word(tile, q, n), Accumulated(tile, (n * Words + q + 1) * shape.fold_every))
           = Word(tile, q, n + 1)
<1> DEFINE old == Word(tile, q, n)
           new == Word(tile, q, n + 1)
           x == Accumulated(tile, (n * Words + q + 1) * shape.fold_every)
<1>1. old \in Seq(Seq(Fragments)) /\ Len(old) = n
  BY WordTyped
<1>2. new \in Seq(Seq(Fragments)) /\ Len(new) = n + 1
  <2>1. n + 1 \in Nat
    OBVIOUS
  <2> QED
    BY <2>1, WordTyped
<1>3. \A i \in 1..n : new[i] = old[i]
  <2>1. 1..n \subseteq 1..(n + 1)
    OBVIOUS
  <2> QED
    BY <2>1 DEF Word
<1>4. new[n + 1] = x
  <2>1. n + 1 \in 1..(n + 1) /\ n + 1 - 1 = n
    OBVIOUS
  <2> QED
    BY <2>1 DEF Word
<1>5. x \in Seq(Fragments)
  <2>1. n + 1 \in 1..Len(new)
    BY <1>2
  <2> QED
    BY <1>2, <1>4, <2>1, ElementOfSeq
<1> HIDE DEF old, new, x
<1> DEFINE longer == Append(old, x)
<1>6. /\ longer \in Seq(Seq(Fragments)) /\ Len(longer) = n + 1 /\ longer[n + 1] = x
      /\ \A i \in 1..n : longer[i] = old[i]
  BY <1>1, <1>5, AppendProperties
<1> HIDE DEF longer
<1>7. \A i \in 1..(n + 1) : longer[i] = new[i]
  BY SMTT(30), <1>3, <1>4, <1>6
<1>8. longer = new
  BY <1>2, <1>6, <1>7, SeqEqual
<1> QED
  BY <1>8 DEF longer, old, new, x

(* A transcript starts clear, *)
LEMMA TranscriptStarts ==
  ASSUME F \in Nat, NEW tile \in Nat
  PROVE  TranscriptAfter(tile, 0) = [q \in 0..(Words - 1) |-> <<>>]
<1>1. \A q \in 0..(Words - 1) : q \in Nat /\ Word(tile, q, Rounds(q, 0)) = <<>>
  <2> TAKE q \in 0..(Words - 1)
  <2>1. q \in Nat /\ q >= 0
    BY PipelineAssumption
  <2>2. Rounds(q, 0) = 0
    BY <2>1 DEF Rounds
  <2> QED
    BY <2>1, <2>2, WordStarts
<1> QED
  BY <1>1, TranscriptWords

(* and a fold takes it from one chunk to the next. *)
LEMMA TranscriptGrows ==
  ASSUME F \in Nat, NEW tile \in Nat, NEW c \in Nat
  PROVE  [TranscriptAfter(tile, c) EXCEPT
            ![c % Words] = Touched(@, c, Accumulated(tile, (c + 1) * shape.fold_every))]
         = TranscriptAfter(tile, c + 1)
<1> DEFINE acc == Accumulated(tile, (c + 1) * shape.fold_every)
           m == c % Words
<1>1. ASSUME NEW q \in 0..(Words - 1), q # m
      PROVE  Word(tile, q, Rounds(q, c)) = Word(tile, q, Rounds(q, c + 1))
  BY <1>1, RoundsGrow
<1>2. m \in 0..(Words - 1) /\ m \in Nat
  <2>1. Words \in Nat \ {0}
    BY PipelineAssumption
  <2> QED
    BY <2>1, Division
<1>3. Touched(Word(tile, m, Rounds(m, c)), c, acc) = Word(tile, m, Rounds(m, c + 1))
  <2> DEFINE n == Rounds(m, c)
  <2>1. n \in Nat /\ Rounds(m, c + 1) = n + 1 /\ c = n * Words + m /\ (c < Words <=> n = 0)
    BY <1>2, RoundsTyped, RoundsGrow
  <2> HIDE DEF n, m
  <2>2. c + 1 = n * Words + m + 1
    <3>1. n * Words \in Nat
      BY <2>1, ProductTyped, PipelineAssumption
    <3> QED
      BY <1>2, <2>1, <3>1
  <2>3. Append(Word(tile, m, n), acc) = Word(tile, m, n + 1)
    <3>1. acc = Accumulated(tile, (n * Words + m + 1) * shape.fold_every)
      BY <2>2
    <3>2. n \in Nat /\ m \in Nat
      BY <1>2, <2>1
    <3> HIDE DEF acc
    <3> QED
      BY <3>1, <3>2, WordGrows
  <2>4. Touched(Word(tile, m, n), c, acc) = Append(Word(tile, m, n), acc)
    <3>1. CASE n = 0
      <4>1. Word(tile, m, n) = <<>>
        BY <1>2, <3>1, WordStarts
      <4>2. <<acc>> = Append(<<>>, acc)
        OBVIOUS
      <4> QED
        BY <2>1, <3>1, <4>1, <4>2 DEF Touched
    <3>2. CASE n # 0
      BY <2>1, <3>2 DEF Touched
    <3> QED
      BY <3>1, <3>2
  <2> QED
    BY <2>1, <2>3, <2>4 DEF n
<1> HIDE DEF acc, m
<1> DEFINE before == TranscriptAfter(tile, c)
           after  == TranscriptAfter(tile, c + 1)
<1>4. /\ before = [q \in 0..(Words - 1) |-> Word(tile, q, Rounds(q, c))]
      /\ after  = [q \in 0..(Words - 1) |-> Word(tile, q, Rounds(q, c + 1))]
  BY TranscriptWords
<1> HIDE DEF before, after
<1>5. [before EXCEPT ![m] = Touched(@, c, acc)] = after
  BY <1>1, <1>2, <1>3, <1>4
<1> QED
  BY <1>5 DEF before, after, acc, m

-----------------------------------------------------------------------------
(* The registers of a warp that takes a step. *)

SameAs(n, r) ==
  /\ n.tile = r.tile /\ n.left = r.left /\ n.next = r.next /\ n.masked = r.masked /\ n.read = r.read
  /\ n.write = r.write /\ n.frag = r.frag /\ n.accum = r.accum /\ n.iter = r.iter
  /\ n.groups = r.groups

(* What only one warp's registers change. *)
Only(w) ==
  /\ warp' = [v \in Warps |-> warp'[v]]
  /\ \A v \in Warps \ {w} : warp'[v] = warp[v]

LEMMA GoesKeeps ==
  ASSUME Typed, NEW w \in Warps, NEW r \in Registers, NEW label \in Points, Goes(w, r, label)
  PROVE  Only(w) /\ warp'[w] \in Registers /\ warp'[w].pc = label /\ SameAs(warp'[w], r)
<1> DEFINE n == [r EXCEPT !.pc = label]
<1>1. n \in Registers /\ n.pc = label /\ SameAs(n, r)
  BY DEF Registers, SameAs
<1>2. warp' = [warp EXCEPT ![w] = n]
  BY DEF Goes
<1> HIDE DEF n
<1>3. warp'[w] = n /\ Only(w)
  BY <1>2 DEF Typed, Only
<1> QED
  BY <1>1, <1>3

LEMMA ShapeTyped ==
  Typed => /\ N \in Nat \ {0} /\ S \in Nat \ {0} /\ S >= 2 /\ S <= MaxStages /\ F \in Nat \ {0}
           /\ FoldedAt(N) /\ MaxStages \in Nat
BY PipelineAssumption DEF Typed

LEMMA SlotTyped ==
  ASSUME Typed, NEW j \in Nat
  PROVE  Slot(j) \in Nat /\ Slot(j) < S /\ Slot(j) \in 0..(MaxStages - 1)
<1>1. S \in Nat \ {0} /\ S <= MaxStages /\ MaxStages \in Nat
  BY ShapeTyped
<1>2. Slot(j) \in 0..(S - 1)
  BY <1>1, Division DEF Slot
<1> HIDE DEF S
<1> QED
  BY <1>1, <1>2

LEMMA NextSlot == ASSUME Typed, NEW j \in Nat PROVE Successor(Slot(j)) = Slot(j + 1)
<1>1. S \in Nat \ {0}
  BY ShapeTyped
<1>2. ((j + 1) % S) = (((j % S) + 1) % S)
  BY <1>1, NextDivision
<1> QED
  BY <1>2 DEF Slot, Successor, S

(* Slices less than a ring apart have stages of their own. *)
LEMMA SlotsApart ==
  ASSUME Typed, NEW i \in Nat, NEW j \in Nat, i - j < S, j - i < S, Slot(i) = Slot(j)
  PROVE  i = j
<1>1. S \in Nat \ {0}
  BY ShapeTyped
<1> QED
  BY <1>1, WindowDistinct DEF Slot

LEMMA RegistersTyped ==
  ASSUME NEW r \in Registers
  PROVE  /\ r.pc \in Points /\ r.tile \in Nat /\ r.left \in Int /\ r.next \in Nat
         /\ r.masked \in BOOLEAN /\ r.read \in Nat /\ r.write \in Nat /\ r.iter \in Nat
         /\ r.accum \in Seq(Fragments) /\ r.groups \in Seq(CopyGroups) /\ Len(r.groups) \in Nat
         /\ r.frag \in [{1, 2} -> Fragments]
BY DEF Registers

(* What a step does to the registers, field by field. *)
Move(r, write, next) == [r EXCEPT !.write = write, !.next = next]

LEMMA Moved ==
  ASSUME NEW r \in Registers, NEW write \in Nat, NEW next \in Nat
  PROVE  LET n == Move(r, write, next)
         IN  /\ n \in Registers /\ n.pc = r.pc /\ n.tile = r.tile /\ n.left = r.left
             /\ n.next = next /\ n.masked = r.masked /\ n.read = r.read /\ n.write = write
             /\ n.frag = r.frag /\ n.accum = r.accum /\ n.iter = r.iter /\ n.groups = r.groups
BY DEF Move, Registers

MoveRead(r, read) == [r EXCEPT !.read = read]

LEMMA MovedRead ==
  ASSUME NEW r \in Registers, NEW read \in Nat
  PROVE  LET n == MoveRead(r, read)
         IN  /\ n \in Registers /\ n.pc = r.pc /\ n.tile = r.tile /\ n.left = r.left
             /\ n.next = r.next /\ n.masked = r.masked /\ n.read = read /\ n.write = r.write
             /\ n.frag = r.frag /\ n.accum = r.accum /\ n.iter = r.iter /\ n.groups = r.groups
BY DEF MoveRead, Registers

Issue(r, groups, left) == [r EXCEPT !.groups = groups, !.left = left]

LEMMA IssuedTo ==
  ASSUME NEW r \in Registers, NEW groups \in Seq(CopyGroups), NEW left \in Int
  PROVE  LET n == Issue(r, groups, left)
         IN  /\ n \in Registers /\ n.pc = r.pc /\ n.tile = r.tile /\ n.left = left
             /\ n.next = r.next /\ n.masked = r.masked /\ n.read = r.read /\ n.write = r.write
             /\ n.frag = r.frag /\ n.accum = r.accum /\ n.iter = r.iter /\ n.groups = groups
BY DEF Issue, Registers

CountDown(r, left) == [r EXCEPT !.left = left]

LEMMA CountedDown ==
  ASSUME NEW r \in Registers, NEW left \in Int
  PROVE  LET n == CountDown(r, left)
         IN  /\ n \in Registers /\ n.pc = r.pc /\ n.tile = r.tile /\ n.left = left
             /\ n.next = r.next /\ n.masked = r.masked /\ n.read = r.read /\ n.write = r.write
             /\ n.frag = r.frag /\ n.accum = r.accum /\ n.iter = r.iter /\ n.groups = r.groups
BY DEF CountDown, Registers

Groups(r, groups) == [r EXCEPT !.groups = groups]

LEMMA Grouped ==
  ASSUME NEW r \in Registers, NEW groups \in Seq(CopyGroups)
  PROVE  LET n == Groups(r, groups)
         IN  /\ n \in Registers /\ n.pc = r.pc /\ n.tile = r.tile /\ n.left = r.left
             /\ n.next = r.next /\ n.masked = r.masked /\ n.read = r.read /\ n.write = r.write
             /\ n.frag = r.frag /\ n.accum = r.accum /\ n.iter = r.iter /\ n.groups = groups
BY DEF Groups, Registers

Load(r, frag) == [r EXCEPT !.frag = frag]

LEMMA LoadedInto ==
  ASSUME NEW r \in Registers, NEW frag \in [{1, 2} -> Fragments]
  PROVE  LET n == Load(r, frag)
         IN  /\ n \in Registers /\ n.pc = r.pc /\ n.tile = r.tile /\ n.left = r.left
             /\ n.next = r.next /\ n.masked = r.masked /\ n.read = r.read /\ n.write = r.write
             /\ n.frag = frag /\ n.accum = r.accum /\ n.iter = r.iter /\ n.groups = r.groups
BY DEF Load, Registers

Step(r, iter) == [r EXCEPT !.iter = iter]

LEMMA Stepped ==
  ASSUME NEW r \in Registers, NEW iter \in Nat
  PROVE  LET n == Step(r, iter)
         IN  /\ n \in Registers /\ n.pc = r.pc /\ n.tile = r.tile /\ n.left = r.left
             /\ n.next = r.next /\ n.masked = r.masked /\ n.read = r.read /\ n.write = r.write
             /\ n.frag = r.frag /\ n.accum = r.accum /\ n.iter = iter /\ n.groups = r.groups
BY DEF Step, Registers

Multiply(r, accum) == [r EXCEPT !.accum = accum]

LEMMA MultipliedInto ==
  ASSUME NEW r \in Registers, NEW accum \in Seq(Fragments)
  PROVE  LET n == Multiply(r, accum)
         IN  /\ n \in Registers /\ n.pc = r.pc /\ n.tile = r.tile /\ n.left = r.left
             /\ n.next = r.next /\ n.masked = r.masked /\ n.read = r.read /\ n.write = r.write
             /\ n.frag = r.frag /\ n.accum = accum /\ n.iter = r.iter /\ n.groups = r.groups
BY DEF Multiply, Registers

(* The steps that change nothing but the place. *)
Walks == {<<"clear", "clearsync">>, <<"clearsync", "prologue">>, <<"prologuewait", "prologuesync">>,
          <<"prologuesync", "first">>, <<"ringwait", "ringsync">>, <<"ringsync", "advance">>,
          <<"fold", "loop">>, <<"loop", "drainsync">>, <<"drainsync", "hash">>,
          <<"hash", "tilesync">>}

LEMMA WalkKeeps ==
  ASSUME Typed, NEW r, RegsOK(r), NEW n \in Registers, SameAs(n, r), <<r.pc, n.pc>> \in Walks,
         r.pc \in {"prologuewait", "ringwait"} => Len(r.groups) <= S - 2,
         r.pc = "loop" => r.groups = <<>> /\ r.left <= -S + 1
  PROVE  RegsOK(n)
<1>1. r \in Registers /\ CountersOK(r) /\ SlicesOK(r) /\ GroupsOK(r)
  BY DEF RegsOK
<1>2. CountersOK(n)
  <2>1. N \in Nat \ {0} /\ S \in Nat /\ S >= 2 /\ r.iter \in Nat /\ r.next \in Nat /\ r.left \in Int
    BY <1>1, ShapeTyped, RegistersTyped
  <2>2. n.pc \notin Hashing => r.pc \notin Hashing
    BY DEF Walks, Hashing
  <2> HIDE DEF N, S
  <2>3. CASE r.pc \in Clearing
    <3>1. /\ r.left = N - r.next /\ r.write = Slot(r.next) /\ r.read = Slot(r.iter)
          /\ r.next = 0 /\ r.iter = 0 /\ ~r.masked /\ n.pc \in {"clearsync", "prologue"}
      BY <1>1, <2>3 DEF Walks, CountersOK, Clearing, Hashing
    <3>2. n.left = N - n.next /\ n.next = 0 /\ n.iter = 0
      BY <3>1 DEF SameAs
    <3>3. ~(n.left < 0) /\ n.next < S - 1
      BY <2>1, <3>2
    <3>4. ~n.masked /\ n.write = Slot(n.next) /\ n.read = Slot(n.iter)
      BY <3>1 DEF SameAs
    <3> QED
      BY <3>1, <3>2, <3>3, <3>4 DEF CountersOK, Clearing, Filling, Looping, HalfWay
  <2>4. CASE r.pc \in Filling
    BY <1>1, <2>1, <2>4 DEF Walks, SameAs, CountersOK, Clearing, Filling, Looping, Hashing, HalfWay
  <2>5. CASE r.pc \in Looping
    <3>1. /\ r.left = N - r.next /\ r.write = Slot(r.next) /\ r.read = Slot(r.iter)
          /\ r.next = S - 1 + r.iter /\ r.iter <= N /\ (r.masked <=> r.left <= 0)
          /\ r.pc \in HalfWay => r.iter < N
          /\ r.pc = "drainsync" => r.iter = N
      BY <1>1, <2>5 DEF CountersOK, Looping, Hashing
    <3>2. /\ n.left = N - n.next /\ n.write = Slot(n.next) /\ n.read = Slot(n.iter)
          /\ n.next = S - 1 + n.iter /\ n.iter <= N /\ (n.masked <=> n.left <= 0)
      BY <3>1 DEF SameAs
    <3>3. n.pc \in {"ringsync", "advance", "loop", "drainsync"} \cup Hashing
      BY <2>5 DEF Walks, Looping, Hashing
    <3>4. n.pc \in HalfWay => n.iter < N
      BY <2>5, <3>1 DEF Walks, SameAs, HalfWay, Looping
    <3>5. n.pc = "drainsync" => n.iter = N
      <4>1. n.pc = "drainsync" => r.pc = "loop"
        BY DEF Walks
      <4>2. r.left = N - (S - 1 + r.iter) /\ r.iter <= N
        BY <3>1
      <4>3. r.left <= -S + 1 => r.iter = N
        BY <2>1, <4>2
      <4> QED
        BY <4>1, <4>3 DEF SameAs
    <3> QED
      BY <3>2, <3>3, <3>4, <3>5 DEF CountersOK, Clearing, Filling, Looping, Hashing, HalfWay
  <2> QED
    BY <2>2, <2>3, <2>4, <2>5 DEF Walks, Clearing, Filling, Looping, Hashing, CountersOK
<1>3. SlicesOK(n)
  BY <1>1 DEF Walks, SameAs, SlicesOK, Hashing, HalfWay, Fragment
<1>4. GroupsOK(n)
  <2>1. r.pc \notin Hashing => Arrived(n) = Arrived(r)
    BY DEF Walks, SameAs, Arrived, Sent, HalfWay, Hashing
  <2> QED
    BY <1>1, <2>1, ShapeTyped, RegistersTyped DEF Walks, SameAs, GroupsOK, Clearing, Hashing
<1> QED
  BY <1>2, <1>3, <1>4 DEF RegsOK

(* Copies in order. *)

LEMMA InOrderAppend ==
  ASSUME NEW groups \in Seq(CopyGroups), NEW from \in Int, NEW tile, NEW g \in CopyGroups,
         InOrder(groups, from, tile), g.stage = Slot(from + Len(groups)),
         g.value \in IF from + Len(groups) < N THEN {<<tile, from + Len(groups)>>} ELSE {Zeros, Nothing}
  PROVE  InOrder(Append(groups, g), from, tile)
<1>1. /\ Len(groups) \in Nat /\ Len(Append(groups, g)) = Len(groups) + 1
      /\ \A k \in 1..Len(groups) : Append(groups, g)[k] = groups[k]
      /\ Append(groups, g)[Len(groups) + 1] = g
  BY AppendProperties, LenProperties
<1> SUFFICES ASSUME NEW k \in 1..(Len(groups) + 1)
             PROVE  LET j == from + k - 1
                    IN  /\ Append(groups, g)[k].stage = Slot(j)
                        /\ Append(groups, g)[k].value \in IF j < N THEN {<<tile, j>>} ELSE {Zeros, Nothing}
  BY <1>1 DEF InOrder
<1>2. CASE k \in 1..Len(groups)
  BY <1>1, <1>2 DEF InOrder
<1>3. CASE k = Len(groups) + 1
  <2>1. from + k - 1 = from + Len(groups)
    BY <1>1, <1>3
  <2> QED
    BY <1>1, <1>3, <2>1
<1> QED
  BY <1>1, <1>2, <1>3

LEMMA InOrderTail ==
  ASSUME NEW groups \in Seq(CopyGroups), groups # <<>>, NEW from \in Int, NEW tile,
         InOrder(groups, from, tile)
  PROVE  /\ InOrder(Tail(groups), from + 1, tile)
         /\ Head(groups).stage = Slot(from)
         /\ Head(groups).value \in IF from < N THEN {<<tile, from>>} ELSE {Zeros, Nothing}
<1>1. /\ Len(groups) \in Nat \ {0} /\ Len(Tail(groups)) = Len(groups) - 1
      /\ \A k \in 1..Len(Tail(groups)) : Tail(groups)[k] = groups[k + 1]
      /\ Head(groups) = groups[1]
  BY HeadTailProperties, EmptySeq
<1>2. InOrder(Tail(groups), from + 1, tile)
  <2> SUFFICES ASSUME NEW k \in 1..Len(Tail(groups))
               PROVE  LET j == from + 1 + k - 1
                      IN  /\ Tail(groups)[k].stage = Slot(j)
                          /\ Tail(groups)[k].value \in IF j < N THEN {<<tile, j>>} ELSE {Zeros, Nothing}
    BY DEF InOrder
  <2>1. k + 1 \in 1..Len(groups) /\ from + (k + 1) - 1 = from + 1 + k - 1 /\ Tail(groups)[k] = groups[k + 1]
    BY <1>1
  <2> QED
    BY <2>1 DEF InOrder
<1>3. 1 \in 1..Len(groups) /\ from + 1 - 1 = from
  BY <1>1
<1> QED
  BY <1>1, <1>2, <1>3 DEF InOrder

LEMMA LoadedTyped ==
  ASSUME Typed, NEW stage \in 0..(MaxStages - 1), NEW k \in {0, 1}
  PROVE  Loaded(stage, k) \in Fragments
<1>1. ring[stage][0] \in Cells
  BY DEF Typed, Warps
<1> QED
  BY <1>1 DEF Loaded, Fragments

(* The mask is clear from the last slice on. *)
LEMMA FillKeeps ==
  ASSUME Typed, NEW w \in Warps, RegsOK(warp[w]), Prologue(w)
  PROVE  LET r == warp[w]
             n == warp'[w]
         IN  /\ Only(w) /\ RegsOK(n) /\ n.pc \in {"prologue", "prologuewait"} /\ r.pc = "prologue"
             /\ n.tile = r.tile /\ n.iter = 0 /\ r.iter = 0
             /\ Sent(n) = Sent(r) + 1 /\ Arrived(n) = Arrived(r) /\ r.write = Slot(Sent(r))
<1> DEFINE r == warp[w]
           m == clear_mask(r)
           g == Group(m, Zeros)
           a == [advance_smem_write_stage(m) EXCEPT !.groups = Append(@, g), !.left = @ - 1]
           label == IF a.next = S - 1 THEN "prologuewait" ELSE "prologue"
           n == warp'[w]
<1>1. r \in Registers /\ CountersOK(r) /\ SlicesOK(r) /\ GroupsOK(r) /\ r.pc = "prologue"
  BY DEF RegsOK, Prologue, At
<1>2. r.left = N - r.next /\ r.iter = 0 /\ r.next < S - 1 /\ (r.masked <=> r.left < 0)
  BY <1>1 DEF CountersOK, Clearing, Filling, Hashing
<1>0. r.write = Slot(r.next) /\ r.read = Slot(r.iter)
  BY <1>1 DEF CountersOK, Hashing
<1>3. /\ r.left \in Int /\ r.next \in Nat /\ r.groups \in Seq(CopyGroups) /\ r.tile \in Nat
      /\ Len(r.groups) \in Nat /\ r.write \in Nat /\ r.masked \in BOOLEAN
  BY <1>1, RegistersTyped
<1>4. N \in Nat \ {0} /\ S \in Nat \ {0} /\ S >= 2
  BY ShapeTyped
<1>5. /\ m \in Registers /\ m.left = r.left /\ m.tile = r.tile /\ m.next = r.next /\ m.read = r.read
      /\ m.write = r.write /\ m.accum = r.accum /\ m.iter = r.iter /\ m.groups = r.groups
      /\ m.masked = (r.masked \/ r.left = 0)
  BY <1>1 DEF clear_mask, Registers
<1>6. m.masked <=> N <= r.next
  <2>1. r.left < 0 \/ r.left = 0 <=> N <= r.next
    BY <1>2, <1>3, <1>4
  <2> QED
    BY <1>2, <1>5, <2>1
<1> HIDE DEF m
<1>7. /\ g \in CopyGroups /\ g.stage = Slot(r.next)
      /\ g.value \in IF r.next < N THEN {<<r.tile, r.next>>} ELSE {Zeros, Nothing}
  BY <1>0, <1>3, <1>4, <1>5, <1>6 DEF Group, CopyGroups, Slices
<1> HIDE DEF g
<1>8. Successor(r.write) = Slot(r.next + 1) /\ Successor(r.write) \in Nat
  <2>1. r.next + 1 \in Nat
    BY <1>3
  <2> QED
    BY <1>0, <1>3, <2>1, NextSlot, SlotTyped
<1>9. Append(r.groups, g) \in Seq(CopyGroups) /\ Len(Append(r.groups, g)) = Len(r.groups) + 1
  BY <1>3, <1>7, AppendProperties
<1>10. /\ a \in Registers /\ a.left = r.left - 1 /\ a.tile = r.tile /\ a.next = r.next + 1
       /\ a.read = r.read /\ a.write = Slot(r.next + 1) /\ a.accum = r.accum /\ a.iter = r.iter
       /\ a.groups = Append(r.groups, g) /\ a.masked = m.masked
  <2> DEFINE b == advance_smem_write_stage(m)
  <2>1. Successor(m.write) \in Nat /\ m.next + 1 \in Nat
    BY <1>3, <1>5, <1>8
  <2>2. /\ b \in Registers /\ b.tile = m.tile /\ b.left = m.left /\ b.next = m.next + 1
        /\ b.masked = m.masked /\ b.read = m.read /\ b.write = Successor(m.write)
        /\ b.accum = m.accum /\ b.iter = m.iter /\ b.groups = m.groups
    <3>1. b = Move(m, Successor(m.write), m.next + 1)
      BY DEF Move, advance_smem_write_stage
    <3> HIDE DEF b
    <3>2. m \in Registers /\ Successor(m.write) \in Nat /\ m.next + 1 \in Nat
      BY <1>5, <2>1
    <3>3. /\ b \in Registers /\ b.tile = m.tile /\ b.left = m.left /\ b.next = m.next + 1
          /\ b.masked = m.masked /\ b.read = m.read
      BY ZenonT(60), <3>1, <3>2, Moved
    <3>4. /\ b.write = Successor(m.write) /\ b.accum = m.accum /\ b.iter = m.iter
          /\ b.groups = m.groups
      BY ZenonT(60), <3>1, <3>2, Moved
    <3> QED
      BY <3>3, <3>4
  <2>3. a = Issue(b, Append(b.groups, g), b.left - 1)
    BY DEF Issue
  <2> HIDE DEF a, b
  <2>4. Append(b.groups, g) \in Seq(CopyGroups) /\ b.left - 1 \in Int
    BY <1>3, <1>5, <1>9, <2>2
  <2>5. /\ a \in Registers /\ a.tile = b.tile /\ a.left = b.left - 1 /\ a.next = b.next
        /\ a.masked = b.masked /\ a.read = b.read /\ a.write = b.write
        /\ a.accum = b.accum /\ a.iter = b.iter /\ a.groups = Append(b.groups, g)
    BY <2>2, <2>3, <2>4, IssuedTo
  <2> QED
    BY <1>5, <1>8, <2>2, <2>5
<1>11. Goes(w, a, label) /\ label \in Points
  BY DEF Prologue, Points, Filling, a, g, m, S
<1> HIDE DEF a
<1>12. Only(w) /\ n \in Registers /\ n.pc = label /\ SameAs(n, a)
  BY <1>10, <1>11, GoesKeeps
<1> HIDE DEF n
<1>13. n.next = S - 1 <=> n.pc = "prologuewait"
  BY <1>12 DEF SameAs
<1>14. CountersOK(n)
  <2>1. n.pc \in {"prologue", "prologuewait"}
    BY <1>12
  <2>2. n.left = N - n.next /\ n.next <= S - 1 /\ n.iter = 0 /\ (N <= r.next <=> n.left < 0)
    <3>1. n.left = r.left - 1 /\ n.next = r.next + 1 /\ n.iter = 0
      BY <1>2, <1>10, <1>12 DEF SameAs
    <3>2. r.left = N - r.next /\ r.next < S - 1
      BY <1>2
    <3>3. r.left \in Int /\ r.next \in Nat
      BY <1>3
    <3> HIDE DEF r, N, S
    <3> QED
      BY <1>4, <3>1, <3>2, <3>3
  <2>3. n.write = Slot(n.next) /\ n.read = Slot(n.iter) /\ (n.masked <=> N <= r.next)
    BY <1>0, <1>6, <1>10, <1>12 DEF SameAs
  <2>4. n.pc = "prologue" => n.next < S - 1
    BY <1>3, <1>4, <1>10, <1>12, <1>13, <2>1, <2>2 DEF SameAs
  <2> QED
    BY <1>13, <2>1, <2>2, <2>3, <2>4 DEF CountersOK, Clearing, Filling, Looping, Hashing, HalfWay
<1>15. SlicesOK(n)
  BY <1>1, <1>10, <1>12 DEF SlicesOK, SameAs, HalfWay, Hashing
<1>16. /\ Sent(r) = r.next /\ Sent(n) = r.next + 1 /\ Arrived(n) = Arrived(r)
       /\ Arrived(r) = r.next - Len(r.groups) /\ Arrived(r) + Len(r.groups) = r.next
  <2>1. Sent(r) = r.next /\ Sent(n) = r.next + 1
    BY <1>1, <1>10, <1>12 DEF Sent, HalfWay, SameAs
  <2>2. Arrived(r) = r.next - Len(r.groups) /\ Arrived(n) = r.next + 1 - (Len(r.groups) + 1)
    <3>1. n.groups = Append(r.groups, g)
      BY <1>10, <1>12 DEF SameAs
    <3>2. Len(n.groups) = Len(r.groups) + 1
      BY <1>9, <3>1
    <3>3. Arrived(n) = Sent(n) - Len(n.groups) /\ Arrived(r) = Sent(r) - Len(r.groups)
      BY DEF Arrived
    <3> HIDE DEF r
    <3> QED
      BY SMTT(30), <1>3, <2>1, <3>2, <3>3
  <2> QED
    BY <1>3, <2>1, <2>2
<1>17. GroupsOK(n)
  <2>1. /\ Len(r.groups) <= S - 2 /\ Arrived(r) >= 0 /\ InOrder(r.groups, Arrived(r), r.tile)
    BY <1>1 DEF GroupsOK, Hashing
  <2>2. Arrived(r) \in Int
    BY <1>3, <1>16
  <2>3. InOrder(Append(r.groups, g), Arrived(r), r.tile)
    BY <1>3, <1>7, <1>16, <2>1, <2>2, InOrderAppend
  <2>4. Len(n.groups) = Len(r.groups) + 1
    BY <1>9, <1>10, <1>12 DEF SameAs
  <2>5. n.pc = "prologuewait" => Len(n.groups) <= S - 1
    BY <1>3, <1>4, <2>1, <2>4
  <2>6. n.pc = "prologue" => Len(n.groups) <= S - 2
    <3>1. n.pc = "prologue" => r.next + 1 < S - 1
      <4>1. n.next = r.next + 1 /\ n.pc \in {"prologue", "prologuewait"}
        BY <1>10, <1>12 DEF SameAs
      <4>2. n.pc = "prologue" => n.next # S - 1
        BY <1>13
      <4> QED
        BY <1>2, <1>3, <1>4, <4>1, <4>2
    <3>2. Len(r.groups) \in Nat /\ r.next \in Nat /\ Len(r.groups) <= r.next
      <4>1. Arrived(r) >= 0 /\ Arrived(r) + Len(r.groups) = r.next
        BY <1>16, <2>1
      <4> HIDE DEF r
      <4> QED
        BY <1>3, <2>2, <4>1
    <3> HIDE DEF r, S
    <3> QED
      BY <1>4, <2>4, <3>1, <3>2
  <2> QED
    BY <1>10, <1>12, <1>16, <2>1, <2>3, <2>5, <2>6 DEF GroupsOK, SameAs, Clearing, Hashing
<1> QED
  BY <1>0, <1>1, <1>2, <1>10, <1>12, <1>14, <1>15, <1>16, <1>17 DEF RegsOK, SameAs, n

(* The next registers are as they should be when the registers' invariant   *)
(* holds of them.                                                           *)
LEMMA RegsNext ==
  ASSUME shape' = shape, NEW w \in Warps, RegsOK(warp'[w])
  PROVE  RegsOK(warp[w])'
<1>1. N' = N /\ S' = S /\ F' = F
  BY DEF N, S, F
<1>2. CountersOK(warp[w])'
  <2>1. \A j : Slot(j)' = Slot(j) /\ FoldedAt(j)' = FoldedAt(j)
    BY <1>1 DEF Slot, FoldedAt
  <2>2. CountersOK(warp'[w])
    BY DEF RegsOK
  <2> QED
    BY <1>1, <2>1, <2>2 DEF CountersOK
<1>3. SlicesOK(warp[w])'
  <2>1. SlicesOK(warp'[w])
    BY DEF RegsOK
  <2>2. \A tile, n : Accumulated(tile, n)' = Accumulated(tile, n)
    BY DEF Accumulated
  <2> QED
    BY <1>1, <2>1, <2>2 DEF SlicesOK, Fragment
<1>4. GroupsOK(warp[w])'
  <2>1. \A g, from, tile : InOrder(g, from, tile)' = InOrder(g, from, tile)
    BY <1>1 DEF InOrder, Slot
  <2>2. GroupsOK(warp'[w])
    BY DEF RegsOK
  <2> QED
    BY <1>1, <2>1, <2>2 DEF GroupsOK, Arrived, Sent
<1> QED
  BY <1>2, <1>3, <1>4 DEF RegsOK

(* A step of one warp keeps it between the same two barriers. *)
Stays(n, r) ==
  /\ n.tile = r.tile
  /\ n.pc \in Clearing <=> r.pc \in Clearing
  /\ n.pc \in Filling  <=> r.pc \in Filling
  /\ n.pc \in Hashing  <=> r.pc \in Hashing
  /\ r.pc \in Looping \cup {"first"} => Epoch(n) = Epoch(r)

LEMMA ClearMaskIs ==
  ASSUME NEW r \in Registers
  PROVE  LET n == clear_mask(r)
         IN  /\ n \in Registers /\ n.pc = r.pc /\ n.tile = r.tile /\ n.left = r.left
             /\ n.next = r.next /\ n.masked = (r.masked \/ r.left = 0) /\ n.read = r.read
             /\ n.write = r.write /\ n.frag = r.frag /\ n.accum = r.accum /\ n.iter = r.iter
             /\ n.groups = r.groups
BY DEF clear_mask, Registers

(* The first fragment. *)
LEMMA FirstLoadKeeps ==
  ASSUME Typed, NEW w \in Warps, RegsOK(warp[w]), FirstLoad(w),
         Loaded(warp[w].read, 0) = Fragment(warp[w], 0)
  PROVE  LET r == warp[w]
             n == warp'[w]
         IN  /\ Only(w) /\ RegsOK(n) /\ Stays(n, r) /\ Sent(n) = Sent(r) /\ Arrived(n) = Arrived(r)
             /\ Folded(n) = Folded(r) /\ r.pc = "first" /\ n.pc = "loop"
<1> DEFINE r == warp[w]
           m == clear_mask(r)
           x == Loaded(r.read, 0)
           n == warp'[w]
<1>1. r \in Registers /\ CountersOK(r) /\ SlicesOK(r) /\ GroupsOK(r) /\ r.pc = "first" /\ x = Fragment(r, 0)
  BY DEF RegsOK, FirstLoad, At
<1>2. /\ r.left = N - r.next /\ r.write = Slot(r.next) /\ r.read = Slot(r.iter)
      /\ r.iter = 0 /\ r.next = S - 1 /\ (r.masked <=> r.left < 0)
  BY <1>1 DEF CountersOK, Filling, Hashing
<1>3. N \in Nat \ {0} /\ S \in Nat \ {0} /\ S >= 2
  BY ShapeTyped
<1>4. /\ m \in Registers /\ m.tile = r.tile /\ m.left = r.left /\ m.next = r.next /\ m.read = r.read
      /\ m.write = r.write /\ m.frag = r.frag /\ m.accum = r.accum /\ m.iter = r.iter
      /\ m.groups = r.groups /\ m.masked = (r.masked \/ r.left = 0)
  BY <1>1, ClearMaskIs
<1>5. x \in Fragments
  BY <1>1, RegistersTyped DEF Fragment, Fragments, Cells, Slices
<1> HIDE DEF m, x
<1> DEFINE a == Load(m, [m.frag EXCEPT ![1] = x])
<1>6. /\ a \in Registers /\ a.tile = r.tile /\ a.left = r.left /\ a.next = r.next /\ a.read = r.read
      /\ a.write = r.write /\ a.frag[1] = x /\ a.accum = r.accum /\ a.iter = r.iter
      /\ a.groups = r.groups /\ a.masked = (r.masked \/ r.left = 0)
  <2> DEFINE y == [m.frag EXCEPT ![1] = x]
  <2>1. y \in [{1, 2} -> Fragments] /\ y[1] = x
    BY <1>4, <1>5, RegistersTyped
  <2> HIDE DEF y
  <2> QED
    BY <1>4, <2>1, LoadedInto DEF y
<1>7. Goes(w, a, "loop") /\ "loop" \in Points
  BY DEF FirstLoad, Load, Points, Looping, m, x
<1> HIDE DEF a
<1>8. Only(w) /\ n \in Registers /\ n.pc = "loop" /\ SameAs(n, a)
  BY <1>6, <1>7, GoesKeeps
<1> HIDE DEF n
<1>9. /\ n.tile = r.tile /\ n.left = r.left /\ n.next = r.next /\ n.read = r.read
      /\ n.write = r.write /\ n.frag[1] = x /\ n.accum = r.accum /\ n.iter = r.iter
      /\ n.groups = r.groups /\ n.masked = (r.masked \/ r.left = 0)
  BY <1>6, <1>8 DEF SameAs
<1>10. CountersOK(n)
  <2>1. n.next = S - 1 + n.iter /\ n.iter <= N
    BY <1>2, <1>3, <1>9
  <2>2. n.masked <=> n.left <= 0
    <3>1. r.left <= 0 <=> r.left < 0 \/ r.left = 0
      BY <1>1, RegistersTyped
    <3> QED
      BY <1>2, <1>9, <3>1
  <2> QED
    BY <1>2, <1>8, <1>9, <2>1, <2>2 DEF CountersOK, Clearing, Filling, Looping, HalfWay
<1>11. SlicesOK(n)
  BY <1>1, <1>8, <1>9 DEF SlicesOK, Fragment, HalfWay, Hashing
<1>12. Sent(n) = Sent(r) /\ Arrived(n) = Arrived(r)
  BY <1>1, <1>8, <1>9 DEF Sent, Arrived, HalfWay
<1>13. GroupsOK(n)
  BY <1>1, <1>8, <1>9, <1>12 DEF GroupsOK, Clearing, Hashing
<1>14. Stays(n, r) /\ Folded(n) = Folded(r)
  BY <1>1, <1>8, <1>9 DEF Stays, Folded, Epoch, Clearing, Filling, Hashing
<1> QED
  BY <1>1, <1>8, <1>10, <1>11, <1>12, <1>13, <1>14 DEF RegsOK, n

(* The second fragment, and the first is multiplied. *)
LEMMA FirstHalfKeeps ==
  ASSUME Typed, NEW w \in Warps, RegsOK(warp[w]), FirstHalf(w),
         warp[w].iter < N => Loaded(warp[w].read, 1) = Fragment(warp[w], 1)
  PROVE  LET r == warp[w]
             n == warp'[w]
         IN  /\ Only(w) /\ RegsOK(n) /\ Stays(n, r) /\ Sent(n) = Sent(r) /\ Arrived(n) = Arrived(r)
             /\ Folded(n) = Folded(r) /\ r.pc = "loop" /\ n.pc = "copy"
<1> DEFINE r == warp[w]
           x == Loaded(r.read, 1)
           n == warp'[w]
<1>1. r \in Registers /\ CountersOK(r) /\ SlicesOK(r) /\ GroupsOK(r) /\ r.pc = "loop"
  BY DEF RegsOK, FirstHalf, At
<1>2. /\ r.left = N - r.next /\ r.write = Slot(r.next) /\ r.read = Slot(r.iter)
      /\ r.iter <= N /\ r.next = S - 1 + r.iter /\ (r.masked <=> r.left <= 0)
  BY <1>1 DEF CountersOK, Looping, Hashing
<1>3. N \in Nat \ {0} /\ S \in Nat \ {0} /\ S >= 2 /\ r.iter \in Nat /\ r.tile \in Nat
  BY <1>1, ShapeTyped, RegistersTyped
<1>4. r.iter < N
  <2>1. r.left > -S + 1
    BY DEF FirstHalf, S
  <2> HIDE DEF r
  <2> QED
    BY <1>2, <1>3, <2>1
<1>5. /\ x = Fragment(r, 1) /\ r.frag[1] = Fragment(r, 0) /\ r.accum = Accumulated(r.tile, r.iter)
      /\ Fragment(r, 0) \in Fragments /\ Fragment(r, 1) \in Fragments
  BY <1>1, <1>3, <1>4 DEF SlicesOK, Fragment, Fragments, Cells, Slices, HalfWay, Hashing
<1> HIDE DEF x
<1> DEFINE y == [r.frag EXCEPT ![2] = x]
           z == Append(r.accum, r.frag[1])
           b == Load(r, y)
           a == Multiply(b, z)
<1>6. y \in [{1, 2} -> Fragments] /\ y[2] = x /\ y[1] = r.frag[1] /\ z \in Seq(Fragments)
  BY <1>1, <1>5, RegistersTyped
<1>7. Goes(w, a, "copy") /\ "copy" \in Points
  <2>1. b = [r EXCEPT !.frag[2] = x]
    BY DEF Load
  <2>2. a = Multiplied(b, 1)
    <3>1. b.frag = y /\ b.accum = r.accum
      BY <1>1, <1>6, LoadedInto
    <3> HIDE DEF y, b
    <3> QED
      BY <1>6, <3>1 DEF Multiplied, Multiply
  <2> QED
    BY <2>1, <2>2 DEF FirstHalf, Points, Looping, x
<1> HIDE DEF y, z
<1>8. /\ a \in Registers /\ a.tile = r.tile /\ a.left = r.left /\ a.next = r.next /\ a.read = r.read
      /\ a.write = r.write /\ a.frag[2] = x /\ a.accum = z /\ a.iter = r.iter
      /\ a.groups = r.groups /\ a.masked = r.masked
  <2>1. /\ b \in Registers /\ b.tile = r.tile /\ b.left = r.left /\ b.next = r.next /\ b.read = r.read
        /\ b.write = r.write /\ b.frag = y /\ b.iter = r.iter
        /\ b.groups = r.groups /\ b.masked = r.masked
    BY <1>1, <1>6, LoadedInto
  <2> HIDE DEF b
  <2> QED
    BY <1>6, <2>1, MultipliedInto
<1> HIDE DEF a, b
<1>9. Only(w) /\ n \in Registers /\ n.pc = "copy" /\ SameAs(n, a)
  BY <1>7, <1>8, GoesKeeps
<1> HIDE DEF n
<1>10. /\ n.tile = r.tile /\ n.left = r.left /\ n.next = r.next /\ n.read = r.read
       /\ n.write = r.write /\ n.frag[2] = x /\ n.accum = z /\ n.iter = r.iter
       /\ n.groups = r.groups /\ n.masked = r.masked
  BY <1>8, <1>9 DEF SameAs
<1>11. CountersOK(n)
  BY <1>2, <1>4, <1>9, <1>10 DEF CountersOK, Clearing, Filling, Looping, HalfWay
<1>12. SlicesOK(n)
  BY <1>5, <1>9, <1>10 DEF SlicesOK, Fragment, HalfWay, Hashing, z
<1>13. Sent(n) = Sent(r) /\ Arrived(n) = Arrived(r)
  BY <1>1, <1>9, <1>10 DEF Sent, Arrived, HalfWay
<1>14. GroupsOK(n)
  BY <1>1, <1>9, <1>10, <1>13 DEF GroupsOK, Clearing, Hashing
<1>15. Stays(n, r) /\ Folded(n) = Folded(r)
  BY <1>1, <1>9, <1>10 DEF Stays, Folded, Epoch, Clearing, Filling, Hashing
<1> QED
  BY <1>1, <1>9, <1>11, <1>12, <1>13, <1>14, <1>15 DEF RegsOK, n

(* The copy of the next slice. *)
LEMMA CopyKeeps ==
  ASSUME Typed, NEW w \in Warps, RegsOK(warp[w]), Copy(w)
  PROVE  LET r == warp[w]
             n == warp'[w]
         IN  /\ Only(w) /\ RegsOK(n) /\ Stays(n, r) /\ Sent(n) = Sent(r) + 1 /\ Arrived(n) = Arrived(r)
             /\ Folded(n) = Folded(r) /\ r.pc = "copy" /\ n.pc = "ringwait" /\ r.write = Slot(Sent(r))
             /\ r.masked <=> N <= Sent(r)
<1> DEFINE r == warp[w]
           g == Group(r, Nothing)
           a == Groups(r, Append(r.groups, g))
           n == warp'[w]
<1>1. r \in Registers /\ CountersOK(r) /\ SlicesOK(r) /\ GroupsOK(r) /\ r.pc = "copy"
  BY DEF RegsOK, Copy, At
<1>2. /\ r.left = N - r.next /\ r.write = Slot(r.next) /\ r.read = Slot(r.iter)
      /\ r.iter < N /\ r.next = S - 1 + r.iter /\ (r.masked <=> r.left <= 0)
  BY <1>1 DEF CountersOK, Looping, HalfWay, Hashing
<1>3. N \in Nat \ {0} /\ S \in Nat \ {0} /\ S >= 2
  BY ShapeTyped
<1>4. /\ r.left \in Int /\ r.next \in Nat /\ r.groups \in Seq(CopyGroups) /\ r.tile \in Nat
      /\ Len(r.groups) \in Nat /\ r.write \in Nat /\ r.iter \in Nat
  BY <1>1, RegistersTyped
<1>5. r.masked <=> N <= r.next
  <2>1. r.left <= 0 <=> N <= r.next
    BY <1>2, <1>3, <1>4
  <2> QED
    BY <1>2, <2>1
<1>6. /\ g \in CopyGroups /\ g.stage = Slot(r.next)
      /\ g.value \in IF r.next < N THEN {<<r.tile, r.next>>} ELSE {Zeros, Nothing}
  BY <1>2, <1>3, <1>4, <1>5 DEF Group, CopyGroups, Slices
<1> HIDE DEF g
<1>7. Append(r.groups, g) \in Seq(CopyGroups) /\ Len(Append(r.groups, g)) = Len(r.groups) + 1
  BY <1>4, <1>6, AppendProperties
<1>8. Goes(w, a, "ringwait") /\ "ringwait" \in Points
  BY DEF Copy, Points, Looping, Groups, g
<1>9. /\ a \in Registers /\ a.tile = r.tile /\ a.left = r.left /\ a.next = r.next /\ a.read = r.read
      /\ a.write = r.write /\ a.frag = r.frag /\ a.accum = r.accum /\ a.iter = r.iter
      /\ a.groups = Append(r.groups, g) /\ a.masked = r.masked
  BY ZenonT(60), <1>1, <1>7, Grouped
<1> HIDE DEF a
<1>10. Only(w) /\ n \in Registers /\ n.pc = "ringwait" /\ SameAs(n, a)
  BY <1>8, <1>9, GoesKeeps
<1> HIDE DEF n
<1>11. /\ n.tile = r.tile /\ n.left = r.left /\ n.next = r.next /\ n.read = r.read
       /\ n.write = r.write /\ n.frag = r.frag /\ n.accum = r.accum /\ n.iter = r.iter
       /\ n.groups = Append(r.groups, g) /\ n.masked = r.masked
  BY <1>9, <1>10 DEF SameAs
<1>12. CountersOK(n)
  <2>1. n.iter <= N /\ n.iter < N
    BY <1>2, <1>3, <1>4, <1>11
  <2> QED
    BY <1>2, <1>10, <1>11, <2>1 DEF CountersOK, Clearing, Filling, Looping, HalfWay
<1>13. SlicesOK(n)
  BY <1>1, <1>10, <1>11 DEF SlicesOK, Fragment, HalfWay, Hashing
<1>14. /\ Sent(r) = r.next /\ Sent(n) = r.next + 1 /\ Arrived(n) = Arrived(r)
       /\ Arrived(r) = r.next - Len(r.groups) /\ Arrived(r) + Len(r.groups) = r.next
  <2>1. Sent(r) = r.next /\ Sent(n) = r.next + 1
    BY <1>1, <1>10, <1>11 DEF Sent, HalfWay
  <2>2. Len(n.groups) = Len(r.groups) + 1
    BY <1>7, <1>11
  <2>3. Arrived(n) = Sent(n) - Len(n.groups) /\ Arrived(r) = Sent(r) - Len(r.groups)
    BY DEF Arrived
  <2> HIDE DEF r
  <2>4. r.next \in Nat /\ Len(r.groups) \in Nat
    BY <1>4
  <2>5. Arrived(r) = r.next - Len(r.groups) /\ Arrived(r) + Len(r.groups) = r.next
    BY <2>1, <2>3, <2>4
  <2>6. Arrived(n) = r.next + 1 - (Len(r.groups) + 1)
    <3>1. Arrived(n) = Sent(n) - Len(n.groups)
      BY <2>3
    <3> QED
      BY <2>1, <2>2, <2>4, <3>1
  <2>7. Arrived(n) = Arrived(r)
    BY <2>4, <2>5, <2>6
  <2> QED
    BY <2>1, <2>5, <2>7
<1>15. GroupsOK(n)
  <2>1. /\ Len(r.groups) <= S - 2 /\ Arrived(r) >= 0 /\ InOrder(r.groups, Arrived(r), r.tile)
    BY <1>1 DEF GroupsOK, Hashing
  <2>2. Arrived(r) \in Int
    BY <1>4, <1>14
  <2>3. InOrder(Append(r.groups, g), Arrived(r), r.tile)
    BY <1>4, <1>6, <1>14, <2>1, <2>2, InOrderAppend
  <2>4. Len(n.groups) <= S - 1
    <3>1. Len(n.groups) = Len(r.groups) + 1
      BY <1>7, <1>11
    <3>2. Len(r.groups) \in Nat /\ Len(r.groups) <= S - 2
      BY <1>4, <2>1
    <3> HIDE DEF r, S
    <3> QED
      BY <1>3, <3>1, <3>2
  <2> QED
    BY <1>10, <1>11, <1>14, <2>1, <2>3, <2>4 DEF GroupsOK, Clearing, Hashing
<1>16. Stays(n, r) /\ Folded(n) = Folded(r)
  BY <1>1, <1>10, <1>11 DEF Stays, Folded, Epoch, Clearing, Filling, Hashing
<1> QED
  BY <1>1, <1>2, <1>5, <1>10, <1>12, <1>13, <1>14, <1>15, <1>16 DEF RegsOK, n

(* A copy that lands. *)
LEMMA LandKeeps ==
  ASSUME Typed, NEW w \in Warps, RegsOK(warp[w]), Land(w)
  PROVE  LET r == warp[w]
             n == warp'[w]
             g == Head(r.groups)
         IN  /\ Only(w) /\ RegsOK(n) /\ Stays(n, r) /\ Sent(n) = Sent(r) /\ Arrived(n) = Arrived(r) + 1
             /\ Folded(n) = Folded(r) /\ r.pc = n.pc /\ r.pc \notin Clearing \cup Hashing \cup {"drainsync"}
             /\ g.stage = Slot(Arrived(r))
             /\ g.value \in IF Arrived(r) < N THEN {<<r.tile, Arrived(r)>>} ELSE {Zeros, Nothing}
<1> DEFINE r == warp[w]
           g == Head(r.groups)
           a == Groups(r, Tail(r.groups))
           n == warp'[w]
<1>1. r \in Registers /\ CountersOK(r) /\ SlicesOK(r) /\ GroupsOK(r) /\ r.groups # <<>>
  BY DEF RegsOK, Land
<1>2. r.pc \notin Clearing \cup Hashing \cup {"drainsync"}
  BY <1>1 DEF GroupsOK
<1>3. r.groups \in Seq(CopyGroups) /\ Len(r.groups) \in Nat /\ r.next \in Nat
  BY <1>1, RegistersTyped
<1>4. Tail(r.groups) \in Seq(CopyGroups) /\ Len(Tail(r.groups)) = Len(r.groups) - 1
  BY <1>1, <1>3, HeadTailProperties
<1>5. /\ a \in Registers /\ a.pc = r.pc /\ a.tile = r.tile /\ a.left = r.left /\ a.next = r.next
      /\ a.read = r.read /\ a.write = r.write /\ a.frag = r.frag /\ a.accum = r.accum
      /\ a.iter = r.iter /\ a.groups = Tail(r.groups) /\ a.masked = r.masked
  BY ZenonT(60), <1>1, <1>4, Grouped
<1>6. warp' = [warp EXCEPT ![w] = a]
  BY DEF Land, Groups
<1> HIDE DEF a
<1>7. n = a /\ Only(w)
  BY <1>6 DEF Typed, Only
<1> HIDE DEF n
<1>8. CountersOK(n)
  BY <1>1, <1>5, <1>7 DEF CountersOK
<1>9. SlicesOK(n)
  BY <1>1, <1>5, <1>7 DEF SlicesOK, Fragment
<1>10. Sent(n) = Sent(r) /\ Sent(r) \in Nat
  BY <1>3, <1>5, <1>7 DEF Sent
<1>11. Arrived(n) = Arrived(r) + 1 /\ Arrived(r) \in Int
  <2>1. Arrived(n) = Sent(n) - Len(n.groups) /\ Arrived(r) = Sent(r) - Len(r.groups)
    BY DEF Arrived
  <2>2. Len(n.groups) = Len(r.groups) - 1
    BY <1>4, <1>5, <1>7
  <2> HIDE DEF r
  <2> QED
    BY <1>3, <1>10, <2>1, <2>2
<1>12. /\ Len(r.groups) <= IF r.pc \in {"prologuewait", "ringwait"} THEN S - 1 ELSE S - 2
       /\ Arrived(r) >= 0 /\ InOrder(r.groups, Arrived(r), r.tile)
  BY <1>1, <1>2 DEF GroupsOK
<1>13. /\ InOrder(Tail(r.groups), Arrived(r) + 1, r.tile) /\ g.stage = Slot(Arrived(r))
       /\ g.value \in IF Arrived(r) < N THEN {<<r.tile, Arrived(r)>>} ELSE {Zeros, Nothing}
  BY <1>1, <1>3, <1>11, <1>12, InOrderTail
<1>14. GroupsOK(n)
  <2>1. Len(n.groups) <= IF n.pc \in {"prologuewait", "ringwait"} THEN S - 1 ELSE S - 2
    <3>1. Len(n.groups) = Len(r.groups) - 1 /\ n.pc = r.pc /\ S \in Nat
      BY <1>4, <1>5, <1>7, ShapeTyped
    <3> HIDE DEF S
    <3> QED
      BY <1>3, <1>12, <3>1
  <2>2. Arrived(n) >= 0
    <3> HIDE DEF r
    <3> QED
      BY <1>11, <1>12
  <2> QED
    BY <1>2, <1>5, <1>7, <1>11, <1>13, <2>1, <2>2 DEF GroupsOK
<1>15. Stays(n, r) /\ Folded(n) = Folded(r)
  BY <1>5, <1>7 DEF Stays, Folded, Epoch
<1> QED
  BY <1>2, <1>5, <1>7, <1>8, <1>9, <1>10, <1>11, <1>13, <1>14, <1>15 DEF RegsOK, n

(* The second half of a slice: the ring goes on by a stage. *)
LEMMA SecondHalfKeeps ==
  ASSUME Typed, NEW w \in Warps, RegsOK(warp[w]), SecondHalf(w),
         warp[w].iter + 1 < N =>
           Loaded(Slot(warp[w].iter + 1), 0) = <<<<warp[w].tile, warp[w].iter + 1>>, 0>>,
         Loaded(Slot(warp[w].iter + 1), 0) \in Fragments
  PROVE  LET r == warp[w]
             n == warp'[w]
         IN  /\ Only(w) /\ RegsOK(n) /\ Stays(n, r) /\ Sent(n) = Sent(r) /\ Arrived(n) = Arrived(r)
             /\ r.pc = "advance" /\ n.iter = r.iter + 1
             /\ n.pc = IF FoldedAt(r.iter + 1) THEN "fold" ELSE "loop"
<1> DEFINE r == warp[w]
           x == Loaded(Slot(r.iter + 1), 0)
           n == warp'[w]
<1>1. r \in Registers /\ CountersOK(r) /\ SlicesOK(r) /\ GroupsOK(r) /\ r.pc = "advance"
  BY DEF RegsOK, SecondHalf, At
<1>2. /\ r.left = N - r.next /\ r.write = Slot(r.next) /\ r.read = Slot(r.iter)
      /\ r.iter < N /\ r.next = S - 1 + r.iter /\ (r.masked <=> r.left <= 0)
  BY <1>1 DEF CountersOK, Looping, HalfWay, Hashing
<1>3. N \in Nat \ {0} /\ S \in Nat \ {0} /\ S >= 2
  BY ShapeTyped
<1>4. /\ r.left \in Int /\ r.next \in Nat /\ r.tile \in Nat /\ r.iter \in Nat
      /\ r.frag \in [{1, 2} -> Fragments] /\ r.accum \in Seq(Fragments)
  BY <1>1, RegistersTyped
<1>31. r.left \in Int /\ r.next \in Nat /\ r.iter \in Nat
  BY <1>4
<1>5. /\ r.frag[2] = <<<<r.tile, r.iter>>, 1>>
      /\ r.accum = Append(Accumulated(r.tile, r.iter), <<<<r.tile, r.iter>>, 0>>)
  BY <1>1 DEF SlicesOK, Fragment, HalfWay, Hashing
<1>6. r.next + 1 \in Nat /\ r.iter + 1 \in Nat /\ r.left - 1 \in Int
  BY <1>4
<1>7. Successor(r.write) = Slot(r.next + 1) /\ Successor(r.read) = Slot(r.iter + 1)
  BY <1>2, <1>4, NextSlot
<1>8. Slot(r.next + 1) \in Nat /\ Slot(r.iter + 1) \in Nat
  BY <1>6, SlotTyped
<1> HIDE DEF x
<1> DEFINE a1 == Move(r, Slot(r.next + 1), r.next + 1)
           a2 == MoveRead(a1, Slot(r.iter + 1))
           a3 == CountDown(a2, r.left - 1)
           a4 == clear_mask(a3)
           y  == [r.frag EXCEPT ![1] = x]
           a5 == Load(a4, y)
           a6 == Step(a5, r.iter + 1)
           z  == Append(r.accum, r.frag[2])
           a7 == Multiply(a6, z)
<1>9. y \in [{1, 2} -> Fragments] /\ y[2] = r.frag[2] /\ y[1] = x /\ z \in Seq(Fragments)
  BY <1>4 DEF x
<1>10. /\ a1 \in Registers /\ a1.pc = r.pc /\ a1.tile = r.tile /\ a1.left = r.left
       /\ a1.next = r.next + 1 /\ a1.read = r.read /\ a1.write = Slot(r.next + 1)
       /\ a1.frag = r.frag /\ a1.accum = r.accum /\ a1.iter = r.iter /\ a1.groups = r.groups
       /\ a1.masked = r.masked
  <2>1. a1 = Move(r, Slot(r.next + 1), r.next + 1)
    OBVIOUS
  <2> HIDE DEF a1, r
  <2>2. r \in Registers
    BY <1>1
  <2>3. Slot(r.next + 1) \in Nat /\ r.next + 1 \in Nat
    BY <1>6, <1>8
  <2>4. /\ a1 \in Registers /\ a1.pc = r.pc /\ a1.tile = r.tile /\ a1.left = r.left
        /\ a1.read = r.read
    BY ZenonT(60), <2>1, <2>2, <2>3, Moved
  <2>5. a1.next = r.next + 1 /\ a1.write = Slot(r.next + 1)
    BY ZenonT(60), <2>1, <2>2, <2>3, Moved
  <2>6. /\ a1.frag = r.frag /\ a1.accum = r.accum /\ a1.iter = r.iter /\ a1.groups = r.groups
        /\ a1.masked = r.masked
    BY ZenonT(60), <2>1, <2>2, <2>3, Moved
  <2> QED
    BY <2>4, <2>5, <2>6
<1>11. a1 = advance_smem_write_stage(r)
  BY <1>7 DEF Move, advance_smem_write_stage
<1> HIDE DEF a1
<1>12. /\ a2 \in Registers /\ a2.pc = r.pc /\ a2.tile = r.tile /\ a2.left = r.left
       /\ a2.next = r.next + 1 /\ a2.read = Slot(r.iter + 1) /\ a2.write = Slot(r.next + 1)
       /\ a2.frag = r.frag /\ a2.accum = r.accum /\ a2.iter = r.iter /\ a2.groups = r.groups
       /\ a2.masked = r.masked
  BY <1>8, <1>10, MovedRead
<1>13. a2 = advance_smem_read_stage(a1)
  BY <1>7, <1>10 DEF MoveRead, advance_smem_read_stage
<1> HIDE DEF a2
<1>14. /\ a3 \in Registers /\ a3.pc = r.pc /\ a3.tile = r.tile /\ a3.left = r.left - 1
       /\ a3.next = r.next + 1 /\ a3.read = Slot(r.iter + 1) /\ a3.write = Slot(r.next + 1)
       /\ a3.frag = r.frag /\ a3.accum = r.accum /\ a3.iter = r.iter /\ a3.groups = r.groups
       /\ a3.masked = r.masked
  BY <1>6, <1>12, CountedDown
<1>15. a3 = [a2 EXCEPT !.left = @ - 1]
  BY <1>12 DEF CountDown
<1> HIDE DEF a3
<1>16. /\ a4 \in Registers /\ a4.pc = r.pc /\ a4.tile = r.tile /\ a4.left = r.left - 1
       /\ a4.next = r.next + 1 /\ a4.read = Slot(r.iter + 1) /\ a4.write = Slot(r.next + 1)
       /\ a4.frag = r.frag /\ a4.accum = r.accum /\ a4.iter = r.iter /\ a4.groups = r.groups
       /\ a4.masked = (r.masked \/ a3.left = 0)
  BY <1>14, ClearMaskIs
<1> HIDE DEF a4, y, z
<1>17. /\ a5 \in Registers /\ a5.tile = r.tile /\ a5.left = r.left - 1
       /\ a5.next = r.next + 1 /\ a5.read = Slot(r.iter + 1) /\ a5.write = Slot(r.next + 1)
       /\ a5.frag = y /\ a5.accum = r.accum /\ a5.iter = r.iter /\ a5.groups = r.groups
       /\ a5.masked = (r.masked \/ a3.left = 0)
  BY <1>9, <1>16, LoadedInto
<1> HIDE DEF a5
<1>18. /\ a6 \in Registers /\ a6.tile = r.tile /\ a6.left = r.left - 1
       /\ a6.next = r.next + 1 /\ a6.read = Slot(r.iter + 1) /\ a6.write = Slot(r.next + 1)
       /\ a6.frag = y /\ a6.accum = r.accum /\ a6.iter = r.iter + 1 /\ a6.groups = r.groups
       /\ a6.masked = (r.masked \/ a3.left = 0)
  BY <1>6, <1>17, Stepped
<1>19. a6 = [a4 EXCEPT !.frag[1] = Loaded(a4.read, 0), !.iter = @ + 1]
  BY <1>16 DEF a5, Load, Step, y, x
<1> HIDE DEF a6
<1>20. /\ a7 \in Registers /\ a7.tile = r.tile /\ a7.left = r.left - 1
       /\ a7.next = r.next + 1 /\ a7.read = Slot(r.iter + 1) /\ a7.write = Slot(r.next + 1)
       /\ a7.frag = y /\ a7.accum = z /\ a7.iter = r.iter + 1 /\ a7.groups = r.groups
       /\ a7.masked = (r.masked \/ a3.left = 0)
  BY <1>9, <1>18, MultipliedInto
<1>21. a7 = Multiplied(a6, 2)
  BY <1>9, <1>18 DEF Multiply, Multiplied, z
<1> HIDE DEF a7
<1> DEFINE label == IF FoldedAt(r.iter + 1) THEN "fold" ELSE "loop"
<1>22. Goes(w, a7, label) /\ label \in Points
  <2>1. Goes(w, a7, IF a7.iter % shape.fold_every = 0 THEN "fold" ELSE "loop")
    BY <1>11, <1>13, <1>15, <1>19, <1>21 DEF SecondHalf, a4
  <2>2. a7.iter % shape.fold_every = 0 <=> FoldedAt(r.iter + 1)
    BY <1>20 DEF FoldedAt, F
  <2> QED
    BY <2>1, <2>2 DEF Points, Looping
<1>23. Only(w) /\ n \in Registers /\ n.pc = label /\ SameAs(n, a7)
  BY <1>20, <1>22, GoesKeeps
<1> HIDE DEF n
<1>24. n.pc \in {"fold", "loop"} /\ (n.pc = "fold" => FoldedAt(r.iter + 1))
  BY <1>23
<1> HIDE DEF label
<1>25. /\ n.tile = r.tile /\ n.left = r.left - 1 /\ n.next = r.next + 1 /\ n.read = Slot(n.iter)
       /\ n.write = Slot(n.next) /\ n.frag[1] = x /\ n.accum = z /\ n.iter = r.iter + 1
       /\ n.groups = r.groups /\ n.masked = (r.masked \/ a3.left = 0)
  BY <1>9, <1>20, <1>23 DEF SameAs
<1>26. CountersOK(n)
  <2>1. n.left = N - n.next /\ n.next = S - 1 + n.iter /\ n.iter <= N /\ n.iter > 0
    <3>1. r.left = N - r.next /\ r.iter < N /\ r.next = S - 1 + r.iter
      BY <1>2
    <3>2. n.left = r.left - 1 /\ n.next = r.next + 1 /\ n.iter = r.iter + 1
      BY <1>25
    <3> HIDE DEF r, N, S
    <3> QED
      BY <1>3, <1>31, <3>1, <3>2
  <2>2. n.masked <=> n.left <= 0
    <3>1. n.left <= 0 <=> r.left <= 0 \/ a3.left = 0
      BY <1>4, <1>14, <1>25
    <3> QED
      BY <1>2, <1>25, <3>1
  <2> QED
    BY <1>24, <1>25, <2>1, <2>2 DEF CountersOK, Clearing, Filling, Looping, HalfWay
<1>27. SlicesOK(n)
  <2>1. z = Accumulated(r.tile, r.iter + 1)
    BY <1>4, <1>5, AccumulatedGrows DEF z
  <2> QED
    BY <1>24, <1>25, <2>1 DEF SlicesOK, Fragment, HalfWay, Hashing, x
<1>28. Sent(n) = Sent(r) /\ Arrived(n) = Arrived(r)
  BY <1>1, <1>24, <1>25 DEF Sent, Arrived, HalfWay
<1>29. GroupsOK(n)
  BY <1>1, <1>24, <1>25, <1>28 DEF GroupsOK, Clearing, Hashing
<1>30. Stays(n, r)
  BY <1>1, <1>24, <1>25 DEF Stays, Epoch, Clearing, Filling, Hashing, Looping
<1> QED
  BY <1>1, <1>23, <1>25, <1>26, <1>27, <1>28, <1>29, <1>30 DEF RegsOK, n, label

-----------------------------------------------------------------------------
(* The fragments a warp loads. *)

(* The slice a warp loads next is among those in the ring. *)
LEMMA Window ==
  ASSUME Typed, NEW r, RegsOK(r), r.pc \in Looping \cup {"first"}
  PROVE  Epoch(r) \in Nat /\ Sent(r) - S <= Epoch(r) /\ Epoch(r) < Arrived(r)
<1>1. r \in Registers /\ CountersOK(r) /\ GroupsOK(r)
  BY DEF RegsOK
<1>2. r.iter \in Nat /\ r.next \in Nat /\ Len(r.groups) \in Nat /\ r.groups \in Seq(CopyGroups)
  BY <1>1, RegistersTyped
<1>3. S \in Nat /\ S >= 2
  BY ShapeTyped
<1>4. r.next = S - 1 + r.iter
  <2>1. r.pc = "first" => r.next = S - 1 /\ r.iter = 0
    BY <1>1 DEF CountersOK, Hashing
  <2>2. r.pc # "first" => r.next = S - 1 + r.iter
    BY <1>1 DEF CountersOK, Looping, Hashing
  <2> HIDE DEF S
  <2> QED
    BY <1>3, <2>1, <2>2
<1>5. Arrived(r) = Sent(r) - Len(r.groups)
  BY DEF Arrived
<1>6. CASE r.pc = "ringsync"
  <2>1. Sent(r) = r.next + 1 /\ Len(r.groups) <= S - 2 /\ Epoch(r) = r.iter
    BY <1>1, <1>6 DEF Sent, HalfWay, GroupsOK, Hashing, Epoch
  <2> HIDE DEF S
  <2> QED
    BY <1>2, <1>3, <1>4, <1>5, <2>1
<1>9. CASE r.pc = "advance"
  <2>1. Sent(r) = r.next + 1 /\ Len(r.groups) <= S - 2 /\ Epoch(r) = r.iter + 1
    BY <1>1, <1>9 DEF Sent, HalfWay, GroupsOK, Hashing, Epoch
  <2>2. Epoch(r) \in Nat
    BY <1>2, <2>1
  <2>3. Sent(r) = S + r.iter /\ Sent(r) \in Nat
    BY <1>2, <1>3, <1>4, <2>1
  <2>4. Arrived(r) \in Int /\ Arrived(r) >= r.iter + 2
    <3>1. Len(r.groups) \in Nat /\ r.iter \in Nat /\ Len(r.groups) <= S - 2
      BY <1>2, <2>1
    <3>2. Arrived(r) = S + r.iter - Len(r.groups)
      BY <1>5, <2>3, <3>1, ShapeTyped
    <3> HIDE DEF S
    <3> QED
      BY <1>3, <3>1, <3>2
  <2> HIDE DEF S
  <2> QED
    BY <1>2, <1>3, <2>1, <2>2, <2>3, <2>4
<1>7. CASE r.pc = "ringwait"
  <2>1. Sent(r) = r.next + 1 /\ Len(r.groups) <= S - 1 /\ Epoch(r) = r.iter
    BY <1>1, <1>7 DEF Sent, HalfWay, GroupsOK, Hashing, Epoch
  <2> HIDE DEF S
  <2> QED
    BY <1>2, <1>3, <1>4, <1>5, <2>1
<1>8. CASE r.pc \in {"first", "loop", "copy", "fold", "drainsync"}
  <2>1. Sent(r) = r.next /\ Len(r.groups) <= S - 2 /\ Epoch(r) = r.iter
    BY <1>1, <1>8 DEF Sent, HalfWay, GroupsOK, Hashing, Epoch
  <2> HIDE DEF S
  <2> QED
    BY <1>2, <1>3, <1>4, <1>5, <2>1
<1> QED
  BY <1>6, <1>7, <1>8, <1>9 DEF Looping

(* Both warps' shares of it are there. *)
LEMMA FragmentLoads ==
  ASSUME Typed, \A v \in Warps : WarpOK(v), SyncOK, NEW w \in Warps, NEW k \in {0, 1},
         warp[w].pc \in Looping \cup {"first"}, Epoch(warp[w]) < N
  PROVE  Loaded(Slot(Epoch(warp[w])), k) = <<<<warp[w].tile, Epoch(warp[w])>>, k>>
<1> DEFINE e == Epoch(warp[w])
           T == warp[w].tile
<1>1. \A v \in Warps : RegsOK(warp[v]) /\ RingOK(v) /\ warp[v].pc \in Points
  BY DEF WarpOK, RegsOK, Registers
<1>2. \A v \in Warps : /\ warp[v].pc \in Looping \cup {"first"} /\ Epoch(warp[v]) = e
                       /\ warp[v].tile = T
  <2>1. \A v \in Warps : warp[v].pc \in Looping \cup {"first"}
    BY <1>1 DEF SyncOK, Warps, Points, Looping, Clearing, Filling, Hashing
  <2> QED
    BY <2>1 DEF SyncOK, Warps
<1>3. N \in Nat /\ e \in Nat /\ e < N /\ e \in 0..(N - 1)
  BY <1>1, <1>2, ShapeTyped, Window
<1>4. \A v \in Warps : ring[Slot(e)][v] = <<T, e>>
  <2> SUFFICES ASSUME NEW v \in Warps
               PROVE  ring[Slot(e)][v] = <<T, e>>
    OBVIOUS
  <2>1. Sent(warp[v]) - S <= e /\ e < Arrived(warp[v]) /\ warp[v].pc \notin Hashing
    BY <1>1, <1>2, Window DEF Looping, Hashing
  <2>2. RingOK(v) /\ warp[v].tile = T
    BY <1>1, <1>2
  <2> HIDE DEF e, T
  <2> QED
    BY <1>3, <2>1, <2>2 DEF RingOK
<1>5. <<T, e>> # Torn
  BY DEF Torn
<1> HIDE DEF e, T
<1>6. ring[Slot(e)][0] = <<T, e>> /\ ring[Slot(e)][1] = <<T, e>>
  BY <1>4 DEF Warps
<1>7. Loaded(Slot(e), k) = <<<<T, e>>, k>>
  BY <1>5, <1>6 DEF Loaded
<1> QED
  BY <1>7 DEF e, T

-----------------------------------------------------------------------------
(* What a step leaves of the rest. *)

LEMMA SyncStays ==
  ASSUME SyncOK, NEW w \in Warps, Only(w), Stays(warp'[w], warp[w]),
         \A v \in Warps : warp[v].pc \in Points /\ warp'[v].pc \in Points
  PROVE  SyncOK'
<1>1. CASE w = 0
  <2>1. warp'[1] = warp[1]
    BY <1>1 DEF Only, Warps
  <2>2. warp'[0].pc \in Looping \cup {"first"} => warp[0].pc \in Looping \cup {"first"}
    BY <1>1 DEF Stays, Warps, Points, Looping, Clearing, Filling, Hashing
  <2>3. SyncOK /\ Stays(warp'[0], warp[0])
    BY <1>1
  <2> QED
    BY <2>1, <2>2, <2>3 DEF SyncOK, Stays, Epoch
<1>2. CASE w = 1
  <2>1. warp'[0] = warp[0]
    BY <1>2 DEF Only, Warps
  <2>2. warp[0].pc \in Looping \cup {"first"} => warp[1].pc \in Looping \cup {"first"}
    BY <1>2 DEF SyncOK, Warps, Points, Looping, Clearing, Filling, Hashing
  <2>3. SyncOK /\ Stays(warp'[1], warp[1])
    BY <1>2
  <2> QED
    BY <2>1, <2>2, <2>3 DEF SyncOK, Stays, Epoch
<1> QED
  BY <1>1, <1>2 DEF Warps

LEMMA RingStays ==
  ASSUME shape' = shape, NEW v \in Warps, RingOK(v), \A s : ring'[s][v] = ring[s][v],
         warp'[v].tile = warp[v].tile, warp'[v].pc \in Hashing <=> warp[v].pc \in Hashing,
         Sent(warp'[v]) = Sent(warp[v]), Arrived(warp'[v]) = Arrived(warp[v])
  PROVE  RingOK(v)'
<1>1. N' = N /\ S' = S /\ (\A j : Slot(j)' = Slot(j))
  BY DEF N, S, Slot
<1>2. (\A r : Sent(r)' = Sent(r)) /\ (\A r : Arrived(r)' = Arrived(r))
  BY DEF Sent, Arrived
<1> QED
  BY <1>1, <1>2 DEF RingOK

LEMMA TranscriptsStay ==
  ASSUME shape' = shape, jp_sh' = jp_sh, NEW v \in Warps, TranscriptsOK(v),
         Stays(warp'[v], warp[v]), warp[v].pc \in Points, warp'[v].pc \in Points,
         warp'[v].pc = "clearsync" => warp[v].pc = "clearsync",
         Folded(warp'[v]) = Folded(warp[v])
  PROVE  TranscriptsOK(v)'
<1>1. \A t, c : TranscriptAfter(t, c)' = TranscriptAfter(t, c)
  BY DEF TranscriptAfter
<1>2. \A t : Transcript(t)' = Transcript(t)
  BY <1>1 DEF Transcript
<1>3. \A r : Folded(r)' = Folded(r)
  BY DEF Folded, F
<1>4. warp'[v].pc \in Filling \cup {"first"} \cup Looping => warp[v].pc \in Filling \cup {"first"} \cup Looping
  BY DEF Stays, Points, Looping, Clearing, Filling, Hashing
<1> QED
  BY <1>1, <1>2, <1>3, <1>4 DEF TranscriptsOK, Stays

LEMMA OthersStay ==
  ASSUME NEW w \in Warps, Only(w), shape' = shape, NEW v \in Warps \ {w}
  PROVE  /\ RegsOK(warp[v]) => RegsOK(warp[v])'
         /\ RingOK(v) /\ (\A s : ring'[s][v] = ring[s][v]) => RingOK(v)'
         /\ TranscriptsOK(v) /\ jp_sh' = jp_sh /\ warp[v].pc \in Points => TranscriptsOK(v)'
<1>1. warp'[v] = warp[v] /\ v \in Warps
  BY DEF Only
<1>2. RegsOK(warp[v]) => RegsOK(warp[v])'
  BY <1>1, RegsNext
<1>3. RingOK(v) /\ (\A s : ring'[s][v] = ring[s][v]) => RingOK(v)'
  BY <1>1, RingStays
<1>4. Stays(warp'[v], warp[v])
  BY <1>1 DEF Stays
<1>5. TranscriptsOK(v) /\ jp_sh' = jp_sh /\ warp[v].pc \in Points => TranscriptsOK(v)'
  BY <1>1, <1>4, TranscriptsStay
<1> QED
  BY <1>2, <1>3, <1>5

LEMMA HashesStay ==
  FoldsSeeTheirSlices /\ shape' = shape /\ hashes' = hashes => FoldsSeeTheirSlices'
<1> SUFFICES ASSUME FoldsSeeTheirSlices, shape' = shape, hashes' = hashes
             PROVE  FoldsSeeTheirSlices'
  OBVIOUS
<1>1. \A t : Transcript(t)' = Transcript(t)
  BY DEF Transcript, TranscriptAfter
<1> QED
  BY <1>1 DEF FoldsSeeTheirSlices

TypedRing == ring \in [0..(MaxStages - 1) -> [Warps -> Cells]]
TypedWords == \A t \in Jackpots : jp_sh[t] = [q \in 0..(Words - 1) |-> jp_sh[t][q]]

(* What is left to show of a step of one warp. *)
LEMMA WarpStep ==
  ASSUME IInv, NEW w \in Warps, shape' = shape, Only(w), RegsOK(warp'[w]), Stays(warp'[w], warp[w]),
         TypedRing', \A v \in Warps \ {w} : \A s : ring'[s][v] = ring[s][v], RingOK(w)',
         TypedWords', \A v \in Warps : TranscriptsOK(v)', FoldsSeeTheirSlices'
  PROVE  IInv'
<1>1. Typed'
  BY DEF IInv, Typed, TypedRing, TypedWords, Only, N, S, F, FoldedAt
<1>2. \A v \in Warps : WarpOK(v)'
  <2> SUFFICES ASSUME NEW v \in Warps
               PROVE  WarpOK(v)'
    OBVIOUS
  <2>1. CASE v = w
    <3>1. RegsOK(warp[w])'
      BY RegsNext
    <3> QED
      BY <2>1, <3>1 DEF WarpOK
  <2>2. CASE v # w
    <3>1. WarpOK(v) /\ v \in Warps \ {w} /\ (\A s : ring'[s][v] = ring[s][v])
      BY <2>2 DEF IInv
    <3> QED
      BY <3>1, OthersStay DEF WarpOK
  <2> QED
    BY <2>1, <2>2
<1>3. SyncOK'
  <2>1. \A v \in Warps : warp[v].pc \in Points /\ warp'[v].pc \in Points
    <3>1. \A v \in Warps : warp[v].pc \in Points
      BY DEF IInv, WarpOK, RegsOK, Registers
    <3>2. warp'[w].pc \in Points
      BY DEF RegsOK, Registers
    <3> QED
      BY <3>1, <3>2 DEF Only
  <2> QED
    BY <2>1, SyncStays DEF IInv
<1> QED
  BY <1>1, <1>2, <1>3 DEF IInv

(* A step that changes only registers, neither what is in the ring nor what is folded. *)
LEMMA QuietStep ==
  ASSUME IInv, NEW w \in Warps, Only(w), RegsOK(warp'[w]), Stays(warp'[w], warp[w]),
         UNCHANGED <<shape, ring, jp_sh, hashes>>, warp'[w].pc # "clearsync",
         Sent(warp'[w]) = Sent(warp[w]), Arrived(warp'[w]) = Arrived(warp[w]),
         Folded(warp'[w]) = Folded(warp[w])
  PROVE  IInv'
<1>1. \A v \in Warps : WarpOK(v) /\ warp[v].pc \in Points
  BY DEF IInv, WarpOK, RegsOK, Registers
<1>2. TypedRing' /\ TypedWords'
  BY DEF IInv, Typed, TypedRing, TypedWords
<1>3. RingOK(w)'
  BY <1>1, RingStays DEF WarpOK, Stays
<1>4. \A v \in Warps : TranscriptsOK(v)'
  <2>1. TranscriptsOK(w)'
    <3>1. warp'[w].pc \in Points
      BY DEF RegsOK, Registers
    <3> QED
      BY <1>1, <3>1, TranscriptsStay DEF WarpOK
  <2>2. \A v \in Warps \ {w} : TranscriptsOK(v)'
    BY <1>1, OthersStay DEF WarpOK
  <2> QED
    BY <2>1, <2>2
<1>5. FoldsSeeTheirSlices'
  BY HashesStay DEF IInv
<1> QED
  BY <1>2, <1>3, <1>4, <1>5, WarpStep

LEMMA WaitStep ==
  ASSUME IInv, NEW w \in Warps, PrologueWait(w) \/ RingWait(w) \/ Drain(w)
  PROVE  IInv'
<1> DEFINE r == warp[w]
           n == warp'[w]
<1>1. Typed /\ RegsOK(r) /\ r \in Registers
  BY DEF IInv, WarpOK, RegsOK
<1>2. PICK label \in Points :
        /\ Goes(w, r, label) /\ <<r.pc, label>> \in Walks /\ UNCHANGED <<shape, ring, jp_sh, hashes>>
        /\ r.pc \in {"prologuewait", "ringwait"} => Len(r.groups) <= S - 2
        /\ r.pc = "loop" => r.groups = <<>> /\ r.left <= -S + 1
        /\ <<r.pc, label>> \in {<<"prologuewait", "prologuesync">>, <<"ringwait", "ringsync">>,
                                <<"loop", "drainsync">>}
  <2>1. CASE PrologueWait(w)
    <3>1. /\ Goes(w, r, "prologuesync") /\ r.pc = "prologuewait" /\ Len(r.groups) <= S - 2
          /\ UNCHANGED <<shape, ring, jp_sh, hashes>>
      BY <2>1 DEF PrologueWait, gmem_wait, At, KeptByWait, S
    <3> QED
      BY <3>1 DEF Walks, Points, Filling
  <2>2. CASE RingWait(w)
    <3>1. /\ Goes(w, r, "ringsync") /\ r.pc = "ringwait" /\ Len(r.groups) <= S - 2
          /\ UNCHANGED <<shape, ring, jp_sh, hashes>>
      BY <2>2 DEF RingWait, gmem_wait, At, KeptByWait, S
    <3> QED
      BY <3>1 DEF Walks, Points, Looping
  <2>3. CASE Drain(w)
    <3>1. /\ Goes(w, r, "drainsync") /\ r.pc = "loop" /\ r.groups = <<>> /\ r.left <= -S + 1
          /\ UNCHANGED <<shape, ring, jp_sh, hashes>>
      BY <2>3 DEF Drain, At, S
    <3> QED
      BY <3>1 DEF Walks, Points, Looping
  <2> QED
    BY <2>1, <2>2, <2>3
<1>3. Only(w) /\ n \in Registers /\ n.pc = label /\ SameAs(n, r)
  BY <1>1, <1>2, GoesKeeps
<1>4. RegsOK(n)
  BY <1>1, <1>2, <1>3, WalkKeeps
<1> HIDE DEF r, n
<1>5. n.pc # "clearsync" /\ Stays(n, r) /\ Folded(n) = Folded(r)
  BY <1>2, <1>3 DEF Stays, SameAs, Epoch, Folded, Clearing, Filling, Hashing
<1>6. Sent(n) = Sent(r) /\ Arrived(n) = Arrived(r)
  BY <1>2, <1>3 DEF SameAs, Sent, Arrived, HalfWay
<1> QED
  BY <1>2, <1>3, <1>4, <1>5, <1>6, QuietStep DEF r, n

LEMMA FirstLoadStep == ASSUME IInv, NEW w \in Warps, FirstLoad(w) PROVE IInv'
<1> DEFINE r == warp[w]
<1>1. Typed /\ RegsOK(r) /\ CountersOK(r) /\ r.pc = "first" /\ (\A v \in Warps : WarpOK(v)) /\ SyncOK
  BY DEF IInv, WarpOK, RegsOK, FirstLoad, At
<1>2. r.iter = 0 /\ r.read = Slot(r.iter) /\ Epoch(r) = r.iter
  BY <1>1 DEF CountersOK, Hashing, Filling, Epoch
<1>3. Epoch(r) < N
  BY <1>1, <1>2, ShapeTyped
<1>4. Loaded(r.read, 0) = Fragment(r, 0)
  BY <1>1, <1>2, <1>3, FragmentLoads DEF Fragment
<1>5. UNCHANGED <<shape, ring, jp_sh, hashes>>
  BY DEF FirstLoad
<1> QED
  BY <1>1, <1>4, <1>5, FirstLoadKeeps, QuietStep

LEMMA FirstHalfStep == ASSUME IInv, NEW w \in Warps, FirstHalf(w) PROVE IInv'
<1> DEFINE r == warp[w]
<1>1. Typed /\ RegsOK(r) /\ CountersOK(r) /\ r.pc = "loop" /\ (\A v \in Warps : WarpOK(v)) /\ SyncOK
  BY DEF IInv, WarpOK, RegsOK, FirstHalf, At
<1>2. r.read = Slot(r.iter) /\ Epoch(r) = r.iter
  BY <1>1 DEF CountersOK, Hashing, Epoch
<1>3. r.iter < N => Loaded(r.read, 1) = Fragment(r, 1)
  BY <1>1, <1>2, FragmentLoads DEF Fragment, Looping
<1>4. UNCHANGED <<shape, ring, jp_sh, hashes>>
  BY DEF FirstHalf
<1> QED
  BY <1>1, <1>3, <1>4, FirstHalfKeeps, QuietStep

LEMMA SecondHalfStep == ASSUME IInv, NEW w \in Warps, SecondHalf(w) PROVE IInv'
<1> DEFINE r == warp[w]
           n == warp'[w]
<1>1. Typed /\ RegsOK(r) /\ CountersOK(r) /\ r.pc = "advance" /\ (\A v \in Warps : WarpOK(v)) /\ SyncOK
  BY DEF IInv, WarpOK, RegsOK, SecondHalf, At
<1>2. Epoch(r) = r.iter + 1 /\ r.iter \in Nat /\ r.iter + 1 \in Nat
  <2>1. r.iter \in Nat
    BY <1>1, RegistersTyped DEF RegsOK
  <2> QED
    BY <1>1, <2>1 DEF Epoch
<1>3. r.iter + 1 < N => Loaded(Slot(r.iter + 1), 0) = <<<<r.tile, r.iter + 1>>, 0>>
  BY <1>1, <1>2, FragmentLoads DEF Looping
<1>4. Loaded(Slot(r.iter + 1), 0) \in Fragments
  BY <1>1, <1>2, SlotTyped, LoadedTyped
<1>5. UNCHANGED <<shape, ring, jp_sh, hashes>>
  BY DEF SecondHalf
<1>6. /\ Only(w) /\ RegsOK(n) /\ Stays(n, r) /\ Sent(n) = Sent(r) /\ Arrived(n) = Arrived(r)
      /\ n.iter = r.iter + 1 /\ n.pc = IF FoldedAt(r.iter + 1) THEN "fold" ELSE "loop"
  BY <1>1, <1>3, <1>4, SecondHalfKeeps
<1>7. Folded(n) = Folded(r)
  <2>1. F \in Nat \ {0}
    BY <1>1, ShapeTyped
  <2>2. (r.iter + 1) \div F = IF FoldedAt(r.iter + 1) THEN (r.iter \div F) + 1 ELSE r.iter \div F
    BY <1>2, <2>1, NextDivision DEF FoldedAt
  <2>3. r.iter \div F \in Nat
    BY <1>2, <2>1, Division
  <2>4. Folded(r) = r.iter \div F
    BY <1>1 DEF Folded
  <2>5. Folded(n) = IF FoldedAt(r.iter + 1) THEN (r.iter + 1) \div F - 1 ELSE (r.iter + 1) \div F
    BY <1>6 DEF Folded
  <2> QED
    BY <2>2, <2>3, <2>4, <2>5
<1>8. n.pc # "clearsync"
  BY <1>6
<1> QED
  BY <1>5, <1>6, <1>7, <1>8, QuietStep

LEMMA ArrivedBounds ==
  ASSUME NEW r, RegsOK(r), r.pc \notin Hashing
  PROVE  /\ Sent(r) \in Nat /\ Arrived(r) \in Nat /\ Arrived(r) <= Sent(r)
         /\ r.groups # <<>> => Arrived(r) < Sent(r)
<1>1. r \in Registers /\ GroupsOK(r)
  BY DEF RegsOK
<1>2. r.next \in Nat /\ Len(r.groups) \in Nat /\ r.groups \in Seq(CopyGroups)
  BY <1>1, RegistersTyped
<1>3. Sent(r) \in Nat
  BY <1>2 DEF Sent
<1>4. Arrived(r) = Sent(r) - Len(r.groups) /\ Arrived(r) >= 0
  BY <1>1 DEF Arrived, GroupsOK
<1>5. r.groups # <<>> => Len(r.groups) > 0
  BY <1>2, EmptySeq
<1> QED
  BY <1>2, <1>3, <1>4, <1>5

(* A write into the stage of a slice leaves the slices less than a ring away. *)
LEMMA StageWritten ==
  ASSUME Typed, NEW w \in Warps, NEW s \in Nat, NEW x \in Cells,
         ring' = ring \/ ring' = [ring EXCEPT ![Slot(s)][w] = x]
  PROVE  /\ TypedRing'
         /\ \A v \in Warps \ {w} : \A q : ring'[q][v] = ring[q][v]
         /\ \A j \in Nat : j # s /\ j - s < S /\ s - j < S => ring'[Slot(j)][w] = ring[Slot(j)][w]
<1>1. Slot(s) \in 0..(MaxStages - 1) /\ ring \in [0..(MaxStages - 1) -> [Warps -> Cells]]
  BY SlotTyped DEF Typed
<1>2. TypedRing'
  BY <1>1 DEF TypedRing
<1>3. \A v \in Warps \ {w} : \A q : ring'[q][v] = ring[q][v]
  <2> SUFFICES ASSUME NEW v \in Warps \ {w}, NEW q, ring' = [ring EXCEPT ![Slot(s)][w] = x]
               PROVE  ring'[q][v] = ring[q][v]
    OBVIOUS
  <2>1. CASE q \in 0..(MaxStages - 1)
    BY <1>1, <2>1
  <2>2. CASE q \notin 0..(MaxStages - 1)
    BY <1>1, <2>2
  <2> QED
    BY <2>1, <2>2
<1>4. ASSUME NEW j \in Nat, j # s, j - s < S, s - j < S
      PROVE  ring'[Slot(j)][w] = ring[Slot(j)][w]
  <2>1. Slot(j) # Slot(s) /\ Slot(j) \in 0..(MaxStages - 1)
    BY <1>4, SlotTyped, SlotsApart
  <2> QED
    BY <1>1, <2>1
<1> QED
  BY <1>2, <1>3, <1>4

(* A copy is issued into the stage whose slice is out of the window, *)
LEMMA RingIssued ==
  ASSUME Typed, shape' = shape, NEW w \in Warps, RegsOK(warp[w]), RingOK(w),
         warp'[w].tile = warp[w].tile, warp[w].pc \notin Hashing, warp'[w].pc \notin Hashing,
         Sent(warp'[w]) = Sent(warp[w]) + 1, Arrived(warp'[w]) = Arrived(warp[w]),
         ring' = ring \/ ring' = [ring EXCEPT ![Slot(Sent(warp[w]))][w] = Torn]
  PROVE  TypedRing' /\ (\A v \in Warps \ {w} : \A q : ring'[q][v] = ring[q][v]) /\ RingOK(w)'
<1> DEFINE r == warp[w]
           n == warp'[w]
<1>1. Sent(r) \in Nat /\ Arrived(r) \in Nat /\ Arrived(r) <= Sent(r)
  BY ArrivedBounds
<1>2. S \in Nat /\ N \in Nat
  BY ShapeTyped
<1>3. Torn \in Cells
  BY DEF Cells
<1>4. /\ TypedRing' /\ (\A v \in Warps \ {w} : \A q : ring'[q][v] = ring[q][v])
      /\ \A j \in Nat : j # Sent(r) /\ j - Sent(r) < S /\ Sent(r) - j < S =>
           ring'[Slot(j)][w] = ring[Slot(j)][w]
  BY <1>1, <1>3, StageWritten
<1>5. ASSUME NEW j \in 0..(N - 1), Sent(n) - S <= j, j < Arrived(n)
      PROVE  ring'[Slot(j)][w] = <<n.tile, j>>
  <2> DEFINE s == Sent(r)
             a == Arrived(r)
  <2>1. s + 1 - S <= j /\ j < a
    BY <1>1, <1>2, <1>5
  <2> HIDE DEF s, a, S, N
  <2>2. s \in Nat /\ a \in Nat /\ a <= s
    BY <1>1 DEF s, a
  <2>3. j \in Nat /\ j # s /\ j - s < S /\ s - j < S /\ s - S <= j
    BY <1>2, <2>1, <2>2
  <2>4. ring'[Slot(j)][w] = ring[Slot(j)][w]
    BY <1>4, <2>3 DEF s
  <2>5. ring[Slot(j)][w] = <<r.tile, j>>
    BY <2>1, <2>3 DEF RingOK, s, a
  <2> QED
    BY <2>4, <2>5
<1>6. N' = N /\ S' = S /\ (\A j : Slot(j)' = Slot(j))
  BY DEF N, S, Slot
<1>7. (\A x : Sent(x)' = Sent(x)) /\ (\A x : Arrived(x)' = Arrived(x))
  BY DEF Sent, Arrived
<1>8. RingOK(w)'
  BY <1>5, <1>6, <1>7 DEF RingOK
<1> QED
  BY <1>4, <1>8

(* and lands in the stage of its own. *)
LEMMA RingLanded ==
  ASSUME Typed, shape' = shape, NEW w \in Warps, RegsOK(warp[w]), RingOK(w), warp[w].groups # <<>>,
         warp'[w].tile = warp[w].tile, warp[w].pc \notin Hashing, warp'[w].pc \notin Hashing,
         Sent(warp'[w]) = Sent(warp[w]), Arrived(warp'[w]) = Arrived(warp[w]) + 1, NEW x,
         x \in IF Arrived(warp[w]) < N THEN {<<warp[w].tile, Arrived(warp[w])>>} ELSE {Zeros, Nothing},
         ring' = IF x = Nothing THEN ring ELSE [ring EXCEPT ![Slot(Arrived(warp[w]))][w] = x]
  PROVE  TypedRing' /\ (\A v \in Warps \ {w} : \A q : ring'[q][v] = ring[q][v]) /\ RingOK(w)'
<1> DEFINE r == warp[w]
           n == warp'[w]
<1>1. Sent(r) \in Nat /\ Arrived(r) \in Nat /\ Arrived(r) < Sent(r)
  BY ArrivedBounds
<1>2. S \in Nat /\ N \in Nat
  BY ShapeTyped
<1>3. r.tile \in Nat
  BY RegistersTyped DEF RegsOK
<1>4. x = Nothing \/ x \in Cells
  BY <1>1, <1>3 DEF Cells, Slices
<1>5. /\ TypedRing' /\ (\A v \in Warps \ {w} : \A q : ring'[q][v] = ring[q][v])
      /\ \A j \in Nat : j # Arrived(r) /\ j - Arrived(r) < S /\ Arrived(r) - j < S =>
           ring'[Slot(j)][w] = ring[Slot(j)][w]
  <2>1. CASE x = Nothing
    <3>1. ring' = ring /\ Torn \in Cells
      BY <2>1 DEF Cells
    <3> QED
      BY <1>1, <3>1, StageWritten
  <2>2. CASE x # Nothing
    BY <1>1, <1>4, <2>2, StageWritten
  <2> QED
    BY <2>1, <2>2
<1>6. Arrived(r) < N => ring'[Slot(Arrived(r))][w] = <<r.tile, Arrived(r)>>
  <2> SUFFICES ASSUME Arrived(r) < N
               PROVE  ring'[Slot(Arrived(r))][w] = <<r.tile, Arrived(r)>>
    OBVIOUS
  <2>1. x = <<r.tile, Arrived(r)>> /\ x # Nothing
    BY DEF Nothing
  <2>2. Slot(Arrived(r)) \in 0..(MaxStages - 1) /\ ring \in [0..(MaxStages - 1) -> [Warps -> Cells]]
    BY <1>1, SlotTyped DEF Typed
  <2> QED
    BY <2>1, <2>2
<1>7. ASSUME NEW j \in 0..(N - 1), Sent(n) - S <= j, j < Arrived(n)
      PROVE  ring'[Slot(j)][w] = <<n.tile, j>>
  <2> DEFINE s == Sent(r)
             a == Arrived(r)
  <2>1. s - S <= j /\ j < a + 1
    BY <1>7
  <2> HIDE DEF s, a, S, N
  <2>2. s \in Nat /\ a \in Nat /\ a < s
    BY <1>1 DEF s, a
  <2>3. CASE j = a
    BY <1>2, <1>6, <2>2, <2>3 DEF a
  <2>4. CASE j # a
    <3>1. j \in Nat /\ j - a < S /\ a - j < S /\ j < a
      BY <1>2, <2>1, <2>2, <2>4
    <3>2. ring'[Slot(j)][w] = ring[Slot(j)][w]
      BY <1>5, <2>4, <3>1 DEF a
    <3>3. ring[Slot(j)][w] = <<r.tile, j>>
      BY <2>1, <3>1 DEF RingOK, s, a
    <3> QED
      BY <3>2, <3>3
  <2> QED
    BY <2>3, <2>4
<1>8. N' = N /\ S' = S /\ (\A j : Slot(j)' = Slot(j))
  BY DEF N, S, Slot
<1>9. (\A y : Sent(y)' = Sent(y)) /\ (\A y : Arrived(y)' = Arrived(y))
  BY DEF Sent, Arrived
<1>10. RingOK(w)'
  BY <1>7, <1>8, <1>9 DEF RingOK
<1> QED
  BY <1>5, <1>10

(* The steps that touch the ring. *)
LEMMA RingStep ==
  ASSUME IInv, NEW w \in Warps, shape' = shape, jp_sh' = jp_sh, hashes' = hashes,
         Only(w), RegsOK(warp'[w]), Stays(warp'[w], warp[w]), Folded(warp'[w]) = Folded(warp[w]),
         warp'[w].pc # "clearsync",
         TypedRing' /\ (\A v \in Warps \ {w} : \A q : ring'[q][v] = ring[q][v]) /\ RingOK(w)'
  PROVE  IInv'
<1>1. \A v \in Warps : WarpOK(v) /\ warp[v].pc \in Points
  BY DEF IInv, WarpOK, RegsOK, Registers
<1>2. TypedWords'
  BY DEF IInv, Typed, TypedWords
<1>3. \A v \in Warps : TranscriptsOK(v)'
  <2>1. TranscriptsOK(w)'
    <3>1. warp'[w].pc \in Points
      BY DEF RegsOK, Registers
    <3> QED
      BY <1>1, <3>1, TranscriptsStay DEF WarpOK
  <2>2. \A v \in Warps \ {w} : TranscriptsOK(v)'
    BY <1>1, OthersStay DEF WarpOK
  <2> QED
    BY <2>1, <2>2
<1>4. FoldsSeeTheirSlices'
  BY HashesStay DEF IInv
<1> QED
  BY <1>2, <1>3, <1>4, WarpStep

LEMMA PrologueStep == ASSUME IInv, NEW w \in Warps, Prologue(w) PROVE IInv'
<1> DEFINE r == warp[w]
           n == warp'[w]
<1>1. Typed /\ RegsOK(r) /\ RingOK(w) /\ r \in Registers
  BY DEF IInv, WarpOK, RegsOK
<1>2. /\ Only(w) /\ RegsOK(n) /\ n.pc \in {"prologue", "prologuewait"} /\ r.pc = "prologue"
      /\ n.tile = r.tile /\ n.iter = 0 /\ r.iter = 0
      /\ Sent(n) = Sent(r) + 1 /\ Arrived(n) = Arrived(r) /\ r.write = Slot(Sent(r))
  BY <1>1, FillKeeps
<1>3. /\ shape' = shape /\ jp_sh' = jp_sh /\ hashes' = hashes
      /\ ring' = [ring EXCEPT ![clear_mask(r).write][w] = Torn]
  BY DEF Prologue, Issued
<1>4. clear_mask(r).write = r.write
  BY <1>1, ClearMaskIs
<1>5. r.pc \notin Hashing /\ n.pc \notin Hashing /\ n.pc # "clearsync"
  BY <1>2 DEF Hashing
<1>6. Stays(n, r) /\ Folded(n) = Folded(r)
  BY <1>2 DEF Stays, Folded, Clearing, Filling, Hashing, Looping
<1>7. TypedRing' /\ (\A v \in Warps \ {w} : \A q : ring'[q][v] = ring[q][v]) /\ RingOK(w)'
  <2>1. ring' = [ring EXCEPT ![Slot(Sent(r))][w] = Torn]
    BY <1>2, <1>3, <1>4
  <2> QED
    BY <1>1, <1>2, <1>3, <1>5, <2>1, RingIssued
<1> QED
  BY <1>2, <1>3, <1>5, <1>6, <1>7, RingStep

LEMMA CopyStep == ASSUME IInv, NEW w \in Warps, Copy(w) PROVE IInv'
<1> DEFINE r == warp[w]
           n == warp'[w]
<1>1. Typed /\ RegsOK(r) /\ RingOK(w)
  BY DEF IInv, WarpOK
<1>2. /\ Only(w) /\ RegsOK(n) /\ Stays(n, r) /\ Sent(n) = Sent(r) + 1 /\ Arrived(n) = Arrived(r)
      /\ Folded(n) = Folded(r) /\ r.pc = "copy" /\ n.pc = "ringwait" /\ r.write = Slot(Sent(r))
  BY <1>1, CopyKeeps
<1>3. /\ shape' = shape /\ jp_sh' = jp_sh /\ hashes' = hashes
      /\ ring' = ring \/ ring' = [ring EXCEPT ![r.write][w] = Torn]
  BY DEF Copy, Issued
<1>4. r.pc \notin Hashing /\ n.pc \notin Hashing /\ n.pc # "clearsync" /\ n.tile = r.tile
  BY <1>2 DEF Hashing, Stays
<1>5. TypedRing' /\ (\A v \in Warps \ {w} : \A q : ring'[q][v] = ring[q][v]) /\ RingOK(w)'
  <2>1. ring' = ring \/ ring' = [ring EXCEPT ![Slot(Sent(r))][w] = Torn]
    BY <1>2, <1>3
  <2> QED
    BY <1>1, <1>2, <1>3, <1>4, <2>1, RingIssued
<1> QED
  BY <1>2, <1>3, <1>4, <1>5, RingStep

LEMMA LandStep == ASSUME IInv, NEW w \in Warps, Land(w) PROVE IInv'
<1> DEFINE r == warp[w]
           n == warp'[w]
           g == Head(r.groups)
<1>1. Typed /\ RegsOK(r) /\ RingOK(w)
  BY DEF IInv, WarpOK
<1>2. /\ Only(w) /\ RegsOK(n) /\ Stays(n, r) /\ Sent(n) = Sent(r) /\ Arrived(n) = Arrived(r) + 1
      /\ Folded(n) = Folded(r) /\ r.pc = n.pc /\ r.pc \notin Clearing \cup Hashing \cup {"drainsync"}
      /\ g.stage = Slot(Arrived(r))
      /\ g.value \in IF Arrived(r) < N THEN {<<r.tile, Arrived(r)>>} ELSE {Zeros, Nothing}
  BY <1>1, LandKeeps
<1>3. /\ shape' = shape /\ jp_sh' = jp_sh /\ hashes' = hashes /\ r.groups # <<>>
      /\ ring' = IF g.value = Nothing THEN ring ELSE [ring EXCEPT ![g.stage][w] = g.value]
  BY DEF Land
<1>4. r.pc \notin Hashing /\ n.pc \notin Hashing /\ n.pc # "clearsync" /\ n.tile = r.tile
  BY <1>2 DEF Hashing, Stays, Clearing
<1>5. TypedRing' /\ (\A v \in Warps \ {w} : \A q : ring'[q][v] = ring[q][v]) /\ RingOK(w)'
  <2> DEFINE x == g.value
  <2>1. /\ ring' = IF x = Nothing THEN ring ELSE [ring EXCEPT ![Slot(Arrived(r))][w] = x]
        /\ x \in IF Arrived(r) < N THEN {<<r.tile, Arrived(r)>>} ELSE {Zeros, Nothing}
    BY <1>2, <1>3
  <2> HIDE DEF x
  <2> QED
    BY <1>1, <1>2, <1>3, <1>4, <2>1, RingLanded
<1> QED
  BY <1>2, <1>3, <1>4, <1>5, RingStep

(* The steps that touch the transcripts and the hashes. *)

LEMMA WalkStep ==
  ASSUME IInv, NEW w \in Warps, NEW label \in Points, Goes(w, warp[w], label),
         <<warp[w].pc, label>> \in {<<"clear", "clearsync">>, <<"fold", "loop">>, <<"hash", "tilesync">>},
         shape' = shape, ring' = ring
  PROVE  /\ Only(w) /\ RegsOK(warp'[w]) /\ warp'[w].pc = label /\ SameAs(warp'[w], warp[w])
         /\ Stays(warp'[w], warp[w])
         /\ TypedRing' /\ (\A v \in Warps \ {w} : \A q : ring'[q][v] = ring[q][v]) /\ RingOK(w)'
<1> DEFINE r == warp[w]
           n == warp'[w]
<1>1. Typed /\ RegsOK(r) /\ r \in Registers /\ RingOK(w)
  BY DEF IInv, WarpOK, RegsOK
<1>2. Only(w) /\ n \in Registers /\ n.pc = label /\ SameAs(n, r)
  BY <1>1, GoesKeeps
<1>3. RegsOK(n)
  <2>1. <<r.pc, n.pc>> \in Walks /\ r.pc \notin {"prologuewait", "ringwait", "loop"}
    BY <1>2 DEF Walks
  <2> QED
    BY <1>1, <1>2, <2>1, WalkKeeps
<1>4. TypedRing' /\ (\A v \in Warps \ {w} : \A q : ring'[q][v] = ring[q][v])
  BY <1>1 DEF Typed, TypedRing
<1> HIDE DEF r, n
<1>5. Stays(n, r)
  BY <1>2 DEF Stays, SameAs, Epoch, Clearing, Filling, Hashing, r
<1>6. Sent(n) = Sent(r) /\ Arrived(n) = Arrived(r)
  BY <1>2 DEF SameAs, Sent, Arrived, HalfWay, r
<1>7. RingOK(w)'
  BY <1>1, <1>5, <1>6, RingStays DEF Stays, r, n
<1> QED
  BY <1>2, <1>3, <1>4, <1>5, <1>7 DEF r, n

LEMMA ClearStep == ASSUME IInv, NEW w \in Warps, Clear(w) PROVE IInv'
<1> DEFINE own(v) == ByStride(v, 4 * (Words + 1) - 1)
<1>1. /\ warp[w].pc = "clear" /\ Goes(w, warp[w], "clearsync") /\ UNCHANGED <<shape, ring, hashes>>
      /\ jp_sh' = [t \in Jackpots |-> [q \in 0..(Words - 1) |->
                     IF t * (Words + 1) + q \in own(w) THEN <<>> ELSE jp_sh[t][q]]]
  BY DEF Clear, At
<1>2. "clearsync" \in Points
  BY DEF Points, Clearing
<1>3. /\ Only(w) /\ RegsOK(warp'[w]) /\ warp'[w].pc = "clearsync" /\ Stays(warp'[w], warp[w])
      /\ TypedRing' /\ (\A v \in Warps \ {w} : \A q : ring'[q][v] = ring[q][v]) /\ RingOK(w)'
  BY <1>1, <1>2, WalkStep
<1> HIDE DEF own
<1>4. \A t \in Jackpots, q \in 0..(Words - 1) :
        jp_sh'[t][q] = IF t * (Words + 1) + q \in own(w) THEN <<>> ELSE jp_sh[t][q]
  BY <1>1
<1>5. TypedWords'
  <2> SUFFICES ASSUME NEW t \in Jackpots
               PROVE  jp_sh'[t] = [q \in 0..(Words - 1) |-> jp_sh'[t][q]]
    BY DEF TypedWords
  <2> QED
    BY <1>1
<1>6. ASSUME NEW v \in Warps
      PROVE  TranscriptsOK(v)'
  <2>1. warp[v].pc \in Clearing
    BY <1>1, <1>6 DEF IInv, SyncOK, Warps, Clearing
  <2>2. warp'[v].pc \in Clearing
    BY <1>3, <2>1 DEF Only, Clearing
  <2>3. warp'[v].pc = "clearsync" =>
          \A t \in Jackpots, q \in 0..(Words - 1) : t * (Words + 1) + q \in own(v) => jp_sh'[t][q] = <<>>
    <3>1. CASE v = w
      BY <1>4, <3>1
    <3>2. CASE v # w
      <4>1. warp'[v].pc = "clearsync" =>
              \A t \in Jackpots, q \in 0..(Words - 1) : t * (Words + 1) + q \in own(v) => jp_sh[t][q] = <<>>
        BY <1>3, <3>2 DEF IInv, WarpOK, TranscriptsOK, Only, own
      <4> QED
        BY <1>4, <4>1
    <3> QED
      BY <3>1, <3>2
  <2> QED
    BY <2>2, <2>3 DEF TranscriptsOK, Clearing, Filling, Looping, Hashing, own
<1>7. FoldsSeeTheirSlices'
  BY <1>1, HashesStay DEF IInv
<1> QED
  BY <1>1, <1>3, <1>5, <1>6, <1>7, WarpStep

LEMMA FoldStep == ASSUME IInv, NEW w \in Warps, Fold(w) PROVE IInv'
<1> DEFINE r == warp[w]
           n == warp'[w]
           c == r.iter \div shape.fold_every - 1
           Own(v) == \E l \in Lanes : v = OwnTile(w, l)
<1>1. /\ r.pc = "fold" /\ Goes(w, r, "loop") /\ UNCHANGED <<shape, ring, hashes>>
      /\ jp_sh' = [t \in Jackpots |->
                     IF Own(t) THEN [jp_sh[t] EXCEPT ![c % Words] = Touched(@, c, r.accum)] ELSE jp_sh[t]]
  BY DEF Fold, At
<1>2. "loop" \in Points
  BY DEF Points, Looping
<1>3. /\ Only(w) /\ RegsOK(n) /\ n.pc = "loop" /\ SameAs(n, r) /\ Stays(n, r)
      /\ TypedRing' /\ (\A v \in Warps \ {w} : \A q : ring'[q][v] = ring[q][v]) /\ RingOK(w)'
  BY <1>1, <1>2, WalkStep
<1>4. Typed /\ RegsOK(r) /\ TranscriptsOK(w) /\ r \in Registers /\ CountersOK(r) /\ SlicesOK(r)
  BY DEF IInv, WarpOK, RegsOK
<1>5. r.iter \in Nat /\ r.tile \in Nat /\ F \in Nat \ {0} /\ r.iter > 0 /\ FoldedAt(r.iter)
  BY <1>1, <1>4, RegistersTyped, ShapeTyped DEF CountersOK, Hashing
<1>6. c \in Nat /\ r.iter = (c + 1) * shape.fold_every
  <2> DEFINE d == r.iter \div F
  <2>1. d \in Nat /\ r.iter = d * F + (r.iter % F)
    BY <1>5, Division
  <2>2. (r.iter % F) = 0
    BY <1>5 DEF FoldedAt
  <2>3. d = 0 => d * F = 0
    BY <1>5
  <2>4. c = d - 1
    BY DEF F
  <2> HIDE DEF d, c, r
  <2>5. d * F \in Nat
    BY <1>5, <2>1, ProductTyped
  <2>6. r.iter = d * F /\ d # 0
    <3>1. r.iter = d * F + 0
      BY <2>1, <2>2
    <3> QED
      BY <1>5, <2>3, <2>5, <3>1
  <2>7. c \in Nat /\ c + 1 = d
    BY <2>1, <2>4, <2>6
  <2> QED
    BY <2>6, <2>7 DEF F
<1>7. r.accum = Accumulated(r.tile, (c + 1) * shape.fold_every)
  BY <1>1, <1>4, <1>6 DEF SlicesOK, HalfWay, Hashing
<1>8. Folded(r) = c /\ Folded(n) = c + 1
  <2>1. Folded(r) = c /\ Folded(n) = r.iter \div F
    BY <1>1, <1>3 DEF Folded, SameAs, F
  <2>2. r.iter \div F \in Nat
    BY <1>5, Division
  <2> QED
    BY <2>1, <2>2 DEF F
<1> HIDE DEF c
<1>9. \A l \in Lanes : OwnTile(w, l) \in Jackpots
  BY DEF Lanes, Warps, OwnTile, Jackpots
<1>10. \A l \in Lanes : jp_sh'[OwnTile(w, l)] = TranscriptAfter(r.tile, c + 1)
  <2> SUFFICES ASSUME NEW l \in Lanes
               PROVE  jp_sh'[OwnTile(w, l)] = TranscriptAfter(r.tile, c + 1)
    OBVIOUS
  <2>1. jp_sh[OwnTile(w, l)] = TranscriptAfter(r.tile, c)
    BY <1>1, <1>4, <1>8 DEF TranscriptsOK, Looping
  <2>2. jp_sh'[OwnTile(w, l)] = [jp_sh[OwnTile(w, l)] EXCEPT ![c % Words] = Touched(@, c, r.accum)]
    BY <1>1, <1>9
  <2>3. [TranscriptAfter(r.tile, c) EXCEPT
           ![c % Words] = Touched(@, c, Accumulated(r.tile, (c + 1) * shape.fold_every))]
        = TranscriptAfter(r.tile, c + 1)
    BY <1>5, <1>6, TranscriptGrows
  <2> QED
    BY <1>7, <2>1, <2>2, <2>3
<1>11. \A t \in Jackpots : ~Own(t) => jp_sh'[t] = jp_sh[t]
  BY <1>1
<1>12. \A t, b : TranscriptAfter(t, b)' = TranscriptAfter(t, b)
  BY <1>1 DEF TranscriptAfter
<1>13. \A x : Folded(x)' = Folded(x)
  BY <1>1 DEF Folded, F
<1>14. TranscriptsOK(w)'
  BY <1>3, <1>8, <1>10, <1>12, <1>13 DEF TranscriptsOK, Filling, Looping, Hashing, SameAs
<1>15. ASSUME NEW v \in Warps \ {w}
       PROVE  TranscriptsOK(v)'
  <2>1. warp'[v] = warp[v] /\ v \in Warps /\ TranscriptsOK(v) /\ warp[v].pc \in Points
    BY <1>3 DEF Only, IInv, WarpOK, RegsOK, Registers
  <2>2. warp[v].pc \notin Clearing /\ warp[v].pc \notin Hashing
    BY <1>1, <2>1 DEF IInv, SyncOK, Warps, Clearing, Hashing
  <2>3. \A l \in Lanes : OwnTile(v, l) \in Jackpots /\ ~Own(OwnTile(v, l))
    BY <2>1 DEF Lanes, Warps, OwnTile, Jackpots
  <2>4. \A l \in Lanes : jp_sh'[OwnTile(v, l)] = jp_sh[OwnTile(v, l)]
    BY <1>11, <2>3
  <2> QED
    BY <1>12, <1>13, <2>1, <2>2, <2>4 DEF TranscriptsOK, Clearing, Hashing
<1>16. TypedWords'
  <2> SUFFICES ASSUME NEW t \in Jackpots
               PROVE  jp_sh'[t] = [q \in 0..(Words - 1) |-> jp_sh'[t][q]]
    BY DEF TypedWords
  <2>1. jp_sh[t] = [q \in 0..(Words - 1) |-> jp_sh[t][q]]
    BY <1>4 DEF Typed
  <2> QED
    BY <1>1, <2>1
<1>17. FoldsSeeTheirSlices'
  BY <1>1, HashesStay DEF IInv
<1>18. \A v \in Warps : TranscriptsOK(v)'
  BY <1>14, <1>15
<1> QED
  BY <1>1, <1>3, <1>16, <1>17, <1>18, WarpStep

LEMMA HashStep == ASSUME IInv, NEW w \in Warps, Hash(w) PROVE IInv'
<1> DEFINE r == warp[w]
           n == warp'[w]
<1>1. /\ r.pc = "hash" /\ Goes(w, r, "tilesync") /\ UNCHANGED <<shape, ring, jp_sh>>
      /\ hashes' = [t \in Jackpots |-> IF t \in ByStride(w, 3) THEN <<r.tile, jp_sh[t]>> ELSE hashes[t]]
  BY DEF Hash, At
<1>2. "tilesync" \in Points
  BY DEF Points, Hashing
<1>3. /\ Only(w) /\ RegsOK(n) /\ n.pc = "tilesync" /\ SameAs(n, r) /\ Stays(n, r)
      /\ TypedRing' /\ (\A v \in Warps \ {w} : \A q : ring'[q][v] = ring[q][v]) /\ RingOK(w)'
  BY <1>1, <1>2, WalkStep
<1>4. \A v \in Warps : TranscriptsOK(v) /\ warp[v].pc \in Points
  BY DEF IInv, WarpOK, RegsOK, Registers
<1>5. \A v \in Warps : TranscriptsOK(v)'
  <2>1. TranscriptsOK(w)'
    <3>1. Folded(n) = Folded(r)
      BY <1>1, <1>3 DEF Folded, SameAs
    <3>2. n.pc \in Points /\ n.pc # "clearsync"
      BY <1>2, <1>3
    <3> QED
      BY <1>1, <1>3, <1>4, <3>1, <3>2, TranscriptsStay
  <2>2. \A v \in Warps \ {w} : TranscriptsOK(v)'
    BY <1>1, <1>3, <1>4, OthersStay
  <2> QED
    BY <2>1, <2>2
<1>6. TypedWords'
  BY <1>1 DEF IInv, Typed, TypedWords
<1>7. FoldsSeeTheirSlices'
  <2>1. \A t : Transcript(t)' = Transcript(t)
    BY <1>1 DEF Transcript, TranscriptAfter
  <2>2. \A t \in Jackpots : jp_sh[t] = Transcript(r.tile)
    BY <1>1, <1>4 DEF TranscriptsOK, Hashing
  <2> SUFFICES ASSUME NEW t \in Jackpots, hashes'[t] # <<>>
               PROVE  hashes'[t][2] = Transcript(hashes'[t][1])
    BY <2>1 DEF FoldsSeeTheirSlices
  <2>3. CASE t \in ByStride(w, 3)
    BY <1>1, <2>2, <2>3
  <2>4. CASE t \notin ByStride(w, 3)
    <3>1. hashes'[t] = hashes[t]
      BY <1>1, <2>4
    <3> QED
      BY <3>1 DEF IInv, FoldsSeeTheirSlices
  <2> QED
    BY <2>3, <2>4
<1> QED
  BY <1>1, <1>3, <1>5, <1>6, <1>7, WarpStep

-----------------------------------------------------------------------------
(* The barriers. *)

(* Which of the barriers the warps are at: all at one. *)
LEMMA OneBarrier ==
  ASSUME IInv, \A w \in Warps : warp[w].pc \in DOMAIN Beyond \cup {"tilesync"}
  PROVE  \E label \in DOMAIN Beyond \cup {"tilesync"} : \A w \in Warps : warp[w].pc = label
<1>1. \A w \in Warps : warp[w].pc \in {"clearsync", "prologuesync", "ringsync", "drainsync", "tilesync"}
  BY DEF Beyond
<1>2. \A w \in Warps : CountersOK(warp[w]) /\ warp[w] \in Registers
  BY DEF IInv, WarpOK, RegsOK
<1>3. \A w \in Warps : /\ warp[w].pc = "ringsync" => warp[w].iter < N /\ Epoch(warp[w]) = warp[w].iter
                       /\ warp[w].pc = "drainsync" => warp[w].iter = N /\ Epoch(warp[w]) = warp[w].iter
  BY <1>2 DEF CountersOK, Hashing, HalfWay, Epoch
<1>4. N \in Nat /\ ~(N < N)
  BY ShapeTyped DEF IInv
<1>5. warp[0].pc = warp[1].pc
  <2>1. CASE warp[0].pc = "clearsync"
    BY <1>1, <2>1 DEF IInv, SyncOK, Warps, Clearing
  <2>2. CASE warp[0].pc = "prologuesync"
    BY <1>1, <2>2 DEF IInv, SyncOK, Warps, Filling
  <2>3. CASE warp[0].pc = "tilesync"
    BY <1>1, <2>3 DEF IInv, SyncOK, Warps, Hashing
  <2>4. CASE warp[0].pc \in {"ringsync", "drainsync"}
    <3>1. warp[1].pc \in {"ringsync", "drainsync"}
      BY <1>1, <2>4 DEF IInv, SyncOK, Warps, Clearing, Filling, Hashing
    <3>2. Epoch(warp[0]) = Epoch(warp[1])
      BY <2>4 DEF IInv, SyncOK, Looping
    <3>3. 0 \in Warps /\ 1 \in Warps
      BY DEF Warps
    <3> QED
      BY <1>3, <1>4, <2>4, <3>1, <3>2, <3>3
  <2> QED
    BY <1>1, <2>1, <2>2, <2>3, <2>4 DEF Warps
<1> QED
  BY <1>5 DEF Warps

(* What a barrier changes of a warp: the place, *)
LEMMA Passes ==
  ASSUME IInv, Syncthreads, NEW label \in DOMAIN Beyond, \A w \in Warps : warp[w].pc = label,
         NEW w \in Warps
  PROVE  /\ warp' = [v \in Warps |-> warp'[v]] /\ RegsOK(warp'[w]) /\ warp'[w].pc = Beyond[label]
         /\ SameAs(warp'[w], warp[w]) /\ RegsOK(warp[w])
<1> DEFINE r == warp[w]
           n == warp'[w]
<1>1. label \in {"clearsync", "prologuesync", "ringsync", "drainsync"} /\ label # "tilesync"
  BY DEF Beyond
<1>2. Typed /\ RegsOK(r) /\ r \in Registers
  BY DEF IInv, WarpOK, RegsOK
<1>3. warp' = [v \in Warps |-> [warp[v] EXCEPT !.pc = Beyond[warp[v].pc]]]
  BY <1>1 DEF Syncthreads, At
<1>4. Beyond[label] \in Points /\ <<label, Beyond[label]>> \in Walks
  BY <1>1 DEF Beyond, Points, Filling, Looping, Hashing, Walks
<1>5. n = [r EXCEPT !.pc = Beyond[label]]
  BY <1>3
<1>6. n \in Registers /\ n.pc = Beyond[label] /\ SameAs(n, r)
  <2> DEFINE b == Beyond[label]
  <2>1. b \in Points /\ n = [r EXCEPT !.pc = b]
    BY <1>4, <1>5
  <2> HIDE DEF b, n, r
  <2>2. n \in Registers /\ n.pc = b /\ SameAs(n, r)
    BY <1>2, <2>1 DEF Registers, SameAs
  <2> QED
    BY <2>2 DEF b
<1>7. <<r.pc, n.pc>> \in Walks /\ r.pc \notin {"prologuewait", "ringwait", "loop"}
  BY <1>1, <1>4, <1>6
<1>8. RegsOK(n)
  BY <1>2, <1>6, <1>7, WalkKeeps
<1>9. warp' = [v \in Warps |-> warp'[v]]
  BY <1>3
<1> QED
  BY <1>2, <1>6, <1>8, <1>9

(* or, after the last, everything. *)
LEMMA FreshOK ==
  ASSUME Typed, NEW tile \in Nat
  PROVE  /\ RegsOK(Fresh(tile)) /\ Fresh(tile).pc = "clear" /\ Fresh(tile).tile = tile
         /\ Sent(Fresh(tile)) = 0 /\ Arrived(Fresh(tile)) = 0
<1> DEFINE r == Fresh(tile)
<1>1. /\ r.pc = "clear" /\ r.tile = tile /\ r.left = N /\ r.next = 0 /\ r.masked = FALSE
      /\ r.read = 0 /\ r.write = 0 /\ r.accum = <<>> /\ r.iter = 0 /\ r.groups = <<>>
  BY DEF Fresh, N
<1>2. N \in Nat /\ S \in Nat \ {0}
  BY ShapeTyped
<1>3. r \in Registers
  <2>1. <<Torn, Torn>> \in [{1, 2} -> Fragments]
    BY DEF Fragments
  <2>2. <<>> \in Seq(Fragments) /\ <<>> \in Seq(CopyGroups)
    OBVIOUS
  <2>3. N \in Int /\ "clear" \in Points
    BY <1>2 DEF Points, Clearing
  <2> QED
    BY <2>1, <2>2, <2>3 DEF Fresh, Registers, N
<1> HIDE DEF r
<1>4. CountersOK(r)
  <2>1. Slot(0) = 0
    BY <1>2, SmallRemainder DEF Slot
  <2>2. N = N - 0
    BY <1>2
  <2> QED
    BY <1>1, <2>1, <2>2 DEF CountersOK, Clearing, Filling, Looping, Hashing, HalfWay
<1>5. SlicesOK(r)
  BY <1>1, AccumulatedStarts DEF SlicesOK, Hashing, HalfWay
<1>6. Sent(r) = 0 /\ Arrived(r) = 0
  <2>1. Sent(r) = 0
    BY <1>1 DEF Sent, HalfWay
  <2>2. Len(<<>>) = 0 /\ 0 - 0 = 0
    OBVIOUS
  <2>3. Arrived(r) = Sent(r) - Len(r.groups)
    BY DEF Arrived
  <2> QED
    BY <1>1, <2>1, <2>2, <2>3
<1>7. GroupsOK(r)
  <2>1. Len(r.groups) = 0
    BY <1>1
  <2>2. 0 <= S - 2
    BY ShapeTyped
  <2> QED
    BY <1>1, <1>6, <2>1, <2>2 DEF GroupsOK, InOrder, Clearing, Hashing
<1> QED
  BY <1>1, <1>3, <1>4, <1>5, <1>6, <1>7 DEF RegsOK, r

(* Past the clearing, all words are clear; *)
LEMMA AllCleared ==
  ASSUME IInv, \A w \in Warps : warp[w].pc = "clearsync"
  PROVE  \A t \in Jackpots : jp_sh[t] = [q \in 0..(Words - 1) |-> <<>>]
<1> SUFFICES ASSUME NEW t \in Jackpots
             PROVE  jp_sh[t] = [q \in 0..(Words - 1) |-> <<>>]
  OBVIOUS
<1>1. jp_sh[t] = [q \in 0..(Words - 1) |-> jp_sh[t][q]]
  BY DEF IInv, Typed
<1>2. ASSUME NEW q \in 0..(Words - 1)
      PROVE  jp_sh[t][q] = <<>>
  <2> DEFINE last == 4 * (Words + 1) - 1
             i == t * (Words + 1) + q
  <2>1. i \in 0..last
    <3>1. Words \in Nat /\ t \in {0, 1, 2, 3}
      BY PipelineAssumption DEF Jackpots
    <3>2. CASE t = 0
      BY <3>1, <3>2
    <3>3. CASE t = 1
      BY <3>1, <3>3
    <3>4. CASE t = 2
      BY <3>1, <3>4
    <3>5. CASE t = 3
      BY <3>1, <3>5
    <3> QED
      BY <3>1, <3>2, <3>3, <3>4, <3>5
  <2>2. \E w \in Warps : i \in ByStride(w, last)
    <3> HIDE DEF i, last
    <3> DEFINE m == i % 4
    <3>1. i \in Nat
      BY <2>1
    <3>2. m \in 0..3
      BY <3>1
    <3> HIDE DEF m
    <3>3. m \div 2 \in {0, 1}
      BY <3>2
    <3> QED
      BY <2>1, <3>3 DEF ByStride, Warps, m
  <2> HIDE DEF i, last
  <2>3. PICK w \in Warps : i \in ByStride(w, last)
    BY <2>2
  <2> QED
    BY <2>3 DEF IInv, WarpOK, TranscriptsOK, i, last
<1> QED
  BY <1>1, <1>2

(* past the loop, all slices are folded. *)
LEMMA AllFolded ==
  ASSUME IInv, \A w \in Warps : warp[w].pc = "drainsync"
  PROVE  \A w \in Warps, t \in Jackpots : jp_sh[t] = Transcript(warp[w].tile)
<1>1. \A w \in Warps : /\ warp[w].iter = N /\ warp[w].tile = warp[0].tile
                       /\ \A l \in Lanes : jp_sh[OwnTile(w, l)] = TranscriptAfter(warp[w].tile, Folded(warp[w]))
  <2>1. \A w \in Warps : CountersOK(warp[w]) /\ TranscriptsOK(w)
    BY DEF IInv, WarpOK, RegsOK
  <2>2. \A w \in Warps : warp[w].tile = warp[0].tile
    BY DEF IInv, SyncOK, Warps
  <2> QED
    BY <2>1, <2>2 DEF CountersOK, TranscriptsOK, Looping, Hashing
<1>2. \A w \in Warps : Folded(warp[w]) = shape.slices \div shape.fold_every
  BY <1>1 DEF Folded, N, F
<1>3. \A t \in Jackpots : \E w \in Warps, l \in Lanes : t = OwnTile(w, l)
  <2>1. \A t \in Jackpots : t = 0 \/ t = 1 \/ t = 2 \/ t = 3
    BY DEF Jackpots
  <2>2. OwnTile(0, 0) = 0 /\ OwnTile(1, 0) = 1 /\ OwnTile(0, 1) = 2 /\ OwnTile(1, 1) = 3
    BY DEF OwnTile
  <2>3. 0 \in Warps /\ 1 \in Warps /\ 0 \in Lanes /\ 1 \in Lanes
    BY DEF Warps, Lanes
  <2> QED
    BY <2>1, <2>2, <2>3
<1>4. \A t \in Jackpots : jp_sh[t] = Transcript(warp[0].tile)
  BY <1>1, <1>2, <1>3 DEF Transcript
<1> QED
  BY <1>1, <1>4

LEMMA SyncStep == ASSUME IInv, Syncthreads PROVE IInv'
<1>1. UNCHANGED <<shape, ring, jp_sh, hashes>>
  BY DEF Syncthreads
<1>2. \A w \in Warps : WarpOK(w) /\ RegsOK(warp[w]) /\ RingOK(w) /\ TranscriptsOK(w) /\ warp[w] \in Registers
  BY DEF IInv, WarpOK, RegsOK
<1>3. FoldsSeeTheirSlices'
  BY <1>1, HashesStay DEF IInv
<1>4. (\A t, c : TranscriptAfter(t, c)' = TranscriptAfter(t, c)) /\ (\A t : Transcript(t)' = Transcript(t))
  BY <1>1 DEF TranscriptAfter, Transcript
<1>5. \A r : Folded(r)' = Folded(r)
  BY <1>1 DEF Folded, F
<1>6. PICK label \in DOMAIN Beyond \cup {"tilesync"} : \A w \in Warps : warp[w].pc = label
  BY OneBarrier DEF Syncthreads
(* What is left to show. *)
<1>7. ASSUME warp' = [v \in Warps |-> warp'[v]], SyncOK',
             \A w \in Warps : RegsOK(warp'[w]) /\ RingOK(w)' /\ TranscriptsOK(w)'
      PROVE  IInv'
  <2>1. Typed'
    BY <1>1, <1>7 DEF IInv, Typed, N, S, F, FoldedAt
  <2>2. \A w \in Warps : RegsOK(warp[w])'
    BY <1>1, <1>7, RegsNext
  <2> QED
    BY <1>3, <1>7, <2>1, <2>2 DEF IInv, WarpOK
<1>8. CASE label \in DOMAIN Beyond
  <2>1. \A w \in Warps : /\ warp' = [v \in Warps |-> warp'[v]] /\ RegsOK(warp'[w])
                         /\ warp'[w].pc = Beyond[label] /\ SameAs(warp'[w], warp[w])
    BY <1>6, <1>8, Passes
  <2>2. warp' = [v \in Warps |-> warp'[v]]
    BY <2>1 DEF Warps
  <2>3. label \in {"clearsync", "prologuesync", "ringsync", "drainsync"}
    BY <1>8 DEF Beyond
  <2>4. \A w \in Warps : warp'[w].tile = warp[w].tile /\ warp'[w].iter = warp[w].iter
    BY <2>1 DEF SameAs
  <2>5. warp'[0].tile = warp'[1].tile /\ warp'[0].pc = Beyond[label] /\ warp'[1].pc = Beyond[label]
    BY <2>1, <2>4 DEF IInv, SyncOK, Warps
  <2>6. Epoch(warp'[0]) = Epoch(warp'[1]) \/ Beyond[label] \in {"prologue", "hash"}
    <3>1. CASE label \in {"prologuesync", "ringsync"}
      <4>1. warp'[0].iter = warp'[1].iter
        <5>1. CASE label = "prologuesync"
          BY <1>2, <1>6, <2>4, <5>1 DEF RegsOK, CountersOK, Filling, Hashing, Warps
        <5>2. CASE label = "ringsync"
          BY <1>6, <2>4, <5>2 DEF IInv, SyncOK, Epoch, Looping, Warps
        <5> QED
          BY <3>1, <5>1, <5>2
      <4> QED
        BY <2>5, <4>1 DEF Epoch
    <3>2. CASE label \in {"clearsync", "drainsync"}
      BY <3>2 DEF Beyond
    <3> QED
      BY <2>3, <3>1, <3>2
  <2>7. SyncOK'
    <3>1. Beyond[label] \in {"prologue", "hash"} => Beyond[label] \notin Looping \cup {"first"}
      BY DEF Looping
    <3>2. \A r : Epoch(r)' = Epoch(r)
      BY DEF Epoch
    <3> QED
      BY <2>5, <2>6, <3>1, <3>2 DEF SyncOK
  <2>8. ASSUME NEW w \in Warps
        PROVE  RingOK(w)' /\ TranscriptsOK(w)'
    <3> DEFINE r == warp[w]
               n == warp'[w]
    <3>1. /\ RingOK(w) /\ TranscriptsOK(w) /\ r.pc = label /\ n.pc = Beyond[label] /\ SameAs(n, r)
          /\ RegsOK(r)
      BY <1>2, <1>6, <2>1
    <3>2. CASE label = "clearsync"
      <4>1. n.pc = "prologue" /\ r.pc = "clearsync" /\ r.iter = 0 /\ r.tile \in Nat
        BY <1>2, <3>1, <3>2 DEF Beyond, RegsOK, CountersOK, Clearing, Hashing, Registers
      <4>2. Sent(n) = Sent(r) /\ Arrived(n) = Arrived(r)
        BY <3>1, <4>1 DEF SameAs, Sent, Arrived, HalfWay
      <4>3. RingOK(w)'
        BY <1>1, <3>1, <4>1, <4>2, RingStays DEF SameAs, Hashing
      <4>4. Folded(n) = 0
        <5>1. F \in Nat \ {0}
          BY ShapeTyped DEF IInv
        <5>2. 0 \div F = 0
          BY <5>1, SmallRemainder
        <5> QED
          BY <3>1, <4>1, <5>2 DEF Folded, SameAs
      <4>5. \A l \in Lanes : jp_sh[OwnTile(w, l)] = TranscriptAfter(r.tile, 0)
        <5>1. \A l \in Lanes : OwnTile(w, l) \in Jackpots
          BY DEF Lanes, Warps, OwnTile, Jackpots
        <5>2. \A t \in Jackpots : jp_sh[t] = [q \in 0..(Words - 1) |-> <<>>]
          BY <1>6, <3>2, AllCleared
        <5>3. F \in Nat
          BY ShapeTyped DEF IInv
        <5> QED
          BY <4>1, <5>1, <5>2, <5>3, TranscriptStarts
      <4> QED
        BY <1>1, <1>4, <1>5, <3>1, <4>1, <4>3, <4>4, <4>5 DEF TranscriptsOK, SameAs, Hashing
    <3>3. CASE label \in {"prologuesync", "ringsync"}
      <4>1. n.pc \in {"first", "advance"} /\ (n.pc = "advance" <=> r.pc = "ringsync")
            /\ r.pc \in {"prologuesync", "ringsync"}
        BY <3>1, <3>3 DEF Beyond
      <4>2. Sent(n) = Sent(r) /\ Arrived(n) = Arrived(r) /\ Folded(n) = Folded(r)
        BY <3>1, <4>1 DEF SameAs, Sent, Arrived, HalfWay, Folded
      <4>3. RingOK(w)'
        BY <1>1, <3>1, <4>1, <4>2, RingStays DEF SameAs, Hashing
      <4> QED
        BY <1>1, <1>4, <1>5, <3>1, <4>1, <4>2, <4>3
           DEF TranscriptsOK, SameAs, Filling, Looping, Hashing
    <3>4. CASE label = "drainsync"
      <4>1. n.pc = "hash" /\ n.tile = r.tile
        BY <3>1, <3>4 DEF Beyond, SameAs
      <4>2. \A t \in Jackpots : jp_sh[t] = Transcript(r.tile)
        BY <1>6, <3>4, AllFolded
      <4> QED
        BY <1>1, <1>4, <4>1, <4>2 DEF RingOK, TranscriptsOK, Hashing, Filling, Looping
    <3> QED
      BY <2>3, <3>2, <3>3, <3>4
  <2> QED
    BY <1>7, <2>1, <2>2, <2>7, <2>8
<1>9. CASE label = "tilesync"
  <2>1. warp' = [w \in Warps |-> Fresh(warp[w].tile + 1)]
    BY <1>6, <1>9 DEF Syncthreads, At
  <2>2. ASSUME NEW w \in Warps
        PROVE  /\ RegsOK(warp'[w]) /\ warp'[w].pc = "clear" /\ warp'[w].tile = warp[w].tile + 1
               /\ Sent(warp'[w]) = 0 /\ Arrived(warp'[w]) = 0
    <3>1. warp[w].tile + 1 \in Nat /\ Typed
      BY <1>2, RegistersTyped DEF IInv
    <3> QED
      BY <2>1, <3>1, FreshOK
  <2>3. warp' = [w \in Warps |-> warp'[w]]
    BY <2>1
  <2>4. SyncOK'
    <3>1. warp[0].tile = warp[1].tile /\ 0 \in Warps /\ 1 \in Warps
      BY DEF IInv, SyncOK, Warps
    <3> QED
      BY <2>2, <3>1 DEF SyncOK, Clearing, Filling, Hashing, Looping
  <2>5. \A w \in Warps : RingOK(w)' /\ TranscriptsOK(w)'
    <3> SUFFICES ASSUME NEW w \in Warps
                 PROVE  RingOK(w)' /\ TranscriptsOK(w)'
      OBVIOUS
    <3>1. \A r : Arrived(r)' = Arrived(r)
      BY DEF Arrived, Sent
    <3>2. \A j \in 0..(N' - 1) : ~(j < 0)
      OBVIOUS
    <3>3. RingOK(w)'
      BY <2>2, <3>1, <3>2 DEF RingOK
    <3>4. TranscriptsOK(w)'
      BY <2>2 DEF TranscriptsOK, Filling, Looping, Hashing
    <3> QED
      BY <3>3, <3>4
  <2> QED
    BY <1>7, <2>2, <2>3, <2>4, <2>5
<1> QED
  BY <1>6, <1>8, <1>9

-----------------------------------------------------------------------------
LEMMA InitOK == PipeInit => IInv
<1> SUFFICES ASSUME PipeInit
             PROVE  IInv
  OBVIOUS
<1>1. /\ warp = [w \in Warps |-> Fresh(0)]
      /\ ring = [s \in 0..(MaxStages - 1) |-> [w \in Warps |-> Zeros]]
      /\ jp_sh = [t \in Jackpots |-> [q \in 0..(Words - 1) |-> <<>>]]
      /\ hashes = [t \in Jackpots |-> <<>>]
  BY DEF PipeInit
<1>2. N \in Nat \ {0} /\ S \in 2..MaxStages /\ F \in Nat \ {0} /\ FoldedAt(N)
  BY PipelineAssumption DEF PipeInit, N, S, F, FoldedAt
<1>3. Typed
  BY <1>1, <1>2 DEF Typed, Cells
<1>4. \A w \in Warps : /\ RegsOK(warp[w]) /\ warp[w].pc = "clear" /\ warp[w].tile = 0
                       /\ Arrived(warp[w]) = 0
  <2>1. 0 \in Nat
    OBVIOUS
  <2> QED
    BY <1>1, <1>3, <2>1, FreshOK
<1>5. \A w \in Warps : RingOK(w)
  <2>1. \A j \in 0..(N - 1) : ~(j < 0)
    OBVIOUS
  <2> QED
    BY <1>4, <2>1 DEF RingOK
<1>6. \A w \in Warps : TranscriptsOK(w)
  BY <1>4 DEF TranscriptsOK, Filling, Looping, Hashing
<1>7. SyncOK
  BY <1>4 DEF SyncOK, Warps, Clearing, Filling, Hashing, Looping
<1>8. FoldsSeeTheirSlices
  BY <1>1 DEF FoldsSeeTheirSlices
<1> QED
  BY <1>3, <1>4, <1>5, <1>6, <1>7, <1>8 DEF IInv, WarpOK

LEMMA StepKeeps == IInv /\ [PipeNext]_pipeVars => IInv'
<1> SUFFICES ASSUME IInv, [PipeNext]_pipeVars
             PROVE  IInv'
  OBVIOUS
<1>1. CASE Syncthreads
  BY <1>1, SyncStep
<1>2. ASSUME NEW w \in Warps,
             \/ Clear(w) \/ Prologue(w) \/ Land(w) \/ PrologueWait(w) \/ FirstLoad(w) \/ FirstHalf(w)
             \/ Copy(w) \/ RingWait(w) \/ SecondHalf(w) \/ Fold(w) \/ Drain(w) \/ Hash(w)
      PROVE  IInv'
  BY <1>2, ClearStep, PrologueStep, LandStep, WaitStep, FirstLoadStep, FirstHalfStep, CopyStep,
     SecondHalfStep, FoldStep, HashStep
<1>3. CASE UNCHANGED pipeVars
  <2>1. UNCHANGED <<shape, warp, ring, jp_sh, hashes>>
    BY <1>3 DEF pipeVars
  <2>2. Typed'
    BY <2>1 DEF IInv, Typed, N, S, F, FoldedAt
  <2>3. ASSUME NEW v \in Warps
        PROVE  WarpOK(v)'
    <3>1. PICK w \in Warps : v # w
      BY DEF Warps
    <3>2. Only(w)
      BY <2>1 DEF IInv, Typed, Only
    <3>3. RegsOK(warp[v]) /\ RingOK(v) /\ TranscriptsOK(v) /\ warp[v].pc \in Points
      BY DEF IInv, WarpOK, RegsOK, Registers
    <3>4. v \in Warps \ {w}
      BY <3>1
    <3>5. RegsOK(warp[v])' /\ RingOK(v)' /\ TranscriptsOK(v)'
      BY <2>1, <3>2, <3>3, <3>4, OthersStay
    <3> QED
      BY <3>5 DEF WarpOK
  <2>4. SyncOK'
    BY <2>1 DEF IInv, SyncOK, Epoch
  <2>5. FoldsSeeTheirSlices'
    BY <2>1, HashesStay DEF IInv
  <2> QED
    BY <2>2, <2>3, <2>4, <2>5 DEF IInv
<1> QED
  BY <1>1, <1>2, <1>3 DEF PipeNext

(* However many slices, stages of the ring, words of a transcript and tiles  *)
(* there are, and however the warps and their copies interleave in the       *)
(* mainloop of tc_cutlass_v2.cu: every jackpot tile is hashed from the       *)
(* transcript of all slices of its tile, each multiplied once and in order.  *)
(* No stage is read while a copy into it is in flight or after it was        *)
(* refilled, no word is left from the tile before, and no warp hashes words  *)
(* that another has still to fold.                                           *)
THEOREM TranscriptsSeeTheirSlices == PipeSpec => []FoldsSeeTheirSlices
<1>1. PipeInit => IInv
  BY InitOK
<1>2. IInv /\ [PipeNext]_pipeVars => IInv'
  BY StepKeeps
<1>3. IInv => FoldsSeeTheirSlices
  BY DEF IInv
<1> QED
  BY <1>1, <1>2, <1>3, PTL DEF PipeSpec

(* Warps that wait for each other in __syncthreads wait at the same one: the  *)
(* barrier counts arrivals and cannot tell its calls apart, so a warp that   *)
(* leaves the mainloop a slice early would meet the others in its middle.    *)
BarriersMatch ==
  (\A w \in Warps : warp[w].pc \in DOMAIN Beyond \cup {"tilesync"}) =>
    \A v, w \in Warps : warp[v].pc = warp[w].pc /\ warp[v].tile = warp[w].tile

(* The warps of a block leave the mainloop of tc_cutlass_v2.cu, and go from  *)
(* tile to tile, after the same number of barriers.                          *)
THEOREM WarpsMeetAtOneBarrier == PipeSpec => []BarriersMatch
<1>1. PipeInit => IInv
  BY InitOK
<1>2. IInv /\ [PipeNext]_pipeVars => IInv'
  BY StepKeeps
<1>3. IInv => BarriersMatch
  <2> SUFFICES ASSUME IInv, \A w \in Warps : warp[w].pc \in DOMAIN Beyond \cup {"tilesync"}
               PROVE  \A v, w \in Warps : warp[v].pc = warp[w].pc /\ warp[v].tile = warp[w].tile
    BY DEF BarriersMatch
  <2>1. \A w \in Warps : warp[w].tile = warp[0].tile
    BY DEF IInv, SyncOK, Warps
  <2> QED
    BY <2>1, OneBarrier
<1> QED
  BY <1>1, <1>2, <1>3, PTL DEF PipeSpec
=============================================================================
