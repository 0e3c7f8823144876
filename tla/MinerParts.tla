----------------------------- MODULE MinerParts -----------------------------
(***************************************************************************)
(* The parts of the miner that compute, side by side for one run: nothing is *)
(* shared between them, and a behaviour is that of one part alone.  The      *)
(* hasher is fed piece by piece, the grid and the pipeline take their own    *)
(* steps, and the pure functions are asked once, for every small input.      *)
(***************************************************************************)
EXTENDS Merkle, Patterns, Bound, Devices, SearchGrid, FoldPipeline

CONSTANTS
  MaxBytes,    \* bound: bytes fed to the hasher
  MaxRows      \* bound: rows of a matrix to prove

(* The hasher once more, on a machine that hashes one chunk at a time. *)
Narrow == INSTANCE Blake3 WITH Degree <- 1

VARIABLES
  part,    \* the part that runs
  fed,     \* bytes fed to the hasher
  hasher,
  input    \* what a function is asked

vars == <<part, fed, hasher, input, gridVars, pipeVars>>

-----------------------------------------------------------------------------
Init ==
  /\ part \in {"hasher", "narrow hasher", "grid", "pipeline", "nothing"}
  /\ fed = 0
  /\ hasher = blake3_hasher_init
  /\ input = <<>>
  /\ GridInit
  /\ PipeInit
  /\ part # "grid" => wins = {}
  /\ part # "pipeline" => shape = [slices |-> 1, stages |-> 2, fold_every |-> 1]

(* Byte i of a message is i: no two are the same. *)
Message(from, n) == [i \in 1..n |-> from + i]

Feed(n) ==
  /\ fed + n <= MaxBytes
  /\ fed' = fed + n
  /\ hasher' = IF part = "hasher" THEN blake3_hasher_update(hasher, Message(fed, n))
               ELSE Narrow!blake3_hasher_update(hasher, Message(fed, n))
  /\ UNCHANGED <<part, input, gridVars, pipeVars>>

Search == part = "grid" /\ GridNext /\ UNCHANGED <<part, fed, hasher, input, pipeVars>>
FoldUp == part = "pipeline" /\ PipeNext /\ UNCHANGED <<part, fed, hasher, input, gridVars>>

Ask(what, value) ==
  /\ part' = what
  /\ input' = value
  /\ UNCHANGED <<fed, hasher, gridVars, pipeVars>>

AskProof ==
  \E n \in 1..MaxRows, cols \in {1, 3, 4, 6} : \E rows \in SUBSET (0..(n - 1)) \ {{}} :
    Ask("proof", [n |-> n, cols |-> cols, rows |-> rows])

AskText == \E n \in 0..4 : \E s \in [1..n -> {0, 63, 64, 255}] : Ask("text", s)

AskPattern == \E b \in [1..6 -> 0..2] : Ask("pattern", b)

(* The base is 4: a target of Digits digits, or bits within and past them. *)
AskBound ==
  \/ \E exponent \in 0..(Digits + 2), mantissa \in 0..40, factor \in {0, 1, 3, 5, 12, 15} :
       Ask("bound", [target |-> <<>>, exponent |-> exponent, mantissa |-> mantissa, factor |-> factor])
  \/ \E target \in [1..Digits -> {0, Base - 1}], factor \in {1, 6, 15} :
       Ask("bound", [target |-> target, exponent |-> 0, mantissa |-> 0, factor |-> factor])

(* The processes a user starts. *)
Requests == UNION {[1..n -> {Junk, 0, 1, 2, 3}] : n \in 0..2} \cup {<<2, 0, 1>>, <<0, 1, 0>>}
Masks    == {<<>>, <<0>>, <<1>>, <<2, 0>>, <<3>>, <<Junk>>}

AskDevices ==
  \E pools \in {<<>>, <<"good">>, <<"good", "bad">>}, solo, nvml \in BOOLEAN, devices \in Requests,
     cvd \in Masks, cards \in 0..(MaxGpus + 1) :
    Ask("devices", [pools |-> pools, wallet |-> TRUE, solo |-> solo, devices |-> devices, cvd |-> cvd,
                    child |-> FALSE, phys |-> 0, count |-> 1, nvml |-> nvml, cards |-> cards])

Next ==
  \/ part \in {"hasher", "narrow hasher"} /\ \E n \in 1..MaxBytes : Feed(n)
  \/ Search
  \/ FoldUp
  \/ part = "nothing" /\ (AskProof \/ AskText \/ AskPattern \/ AskBound \/ AskDevices)

Spec == Init /\ [][Next]_vars

-----------------------------------------------------------------------------
(* However the bytes are cut into updates, and however many chunks the       *)
(* machine hashes at once, blake3_hasher_finalize gives the hash of all of   *)
(* them; the prover's Merkle tree has it as its root, and, over a power of   *)
(* two of whole chunks, at least two, so has the GPU's tree_hash.            *)
HashesAgree ==
  LET message == Message(0, fed)
      whole   == Len(message) % ChunkLen = 0 /\ Len(message) \div ChunkLen \in Powers \ {1}
  IN part \in {"hasher", "narrow hasher"} =>
       /\ HashOf(message) = IF part = "hasher" THEN blake3_hasher_finalize(hasher)
                            ELSE Narrow!blake3_hasher_finalize(hasher)
       /\ fed > 0 => root(MerkleTree(message)) = HashOf(message)
       /\ whole => tree_hash(message) = HashOf(message)

(* The pool can read the proof of any set of rows back from its bytes, finds *)
(* every byte of those rows in the leaves, and merges leaves and siblings,   *)
(* with none missing and none left over, into the hash of the matrix; and    *)
(* the text it is sent as decodes to the bytes it was made from.             *)
Matrix == Message(0, input.n * input.cols)

ProofChecks ==
  LET padded == pad_to_chunk_boundary(Matrix)
      leaves == compute_leaf_indices_from_rows(input.rows, input.cols)
      proof  == get_multileaf_proof(padded, leaves)
      read   == Parsed(write_matrix_proof(proof, Ascending(input.rows)))
  IN /\ read = [proof |-> proof, rows |-> Ascending(input.rows)]
     /\ Verified(read.proof) = HashOf(padded)
     /\ read.proof.root = HashOf(padded)
     /\ \A row \in input.rows : \A at_ \in (row * input.cols + 1)..((row + 1) * input.cols) :
          \E i \in DOMAIN read.proof.leaf_data : Matrix[at_] \in ToSet(read.proof.leaf_data[i])

ProofsVerify ==
  /\ part = "proof" => ProofChecks
  /\ part = "text"  => Decoded(base64_encode(input)) = input

(* A pattern's list and its six bytes say the same, and over any multiple of *)
(* its period the partition puts every row into exactly one tile.            *)
PatternPartitions ==
  LET list  == to_list(ShapeOf(input))
      shape_ == from_list(list)
  IN /\ to_list(shape_) = list
     /\ to_list(ShapeOf(to_bytes(shape_))) = list
     /\ \A k \in 1..2 :
          LET total == k * period(shape_)
              tiles == threads_partition(shape_, total)
          IN /\ UNION {ToSet(tiles[t]) : t \in DOMAIN tiles} = 0..(total - 1)
             /\ Len(tiles) * size(shape_) = total

PartitionCovers == part = "pattern" => PatternPartitions

(* The bound is the target times the tile's work, or the largest number if   *)
(* that is larger, for every target that fits; and a hash is accepted just   *)
(* when its value is not above it.                                          *)
Target ==
  IF input.target # <<>> THEN Value(Reverse(input.target))
  ELSE IF input.mantissa >= Base^3 \div 2 THEN 0
  ELSE IF input.exponent >= 3 THEN input.mantissa * Base^(input.exponent - 3)
  ELSE IF input.exponent = 0 THEN 0 ELSE input.mantissa \div Base^(3 - input.exponent)

BoundIsExact ==
  LET top     == Base^Digits - 1
      exact   == Min({Target * input.factor, top})
      limit   == bound(input.target, input.exponent, input.mantissa, input.factor)
      HashWith(v) == [i \in 1..Digits |-> (v \div Base^(i - 1)) % Base]
  IN Target <= top =>
       /\ Value(limit) = exact
       /\ \A v \in (exact - 1)..(exact + 1) \cap 0..top : le(HashWith(v), limit) <=> v <= exact

BoundExact == part = "bound" => BoundIsExact

(* A pool miner that starts mines on the GPUs it was asked for, all of the   *)
(* first MaxGpus if it was asked for none: no two lanes share a card, and a  *)
(* lane computes on the card it reports.  Where the mask is the user's, and  *)
(* where NVML is missing and a card was asked for, nothing is promised but a *)
(* single lane.                                                             *)
PlanIsRight ==
  LET plan   == main(input)
      wanted == IF input.devices # <<>> THEN ToSet(input.devices) ELSE 0..(Min({input.cards, MaxGpus}) - 1)
      mask   == parse_first_visible_device_index(input.cvd)
      plain  == input.cvd = <<>> /\ (input.nvml \/ input.devices = <<>>)
  IN /\ plan.kind = "fanout" =>
          /\ ToSet(plan.indices) = wanted
          /\ Distinct(plan.indices)
          /\ \A i \in DOMAIN plan.indices :
               LET child == ChildOf(input, plan.indices[i])
                   lane  == main(child)
               IN lane.kind = "lane" /\ lane.reported = plan.indices[i] /\ Used(child, lane) = lane.reported
     /\ plan.kind = "lane" /\ plain /\ wanted # {} =>
          {plan.reported} = wanted /\ Used(input, plan) = plan.reported
     /\ plan.kind = "lane" /\ input.nvml /\ mask \in 0..(Min({input.cards, MaxGpus}) - 1) =>
          Used(input, plan) = plan.reported

LanesAreTheGpus == part = "devices" /\ ~input.solo => PlanIsRight
=============================================================================
