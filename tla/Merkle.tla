------------------------------- MODULE Merkle -------------------------------
(***************************************************************************)
(* The proof of a share: the Merkle tree over the chunks of a padded        *)
(* matrix, the proof for several of its leaves at once, and the bytes they  *)
(* are sent as.  Beside the CPU's tree, the GPU's: gpu_prep.cu hashes the   *)
(* same bytes level by level, in two buffers.                               *)
(*                                                                         *)
(* A matrix is the sequence of its bytes; a byte is a number, 0 the padding. *)
(***************************************************************************)
EXTENDS Blake3

(* The three compressions of the prover, under the job's key. *)
chunk_cv(data, index) ==
  LET blocks == (Len(data) - 1) \div BlockLen
      Step(cv, i) == Compress(cv, Pieces(data, BlockLen, blocks)[i], index,
                              IF i = 1 THEN {"CHUNK_START"} ELSE {})
      cv    == FoldLeft(Step, Key, [i \in 1..blocks |-> i])
      final == IF blocks = 0 THEN {"CHUNK_START", "CHUNK_END"} ELSE {"CHUNK_END"}
  IN Compress(cv, Drop(data, blocks * BlockLen), index, final)

parent_cv(left, right) == Compress(Key, <<left, right>>, 0, {"PARENT"})
root_cv(left, right)   == Compress(Key, <<left, right>>, 0, {"PARENT", "ROOT"})

(* blake3_digest: one call of the hasher for all the bytes. *)
blake3_digest(data) == blake3_hasher_finalize(blake3_hasher_update(blake3_hasher_init, data))

-----------------------------------------------------------------------------
(* The layers, the leaves first; a node without a partner moves up as it is. *)
NextLayer(layer) ==
  [p \in 1..((Len(layer) + 1) \div 2) |->
     IF 2 * p <= Len(layer) THEN parent_cv(layer[2 * p - 1], layer[2 * p]) ELSE Last(layer)]

RECURSIVE Raised(_)
Raised(layers) ==
  IF Len(Last(layers)) > 2 THEN Raised(Append(layers, NextLayer(Last(layers)))) ELSE layers

num_chunks(len) == (len + ChunkLen - 1) \div ChunkLen
Chunk(data, i)  == SubSeq(data, i * ChunkLen + 1, Min({(i + 1) * ChunkLen, Len(data)}))

MerkleTree(data) ==
  IF data = <<>> THEN << <<>> >>
  ELSE IF Len(data) <= ChunkLen THEN << <<blake3_digest(data)>> >>
  ELSE LET leaves == [i \in 1..num_chunks(Len(data)) |-> chunk_cv(Chunk(data, i - 1), i - 1)]
           layers == Raised(<<leaves>>)
           top    == Last(layers)
       IN IF Len(top) = 2 THEN Append(layers, <<root_cv(top[1], top[2])>>) ELSE layers

num_leaves(tree) == Len(tree[1])
root(tree)       == Last(tree)[1]

(* The GPU's: the two buffers change places after every level. *)
RECURSIVE b3_levels(_, _)
b3_levels(src, dst) ==
  IF Len(src) <= 1 THEN src[1]
  ELSE LET parents == [p \in 1..(Len(src) \div 2) |->
                         IF Len(src) \div 2 = 1 THEN root_cv(src[1], src[2])
                         ELSE parent_cv(src[2 * p - 1], src[2 * p])]
       IN b3_levels(parents, src)

b3_chunk(data, c) ==
  LET n == ChunkLen \div BlockLen
      Flags(b) == (IF b = 1 THEN {"CHUNK_START"} ELSE {}) \cup (IF b = n THEN {"CHUNK_END"} ELSE {})
      Step(cv, b) == Compress(cv, SubSeq(data, c * ChunkLen + (b - 1) * BlockLen + 1,
                                               c * ChunkLen + b * BlockLen), c, Flags(b))
  IN FoldLeft(Step, Key, [b \in 1..n |-> b])

tree_hash(data) ==
  b3_levels([c \in 1..(Len(data) \div ChunkLen) |-> b3_chunk(data, c - 1)], <<>>)

-----------------------------------------------------------------------------
(* The matrix is padded to whole chunks before it is hashed. *)
pad_to_chunk_boundary(flat) ==
  flat \o [i \in 1..(num_chunks(Len(flat)) * ChunkLen - Len(flat)) |-> 0]

compute_leaf_indices_from_rows(rows, cols) ==
  UNION {((row * cols) \div ChunkLen)..(((row + 1) * cols - 1) \div ChunkLen) : row \in rows}

Ascending(s) == SelectSeq([i \in 1..(Max(s) + 1) |-> i - 1], LAMBDA i : i \in s)

(* The siblings of a level that the chosen nodes cannot be merged without;  *)
(* nodes are numbered from 0.                                               *)
SiblingsAt(nodes, current, len) ==
  LET Needed(i) == IF i % 2 = 1 THEN IF i - 1 \in current THEN <<>> ELSE <<nodes[i]>>
                   ELSE IF i + 1 \notin current /\ i + 1 < len THEN <<nodes[i + 2]>> ELSE <<>>
  IN FlattenSeq([j \in 1..Cardinality(current) |-> Needed(Ascending(current)[j])])

LevelUpFloor(len) == len \div 2
LevelUp(len)      == (len + 1) \div 2

RECURSIVE Siblings(_, _, _, _)
Siblings(tree, current, len, level) ==
  IF len <= 1 \/ current = {} THEN <<>>
  ELSE SiblingsAt(tree[level], current, len)
         \o Siblings(tree, {i \div 2 : i \in current}, LevelUp(len), level + 1)

(* A leaf is sent as a whole chunk, filled up with zeros. *)
LeafData(data, i) == LET part == Chunk(data, i) IN part \o [j \in 1..(ChunkLen - Len(part)) |-> 0]

get_multileaf_proof(data, indices) ==
  LET tree   == MerkleTree(data)
      sorted == Ascending(indices)
  IN [leaf_data    |-> [j \in DOMAIN sorted |-> LeafData(data, sorted[j])],
      leaf_indices |-> sorted,
      total_leaves |-> num_leaves(tree),
      root         |-> root(tree),
      siblings     |-> Siblings(tree, indices, num_leaves(tree), 1)]

-----------------------------------------------------------------------------
(* bincode: counts and indices as numbers, byte strings without a length    *)
(* where their type fixes it.  A field stands for its 8, or 32, bytes.      *)
u64(n)   == << <<"u64", n>> >>
bytes(s) == << <<"bytes", s>> >>
Numbers(s) == u64(Len(s)) \o [i \in DOMAIN s |-> u64(s[i])[1]]

write_merkle_proof(proof) ==
     u64(Len(proof.leaf_data))
  \o FlattenSeq([i \in DOMAIN proof.leaf_data |-> u64(ChunkLen) \o bytes(proof.leaf_data[i])])
  \o Numbers(proof.leaf_indices)
  \o u64(proof.total_leaves)
  \o bytes(proof.root)
  \o u64(Len(proof.siblings))
  \o [i \in DOMAIN proof.siblings |-> bytes(proof.siblings[i])[1]]

write_matrix_proof(proof, rows) == write_merkle_proof(proof) \o Numbers(rows)

(* base64: three bytes are four digits of six bits, 64 the '='. *)
base64_encode(in) ==
  LET n    == Len(in)
      v(i) == in[i] * 65536 + (IF i < n THEN in[i + 1] * 256 ELSE 0) + (IF i + 1 < n THEN in[i + 2] ELSE 0)
      Quad(i) == <<v(i) \div 262144, (v(i) \div 4096) % 64,
                   IF i < n THEN (v(i) \div 64) % 64 ELSE 64,
                   IF i + 1 < n THEN v(i) % 64 ELSE 64>>
  IN FlattenSeq([g \in 1..((n + 2) \div 3) |-> Quad(3 * g - 2)])

-----------------------------------------------------------------------------
(* What the pool does with it: parse the fields back, and merge the leaves   *)
(* and the siblings up to a root.                                           *)
ParsedNumbers(t) == [i \in 1..t[1][2] |-> t[i + 1][2]]

Parsed(t) ==
  LET leaves  == t[1][2]
      t2      == Drop(t, 1 + 2 * leaves)
      indices == ParsedNumbers(t2)
      t3      == Drop(t2, 1 + Len(indices))
      sibs    == t3[3][2]
  IN [proof |-> [leaf_data    |-> [i \in 1..leaves |-> t[2 * i + 1][2]],
                 leaf_indices |-> indices,
                 total_leaves |-> t3[1][2],
                 root         |-> t3[2][2],
                 siblings     |-> [i \in 1..sibs |-> t3[3 + i][2]]],
      rows  |-> ParsedNumbers(Drop(t3, 3 + sibs))]

(* A level of the verifier: known nodes by their number, siblings taken in   *)
(* the order of the nodes that miss them.  <<>> where there is none left.    *)
RECURSIVE VerifiedRoot(_, _, _)
VerifiedRoot(known, len, siblings) ==
  IF len <= 1 THEN IF siblings = <<>> THEN known[0] ELSE <<>>
  ELSE LET here   == DOMAIN known
           lacks  == {i \in here : LET other == IF i % 2 = 1 THEN i - 1 ELSE i + 1
                                   IN other \notin here /\ other < len}
           Rank(i) == Cardinality({j \in lacks : j <= i})
           Node(i) == IF i \in here THEN known[i]
                      ELSE siblings[Rank(IF i % 2 = 1 THEN i - 1 ELSE i + 1)]
           Merge(p) == IF 2 * p + 1 >= len THEN Node(2 * p)
                       ELSE IF len = 2 THEN root_cv(Node(0), Node(1))
                       ELSE parent_cv(Node(2 * p), Node(2 * p + 1))
       IN IF Cardinality(lacks) > Len(siblings) THEN <<>>
          ELSE VerifiedRoot([p \in {i \div 2 : i \in here} |-> Merge(p)], (len + 1) \div 2,
                            Drop(siblings, Cardinality(lacks)))

Verified(proof) ==
  LET n == Len(proof.leaf_indices)
      At(i) == CHOOSE j \in 1..n : proof.leaf_indices[j] = i
      leaves == {proof.leaf_indices[j] : j \in 1..n}
  IN IF proof.total_leaves = 1 THEN HashOf(proof.leaf_data[1])
     ELSE VerifiedRoot([i \in leaves |-> chunk_cv(proof.leaf_data[At(i)], i)],
                       proof.total_leaves, proof.siblings)

(* The bytes four digits stand for. *)
Decoded(digits) ==
  LET Group(g) ==
        LET d == SubSeq(digits, 4 * g - 3, 4 * g)
            kept == IF d[3] = 64 THEN 1 ELSE IF d[4] = 64 THEN 2 ELSE 3
            v == d[1] * 262144 + d[2] * 4096 + (d[3] % 64) * 64 + (d[4] % 64)
        IN SubSeq(<<v \div 65536, (v \div 256) % 256, v % 256>>, 1, kept)
  IN FlattenSeq([g \in 1..(Len(digits) \div 4) |-> Group(g)])
=============================================================================
