------------------------------- MODULE Blake3 -------------------------------
(***************************************************************************)
(* The tree mode of the vendored BLAKE3: an incremental hasher that takes   *)
(* its input in pieces of any length, hashes whole subtrees of it SIMD      *)
(* degree chunks at a time, and merges chaining values lazily.              *)
(*                                                                         *)
(* The compression function is a constructor: two digests are equal only if *)
(* they were computed in the same way from the same bytes.  A byte stands   *)
(* for its place in the message, the key (and with it the KEYED_HASH flag)  *)
(* is one fixed value, and sizes are parameters.                            *)
(***************************************************************************)
EXTENDS Integers, Sequences, SequencesExt, FiniteSetsExt

CONSTANTS
  BlockLen,   \* bytes in a block: BLAKE3_BLOCK_LEN
  ChunkLen,   \* bytes in a chunk: BLAKE3_CHUNK_LEN
  Degree      \* chunks hashed in parallel: what blake3_simd_degree detects

Bits   == 0..20                  \* bound: no message has 2^20 bytes
Powers == {2^i : i \in Bits}

ASSUME LengthsAssumption == BlockLen \in Nat \ {0} /\ ChunkLen \in Powers /\ ChunkLen % BlockLen = 0
ASSUME DegreeAssumption  == Degree \in {1, 4, 8, 16}

(* The digests: <<cv, block, counter, flags>>, the key <<>>. *)
Key == <<>>
Compress(cv, block, counter, flags) == <<cv, block, counter, flags>>

Drop(s, n) == SubSeq(s, n + 1, Len(s))
Take(s, n) == SubSeq(s, 1, n)

(* The first n blocks, or chunks, of s. *)
Pieces(s, size, n) == [i \in 1..n |-> SubSeq(s, (i - 1) * size + 1, i * size)]

(* Popcount, and the largest power of two up to x; 1 for 0. *)
popcnt(x) == Cardinality({i \in Bits : (x \div 2^i) % 2 = 1})
round_down_to_power_of_2(x) == IF x = 0 THEN 1 ELSE Max({p \in Powers : p <= x})

-----------------------------------------------------------------------------
(* The state of a chunk that is being read. *)
NewChunk(counter) == [cv |-> Key, counter |-> counter, buf |-> <<>>, blocks |-> 0]

chunk_state_len(s) == BlockLen * s.blocks + Len(s.buf)

StartFlag(s) == IF s.blocks = 0 THEN {"CHUNK_START"} ELSE {}

CompressBlock(s, block) ==
  [s EXCEPT !.cv = Compress(s.cv, block, s.counter, StartFlag(s)), !.blocks = @ + 1, !.buf = <<>>]

(* A full buffer is compressed only when more input follows: the last block *)
(* of a chunk is kept for its output, which may be the root.                *)
chunk_state_update(s, input) ==
  LET took   == Min({BlockLen - Len(s.buf), Len(input)})
      filled == s.buf \o Take(input, took)
      fresh  == IF s.buf = <<>> THEN s
                ELSE IF Len(input) > took THEN CompressBlock(s, filled)
                ELSE [s EXCEPT !.buf = filled]
      rest   == IF s.buf = <<>> THEN input ELSE Drop(input, took)
      n      == IF rest = <<>> THEN 0 ELSE (Len(rest) - 1) \div BlockLen
      whole  == FoldLeft(CompressBlock, fresh, Pieces(rest, BlockLen, n))
  IN [whole EXCEPT !.buf = @ \o Drop(rest, n * BlockLen)]

(* An output is a compression that has not been done yet. *)
chunk_state_output(s) ==
  [cv |-> s.cv, block |-> s.buf, counter |-> s.counter, flags |-> StartFlag(s) \cup {"CHUNK_END"}]

parent_output(left, right) ==
  [cv |-> Key, block |-> <<left, right>>, counter |-> 0, flags |-> {"PARENT"}]

output_chaining_value(o) == Compress(o.cv, o.block, o.counter, o.flags)

(* The root's counter numbers the blocks of output; 32 bytes are the first. *)
output_root_bytes(o) == Compress(o.cv, o.block, 0, o.flags \cup {"ROOT"})

-----------------------------------------------------------------------------
(* Many chunks, or many parents, at once. *)
HashOne(chunk, counter) ==
  LET n == ChunkLen \div BlockLen
      Flags(i) == (IF i = 1 THEN {"CHUNK_START"} ELSE {}) \cup (IF i = n THEN {"CHUNK_END"} ELSE {})
  IN FoldLeftDomain(LAMBDA cv, i : Compress(cv, Pieces(chunk, BlockLen, n)[i], counter, Flags(i)),
                    Key, Pieces(chunk, BlockLen, n))

compress_chunks_parallel(input, counter) ==
  LET n     == Len(input) \div ChunkLen
      whole == [i \in 1..n |-> HashOne(Pieces(input, ChunkLen, n)[i], counter + i - 1)]
      rest  == Drop(input, n * ChunkLen)
  IN IF rest = <<>> THEN whole
     ELSE Append(whole, output_chaining_value(
                          chunk_state_output(chunk_state_update(NewChunk(counter + n), rest))))

compress_parents_parallel(cvs) ==
  LET n     == Len(cvs) \div 2
      pairs == [i \in 1..n |-> output_chaining_value(parent_output(cvs[2 * i - 1], cvs[2 * i]))]
  IN IF Len(cvs) % 2 = 1 THEN Append(pairs, Last(cvs)) ELSE pairs

left_subtree_len(n) == round_down_to_power_of_2((n - 1) \div ChunkLen) * ChunkLen

(* The array the two halves write their values to: the right half's start   *)
(* at a fixed place, whatever the number of the left half's.                *)
Unwritten == <<"unwritten">>
Placed(left, right, at) ==
  [i \in 1..(Len(left) + Len(right)) |->
     IF i - at \in 1..Len(right) THEN right[i - at]
     ELSE IF i <= Len(left) THEN left[i] ELSE Unwritten]

(* With degree 1 two values are returned all the same, so that the root is  *)
(* never compressed here.                                                   *)
WideDegree(leftLen) == IF leftLen > ChunkLen /\ Degree = 1 THEN 2 ELSE Degree

RECURSIVE blake3_compress_subtree_wide(_, _)
blake3_compress_subtree_wide(input, counter) ==
  IF Len(input) <= Degree * ChunkLen THEN compress_chunks_parallel(input, counter)
  ELSE LET leftLen == left_subtree_len(Len(input))
           left    == blake3_compress_subtree_wide(Take(input, leftLen), counter)
           right   == blake3_compress_subtree_wide(Drop(input, leftLen), counter + leftLen \div ChunkLen)
           both    == Placed(left, right, WideDegree(leftLen))
       IN IF Len(left) = 1 THEN Take(both, 2) ELSE compress_parents_parallel(both)

RECURSIVE Condensed(_)
Condensed(cvs) == IF Len(cvs) > 2 THEN Condensed(compress_parents_parallel(cvs)) ELSE cvs

compress_subtree_to_parent_node(input, counter) ==
  Condensed(blake3_compress_subtree_wide(input, counter))

-----------------------------------------------------------------------------
(* The hasher: the chunk being read, and the stack of chaining values of    *)
(* the subtrees before it.                                                  *)
blake3_hasher_init == [chunk |-> NewChunk(0), stack |-> <<>>]

(* Lazily: only down to as many as the chunks before this one call for. *)
RECURSIVE hasher_merge_cv_stack(_, _)
hasher_merge_cv_stack(stack, total) ==
  IF Len(stack) <= popcnt(total) THEN stack
  ELSE LET n == Len(stack) IN
       hasher_merge_cv_stack(
         Append(Take(stack, n - 2), output_chaining_value(parent_output(stack[n - 1], stack[n]))), total)

hasher_push_cv(stack, cv, counter) == Append(hasher_merge_cv_stack(stack, counter), cv)

(* The largest subtree that starts here: a power of two of bytes, dividing  *)
(* the number read so far.                                                  *)
SubtreeUnaligned(count, n) == round_down_to_power_of_2(n)
SubtreeLen(count, n) ==
  Max({len \in Powers : len <= round_down_to_power_of_2(n) /\ count % len = 0})

WithSubtree(h, input) ==
  LET at == h.chunk.counter IN
  IF Len(input) <= ChunkLen
  THEN hasher_push_cv(h.stack, output_chaining_value(
         chunk_state_output(chunk_state_update(NewChunk(at), input))), at)
  ELSE LET pair == compress_subtree_to_parent_node(input, at)
           n    == Len(input) \div ChunkLen
       IN hasher_push_cv(hasher_push_cv(h.stack, pair[1], at), pair[2], at + n \div 2)

RECURSIVE WithSubtrees(_, _)
WithSubtrees(h, input) ==
  IF Len(input) > ChunkLen
  THEN LET len == SubtreeLen(h.chunk.counter * ChunkLen, Len(input)) IN
       WithSubtrees([stack |-> WithSubtree(h, Take(input, len)),
                     chunk |-> NewChunk(h.chunk.counter + len \div ChunkLen)], Drop(input, len))
  ELSE IF input = <<>> THEN h
  ELSE [chunk |-> chunk_state_update(h.chunk, input),
        stack |-> hasher_merge_cv_stack(h.stack, h.chunk.counter)]

(* A chunk that has been begun is finished first, and closed if there is    *)
(* more to come.                                                            *)
blake3_hasher_update(h, input) ==
  LET took  == Min({ChunkLen - chunk_state_len(h.chunk), Len(input)})
      chunk == chunk_state_update(h.chunk, Take(input, took))
      next  == [chunk |-> NewChunk(chunk.counter + 1),
                stack |-> hasher_push_cv(h.stack, output_chaining_value(chunk_state_output(chunk)),
                                         chunk.counter)]
  IN IF input = <<>> THEN h
     ELSE IF chunk_state_len(h.chunk) = 0 THEN WithSubtrees(h, input)
     ELSE IF Len(input) = took THEN [h EXCEPT !.chunk = chunk]
     ELSE WithSubtrees(next, Drop(input, took))

(* From the last output up the stack; with no chunk begun, the two values   *)
(* on top are the last output's.                                            *)
blake3_hasher_finalize(h) ==
  LET n      == Len(h.stack)
      begun  == chunk_state_len(h.chunk) > 0
      last   == IF begun THEN chunk_state_output(h.chunk) ELSE parent_output(h.stack[n - 1], h.stack[n])
      left   == Take(h.stack, IF begun THEN n ELSE n - 2)
      Up(cv, o) == parent_output(cv, output_chaining_value(o))
  IN output_root_bytes(IF n = 0 THEN chunk_state_output(h.chunk) ELSE FoldRight(Up, left, last))

-----------------------------------------------------------------------------
(* What the hash of a message is: a tree whose left subtrees are complete,  *)
(* every chunk numbered, the last compression of all flagged as the root.   *)
ChunkOf(data, counter) ==
  LET n  == IF data = <<>> THEN 1 ELSE (Len(data) + BlockLen - 1) \div BlockLen
      B(i) == SubSeq(data, (i - 1) * BlockLen + 1, Min({i * BlockLen, Len(data)}))
      F(i) == (IF i = 1 THEN {"CHUNK_START"} ELSE {}) \cup (IF i = n THEN {"CHUNK_END"} ELSE {})
      cv[i \in 0..(n - 1)] == IF i = 0 THEN Key ELSE Compress(cv[i - 1], B(i), counter, F(i))
  IN [cv |-> cv[n - 1], block |-> B(n), counter |-> counter, flags |-> F(n)]

RECURSIVE TreeOf(_, _)
TreeOf(data, counter) ==
  IF Len(data) <= ChunkLen THEN ChunkOf(data, counter)
  ELSE LET half == CHOOSE l \in {p * ChunkLen : p \in Powers} : l < Len(data) /\ 2 * l >= Len(data)
       IN parent_output(output_chaining_value(TreeOf(Take(data, half), counter)),
                        output_chaining_value(TreeOf(Drop(data, half), counter + half \div ChunkLen)))

HashOf(data) == output_root_bytes(TreeOf(data, 0))
=============================================================================
