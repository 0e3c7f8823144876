------------------------------ MODULE Patterns ------------------------------
(***************************************************************************)
(* The rows and columns of a jackpot tile: a periodic pattern of indices,    *)
(* its six-byte form in the header, and the partition of a matrix's rows     *)
(* into the tiles that start at its valid offsets.                          *)
(*                                                                         *)
(* A shape is three dimensions <<stride, length>>, the innermost first.     *)
(***************************************************************************)
EXTENDS Integers, Sequences, SequencesExt

Refused == <<>>   \* "pattern not periodic": the process exits

IsPeriod(p, period) ==
  /\ Len(p) % period = 0
  /\ \A i \in 1..(Len(p) - period) : p[i] + p[period + 1] = p[i + period]

(* The dimensions of p, outermost first: the smallest period each time. *)
RECURSIVE Dimensions(_)
Dimensions(p) ==
  LET periods == {d \in 1..(Len(p) - 1) : IsPeriod(p, d)}
      period  == CHOOSE d \in periods : \A e \in periods : d <= e
  IN IF Len(p) <= 1 THEN <<>>
     ELSE IF periods = {} THEN << Refused >>
     ELSE << <<p[period + 1], Len(p) \div period>> >> \o Dimensions(SubSeq(p, 1, period))

(* Three dimensions, however many the list has. *)
from_list(p) ==
  LET dims   == Reverse(Dimensions(p))
      period == IF dims = <<>> THEN 1 ELSE Last(dims)[1] * Last(dims)[2]
  IN IF Refused \in ToSet(dims) THEN Refused
     ELSE SubSeq(dims \o [i \in 1..3 |-> <<period, 1>>], 1, 3)

period(shape) == shape[3][1] * shape[3][2]
size(shape)   == shape[1][2] * shape[2][2] * shape[3][2]

(* The offset within each dimension's period, from the outermost inwards. *)
OffsetLoose(offset, dim) == offset % (dim[1] * dim[2]) <= dim[1]
OffsetFits(offset, dim)  == offset % (dim[1] * dim[2]) < dim[1]

offset_is_valid(shape, offset) ==
  LET in3 == offset % (shape[3][1] * shape[3][2])
      in2 == in3 % (shape[2][1] * shape[2][2])
  IN OffsetFits(offset, shape[3]) /\ OffsetFits(in3, shape[2]) /\ OffsetFits(in2, shape[1])

to_list(shape) ==
  LET Spread(list, dim) == [i \in 1..(Len(list) * dim[2]) |->
                              list[((i - 1) % Len(list)) + 1] + ((i - 1) \div Len(list)) * dim[1]]
  IN FoldLeft(Spread, <<0>>, shape)

(* Each stride as a multiple of the span before it, less one, in a byte. *)
to_bytes(shape) ==
  LET span == <<1, shape[1][1] * shape[1][2], shape[2][1] * shape[2][2]>>
  IN [i \in 1..6 |-> LET dim == shape[(i + 1) \div 2] IN
        (IF i % 2 = 1 THEN dim[1] \div span[(i + 1) \div 2] - 1 ELSE dim[2] - 1) % 256]

(* The tiles: the pattern at each valid offset. *)
threads_partition(shape, total) ==
  LET valid == SelectSeq([i \in 1..total |-> i - 1], LAMBDA i : offset_is_valid(shape, i))
  IN [t \in DOMAIN valid |-> [u \in DOMAIN to_list(shape) |-> valid[t] + to_list(shape)[u]]]

(* The shape six bytes stand for. *)
ShapeOf(b) ==
  LET s1 == b[1] + 1
      s2 == s1 * (b[2] + 1) * (b[3] + 1)
      s3 == s2 * (b[4] + 1) * (b[5] + 1)
  IN <<<<s1, b[2] + 1>>, <<s2, b[4] + 1>>, <<s3, b[6] + 1>>>>
=============================================================================
