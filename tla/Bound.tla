------------------------------- MODULE Bound --------------------------------
(***************************************************************************)
(* The bound a jackpot hash is compared with: compact bits are expanded to   *)
(* a wide number, digit by digit, and multiplied by the work of a tile with  *)
(* saturation.  A number is the sequence of its digits, the least first; the *)
(* base and the number of digits are parameters, the code's 256 and 32.      *)
(***************************************************************************)
EXTENDS Integers, Sequences, SequencesExt

CONSTANTS
  Base,     \* values of a digit, even
  Digits,   \* digits of a hash and of a bound
  Factors   \* digits of the multiplier: the code's 8 of a uint64_t

ASSUME BaseAssumption == Base \in Nat /\ Base >= 2 /\ Base % 2 = 0
ASSUME WidthAssumption == Digits \in Nat \ {0} /\ Factors \in Nat \ {0}

Zero == [i \in 1..Digits |-> 0]
MaxBound == [i \in 1..Digits |-> Base - 1]

Value(num) == FoldRight(LAMBDA d, v : v * Base + d, num, 0)

(* this <= o: the first difference from the top decides. *)
le(a, b) ==
  LET differ == {i \in DOMAIN a : a[i] # b[i]}
      top    == CHOOSE i \in differ : \A j \in differ : j <= i
  IN differ = {} \/ a[top] < b[top]

(* The three digits of the mantissa, in a buffer with room to spare. *)
Spread(mantissa) ==
  [i \in 1..(Digits + 8) |-> IF i <= 3 THEN (mantissa \div Base^(i - 1)) % Base ELSE 0]

(* Where a digit of the target comes from; both shifts stop at the buffer. *)
SourceDigitFar(i, exponent) == i + 4 - exponent
SourceDigit(i, exponent)    == i + 3 - exponent

nbits_to_difficulty(exponent, mantissa) ==
  IF mantissa = 0 \/ exponent = 0 \/ mantissa >= Base^3 \div 2 THEN Zero
  ELSE [i \in 1..Digits |-> LET from == SourceDigit(i, exponent) IN
          IF from \in 1..(Digits + 8) THEN Spread(mantissa)[from] ELSE 0]

(* One digit of a times the factor is added from its own place on, then the  *)
(* carries are normalised; a digit beyond the last is an overflow.           *)
Width == Digits + 2 * Factors

AddedAt(a, factor, p) ==
  FoldLeftDomain(LAMBDA sum, i : sum + (IF p < i THEN 0 ELSE ((a[i] * factor) \div Base^(p - i)) % Base), 0, a)

Normalised(acc) ==
  LET carry[p \in 0..Width] == IF p = 0 THEN 0 ELSE (acc[p] + carry[p - 1]) \div Base
  IN [p \in 1..Width |-> (acc[p] + carry[p - 1]) % Base]

mul_u256_u64_saturate(a, factor) ==
  LET prod == Normalised([p \in 1..Width |-> AddedAt(a, factor, p)])
  IN IF factor = 0 THEN Zero
     ELSE IF \E p \in (Digits + 1)..Width : prod[p] # 0 THEN MaxBound
     ELSE SubSeq(prod, 1, Digits)

(* What a hash is compared with: the pool's target, sent with the most       *)
(* significant digit first, where there is one, or the header's bits.        *)
bound(target, exponent, mantissa, factor) ==
  mul_u256_u64_saturate(IF target # <<>> THEN Reverse(target)
                        ELSE nbits_to_difficulty(exponent, mantissa), factor)
=============================================================================
