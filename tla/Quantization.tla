---------------------------- MODULE Quantization ----------------------------
(***************************************************************************)
(* Weight-only quantization of one output channel:                         *)
(* nanovllm_pp/quantization/int8_weight_only.py.                           *)
(*                                                                         *)
(* A channel is a row of in_features weights.  Weights are integers in     *)
(* units of 1e-8, the least scale the code divides by, and the scale is    *)
(* the exact quotient max_abs / levels: the rounding of floats themselves  *)
(* is left out.  Bytes are numbers in 0 .. 255; & 0x0F, << 4, >> 4 and |   *)
(* of disjoint nibbles are written as what they do to such numbers.        *)
(***************************************************************************)
EXTENDS Integers, TLAPS

INT8 == 127  \* the levels of quantize_per_channel_int8
INT4 == 7    \* the levels of quantize_per_channel_int4

Abs(x) == IF x < 0 THEN -x ELSE x

\* max_abs bounds the row; the code takes weight.abs().amax(dim=1), and at least
\* 1e-8 so that a row of zeros has a scale.
IsMaxAbs(max_abs, row, n) ==
    /\ max_abs \in Nat \ {0}
    /\ \A i \in 1 .. n : Abs(row[i]) <= max_abs

\* torch.round of the quotient a / b: to the nearest integer, and to the even one
\* of two that are equally near.
Round(a, b) ==
    IF \/ 2 * (a % b) < b
       \/ 2 * (a % b) = b /\ (a \div b) % 2 = 0
    THEN a \div b
    ELSE (a \div b) + 1

Clamp(x, low, high) == IF x < low THEN low ELSE IF x > high THEN high ELSE x

\* round(weight / scale).clamp(-levels - 1, levels), with scale = max_abs / levels
Quantized(weight, max_abs, levels) ==
    Clamp(Round(weight * levels, max_abs), -levels - 1, levels)

QuantizedRow(row, n, max_abs, levels) ==
    [i \in 1 .. n |-> Quantized(row[i], max_abs, levels)]

\* qweight + 8, and the nibble 8, which represents zero, in the padding column.
Unsigned(qweight, n, i) == IF i <= n THEN qweight[i] + 8 ELSE 8

\* low | high of columns 0::2 and 1::2.
Packed(qweight, n) ==
    [k \in 1 .. (n + 1) \div 2 |->
        (Unsigned(qweight, n, 2 * k - 1) % 16) + (Unsigned(qweight, n, 2 * k) % 16) * 16]

\* dequantize_int4 before the scale: the low nibbles go to the even columns of
\* Python, which are the odd ones here, and the padding is cut off.
Unpacked(packed, in_features) ==
    [i \in 1 .. in_features |->
        IF i % 2 = 1 THEN (packed[(i + 1) \div 2] % 16) - 8
                     ELSE ((packed[i \div 2] \div 16) % 16) - 8]

-----------------------------------------------------------------------------
(* What the layers rely on.                                                *)

\* Rounding moves a quotient by half a unit at most.
LEMMA RoundIsNearest ==
    ASSUME NEW a \in Int, NEW b \in Nat \ {0}
    PROVE  /\ Round(a, b) \in Int
           /\ 2 * Abs(a - Round(a, b) * b) <= b
  <1> DEFINE q == a \div b
             r == a % b
  <1>1. q \in Int /\ r \in 0 .. b - 1 /\ a = b * q + r
    OBVIOUS
  <1>2. CASE 2 * r < b \/ (2 * r = b /\ q % 2 = 0)
    <2>1. Round(a, b) = q  BY <1>2 DEF Round
    <2>2. a - q * b = r  BY <1>1
    <2> QED  BY <1>1, <1>2, <2>1, <2>2 DEF Abs
  <1>3. CASE ~ (2 * r < b \/ (2 * r = b /\ q % 2 = 0))
    <2>1. Round(a, b) = q + 1  BY <1>3 DEF Round
    <2>2. a - (q + 1) * b = r - b  BY <1>1
    <2>3. 2 * r >= b  BY <1>1, <1>3
    <2> QED  BY <1>1, <2>1, <2>2, <2>3 DEF Abs
  <1> QED  BY <1>2, <1>3

\* The larger factor gives the larger product.
LEMMA ProductGrows ==
    ASSUME NEW x \in Int, NEW y \in Int, NEW b \in Nat, x <= y
    PROVE  x * b <= y * b
  <1>1. (y - x) * b >= 0  OBVIOUS
  <1>2. (y - x) * b = y * b - x * b  OBVIOUS
  <1>3. x * b \in Int /\ y * b \in Int  OBVIOUS
  <1> QED  BY <1>1, <1>2, <1>3

\* A weight within the channel's maximum stays within the levels, so the clamp
\* never cuts anything off.
LEMMA LevelsSuffice ==
    ASSUME NEW weight \in Int, NEW max_abs \in Nat \ {0}, NEW levels \in Nat \ {0},
           Abs(weight) <= max_abs
    PROVE  /\ Quantized(weight, max_abs, levels) = Round(weight * levels, max_abs)
           /\ Quantized(weight, max_abs, levels) \in -levels .. levels
  <1> DEFINE a == weight * levels
             q == Round(a, max_abs)
             high == levels * max_abs
  <1>1. a \in Int /\ high \in Int  OBVIOUS
  <1>2. /\ q \in Int
        /\ q * max_abs \in Int
        /\ 2 * Abs(a - q * max_abs) <= max_abs
    <2>1. q \in Int /\ 2 * Abs(a - q * max_abs) <= max_abs
      BY <1>1, RoundIsNearest
    <2> QED  BY <2>1
  <1>3. -high <= a /\ a <= high
    <2>1. -max_abs <= weight /\ weight <= max_abs  BY DEF Abs
    <2>2. weight * levels <= max_abs * levels  BY <2>1, ProductGrows
    <2>3. (-max_abs) * levels <= weight * levels  BY <2>1, ProductGrows
    <2>4. max_abs * levels = high /\ (-max_abs) * levels = -high  OBVIOUS
    <2> QED  BY <2>2, <2>3, <2>4
  <1>4. q <= levels
    <2>1. SUFFICES ASSUME q >= levels + 1 PROVE FALSE  BY <1>2
    <2>2. (levels + 1) * max_abs <= q * max_abs  BY <1>2, <2>1, ProductGrows
    <2>3. (levels + 1) * max_abs = high + max_abs  OBVIOUS
    <2> HIDE DEF a, q, high
    <2>4. q * max_abs - a >= max_abs  BY <1>1, <1>2, <1>3, <2>2, <2>3
    <2> QED  BY <1>1, <1>2, <2>4 DEF Abs
  <1>5. q >= -levels
    <2>1. SUFFICES ASSUME q <= -levels - 1 PROVE FALSE  BY <1>2
    <2>2. q * max_abs <= (-levels - 1) * max_abs  BY <1>2, <2>1, ProductGrows
    <2>3. (-levels - 1) * max_abs = -high - max_abs  OBVIOUS
    <2> HIDE DEF a, q, high
    <2>4. a - q * max_abs >= max_abs  BY <1>1, <1>2, <1>3, <2>2, <2>3
    <2> QED  BY <1>1, <1>2, <2>4 DEF Abs
  <1> HIDE DEF q
  <1>6. Clamp(q, -levels - 1, levels) = q  BY <1>2, <1>4, <1>5 DEF Clamp
  <1> QED  BY <1>2, <1>4, <1>5, <1>6 DEF Quantized, q

\* quantize_per_channel_int8 and dequantize_int8: every weight of a channel is
\* restored to within half a step of its scale, max_abs / levels; the statement
\* is multiplied by 2 * levels.
THEOREM QuantizationError ==
    ASSUME NEW n \in Nat, NEW row \in [1 .. n -> Int], NEW max_abs,
           IsMaxAbs(max_abs, row, n),
           NEW levels \in Nat \ {0}, NEW i \in 1 .. n
    PROVE  2 * Abs(row[i] * levels - QuantizedRow(row, n, max_abs, levels)[i] * max_abs)
              <= max_abs
  <1>1. /\ max_abs \in Nat \ {0}
        /\ row[i] \in Int
        /\ Abs(row[i]) <= max_abs
    BY DEF IsMaxAbs
  <1>2. QuantizedRow(row, n, max_abs, levels)[i] = Round(row[i] * levels, max_abs)
    BY <1>1, LevelsSuffice DEF QuantizedRow
  <1>3. row[i] * levels \in Int  BY <1>1
  <1> QED  BY <1>1, <1>2, <1>3, RoundIsNearest

\* Int8WeightOnlyLinear: its stored levels are signed bytes, each within half a
\* step of the weight.
THEOREM INT8StorageError ==
    ASSUME NEW n \in Nat, NEW row \in [1 .. n -> Int], NEW max_abs,
           IsMaxAbs(max_abs, row, n), NEW i \in 1 .. n
    PROVE  LET level == QuantizedRow(row, n, max_abs, INT8)[i]
           IN  /\ level \in -128 .. 127
               /\ 2 * Abs(row[i] * INT8 - level * max_abs) <= max_abs
  <1>1. INT8 \in Nat \ {0} /\ INT8 = 127  BY DEF INT8
  <1>2. max_abs \in Nat \ {0} /\ row[i] \in Int /\ Abs(row[i]) <= max_abs
    BY DEF IsMaxAbs
  <1>3. Quantized(row[i], max_abs, INT8) \in -INT8 .. INT8
    BY <1>1, <1>2, LevelsSuffice
  <1>4. QuantizedRow(row, n, max_abs, INT8)[i] = Quantized(row[i], max_abs, INT8)
    BY DEF QuantizedRow
  <1>5. QuantizedRow(row, n, max_abs, INT8)[i] \in -128 .. 127
    BY <1>1, <1>3, <1>4
  <1>6. 2 * Abs(row[i] * INT8 - QuantizedRow(row, n, max_abs, INT8)[i] * max_abs) <= max_abs
    BY <1>1, QuantizationError
  <1> QED  BY <1>5, <1>6

\* qweight + 8 fits into four bits.
LEMMA LevelIsNibble ==
    ASSUME NEW x \in -8 .. 7
    PROVE  x + 8 \in 0 .. 15
  <1>1. x \in Int /\ -8 <= x /\ x <= 7  OBVIOUS
  <1> QED  BY <1>1

\* quantize_per_channel_int4 packs two weights into a byte and dequantize_int4 takes
\* the same ones out again, in every position and for odd widths as for even ones.
THEOREM PackingRoundTrip ==
    ASSUME NEW n \in Nat, NEW qweight \in [1 .. n -> -8 .. 7]
    PROVE  /\ Packed(qweight, n) \in [1 .. (n + 1) \div 2 -> 0 .. 255]
           /\ Unpacked(Packed(qweight, n), n) = qweight
  <1> DEFINE U(i) == Unsigned(qweight, n, i)
             byte(k) == (U(2 * k - 1) % 16) + (U(2 * k) % 16) * 16
  <1>1. \A i \in Nat \ {0} : U(i) \in 0 .. 15 /\ (i <= n => U(i) = qweight[i] + 8)
    <2> SUFFICES ASSUME NEW i \in Nat \ {0}
                 PROVE  U(i) \in 0 .. 15 /\ (i <= n => U(i) = qweight[i] + 8)
      OBVIOUS
    <2>1. CASE i <= n
      <3>1. qweight[i] \in -8 .. 7  BY <2>1
      <3>2. U(i) = qweight[i] + 8  BY <2>1 DEF Unsigned
      <3>3. qweight[i] + 8 \in 0 .. 15  BY <3>1, LevelIsNibble
      <3> HIDE DEF U
      <3> QED  BY <3>2, <3>3
    <2>2. CASE ~ (i <= n)
      <3>1. U(i) = 8  BY <2>2 DEF Unsigned
      <3> HIDE DEF U
      <3> QED  BY <2>2, <3>1
    <2> QED  BY <2>1, <2>2
  <1>2. ASSUME NEW k \in Nat \ {0}
        PROVE  /\ byte(k) \in 0 .. 255
               /\ byte(k) % 16 = U(2 * k - 1)
               /\ (byte(k) \div 16) % 16 = U(2 * k)
    <2>1. U(2 * k - 1) \in 0 .. 15 /\ U(2 * k) \in 0 .. 15  BY <1>1
    <2> DEFINE low == U(2 * k - 1)
               high == U(2 * k)
    <2>2. low \in 0 .. 15 /\ high \in 0 .. 15  BY <2>1
    <2>3. byte(k) = (low % 16) + (high % 16) * 16  OBVIOUS
    <2> HIDE DEF U, byte, low, high
    <2>4. low % 16 = low /\ high % 16 = high  BY <2>2
    <2>5. byte(k) = low + high * 16  BY <2>3, <2>4
    <2>6. byte(k) \in 0 .. 255 /\ byte(k) % 16 = low /\ byte(k) \div 16 = high
      BY <2>2, <2>5
    <2> QED  BY <2>4, <2>6 DEF low, high
  <1>3. Packed(qweight, n) = [k \in 1 .. (n + 1) \div 2 |-> byte(k)]
    BY DEF Packed
  <1>4. Packed(qweight, n) \in [1 .. (n + 1) \div 2 -> 0 .. 255]
    BY <1>2, <1>3
  <1>5. ASSUME NEW i \in 1 .. n
        PROVE  Unpacked(Packed(qweight, n), n)[i] = qweight[i]
    <2>1. CASE i % 2 = 1
      <3> DEFINE k == (i + 1) \div 2
      <3>1. k \in 1 .. (n + 1) \div 2 /\ k \in Nat \ {0} /\ 2 * k - 1 = i  BY <2>1
      <3> HIDE DEF byte, k
      <3>2. Packed(qweight, n)[k] = byte(k)  BY <1>3, <3>1
      <3>3. Packed(qweight, n)[k] % 16 = U(i)  BY <1>2, <3>1, <3>2
      <3>4. Unpacked(Packed(qweight, n), n)[i] = (Packed(qweight, n)[k] % 16) - 8
        BY <2>1 DEF Unpacked, k
      <3> QED  BY <1>1, <3>3, <3>4
    <2>2. CASE i % 2 # 1
      <3> DEFINE k == i \div 2
      <3>1. k \in 1 .. (n + 1) \div 2 /\ k \in Nat \ {0} /\ 2 * k = i  BY <2>2
      <3> HIDE DEF byte, k
      <3>2. Packed(qweight, n)[k] = byte(k)  BY <1>3, <3>1
      <3>3. (Packed(qweight, n)[k] \div 16) % 16 = U(i)  BY <1>2, <3>1, <3>2
      <3>4. Unpacked(Packed(qweight, n), n)[i] = ((Packed(qweight, n)[k] \div 16) % 16) - 8
        BY <2>2 DEF Unpacked, k
      <3> QED  BY <1>1, <3>3, <3>4
    <2> QED  BY <2>1, <2>2
  <1>6. Unpacked(Packed(qweight, n), n) = [i \in 1 .. n |-> Unpacked(Packed(qweight, n), n)[i]]
    BY DEF Unpacked
  <1>7. Unpacked(Packed(qweight, n), n) = [i \in 1 .. n |-> qweight[i]]
    BY <1>5, <1>6
  <1> QED  BY <1>4, <1>7

\* Int4WeightOnlyLinear: what its forward pass multiplies with, read from the
\* packed bytes of any channel of any width, is within half a step of the weight.
THEOREM INT4StorageError ==
    ASSUME NEW n \in Nat, NEW row \in [1 .. n -> Int], NEW max_abs,
           IsMaxAbs(max_abs, row, n), NEW i \in 1 .. n
    PROVE  LET packed == Packed(QuantizedRow(row, n, max_abs, INT4), n)
           IN  2 * Abs(row[i] * INT4 - Unpacked(packed, n)[i] * max_abs) <= max_abs
  <1> DEFINE qweight == QuantizedRow(row, n, max_abs, INT4)
  <1>1. INT4 \in Nat \ {0} /\ INT4 = 7  BY DEF INT4
  <1>2. ASSUME NEW j \in 1 .. n
        PROVE  Quantized(row[j], max_abs, INT4) \in -8 .. 7
    <2>1. max_abs \in Nat \ {0} /\ row[j] \in Int /\ Abs(row[j]) <= max_abs
      BY DEF IsMaxAbs
    <2>2. Quantized(row[j], max_abs, INT4) \in -INT4 .. INT4
      BY <1>1, <2>1, LevelsSuffice
    <2> QED  BY <1>1, <2>2
  <1>3. qweight \in [1 .. n -> -8 .. 7]  BY <1>2 DEF QuantizedRow
  <1>4. Unpacked(Packed(qweight, n), n) = qweight  BY <1>3, PackingRoundTrip
  <1>5. 2 * Abs(row[i] * INT4 - qweight[i] * max_abs) <= max_abs
    BY <1>1, QuantizationError
  <1> QED  BY <1>4, <1>5

=============================================================================
