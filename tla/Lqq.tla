-------------------------------- MODULE Lqq --------------------------------
(***************************************************************************)
(* The quantisation of lqq.hpp: a group of signed bytes becomes half       *)
(* bytes, a scale and an offset, and comes back, four values at a time, by *)
(* one multiplication and one addition of 32-bit words.  A value may not   *)
(* carry into the next.                                                    *)
(***************************************************************************)
EXTENDS Integers, Functions

Byte == 256

(* std::round of x / d, for x that is not negative *)
Round(x, d) == (2 * x + d) \div (2 * d)

AtLeast(x, low) == IF x < low THEN low ELSE x
AtMost(x, high) == IF x > high THEN high ELSE x

Least(vec) == CHOOSE x \in Range(vec) : \A y \in Range(vec) : x <= y
Greatest(vec) == CHOOSE x \in Range(vec) : \A y \in Range(vec) : y <= x

(* Differences are cut to a byte. *)
lqq_quant(vec) ==
  LET min_i8 == Least(vec)
      scale == AtLeast(Round(Greatest(vec) - min_i8, 15), 1) % Byte
  IN [scale |-> scale,
      zero |-> (128 + min_i8) % Byte,
      u4 |-> [i \in DOMAIN vec |-> AtMost(Round((vec[i] - min_i8) % Byte, scale), 15)]]

(* A word of four bytes, the lowest first, and one of its bytes. *)
Word == Byte * (Byte * (Byte * Byte))
u8u4_pair(b) == b[0] + Byte * (b[1] + Byte * (b[2] + Byte * b[3]))
u8(v, k) ==
  CASE k = 0 -> v % Byte
    [] k = 1 -> (v \div Byte) % Byte
    [] k = 2 -> ((v \div Byte) \div Byte) % Byte
    [] k = 3 -> (((v \div Byte) \div Byte) \div Byte) % Byte

mock_zero(zero) == u8u4_pair([k \in 0 .. 3 |-> zero])

(* A byte with its highest bit flipped (^ 0x80), taken as signed. *)
Signed(byte) == byte - 128

lqq_dequant(u4, scale, zero) ==
  LET tmp(j) == u8u4_pair([k \in 0 .. 3 |-> u4[4 * j + k]])
      rmp(j) == (tmp(j) * scale + mock_zero(zero)) % Word
  IN [i \in DOMAIN u4 |-> Signed(u8(rmp(i \div 4), i % 4))]

=============================================================================
