---------------------------- MODULE Kernel_proofs ----------------------------
(***************************************************************************)
(* Proofs about the kernels of one GPU: the machine that runs them, and    *)
(* the integer arithmetic they are made of.                                *)
(*                                                                         *)
(* Division: multiplying by the factor and shifting is the division, for   *)
(* words of every width, as long as the number to be divided leaves the    *)
(* highest bit free, which is what magic_div.s says of itself.             *)
(*                                                                         *)
(* Lqq: a group within the range that lqq_quant asserts comes back, every  *)
(* value by itself and at most eight off.                                  *)
(*                                                                         *)
(* TileOrder: the task numbers of a launch bring up every tile once, for   *)
(* launches of every size, as long as the order is made for them.          *)
(*                                                                         *)
(* WaveLds: whatever its waves execute, barriers keep them abreast and     *)
(* never stop all of them; and where every wave goes through as many       *)
(* barriers and waits for its loads, the workgroup ends clean.  A program  *)
(* that has a proof outline computes the right sums, however its waves are *)
(* interleaved.                                                            *)
(***************************************************************************)
EXTENDS WaveLds, WaveOutline, Lqq, FiniteSetTheorems, WellFoundedInduction, TLAPS


(***************************************************************************)
(* Division.                                                               *)
(***************************************************************************)

(* What the provers are not told about powers of two. *)
Powers ==
  /\ 2^0 = 1
  /\ \A s \in Nat : 2^s \in Nat \ {0} /\ 2^(s + 1) = 2 * 2^s

(* A quotient is the number between whose multiples the dividend lies. *)
LEMMA QuotientIs ==
  ASSUME NEW a \in Int, NEW b \in Nat \ {0}, NEW q \in Int, b * q <= a, a < b * q + b
  PROVE  a \div b = q /\ a % b = a - b * q
<1> DEFINE r == a \div b
           s == a % b
<1>1. r \in Int /\ s \in 0 .. b - 1 /\ a = b * r + s
  BY SMT
<1>2. r = q
  <2> SUFFICES ASSUME r # q PROVE FALSE
    OBVIOUS
  <2>1. b * (r - q) < b /\ b * (r - q) > -b
    BY <1>1, SMT
  <2>2. CASE r >= q + 1
    <3>1. b * (r - q) >= b
      BY <1>1, <2>2, SMT
    <3> QED BY <2>1, <3>1, <1>1, SMT
  <2>3. CASE r <= q - 1
    <3>1. b * (r - q) <= -b
      BY <1>1, <2>3, SMT
    <3> QED BY <2>1, <3>1, <1>1, SMT
  <2> QED BY <2>2, <2>3, <1>1, SMT
<1> QED BY <1>1, <1>2, SMT

(* Products of numbers that are in order are in order. *)
LEMMA Scaled ==
  ASSUME NEW a \in Int, NEW b \in Int, NEW c \in Nat \ {0}
  PROVE  (a <= b <=> c * a <= c * b) /\ (a < b <=> c * a < c * b)
<1>1. ASSUME a < b PROVE c * a < c * b
  <2>1. c * (b - a) > 0
    BY <1>1, SMT
  <2> QED BY <2>1, SMT
<1>2. ASSUME b < a PROVE c * b < c * a
  <2>1. c * (a - b) > 0
    BY <1>2, SMT
  <2> QED BY <2>1, SMT
<1> QED BY <1>1, <1>2, SMT

(***************************************************************************)
(* The argument, for a word of w values and a power p.  The factor with    *)
(* the bit above the word, k, is a little more than w * p / d: d * k       *)
(* exceeds w * p by e, at most d.  Multiplied by n and divided by w * p,   *)
(* that excess is less than 1 / d, too little to reach the next quotient.  *)
(***************************************************************************)

IsFactor(m, w, p, d) == m \in 1 .. w - 1 /\ d <= p /\ w * p < d * (m + w) /\ d * (m + w) <= w * p + d

(* The host computes such a factor, and it fits the word. *)
LEMMA Factor ==
  ASSUME NEW w \in Nat \ {0}, NEW d \in Nat \ {0}, NEW p \in Nat,
         d <= p, p < 2 * d, 2 * d <= w,
         NEW m, m = (w * (p - d)) \div d + 1
  PROVE  IsFactor(m, w, p, d)
<1> DEFINE x == w * (p - d)
<1>1. x \in Nat /\ m \in Nat \ {0} /\ d * (m - 1) <= x /\ x < d * (m - 1) + d
  <2>1. x \in Nat
    BY SMT
  <2>2. m - 1 = x \div d
    BY <2>1, SMT
  <2> HIDE DEF x
  <2>3. x \div d \in Nat /\ d * (x \div d) <= x /\ x < d * (x \div d) + d
    BY <2>1, SMT
  <2> QED BY <2>1, <2>2, <2>3, m = x \div d + 1, SMT DEF x
<1>2. x = w * p - w * d /\ d * (m + w) = d * m + w * d /\ d * (m - 1) = d * m - d
  BY <1>1, SMT
<1>3. w * p < d * (m + w) /\ d * (m + w) <= w * p + d
  BY <1>1, <1>2, SMT
<1>4. m < w
  <2>1. w * (p - d) <= w * (d - 1)
    BY Scaled, SMT
  <2>2. w * (d - 1) = w * d - w
    BY SMT
  <2>3. d * m <= w * d - d
    BY <1>1, <1>2, <2>1, <2>2, SMT
  <2>4. d * m < d * w
    BY <1>1, <2>3, SMT
  <2> QED BY <1>1, <2>4, Scaled, SMT
<1> QED BY <1>1, <1>3, <1>4, SMT DEF IsFactor

(* With such a factor, high product, addition and shift yield the quotient, and
   the addition does not overflow. *)
LEMMA Quotient ==
  ASSUME NEW w \in Nat \ {0}, NEW d \in Nat \ {0}, NEW p \in Nat, NEW n \in Nat,
         2 * n <= w, NEW m, IsFactor(m, w, p, d)
  PROVE  (m * n) \div w + n \in 0 .. w - 1 /\ ((m * n) \div w + n) \div p = n \div d
<1> USE DEF IsFactor
<1> DEFINE mn == m * n
           t == mn \div w + n
           kn == mn + w * n
           q == n \div d
           pq == p * q
           wpn == w * p * n
<1>1. mn \in Nat /\ kn \in Nat /\ t \in Nat /\ w * t <= kn /\ kn < w * t + w
  <2>1. mn \in Nat
    BY SMT
  <2> HIDE DEF mn
  <2>2. mn \div w \in Nat /\ w * (mn \div w) <= mn /\ mn < w * (mn \div w) + w
    BY <2>1, SMT
  <2>3. w * t = w * (mn \div w) + w * n /\ w * n \in Nat
    BY <2>2, SMT
  <2> QED BY <2>1, <2>2, <2>3, SMT
<1>2. q \in Nat /\ d * q <= n /\ n < d * q + d /\ pq \in Nat
  BY SMT
<1>3. t < w
  <2>1. CASE n = 0
    <3>1. mn = 0 /\ 0 \div w = 0
      BY <2>1, SMT
    <3> QED BY <2>1, <3>1, SMT
  <2>2. CASE n > 0
    <3>1. mn < w * n
      BY <2>2, SMT
    <3>2. kn < w * (2 * n) /\ w * (2 * n) <= w * w
      <4>1. w * (2 * n) = w * n + w * n
        BY SMT
      <4> QED BY <3>1, <4>1, Scaled, SMT
    <3>3. w * t < w * w
      BY <1>1, <3>2, SMT
    <3> QED BY <1>1, <3>3, Scaled, SMT
  <2> QED BY <2>1, <2>2
<1>4. wpn <= d * kn /\ d * kn <= wpn + d * n
  <2>1. d * kn = d * (m + w) * n
    BY SMT
  <2>2. w * p * n <= d * (m + w) * n /\ d * (m + w) * n <= (w * p + d) * n
    BY SMT
  <2>3. (w * p + d) * n = w * p * n + d * n
    BY SMT
  <2> HIDE DEF kn
  <2> QED BY <2>1, <2>2, <2>3, SMT
<1>5. pq <= t
  <2>1. w * p * (d * q) <= wpn
    BY <1>2, Scaled, SMT
  <2>2. d * (w * pq) <= d * kn
    <3>1. d * (w * pq) = w * p * (d * q)
      BY <1>2, SMT
    <3> QED BY <1>1, <1>4, <2>1, <3>1, SMT
  <2>3. w * pq <= kn
    BY <1>1, <1>2, <2>2, Scaled, SMT
  <2>4. w * pq < w * (t + 1)
    <3>1. w * (t + 1) = w * t + w
      BY <1>1, SMT
    <3> QED BY <1>1, <1>2, <2>3, <3>1, SMT
  <2> QED BY <1>1, <1>2, <2>4, Scaled, SMT
<1>6. t < pq + p
  <2>1. d * n < w * p
    BY SMT
  <2>2. wpn <= w * p * (d * q + d - 1)
    BY <1>2, Scaled, SMT
  <2>3. w * p * (d * q + d - 1) = d * (w * (pq + p)) - w * p
    BY <1>2, SMT
  <2>4. d * kn < d * (w * (pq + p))
    BY <1>1, <1>2, <1>4, <2>1, <2>2, <2>3, SMT
  <2>5. kn < w * (pq + p)
    BY <1>1, <1>2, <2>4, Scaled, SMT
  <2>6. w * t < w * (pq + p)
    BY <1>1, <1>2, <2>5, SMT
  <2> QED BY <1>1, <1>2, <2>6, Scaled, SMT
<1>7. t \div p = q
  <2>1. t \in Int /\ p \in Nat \ {0} /\ q \in Int /\ p * q <= t /\ t < p * q + p
    BY <1>1, <1>2, <1>5, <1>6, SMT
  <2> HIDE DEF t, q
  <2> QED BY <2>1, QuotientIs
<1> QED BY <1>1, <1>3, <1>7, SMT

(* The search for the shift ends: the powers below the highest bit reach the
   divisor, and the first that does is where it stops. *)
LEMMA SearchEnds ==
  ASSUME Powers, NEW bits \in Nat \ {0}, NEW d \in Nat \ {0}, 2 * d <= 2^bits
  PROVE  \E s \in 0 .. bits - 1 : Stops(d, s)
<1> DEFINE T == {s \in 0 .. bits - 1 : 2^s >= d}
           L == OpToRel(<, Nat)
<1>1. bits - 1 \in T
  <2>1. bits - 1 \in Nat /\ (bits - 1) + 1 = bits
    OBVIOUS
  <2>2. 2^(bits - 1) \in Nat /\ 2^bits = 2 * 2^(bits - 1)
    <3>1. 2^(bits - 1) \in Nat /\ 2^((bits - 1) + 1) = 2 * 2^(bits - 1)
      BY <2>1 DEF Powers
    <3> QED BY <2>1, <3>1
  <2>3. 2^(bits - 1) >= d
    BY <2>2
  <2> QED BY <2>1, <2>3
<1>2. T \subseteq Nat /\ T # {}
  <2>1. \A r \in 0 .. bits - 1 : r \in Nat
    OBVIOUS
  <2>2. T # {}
    BY <1>1
  <2>3. T \subseteq 0 .. bits - 1
    OBVIOUS
  <2> QED BY <2>1, <2>2, <2>3
<1>3. PICK s \in T : \A r \in T : ~ (r < s)
  <2> HIDE DEF T, L
  <2>1. IsWellFoundedOn(L, Nat)
    BY NatLessThanWellFounded DEF L
  <2>2. PICK s \in T : \A r \in T : ~ (<<r, s>> \in L)
    BY <1>2, <2>1, WFMin
  <2>3. \A r \in T : ~ (r < s)
    BY <1>2, <2>2 DEF L, OpToRel
  <2> QED BY <2>3
<1>4. s = 0 \/ 2^(s - 1) < d
  <2> SUFFICES ASSUME s # 0 PROVE 2^(s - 1) < d
    OBVIOUS
  <2>1. s - 1 \in 0 .. bits - 1 /\ s - 1 < s
    OBVIOUS
  <2>2. s - 1 \notin T
    BY <1>3, <2>1
  <2>3. 2^(s - 1) \in Nat
    BY <2>1 DEF Powers
  <2> QED BY <2>1, <2>2, <2>3
<1> QED BY <1>4 DEF Stops

(* magic_div_u32_gen and .mdiv_u32_rem: the kernel computes quotient and remainder,
   and the factor fits the word, for every divisor and number that leave the
   highest bit of the word free. *)
THEOREM MagicDivision ==
  ASSUME Powers,
         NEW bits \in Nat \ {0}, NEW d \in Nat \ {0}, NEW n \in Nat,
         2 * d <= 2^bits, 2 * n <= 2^bits
  PROVE  LET m == magic_div_u32_gen(d, bits)
         IN /\ m.magic \in 1 .. 2^bits - 1
            /\ mdiv_u32(n, m, bits) = n \div d
            /\ mdiv_u32_rem(n, m, d, bits) = n % d
<1> DEFINE shift == CHOOSE s \in 0 .. bits - 1 : Stops(d, s)
           m == (2^bits * (2^shift - d)) \div d + 1
           t == (m * n) \div 2^bits + n
           q == n \div d
<1>1. shift \in 0 .. bits - 1 /\ Stops(d, shift)
  BY SearchEnds
<1> HIDE DEF shift
<1>2. 2^bits \in Nat \ {0} /\ 2^shift \in Nat /\ d <= 2^shift
  BY <1>1, SMT DEF Powers, Stops
<1>3. 2^shift < 2 * d
  <2>1. CASE shift = 0
    BY <2>1, SMT DEF Powers
  <2>2. CASE shift # 0
    <3>1. shift - 1 \in Nat /\ (shift - 1) + 1 = shift /\ 2^(shift - 1) < d
      BY <1>1, <2>2, SMT DEF Stops
    <3>2. 2^((shift - 1) + 1) = 2 * 2^(shift - 1) /\ 2^(shift - 1) \in Nat
      BY <3>1 DEF Powers
    <3> QED BY <3>1, <3>2, SMT
  <2> QED BY <2>1, <2>2
<1> DEFINE w == 2^bits
           p == 2^shift
<1>4. IsFactor(m, w, p, d)
  <2>1. w \in Nat \ {0} /\ p \in Nat /\ d <= p /\ p < 2 * d /\ 2 * d <= w /\ m = (w * (p - d)) \div d + 1
    BY <1>2, <1>3
  <2> HIDE DEF w, p, m
  <2> QED BY <2>1, Factor
<1>5. t \in 0 .. w - 1 /\ t \div p = q
  <2>1. w \in Nat \ {0} /\ p \in Nat /\ d <= p /\ 2 * n <= w /\ t = (m * n) \div w + n
    BY <1>2
  <2> HIDE DEF w, p, m, t
  <2>2. (m * n) \div w + n \in 0 .. w - 1 /\ ((m * n) \div w + n) \div p = n \div d
    BY <1>4, <2>1, Quotient
  <2> QED BY <2>1, <2>2
<1>6. ASSUME NEW x \in 0 .. w - 1 PROVE x % w = x
  <2>1. w \in Nat \ {0}
    BY <1>2
  <2>2. x \in Nat /\ w * 0 <= x /\ x < w * 0 + w
    BY <2>1, SMT
  <2> HIDE DEF w
  <2> QED BY <2>1, <2>2, QuotientIs, SMT
<1>7. q \in Nat /\ d * q <= n /\ n < d * q + d /\ d * q \in Nat
  BY SMT
<1>8. n < w
  <2>1. w \in Nat \ {0} /\ 2 * n <= w
    BY <1>2
  <2> HIDE DEF w
  <2> QED BY <2>1, SMT
<1>9. n % d = n - d * q
  BY SMT
<1>10. (d * q) % w = d * q /\ (n - d * q) % w = n - d * q
  <2>1. w \in Nat \ {0} /\ d * q \in 0 .. w - 1 /\ n - d * q \in 0 .. w - 1
    <3>1. w \in Nat \ {0}
      BY <1>2
    <3> DEFINE dq == d * q
    <3>2. dq \in Nat /\ dq <= n /\ n < w
      BY <1>7, <1>8
    <3> HIDE DEF w, dq
    <3>3. dq \in 0 .. w - 1 /\ n - dq \in 0 .. w - 1
      BY <3>1, <3>2, SMT
    <3> QED BY <3>1, <3>3 DEF dq
  <2> QED BY <1>6, <2>1
<1>11. magic_div_u32_gen(d, bits) = [magic |-> m, shift |-> shift]
  BY DEF magic_div_u32_gen, shift
<1>12. mdiv_u32(n, [magic |-> m, shift |-> shift], bits) = (t % w) \div p
  BY DEF mdiv_u32, Alu32
<1>13. mdiv_u32(n, [magic |-> m, shift |-> shift], bits) = q
  <2> HIDE DEF w, p, m, t, q
  <2> QED BY <1>5, <1>6, <1>12
<1>14. mdiv_u32_rem(n, [magic |-> m, shift |-> shift], d, bits) = (n - ((d * q) % w)) % w
  BY <1>13 DEF mdiv_u32_rem, Alu32
<1>15. m \in 1 .. w - 1
  BY <1>4 DEF IsFactor
<1> QED BY <1>9, <1>10, <1>11, <1>13, <1>14, <1>15

(***************************************************************************)
(* Lqq.                                                                    *)
(***************************************************************************)

(* The range of the assertions in lqq_quant. *)
Limit == 119

(* What the rounded quotient is: within half a divisor of the number. *)
LEMMA Rounded ==
  ASSUME NEW x \in Nat, NEW d \in Nat \ {0}
  PROVE  Round(x, d) \in Nat /\ 2 * (d * Round(x, d)) <= 2 * x + d /\ 2 * x < 2 * (d * Round(x, d)) + d
<1> DEFINE a == 2 * x + d
           b == 2 * d
           q == a \div b
<1>1. a \in Nat /\ b \in Nat \ {0}
  BY SMT
<1>2. q \in Nat /\ b * q <= a /\ a < b * q + b
  <2> HIDE DEF a, b
  <2> QED BY <1>1, SMT
<1>3. b * q = 2 * (d * q)
  <2> HIDE DEF q
  <2> QED BY <1>2, SMT
<1>4. Round(x, d) = q
  BY DEF Round
<1> HIDE DEF q
<1> QED BY <1>2, <1>3, <1>4, SMT

(* One value x above the lowest of its group, whose values differ by w: what its
   half byte u stands for is at most eight off, and less than eight above. *)
LEMMA Near ==
  ASSUME NEW w \in 0 .. 2 * Limit, NEW x \in 0 .. w,
         NEW scale, scale = AtLeast(Round(w, 15), 1),
         NEW u, u = AtMost(Round(x, scale), 15)
  PROVE  scale \in 1 .. 16 /\ u \in 0 .. 15 /\ u * scale \in x - 8 .. x + 8
<1> DEFINE s == Round(w, 15)
           q == Round(x, scale)
<1>1. s \in Nat /\ 30 * s <= 2 * w + 15 /\ 2 * w < 30 * s + 15
  <2>1. w \in Nat /\ 15 \in Nat \ {0}
    BY SMT DEF Limit
  <2>2. s \in Nat /\ 2 * (15 * s) <= 2 * w + 15 /\ 2 * w < 2 * (15 * s) + 15
    BY <2>1, Rounded
  <2> HIDE DEF s
  <2> QED BY <2>1, <2>2, SMT
<1>2. scale \in 1 .. 16 /\ 2 * w < 30 * scale + 15
  <2>1. scale = IF s < 1 THEN 1 ELSE s
    BY DEF AtLeast
  <2> HIDE DEF s
  <2> QED BY <1>1, <2>1, SMT DEF Limit
<1>3. q \in Nat /\ 2 * (scale * q) <= 2 * x + scale /\ 2 * x < 2 * (scale * q) + scale
  <2>1. x \in Nat /\ scale \in Nat \ {0}
    BY <1>2, SMT DEF Limit
  <2> QED BY <2>1, Rounded
<1> HIDE DEF s, q
<1>4. u = IF q > 15 THEN 15 ELSE q
  BY DEF AtMost, q
<1> DEFINE p == scale * q
<1>5. CASE q <= 15
  <2>1. u = q /\ u * scale = p /\ p \in Int
    BY <1>2, <1>3, <1>4, <1>5, SMT
  <2>2. x \in Int /\ 2 * p <= 2 * x + scale /\ 2 * x < 2 * p + scale
    BY <1>3, SMT DEF Limit
  <2> HIDE DEF p
  <2>3. p \in x - 8 .. x + 8
    BY <1>2, <2>1, <2>2, SMT
  <2>4. u \in 0 .. 15
    BY <1>3, <1>5, <2>1, SMT
  <2> QED BY <1>2, <2>1, <2>3, <2>4
<1>6. CASE q > 15
  <2>1. scale * 16 <= scale * q
    BY <1>2, <1>3, <1>6, SMT
  <2>2. u * scale = 15 * scale
    BY <1>2, <1>4, <1>6, SMT
  <2>3. 30 * scale <= 2 * x
    BY <1>2, <1>3, <2>1, SMT
  <2> QED BY <1>2, <1>4, <1>6, <2>2, <2>3, SMT
<1> QED BY <1>3, <1>5, <1>6, SMT

(* The lowest digit and the rest of a number. *)
LEMMA Digit ==
  ASSUME NEW x \in 0 .. Byte - 1, NEW r \in Nat
  PROVE  /\ x + Byte * r \in Nat
         /\ (x + Byte * r) % Byte = x
         /\ (x + Byte * r) \div Byte = r
BY SMT DEF Byte

(* A number that fits a word of w values is not cut. *)
LEMMA Fits ==
  ASSUME NEW w \in Nat \ {0}, NEW x \in 0 .. w - 1
  PROVE  x % w = x
<1> DEFINE q == x \div w
           r == x % w
<1>1. q \in Int /\ r \in 0 .. w - 1 /\ x = w * q + r
  BY SMT
<1> HIDE DEF q, r
<1>2. CASE q >= 1
  <2>1. w * q >= w
    BY <1>1, <1>2, SMT
  <2> QED BY <1>1, <2>1, SMT
<1>3. CASE q <= -1
  <2>1. w * q <= -w
    BY <1>1, <1>3, SMT
  <2> QED BY <1>1, <2>1, SMT
<1>4. CASE q = 0
  BY <1>1, <1>4, SMT DEF r
<1> QED BY <1>1, <1>2, <1>3, <1>4, SMT

(* A number below m, with a digit below it. *)
LEMMA Below ==
  ASSUME NEW x \in 0 .. Byte - 1, NEW m \in Nat, NEW r \in 0 .. m - 1
  PROVE  x + Byte * r \in 0 .. Byte * m - 1
BY SMT DEF Byte

(* Four bytes in a word do not touch. *)
LEMMA Bytes ==
  ASSUME NEW b \in [0 .. 3 -> 0 .. Byte - 1]
  PROVE  /\ u8u4_pair(b) \in 0 .. Word - 1
         /\ \A k \in 0 .. 3 : u8(u8u4_pair(b), k) = b[k]
<1>1. b[0] \in 0 .. Byte - 1 /\ b[1] \in 0 .. Byte - 1 /\ b[2] \in 0 .. Byte - 1 /\ b[3] \in 0 .. Byte - 1
  BY SMT DEF Byte
<1> DEFINE r2 == b[2] + Byte * b[3]
           r1 == b[1] + Byte * r2
           v == b[0] + Byte * r1
<1>2. b[3] \in Nat /\ b[3] % Byte = b[3]
  BY <1>1, SMT DEF Byte
<1>3. r2 \in Nat /\ r2 % Byte = b[2] /\ r2 \div Byte = b[3]
  BY <1>1, <1>2, Digit
<1>4. r1 \in Nat /\ r1 % Byte = b[1] /\ r1 \div Byte = r2
  <2> HIDE DEF r2
  <2> QED BY <1>1, <1>3, Digit
<1>5. v \in Nat /\ v % Byte = b[0] /\ v \div Byte = r1
  <2> HIDE DEF r1
  <2> QED BY <1>1, <1>4, Digit
<1>6. u8u4_pair(b) = v
  BY DEF u8u4_pair
<1>7. v \in 0 .. Word - 1
  <2>1. Byte \in Nat /\ Byte * Byte \in Nat /\ Byte * (Byte * Byte) \in Nat
    BY SMT DEF Byte
  <2>2. r2 \in 0 .. Byte * Byte - 1
    BY <1>1, <2>1, Below
  <2>3. r1 \in 0 .. Byte * (Byte * Byte) - 1
    <3> HIDE DEF r2
    <3> QED BY <1>1, <2>1, <2>2, Below
  <2> HIDE DEF r1
  <2> QED BY <1>1, <2>1, <2>3, Below DEF Word
<1> HIDE DEF v, r1, r2
<1>8. ASSUME NEW k \in 0 .. 3 PROVE u8(v, k) = b[k]
  <2>1. CASE k = 0
    BY <1>5, <2>1 DEF u8
  <2>2. CASE k = 1
    BY <1>4, <1>5, <2>2 DEF u8
  <2>3. CASE k = 2
    BY <1>3, <1>4, <1>5, <2>3 DEF u8
  <2>4. CASE k = 3
    BY <1>2, <1>3, <1>4, <1>5, <2>4 DEF u8
  <2>5. k = 0 \/ k = 1 \/ k = 2 \/ k = 3
    BY SMT
  <2> QED BY <2>1, <2>2, <2>3, <2>4, <2>5
<1> QED BY <1>6, <1>7, <1>8

(* A word that is multiplied, and added to, byte by byte. *)
LEMMA ByteByByte ==
  ASSUME NEW u \in [0 .. 3 -> Nat], NEW scale \in Nat, NEW zero \in Nat,
         \A k \in 0 .. 3 : u[k] * scale + zero \in 0 .. Byte - 1,
         NEW k \in 0 .. 3
  PROVE  u8((u8u4_pair(u) * scale + mock_zero(zero)) % Word, k) = u[k] * scale + zero
<1> DEFINE b == [j \in 0 .. 3 |-> u[j] * scale + zero]
<1>1. b \in [0 .. 3 -> 0 .. Byte - 1]
  OBVIOUS
<1>2. u8u4_pair(u) * scale + mock_zero(zero) = u8u4_pair(b)
  <2>1. u[0] \in Nat /\ u[1] \in Nat /\ u[2] \in Nat /\ u[3] \in Nat /\ Byte \in Nat
    BY SMT DEF Byte
  <2>2. u8u4_pair(b) = (u[0] * scale + zero) + Byte * ((u[1] * scale + zero)
                        + Byte * ((u[2] * scale + zero) + Byte * (u[3] * scale + zero)))
    BY DEF u8u4_pair
  <2>3. mock_zero(zero) = zero + Byte * (zero + Byte * (zero + Byte * zero))
    BY DEF mock_zero, u8u4_pair
  <2>4. u8u4_pair(u) = u[0] + Byte * (u[1] + Byte * (u[2] + Byte * u[3]))
    BY DEF u8u4_pair
  <2> QED BY <2>1, <2>2, <2>3, <2>4, SMT
<1>3. u8u4_pair(b) % Word = u8u4_pair(b)
  <2>1. u8u4_pair(b) \in 0 .. Word - 1
    BY <1>1, Bytes
  <2>2. Word \in Nat \ {0}
    BY SMT DEF Word, Byte
  <2> QED BY <2>1, <2>2, Fits
<1>4. u8(u8u4_pair(b), k) = b[k]
  BY <1>1, Bytes
<1> QED BY <1>2, <1>3, <1>4

(* A group has a least and a greatest value. *)
LEMMA Extremes ==
  ASSUME NEW n \in Nat \ {0}, NEW vec \in [0 .. n - 1 -> -Limit .. Limit]
  PROVE  /\ Least(vec) \in -Limit .. Limit /\ Greatest(vec) \in -Limit .. Limit
         /\ \A i \in 0 .. n - 1 : Least(vec) <= vec[i] /\ vec[i] <= Greatest(vec)
<1> DEFINE R == Range(vec)
<1>1. R \subseteq -Limit .. Limit /\ R # {} /\ \A i \in 0 .. n - 1 : vec[i] \in R
  <2>1. 0 \in 0 .. n - 1 /\ DOMAIN vec = 0 .. n - 1
    BY SMT
  <2> QED BY <2>1 DEF Range
<1>2. \E x \in R : \A y \in R : x <= y
  <2> DEFINE T == {Limit + x : x \in R}
             L == OpToRel(<, Nat)
  <2>1. T \subseteq Nat /\ T # {}
    <3>1. \A x \in -Limit .. Limit : Limit + x \in Nat
      BY SMT DEF Limit
    <3> HIDE DEF R
    <3> QED BY <1>1, <3>1
  <2>2. PICK t \in T : \A u \in T : ~ (<<u, t>> \in L)
    <3> HIDE DEF T, L
    <3>1. IsWellFoundedOn(L, Nat)
      BY NatLessThanWellFounded DEF L
    <3> QED BY <2>1, <3>1, WFMin
  <2>3. \A u \in T : ~ (u < t)
    BY <2>1, <2>2 DEF OpToRel
  <2>4. PICK x \in R : t = Limit + x
    OBVIOUS
  <2>5. ASSUME NEW y \in R PROVE x <= y
    <3>1. Limit + y \in T
      OBVIOUS
    <3>2. ~ (Limit + y < t)
      BY <2>3, <3>1
    <3> HIDE DEF R, T
    <3> QED BY <1>1, <2>4, <3>2, SMT DEF Limit
  <2> QED BY <2>5
<1>3. \E x \in R : \A y \in R : y <= x
  <2> DEFINE T == {Limit - x : x \in R}
             L == OpToRel(<, Nat)
  <2>1. T \subseteq Nat /\ T # {}
    <3>1. \A x \in -Limit .. Limit : Limit - x \in Nat
      BY SMT DEF Limit
    <3> HIDE DEF R
    <3> QED BY <1>1, <3>1
  <2>2. PICK t \in T : \A u \in T : ~ (<<u, t>> \in L)
    <3> HIDE DEF T, L
    <3>1. IsWellFoundedOn(L, Nat)
      BY NatLessThanWellFounded DEF L
    <3> QED BY <2>1, <3>1, WFMin
  <2>3. \A u \in T : ~ (u < t)
    BY <2>1, <2>2 DEF OpToRel
  <2>4. PICK x \in R : t = Limit - x
    OBVIOUS
  <2>5. ASSUME NEW y \in R PROVE y <= x
    <3>1. Limit - y \in T
      OBVIOUS
    <3>2. ~ (Limit - y < t)
      BY <2>3, <3>1
    <3> HIDE DEF R, T
    <3> QED BY <1>1, <2>4, <3>2, SMT DEF Limit
  <2> QED BY <2>5
<1>4. Least(vec) \in R /\ \A y \in R : Least(vec) <= y
  BY <1>2, Zenon DEF Least
<1>5. Greatest(vec) \in R /\ \A y \in R : y <= Greatest(vec)
  BY <1>3, Zenon DEF Greatest
<1> QED BY <1>1, <1>4, <1>5

(* A half byte u that comes back close to v, no step on the way cutting a number. *)
Returns(min, scale, u, v) ==
  /\ scale \in 1 .. 16 /\ scale % Byte = scale
  /\ (128 + min) \in 0 .. Byte - 1 /\ (128 + min) % Byte = 128 + min
  /\ (v - min) % Byte = v - min
  /\ u \in 0 .. 15
  /\ u * scale + (128 + min) \in 0 .. Byte - 1
  /\ u * scale + min \in -128 .. 127
  /\ (u * scale + min) - v \in -8 .. 8

(* One value v of a group, in the terms of lqq_quant and lqq_dequant. *)
LEMMA Element ==
  ASSUME NEW min \in -Limit .. Limit, NEW max \in -Limit .. Limit, NEW v \in Int, min <= v, v <= max,
         NEW scale, scale = AtLeast(Round(max - min, 15), 1),
         NEW u, u = AtMost(Round(v - min, scale), 15)
  PROVE  Returns(min, scale, u, v)
<1> DEFINE w == max - min
           x == v - min
           p == u * scale
<1>1. w \in 0 .. 2 * Limit /\ x \in 0 .. w
  BY SMT DEF Limit
<1>2. scale \in 1 .. 16 /\ u \in 0 .. 15 /\ p \in x - 8 .. x + 8
  <2> HIDE DEF w, x
  <2> QED BY <1>1, Near DEF w, x
<1>3. p \in Nat
  BY <1>2, SMT
<1>4. scale % Byte = scale /\ (128 + min) \in 0 .. Byte - 1 /\ (128 + min) % Byte = 128 + min
  BY <1>2, SMT DEF Byte, Limit
<1>5. x % Byte = x
  <2>1. x \in 0 .. 2 * Limit
    BY <1>1, SMT DEF Limit
  <2> HIDE DEF x
  <2> QED BY <2>1, SMT DEF Byte, Limit
<1>6. p + (128 + min) \in 0 .. Byte - 1 /\ p + min \in -128 .. 127 /\ (p + min) - v \in -8 .. 8
  <2>1. p \in Int /\ p >= 0 /\ p <= (v - min) + 8 /\ p >= (v - min) - 8
    BY <1>2, <1>3, SMT DEF Limit
  <2> HIDE DEF p
  <2> QED BY <2>1, SMT DEF Byte, Limit
<1> QED BY <1>2, <1>4, <1>5, <1>6 DEF Returns

(* lqq_quant and lqq_dequant: for every group of values within the range asserted,
   of a number that lqq_dequant's words divide, what comes back is a signed byte,
   scale and offset applied to each half byte by itself, and at most eight off. *)
THEOREM LqqRoundTrip ==
  ASSUME NEW n \in Nat \ {0}, n % 4 = 0, NEW vec \in [0 .. n - 1 -> -Limit .. Limit]
  PROVE  LET q == lqq_quant(vec)
             y == lqq_dequant(q.u4, q.scale, q.zero)
         IN \A i \in 0 .. n - 1 :
              /\ q.u4[i] \in 0 .. 15
              /\ y[i] = q.u4[i] * q.scale + Least(vec)
              /\ y[i] \in -128 .. 127
              /\ y[i] - vec[i] \in -8 .. 8
<1> DEFINE min == Least(vec)
           max == Greatest(vec)
           scale == AtLeast(Round(max - min, 15), 1)
           u4 == [i \in 0 .. n - 1 |-> AtMost(Round(vec[i] - min, scale), 15)]
           zero == 128 + min
<1>1. min \in -Limit .. Limit /\ max \in -Limit .. Limit
  BY Extremes
<1>2. ASSUME NEW i \in 0 .. n - 1
      PROVE  /\ scale \in 1 .. 16 /\ scale % Byte = scale
             /\ zero \in 0 .. Byte - 1 /\ zero % Byte = zero
             /\ (vec[i] - min) % Byte = vec[i] - min
             /\ u4[i] \in 0 .. 15
             /\ u4[i] * scale + zero \in 0 .. Byte - 1
             /\ u4[i] * scale + min \in -128 .. 127
             /\ (u4[i] * scale + min) - vec[i] \in -8 .. 8
  <2>1. vec[i] \in -Limit .. Limit /\ min <= vec[i] /\ vec[i] <= max
    BY Extremes
  <2>2. vec[i] \in Int
    <3>1. -Limit .. Limit \subseteq Int
      BY SMT DEF Limit
    <3> QED BY <2>1, <3>1
  <2>3. scale = AtLeast(Round(max - min, 15), 1) /\ u4[i] = AtMost(Round(vec[i] - min, scale), 15)
    OBVIOUS
  <2>4. zero = 128 + min
    OBVIOUS
  <2> HIDE DEF min, max, scale, u4, zero
  <2>5. Returns(min, scale, u4[i], vec[i])
    BY <1>1, <2>1, <2>2, <2>3, Element
  <2> QED BY <2>4, <2>5 DEF Returns
<1> HIDE DEF min, max
<1>3. 0 \in 0 .. n - 1
  BY SMT
<1>4. lqq_quant(vec) = [scale |-> scale, zero |-> zero, u4 |-> u4]
  <2>1. DOMAIN vec = 0 .. n - 1 /\ scale % Byte = scale /\ zero % Byte = zero
    BY <1>2, <1>3
  <2>2. [i \in 0 .. n - 1 |-> AtMost(Round((vec[i] - min) % Byte, scale), 15)] = u4
    <3> HIDE DEF scale
    <3> QED BY <1>2
  <2>3. lqq_quant(vec) = [scale |-> scale % Byte, zero |-> zero % Byte,
                          u4 |-> [i \in DOMAIN vec |-> AtMost(Round((vec[i] - min) % Byte, scale % Byte), 15)]]
    BY DEF lqq_quant, min, max
  <2> HIDE DEF scale, zero, u4
  <2> QED BY <2>1, <2>2, <2>3
<1>5. u4 \in [0 .. n - 1 -> Nat] /\ scale \in Nat /\ zero \in Nat
  <2>1. 0 .. 15 \subseteq Nat /\ 1 .. 16 \subseteq Nat /\ 0 .. Byte - 1 \subseteq Nat
    BY SMT DEF Byte
  <2>2. \A i \in 0 .. n - 1 : AtMost(Round(vec[i] - min, scale), 15) \in Nat
    <3> SUFFICES ASSUME NEW i \in 0 .. n - 1 PROVE AtMost(Round(vec[i] - min, scale), 15) \in Nat
      OBVIOUS
    <3>1. u4[i] = AtMost(Round(vec[i] - min, scale), 15)
      OBVIOUS
    <3> HIDE DEF scale, u4
    <3> QED BY <1>2, <2>1, <3>1
  <2> HIDE DEF scale, zero
  <2> QED BY <1>2, <1>3, <2>1, <2>2
<1> HIDE DEF scale, zero, u4
<1>6. ASSUME NEW i \in 0 .. n - 1
      PROVE  lqq_dequant(u4, scale, zero)[i] = u4[i] * scale + min
  <2> DEFINE j == i \div 4
             k == i % 4
             u == [l \in 0 .. 3 |-> u4[4 * j + l]]
  <2>1. k \in 0 .. 3 /\ 4 * j + k = i /\ \A l \in 0 .. 3 : 4 * j + l \in 0 .. n - 1
    BY SMT
  <2>2. lqq_dequant(u4, scale, zero)[i] = Signed(u8((u8u4_pair(u) * scale + mock_zero(zero)) % Word, k))
    BY <1>5 DEF lqq_dequant
  <2> HIDE DEF j, k
  <2>3. u \in [0 .. 3 -> Nat]
    BY <1>5, <2>1
  <2>4. \A l \in 0 .. 3 : u[l] * scale + zero \in 0 .. Byte - 1
    BY <1>2, <2>1
  <2>5. u[k] = u4[i]
    BY <2>1
  <2> HIDE DEF u
  <2>6. u8((u8u4_pair(u) * scale + mock_zero(zero)) % Word, k) = u[k] * scale + zero
    BY <1>5, <2>1, <2>3, <2>4, ByteByByte
  <2>7. lqq_dequant(u4, scale, zero)[i] = (u4[i] * scale + zero) - 128
    BY <2>2, <2>5, <2>6 DEF Signed
  <2>8. u4[i] * scale \in Int /\ min \in Int
    BY <1>1, <1>5, SMT DEF Limit
  <2> DEFINE p == u4[i] * scale
  <2>9. (p + zero) - 128 = p + min
    <3>1. p \in Int
      BY <2>8
    <3> HIDE DEF p
    <3> QED BY <2>8, <3>1, SMT DEF zero
  <2> QED BY <2>7, <2>9
<1> DEFINE q == lqq_quant(vec)
<1>7. q.u4 = u4 /\ q.scale = scale /\ q.zero = zero
  BY <1>4
<1> HIDE DEF q
<1>8. ASSUME NEW i \in 0 .. n - 1
      PROVE  /\ q.u4[i] \in 0 .. 15
             /\ lqq_dequant(q.u4, q.scale, q.zero)[i] = q.u4[i] * q.scale + min
             /\ lqq_dequant(q.u4, q.scale, q.zero)[i] \in -128 .. 127
             /\ lqq_dequant(q.u4, q.scale, q.zero)[i] - vec[i] \in -8 .. 8
  BY <1>2, <1>6, <1>7
<1> QED BY <1>8 DEF q, min

(***************************************************************************)
(* TileOrder.                                                              *)
(***************************************************************************)

(* The numbers below a * b are the pairs of a number below a and one below b. *)
Digits(a, b) ==
  /\ \A t \in 0 .. a * b - 1 : t \div b \in 0 .. a - 1 /\ t % b \in 0 .. b - 1
  /\ \A q \in 0 .. a - 1, r \in 0 .. b - 1 : q * b + r \in 0 .. a * b - 1
  /\ \A q \in 0 .. a - 1, r \in 0 .. b - 1, u \in 0 .. a * b - 1 :
       (u \div b = q /\ u % b = r) <=> u = q * b + r

(* Quotient and remainder are the digits of a number, whatever the base. *)
LEMMA TwoDigits ==
  ASSUME NEW a \in Nat, NEW b \in Nat \ {0} PROVE Digits(a, b)
<1>0. a * b \in Nat /\ b * a = a * b
  BY SMT
<1>1. ASSUME NEW t \in 0 .. a * b - 1 PROVE t \div b \in 0 .. a - 1 /\ t % b \in 0 .. b - 1
  <2> DEFINE q == t \div b
             r == t % b
  <2>1. q \in Nat /\ r \in 0 .. b - 1 /\ t = b * q + r
    BY <1>0, SMT
  <2> HIDE DEF q, r
  <2>2. b * q < b * a
    <3> DEFINE x == b * q
               y == b * a
    <3>1. t = x + r /\ t < y /\ x \in Int /\ y \in Int
      BY <1>0, <2>1
    <3> HIDE DEF x, y
    <3>2. x < y
      BY <2>1, <3>1
    <3> QED BY <3>2 DEF x, y
  <2>3. q < a
    BY <2>1, <2>2, Scaled
  <2> QED BY <2>1, <2>3 DEF q, r
<1>2. ASSUME NEW q \in 0 .. a - 1, NEW r \in 0 .. b - 1 PROVE q * b + r \in 0 .. a * b - 1
  <2>1. b * (q + 1) <= b * a
    BY Scaled
  <2> DEFINE x == b * q
             y == b * a
  <2>2. x + b <= y /\ x \in Nat /\ y \in Nat /\ q * b = x /\ a * b = y
    BY <1>0, <2>1, SMT
  <2> HIDE DEF x, y
  <2> QED BY <2>2
<1>3. ASSUME NEW q \in Nat, NEW r \in 0 .. b - 1, NEW u \in Nat
      PROVE  (u \div b = q /\ u % b = r) <=> u = q * b + r
  <2>1. u = b * (u \div b) + (u % b)
    BY SMT
  <2>2. ASSUME u \div b = q, u % b = r PROVE u = q * b + r
    BY <2>1, <2>2, SMT
  <2>3. ASSUME u = q * b + r PROVE u \div b = q /\ u % b = r
    <3> DEFINE x == b * q
    <3>1. x \in Nat /\ u = x + r
      BY <2>3, SMT
    <3> HIDE DEF x
    <3>2. x <= u /\ u < x + b /\ u - x = r
      BY <3>1
    <3> QED BY <3>2, QuotientIs DEF x
  <2> QED BY <2>2, <2>3
<1>4. (\A q \in 0 .. a - 1 : q \in Nat) /\ (\A u \in 0 .. a * b - 1 : u \in Nat)
  OBVIOUS
<1> QED BY <1>1, <1>2, <1>3, <1>4, Zenon DEF Digits

(* Adding me modulo p leaves the numbers below p, each with one predecessor. *)
LEMMA Rotation ==
  ASSUME NEW p \in Nat \ {0}, NEW me \in 0 .. p - 1
  PROVE  /\ \A k \in Nat : (k + me) % p \in 0 .. p - 1
         /\ \A k \in 0 .. p - 1 : \E l \in 0 .. p - 1 :
              \A u \in 0 .. p - 1 : (u + me) % p = k <=> u = l
<1>1. ASSUME NEW k \in Nat PROVE (k + me) % p \in 0 .. p - 1
  BY SMT
<1>2. ASSUME NEW u \in 0 .. p - 1
      PROVE  (u + me) % p = IF u + me < p THEN u + me ELSE u + me - p
  <2> DEFINE x == u + me
  <2>0. x \in Nat /\ x < p + p
    OBVIOUS
  <2> HIDE DEF x
  <2>1. CASE x < p
    <3> DEFINE q == 0
    <3>1. p * q <= x /\ x < p * q + p /\ x - p * q = x /\ q \in Int /\ x \in Int
      BY <2>0, <2>1
    <3> HIDE DEF q
    <3>2. x \div p = q /\ x % p = x - p * q
      BY <2>0, <3>1, QuotientIs
    <3> QED BY <2>1, <3>1, <3>2 DEF x
  <2>2. CASE ~ (x < p)
    <3> DEFINE q == 1
    <3>1. p * q <= x /\ x < p * q + p /\ x - p * q = x - p /\ q \in Int /\ x \in Int
      BY <2>0, <2>2
    <3> HIDE DEF q
    <3>2. x \div p = q /\ x % p = x - p * q
      BY <2>0, <3>1, QuotientIs
    <3> QED BY <2>2, <3>1, <3>2 DEF x
  <2> QED BY <2>1, <2>2
<1>3. ASSUME NEW k \in 0 .. p - 1
      PROVE  \E l \in 0 .. p - 1 : \A u \in 0 .. p - 1 : (u + me) % p = k <=> u = l
  <2> DEFINE l == IF me <= k THEN k - me ELSE k - me + p
  <2>1. l \in 0 .. p - 1
    OBVIOUS
  <2>2. ASSUME NEW u \in 0 .. p - 1 PROVE (u + me) % p = k <=> u = l
    BY <1>2
  <2> QED BY <2>1, <2>2
<1> QED BY <1>1, <1>3

(* What has to be shown of an order: no task lands outside the tiles, and each tile
   has the one task it comes up for. *)
LEMMA OneTaskEach ==
  ASSUME NEW s, NEW n \in Nat, Tasks(s) = n,
         \A t \in 0 .. n - 1 : TilesOf(s, t) \subseteq Grid(s),
         \A c \in Grid(s) : \E t \in 0 .. n - 1 :
           \A u \in 0 .. n - 1 : c \in TilesOf(s, u) <=> u = t
  PROVE  Covers(s)
<1> DEFINE tasks == 0 .. Tasks(s) - 1
           tiles == [t \in tasks |-> TilesOf(s, t)]
<1>1. \A t \in tasks : tiles[t] \subseteq Grid(s)
  OBVIOUS
<1>2. ASSUME NEW c \in Grid(s) PROVE Cardinality({t \in tasks : c \in tiles[t]}) = 1
  <2>1. PICK t \in tasks : \A u \in tasks : c \in TilesOf(s, u) <=> u = t
    OBVIOUS
  <2>2. {u \in tasks : c \in tiles[u]} = {t}
    BY <2>1
  <2> QED BY <2>2, FS_Singleton
<1> QED BY <1>1, <1>2 DEF Covers

(* Orders with a task for each tile. *)
Plainly == {"bycolumn", "byrow", "roundrobin", "stripe", "rows", "grouped"}

(* These orders have a task for each tile. *)
LEMMA PlainTasks ==
  ASSUME NEW s, s.order \in Plainly PROVE Tasks(s) = s.tm * s.tn
BY DEF Plainly, Tasks

(* Down a column first (bf16 and flat GEMMs): row and column are the digits. *)
LEMMA ColumnOnce ==
  ASSUME NEW s, s.order = "bycolumn", s.tm \in Nat \ {0}, s.tn \in Nat \ {0}
  PROVE  Covers(s)
<1> DEFINE n == s.tn * s.tm
           f == [t \in 0 .. n - 1 |-> ByColumn(s, t)]
<1>1. n \in Nat /\ Tasks(s) = n
  BY PlainTasks, SMT DEF Plainly
<1>2. Digits(s.tn, s.tm)
  BY TwoDigits
<1> HIDE DEF n
<1>3. \A t \in 0 .. n - 1 : TilesOf(s, t) = {f[t]} /\ f[t] \in Grid(s)
  <2> SUFFICES ASSUME NEW t \in 0 .. n - 1 PROVE TilesOf(s, t) = {f[t]} /\ f[t] \in Grid(s)
    OBVIOUS
  <2>1. t \div s.tm \in 0 .. s.tn - 1 /\ t % s.tm \in 0 .. s.tm - 1
    BY <1>2 DEF n, Digits
  <2> QED BY <2>1 DEF TilesOf, ByColumn, Grid
<1>4. ASSUME NEW c \in Grid(s)
      PROVE  \E t \in 0 .. n - 1 : \A u \in 0 .. n - 1 : c \in TilesOf(s, u) <=> u = t
  <2>1. PICK r \in 0 .. s.tm - 1, q \in 0 .. s.tn - 1 : c = <<r, q>>
    BY DEF Grid
  <2>2. q * s.tm + r \in 0 .. n - 1
    BY <1>2 DEF n, Digits
  <2>3. \A u \in 0 .. n - 1 : (u \div s.tm = q /\ u % s.tm = r) <=> u = q * s.tm + r
    BY <1>2 DEF n, Digits
  <2>4. \A u \in 0 .. n - 1 : f[u] = c <=> u = q * s.tm + r
    BY <2>1, <2>3 DEF ByColumn
  <2>5. \A u \in 0 .. n - 1 : c \in TilesOf(s, u) <=> f[u] = c
    BY <1>3
  <2> QED BY <2>2, <2>4, <2>5
<1>5. \A t \in 0 .. n - 1 : TilesOf(s, t) \subseteq Grid(s)
  BY <1>3
<1> QED BY <1>1, <1>4, <1>5, OneTaskEach

(* Along a row first (fp8 GEMMs), and so with shift and mask, or the division by
   31, for the numbers of columns these are written for. *)
LEMMA RowOnce ==
  ASSUME NEW s, \/ s.order = "byrow"
                \/ s.order = "rows" /\ s.tn \in {31, 32},
         s.tm \in Nat \ {0}, s.tn \in Nat \ {0}
  PROVE  Covers(s)
<1> DEFINE n == s.tm * s.tn
           f == [t \in 0 .. n - 1 |-> ByRow(s, t)]
<1>1. n \in Nat /\ Tasks(s) = n
  BY PlainTasks, SMT DEF Plainly
<1>2. Digits(s.tm, s.tn)
  BY TwoDigits
<1> HIDE DEF n
<1>3. \A t \in 0 .. n - 1 : TilesOf(s, t) = {f[t]} /\ f[t] \in Grid(s)
  <2> SUFFICES ASSUME NEW t \in 0 .. n - 1 PROVE TilesOf(s, t) = {f[t]} /\ f[t] \in Grid(s)
    OBVIOUS
  <2>1. t \div s.tn \in 0 .. s.tm - 1 /\ t % s.tn \in 0 .. s.tn - 1
    BY <1>2 DEF n, Digits
  <2>2. TilesOf(s, t) = {ByRow(s, t)}
    <3>1. CASE s.order = "byrow"
      BY <3>1 DEF TilesOf
    <3>2. CASE s.order = "rows" /\ s.tn \in {31, 32}
      BY <3>2 DEF TilesOf, Rows, ByRow
    <3> QED BY <3>1, <3>2
  <2> QED BY <2>1, <2>2 DEF ByRow, Grid
<1>4. ASSUME NEW c \in Grid(s)
      PROVE  \E t \in 0 .. n - 1 : \A u \in 0 .. n - 1 : c \in TilesOf(s, u) <=> u = t
  <2>1. PICK q \in 0 .. s.tm - 1, r \in 0 .. s.tn - 1 : c = <<q, r>>
    BY DEF Grid
  <2>2. q * s.tn + r \in 0 .. n - 1
    BY <1>2 DEF n, Digits
  <2>3. \A u \in 0 .. n - 1 : (u \div s.tn = q /\ u % s.tn = r) <=> u = q * s.tn + r
    BY <1>2 DEF n, Digits
  <2>4. \A u \in 0 .. n - 1 : f[u] = c <=> u = q * s.tn + r
    BY <2>1, <2>3 DEF ByRow
  <2>5. \A u \in 0 .. n - 1 : c \in TilesOf(s, u) <=> f[u] = c
    BY <1>3
  <2> QED BY <2>2, <2>4, <2>5
<1>5. \A t \in 0 .. n - 1 : TilesOf(s, t) \subseteq Grid(s)
  BY <1>3
<1> QED BY <1>1, <1>4, <1>5, OneTaskEach

(* 28 workers reach every column once, if there are 28 to 56 of them. *)
LEMMA WorkersOnce ==
  ASSUME NEW s, s.order = "workers",
         s.tm \in Nat \ {0}, s.tn \in ColumnWorkers .. 2 * ColumnWorkers
  PROVE  Covers(s)
<1> DEFINE w == ColumnWorkers
           n == s.tm * w
<1>1. w = 28 /\ n \in Nat /\ Tasks(s) = n
  BY SMT DEF Tasks, ColumnWorkers
<1>2. Digits(s.tm, w)
  BY <1>1, TwoDigits
<1>3. \A t : TilesOf(s, t) =
        {<<t \div w, c>> : c \in {t % w} \cup {d \in {(t % w) + w} : d < s.tn}}
  BY DEF TilesOf, Workers
<1>4. s.tn \in w .. 2 * w
  OBVIOUS
<1> HIDE DEF w
<1>5. \A t \in 0 .. n - 1 : t \div w \in 0 .. s.tm - 1 /\ t % w \in 0 .. w - 1
  BY <1>2 DEF Digits
<1> HIDE DEF n
<1>6. \A t \in 0 .. n - 1 : TilesOf(s, t) \subseteq Grid(s)
  BY <1>1, <1>3, <1>4, <1>5 DEF Grid
<1>7. ASSUME NEW c \in Grid(s)
      PROVE  \E t \in 0 .. n - 1 : \A u \in 0 .. n - 1 : c \in TilesOf(s, u) <=> u = t
  <2>1. PICK q \in 0 .. s.tm - 1, k \in 0 .. s.tn - 1 : c = <<q, k>>
    BY DEF Grid
  <2> DEFINE r == IF k < w THEN k ELSE k - w
  <2>2. r \in 0 .. w - 1
    BY <1>1, <1>4
  <2>3. ASSUME NEW u \in 0 .. n - 1 PROVE c \in TilesOf(s, u) <=> u \div w = q /\ u % w = r
    <3>1. c \in TilesOf(s, u) <=> u \div w = q /\ (k = u % w \/ (k = (u % w) + w /\ (u % w) + w < s.tn))
      BY <1>3, <2>1
    <3>2. u % w \in 0 .. w - 1
      BY <1>5
    <3> QED BY <1>1, <1>4, <3>1, <3>2
  <2> HIDE DEF r
  <2>4. q * w + r \in 0 .. n - 1
    BY <1>2, <2>2 DEF n, Digits
  <2>5. \A u \in 0 .. n - 1 : (u \div w = q /\ u % w = r) <=> u = q * w + r
    BY <1>2, <2>2 DEF n, Digits
  <2> QED BY <2>3, <2>4, <2>5
<1> QED BY <1>1, <1>6, <1>7, OneTaskEach

(* Beginning with its own, a rank goes through all tiles of all shards. *)
LEMMA ShardsOnce ==
  ASSUME NEW s, s.order = "shards",
         s.tm \in Nat \ {0}, s.tn = ShardTiles, s.me \in 0 .. s.tm - 1
  PROVE  Covers(s)
<1> DEFINE w == ShardTiles
           n == s.tm * w
           f == [t \in 0 .. n - 1 |-> Shards(s, t)]
<1>1. w = 16 /\ n \in Nat /\ Tasks(s) = n
  BY SMT DEF Tasks, ShardTiles
<1>2. Digits(s.tm, w)
  BY <1>1, TwoDigits
<1>3. \A t \in 0 .. n - 1 : TilesOf(s, t) = {f[t]} /\ f[t] = <<(s.me + (t \div w)) % s.tm, t % w>>
  BY DEF TilesOf, Shards
<1>4. s.tn = w
  OBVIOUS
<1> HIDE DEF w
<1>5. \A t \in 0 .. n - 1 : t \div w \in 0 .. s.tm - 1 /\ t % w \in 0 .. w - 1
  BY <1>2 DEF Digits
<1> HIDE DEF n, f
<1>6. /\ \A k \in Nat : (k + s.me) % s.tm \in 0 .. s.tm - 1
      /\ \A k \in 0 .. s.tm - 1 : \E l \in 0 .. s.tm - 1 :
           \A u \in 0 .. s.tm - 1 : (u + s.me) % s.tm = k <=> u = l
  BY Rotation, Zenon
<1>7. /\ \A k \in 0 .. s.tm - 1 : (s.me + k) % s.tm \in 0 .. s.tm - 1
      /\ \A k \in 0 .. s.tm - 1 : \E l \in 0 .. s.tm - 1 :
           \A u \in 0 .. s.tm - 1 : (s.me + u) % s.tm = k <=> u = l
  <2>1. \A k \in 0 .. s.tm - 1 : s.me + k = k + s.me /\ k \in Nat
    OBVIOUS
  <2>2. \A k \in 0 .. s.tm - 1 : (s.me + k) % s.tm = (k + s.me) % s.tm
    BY <2>1
  <2>3. ASSUME NEW k \in 0 .. s.tm - 1 PROVE (s.me + k) % s.tm \in 0 .. s.tm - 1
    BY <1>6, <2>1, <2>2, Zenon
  <2>4. ASSUME NEW k \in 0 .. s.tm - 1
        PROVE  \E l \in 0 .. s.tm - 1 : \A u \in 0 .. s.tm - 1 : (s.me + u) % s.tm = k <=> u = l
    <3>1. PICK l \in 0 .. s.tm - 1 : \A u \in 0 .. s.tm - 1 : (u + s.me) % s.tm = k <=> u = l
      BY <1>6, Zenon
    <3>2. ASSUME NEW u \in 0 .. s.tm - 1 PROVE (s.me + u) % s.tm = k <=> u = l
      BY <2>2, <3>1, Zenon
    <3> QED BY <3>2, Zenon
  <2> QED BY <2>3, <2>4, Zenon
<1>8. \A t \in 0 .. n - 1 : TilesOf(s, t) = {f[t]} /\ f[t] \in Grid(s)
  <2> SUFFICES ASSUME NEW t \in 0 .. n - 1 PROVE f[t] \in Grid(s)
    BY <1>3
  <2>1. (s.me + (t \div w)) % s.tm \in 0 .. s.tm - 1 /\ t % w \in 0 .. s.tn - 1
    BY <1>4, <1>5, <1>7, Zenon
  <2>2. f[t] = <<(s.me + (t \div w)) % s.tm, t % w>>
    BY <1>3
  <2> DEFINE x == (s.me + (t \div w)) % s.tm
             y == t % w
  <2>3. f[t] = <<x, y>> /\ x \in 0 .. s.tm - 1 /\ y \in 0 .. s.tn - 1
    BY <2>1, <2>2
  <2> HIDE DEF x, y
  <2> QED BY <2>3 DEF Grid
<1>9. ASSUME NEW c \in Grid(s)
      PROVE  \E t \in 0 .. n - 1 : \A u \in 0 .. n - 1 : c \in TilesOf(s, u) <=> u = t
  <2>1. PICK k \in 0 .. s.tm - 1, r \in 0 .. w - 1 : c = <<k, r>>
    BY <1>4 DEF Grid
  <2>2. PICK q \in 0 .. s.tm - 1 : \A u \in 0 .. s.tm - 1 : (s.me + u) % s.tm = k <=> u = q
    BY <1>7
  <2>3. q * w + r \in 0 .. n - 1
    BY <1>2 DEF n, Digits
  <2>4. \A u \in 0 .. n - 1 : (u \div w = q /\ u % w = r) <=> u = q * w + r
    BY <1>2 DEF n, Digits
  <2>5. ASSUME NEW u \in 0 .. n - 1 PROVE f[u] = c <=> u \div w = q /\ u % w = r
    <3>1. f[u] = c <=> (s.me + (u \div w)) % s.tm = k /\ u % w = r
      BY <1>3, <2>1
    <3>2. (s.me + (u \div w)) % s.tm = k <=> u \div w = q
      BY <1>5, <2>2
    <3> QED BY <3>1, <3>2
  <2>6. \A u \in 0 .. n - 1 : c \in TilesOf(s, u) <=> f[u] = c
    BY <1>3
  <2> QED BY <2>3, <2>4, <2>5, <2>6
<1>10. \A t \in 0 .. n - 1 : TilesOf(s, t) \subseteq Grid(s)
  BY <1>8
<1> QED BY <1>1, <1>9, <1>10, OneTaskEach

(* Splits of that size take all K tiles or tokens. *)
LEMMA SplitSize ==
  ASSUME NEW s, s.tm \in Nat, s.peers \in Nat \ {0}
  PROVE  PerSplit(s) \in Nat /\ s.peers * PerSplit(s) >= s.tm /\ (s.tm > 0 => PerSplit(s) > 0)
<1> DEFINE x == s.tm + s.peers - 1
           p == s.peers
           e == x \div p
<1>1. x \in Nat /\ p \in Nat \ {0}
  OBVIOUS
<1>2. e \in Nat /\ x % p \in 0 .. p - 1 /\ x = p * e + (x % p)
  <2> HIDE DEF x, p
  <2> QED BY <1>1, SMT
<1>3. p * e \in Nat /\ p * e >= s.tm
  <2> DEFINE y == p * e
             r == x % p
  <2>1. y \in Nat /\ r \in 0 .. p - 1 /\ x = y + r /\ x = s.tm + p - 1
    BY <1>1, <1>2
  <2> HIDE DEF x, p, e, y, r
  <2>2. y \in Nat /\ y >= s.tm
    BY <1>1, <2>1
  <2> QED BY <2>2 DEF y
<1>4. s.tm > 0 => e > 0
  <2> SUFFICES ASSUME s.tm > 0, e = 0 PROVE FALSE
    BY <1>2
  <2>1. p * e = 0
    <3> HIDE DEF e
    <3> QED BY <1>1
  <2> QED BY <1>3, <2>1
<1> QED BY <1>2, <1>3, <1>4 DEF PerSplit

(* Every token is in one split, also if there are fewer tokens than splits. *)
LEMMA TokensOnce ==
  ASSUME NEW s, s.order = "tokens", s.tm \in Nat, s.tn \in Nat \ {0}, s.peers \in Nat \ {0}
  PROVE  Covers(s)
<1> DEFINE n == s.peers * s.tn
           e == PerSplit(s)
           End(x) == IF x + e < s.tm THEN x + e ELSE s.tm
<1>1. n \in Nat /\ Tasks(s) = n
  BY SMT DEF Tasks
<1>2. e \in Nat /\ s.peers * e >= s.tm /\ (s.tm > 0 => e > 0)
  BY SplitSize
<1>3. Digits(s.peers, s.tn)
  BY TwoDigits
<1>4. \A t : TilesOf(s, t) =
        {<<i, t % s.tn>> : i \in (t \div s.tn) * e .. End((t \div s.tn) * e) - 1}
  BY DEF TilesOf, Tokens, PerSplit
<1> HIDE DEF n, e
<1>5. ASSUME NEW t \in 0 .. n - 1, NEW i
      PROVE  /\ t \div s.tn \in 0 .. s.peers - 1 /\ t % s.tn \in 0 .. s.tn - 1
             /\ (t \div s.tn) * e \in Nat
             /\ i \in (t \div s.tn) * e .. End((t \div s.tn) * e) - 1
                  <=> /\ i \in 0 .. s.tm - 1
                      /\ (t \div s.tn) * e <= i /\ i < (t \div s.tn) * e + e
  <2>1. t \div s.tn \in 0 .. s.peers - 1 /\ t % s.tn \in 0 .. s.tn - 1
    BY <1>3 DEF n, Digits
  <2> DEFINE q == t \div s.tn
             x == q * e
  <2>2. x \in Nat
    <3>1. q \in Nat
      BY <2>1
    <3> HIDE DEF q
    <3> QED BY <1>2, <3>1, SMT
  <2> HIDE DEF x
  <2>3. i \in x .. End(x) - 1 <=> i \in 0 .. s.tm - 1 /\ x <= i /\ i < x + e
    BY <1>2, <2>2
  <2> QED BY <2>1, <2>2, <2>3 DEF x
<1>6. ASSUME NEW t \in 0 .. n - 1 PROVE TilesOf(s, t) \subseteq Grid(s)
  BY <1>4, <1>5 DEF Grid
<1>7. ASSUME NEW c \in Grid(s)
      PROVE  \E t \in 0 .. n - 1 : \A u \in 0 .. n - 1 : c \in TilesOf(s, u) <=> u = t
  <2>1. PICK i \in 0 .. s.tm - 1, h \in 0 .. s.tn - 1 : c = <<i, h>>
    BY DEF Grid
  <2>2. e \in Nat \ {0}
    BY <1>2
  <2>3. Digits(s.peers, e) /\ i \in 0 .. s.peers * e - 1
    <3> DEFINE y == s.peers * e
    <3>1. y \in Int /\ y >= s.tm
      BY <1>2
    <3> HIDE DEF y
    <3>2. i \in 0 .. y - 1
      BY <3>1
    <3> QED BY <2>2, <3>2, TwoDigits DEF y
  <2> DEFINE q == i \div e
  <2>4. q \in 0 .. s.peers - 1
    BY <2>3 DEF Digits
  <2>5. ASSUME NEW v \in 0 .. s.peers - 1
        PROVE  v * e <= i /\ i < v * e + e <=> v = q
    <3>1. i = e * q + (i % e) /\ i % e \in 0 .. e - 1 /\ v * e = e * v
      BY <2>2, SMT
    <3>2. ASSUME v = q PROVE v * e <= i /\ i < v * e + e
      <4> DEFINE x == e * q
                 r == i % e
      <4>1. x \in Int /\ r \in 0 .. e - 1 /\ i = x + r /\ v * e = x
        BY <2>2, <2>4, <3>1, <3>2
      <4> HIDE DEF x, r, q
      <4> QED BY <2>2, <4>1
    <3>3. ASSUME v * e <= i, i < v * e + e PROVE v = q
      <4>1. e * v <= i /\ i < e * v + e
        BY <3>1, <3>3
      <4>2. i \in Int /\ v \in Int
        OBVIOUS
      <4>3. i \div e = v /\ i % e = i - e * v
        BY <2>2, <4>1, <4>2, QuotientIs
      <4> QED BY <4>3 DEF q
    <3> QED BY <3>2, <3>3
  <2> HIDE DEF q
  <2>6. ASSUME NEW u \in 0 .. n - 1
        PROVE  c \in TilesOf(s, u) <=> u \div s.tn = q /\ u % s.tn = h
    <3>1. c \in TilesOf(s, u) <=>
            u % s.tn = h /\ i \in (u \div s.tn) * e .. End((u \div s.tn) * e) - 1
      BY <1>4, <2>1
    <3>2. i \in (u \div s.tn) * e .. End((u \div s.tn) * e) - 1
            <=> (u \div s.tn) * e <= i /\ i < (u \div s.tn) * e + e
      BY <1>5
    <3>3. u \div s.tn \in 0 .. s.peers - 1
      BY <1>5
    <3> QED BY <2>5, <3>1, <3>2, <3>3
  <2>7. q * s.tn + h \in 0 .. n - 1
    BY <1>3, <2>4 DEF n, Digits
  <2>8. \A u \in 0 .. n - 1 : (u \div s.tn = q /\ u % s.tn = h) <=> u = q * s.tn + h
    BY <1>3, <2>4 DEF n, Digits
  <2> QED BY <2>6, <2>7, <2>8
<1> QED BY <1>1, <1>6, <1>7, OneTaskEach

(* Every K tile is in one split, if there are enough for the splits before the
   last one. *)
LEMMA SplitsOnce ==
  ASSUME NEW s, s.order = "splits", s.tm \in Nat \ {0}, s.tn = 1, s.peers \in Nat \ {0},
         (s.peers - 1) * PerSplit(s) <= s.tm
  PROVE  Covers(s)
<1> DEFINE n == s.peers
           e == PerSplit(s)
           Mine(t) == IF t < n - 1 THEN e ELSE s.tm - (n - 1) * e
<1>1. n \in Nat /\ n > 0 /\ Tasks(s) = n
  BY DEF Tasks
<1>2. e \in Nat \ {0} /\ n * e >= s.tm /\ (n - 1) * e <= s.tm
  BY SplitSize
<1>3. \A t : TilesOf(s, t) = {<<t * e + i, 0>> : i \in 0 .. Mine(t) - 1}
  BY DEF TilesOf, Splits, PerSplit
<1> HIDE DEF n, e
<1>4. Digits(n, e) /\ Digits(n - 1, e)
  BY <1>1, <1>2, TwoDigits
<1> DEFINE x == (n - 1) * e
           y == n * e
<1>5. x \in Nat /\ y = x + e /\ x <= s.tm /\ s.tm <= y
  <2>1. y = x + e /\ x \in Nat
    BY <1>1, <1>2, SMT
  <2> QED BY <1>2, <2>1
<1> HIDE DEF x, y
<1>6. ASSUME NEW t \in 0 .. n - 1, NEW i \in 0 .. Mine(t) - 1
      PROVE  t * e + i \in 0 .. s.tm - 1 /\ i \in 0 .. e - 1
  <2>0. x = (n - 1) * e
    BY DEF x
  <2>1. CASE t < n - 1
    <3>1. t \in 0 .. (n - 1) - 1 /\ i \in 0 .. e - 1
      BY <1>1, <2>1
    <3>2. t * e + i \in 0 .. x - 1
      BY <1>4, <3>1 DEF x, Digits
    <3> QED BY <1>5, <3>1, <3>2
  <2>2. CASE t = n - 1
    <3>1. i \in 0 .. s.tm - x - 1 /\ t * e = x
      BY <1>1, <2>0, <2>2
    <3> DEFINE z == t * e
    <3>2. z = x /\ i \in 0 .. s.tm - x - 1
      BY <3>1
    <3> HIDE DEF z, Mine
    <3>3. z + i \in 0 .. s.tm - 1 /\ i \in 0 .. e - 1
      BY <1>2, <1>5, <3>2
    <3> QED BY <3>3 DEF z
  <2> QED BY <1>1, <2>1, <2>2
<1>7. ASSUME NEW t \in 0 .. n - 1 PROVE TilesOf(s, t) \subseteq Grid(s)
  <2>1. 0 \in 0 .. s.tn - 1
    OBVIOUS
  <2> HIDE DEF Mine
  <2> QED BY <1>3, <1>6, <2>1 DEF Grid
<1>8. ASSUME NEW c \in Grid(s)
      PROVE  \E t \in 0 .. n - 1 : \A u \in 0 .. n - 1 : c \in TilesOf(s, u) <=> u = t
  <2>1. PICK k \in 0 .. s.tm - 1 : c = <<k, 0>>
    BY DEF Grid
  <2> DEFINE q == k \div e
             r == k % e
  <2>2. k \in 0 .. y - 1
    BY <1>5
  <2>3. q \in 0 .. n - 1 /\ r \in 0 .. e - 1 /\ k = q * e + r
    BY <1>4, <2>2 DEF Digits, y
  <2>4. \A u \in 0 .. n - 1, i \in 0 .. e - 1 : (q = u /\ r = i) <=> k = u * e + i
    BY <1>4, <2>2 DEF Digits, y
  <2> HIDE DEF q, r
  <2>5. r \in 0 .. Mine(q) - 1
    <3>1. CASE q = n - 1
      <4>1. k = x + r
        BY <2>3, <3>1 DEF x
      <4>2. Mine(q) = s.tm - x
        BY <1>1, <3>1 DEF x
      <4> HIDE DEF Mine
      <4> QED BY <1>5, <2>3, <4>1, <4>2
    <3> QED BY <1>1, <2>3, <3>1
  <2> HIDE DEF Mine
  <2>6. ASSUME NEW u \in 0 .. n - 1 PROVE c \in TilesOf(s, u) <=> u = q
    <3>1. c \in TilesOf(s, u) <=> \E i \in 0 .. Mine(u) - 1 : k = u * e + i
      BY <1>3, <2>1
    <3>2. ASSUME NEW i \in 0 .. Mine(u) - 1, k = u * e + i PROVE u = q
      BY <1>6, <2>4, <3>2
    <3>3. ASSUME u = q PROVE \E i \in 0 .. Mine(u) - 1 : k = u * e + i
      BY <2>3, <2>5, <3>3
    <3> QED BY <3>1, <3>2, <3>3
  <2> QED BY <2>3, <2>6
<1> QED BY <1>1, <1>7, <1>8, OneTaskEach

(* Counting round p peers that have q columns each reaches every column once. *)
LEMMA Transposed ==
  ASSUME NEW p \in Nat \ {0}, NEW q \in Nat \ {0}
  PROVE  /\ \A v \in 0 .. p * q - 1 : (v % p) * q + (v \div p) \in 0 .. p * q - 1
         /\ \A c \in 0 .. p * q - 1 : \E w \in 0 .. p * q - 1 :
              \A v \in 0 .. p * q - 1 : (v % p) * q + (v \div p) = c <=> v = w
<1> DEFINE n == p * q
<1>1. Digits(p, q) /\ Digits(q, p) /\ q * p = p * q
  BY TwoDigits, SMT
<1>2. ASSUME NEW v \in 0 .. n - 1 PROVE v \div p \in 0 .. q - 1 /\ v % p \in 0 .. p - 1
  BY <1>1 DEF Digits
<1>3. ASSUME NEW v \in 0 .. n - 1 PROVE (v % p) * q + (v \div p) \in 0 .. n - 1
  BY <1>1, <1>2 DEF Digits
<1>4. ASSUME NEW c \in 0 .. n - 1
      PROVE  \E w \in 0 .. n - 1 : \A v \in 0 .. n - 1 : (v % p) * q + (v \div p) = c <=> v = w
  <2> DEFINE w == (c % q) * p + (c \div q)
  <2>1. c \div q \in 0 .. p - 1 /\ c % q \in 0 .. q - 1
    BY <1>1 DEF Digits
  <2>2. w \in 0 .. n - 1
    BY <1>1, <2>1 DEF Digits
  <2>3. ASSUME NEW v \in 0 .. n - 1 PROVE (v % p) * q + (v \div p) = c <=> v = w
    <3> DEFINE x == v \div p
               y == v % p
               d == c \div q
               e == c % q
    <3>0. x \in 0 .. q - 1 /\ y \in 0 .. p - 1 /\ d \in 0 .. p - 1 /\ e \in 0 .. q - 1
      BY <1>2, <2>1
    <3> HIDE DEF x, y, d, e
    <3>1. (c \div q = y /\ c % q = x) <=> c = y * q + x
      BY <1>1, <3>0 DEF Digits
    <3>2. (v \div p = e /\ v % p = d) <=> v = e * p + d
      BY <1>1, <3>0 DEF Digits
    <3> QED BY <3>1, <3>2 DEF x, y, d, e
  <2> HIDE DEF w, n
  <2> QED BY <2>2, <2>3
<1> QED BY <1>3, <1>4

(* Round the peers, and the columns of none of them behind that. *)
LEMMA RoundRobinOnce ==
  ASSUME NEW s, s.order = "roundrobin", s.tm \in Nat \ {0}, s.peers \in Nat \ {0},
         s.perPeer \in Nat \ {0}, s.tn \in Nat, s.tn >= Scattered(s)
  PROVE  Covers(s)
<1> DEFINE n == s.tn * s.tm
           p == s.peers
           q == s.perPeer
           S == p * q
           Column(v) == IF v < S THEN (v % p) * q + (v \div p) ELSE v
           Tile(t) == <<t % s.tm, Column(t \div s.tm)>>
<1>1. n \in Nat /\ Tasks(s) = n
  BY PlainTasks, SMT DEF Plainly
<1>2. Digits(s.tn, s.tm)
  BY TwoDigits
<1>3. S \in Nat /\ S <= s.tn
  BY SMT DEF Scattered
<1>4. \A t : TilesOf(s, t) = {Tile(t)}
  BY DEF TilesOf, RoundRobin, Scattered
<1>5. /\ \A v \in 0 .. S - 1 : (v % p) * q + (v \div p) \in 0 .. S - 1
      /\ \A c \in 0 .. S - 1 : \E w \in 0 .. S - 1 :
           \A v \in 0 .. S - 1 : (v % p) * q + (v \div p) = c <=> v = w
  BY Transposed, Zenon
<1>6. ASSUME NEW v \in 0 .. s.tn - 1 PROVE Column(v) \in 0 .. s.tn - 1 /\ (v < S <=> Column(v) < S)
  <2> DEFINE x == (v % p) * q + (v \div p)
  <2>1. CASE v < S
    <3>1. v \in 0 .. S - 1
      BY <1>3, <2>1
    <3>2. x \in 0 .. S - 1
      BY <1>5, <3>1
    <3> HIDE DEF S, x
    <3> QED BY <1>3, <2>1, <3>2 DEF x
  <2>2. CASE ~ (v < S)
    BY <2>2
  <2> QED BY <2>1, <2>2
<1>7. ASSUME NEW c \in 0 .. s.tn - 1
      PROVE  \E w \in 0 .. s.tn - 1 : \A v \in 0 .. s.tn - 1 : Column(v) = c <=> v = w
  <2>1. CASE c < S
    <3>1. c \in 0 .. S - 1
      BY <1>3, <2>1
    <3>2. PICK w \in 0 .. S - 1 : \A v \in 0 .. S - 1 : (v % p) * q + (v \div p) = c <=> v = w
      BY <1>5, <3>1, Zenon
    <3>3. ASSUME NEW v \in 0 .. s.tn - 1 PROVE Column(v) = c <=> v = w
      <4>1. CASE v < S
        <5>1. v \in 0 .. S - 1
          BY <1>3, <4>1
        <5>2. (v % p) * q + (v \div p) = c <=> v = w
          BY <3>2, <5>1, Zenon
        <5> QED BY <4>1, <5>2
      <4>2. CASE ~ (v < S)
        <5>1. Column(v) # c
          BY <1>6, <2>1, <4>2
        <5>2. v # w
          <6> HIDE DEF S
          <6> QED BY <1>3, <3>2, <4>2
        <5> QED BY <5>1, <5>2
      <4> QED BY <4>1, <4>2
    <3>4. w \in 0 .. s.tn - 1
      <4> HIDE DEF S
      <4> QED BY <1>3
    <3> HIDE DEF Column
    <3> QED BY <3>3, <3>4
  <2>2. CASE ~ (c < S)
    <3>1. ASSUME NEW v \in 0 .. s.tn - 1 PROVE Column(v) = c <=> v = c
      <4>1. CASE v < S
        <5>1. Column(v) < S
          BY <1>6, <4>1
        <5> HIDE DEF Column, S
        <5> QED BY <2>2, <4>1, <5>1
      <4>2. CASE ~ (v < S)
        BY <4>2
      <4> QED BY <4>1, <4>2
    <3> HIDE DEF Column
    <3> QED BY <3>1
  <2> QED BY <2>1, <2>2
<1> HIDE DEF Column, n
<1>8. ASSUME NEW t \in 0 .. n - 1 PROVE t \div s.tm \in 0 .. s.tn - 1 /\ t % s.tm \in 0 .. s.tm - 1
  BY <1>2 DEF n, Digits
<1>9. ASSUME NEW t \in 0 .. n - 1 PROVE TilesOf(s, t) \subseteq Grid(s)
  BY <1>4, <1>6, <1>8 DEF Grid
<1>10. ASSUME NEW c \in Grid(s)
       PROVE  \E t \in 0 .. n - 1 : \A u \in 0 .. n - 1 : c \in TilesOf(s, u) <=> u = t
  <2>1. PICK r \in 0 .. s.tm - 1, k \in 0 .. s.tn - 1 : c = <<r, k>>
    BY DEF Grid
  <2>2. PICK w \in 0 .. s.tn - 1 : \A v \in 0 .. s.tn - 1 : Column(v) = k <=> v = w
    BY <1>7
  <2>3. w * s.tm + r \in 0 .. n - 1
    BY <1>2 DEF n, Digits
  <2>4. \A u \in 0 .. n - 1 : (u \div s.tm = w /\ u % s.tm = r) <=> u = w * s.tm + r
    BY <1>2 DEF n, Digits
  <2>5. ASSUME NEW u \in 0 .. n - 1 PROVE c \in TilesOf(s, u) <=> u \div s.tm = w /\ u % s.tm = r
    BY <1>4, <1>8, <2>1, <2>2
  <2> QED BY <2>3, <2>4, <2>5
<1> QED BY <1>1, <1>9, <1>10, OneTaskEach

(* A block of k rows and b columns, walked through along its rows by number and
   down its columns by place. *)
LEMMA BlockTransposed ==
  ASSUME NEW k \in Nat \ {0}, NEW b \in Nat \ {0}
  PROVE  /\ \A d \in 0 .. k - 1, e \in 0 .. b - 1 :
              (d * b + e) % k \in 0 .. k - 1 /\ (d * b + e) \div k \in 0 .. b - 1
         /\ \A r \in 0 .. k - 1, c \in 0 .. b - 1 :
              \E d0 \in 0 .. k - 1, e0 \in 0 .. b - 1 :
                \A d \in 0 .. k - 1, e \in 0 .. b - 1 :
                  ((d * b + e) % k = r /\ (d * b + e) \div k = c) <=> (d = d0 /\ e = e0)
<1> DEFINE n == k * b
<1>1. Digits(k, b) /\ Digits(b, k) /\ b * k = k * b
  BY TwoDigits, SMT
<1>2. ASSUME NEW d \in 0 .. k - 1, NEW e \in 0 .. b - 1
      PROVE  /\ d * b + e \in 0 .. n - 1
             /\ (d * b + e) % k \in 0 .. k - 1 /\ (d * b + e) \div k \in 0 .. b - 1
  <2> DEFINE x == d * b + e
  <2>1. x \in 0 .. n - 1
    BY <1>1 DEF Digits
  <2> HIDE DEF x
  <2>2. x % k \in 0 .. k - 1 /\ x \div k \in 0 .. b - 1
    BY <1>1, <2>1 DEF Digits
  <2> QED BY <2>1, <2>2 DEF x
<1>3. ASSUME NEW r \in 0 .. k - 1, NEW c \in 0 .. b - 1
      PROVE  \E d0 \in 0 .. k - 1, e0 \in 0 .. b - 1 :
               \A d \in 0 .. k - 1, e \in 0 .. b - 1 :
                 ((d * b + e) % k = r /\ (d * b + e) \div k = c) <=> (d = d0 /\ e = e0)
  <2> DEFINE y == c * k + r
             d0 == y \div b
             e0 == y % b
  <2>1. y \in 0 .. n - 1
    BY <1>1 DEF Digits
  <2>2. d0 \in 0 .. k - 1 /\ e0 \in 0 .. b - 1
    <3> HIDE DEF y
    <3> QED BY <1>1, <2>1 DEF Digits
  <2>3. ASSUME NEW d \in 0 .. k - 1, NEW e \in 0 .. b - 1
        PROVE  ((d * b + e) % k = r /\ (d * b + e) \div k = c) <=> (d = d0 /\ e = e0)
    <3> DEFINE x == d * b + e
    <3>1. x \in 0 .. n - 1
      BY <1>2
    <3> HIDE DEF x
    <3>2. (x \div k = c /\ x % k = r) <=> x = y
      BY <1>1, <3>1 DEF Digits
    <3> HIDE DEF y
    <3>3. (d0 = d /\ e0 = e) <=> y = x
      BY <1>1, <2>1 DEF Digits, x
    <3> HIDE DEF d0, e0
    <3> QED BY <3>2, <3>3 DEF x
  <2> HIDE DEF d0, e0
  <2> QED BY <2>2, <2>3
<1> QED BY <1>2, <1>3

(* The rows of the group that begins with row g * 8. *)
RowsIn(s, g) == IF g < s.tm \div GroupRows THEN GroupRows ELSE s.tm % GroupRows

(* Row, group and place in the group: a row is in one group, which has as many
   rows as the scheduler takes it to have. *)
LEMMA RowsOfGroup ==
  ASSUME NEW s, s.tm \in Nat \ {0}
  PROVE  /\ \A row \in 0 .. s.tm - 1 :
              /\ row \div GroupRows \in Nat
              /\ RowsIn(s, row \div GroupRows) \in Nat \ {0}
              /\ row % GroupRows \in 0 .. RowsIn(s, row \div GroupRows) - 1
              /\ RowsIn(s, row \div GroupRows) =
                   IF row < s.tm - (s.tm % GroupRows) THEN GroupRows ELSE s.tm % GroupRows
              /\ \A d \in 0 .. RowsIn(s, row \div GroupRows) - 1 :
                   (row \div GroupRows) * GroupRows + d \in 0 .. s.tm - 1
         /\ \A g \in Nat : \A d \in 0 .. RowsIn(s, g) - 1, row \in 0 .. s.tm - 1 :
              (row \div GroupRows = g /\ row % GroupRows = d) <=> row = g * GroupRows + d
<1> DEFINE m == s.tm
           a == m \div 8
           b == m % 8
<1>0. m \in Nat
  OBVIOUS
<1>1. m \in Nat /\ a \in Nat /\ b \in 0 .. 7 /\ m = 8 * a + b
  <2> HIDE DEF m
  <2> QED BY <1>0, SMT
<1>2. ASSUME NEW g PROVE RowsIn(s, g) = IF g < a THEN 8 ELSE b
  BY DEF RowsIn, GroupRows
<1> HIDE DEF m, a, b
<1>3. ASSUME NEW row \in 0 .. m - 1
      PROVE  /\ row \div 8 \in Nat /\ row % 8 \in 0 .. 7
             /\ row = 8 * (row \div 8) + (row % 8)
             /\ row \div 8 <= a
             /\ row \div 8 < a <=> row < m - b
             /\ row \div 8 = a => row % 8 < b
  BY <1>1, SMT
<1>4. ASSUME NEW row \in 0 .. m - 1
      PROVE  /\ RowsIn(s, row \div 8) \in Nat \ {0}
             /\ row % 8 \in 0 .. RowsIn(s, row \div 8) - 1
             /\ RowsIn(s, row \div 8) = IF row < m - b THEN 8 ELSE b
             /\ \A d \in 0 .. RowsIn(s, row \div 8) - 1 : (row \div 8) * 8 + d \in 0 .. m - 1
  <2> DEFINE g == row \div 8
             r == row % 8
  <2>1. /\ g \in Nat /\ r \in 0 .. 7 /\ row = 8 * g + r /\ g <= a
        /\ (g < a <=> row < m - b) /\ (g = a => r < b)
    BY <1>3
  <2>2. RowsIn(s, g) = IF g < a THEN 8 ELSE b
    BY <1>2
  <2> HIDE DEF g, r
  <2>3. /\ RowsIn(s, g) \in Nat \ {0} /\ r \in 0 .. RowsIn(s, g) - 1
        /\ RowsIn(s, g) = IF row < m - b THEN 8 ELSE b
    BY <1>1, <2>1, <2>2
  <2>4. \A d \in 0 .. RowsIn(s, g) - 1 : g * 8 + d \in 0 .. m - 1
    BY <1>1, <2>1, <2>2
  <2> QED BY <2>3, <2>4 DEF g, r
<1>5. ASSUME NEW g \in Nat, NEW d \in 0 .. RowsIn(s, g) - 1, NEW row \in 0 .. m - 1
      PROVE  (row \div 8 = g /\ row % 8 = d) <=> row = g * 8 + d
  <2>1. d \in 0 .. 7
    BY <1>1, <1>2
  <2> QED BY <1>1, <2>1, SMT
<1> QED BY <1>3, <1>4, <1>5 DEF m, b, GroupRows

(* Down the columns of eight rows at a time, or of those that are left. *)
LEMMA GroupedOnce ==
  ASSUME NEW s, s.order = "grouped", s.tm \in Nat \ {0}, s.tn \in Nat \ {0}
  PROVE  Covers(s)
<1> DEFINE w == GroupRows
           n == s.tm * s.tn
           Line(t) == t \div s.tn
           G(t) == Line(t) \div w
           R(t) == RowsIn(s, G(t))
           Local(t) == (Line(t) % w) * s.tn + (t % s.tn)
           Tile(t) == <<G(t) * w + (Local(t) % R(t)), Local(t) \div R(t)>>
<1>1. n \in Nat /\ Tasks(s) = n
  BY PlainTasks, SMT DEF Plainly
<1>2. Digits(s.tm, s.tn)
  BY TwoDigits
<1> HIDE DEF n
<1>3. ASSUME NEW t \in 0 .. n - 1 PROVE Line(t) \in 0 .. s.tm - 1 /\ t % s.tn \in 0 .. s.tn - 1
  BY <1>2 DEF n, Digits
<1>4. ASSUME NEW t \in 0 .. n - 1
      PROVE  /\ G(t) \in Nat /\ R(t) \in Nat \ {0} /\ Line(t) % w \in 0 .. R(t) - 1
             /\ R(t) = IF Line(t) < s.tm - (s.tm % w) THEN w ELSE s.tm % w
             /\ \A d \in 0 .. R(t) - 1 : G(t) * w + d \in 0 .. s.tm - 1
  BY <1>3, RowsOfGroup, Zenon
<1>5. ASSUME NEW t \in 0 .. n - 1 PROVE TilesOf(s, t) = {Tile(t)}
  <2>1. Grouped(s, t) = <<G(t) * w + (Local(t) % R(t)), Local(t) \div R(t)>>
    BY <1>4, Zenon DEF Grouped
  <2> QED BY <2>1 DEF TilesOf
<1>6. ASSUME NEW t \in 0 .. n - 1
      PROVE  Local(t) % R(t) \in 0 .. R(t) - 1 /\ Local(t) \div R(t) \in 0 .. s.tn - 1
  BY <1>3, <1>4, BlockTransposed, Zenon
<1>7. ASSUME NEW t \in 0 .. n - 1 PROVE TilesOf(s, t) \subseteq Grid(s)
  <2>1. G(t) * w + (Local(t) % R(t)) \in 0 .. s.tm - 1
    BY <1>4, <1>6, Zenon
  <2> DEFINE x == G(t) * w + (Local(t) % R(t))
             y == Local(t) \div R(t)
  <2>2. TilesOf(s, t) = {<<x, y>>} /\ x \in 0 .. s.tm - 1 /\ y \in 0 .. s.tn - 1
    BY <1>5, <1>6, <2>1, Zenon
  <2> HIDE DEF x, y
  <2> QED BY <2>2 DEF Grid
<1>0. \A g \in Nat : \A d \in 0 .. RowsIn(s, g) - 1, row \in 0 .. s.tm - 1 :
        (row \div w = g /\ row % w = d) <=> row = g * w + d
  BY RowsOfGroup, Zenon
<1>8. ASSUME NEW c \in Grid(s)
      PROVE  \E t \in 0 .. n - 1 : \A u \in 0 .. n - 1 : c \in TilesOf(s, u) <=> u = t
  <2>1. PICK m \in 0 .. s.tm - 1, k \in 0 .. s.tn - 1 : c = <<m, k>>
    BY DEF Grid
  <2> DEFINE g == m \div w
             h == RowsIn(s, g)
             r == m % w
  <2>2. g \in Nat /\ h \in Nat \ {0} /\ r \in 0 .. h - 1 /\ \A d \in 0 .. h - 1 : g * w + d \in 0 .. s.tm - 1
    BY RowsOfGroup, Zenon
  <2> HIDE DEF h
  <2>3. PICK d0 \in 0 .. h - 1, e0 \in 0 .. s.tn - 1 :
          \A d \in 0 .. h - 1, e \in 0 .. s.tn - 1 :
            ((d * s.tn + e) % h = r /\ (d * s.tn + e) \div h = k) <=> (d = d0 /\ e = e0)
    <3>1. \A f \in 0 .. h - 1, i \in 0 .. s.tn - 1 :
            \E d0 \in 0 .. h - 1, e0 \in 0 .. s.tn - 1 :
              \A d \in 0 .. h - 1, e \in 0 .. s.tn - 1 :
                ((d * s.tn + e) % h = f /\ (d * s.tn + e) \div h = i) <=> (d = d0 /\ e = e0)
      BY <2>2, BlockTransposed, Zenon
    <3> HIDE DEF r
    <3> QED BY <2>2, <3>1, Zenon
  <2> DEFINE row == g * w + d0
             t == row * s.tn + e0
  <2>4. row \in 0 .. s.tm - 1
    BY <2>2
  <2>5. t \in 0 .. n - 1 /\ \A u \in 0 .. n - 1 : (u \div s.tn = row /\ u % s.tn = e0) <=> u = t
    <3> HIDE DEF row
    <3> QED BY <1>2, <2>4 DEF n, Digits
  <2>6. ASSUME NEW u \in 0 .. n - 1 PROVE c \in TilesOf(s, u) <=> u = t
    <3> DEFINE x == Local(u) % R(u)
               y == Local(u) \div R(u)
    <3>1. c \in TilesOf(s, u) <=> G(u) * w + x = m /\ y = k
      BY <1>5, <2>1
    <3>2. G(u) * w + x = m <=> g = G(u) /\ r = x
      <4>1. x \in 0 .. RowsIn(s, G(u)) - 1 /\ G(u) \in Nat
        BY <1>4, <1>6
      <4> HIDE DEF x
      <4>2. (m \div w = G(u) /\ m % w = x) <=> m = G(u) * w + x
        <5> DEFINE i == G(u)
        <5>1. x \in 0 .. RowsIn(s, i) - 1 /\ i \in Nat
          BY <4>1
        <5> HIDE DEF i
        <5>2. (m \div w = i /\ m % w = x) <=> m = i * w + x
          BY <1>0, <5>1, Zenon
        <5> QED BY <5>2 DEF i
      <4> QED BY <4>2
    <3>3. CASE g = G(u)
      <4>1. h = R(u) /\ Line(u) % w \in 0 .. h - 1
        BY <1>4, <3>3 DEF h
      <4>2. (x = r /\ y = k) <=> (Line(u) % w = d0 /\ u % s.tn = e0)
        BY <1>3, <2>3, <4>1, Zenon
      <4>3. (Line(u) \div w = g /\ Line(u) % w = d0) <=> Line(u) = row
        <5> DEFINE v == Line(u)
        <5>1. v \in 0 .. s.tm - 1 /\ d0 \in 0 .. RowsIn(s, g) - 1 /\ g \in Nat
          BY <1>3, <2>2, Zenon DEF h
        <5> HIDE DEF v, g
        <5>2. (v \div w = g /\ v % w = d0) <=> v = g * w + d0
          BY <1>0, <5>1, Zenon
        <5> QED BY <5>2 DEF v
      <4> HIDE DEF x, y, row, t
      <4>4. c \in TilesOf(s, u) <=> Line(u) = row /\ u % s.tn = e0
        BY <3>1, <3>2, <3>3, <4>2, <4>3, Zenon
      <4> QED BY <2>5, <4>4, Zenon
    <3>4. CASE g # G(u)
      <4>1. c \notin TilesOf(s, u)
        BY <3>1, <3>2, <3>4
      <4>2. (row \div w = g /\ row % w = d0) <=> row = g * w + d0
        <5>1. row \in 0 .. s.tm - 1 /\ d0 \in 0 .. RowsIn(s, g) - 1 /\ g \in Nat
          BY <2>2, <2>4, Zenon DEF h
        <5> HIDE DEF g, row
        <5> QED BY <1>0, <5>1, Zenon
      <4>3. row \div w = g
        BY <4>2
      <4>4. Line(u) # row
        BY <3>4, <4>3, Zenon
      <4> HIDE DEF t, row
      <4> QED BY <2>5, <4>1, <4>4, Zenon
    <3> QED BY <3>3, <3>4
  <2> HIDE DEF t
  <2> QED BY <2>5, <2>6
<1> QED BY <1>1, <1>7, <1>8, OneTaskEach

(* Stripes: rows of a stripe, peers, stripes of a column, columns of a peer, from
   the fastest number to the slowest. *)
(* A stripe has R rows, a column G stripes; there are p peers with q columns each. *)
StripesCover(R, p, G, q, me) ==
  LET n == ((q * G) * p) * R
      k(t) == (t \div R) % p
      z(t) == (t \div R) \div p
      m(t) == (z(t) % G) * R + (t % R)
      c(t) == ((k(t) + me) % p) * q + (z(t) \div G)
  IN /\ \A t \in 0 .. n - 1 : m(t) \in 0 .. G * R - 1 /\ c(t) \in 0 .. p * q - 1
     /\ \A x \in 0 .. G * R - 1, y \in 0 .. p * q - 1 : \E t \in 0 .. n - 1 :
          \A u \in 0 .. n - 1 : (m(u) = x /\ c(u) = y) <=> u = t

(* For all numbers of rows, peers and columns, stripes reach every tile once. *)
LEMMA Stripes ==
  ASSUME NEW R \in Nat \ {0}, NEW p \in Nat \ {0}, NEW G \in Nat \ {0}, NEW q \in Nat \ {0},
         NEW me \in 0 .. p - 1
  PROVE  StripesCover(R, p, G, q, me)
<1> DEFINE a == q * G
           b == a * p
           n == b * R
           k(t) == (t \div R) % p
           z(t) == (t \div R) \div p
           m(t) == (z(t) % G) * R + (t % R)
           l(t) == (k(t) + me) % p
           c(t) == l(t) * q + (z(t) \div G)
<1>1. a \in Nat /\ b \in Nat
  <2>1. a \in Nat
    BY SMT
  <2> HIDE DEF a
  <2> QED BY <2>1, SMT
<1>2. /\ \A t \in 0 .. n - 1 : t \div R \in 0 .. b - 1 /\ t % R \in 0 .. R - 1
      /\ \A i \in 0 .. b - 1, r \in 0 .. R - 1 : i * R + r \in 0 .. n - 1
      /\ \A i \in 0 .. b - 1, r \in 0 .. R - 1, u \in 0 .. n - 1 :
           (u \div R = i /\ u % R = r) <=> u = i * R + r
  <2> HIDE DEF b
  <2> QED BY <1>1, TwoDigits, Zenon DEF Digits
<1>3. /\ \A t \in 0 .. b - 1 : t \div p \in 0 .. a - 1 /\ t % p \in 0 .. p - 1
      /\ \A i \in 0 .. a - 1, r \in 0 .. p - 1 : i * p + r \in 0 .. b - 1
      /\ \A i \in 0 .. a - 1, r \in 0 .. p - 1, u \in 0 .. b - 1 :
           (u \div p = i /\ u % p = r) <=> u = i * p + r
  <2> HIDE DEF a
  <2> QED BY <1>1, TwoDigits, Zenon DEF Digits
<1>4. /\ \A t \in 0 .. a - 1 : t \div G \in 0 .. q - 1 /\ t % G \in 0 .. G - 1
      /\ \A i \in 0 .. q - 1, r \in 0 .. G - 1 : i * G + r \in 0 .. a - 1
      /\ \A i \in 0 .. q - 1, r \in 0 .. G - 1, u \in 0 .. a - 1 :
           (u \div G = i /\ u % G = r) <=> u = i * G + r
  BY TwoDigits, Zenon DEF Digits
<1>5. Digits(G, R) /\ Digits(p, q)
  BY TwoDigits
<1>6. /\ \A i \in Nat : (i + me) % p \in 0 .. p - 1
      /\ \A i \in 0 .. p - 1 : \E j \in 0 .. p - 1 :
           \A u \in 0 .. p - 1 : (u + me) % p = i <=> u = j
  BY Rotation, Zenon
<1> HIDE DEF n, b, a
<1>7. ASSUME NEW t \in 0 .. n - 1
      PROVE  /\ t \div R \in 0 .. b - 1 /\ t % R \in 0 .. R - 1
             /\ k(t) \in 0 .. p - 1 /\ z(t) \in 0 .. a - 1
             /\ z(t) % G \in 0 .. G - 1 /\ z(t) \div G \in 0 .. q - 1
             /\ l(t) \in 0 .. p - 1
  <2>1. t \div R \in 0 .. b - 1 /\ t % R \in 0 .. R - 1
    BY <1>2
  <2>2. k(t) \in 0 .. p - 1 /\ z(t) \in 0 .. a - 1
    BY <1>3, <2>1, Zenon
  <2>3. z(t) % G \in 0 .. G - 1 /\ z(t) \div G \in 0 .. q - 1
    BY <1>4, <2>2, Zenon
  <2> HIDE DEF k
  <2>4. k(t) \in Nat
    BY <2>2
  <2>5. l(t) \in 0 .. p - 1
    BY <1>6, <2>4, Zenon
  <2> QED BY <2>1, <2>2, <2>3, <2>5
<1>8. ASSUME NEW t \in 0 .. n - 1 PROVE m(t) \in 0 .. G * R - 1 /\ c(t) \in 0 .. p * q - 1
  <2>1. /\ z(t) % G \in 0 .. G - 1 /\ t % R \in 0 .. R - 1
        /\ l(t) \in 0 .. p - 1 /\ z(t) \div G \in 0 .. q - 1
    BY <1>7
  <2> HIDE DEF z, l
  <2> QED BY <1>5, <2>1, Zenon DEF Digits
<1>9. ASSUME NEW x \in 0 .. G * R - 1, NEW y \in 0 .. p * q - 1
      PROVE  \E t \in 0 .. n - 1 : \A u \in 0 .. n - 1 : (m(u) = x /\ c(u) = y) <=> u = t
  <2> DEFINE g0 == x \div R
             r0 == x % R
             l0 == y \div q
             i0 == y % q
  <2>1. g0 \in 0 .. G - 1 /\ r0 \in 0 .. R - 1 /\ l0 \in 0 .. p - 1 /\ i0 \in 0 .. q - 1
    BY <1>5, Zenon DEF Digits
  <2>2. \A g \in 0 .. G - 1, r \in 0 .. R - 1 : (g0 = g /\ r0 = r) <=> x = g * R + r
    BY <1>5, Zenon DEF Digits
  <2>3. \A e \in 0 .. p - 1, i \in 0 .. q - 1 : (l0 = e /\ i0 = i) <=> y = e * q + i
    BY <1>5, Zenon DEF Digits
  <2> HIDE DEF g0, r0, l0, i0
  <2>4. PICK k0 \in 0 .. p - 1 : \A u \in 0 .. p - 1 : (u + me) % p = l0 <=> u = k0
    BY <1>6, <2>1, Zenon
  <2> DEFINE z0 == i0 * G + g0
             v0 == z0 * p + k0
             t0 == v0 * R + r0
  <2>5. z0 \in 0 .. a - 1 /\ \A u \in 0 .. a - 1 : (u \div G = i0 /\ u % G = g0) <=> u = z0
    BY <1>4, <2>1, Zenon
  <2> HIDE DEF z0
  <2>6. v0 \in 0 .. b - 1 /\ \A u \in 0 .. b - 1 : (u \div p = z0 /\ u % p = k0) <=> u = v0
    BY <1>3, <2>5, Zenon
  <2> HIDE DEF v0
  <2>7. t0 \in 0 .. n - 1 /\ \A u \in 0 .. n - 1 : (u \div R = v0 /\ u % R = r0) <=> u = t0
    BY <1>2, <2>1, <2>6, Zenon
  <2> HIDE DEF t0
  <2>8. ASSUME NEW u \in 0 .. n - 1 PROVE (m(u) = x /\ c(u) = y) <=> u = t0
    <3>1. m(u) = x <=> z(u) % G = g0 /\ u % R = r0
      <4>1. z(u) % G \in 0 .. G - 1 /\ u % R \in 0 .. R - 1
        BY <1>7
      <4> HIDE DEF z
      <4>2. (g0 = z(u) % G /\ r0 = u % R) <=> x = (z(u) % G) * R + (u % R)
        BY <2>2, <4>1, Zenon
      <4> QED BY <4>2
    <3>2. c(u) = y <=> l(u) = l0 /\ z(u) \div G = i0
      <4>1. l(u) \in 0 .. p - 1 /\ z(u) \div G \in 0 .. q - 1
        BY <1>7
      <4> HIDE DEF z, l
      <4>2. (l0 = l(u) /\ i0 = z(u) \div G) <=> y = l(u) * q + (z(u) \div G)
        BY <2>3, <4>1, Zenon
      <4> QED BY <4>2
    <3>3. l(u) = l0 <=> k(u) = k0
      <4>1. k(u) \in 0 .. p - 1
        BY <1>7
      <4> HIDE DEF k
      <4> QED BY <2>4, <4>1, Zenon
    <3>4. (z(u) \div G = i0 /\ z(u) % G = g0) <=> z(u) = z0
      <4>1. z(u) \in 0 .. a - 1
        BY <1>7
      <4> HIDE DEF z
      <4> QED BY <2>5, <4>1, Zenon
    <3>5. (z(u) = z0 /\ k(u) = k0) <=> u \div R = v0
      <4>1. u \div R \in 0 .. b - 1
        BY <1>7
      <4> QED BY <2>6, <4>1, Zenon
    <3>6. (u \div R = v0 /\ u % R = r0) <=> u = t0
      BY <2>7
    <3> HIDE DEF m, c, l, z, k
    <3> QED BY <3>1, <3>2, <3>3, <3>4, <3>5, <3>6, Zenon
  <2> HIDE DEF m, c
  <2> QED BY <2>7, <2>8, Zenon
<1> HIDE DEF m, c
<1>10. /\ \A t \in 0 .. n - 1 : m(t) \in 0 .. G * R - 1 /\ c(t) \in 0 .. p * q - 1
       /\ \A x \in 0 .. G * R - 1, y \in 0 .. p * q - 1 : \E t \in 0 .. n - 1 :
            \A u \in 0 .. n - 1 : (m(u) = x /\ c(u) = y) <=> u = t
  BY <1>8, <1>9
<1> QED BY <1>10, Zenon DEF StripesCover, m, c, l, z, k, n, b, a

(* Two rows of a column, then the next peer; the columns of no peer behind that. *)
LEMMA StripeOnce ==
  ASSUME NEW s, s.order = "stripe", s.tm \in Nat \ {0}, s.tm = 1 \/ s.tm % 2 = 0,
         s.peers \in Nat \ {0}, s.perPeer \in Nat \ {0}, s.me \in 0 .. s.peers - 1,
         s.tn \in Nat, s.tn >= Scattered(s)
  PROVE  Covers(s)
<1> DEFINE R == StripeRows(s)
           G == s.tm \div R
           p == s.peers
           q == s.perPeer
           S == p * q
           a == ((q * G) * p) * R
           b == (s.tn - S) * s.tm
           n == s.tm * s.tn
           k(t) == (t \div R) % p
           z(t) == (t \div R) \div p
           m(t) == (z(t) % G) * R + (t % R)
           c(t) == ((k(t) + s.me) % p) * q + (z(t) \div G)
<1>1. R \in Nat \ {0} /\ G \in Nat \ {0} /\ s.tm = G * R
  <2>1. CASE s.tm = 1
    <3>1. R = 1
      BY <2>1 DEF StripeRows
    <3> HIDE DEF R
    <3> QED BY <2>1, <3>1, SMT
  <2>2. CASE s.tm # 1
    <3>1. s.tm >= 2 /\ s.tm % 2 = 0
      BY <2>2
    <3>2. R = 2
      BY <3>1 DEF StripeRows
    <3> HIDE DEF R
    <3> QED BY <3>1, <3>2, SMT
  <2> QED BY <2>1, <2>2
<1>2. S \in Nat /\ Scattered(s) = S /\ S <= s.tn
  BY SMT DEF Scattered
<1>3. S * s.tm = a /\ a \in Nat /\ b \in Nat /\ n = a + b
  <2>1. S * s.tm = a
    <3> HIDE DEF G, R
    <3> QED BY <1>1, SMT
  <2>2. S * s.tm \in Nat /\ b \in Nat /\ n = S * s.tm + b
    <3> HIDE DEF S
    <3>1. s.tn - S \in Nat
      BY <1>2
    <3> QED BY <1>2, <3>1, SMT
  <2> QED BY <2>1, <2>2
<1>4. n \in Nat /\ Tasks(s) = n
  BY PlainTasks, SMT DEF Plainly
<1>5. /\ \A t \in 0 .. a - 1 : m(t) \in 0 .. G * R - 1 /\ c(t) \in 0 .. S - 1
      /\ \A x \in 0 .. G * R - 1, y \in 0 .. S - 1 : \E t \in 0 .. a - 1 :
           \A u \in 0 .. a - 1 : (m(u) = x /\ c(u) = y) <=> u = t
  <2> HIDE DEF R, G
  <2>1. StripesCover(R, p, G, q, s.me)
    BY <1>1, Stripes
  <2> QED BY <2>1 DEF StripesCover
<1>6. ASSUME NEW t
      PROVE  TilesOf(s, t) = {IF t < a THEN <<m(t), c(t)>>
                              ELSE <<(t - a) % s.tm, S + ((t - a) \div s.tm)>>}
  <2>1. Scattered(s) * s.tm = a
    BY <1>2, <1>3, Zenon
  <2>2. Stripe(s, t) = IF t < a THEN <<m(t), c(t)>>
                       ELSE <<(t - a) % s.tm, S + ((t - a) \div s.tm)>>
    <3> HIDE DEF a, S
    <3> QED BY <1>2, <2>1, Zenon DEF Stripe
  <2> HIDE DEF a, S, m, c
  <2> QED BY <2>2 DEF TilesOf
<1> HIDE DEF m, c
<1>7. Digits(s.tn - S, s.tm)
  <2> HIDE DEF S
  <2>1. s.tn - S \in Nat
    BY <1>2
  <2> QED BY <2>1, TwoDigits
<1>8. /\ \A t \in 0 .. b - 1 : t \div s.tm \in 0 .. (s.tn - S) - 1 /\ t % s.tm \in 0 .. s.tm - 1
      /\ \A i \in 0 .. (s.tn - S) - 1, r \in 0 .. s.tm - 1 : i * s.tm + r \in 0 .. b - 1
      /\ \A i \in 0 .. (s.tn - S) - 1, r \in 0 .. s.tm - 1, u \in 0 .. b - 1 :
           (u \div s.tm = i /\ u % s.tm = r) <=> u = i * s.tm + r
  BY <1>7, Zenon DEF Digits
<1>9. \A t \in 0 .. n - 1 : (t < a => t \in 0 .. a - 1) /\ (~ (t < a) => t - a \in 0 .. b - 1)
  <2> HIDE DEF n, a, b
  <2> QED BY <1>3
<1>10. \A t \in 0 .. a - 1 : m(t) \in 0 .. s.tm - 1 /\ c(t) \in 0 .. S - 1
  BY <1>1, <1>5, Zenon
<1> HIDE DEF n, a, b, S, G, R
<1>11. ASSUME NEW t \in 0 .. n - 1 PROVE TilesOf(s, t) \subseteq Grid(s)
  <2>1. CASE t < a
    <3>1. TilesOf(s, t) = {<<m(t), c(t)>>}
      BY <1>6, <2>1
    <3>2. m(t) \in 0 .. s.tm - 1 /\ c(t) \in 0 .. S - 1
      BY <1>9, <1>10, <2>1
    <3> QED BY <1>2, <3>1, <3>2 DEF Grid
  <2>2. CASE ~ (t < a)
    <3> DEFINE x == (t - a) % s.tm
               y == (t - a) \div s.tm
    <3>1. TilesOf(s, t) = {<<x, S + y>>}
      BY <1>6, <2>2
    <3>2. x \in 0 .. s.tm - 1 /\ y \in 0 .. (s.tn - S) - 1
      BY <1>8, <1>9, <2>2, Zenon
    <3> HIDE DEF x, y
    <3> QED BY <1>2, <3>1, <3>2 DEF Grid
  <2> QED BY <2>1, <2>2
<1>12. ASSUME NEW d \in Grid(s)
       PROVE  \E t \in 0 .. n - 1 : \A u \in 0 .. n - 1 : d \in TilesOf(s, u) <=> u = t
  <2>1. PICK x \in 0 .. s.tm - 1, y \in 0 .. s.tn - 1 : d = <<x, y>>
    BY DEF Grid
  <2>2. CASE y < S
    <3>1. y \in 0 .. S - 1 /\ x \in 0 .. G * R - 1
      BY <1>1, <1>2, <2>2
    <3> HIDE DEF p, q, k, z
    <3>2. PICK t \in 0 .. a - 1 : \A u \in 0 .. a - 1 : (m(u) = x /\ c(u) = y) <=> u = t
      <4>1. \A i \in 0 .. G * R - 1, j \in 0 .. S - 1 : \E t \in 0 .. a - 1 :
              \A u \in 0 .. a - 1 : (m(u) = i /\ c(u) = j) <=> u = t
        BY <1>5
      <4> QED BY <3>1, <4>1, SMTT(30)
    <3>3. ASSUME NEW u \in 0 .. n - 1 PROVE d \in TilesOf(s, u) <=> u = t
      <4>1. CASE u < a
        <5>1. u \in 0 .. a - 1
          BY <1>9, <4>1
        <5>2. d \in TilesOf(s, u) <=> m(u) = x /\ c(u) = y
          BY <1>6, <2>1, <4>1
        <5> QED BY <3>2, <5>1, <5>2, Zenon
      <4>2. CASE ~ (u < a)
        <5> DEFINE v == (u - a) \div s.tm
        <5>1. d \in TilesOf(s, u) => y = S + v
          BY <1>6, <2>1, <4>2
        <5>2. v \in 0 .. (s.tn - S) - 1
          BY <1>8, <1>9, <4>2, Zenon
        <5> HIDE DEF v
        <5>3. d \notin TilesOf(s, u)
          BY <1>2, <2>2, <5>1, <5>2
        <5> QED BY <1>3, <4>2, <5>3
      <4> QED BY <4>1, <4>2
    <3>4. t \in 0 .. n - 1
      BY <1>3
    <3> QED BY <3>3, <3>4
  <2>3. CASE ~ (y < S)
    <3> DEFINE i == y - S
               t == i * s.tm + x
    <3>1. i \in 0 .. (s.tn - S) - 1
      BY <1>2, <2>3
    <3> HIDE DEF i
    <3>2. t \in 0 .. b - 1 /\ \A u \in 0 .. b - 1 : (u \div s.tm = i /\ u % s.tm = x) <=> u = t
      BY <1>8, <3>1, Zenon
    <3> HIDE DEF t
    <3>3. ASSUME NEW u \in 0 .. n - 1 PROVE d \in TilesOf(s, u) <=> u = a + t
      <4>1. CASE u < a
        <5>1. d \in TilesOf(s, u) => c(u) = y
          BY <1>6, <2>1, <4>1
        <5>2. c(u) \in 0 .. S - 1
          BY <1>9, <1>10, <4>1
        <5>3. d \notin TilesOf(s, u)
          BY <1>2, <2>3, <5>1, <5>2
        <5> QED BY <1>3, <3>2, <4>1, <5>3
      <4>2. CASE ~ (u < a)
        <5> DEFINE v == u - a
                   w == v \div s.tm
        <5>1. v \in 0 .. b - 1
          BY <1>9, <4>2
        <5>2. d \in TilesOf(s, u) <=> v % s.tm = x /\ S + w = y
          BY <1>6, <2>1, <4>2
        <5>3. w \in 0 .. (s.tn - S) - 1
          BY <1>8, <5>1, Zenon
        <5>4. S + w = y <=> w = i
          <6> HIDE DEF w
          <6> QED BY <1>2, <5>3 DEF i
        <5>5. (w = i /\ v % s.tm = x) <=> v = t
          <6> HIDE DEF v
          <6> QED BY <3>2, <5>1, Zenon
        <5>6. v = t <=> u = a + t
          BY <1>3, <3>2
        <5> HIDE DEF v, w
        <5> QED BY <5>2, <5>4, <5>5, <5>6, Zenon
      <4> QED BY <4>1, <4>2
    <3>4. a + t \in 0 .. n - 1
      BY <1>3, <3>2
    <3> QED BY <3>3, <3>4
  <2> QED BY <2>2, <2>3
<1> QED BY <1>4, <1>11, <1>12, OneTaskEach

(* Whatever the size of the launch, the index arithmetic of the GEMM and attention
   kernels brings up every tile for exactly one task and none outside the launch,
   if the order is used for the launches it is made for. *)
THEOREM EveryTileOnce == ASSUME NEW s, Suits(s) PROVE Covers(s)
<1>1. CASE s.order = "bycolumn" /\ HasTiles(s)
  BY <1>1, ColumnOnce DEF HasTiles
<1>2. CASE s.order \in {"byrow", "rows"} /\ HasTiles(s) /\ (s.order = "rows" => s.tn \in {31, 32})
  BY <1>2, RowOnce DEF HasTiles
<1>3. CASE s.order = "grouped" /\ HasTiles(s)
  BY <1>3, GroupedOnce DEF HasTiles
<1>4. CASE s.order = "roundrobin" /\ Scatters(s)
  BY <1>4, RoundRobinOnce DEF Scatters
<1>5. CASE /\ s.order = "stripe" /\ Scatters(s)
           /\ s.me \in 0 .. s.peers - 1 /\ (s.tm = 1 \/ s.tm % 2 = 0)
  BY <1>5, StripeOnce DEF Scatters
<1>6. CASE s.order = "workers" /\ HasTiles(s) /\ s.tn \in ColumnWorkers .. 2 * ColumnWorkers
  BY <1>6, WorkersOnce DEF HasTiles
<1>7. CASE s.order = "shards" /\ HasTiles(s) /\ s.tn = ShardTiles /\ s.me \in 0 .. s.tm - 1
  BY <1>7, ShardsOnce DEF HasTiles
<1>8. CASE /\ s.order = "splits" /\ HasTiles(s) /\ s.tn = 1 /\ s.peers \in Nat \ {0}
           /\ (s.peers - 1) * PerSplit(s) <= s.tm
  BY <1>8, SplitsOnce DEF HasTiles
<1>9. CASE s.order = "tokens" /\ s.tm \in Nat /\ s.tn \in Nat \ {0} /\ s.peers \in Nat \ {0}
  BY <1>9, TokensOnce
<1> QED BY <1>1, <1>2, <1>3, <1>4, <1>5, <1>6, <1>7, <1>8, <1>9, Zenon DEF Suits

(***************************************************************************)
(* WaveLds.  What barriers do whatever is executed between them, and with  *)
(* loads and signals of any kind.                                          *)
(***************************************************************************)

(* Barriers are counted for the waves there are. *)
Counted == DOMAIN passed = Crew /\ \A w \in Crew : passed[w] \in Nat

(* No wave is more than one barrier ahead of another one that still runs; and
   where it is one ahead, the other stands before the barrier it came through.
   This is what s_barrier promises, and what lets a kernel run its two groups of
   waves one barrier apart. *)
Abreast ==
  \A v, w \in Crew :
    passed[v] > passed[w] => Ended(w) \/ (passed[v] = passed[w] + 1 /\ Op(w) = "bar")

(* Unless all waves have ended, there is one that no barrier holds up, even if the
   waves go through different numbers of them. *)
NeverStuck == (\E w \in Crew : ~ Ended(w)) => \E w \in Crew : ~ Ended(w) /\ (Op(w) = "bar" => Released(w))

(* What an instruction does besides its own work: it counts as executed, and only
   a barrier is counted. *)
LEMMA StepForward ==
  ASSUME NEW w \in Crew, Step(w)
  PROVE  /\ ~ Ended(w)
         /\ todo' = [todo EXCEPT ![w] = Tail(@)]
         /\ kernel' = kernel
         /\ \/ Op(w) # "bar" /\ passed' = passed
            \/ Op(w) = "bar" /\ Released(w) /\ passed' = [passed EXCEPT ![w] = @ + 1]
<1>1. CASE Barrier(w)
  BY <1>1 DEF Barrier, Advance, Op
<1>2. CASE FetchSlot(w)
  BY <1>2 DEF FetchSlot, Advance, Op
<1>3. CASE StoreSlot(w)
  BY <1>3 DEF StoreSlot, Advance, Op
<1>4. CASE PullRegister(w)
  BY <1>4 DEF PullRegister, Advance, Op
<1>5. CASE PullScalarRegister(w)
  BY <1>5 DEF PullScalarRegister, Advance, Op
<1>6. CASE ReadSlot(w)
  BY <1>6 DEF ReadSlot, Advance, Op
<1>7. CASE WaitLoads(w)
  BY <1>7 DEF WaitLoads, Advance, Op
<1>8. CASE WaitReads(w)
  BY <1>8 DEF WaitReads, Advance, Op
<1>9. CASE Signal(w)
  BY <1>9 DEF Signal, Advance, Op
<1>10. CASE AwaitSignals(w)
  BY <1>10 DEF AwaitSignals, Advance, Op
<1>11. CASE Compute(w)
  BY <1>11 DEF Compute, Advance, Op
<1> QED BY <1>1, <1>2, <1>3, <1>4, <1>5, <1>6, <1>7, <1>8, <1>9, <1>10, <1>11 DEF Step

(* Before the first instruction, and after each. *)
LEMMA AbreastInit == Init => Counted /\ Abreast
<1> SUFFICES ASSUME Init PROVE Counted /\ Abreast
  OBVIOUS
<1>1. passed = [w \in Crew |-> 0]
  BY DEF Init, Crew
<1> QED BY <1>1 DEF Counted, Abreast

(* A barrier lets nobody pass who is ahead, and waits for those who are not. *)
LEMMA AbreastNext == Counted /\ Abreast /\ [Next]_vars => (Counted /\ Abreast)'
<1> SUFFICES ASSUME Counted, Abreast, [Next]_vars PROVE (Counted /\ Abreast)'
  OBVIOUS
<1>1. CASE UNCHANGED vars
  BY <1>1 DEF Counted, Abreast, vars, Crew, Ended, Op, At
<1>2. CASE AllEnded
  BY <1>1, <1>2 DEF AllEnded
<1>3. ASSUME NEW u \in Crew, Step(u) PROVE (Counted /\ Abreast)'
  <2>0. /\ ~ Ended(u)
        /\ todo' = [todo EXCEPT ![u] = Tail(@)]
        /\ \/ Op(u) # "bar" /\ passed' = passed
           \/ Op(u) = "bar" /\ Released(u) /\ passed' = [passed EXCEPT ![u] = @ + 1]
    BY <1>3, StepForward
  <2>1. Crew' = Crew
    BY <2>0 DEF Crew
  <2>2. Counted'
    BY <2>0, <2>1 DEF Counted
  <2>3. ASSUME NEW w \in Crew, w # u PROVE Ended(w)' = Ended(w) /\ Op(w)' = Op(w)
    <3>1. todo'[w] = todo[w]
      BY <2>0, <2>3 DEF Crew
    <3> QED BY <3>1, Zenon DEF Ended, Op, At
  <2>4. ASSUME NEW v \in Crew, NEW w \in Crew, passed'[v] > passed'[w]
        PROVE  Ended(w)' \/ (passed'[v] = passed'[w] + 1 /\ Op(w)' = "bar")
    <3>1. CASE Op(u) # "bar" /\ passed' = passed
      <4>1. w # u
        BY <2>0, <2>4, <3>1 DEF Abreast
      <4> QED BY <2>3, <2>4, <3>1, <4>1 DEF Abreast
    <3>2. CASE Op(u) = "bar" /\ Released(u) /\ passed' = [passed EXCEPT ![u] = @ + 1]
      <4>1. /\ passed'[u] = passed[u] + 1
            /\ \A x \in Crew : x # u => passed'[x] = passed[x]
            /\ \A x \in Crew : passed[x] \in Nat
        BY <3>2 DEF Counted
      <4>2. CASE w = u
        <5>1. v # u /\ passed[v] > passed[u] + 1
          BY <2>4, <4>1, <4>2
        <5>2. passed[v] = passed[u] + 1
          BY <2>0, <4>1, <5>1 DEF Abreast
        <5> QED BY <4>1, <5>1, <5>2
      <4>3. CASE w # u /\ v = u
        <5>1. passed[u] + 1 > passed[w]
          BY <2>4, <4>1, <4>3
        <5>2. Ended(w) \/ passed[w] > passed[u] \/ (passed[w] = passed[u] /\ Op(w) = "bar")
          BY <3>2, <4>3 DEF Released
        <5>3. Ended(w) \/ (passed[w] = passed[u] /\ Op(w) = "bar")
          BY <4>1, <5>1, <5>2
        <5> QED BY <2>3, <4>1, <4>3, <5>3
      <4>4. CASE w # u /\ v # u
        BY <2>3, <2>4, <4>1, <4>4 DEF Abreast
      <4> QED BY <4>2, <4>3, <4>4
    <3> QED BY <2>0, <3>1, <3>2
  <2>5. Abreast'
    BY <2>1, <2>4 DEF Abreast
  <2> QED BY <2>2, <2>5
<1> QED BY <1>1, <1>2, <1>3 DEF Next

(* Whatever the waves execute, s_barrier keeps those that still run within one
   barrier of each other. *)
THEOREM BarriersKeepAbreast == Spec => []Abreast
<1>1. Spec => [](Counted /\ Abreast)
  BY AbreastInit, AbreastNext, PTL DEF Spec
<1> QED BY <1>1, PTL

(* A set of natural numbers has a smallest one. *)
LEMMA Smallest ==
  ASSUME NEW T, T \subseteq Nat, T # {}
  PROVE  \E s \in T : \A r \in T : s <= r
<1> DEFINE L == OpToRel(<, Nat)
<1> HIDE DEF L
<1>1. IsWellFoundedOn(L, Nat)
  BY NatLessThanWellFounded DEF L
<1>2. PICK s \in T : \A r \in T : ~ (<<r, s>> \in L)
  BY <1>1, WFMin
<1>3. \A r \in T : ~ (r < s)
  BY <1>2 DEF L, OpToRel
<1> QED BY <1>3

(* Whatever the waves execute, they are never all kept by s_barrier: of the waves that
   still run, one that has passed fewest can go on. *)
THEOREM BarriersNeverBlock == Spec => []NeverStuck
<1>1. Counted => NeverStuck
  <2> SUFFICES ASSUME Counted, \E w \in Crew : ~ Ended(w)
               PROVE  \E w \in Crew : ~ Ended(w) /\ (Op(w) = "bar" => Released(w))
    BY DEF NeverStuck
  <2> DEFINE Running == {w \in Crew : ~ Ended(w)}
             T == {passed[w] : w \in Running}
  <2>1. T \subseteq Nat /\ T # {}
    BY DEF Counted
  <2>2. PICK s \in T : \A r \in T : s <= r
    <3> HIDE DEF T
    <3> QED BY <2>1, Smallest
  <2>3. PICK u \in Running : passed[u] = s
    OBVIOUS
  <2>4. \A v \in Running : passed[v] \in Nat /\ passed[u] \in Nat /\ passed[u] <= passed[v]
    BY <2>1, <2>2, <2>3
  <2>5. CASE \A v \in Running : passed[v] = passed[u] => Op(v) = "bar"
    <3>1. Released(u)
      BY <2>4, <2>5 DEF Released
    <3> QED BY <2>3, <3>1
  <2>6. CASE \E v \in Running : Op(v) # "bar"
    BY <2>6
  <2> QED BY <2>5, <2>6
<1>2. Spec => [](Counted /\ Abreast)
  BY AbreastInit, AbreastNext, PTL DEF Spec
<1> QED BY <1>1, <1>2, PTL


(***************************************************************************)
(* WaveLds, ending clean: for programs that can be executed, go through as *)
(* many barriers in every wave, and wait for what they load into LDS.      *)
(***************************************************************************)

Runnable == \A p \in Programs : \A w \in DOMAIN p.code : Executable(p.code[w])
Balance == \A p \in Programs : Balanced(p)
Drainage == \A p \in Programs : \A w \in DOMAIN p.code : Drained(p.code[w])

(* What is left of a program. *)
Sound(code) ==
  /\ \E S : code \in Seq(S)
  /\ \A i \in DOMAIN code :
       /\ code[i].op \in {"fetch", "pull"} => code[i].count \in Nat \ {0}
       /\ code[i].op = "vm" => code[i].left \in Nat

Remaining == \A w \in Crew : Sound(todo[w])

(* A load into LDS is outstanding only as long as its wave has a wait for all its
   loads before it. *)
Pending(w) == \E j \in DOMAIN todo[w] : todo[w][j].op = "vm" /\ todo[w][j].left = 0
Loading(q) == \E n \in DOMAIN q : q[n].slot # <<>>
IsWave(m) == m = [vm |-> m.vm, ds |-> m.ds, lds |-> m.lds, reg |-> m.reg]
Outstanding ==
  /\ wave = [w \in Crew |-> wave[w]]
  /\ \A w \in Crew :
       /\ IsWave(wave[w])
       /\ \E S : wave[w].vm \in Seq(S)
       /\ Loading(wave[w].vm) => Pending(w)
       /\ Drained(todo[w])

(* Barriers passed and barriers to come are as many for every wave. *)
Even == \A v, w \in Crew : passed[v] + Bars(todo[v]) = passed[w] + Bars(todo[w])

(* What is left of a program after an instruction. *)
LEMMA SoundTail ==
  ASSUME NEW code, Sound(code), code # <<>>
  PROVE  /\ Sound(Tail(code))
         /\ Len(code) \in Nat \ {0} /\ DOMAIN code = 1 .. Len(code) /\ Head(code) = code[1]
         /\ DOMAIN Tail(code) = 1 .. Len(code) - 1
         /\ \A i \in 1 .. Len(code) - 1 : Tail(code)[i] = code[i + 1]
<1>1. PICK S : code \in Seq(S)
  BY DEF Sound
<1>2. /\ Len(code) \in Nat \ {0} /\ DOMAIN code = 1 .. Len(code) /\ Head(code) = code[1]
      /\ Tail(code) \in Seq(S)
      /\ DOMAIN Tail(code) = 1 .. Len(code) - 1
      /\ \A i \in 1 .. Len(code) - 1 : Tail(code)[i] = code[i + 1]
  BY <1>1
<1>3. \A i \in DOMAIN Tail(code) : i + 1 \in DOMAIN code /\ Tail(code)[i] = code[i + 1]
  BY <1>2
<1>4. Sound(Tail(code))
  BY <1>2, <1>3 DEF Sound
<1> QED BY <1>2, <1>4

(* After an instruction, a program still waits for the loads it has left. *)
LEMMA DrainedTail ==
  ASSUME NEW code, Sound(code), code # <<>>, Drained(code) PROVE Drained(Tail(code))
<1> DEFINE t == Tail(code)
<1>1. /\ Len(code) \in Nat \ {0} /\ DOMAIN code = 1 .. Len(code)
      /\ DOMAIN t = 1 .. Len(code) - 1
      /\ \A i \in 1 .. Len(code) - 1 : t[i] = code[i + 1]
  BY SoundTail
<1> HIDE DEF t
<1>2. ASSUME NEW i \in DOMAIN t, t[i].op = "fetch" PROVE Drains(t, i)
  <2>1. i + 1 \in DOMAIN code /\ code[i + 1].op = "fetch"
    BY <1>1, <1>2
  <2>2. PICK j \in DOMAIN code : j > i + 1 /\ code[j].op = "vm" /\ code[j].left = 0
    BY <2>1 DEF Drained, Drains
  <2>3. j - 1 \in DOMAIN t /\ j - 1 > i /\ t[j - 1] = code[j]
    BY <1>1, <2>2
  <2> QED BY <2>2, <2>3 DEF Drains
<1> QED BY <1>2 DEF Drained, t

(* A barrier is one barrier less to come. *)
LEMMA BarsTail ==
  ASSUME NEW code, Sound(code), code # <<>>
  PROVE  /\ Bars(code) \in Nat /\ Bars(Tail(code)) \in Nat
         /\ Bars(code) = Bars(Tail(code)) + IF Head(code).op = "bar" THEN 1 ELSE 0
<1> DEFINE t == Tail(code)
           B == {i \in DOMAIN code : code[i].op = "bar"}
           C == {i \in DOMAIN t : t[i].op = "bar"}
           D == {i \in B : i # 1}
           f == [i \in C |-> i + 1]
<1>1. /\ Len(code) \in Nat \ {0} /\ DOMAIN code = 1 .. Len(code) /\ Head(code) = code[1]
      /\ DOMAIN t = 1 .. Len(code) - 1
      /\ \A i \in 1 .. Len(code) - 1 : t[i] = code[i + 1]
  BY SoundTail
<1> HIDE DEF t
<1>2. IsFiniteSet(B) /\ IsFiniteSet(C) /\ IsFiniteSet(D)
  <2>1. IsFiniteSet(1 .. Len(code)) /\ IsFiniteSet(1 .. Len(code) - 1)
    BY <1>1, FS_Interval
  <2>2. B \subseteq 1 .. Len(code) /\ C \subseteq 1 .. Len(code) - 1 /\ D \subseteq 1 .. Len(code)
    BY <1>1
  <2> QED BY <2>1, <2>2, FS_Subset
<1>3. f \in Bijection(C, D)
  <2>1. \A i \in C : i + 1 \in D /\ i \in Int
    BY <1>1
  <2>2. \A j \in D : j - 1 \in C /\ (j - 1) + 1 = j
    BY <1>1
  <2> HIDE DEF C, D
  <2>3. f \in [C -> D]
    BY <2>1
  <2>4. \A i, j \in C : f[i] = f[j] => i = j
    BY <2>1
  <2>5. \A j \in D : \E i \in C : f[i] = j
    BY <2>2
  <2> QED BY <2>3, <2>4, <2>5 DEF Bijection, Injection, Surjection, IsInjective
<1>4. Cardinality(C) = Cardinality(D)
  <2> HIDE DEF C, D, f
  <2> QED BY <1>2, <1>3, FS_Bijection DEF ExistsBijection
<1>0. Bars(code) = Cardinality(B) /\ Bars(Tail(code)) = Cardinality(C)
  BY Zenon DEF Bars, t
<1>5. CASE Head(code).op = "bar"
  <2>1. 1 \in B /\ D = B \ {1}
    BY <1>1, <1>5
  <2> HIDE DEF B, C, D
  <2>2. Cardinality(D) = Cardinality(B) - 1 /\ Cardinality(B) \in Nat /\ Cardinality(C) \in Nat
    BY <1>2, <2>1, FS_RemoveElement, FS_CardinalityType
  <2> QED BY <1>0, <1>4, <1>5, <2>2
<1>6. CASE Head(code).op # "bar"
  <2>1. D = B
    BY <1>1, <1>6
  <2> HIDE DEF B, C, D
  <2>2. Cardinality(B) \in Nat /\ Cardinality(C) \in Nat
    BY <1>2, FS_CardinalityType
  <2> QED BY <1>0, <1>4, <1>6, <2>1, <2>2
<1> QED BY <1>5, <1>6

(* What is left of a program can be executed, to begin with. *)
LEMMA RemainingInit == Runnable /\ Init => Remaining
<1> SUFFICES ASSUME Runnable, Init PROVE Remaining
  OBVIOUS
<1>1. PICK p \in Programs : todo = p.code
  BY DEF Init
<1>2. ASSUME NEW w \in Crew PROVE Sound(todo[w])
  BY <1>1, <1>2 DEF Runnable, Executable, Sound, Crew
<1> QED BY <1>2 DEF Remaining

(* What is left after an instruction is a program as well. *)
LEMMA RemainingNext == Remaining /\ [Next]_vars => Remaining'
<1> SUFFICES ASSUME Remaining, [Next]_vars PROVE Remaining'
  OBVIOUS
<1>1. CASE UNCHANGED vars
  BY <1>1 DEF Remaining, vars, Crew
<1>2. CASE AllEnded
  BY <1>1, <1>2 DEF AllEnded
<1>3. ASSUME NEW u \in Crew, Step(u) PROVE Remaining'
  <2>1. todo[u] # <<>> /\ todo' = [todo EXCEPT ![u] = Tail(@)]
    BY <1>3, StepForward DEF Ended
  <2>2. Sound(Tail(todo[u]))
    BY <2>1, SoundTail DEF Remaining
  <2> QED BY <2>1, <2>2 DEF Remaining, Crew
<1> QED BY <1>1, <1>2, <1>3 DEF Next


(* All waves have the same number of barriers to come at first. *)
LEMMA EvenInit == Balance /\ Init => Even
<1> SUFFICES ASSUME Balance, Init PROVE Even
  OBVIOUS
<1>1. PICK p \in Programs : todo = p.code
  BY DEF Init
<1>2. passed = [w \in Crew |-> 0]
  BY DEF Init, Crew
<1>3. \A v, w \in Crew : Bars(todo[v]) = Bars(todo[w])
  BY <1>1 DEF Balance, Balanced, Crew
<1> QED BY <1>2, <1>3 DEF Even

(* A barrier passed is one barrier less to come: the sums stay equal. *)
LEMMA EvenNext == Counted /\ Remaining /\ Even /\ [Next]_vars => Even'
<1> SUFFICES ASSUME Counted, Remaining, Even, [Next]_vars PROVE Even'
  OBVIOUS
<1>1. CASE UNCHANGED vars
  BY <1>1 DEF Even, vars, Crew
<1>2. CASE AllEnded
  BY <1>1, <1>2 DEF AllEnded
<1>3. ASSUME NEW u \in Crew, Step(u) PROVE Even'
  <2>1. /\ todo[u] # <<>> /\ todo' = [todo EXCEPT ![u] = Tail(@)] /\ Crew' = Crew
        /\ \/ Head(todo[u]).op # "bar" /\ passed' = passed
           \/ Head(todo[u]).op = "bar" /\ passed' = [passed EXCEPT ![u] = @ + 1]
    BY <1>3, StepForward DEF Ended, Op, At, Crew
  <2>2. /\ Bars(todo[u]) \in Nat /\ Bars(Tail(todo[u])) \in Nat
        /\ Bars(todo[u]) = Bars(Tail(todo[u])) + IF Head(todo[u]).op = "bar" THEN 1 ELSE 0
    BY <2>1, BarsTail DEF Remaining
  <2>3. todo'[u] = Tail(todo[u]) /\ \A v \in Crew : v # u => todo'[v] = todo[v]
    BY <2>1 DEF Crew
  <2>4. passed[u] \in Nat /\ \A v \in Crew : v # u => passed'[v] = passed[v]
    BY <2>1 DEF Counted
  <2>5. passed'[u] + Bars(todo'[u]) = passed[u] + Bars(todo[u])
    <3>1. CASE Head(todo[u]).op = "bar"
      <4>1. passed'[u] = passed[u] + 1
        BY <2>1, <3>1 DEF Counted
      <4> QED BY <2>2, <2>3, <2>4, <3>1, <4>1
    <3>2. CASE Head(todo[u]).op # "bar"
      BY <2>1, <2>2, <2>3, <2>4, <3>2
    <3> QED BY <3>1, <3>2
  <2>6. \A v \in Crew : passed'[v] + Bars(todo'[v]) = passed[v] + Bars(todo[v])
    <3>1. ASSUME NEW v \in Crew PROVE passed'[v] + Bars(todo'[v]) = passed[v] + Bars(todo[v])
      <4>1. CASE v # u
        BY <2>3, <2>4, <4>1
      <4> QED BY <2>5, <4>1
    <3> QED BY <3>1
  <2>7. \A v, w \in Crew : passed'[v] + Bars(todo'[v]) = passed'[w] + Bars(todo'[w])
    BY <2>6 DEF Even
  <2> QED BY <2>1, <2>7 DEF Even, Bars
<1> QED BY <1>1, <1>2, <1>3 DEF Next


(* The greatest of some of a queue's entries is one of them. *)
LEMMA GreatestIsOne ==
  ASSUME NEW n \in Nat, NEW S, S \subseteq 1 .. n, S # {}
  PROVE  Max(S) \in S
<1> DEFINE T == {n - x : x \in S}
<1>1. T \subseteq Nat /\ T # {}
  <2>1. \A x \in S : n - x \in Nat
    OBVIOUS
  <2> QED BY <2>1
<1>2. PICK t \in T : \A r \in T : t <= r
  <2> HIDE DEF T
  <2> QED BY <1>1, Smallest
<1>3. PICK x \in S : t = n - x
  OBVIOUS
<1>4. \A y \in S : n - y \in T /\ y \in Int
  OBVIOUS
<1> HIDE DEF T
<1>5. \A y \in S : x >= y
  BY <1>2, <1>3, <1>4
<1> QED BY <1>5 DEF Max

(* What is left of a queue when its owner has waited for registers is as much as
   it has at most. *)
LEMMA AfterIs ==
  ASSUME NEW S, NEW q \in Seq(S), NEW rs PROVE After(q, rs) \in Nat
<1> DEFINE mine == {n \in DOMAIN q : q[n].into \in rs /\ q[n].kind = "known"}
<1>1. Len(q) \in Nat /\ mine \subseteq 1 .. Len(q)
  OBVIOUS
<1>2. mine # {} => Max(mine) \in mine
  <2> HIDE DEF mine
  <2> QED BY <1>1, GreatestIsOne
<1>3. After(q, rs) = IF mine = {} THEN Len(q) ELSE Len(q) - Max(mine)
  BY DEF After
<1> HIDE DEF mine
<1>4. CASE mine = {}
  BY <1>1, <1>3, <1>4
<1>5. CASE mine # {}
  <2> DEFINE x == Max(mine)
  <2>1. x \in 1 .. Len(q)
    BY <1>1, <1>2, <1>5
  <2>2. After(q, rs) = Len(q) - x
    BY <1>3, <1>5
  <2> HIDE DEF x
  <2> QED BY <1>1, <2>1, <2>2
<1> QED BY <1>4, <1>5

(* The entries a wait leaves are entries of the queue. *)
LEMMA YoungestIs ==
  ASSUME NEW S, NEW q \in Seq(S), NEW k \in Nat
  PROVE  /\ Youngest(q, k) \in Seq(S)
         /\ Loading(Youngest(q, k)) => k # 0 /\ Loading(q)
<1>1. CASE k < Len(q)
  <2> DEFINE m == Len(q) - k
  <2>1. m \in Nat /\ m >= 1 /\ m + 1 = Len(q) - k + 1 /\ Len(q) \in Nat /\ m + k = Len(q)
    BY <1>1
  <2>2. Youngest(q, k) = SubSeq(q, m + 1, Len(q))
    BY <1>1, <2>1 DEF Youngest, Left
  <2> HIDE DEF m
  <2>3. /\ SubSeq(q, m + 1, Len(q)) \in Seq(S)
        /\ DOMAIN SubSeq(q, m + 1, Len(q)) = 1 .. k
        /\ \A n \in 1 .. k : SubSeq(q, m + 1, Len(q))[n] = q[m + n] /\ m + n \in DOMAIN q
    BY <2>1
  <2>4. Loading(Youngest(q, k)) => k # 0 /\ Loading(q)
    BY <2>2, <2>3 DEF Loading
  <2> QED BY <2>2, <2>3, <2>4
<1>2. CASE ~ (k < Len(q))
  <2>1. Youngest(q, k) = q
    BY <1>2 DEF Youngest
  <2>2. k = 0 => DOMAIN q = {}
    BY <1>2
  <2> QED BY <2>1, <2>2 DEF Loading
<1> QED BY <1>1, <1>2

(* What an instruction puts into a queue: the last of its entries has its slot. *)
LEMMA QueueIs ==
  ASSUME NEW slot, NEW data, NEW into, NEW kind, NEW now, NEW count \in Nat \ {0},
         NEW S, NEW q \in Seq(S)
  PROVE  LET r == q \o Queue(Entry(slot, data, into, kind, now), count)
         IN /\ \E T : r \in Seq(T)
            /\ Loading(r) => Loading(q) \/ slot # <<>>
<1> DEFINE e == Entry(slot, data, into, kind, now)
           d == [e EXCEPT !.slot = <<>>, !.data = <<>>, !.into = <<>>]
           x == [k \in 1 .. count - 1 |-> d]
           y == x \o <<e>>
           T == S \cup {e, d}
           r == q \o y
<1>1. e.slot = slot /\ d.slot = <<>>
  BY DEF Entry
<1>2. Queue(e, count) = y
  BY Zenon DEF Queue
<1> HIDE DEF e, d
<1>3. x \in Seq({e, d}) /\ Len(x) = count - 1 /\ \A k \in 1 .. count - 1 : x[k] = d
  OBVIOUS
<1> HIDE DEF x
<1>4. y \in Seq({e, d}) /\ Len(y) = count /\ \A k \in 1 .. count : y[k] \in {e, d}
  BY <1>3
<1> HIDE DEF y
<1>5. r \in Seq(T)
  <2>1. q \in Seq(T) /\ y \in Seq(T)
    BY <1>4
  <2> HIDE DEF T
  <2> QED BY <2>1
<1>6. Len(q) \in Nat /\ DOMAIN q = 1 .. Len(q) /\ DOMAIN r = 1 .. Len(q) + count
  BY <1>4
<1>7. ASSUME NEW n \in DOMAIN r, r[n].slot # <<>> PROVE Loading(q) \/ slot # <<>>
  <2>1. CASE n <= Len(q)
    <3>1. n \in DOMAIN q /\ r[n] = q[n]
      BY <1>4, <1>6, <2>1
    <3> QED BY <1>7, <3>1 DEF Loading
  <2>2. CASE n > Len(q)
    <3>1. n - Len(q) \in 1 .. count /\ r[n] = y[n - Len(q)]
      BY <1>4, <1>6, <2>2
    <3>2. r[n] \in {e, d}
      BY <1>4, <3>1
    <3> QED BY <1>1, <1>7, <3>2
  <2> QED BY <1>6, <2>1, <2>2
<1>8. r = q \o Queue(Entry(slot, data, into, kind, now), count)
  BY <1>2 DEF e
<1> HIDE DEF r
<1>9. Loading(r) => Loading(q) \/ slot # <<>>
  BY <1>7 DEF Loading
<1> QED BY <1>5, <1>8, <1>9, Zenon


(* What wave u would read. *)
Part(u, v) == IF v = u THEN wave[u].lds[At(u).slot] ELSE Shown(wave[v], At(u).slot, passed[u], kernel.reads)
Seen(u) == Agreed({Part(u, v) : v \in Loaders(At(u).slot)})

(* What an instruction does to its wave, and what to the others. *)
LEMMA StepOutcome ==
  ASSUME NEW u \in Crew, Step(u), wave = [w \in Crew |-> wave[w]]
  PROVE  /\ Op(u) = At(u).op
         /\ wave' = [w \in Crew |-> wave'[w]]
         /\ wave'[u] \in Outcomes(wave[u], At(u), passed[u], kernel, {Seen(u)})
         /\ \A v \in Crew \ {u} :
              wave'[v] = IF At(u).op \in {"fetch", "store"} THEN Aftermath(wave[v], At(u), passed[u], kernel)
                         ELSE wave[v]
<1> SUFFICES ASSUME NEW i, i = At(u), NEW seen, seen = Seen(u)
             PROVE  /\ Op(u) = i.op
                    /\ wave' = [w \in Crew |-> wave'[w]]
                    /\ wave'[u] \in Outcomes(wave[u], i, passed[u], kernel, {seen})
                    /\ \A v \in Crew \ {u} :
                         wave'[v] = IF i.op \in {"fetch", "store"} THEN Aftermath(wave[v], i, passed[u], kernel)
                                    ELSE wave[v]
  OBVIOUS
<1> DEFINE Goal == /\ Op(u) = i.op
                   /\ wave' = [w \in Crew |-> wave'[w]]
                   /\ wave'[u] \in Outcomes(wave[u], i, passed[u], kernel, {seen})
                   /\ \A v \in Crew \ {u} :
                        wave'[v] = IF i.op \in {"fetch", "store"} THEN Aftermath(wave[v], i, passed[u], kernel)
                                   ELSE wave[v]
<1>0. Op(u) = i.op
  BY StepForward DEF Op
<1>1. ASSUME NEW m, wave' = [wave EXCEPT ![u] = m],
             m \in Outcomes(wave[u], i, passed[u], kernel, {seen}), i.op \notin {"fetch", "store"}
      PROVE  Goal
  <2>1. wave' = [w \in Crew |-> IF w = u THEN m ELSE wave[w]]
    BY <1>1
  <2>2. wave'[u] = m /\ \A v \in Crew \ {u} : wave'[v] = wave[v]
    BY <2>1
  <2>3. wave' = [w \in Crew |-> wave'[w]]
    BY <2>1
  <2> QED BY <1>0, <1>1, <2>2, <2>3
<1>2. CASE FetchSlot(u)
  <2> DEFINE m == HasFetched(wave[u], i, passed[u], kernel.reads)
             n(v) == Spoilt(wave[v], {i.slot}, passed[u], kernel.reads)
  <2>1. wave' = [v \in Crew |-> IF v = u THEN m ELSE n(v)] /\ i.op = "fetch"
    BY <1>0, <1>2 DEF FetchSlot
  <2>2. m \in Outcomes(wave[u], i, passed[u], kernel, {seen})
    BY <2>1 DEF Outcomes
  <2>3. \A v : Aftermath(wave[v], i, passed[u], kernel) = n(v)
    BY <2>1 DEF Aftermath
  <2> HIDE DEF m, n
  <2> QED BY <1>0, <2>1, <2>2, <2>3
<1>3. CASE StoreSlot(u)
  <2> DEFINE m == HasStored(wave[u], i, passed[u])
             n(v) == Overwritten(wave[v], i, passed[u], kernel.reads)
  <2>1. wave' = [v \in Crew |-> IF v = u THEN m ELSE n(v)] /\ i.op = "store"
    BY <1>0, <1>3 DEF StoreSlot
  <2>2. m \in Outcomes(wave[u], i, passed[u], kernel, {seen})
    BY <2>1 DEF Outcomes
  <2>3. \A v : Aftermath(wave[v], i, passed[u], kernel) = n(v)
    BY <2>1 DEF Aftermath
  <2> HIDE DEF m, n
  <2> QED BY <1>0, <2>1, <2>2, <2>3
<1>4. CASE PullRegister(u)
  <2> DEFINE m == HasPulled(wave[u], i, passed[u])
  <2>1. wave' = [wave EXCEPT ![u] = m] /\ i.op = "pull"
    BY <1>0, <1>4 DEF PullRegister
  <2>2. m \in Outcomes(wave[u], i, passed[u], kernel, {seen})
    BY <2>1 DEF Outcomes
  <2> HIDE DEF m
  <2> QED BY <1>1, <2>1, <2>2
<1>5. CASE PullScalarRegister(u)
  <2> DEFINE m == HasPulledScalar(wave[u], i, passed[u])
  <2>1. wave' = [wave EXCEPT ![u] = m] /\ i.op = "scalar"
    BY <1>0, <1>5 DEF PullScalarRegister
  <2>2. m \in Outcomes(wave[u], i, passed[u], kernel, {seen})
    BY <2>1 DEF Outcomes
  <2> HIDE DEF m
  <2> QED BY <1>1, <2>1, <2>2
<1>6. CASE ReadSlot(u)
  <2> DEFINE m == HasRead(wave[u], i, passed[u], seen)
  <2>1. wave' = [wave EXCEPT ![u] = m] /\ i.op = "read"
    BY <1>0, <1>6, Zenon DEF ReadSlot, Seen, Part
  <2>2. m \in Outcomes(wave[u], i, passed[u], kernel, {seen})
    BY <2>1 DEF Outcomes
  <2> HIDE DEF m
  <2> QED BY <1>1, <2>1, <2>2
<1>7. CASE WaitLoads(u)
  <2> DEFINE m == LoadsAwaited(wave[u], i.left, kernel.ordered)
  <2>1. wave' = [wave EXCEPT ![u] = m] /\ i.op = "vm"
    BY <1>0, <1>7 DEF WaitLoads
  <2>2. m \in Outcomes(wave[u], i, passed[u], kernel, {seen})
    BY <2>1 DEF Outcomes
  <2> HIDE DEF m
  <2> QED BY <1>1, <2>1, <2>2
<1>8. CASE WaitReads(u)
  <2> DEFINE m == ReadsAwaited(wave[u], i.left)
  <2>1. wave' = [wave EXCEPT ![u] = m] /\ i.op = "lgkm"
    BY <1>0, <1>8 DEF WaitReads
  <2>2. m \in Outcomes(wave[u], i, passed[u], kernel, {seen})
    BY <2>1 DEF Outcomes
  <2> HIDE DEF m
  <2> QED BY <1>1, <2>1, <2>2
<1>9. CASE Barrier(u)
  <2> DEFINE m == PastBarrier(wave[u], passed[u] + 1, kernel.latency)
  <2>1. wave' = [wave EXCEPT ![u] = m] /\ i.op = "bar"
    BY <1>0, <1>9 DEF Barrier
  <2>2. m \in Outcomes(wave[u], i, passed[u], kernel, {seen})
    BY <2>1 DEF Outcomes
  <2> HIDE DEF m
  <2> QED BY <1>1, <2>1, <2>2
<1>10. CASE Signal(u) \/ AwaitSignals(u)
  <2>1. wave' = [wave EXCEPT ![u] = wave[u]] /\ i.op \in {"signal", "await"}
    BY <1>0, <1>10 DEF Signal, AwaitSignals
  <2>2. wave[u] \in Outcomes(wave[u], i, passed[u], kernel, {seen})
    BY <2>1 DEF Outcomes
  <2> QED BY <1>1, <2>1, <2>2
<1>11. CASE Compute(u)
  <2>1. PICK m \in Computed(wave[u], i, kernel.swift) : wave' = [wave EXCEPT ![u] = m]
    BY <1>11 DEF Compute
  <2>2. i.op \notin {"fetch", "store", "pull", "scalar", "read", "vm", "lgkm", "bar", "signal", "await"}
    BY <1>0, <1>11 DEF Compute
  <2>3. m \in Outcomes(wave[u], i, passed[u], kernel, {seen})
    BY <2>1, <2>2 DEF Outcomes
  <2> QED BY <1>1, <2>1, <2>2, <2>3
<1> HIDE DEF Goal
<1> QED BY <1>2, <1>3, <1>4, <1>5, <1>6, <1>7, <1>8, <1>9, <1>10, <1>11, Zenon DEF Step, Goal

(* What an instruction does to the loads of its wave. *)
LEMMA OutcomeLoads ==
  ASSUME NEW m, IsWave(m), NEW S, m.vm \in Seq(S),
         NEW i, i.op \in {"fetch", "pull"} => i.count \in Nat \ {0}, i.op = "vm" => i.left \in Nat,
         NEW now, NEW p, NEW visible, NEW x \in Outcomes(m, i, now, p, visible)
  PROVE  /\ IsWave(x)
         /\ \E T : x.vm \in Seq(T)
         /\ Loading(x.vm) => \/ i.op = "fetch"
                             \/ Loading(m.vm) /\ ~ (i.op = "vm" /\ i.left = 0)
<1> SUFFICES ASSUME NEW q, NEW ds, NEW lds, NEW reg, m = [vm |-> q, ds |-> ds, lds |-> lds, reg |-> reg]
             PROVE  /\ IsWave(x)
                    /\ \E T : x.vm \in Seq(T)
                    /\ Loading(x.vm) => \/ i.op = "fetch"
                                        \/ Loading(q) /\ ~ (i.op = "vm" /\ i.left = 0)
  BY DEF IsWave
<1>0. m.vm = q /\ q \in Seq(S)
  OBVIOUS
<1> DEFINE Goal == /\ IsWave(x)
                   /\ \E T : x.vm \in Seq(T)
                   /\ Loading(x.vm) => \/ i.op = "fetch"
                                       \/ Loading(q) /\ ~ (i.op = "vm" /\ i.left = 0)
<1>1. \A k \in Nat : Youngest(q, k) \in Seq(S) /\ (Loading(Youngest(q, k)) => k # 0 /\ Loading(q))
  BY <1>0, YoungestIs
<1>2. \A rs : After(q, rs) \in Nat
  BY <1>0, AfterIs
<1>3. ASSUME NEW r, NEW T, r \in Seq(T), Loading(r) => i.op = "fetch" \/ Loading(q), i.op = "vm" => i.left # 0,
             NEW d, NEW l, NEW g, x = [vm |-> r, ds |-> d, lds |-> l, reg |-> g]
      PROVE  Goal
  BY <1>3 DEF IsWave
<1>5. ASSUME NEW k PROVE Landing(m, k) = [vm |-> Youngest(q, k), ds |-> ds, lds |-> Landed(m, k), reg |-> reg]
  <2> DEFINE l == Landed(m, k)
             r == Youngest(q, k)
  <2>1. Landing(m, k) = [m EXCEPT !.lds = l, !.vm = r]
    BY <1>0, Zenon DEF Landing
  <2> HIDE DEF l, r
  <2>2. Landing(m, k) = [vm |-> r, ds |-> ds, lds |-> l, reg |-> reg]
    BY <2>1
  <2> QED BY <2>2 DEF l, r
<1> SUFFICES Goal
  OBVIOUS
<1> HIDE DEF Goal
<1>6. CASE i.op = "fetch"
  <2> DEFINE rs == ToSet(i.from)
             data == IF i.from = <<>> THEN i.data ELSE Operand(m, i.from[1])
             y == Youngest(q, After(q, rs))
             r == y \o Queue(Entry(i.slot, data, <<>>, "known", now), i.count)
             l == [Landed(m, After(q, rs)) EXCEPT ![i.slot] = Torn]
  <2>1. PICK n : n = [m EXCEPT !.lds = l, !.vm = r] /\ x = Spoilt(n, {i.slot}, now, p.reads)
    BY <1>0, <1>6, Zenon DEF Outcomes, HasFetched
  <2> HIDE DEF l, r
  <2>2. n = [vm |-> r, ds |-> ds, lds |-> l, reg |-> reg]
    BY <2>1
  <2>3. \E g : x = [vm |-> r, ds |-> ds, lds |-> l, reg |-> g]
    <3>1. PICK g : x = [n EXCEPT !.reg = g]
      BY <2>1, Zenon DEF Spoilt
    <3> QED BY <2>2, <3>1
  <2>4. y \in Seq(S)
    BY <1>1, <1>2
  <2>5. \E T : r \in Seq(T)
    <3> HIDE DEF data, y
    <3> QED BY <1>6, <2>4, QueueIs DEF r
  <2> QED BY <1>3, <1>6, <2>3, <2>5
<1>7. CASE i.op = "store"
  <2>1. x = HasStored(m, i, now)
    BY <1>7 DEF Outcomes
  <2>2. PICK d, l : x = [m EXCEPT !.lds = l, !.ds = d]
    BY <2>1, Zenon DEF HasStored
  <2>3. x = [vm |-> q, ds |-> d, lds |-> l, reg |-> reg]
    BY <2>2
  <2> QED BY <1>3, <1>7, <2>3
<1>8. CASE i.op = "pull"
  <2> DEFINE r == q \o Queue(Entry(<<>>, <<>>, i.into, i.kind, now), i.count)
  <2>1. x = HasPulled(m, i, now)
    BY <1>8 DEF Outcomes
  <2>4. PICK g : x = [m EXCEPT !.vm = r, !.reg = g]
    BY <1>0, <2>1, Zenon DEF HasPulled
  <2>2. x = [vm |-> r, ds |-> ds, lds |-> lds, reg |-> g]
    BY <2>4
  <2>3. (\E T : r \in Seq(T)) /\ (Loading(r) => Loading(q))
    BY <1>0, <1>8, QueueIs
  <2> HIDE DEF r
  <2> QED BY <1>3, <1>8, <2>2, <2>3
<1>9. CASE i.op = "scalar"
  <2>1. x = HasPulledScalar(m, i, now)
    BY <1>9 DEF Outcomes
  <2>2. PICK d, g : x = [m EXCEPT !.ds = d, !.reg = g]
    BY <2>1, Zenon DEF HasPulledScalar
  <2>3. x = [vm |-> q, ds |-> d, lds |-> lds, reg |-> g]
    BY <2>2
  <2> QED BY <1>3, <1>9, <2>3
<1>10. CASE i.op = "read"
  <2>1. PICK y \in visible : x = HasRead(m, i, now, y)
    BY <1>10 DEF Outcomes
  <2>2. PICK d, g : x = [m EXCEPT !.ds = d, !.reg = g]
    BY <2>1, Zenon DEF HasRead
  <2>3. x = [vm |-> q, ds |-> d, lds |-> lds, reg |-> g]
    BY <2>2
  <2> QED BY <1>3, <1>10, <2>3
<1>11. CASE i.op = "vm"
  <2> DEFINE r == Youngest(q, i.left)
  <2>1. x = LoadsAwaited(m, i.left, p.ordered)
    BY <1>11 DEF Outcomes
  <2>2. CASE p.ordered \/ i.left = 0
    <3>1. x = [vm |-> r, ds |-> ds, lds |-> Landed(m, i.left), reg |-> reg]
      BY <1>5, <2>1, <2>2 DEF LoadsAwaited
    <3>2. r \in Seq(S) /\ (Loading(r) => i.left # 0 /\ Loading(q))
      BY <1>1, <1>11
    <3> HIDE DEF r
    <3> QED BY <1>11, <3>1, <3>2 DEF Goal, IsWave
  <2>3. CASE ~ (p.ordered \/ i.left = 0)
    <3>1. x = [vm |-> q, ds |-> ds, lds |-> lds, reg |-> reg] /\ i.left # 0
      BY <1>0, <2>1, <2>3 DEF LoadsAwaited
    <3> QED BY <1>0, <1>3, <3>1
  <2> QED BY <2>2, <2>3
<1>12. CASE i.op = "lgkm"
  <2>1. x = ReadsAwaited(m, i.left)
    BY <1>12 DEF Outcomes
  <2>2. PICK d : x = [m EXCEPT !.ds = d]
    BY <2>1, Zenon DEF ReadsAwaited
  <2>3. x = [vm |-> q, ds |-> d, lds |-> lds, reg |-> reg]
    BY <2>2
  <2> QED BY <1>3, <1>12, <2>3
<1>13. CASE i.op = "bar"
  <2> DEFINE due == {n \in DOMAIN q : \E k \in n .. Len(q) : Due(q[k], now + 1, p.latency)}
             k == Len(q) - Cardinality(due)
             r == Youngest(q, k)
  <2>1. x = Landing(m, k)
    BY <1>0, <1>13, Zenon DEF Outcomes, PastBarrier
  <2>2. k \in Nat
    <3>1. Len(q) \in Nat /\ due \subseteq 1 .. Len(q)
      BY <1>0
    <3>2. Cardinality(due) \in Nat /\ Cardinality(due) <= Len(q)
      <4> DEFINE n == Len(q)
      <4>1. n \in Nat /\ due \subseteq 1 .. n
        BY <3>1
      <4> HIDE DEF due, n
      <4>2. IsFiniteSet(1 .. n) /\ Cardinality(1 .. n) = n
        <5>1. 1 \in Int /\ n \in Int
          BY <4>1
        <5>2. IsFiniteSet(1 .. n) /\ Cardinality(1 .. n) = IF 1 > n THEN 0 ELSE n - 1 + 1
          BY <5>1, FS_Interval, Zenon
        <5> QED BY <4>1, <5>2
      <4>3. Cardinality(due) \in Nat /\ Cardinality(due) <= n
        BY <4>1, <4>2, FS_Subset, FS_CardinalityType
      <4> QED BY <4>3 DEF n
    <3> HIDE DEF due
    <3> QED BY <3>1, <3>2
  <2> HIDE DEF k
  <2>3. r \in Seq(S) /\ (Loading(r) => Loading(q))
    BY <1>1, <2>2
  <2>4. x = [vm |-> r, ds |-> ds, lds |-> Landed(m, k), reg |-> reg]
    BY <1>5, <2>1
  <2> HIDE DEF r
  <2> QED BY <1>3, <1>13, <2>3, <2>4
<1>14. CASE i.op \in {"signal", "await"}
  <2>1. x = m
    BY <1>14 DEF Outcomes
  <2> QED BY <1>3, <1>14, <2>1
<1>15. CASE i.op \notin {"fetch", "store", "pull", "scalar", "read", "vm", "lgkm", "bar", "signal", "await"}
  <2> DEFINE rs == ToSet(i.from)
             k == After(q, rs)
             r == Youngest(q, k)
             n == AwaitOperands(m, i, p.swift)
  <2>1. x \in Computed(m, i, p.swift)
    BY <1>15 DEF Outcomes
  <2>2. PICK g : x = [n EXCEPT !.reg = g]
    BY <2>1 DEF Computed
  <2>3. PICK d : n = [Landing(m, k) EXCEPT !.ds = d]
    BY <1>0, Zenon DEF AwaitOperands
  <2> HIDE DEF n, k
  <2>7. n = [vm |-> r, ds |-> d, lds |-> Landed(m, k), reg |-> reg]
    <3> HIDE DEF r
    <3>1. Landing(m, k) = [vm |-> r, ds |-> ds, lds |-> Landed(m, k), reg |-> reg]
      BY <1>5 DEF r
    <3> QED BY <2>3, <3>1
  <2>4. x = [vm |-> r, ds |-> d, lds |-> Landed(m, k), reg |-> g]
    <3> HIDE DEF r
    <3> QED BY <2>2, <2>7
  <2>5. k \in Nat
    BY <1>2 DEF k
  <2>6. r \in Seq(S) /\ (Loading(r) => Loading(q))
    BY <1>1, <2>5
  <2> HIDE DEF r
  <2> QED BY <1>3, <1>15, <2>4, <2>6
<1> QED BY <1>6, <1>7, <1>8, <1>9, <1>10, <1>11, <1>12, <1>13, <1>14, <1>15

(* And to those of the others: nothing. *)
LEMMA AftermathLoads ==
  ASSUME NEW m, IsWave(m), NEW i, NEW now, NEW p
  PROVE  IsWave(Aftermath(m, i, now, p)) /\ Aftermath(m, i, now, p).vm = m.vm
<1>1. m = [vm |-> m.vm, ds |-> m.ds, lds |-> m.lds, reg |-> m.reg]
  BY DEF IsWave
<1>2. ASSUME NEW l, NEW slots, NEW n, n = [vm |-> m.vm, ds |-> m.ds, lds |-> l, reg |-> m.reg],
             NEW x, x = Spoilt(n, slots, now, p.reads)
      PROVE  IsWave(x) /\ x.vm = m.vm
  <2>1. PICK g : x = [n EXCEPT !.reg = g]
    BY <1>2, Zenon DEF Spoilt
  <2>2. x = [vm |-> m.vm, ds |-> m.ds, lds |-> l, reg |-> g]
    BY <1>2, <2>1
  <2> QED BY <2>2 DEF IsWave
<1>3. CASE i.op = "fetch"
  BY <1>1, <1>2, <1>3, Zenon DEF Aftermath
<1>4. CASE i.op # "fetch"
  <2> DEFINE l == [s \in DOMAIN m.lds \cap i.others |-> Torn] @@ m.lds
             n == [m EXCEPT !.lds = l]
  <2>1. Aftermath(m, i, now, p) = Spoilt(n, {i.slot} \cup i.others, now, p.reads)
    BY <1>4, Zenon DEF Aftermath, Overwritten
  <2> HIDE DEF l
  <2>2. n = [vm |-> m.vm, ds |-> m.ds, lds |-> l, reg |-> m.reg]
    BY <1>1
  <2> HIDE DEF n
  <2> QED BY <1>2, <2>1, <2>2
<1> QED BY <1>3, <1>4

(* Nothing is outstanding at first. *)
LEMMA OutstandingInit == Drainage /\ Init => Outstanding
<1> SUFFICES ASSUME Drainage, Init PROVE Outstanding
  OBVIOUS
<1>1. PICK p \in Programs : todo = p.code /\ wave = [w \in DOMAIN p.code |-> Starting(p.code[w], p.start[w])]
  BY DEF Init
<1>2. Crew = DOMAIN p.code /\ \A w \in Crew : wave[w] = Starting(p.code[w], p.start[w])
  BY <1>1 DEF Crew
<1>3. \A w \in Crew : Drained(todo[w])
  BY <1>1 DEF Drainage, Crew
<1>4. \A code, reg : IsWave(Starting(code, reg)) /\ Starting(code, reg).vm = <<>>
  BY DEF Starting, IsWave
<1>5. ASSUME NEW w \in Crew PROVE IsWave(wave[w]) /\ wave[w].vm \in Seq({}) /\ ~ Loading(wave[w].vm)
  <2>1. <<>> \in Seq({}) /\ ~ Loading(<<>>)
    BY DEF Loading
  <2>2. IsWave(wave[w]) /\ wave[w].vm = <<>>
    BY <1>2, <1>4
  <2> QED BY <2>1, <2>2
<1>6. wave = [w \in Crew |-> wave[w]]
  BY <1>1, <1>2
<1> QED BY <1>3, <1>5, <1>6 DEF Outstanding

(* A load enters the queue while a wait for it is still to come, and that wait
   empties the queue. *)
LEMMA OutstandingNext == Remaining /\ Outstanding /\ [Next]_vars => Outstanding'
<1> SUFFICES ASSUME Remaining, Outstanding, [Next]_vars PROVE Outstanding'
  OBVIOUS
<1>1. CASE UNCHANGED vars
  BY <1>1 DEF Outstanding, vars, Crew, Pending
<1>2. CASE AllEnded
  BY <1>1, <1>2 DEF AllEnded
<1>3. ASSUME NEW u \in Crew, Step(u) PROVE Outstanding'
  <2> DEFINE code == todo[u]
             t == Tail(code)
             i == At(u)
  <2>1. code # <<>> /\ todo' = [todo EXCEPT ![u] = t] /\ Crew' = Crew /\ Sound(code)
    BY <1>3, StepForward DEF Ended, Crew, Remaining
  <2>2. /\ Len(code) \in Nat \ {0} /\ DOMAIN code = 1 .. Len(code) /\ Head(code) = code[1]
        /\ DOMAIN t = 1 .. Len(code) - 1
        /\ \A n \in 1 .. Len(code) - 1 : t[n] = code[n + 1]
        /\ Drained(t)
    BY <2>1, SoundTail, DrainedTail DEF Outstanding
  <2>3. i = code[1]
    BY <2>2 DEF At
  <2>4. /\ wave' = [w \in Crew |-> wave'[w]]
        /\ \E visible : wave'[u] \in Outcomes(wave[u], i, passed[u], kernel, visible)
        /\ \A v \in Crew \ {u} :
             wave'[v] = IF i.op \in {"fetch", "store"} THEN Aftermath(wave[v], i, passed[u], kernel) ELSE wave[v]
    BY <1>3, StepOutcome, Zenon DEF Outstanding
  <2>5. /\ IsWave(wave'[u])
        /\ \E T : wave'[u].vm \in Seq(T)
        /\ Loading(wave'[u].vm) => \/ i.op = "fetch"
                                   \/ Loading(wave[u].vm) /\ ~ (i.op = "vm" /\ i.left = 0)
    <3>1. PICK S : wave[u].vm \in Seq(S)
      BY DEF Outstanding
    <3>2. IsWave(wave[u])
      BY DEF Outstanding
    <3>3. (i.op \in {"fetch", "pull"} => i.count \in Nat \ {0}) /\ (i.op = "vm" => i.left \in Nat)
      <4>1. 1 \in DOMAIN code
        BY <2>2
      <4> HIDE DEF code, i
      <4> QED BY <2>1, <2>3, <4>1 DEF Sound
    <3> HIDE DEF i
    <3> QED BY <2>4, <3>1, <3>2, <3>3, OutcomeLoads
  <2>6. \A v \in Crew \ {u} : IsWave(wave'[v]) /\ wave'[v].vm = wave[v].vm
    <3> HIDE DEF i
    <3> QED BY <2>4, AftermathLoads DEF Outstanding
  <2>7. todo'[u] = t /\ \A v \in Crew : v # u => todo'[v] = todo[v]
    BY <2>1 DEF Crew
  <2> HIDE DEF t, i
  <2>8. ASSUME NEW j \in DOMAIN code, j > 1, code[j].op = "vm", code[j].left = 0 PROVE Pending(u)'
    <3>1. j - 1 \in DOMAIN t /\ t[j - 1] = code[j]
      BY <2>2, <2>8
    <3> HIDE DEF code
    <3> QED BY <2>7, <2>8, <3>1 DEF Pending
  <2>9. ASSUME Loading(wave'[u].vm) PROVE Pending(u)'
    <3>1. CASE i.op = "fetch"
      <4>1. \E j \in DOMAIN code : j > 1 /\ code[j].op = "vm" /\ code[j].left = 0
        <5>1. Drained(code) /\ 1 \in DOMAIN code /\ code[1].op = "fetch"
          BY <2>2, <2>3, <3>1 DEF Outstanding
        <5> HIDE DEF code
        <5> QED BY <5>1 DEF Drained, Drains
      <4> QED BY <2>8, <4>1
    <3>2. CASE Loading(wave[u].vm) /\ ~ (i.op = "vm" /\ i.left = 0)
      <4>1. PICK j \in DOMAIN code : code[j].op = "vm" /\ code[j].left = 0
        BY <3>2 DEF Outstanding, Pending
      <4>2. j > 1
        BY <2>2, <2>3, <3>2, <4>1
      <4> QED BY <2>8, <4>1, <4>2
    <3> QED BY <2>5, <2>9, <3>1, <3>2
  <2>10. ASSUME NEW v \in Crew
         PROVE  /\ IsWave(wave[v])'
                /\ \E S : wave'[v].vm \in Seq(S)
                /\ Loading(wave[v].vm)' => Pending(v)'
                /\ Drained(todo[v])'
    <3>1. CASE v = u
      BY <2>2, <2>5, <2>7, <2>9, <3>1 DEF IsWave, Loading, Drained, Drains
    <3>2. CASE v # u
      <4>1. todo'[v] = todo[v] /\ IsWave(wave'[v]) /\ wave'[v].vm = wave[v].vm
        BY <2>6, <2>7, <3>2
      <4> QED BY <4>1 DEF Outstanding, Pending, IsWave, Loading, Drained, Drains
    <3> QED BY <3>1, <3>2
  <2> HIDE DEF code
  <2> QED BY <2>1, <2>4, <2>10, Zenon DEF Outstanding
<1> QED BY <1>1, <1>2, <1>3 DEF Next

(* Programs of any length: a wave that has ended has no load on its way to LDS, and
   when all have, they have passed equally many barriers. *)
THEOREM CleanEnd == ASSUME Runnable, Balance, Drainage PROVE Spec => []EndsClean
<1> DEFINE IInv == Counted /\ Abreast /\ Remaining /\ Even /\ Outstanding
<1>1. Init => IInv
  BY AbreastInit, RemainingInit, EvenInit, OutstandingInit
<1>2. IInv /\ [Next]_vars => IInv'
  BY AbreastNext, RemainingNext, EvenNext, OutstandingNext
<1>3. IInv => EndsClean
  <2> SUFFICES ASSUME IInv PROVE EndsClean
    OBVIOUS
  <2>1. ASSUME NEW w \in Crew, Ended(w) PROVE ~ Loading(wave[w].vm)
    BY <2>1 DEF Outstanding, Pending, Ended
  <2>2. ASSUME \A w \in Crew : Ended(w), NEW v \in Crew, NEW w \in Crew PROVE passed[v] = passed[w]
    <3>1. todo[v] = <<>> /\ todo[w] = <<>> /\ passed[v] \in Nat /\ passed[w] \in Nat
      BY <2>2 DEF Ended, Counted
    <3>2. Bars(<<>>) = 0
      <4>1. {i \in DOMAIN <<>> : <<>>[i].op = "bar"} = {}
        OBVIOUS
      <4> QED BY <4>1, FS_EmptySet DEF Bars
    <3> QED BY <3>1, <3>2 DEF Even
  <2>3. ASSUME NEW w \in Crew, Ended(w), NEW e \in ToSet(wave[w].vm) PROVE e.slot = <<>>
    BY <2>1, <2>3 DEF Loading, ToSet
  <2> QED BY <2>2, <2>3 DEF EndsClean
<1> HIDE DEF IInv
<1> QED BY <1>1, <1>2, <1>3, PTL DEF Spec

(***************************************************************************)
(* WaveLds, the sums: for programs that have a proof outline.  An outline  *)
(* says of one wave alone where it may be and what it then holds; that the *)
(* waves together stay within theirs, whatever the order of their          *)
(* instructions, is what is proved here.                                   *)
(***************************************************************************)

Outlined == \A p \in Programs : \E o : Proves(o, p)

Lags(w) == \E v \in Crew : passed[v] > passed[w]

(* Wave w is about to execute its i-th instruction, and as the outline has it. *)
Stands(p, o, w, i) ==
  /\ todo[w] = SubSeq(p.code[w], i, Len(p.code[w]))
  /\ passed[w] = o.epoch[w][i]
  /\ wave[w] \in IF Lags(w) THEN o.behind[w][i] ELSE o.at[w][i]

Follows(p, o) ==
  /\ Proves(o, p)
  /\ kernel.want = p.want /\ kernel.ordered = p.ordered /\ kernel.latency = p.latency
  /\ kernel.reads = p.reads /\ kernel.swift = p.swift
  /\ Crew = DOMAIN p.code
  /\ wave = [w \in Crew |-> wave[w]]
  /\ \A w \in Crew : \E i \in Places(p.code[w]) : Stands(p, o, w, i)

(* What is left of a program at one of its places. *)
LEMMA RestIs ==
  ASSUME NEW S, NEW code \in Seq(S), NEW i \in Places(code)
  PROVE  /\ SubSeq(code, i, Len(code)) = <<>> <=> i = Len(code) + 1
         /\ i # Len(code) + 1 =>
              /\ i \in DOMAIN code /\ i + 1 \in Places(code)
              /\ Head(SubSeq(code, i, Len(code))) = code[i]
              /\ Tail(SubSeq(code, i, Len(code))) = SubSeq(code, i + 1, Len(code))
<1> DEFINE n == Len(code)
           r == SubSeq(code, i, n)
<1>1. n \in Nat /\ i \in 1 .. n + 1 /\ DOMAIN code = 1 .. n
  BY DEF Places
<1>2. Len(r) = n - i + 1 /\ r \in Seq(S)
  BY <1>1
<1>3. r = <<>> <=> i = n + 1
  <2>1. r = <<>> <=> Len(r) = 0
    <3> HIDE DEF r
    <3> QED BY <1>2
  <2> HIDE DEF r
  <2> QED BY <1>1, <1>2, <2>1
<1>4. ASSUME i # n + 1 PROVE i \in DOMAIN code /\ i + 1 \in Places(code) /\ Head(r) = code[i] /\ Tail(r) = SubSeq(code, i + 1, n)
  <2>1. i \in 1 .. n /\ i + 1 \in 1 .. n + 1
    BY <1>1, <1>4
  <2>2. Head(r) = code[i]
    BY <1>1, <2>1
  <2>3. Tail(r) = SubSeq(code, i + 1, n)
    BY <1>1, <2>1
  <2> QED BY <1>1, <2>1, <2>2, <2>3 DEF Places
<1> QED BY <1>3, <1>4

(* The code of a wave, where it stands. *)
LEMMA StandingIs ==
  ASSUME NEW p, NEW o, Follows(p, o), NEW w \in Crew, NEW i \in Places(p.code[w]), Stands(p, o, w, i)
  PROVE  /\ Ended(w) <=> i = Len(p.code[w]) + 1
         /\ ~ Ended(w) => /\ i \in DOMAIN p.code[w] /\ i + 1 \in Places(p.code[w])
                          /\ At(w) = p.code[w][i] /\ Op(w) = p.code[w][i].op
                          /\ Tail(todo[w]) = SubSeq(p.code[w], i + 1, Len(p.code[w]))
<1> DEFINE code == p.code[w]
<1>1. PICK S : code \in Seq(S)
  BY DEF Follows, Proves
<1>2. todo[w] = SubSeq(code, i, Len(code))
  BY DEF Stands
<1> HIDE DEF code
<1>3. /\ todo[w] = <<>> <=> i = Len(code) + 1
      /\ i # Len(code) + 1 =>
           /\ i \in DOMAIN code /\ i + 1 \in Places(code)
           /\ Head(todo[w]) = code[i]
           /\ Tail(todo[w]) = SubSeq(code, i + 1, Len(code))
  <2>1. i \in Places(code)
    BY DEF code
  <2> QED BY <1>1, <1>2, <2>1, RestIs
<1>4. Ended(w) <=> todo[w] = <<>>
  BY DEF Ended
<1>5. ~ Ended(w) => Op(w) = At(w).op /\ At(w) = Head(todo[w])
  BY DEF Op, At
<1> QED BY <1>3, <1>4, <1>5 DEF code

(* Where the other waves are when one executes what is not a barrier: nobody is ahead
   of it. *)
LEMMA Meeting ==
  ASSUME NEW p, NEW o, Counted, Abreast, Follows(p, o),
         NEW u \in Crew, NEW i \in Places(p.code[u]), Stands(p, o, u, i), ~ Ended(u), Op(u) # "bar",
         NEW v \in Crew \ {u}, NEW j \in Places(p.code[v]), Stands(p, o, v, j)
  PROVE  /\ <<v, j>> \in Meets(o, p.code, u, i)
         /\ wave[v] \in Found(o, passed[u], v, j)
<1>1. /\ passed[u] = o.epoch[u][i] /\ passed[v] = o.epoch[v][j]
      /\ wave[v] \in IF Lags(v) THEN o.behind[v][j] ELSE o.at[v][j]
  BY DEF Stands
<1>2. \A x \in Crew : passed[x] \in Nat /\ passed[x] <= passed[u]
  BY DEF Counted, Abreast
<1>3. Ended(v) <=> j = Len(p.code[v]) + 1
  BY StandingIs
<1>4. ~ Ended(v) => Op(v) = p.code[v][j].op
  BY StandingIs
<1>5. \/ passed[v] = passed[u]
      \/ passed[v] < passed[u] /\ Ended(v)
      \/ passed[v] + 1 = passed[u] /\ ~ Ended(v) /\ Op(v) = "bar"
  BY <1>2 DEF Abreast
<1>6. \/ o.epoch[v][j] = o.epoch[u][i]
      \/ o.epoch[v][j] < o.epoch[u][i] /\ j = Len(p.code[v]) + 1
      \/ o.epoch[v][j] + 1 = o.epoch[u][i] /\ p.code[v][j].op = "bar"
  BY <1>1, <1>3, <1>4, <1>5
<1>7. v \in DOMAIN p.code \ {u} /\ <<v, j>> \in UNION {{x} \X Places(p.code[x]) : x \in DOMAIN p.code \ {u}}
  BY DEF Follows
<1>8. <<v, j>> \in Meets(o, p.code, u, i)
  BY <1>6, <1>7 DEF Meets
<1>9. Lags(v) <=> passed[v] < passed[u]
  BY <1>2 DEF Lags
<1> QED BY <1>1, <1>8, <1>9 DEF Found

(* What a wave reads is what the outline lets it see. *)
LEMMA Reading ==
  ASSUME NEW p, NEW o, Counted, Abreast, Follows(p, o),
         NEW u \in Crew, NEW i \in Places(p.code[u]), Stands(p, o, u, i), ~ Ended(u), Op(u) = "read"
  PROVE  Seen(u) \in Visible(o, p, u, i, wave[u])
<1> DEFINE s == p.code[u][i].slot
           now == o.epoch[u][i]
           m == wave[u]
           own == IF s \in DOMAIN m.lds THEN {m.lds[s]} ELSE {}
           shown(v, j) == {Shown(n, s, now, p.reads) : n \in {k \in Found(o, now, v, j) : s \in DOMAIN k.lds}}
           parts == own \cup UNION {shown(x[1], x[2]) : x \in Meets(o, p.code, u, i)}
           real == {Part(u, v) : v \in Loaders(s)}
<1>1. At(u) = p.code[u][i] /\ i \in DOMAIN p.code[u] /\ p.code[u][i].op = "read"
  BY StandingIs
<1>2. now = passed[u] /\ kernel.reads = p.reads /\ Crew = DOMAIN p.code
  BY DEF Stands, Follows
<1>3. Seen(u) = Agreed(real)
  BY <1>1 DEF Seen
<1>4. ASSUME NEW v \in Loaders(s) PROVE Part(u, v) \in parts
  <2>1. v \in Crew /\ s \in DOMAIN wave[v].lds
    BY DEF Loaders
  <2>2. CASE v = u
    BY <1>1, <2>1, <2>2 DEF Part
  <2>3. CASE v # u
    <3>1. PICK j \in Places(p.code[v]) : Stands(p, o, v, j)
      BY <2>1 DEF Follows
    <3>2. <<v, j>> \in Meets(o, p.code, u, i) /\ wave[v] \in Found(o, now, v, j)
      BY <1>2, <2>1, <2>3, <3>1, Meeting
    <3>3. Part(u, v) = Shown(wave[v], s, now, p.reads)
      BY <1>1, <1>2, <2>3 DEF Part
    <3>4. Part(u, v) \in shown(v, j)
      <4> HIDE DEF s, now
      <4> QED BY <2>1, <3>2, <3>3
    <3> HIDE DEF shown, own
    <3> QED BY <3>2, <3>4
  <2> QED BY <2>2, <2>3
<1>5. real # {}
  <2>1. PICK v \in DOMAIN p.code : s \in OwnSlots(p.code[v])
    BY <1>1, <1>2 DEF Follows, Proves, Provided
  <2>2. PICK j \in Places(p.code[v]) : Stands(p, o, v, j)
    BY <1>2 DEF Follows
  <2>3. wave[v] \in o.at[v][j] \cup o.behind[v][j]
    BY <2>2 DEF Stands
  <2>4. DOMAIN wave[v].lds = OwnSlots(p.code[v])
    BY <2>3 DEF Follows, Proves
  <2>5. v \in Loaders(s)
    BY <1>2, <2>1, <2>4 DEF Loaders
  <2> QED BY <2>5
<1>6. Visible(o, p, u, i, m) = IF \A x, y \in parts : x = y THEN parts ELSE parts \cup {Torn}
  BY DEF Visible
<1>7. real \subseteq parts
  <2> HIDE DEF parts
  <2> QED BY <1>4
<1> HIDE DEF real, parts
<1>8. Agreed(real) \in IF \A x, y \in parts : x = y THEN parts ELSE parts \cup {Torn}
  BY <1>5, <1>7 DEF Agreed
<1> QED BY <1>3, <1>6, <1>8

(* All waves stand before their first instruction. *)
LEMMA FollowsInit == Outlined /\ Init => \E p, o : Follows(p, o)
<1> SUFFICES ASSUME Outlined, Init PROVE \E p, o : Follows(p, o)
  OBVIOUS
<1>1. PICK p \in Programs :
        /\ kernel = [want |-> p.want, ordered |-> p.ordered, latency |-> p.latency, reads |-> p.reads, swift |-> p.swift,
                     launch |-> p.launch]
        /\ todo = p.code
        /\ wave = [w \in DOMAIN p.code |-> Starting(p.code[w], p.start[w])]
        /\ passed = [w \in DOMAIN p.code |-> 0]
  BY DEF Init
<1>2. PICK o : Proves(o, p)
  BY DEF Outlined
<1>3. Crew = DOMAIN p.code
  BY <1>1 DEF Crew
<1>4. kernel.want = p.want /\ kernel.ordered = p.ordered /\ kernel.latency = p.latency /\ kernel.reads = p.reads /\ kernel.swift = p.swift
  BY <1>1
<1>5. wave = [w \in Crew |-> wave[w]]
  BY <1>1, <1>3
<1>6. ASSUME NEW w \in Crew PROVE 1 \in Places(p.code[w]) /\ Stands(p, o, w, 1)
  <2> DEFINE code == p.code[w]
  <2>1. PICK S : code \in Seq(S)
    BY <1>2, <1>3 DEF Proves
  <2> HIDE DEF code
  <2>2. 1 \in Places(code) /\ SubSeq(code, 1, Len(code)) = code
    BY <2>1 DEF Places
  <2>3. todo[w] = code
    BY <1>1 DEF code
  <2>4. wave[w] \in o.at[w][1] /\ o.epoch[w][1] = 0
    BY <1>1, <1>2, <1>3 DEF Proves
  <2>5. passed[w] = 0 /\ ~ Lags(w)
    BY <1>1, <1>3 DEF Lags
  <2> QED BY <2>2, <2>3, <2>4, <2>5 DEF Stands, code
<1> QED BY <1>2, <1>3, <1>4, <1>5, <1>6 DEF Follows

(* An instruction other than a barrier takes its wave to the next place, and leaves the
   others where they are. *)
LEMMA FollowsWithin ==
  ASSUME NEW p, NEW o, Counted, Abreast, Follows(p, o), NEW u \in Crew, Step(u), Op(u) # "bar"
  PROVE  \A v \in Crew : \E j \in Places(p.code[v]) : Stands(p, o, v, j)'
<1>1. /\ ~ Ended(u) /\ todo' = [todo EXCEPT ![u] = Tail(@)] /\ kernel' = kernel /\ passed' = passed
  BY StepForward
<1>2. PICK i \in Places(p.code[u]) : Stands(p, o, u, i)
  BY DEF Follows
<1>3. /\ i \in DOMAIN p.code[u] /\ i + 1 \in Places(p.code[u])
      /\ At(u) = p.code[u][i] /\ Op(u) = p.code[u][i].op
      /\ Tail(todo[u]) = SubSeq(p.code[u], i + 1, Len(p.code[u]))
  BY <1>1, <1>2, StandingIs
<1> DEFINE k == p.code[u][i]
           now == o.epoch[u][i]
<1>4. now = passed[u] /\ kernel.reads = p.reads /\ kernel.ordered = p.ordered /\ kernel.latency = p.latency /\ kernel.swift = p.swift
  BY <1>2 DEF Stands, Follows
<1>5. /\ wave'[u] \in Outcomes(wave[u], k, now, kernel, {Seen(u)})
      /\ \A v \in Crew \ {u} :
           wave'[v] = IF k.op \in {"fetch", "store"} THEN Aftermath(wave[v], k, now, kernel) ELSE wave[v]
  BY <1>3, <1>4, StepOutcome DEF Follows
<1>6. ~ Lags(u)
  BY <1>1 DEF Abreast, Lags
<1>7. \A v \in Crew : Lags(v)' <=> Lags(v)
  BY <1>1 DEF Lags, Crew
<1>8. wave[u] \in o.at[u][i]
  BY <1>2, <1>6 DEF Stands
<1>9. Leads(o, p, u, i) /\ Spares(o, p, u, i)
  BY <1>3 DEF Follows, Proves
<1>10. Stands(p, o, u, i + 1)'
  <2> DEFINE visible == IF k.op = "read" THEN Visible(o, p, u, i, wave[u]) ELSE {}
  <2>1. o.epoch[u][i + 1] = passed'[u]
    <3>1. o.epoch[u][i + 1] = now + 0
      BY <1>3, <1>9 DEF Leads
    <3> QED BY <1>1, <1>4, <3>1 DEF Counted
  <2>2. Outcomes(wave[u], k, now, p, visible) \subseteq o.at[u][i + 1]
    BY <1>8, <1>9 DEF Leads
  <2>3. Outcomes(wave[u], k, now, kernel, {Seen(u)}) = Outcomes(wave[u], k, now, p, {Seen(u)})
    BY <1>4, Zenon DEF Outcomes
  <2>4. wave'[u] \in Outcomes(wave[u], k, now, p, visible)
    <3>1. CASE k.op = "read"
      <4>1. Seen(u) \in visible
        BY <1>1, <1>2, <1>3, <3>1, Reading
      <4> HIDE DEF k, now, visible
      <4>2. wave'[u] \in {HasRead(wave[u], k, now, x) : x \in {Seen(u)}}
        BY <1>5, <2>3, <3>1 DEF Outcomes
      <4>3. wave'[u] \in {HasRead(wave[u], k, now, x) : x \in visible}
        BY <4>1, <4>2
      <4> QED BY <3>1, <4>3 DEF Outcomes
    <3>2. CASE k.op # "read"
      <4> HIDE DEF k, now, visible
      <4>1. \A x, y : Outcomes(wave[u], k, now, p, x) = Outcomes(wave[u], k, now, p, y)
        BY <3>2, Zenon DEF Outcomes
      <4> QED BY <1>5, <2>3, <4>1
    <3> QED BY <3>1, <3>2
  <2>5. todo'[u] = SubSeq(p.code[u], i + 1, Len(p.code[u]))
    BY <1>1, <1>3 DEF Crew
  <2> QED BY <1>6, <1>7, <2>1, <2>2, <2>4, <2>5 DEF Stands
<1>11. ASSUME NEW v \in Crew \ {u} PROVE \E j \in Places(p.code[v]) : Stands(p, o, v, j)'
  <2>1. PICK j \in Places(p.code[v]) : Stands(p, o, v, j)
    BY DEF Follows
  <2>2. <<v, j>> \in Meets(o, p.code, u, i) /\ wave[v] \in Found(o, passed[u], v, j)
    BY <1>1, <1>2, <2>1, Meeting
  <2>3. todo'[v] = todo[v] /\ passed'[v] = passed[v]
    BY <1>1 DEF Crew
  <2>4. Found(o, passed[u], v, j) = IF Lags(v) THEN o.behind[v][j] ELSE o.at[v][j]
    <3>1. \A x \in Crew : passed[x] \in Nat /\ passed[x] <= passed[u]
      BY <1>6 DEF Lags, Counted
    <3>2. Lags(v) <=> passed[v] < passed[u]
      BY <3>1 DEF Lags
    <3> QED BY <2>1, <3>2 DEF Found, Stands
  <2>5. wave'[v] \in Found(o, passed[u], v, j)
    <3>1. CASE k.op \in {"fetch", "store"}
      <4>1. Aftermath(wave[v], k, now, kernel) = Aftermath(wave[v], k, now, p)
        BY <1>4, Zenon DEF Aftermath
      <4>2. Aftermath(wave[v], k, now, p) \in Found(o, now, v, j)
        BY <1>4, <1>9, <2>2, <3>1 DEF Spares
      <4> QED BY <1>4, <1>5, <3>1, <4>1, <4>2
    <3>2. CASE k.op \notin {"fetch", "store"}
      BY <1>5, <2>2, <3>2
    <3> QED BY <3>1, <3>2
  <2>6. Stands(p, o, v, j)'
    BY <1>7, <2>1, <2>3, <2>4, <2>5 DEF Stands
  <2> QED BY <2>6
<1> QED BY <1>3, <1>10, <1>11

(* A barrier takes its wave to the next place; those it leaves behind rest. *)
LEMMA FollowsBarrier ==
  ASSUME NEW p, NEW o, Counted, Abreast, Follows(p, o), NEW u \in Crew, Step(u), Op(u) = "bar"
  PROVE  \A v \in Crew : \E j \in Places(p.code[v]) : Stands(p, o, v, j)'
<1>1. /\ ~ Ended(u) /\ todo' = [todo EXCEPT ![u] = Tail(@)] /\ kernel' = kernel
      /\ Released(u) /\ passed' = [passed EXCEPT ![u] = @ + 1]
  BY StepForward
<1>2. PICK i \in Places(p.code[u]) : Stands(p, o, u, i)
  BY DEF Follows
<1>3. /\ i \in DOMAIN p.code[u] /\ i + 1 \in Places(p.code[u])
      /\ At(u) = p.code[u][i] /\ Op(u) = p.code[u][i].op
      /\ Tail(todo[u]) = SubSeq(p.code[u], i + 1, Len(p.code[u]))
  BY <1>1, <1>2, StandingIs
<1> DEFINE k == p.code[u][i]
           now == o.epoch[u][i]
<1>4. now = passed[u] /\ kernel.reads = p.reads /\ kernel.ordered = p.ordered /\ kernel.latency = p.latency /\ kernel.swift = p.swift
  BY <1>2 DEF Stands, Follows
<1>5. /\ wave'[u] \in Outcomes(wave[u], k, now, kernel, {Seen(u)})
      /\ \A v \in Crew \ {u} : wave'[v] = wave[v]
  BY <1>3, <1>4, StepOutcome DEF Follows
<1>6. /\ \A v \in Crew : passed[v] \in Nat
      /\ passed'[u] = passed[u] + 1 /\ \A v \in Crew \ {u} : passed'[v] = passed[v]
      /\ Crew' = Crew
  BY <1>1 DEF Counted, Crew
<1>7. ~ Lags(u)'
  <2> SUFFICES ASSUME NEW v \in Crew, passed'[v] > passed'[u] PROVE FALSE
    BY <1>6 DEF Lags
  <2>1. v # u /\ passed[v] > passed[u] + 1
    BY <1>6
  <2>2. passed[v] = passed[u] + 1
    BY <1>1, <1>6, <2>1 DEF Abreast
  <2> QED BY <1>6, <2>1, <2>2
<1>8. Leads(o, p, u, i)
  BY <1>3 DEF Follows, Proves
<1>9. Stands(p, o, u, i + 1)'
  <2>1. o.epoch[u][i + 1] = passed'[u]
    BY <1>3, <1>4, <1>6, <1>8 DEF Leads
  <2>2. wave[u] \in o.at[u][i] \cup o.behind[u][i]
    BY <1>2 DEF Stands
  <2>3. Outcomes(wave[u], k, now, p, {}) \subseteq o.at[u][i + 1]
    BY <1>3, <1>8, <2>2 DEF Leads
  <2>4. wave'[u] \in Outcomes(wave[u], k, now, p, {})
    <3>1. k.op = "bar"
      BY <1>3
    <3> HIDE DEF k, now
    <3> QED BY <1>4, <1>5, <3>1 DEF Outcomes
  <2>5. todo'[u] = SubSeq(p.code[u], i + 1, Len(p.code[u]))
    BY <1>1, <1>3 DEF Crew
  <2> QED BY <1>7, <2>1, <2>3, <2>4, <2>5 DEF Stands
<1>10. ASSUME NEW v \in Crew \ {u} PROVE \E j \in Places(p.code[v]) : Stands(p, o, v, j)'
  <2>1. PICK j \in Places(p.code[v]) : Stands(p, o, v, j)
    BY DEF Follows
  <2>2. todo'[v] = todo[v] /\ passed'[v] = passed[v] /\ wave'[v] = wave[v]
    BY <1>1, <1>5, <1>6 DEF Crew
  <2>3. Lags(v) => Lags(v)'
    <3> SUFFICES ASSUME NEW x \in Crew, passed[x] > passed[v] PROVE passed'[x] > passed'[v]
      BY <1>6 DEF Lags
    <3> QED BY <1>6
  <2>4. CASE Lags(v)' => Lags(v)
    BY <2>1, <2>2, <2>3, <2>4 DEF Stands
  <2>5. CASE Lags(v)' /\ ~ Lags(v)
    <3>1. passed[u] <= passed[v]
      BY <1>6, <2>5 DEF Lags
    <3>2. passed[u] + 1 > passed[v]
      <4>1. PICK x \in Crew : passed'[x] > passed'[v]
        BY <1>6, <2>5 DEF Lags
      <4>2. x = u
        BY <1>6, <2>5, <4>1 DEF Lags
      <4> QED BY <1>6, <4>1, <4>2
    <3>3. Ended(v) \/ Op(v) = "bar"
      BY <1>1, <1>6, <3>1, <3>2 DEF Released
    <3>4. Rests(p.code[v], j)
      BY <2>1, <3>3, StandingIs DEF Rests
    <3>5. wave[v] \in o.behind[v][j]
      BY <2>1, <2>5, <3>4 DEF Stands, Follows, Proves
    <3> QED BY <2>1, <2>2, <2>5, <3>5 DEF Stands
  <2> QED BY <2>4, <2>5
<1> QED BY <1>3, <1>9, <1>10

(* So the waves stay within their outlines. *)
LEMMA FollowsNext ==
  ASSUME NEW p, NEW o, Counted, Abreast, Follows(p, o), [Next]_vars
  PROVE  Follows(p, o)'
<1>1. CASE UNCHANGED vars
  BY <1>1 DEF Follows, Stands, Lags, Crew, vars
<1>2. CASE AllEnded
  BY <1>1, <1>2 DEF AllEnded
<1>3. ASSUME NEW u \in Crew, Step(u) PROVE Follows(p, o)'
  <2>1. Crew' = Crew /\ kernel' = kernel
    BY <1>3, StepForward DEF Crew
  <2>2. wave' = [w \in Crew |-> wave'[w]]
    BY <1>3, StepOutcome DEF Follows
  <2>3. \A v \in Crew : \E j \in Places(p.code[v]) : Stands(p, o, v, j)'
    BY <1>3, FollowsWithin, FollowsBarrier
  <2> QED BY <2>1, <2>2, <2>3 DEF Follows
<1> QED BY <1>1, <1>2, <1>3 DEF Next

(* Programs of any length that have a proof outline: in whatever order the waves take
   their instructions, what they sum is what the kernel is to compute. *)
THEOREM SumsAreRight == ASSUME Outlined PROVE Spec => []RightSums
<1> DEFINE Kept == \E p, o : Follows(p, o)
           IInv == Counted /\ Abreast /\ Kept
<1>1. Init => IInv
  BY AbreastInit, FollowsInit
<1>2. IInv /\ [Next]_vars => IInv'
  <2> SUFFICES ASSUME IInv, [Next]_vars PROVE IInv'
    OBVIOUS
  <2>1. PICK p, o : Follows(p, o)
    OBVIOUS
  <2>2. Follows(p, o)'
    BY <2>1, FollowsNext
  <2> QED BY <2>2, AbreastNext
<1>3. IInv => RightSums
  <2> SUFFICES ASSUME IInv PROVE RightSums
    OBVIOUS
  <2>1. PICK p, o : Follows(p, o)
    OBVIOUS
  <2>2. ASSUME NEW w \in Crew, NEW r \in DOMAIN kernel.want[w]
        PROVE  /\ IsPrefix(wave[w].reg[r].terms, kernel.want[w][r])
               /\ Ended(w) => wave[w].reg[r].terms = kernel.want[w][r]
    <3>1. PICK i \in Places(p.code[w]) : Stands(p, o, w, i)
      BY <2>1 DEF Follows
    <3>2. wave[w] \in o.at[w][i] \cup o.behind[w][i]
      BY <3>1 DEF Stands
    <3>3. SumsUp(o, p, w, i)
      BY <2>1 DEF Follows, Proves
    <3>4. kernel.want = p.want
      BY <2>1 DEF Follows
    <3>5. Ended(w) => i = Len(p.code[w]) + 1
      BY <2>1, <3>1, StandingIs
    <3> QED BY <3>2, <3>3, <3>4, <3>5, Zenon DEF SumsUp
  <2> QED BY <2>2 DEF RightSums
<1> HIDE DEF IInv
<1> QED BY <1>1, <1>2, <1>3, PTL DEF Spec

-----------------------------------------------------------------------------

(* The launches of a program are ones its order is made for. *)
Suited == \A p \in Programs : \A s \in p.launch : Suits(s)

(* Launches of every size: the workgroups of a kernel, each on the tile its number
   stands for, compute every output tile, or walk through every K tile, once. *)
THEOREM TilesOnce == ASSUME Suited PROVE Spec => []EachTileOnce
<1> DEFINE Launched == \A s \in kernel.launch : Suits(s)
<1>1. Init => Launched
  BY DEF Init, Suited
<1>2. Launched /\ [Next]_vars => Launched'
  <2>1. Next => kernel' = kernel
    BY StepForward DEF Next, AllEnded, vars
  <2> QED BY <2>1 DEF vars
<1>3. Launched => EachTileOnce
  BY EveryTileOnce DEF EachTileOnce
<1> HIDE DEF Launched
<1> QED BY <1>1, <1>2, <1>3, PTL DEF Spec

=============================================================================
