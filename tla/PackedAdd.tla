----------------------------- MODULE PackedAdd -----------------------------
(***************************************************************************)
(* cmpswap_atomic: many threads add a pair of 16-bit numbers into the same *)
(* 32-bit word.  This module says what each addition computes and what the *)
(* word goes through when every addition is one atomic step; CmpSwap shows *)
(* that the compare-and-swap loop of the kernel does just that.            *)
(*                                                                         *)
(* The halves are bf16 numbers or, in the build with BF16ASU16, unsigned   *)
(* 16-bit ones.  Inputs of the program are small integers, so a bf16 value *)
(* is modelled as the integer it stands for.  Threads with equal inputs    *)
(* are interchangeable, so only their number is kept.                      *)
(* A definition with a suffix after an underscore is a faulty variant.     *)
(***************************************************************************)
EXTENDS Integers, SequencesExt, FiniteSetsExt

CONSTANT
  Builds      (* [asU16, bits, inputs]: the arithmetic of the build, the   *)
              (* width of an unsigned half or the precision of a bf16      *)
              (* significand (16 and 8 in the code), and the pairs that    *)
              (* reduce into one word, by input row                        *)

VARIABLES
  build,      (* the build that runs                                       *)
  word,       (* the halves of the output word                             *)
  left        (* left[v]: threads that have still to add the pair v        *)

vars == <<build, word, left>>

Values == ToSet(build.inputs)

(* The significand bits an integer of this size loses in a bf16. *)
Dropped(n) ==
  CHOOSE e \in 0 .. 24 :
    n < 2^(build.bits + e) /\ (e = 0 \/ n >= 2^(build.bits + e - 1))

(* float_2_bf16 on a magnitude: round to nearest, ties to even. *)
RoundUp(n) ==
  LET e == Dropped(n)
      half == 2^(e - 1) - 1 + ((n \div 2^e) % 2)
  IN IF e = 0 THEN n ELSE ((n + half) \div 2^e) * 2^e

Round(n) == IF n < 0 THEN -RoundUp(-n) ELSE RoundUp(n)

AddHalf(a, b) == IF build.asU16 THEN (a + b) % 2^build.bits ELSE Round(a + b)

(* add_bf16x2_t: the halves are independent, no carry crosses over. *)
Plus(w, v) == <<AddHalf(w[1], v[1]), AddHalf(w[2], v[2])>>

(* simple_reduction, row after row. *)
Zero == <<0, 0>>
Sequential == FoldLeft(Plus, Zero, build.inputs)

Threads(v) == {i \in DOMAIN build.inputs : build.inputs[i] = v}

Init ==
  /\ build \in Builds
  /\ word = Zero
  /\ left = [v \in Values |-> Cardinality(Threads(v))]

AtomicAdd(v) ==
  /\ left[v] > 0
  /\ word' = Plus(word, v)
  /\ left' = [left EXCEPT ![v] = @ - 1]
  /\ UNCHANGED build

Next == \E v \in Values : AtomicAdd(v)

Spec == Init /\ [][Next]_vars

=============================================================================
