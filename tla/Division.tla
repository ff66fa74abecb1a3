------------------------------ MODULE Division ------------------------------
(***************************************************************************)
(* Division by a number that is known beforehand, as magic_integer_division *)
(* does it: the host turns the divisor into a factor and a shift, the      *)
(* kernel multiplies, adds and shifts.  A word of the code has 32 bits;    *)
(* here it has as many as bits says.                                       *)
(***************************************************************************)
EXTENDS Integers

(* The unsigned instructions, of two words to one. *)
Alu32(f, x, y, bits) ==
  CASE f = "mul_hi" -> (x * y) \div 2^bits
    [] f = "mul_lo" -> (x * y) % 2^bits
    [] f = "add" -> (x + y) % 2^bits
    [] f = "sub" -> (x - y) % 2^bits
    [] f = "lshr" -> x \div 2^y

(* Where the search for the shift stops: at the first power not below d. *)
Stops(d, shift) == 2^shift >= d /\ (shift = 0 \/ 2^(shift - 1) < d)

magic_div_u32_gen(d, bits) ==
  LET shift == CHOOSE s \in 0 .. bits - 1 : Stops(d, s)
  IN [magic |-> (2^bits * (2^shift - d)) \div d + 1, shift |-> shift]

mdiv_u32(n, m, bits) ==
  Alu32("lshr", Alu32("add", Alu32("mul_hi", m.magic, n, bits), n, bits), m.shift, bits)

mdiv_u32_rem(n, m, d, bits) ==
  Alu32("sub", n, Alu32("mul_lo", d, mdiv_u32(n, m, bits), bits), bits)

=============================================================================
