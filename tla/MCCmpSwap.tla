----------------------------- MODULE MCCmpSwap -----------------------------
(***************************************************************************)
(* Builds for CmpSwap: unsigned halves whose sums wrap around, bf16 halves *)
(* that stay exact, and bf16 halves that round.  In each the inputs can    *)
(* bring the word back to a value a thread has read before.                *)
(***************************************************************************)
EXTENDS CmpSwap

Wrapping == [asU16 |-> TRUE, bits |-> 2,
             inputs |-> << <<1, 3>>, <<3, 1>>, <<3, 2>>, <<1, 2>> >>]
Exact == [asU16 |-> FALSE, bits |-> 8,
          inputs |-> << <<9, -10>>, <<-9, 10>>, <<9, -10>> >>]
Rounding == [asU16 |-> FALSE, bits |-> 2,
             inputs |-> << <<6, -6>>, <<-6, 6>>, <<3, 6>>, <<6, -6>> >>]

Usual == {Wrapping, Exact, Rounding}

=============================================================================
