----------------------------- MODULE MatrixCore -----------------------------
(***************************************************************************)
(* The matrix-core samples, as programs for WaveLds: one wave multiplies   *)
(* two matrices of 32 rows.  What a lane loads, and where it stores its    *)
(* sixteen results, must fit the instruction's distribution over lanes.    *)
(* A fragment is as many values of a row as a lane loads at once: 4, 8 on  *)
(* gfx950.                                                                 *)
(***************************************************************************)
EXTENDS WaveIsa

Lane == 0 .. 63
Reg == 0 .. 15

v_a == <<"a">>
v_b == <<"b">>
v_c == <<"v_c">>

(* offset_a, offset_b: the half of the wave selects the fragment. *)
Fragments(matrix, row, k) == [l \in Lane |-> <<matrix, row[l], 2 * k + l \div 32>>]
Straight == [l \in Lane |-> l % 32]
PullA(k) == Pull(v_a, Fragments("a", Straight, k), 1)
PullB(k) == Pull(v_b, Fragments("b", Straight, k), 1)

ClearC == Fill(v_c, [l \in Lane |-> [i \in Reg |-> <<>>]])
StoreC(place) == <<StoreLanes(<<"c">>, v_c, place), Add(<<"out">>, << <<"c">> >>)>>

(* Where in C a lane stores: one by one down its column, or n at a time along its
   row. *)
DownColumn == [l \in Lane |-> [i \in Reg |-> <<4 * (l \div 32) + (i % 4) + 8 * (i \div 4), l % 32>>]]
AlongRow(n) == [l \in Lane |-> [i \in Reg |-> <<l % 32, n * (l \div 32) + 2 * n * (i \div n) + (i % n)>>]]

matrix_core_kernel_standard ==
  <<PullA(0), PullB(0), ClearC, Multiply(v_c, v_a, v_b)>> \o StoreC(DownColumn)

matrix_core_kernel_standard_agpr ==
  <<ByHand(PullA(0)), ByHand(PullB(0)), ClearC, Vm(0), Multiply(v_c, v_a, v_b)>> \o StoreC(DownColumn)

(* The operands are exchanged, which transposes C. *)
matrix_core_kernel_swap_a_b ==
  <<PullA(0), PullB(0), ClearC, Multiply(v_c, v_b, v_a)>> \o StoreC(AlongRow(4))

(* The rows of B also, so that eight results of a lane are neighbours. *)
row_id_b ==
  [l \in Lane |-> LET g == (l % 32) \div 4
                  IN (l % 4) + 8 * (g % 2) + 4 * ((g % 4) \div 2) + 16 * (g \div 4)]

matrix_core_kernel_swap_swb ==
  <<PullA(0), Pull(v_b, Fragments("b", row_id_b, 0), 1), ClearC, Multiply(v_c, v_b, v_a)>> \o StoreC(AlongRow(8))

(* Repeat_K fragments of each matrix at a time, loops times. *)
matrix_core_kernel_loop(Repeat_K, loops) ==
  LET part(i, k) == [ByHand(i) EXCEPT !.into = Append(@, k)]
      round(trip) ==
        [k \in 1 .. Repeat_K |-> part(PullA(trip * Repeat_K + k - 1), k)]
        \o [k \in 1 .. Repeat_K |-> part(PullB(trip * Repeat_K + k - 1), k)]
        \o <<Vm(0)>> \o [k \in 1 .. Repeat_K |-> Multiply(v_c, Append(v_a, k), Append(v_b, k))]
  IN <<ClearC>> \o Chain(round, 0, loops - 1, 1) \o StoreC(DownColumn)

(* C is the product of A and the transpose of B: every place once, every fragment
   of its row of A with that of its row of B. *)
ProductSum(steps) ==
  LET dot(row, col) == [s \in 1 .. steps |->
                          {{<<"a", row, k>>, <<"b", col, k>>} : k \in {2 * s - 2, 2 * s - 1}}]
  IN <<"out">> :> << <<{<< <<row, col>>, dot(row, col)>> : row \in 0 .. 31, col \in 0 .. 31}>> >>

=============================================================================
