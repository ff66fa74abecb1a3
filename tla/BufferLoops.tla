---------------------------- MODULE BufferLoops ----------------------------
(***************************************************************************)
(* Multi-buffered loops outside the GEMM and attention kernels, as         *)
(* programs for WaveLds.                                                   *)
(***************************************************************************)
EXTENDS WaveIsa

(***************************************************************************)
(* The wmma kernels: four producer waves, each with half of the rows of A  *)
(* or of B, four consumer waves, each with a quarter of the product.  A    *)
(* producer loads the tile of every K step into one slot, or into two in   *)
(* turn.  Nobody meets at a workgroup barrier after the first one: named   *)
(* barrier 1 says that a step is there, 2 that it has been read.           *)
(***************************************************************************)

There == 1            (* __nbar_1                                          *)
HasBeenRead == 2      (* __nbar_2                                          *)
Members == 4          (* of both                                           *)

Tcopy(op, half, slot, k) == <<Fetch(<<op, half, slot>>, <<op, half, k>>, 1)>>
Handed == <<Signalled(There), Await(HasBeenRead, Members)>>

Producer(op, half, steps) ==
  <<Bar>> \o Chain(LAMBDA k : Tcopy(op, half, 0, k) \o <<Vm(0)>> \o Handed, 0, steps - 1, 1)

(* A slot is loaded again before it has been waited for. *)
Producer2_Hasty(op, half, steps) ==
  <<Bar>> \o Tcopy(op, half, 0, 0) \o Onlyif(steps > 1, Tcopy(op, half, 1, 1))
  \o Chain(LAMBDA k : <<Vm(IF k < steps - 1 THEN 1 ELSE 0), Signalled(There)>>
                      \o Onlyif(k + 2 < steps, Tcopy(op, half, k % 2, k + 2)) \o <<Await(HasBeenRead, Members)>>,
           0, steps - 1, 1)

(* Two slots: step k + 1 is on its way while step k is being read. *)
Producer2(op, half, steps) ==
  <<Bar>> \o Tcopy(op, half, 0, 0) \o Onlyif(steps > 1, Tcopy(op, half, 1, 1))
  \o Chain(LAMBDA k : <<Vm(IF k < steps - 1 THEN 1 ELSE 0)>> \o Handed
                      \o Onlyif(k + 2 < steps, Tcopy(op, half, k % 2, k + 2)),
           0, steps - 1, 1)

Slab(k, m, n, slot) ==
  <<ByHand(Read(<<"a", k>>, <<"A", m, slot>>, 1)), ByHand(Read(<<"b", k>>, <<"B", n, slot>>, 1)), Lgkm(0),
    Add(<<"c">>, << <<"a", k>>, <<"b", k>> >>)>>

Consumer(m, n, slots, steps, slabs) ==
  <<Bar>>
  \o Chain(LAMBDA k :
             <<Await(There, Members)>> \o Chain(LAMBDA s : Slab(s, m, n, k % slots), 1, slabs, 1)
             \o <<Signalled(HasBeenRead)>>,
           0, steps - 1, 1)

(* The kernel that has one step only. *)
Producer1(op, half) == Producer(op, half, 1)
Consumer1(m, n, slabs) == Consumer(m, n, 1, 1, slabs)

(* One product for every slab of every step. *)
PingPongSums(m, n, steps, slabs) ==
  <<"c">> :> [k \in 1 .. steps * slabs |-> LET step == (k - 1) \div slabs IN << <<"A", m, step>>, <<"B", n, step>> >>]

(***************************************************************************)
(* The kernels of one wave, and the one for which the MFMA is done by      *)
(* hand: nothing is on its way while anything else happens.                *)
(***************************************************************************)

OneWave(slabs) ==
  Tcopy("A", 0, 0, 0) \o Tcopy("B", 0, 0, 0) \o <<Vm(0), Bar>>
  \o Chain(LAMBDA s : Slab(s, 0, 0, 0) \o <<Bar>>, 1, slabs, 1)

tcopy == OneWave(1)
tcopy_pad == OneWave(4) \o <<Bar>>

(* Each wave stores a part of both tiles and reads both parts of one. *)
StoreSmem(op, g) == <<Store(<<op, g, 0>>, <<"gmem", op>>, {}), Lgkm(0), Bar>>
ReadBoth(op) == <<ByHand(Read(<<"sld", op, 0>>, <<op, 0, 0>>, 1)), ByHand(Read(<<"sld", op, 1>>, <<op, 1, 0>>, 1)), Lgkm(0), Bar>>
GmemHalf(op, g, k) == <<ByHand(Pull(<<"gmem", op>>, <<op, g, k>>, 2)), Vm(0)>>

gfx942(g, loops) ==
  Chain(LAMBDA k :
          GmemHalf("A", g, k) \o GmemHalf("B", g, k) \o StoreSmem("A", g) \o StoreSmem("B", g)
          \o ReadBoth("A") \o ReadBoth("B")
          \o <<Add(<<"c">>, << <<"sld", "A", 0>>, <<"sld", "A", 1>>, <<"sld", "B", 0>>, <<"sld", "B", 1>> >>)>>,
        0, loops - 1, 1)

Gfx942Sums(loops) ==
  <<"c">> :> [k \in 1 .. loops |-> << <<"A", 0, k - 1>>, <<"A", 1, k - 1>>, <<"B", 0, k - 1>>, <<"B", 1, k - 1>> >>]

(***************************************************************************)
(* Sums of the products of two matrices' rows, which assembler statements  *)
(* load into registers.                                                    *)
(***************************************************************************)

Gld(buf, row) ==
  <<ByHand(Pull(<<"a", buf>>, <<"a", row>>, 1)), ByHand(Pull(<<"b", buf>>, <<"b", row>>, 1))>>
AccC(buf) == <<Add(<<"acc">>, << <<"a", buf>>, <<"b", buf>> >>)>>

(* One row ahead: its loads are issued before the row before is waited for.
   The last row is in the first buffer if there is an odd number of them. *)
ReduceAhead(rows) ==
  Gld(0, 0)
  \o Chain(LAMBDA r : Gld(r % 2, r) \o <<Vm(2)>> \o AccC((r + 1) % 2), 1, rows - 1, 1)
  \o <<Vm(0)>> \o AccC(IF rows % 2 = 1 THEN 0 ELSE 1)

(* All n buffers ahead: a buffer is loaded again as soon as it has been used.
   over buffers are used before the loop, which goes round all of them. *)
ReduceRound(n, rows, over) ==
  LET used(k) == k % n
      turn(k) == <<Vm(2 * (n - 1))>> \o AccC(used(k)) \o Gld(used(k), n + k)
      round(k) == Chain(turn, k, k + n - 1, 1)
  IN Chain(LAMBDA r : Gld(r, r), 0, n - 1, 1)
     \o Chain(turn, 0, over - 1, 1)
     \o Chain(round, over, rows - n - 1, n)
     \o Chain(LAMBDA j : <<Vm(2 * (n - 1 - j))>> \o AccC(used(over + j)), 0, n - 1, 1)

(* Two rows ahead, in three buffers; which two of them are left is taken from
   mod. *)
ReduceAhead3(rows, mod) ==
  Gld(0, 0) \o Gld(1, 1)
  \o Chain(LAMBDA r : Gld(r % 3, r) \o <<Vm(4)>> \o AccC((r - 2) % 3), 2, rows - 1, 1)
  \o <<Vm(2)>> \o AccC((mod + 1) % 3) \o <<Vm(0)>> \o AccC((mod + 2) % 3)

reduce_n3_rolled(rows) == ReduceAhead3(rows, 2 * ((rows \div 2) % 2))

reduce_n2(rows) == IF rows % 2 = 1 THEN ReduceAhead(rows) ELSE ReduceRound(2, rows, 0)
reduce_n3(rows) == ReduceRound(3, rows, rows % 3)

ReduceSums(rows) == <<"acc">> :> [r \in 1 .. rows |-> << <<"a", r - 1>>, <<"b", r - 1>> >>]

(***************************************************************************)
(* The same sum with one matrix in LDS, where every wave reads the columns *)
(* that another one has loaded.                                            *)
(***************************************************************************)

GldLds(g, buf, row) == <<Pull(<<"b", buf>>, <<"b", row>>, 1), Fetch(<<"a", buf, g>>, <<"a", row>>, 1)>>
AccLds(g, buf) ==
  <<Read(<<"a", buf>>, <<"a", buf, 1 - g>>, 1), Add(<<"acc">>, << <<"a", buf>>, <<"b", buf>> >>)>>

reduce_fp32_n2(g, rows) ==
  GldLds(g, 0, 0)
  \o Chain(LAMBDA r : GldLds(g, r % 2, r) \o <<Vm(2), Bar>> \o AccLds(g, (r + 1) % 2), 1, rows - 1, 1)
  \o <<Vm(0), Bar>> \o AccLds(g, 1)

(***************************************************************************)
(* memcpy_stream_async: each chunk goes through LDS.  Every wave loads a   *)
(* part of what each of them stores.                                       *)
(***************************************************************************)

memcpy_persistent(unroll, rounds) ==
  LET loads(r) == Chain(LAMBDA u : <<ByHand(Pull(<<"d", u>>, <<"src", r * unroll + u>>, 1))>>, 0, unroll - 1, 1)
      stores == Chain(LAMBDA u : <<Vm(unroll - 1 - u), Add(<<"dst">>, << <<"d", u>> >>)>>, 0, unroll - 1, 1)
  IN Chain(LAMBDA r : loads(r) \o stores, 0, rounds - 1, 1)

PersistentSums(unroll, rounds) ==
  <<"dst">> :> [k \in 1 .. unroll * rounds |-> << <<"src", k - 1>> >>]

memcpy_stream_async(g, chunks) ==
  Chain(LAMBDA c :
          <<Fetch(<<"smem", 0>>, <<c, 0>>, 1), Fetch(<<"smem", 1>>, <<c, 1>>, 1), Vm(0), Bar,
            Read(<<"d">>, <<"smem", g>>, 1), Add(<<"dst">>, << <<"d">> >>), Bar>>,
        0, chunks - 1, 1)

CopySums(g, chunks) == <<"dst">> :> [c \in 1 .. chunks |-> << <<c - 1, g>> >>]

=============================================================================
