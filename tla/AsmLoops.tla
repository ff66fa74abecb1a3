------------------------------ MODULE AsmLoops ------------------------------
(***************************************************************************)
(* The GEMMs of sgemm, sgemm_reduction and hgemm, assembler and HIP, as    *)
(* programs for WaveLds: tiles come through registers, are stored to LDS   *)
(* and read back a row of the tile at a time.  The assembler ones wait by  *)
(* count throughout.                                                       *)
(*                                                                         *)
(* A thread's tile of C is four quarters, half x of its rows of A against  *)
(* half y of its columns of B; there are two sets of registers for a row   *)
(* of A and of B.  Each wave has a row of tiles; its number is wave_q of   *)
(* the source, on which it depends what part of LDS it writes C to.        *)
(***************************************************************************)
EXTENDS WaveIsa

Half == {0, 1}
Quarter(x, y) == <<"c", x, y>>

ReadA(set, x, buf) == <<ByHand(Read(<<"a", set, x>>, <<"A", buf>>, 1))>>
ReadB(set, y, buf) == <<ByHand(Read(<<"b", set, y>>, <<"B", buf>>, 1))>>
ReadRow(set, buf) == ReadA(set, 0, buf) \o ReadA(set, 1, buf) \o ReadB(set, 0, buf) \o ReadB(set, 1, buf)

Fma4x4(set, x, y) == <<Add(Quarter(x, y), << <<"a", set, x>>, <<"b", set, y>> >>)>>
Fma8x8(set) == Fma4x4(set, 0, 0) \o Fma4x4(set, 1, 0) \o Fma4x4(set, 0, 1) \o Fma4x4(set, 1, 1)

(* Tile k of A or B, or part of it, by way of register j. *)
PullTile(o, j, data) == <<ByHand(Pull(<<o, "g", j>>, data, 1))>>
StoreTile(o, j, buf) == <<Store(<<o, buf>>, <<o, "g", j>>, {})>>
PullBoth(j, k) == PullTile("A", j, <<"A", k>>) \o PullTile("B", j, <<"B", k>>)
StoreBoth(j, buf) == StoreTile("A", j, buf) \o StoreTile("B", j, buf)

WaitBarrier == <<Lgkm(0), Bar>>

(***************************************************************************)
(* sgemm128x128.s and sgemm128x128_v2.s: one buffer, a barrier before and  *)
(* after its eight rows.                                                   *)
(***************************************************************************)

(* The next row is read before this one's products. *)
RowAhead ==
  ReadRow(0, 0)
  \o Chain(LAMBDA cnt : ReadRow(1, 0) \o <<Lgkm(4)>> \o Fma8x8(0)
                        \o Onlyif(cnt # 6, ReadRow(0, 0)) \o <<Lgkm(IF cnt # 6 THEN 4 ELSE 0)>> \o Fma8x8(1), 0, 6, 2)

(* One read ahead of each quarter's product. *)
Turn(read, set, x, y) == read \o <<Lgkm(1)>> \o Fma4x4(set, x, y)
ReadAhead ==
  ReadA(0, 0, 0) \o ReadB(0, 0, 0)
  \o Chain(LAMBDA cnt :
       Turn(ReadA(0, 1, 0), 0, 0, 0) \o Turn(ReadB(0, 1, 0), 0, 1, 0)
       \o Turn(ReadA(1, 0, 0), 0, 0, 1) \o Turn(ReadB(1, 0, 0), 0, 1, 1)
       \o Turn(ReadA(1, 1, 0), 1, 0, 0) \o Turn(ReadB(1, 1, 0), 1, 1, 0)
       \o (IF cnt # 6 THEN Turn(ReadA(0, 0, 0), 1, 0, 1) \o Turn(ReadB(0, 0, 0), 1, 1, 1)
           ELSE <<Lgkm(0)>> \o Fma4x4(1, 0, 1) \o Fma4x4(1, 1, 1)),
       0, 6, 2)

sgemm128x128(rows, tiles) ==
  PullBoth(0, 0)
  \o Chain(LAMBDA k : <<Vm(0)>> \o StoreBoth(0, 0) \o WaitBarrier \o Onlyif(k < tiles - 1, PullBoth(0, k + 1))
                      \o rows \o <<Bar>>, 0, tiles - 1, 1)

(***************************************************************************)
(* sgemm128x128_v3.s and _cov3_v3.s: two buffers, pulled two tiles ahead   *)
(* and stored one tile ahead, during the last two rows.  tiles is even.    *)
(***************************************************************************)

TwoBuffers(k, tiles) ==
  LET buf == k % 2
      other == 1 - buf
      pulls == k + 2 < tiles
      stores == k + 1 < tiles
      left == IF pulls THEN 2 ELSE 0
      even(cnt) ==
        ReadA(1, 0, buf) \o ReadA(1, 1, buf) \o Onlyif(pulls /\ cnt = 0, PullTile("A", buf, <<"A", k + 2>>))
        \o ReadB(1, 0, buf) \o ReadB(1, 1, buf)
        \o (IF stores /\ cnt = 6 THEN <<Vm(left + 1)>> \o StoreTile("A", other, other) \o <<Lgkm(5)>> ELSE <<Lgkm(4)>>)
        \o Fma8x8(0)
      (* Rows 3 and 5 are not waited for. *)
      odd(cnt) ==
        (IF cnt = 7 THEN IF stores THEN <<Vm(left)>> \o StoreTile("B", other, other) \o <<Lgkm(1)>> ELSE <<Lgkm(0)>>
         ELSE ReadA(0, 0, buf) \o ReadA(0, 1, buf) \o Onlyif(pulls /\ cnt = 1, PullTile("B", buf, <<"B", k + 2>>))
              \o ReadB(0, 0, buf) \o ReadB(0, 1, buf) \o Onlyif(cnt = 1, <<Lgkm(4)>>))
        \o Fma8x8(1)
  IN WaitBarrier \o ReadRow(0, buf) \o Chain(LAMBDA cnt : even(cnt) \o odd(cnt + 1), 0, 6, 2)

sgemm128x128_v3(tiles) ==
  PullBoth(0, 0) \o PullBoth(1, 1) \o <<Vm(3)>> \o StoreTile("A", 0, 0) \o <<Vm(2)>> \o StoreTile("B", 0, 0)
  \o Chain(LAMBDA k : TwoBuffers(k, tiles), 0, tiles - 1, 1)

(* The other one differs in how it addresses global memory. *)
sgemm128x128_cov3_v3(tiles) == sgemm128x128_v3(tiles)

(***************************************************************************)
(* sgemm128x128.hip.cc and hgemm128x128.hip.cc: the compiler waits.  p0 =  *)
(* p1 at the end of a tile is a change of names.                           *)
(***************************************************************************)

Known(code) == [n \in DOMAIN code |-> [code[n] EXCEPT !.kind = "known"]]
HipRows(buf, rows) == Chain(LAMBDA i : Known(ReadRow(0, buf)) \o Fma8x8(0), 1, rows, 1)

HipTiles(rows, tiles) ==
  Known(PullBoth(0, 0))
  \o Chain(LAMBDA k : Onlyif(k < tiles - 1, Known(PullBoth((k + 1) % 2, k + 1))) \o StoreBoth(k % 2, 0) \o Sync
                      \o HipRows(0, rows) \o Onlyif(k < tiles - 1, Sync), 0, tiles - 1, 1)

hip_sgemm_128x128(tiles) == HipTiles(8, tiles)
hip_hgemm_128x128_kpack2(tiles) == HipTiles(16, tiles)

(***************************************************************************)
(* sgemm64x64_wr.hip.cc: every wave has all of C, and its own part of the  *)
(* rows of each tile, which all waves load.  Their sums are then added,    *)
(* a quarter of C at a time, each wave adding up its part of the quarter.  *)
(***************************************************************************)

Parts(o, j, k, waves) == Chain(LAMBDA v : Known(PullTile(o, <<j, v>>, <<o, k, v>>)), 0, waves - 1, 1)
StoreParts(j, waves) ==
  Chain(LAMBDA v : StoreTile("A", <<j, v>>, v), 0, waves - 1, 1) \o Chain(LAMBDA v : StoreTile("B", <<j, v>>, v), 0, waves - 1, 1)

Everything(waves) == {"A", "B"} \X (0 .. waves - 1)

wave_wise_reduction(w, waves) ==
  Chain(LAMBDA i :
          <<Calc(<<"e">>, << Quarter(i % 2, i \div 2), <<"round", i>> >>)>>
          \o Chain(LAMBDA v : <<Store(<<"R", w, v>>, <<"e">>, Everything(waves))>>, 0, waves - 1, 1) \o Sync
          \o Chain(LAMBDA v : <<Read(<<"r", v>>, <<"R", v, w>>, 1)>>, 0, waves - 1, 1) \o Sync
          \o <<Add(<<"s", i>>, [v \in 1 .. waves |-> <<"r", v - 1>>])>>, 0, 3, 1)

sgemm_64x64_wr(w, waves, tiles) ==
  Parts("A", 0, 0, waves) \o Parts("B", 0, 0, waves)
  \o Chain(LAMBDA k :
       Onlyif(k < tiles - 1, Parts("A", (k + 1) % 2, k + 1, waves) \o Parts("B", (k + 1) % 2, k + 1, waves))
       \o StoreParts(k % 2, waves) \o Sync \o HipRows(w, 8) \o Sync, 0, tiles - 1, 1)
  \o wave_wise_reduction(w, waves)
  \o Chain(LAMBDA i : <<Store(<<"C", w, i>>, <<"s", i>>, {"R"} \X (0 .. waves - 1) \X (0 .. waves - 1))>>, 0, 3, 1) \o Sync
  \o Chain(LAMBDA n : <<Read(<<"gst">>, <<"C", n % waves, n \div waves>>, 1), Add(<<"dst">>, << <<"gst">> >>)>>,
           0, 4 * waves - 1, 1)

(***************************************************************************)
(* hgemm128x128.s: pulled, stored and read with nothing ahead.  No barrier *)
(* keeps the next tile from a buffer others may still read.                *)
(***************************************************************************)

hgemm128x128_kpack2(tiles) ==
  LET pull(o, k) == << [PullTile(o, 0, <<o, k>>)[1] EXCEPT !.count = 2] >>
  IN Chain(LAMBDA k : pull("A", k) \o pull("B", k) \o <<Vm(2)>> \o StoreTile("A", 0, 0) \o <<Vm(0)>> \o StoreTile("B", 0, 0)
                      \o WaitBarrier \o Chain(LAMBDA cnt : ReadRow(0, 0) \o <<Lgkm(0)>> \o Fma8x8(0), 0, 15, 1), 0, tiles - 1, 1)
     \o <<Bar>>

(***************************************************************************)
(* hgemm128x128.MAI.s: four rounds of matrix products, two for each half   *)
(* of a tile.  The next tile is stored during the last of them, again with *)
(* no barrier.                                                             *)
(***************************************************************************)

ReadAB(set, half) == ReadA(set, 0, half) \o ReadB(set, 0, half)
ReadBA(set, half) == ReadB(set, 1, half) \o ReadA(set, 1, half)
PullHalves(o, k) == PullTile(o, 0, <<o, k, 0>>) \o PullTile(o, 1, <<o, k, 1>>)
StoreHalf(o, half, left) == <<Vm(left)>> \o StoreTile(o, half, half)
Issue4x4(set, x, y, left) == <<Lgkm(left)>> \o Fma4x4(set, x, y)

Round0(k, hot) ==
  ReadAB(0, 0) \o ReadBA(0, 0) \o Issue4x4(0, 0, 0, 2) \o Onlyif(hot, PullHalves("A", k + 1) \o PullHalves("B", k + 1))
  \o Issue4x4(0, 0, 1, 1) \o ReadAB(1, 0) \o Issue4x4(0, 1, 0, 2) \o ReadBA(1, 0) \o Fma4x4(0, 1, 1)
Round1 ==
  Issue4x4(1, 0, 0, 2) \o ReadB(0, 0, 1) \o ReadA(0, 0, 1) \o Issue4x4(1, 0, 1, 3) \o ReadBA(0, 1)
  \o Issue4x4(1, 1, 0, 4) \o Fma4x4(1, 1, 1)
Round2 ==
  ReadAB(1, 1) \o Issue4x4(0, 0, 0, 4) \o ReadBA(1, 1) \o Issue4x4(0, 0, 1, 5) \o Issue4x4(0, 1, 0, 4) \o Fma4x4(0, 1, 1)
Round3(hot) ==
  Issue4x4(1, 0, 0, 2) \o Issue4x4(1, 0, 1, 1) \o Onlyif(hot, StoreHalf("A", 0, 3) \o StoreHalf("A", 1, 2))
  \o Issue4x4(1, 1, 0, IF hot THEN 2 ELSE 0) \o Onlyif(hot, StoreHalf("B", 0, 1) \o StoreHalf("B", 1, 0)) \o Fma4x4(1, 1, 1)

hgemm128x128_kpack4(tiles) ==
  PullHalves("A", 0) \o PullHalves("B", 0) \o <<Vm(2)>> \o StoreTile("A", 0, 0) \o StoreTile("A", 1, 1)
  \o <<Vm(0)>> \o StoreTile("B", 0, 0) \o StoreTile("B", 1, 1) \o WaitBarrier
  \o Chain(LAMBDA k : Round0(k, k < tiles - 1) \o Round1 \o Round2 \o Round3(k < tiles - 1) \o WaitBarrier, 0, tiles - 1, 1)

(***************************************************************************)
(* The end of all but the reduction: C goes through LDS a part of two      *)
(* quarters at a time, over what the wave's share of it overlaps.  settled *)
(* says that there is a barrier before what was read is used, closing that *)
(* there is one at the very end.                                           *)
(***************************************************************************)

Shuffled(w, waves, rounds, over, settled, closing) ==
  LET reads == 2 * waves
      y(r) == (2 * r) \div rounds
  IN Chain(LAMBDA r :
       Chain(LAMBDA x : <<Calc(<<"e", x>>, << Quarter(x, y(r)), <<"round", r>> >>), Store(<<"C", w, x>>, <<"e", x>>, over)>>, 0, 1, 1)
       \o WaitBarrier
       \o Chain(LAMBDA j : <<ByHand(Read(<<"gst", j>>, <<"C", j \div 2, j % 2>>, 1))>>, 0, reads - 1, 1)
       \o Onlyif(settled, WaitBarrier)
       \o Chain(LAMBDA j : <<Lgkm(reads - 1 - j), Add(<<"dst">>, << <<"gst", j>> >>)>>, 0, reads - 1, 1)
       \o Onlyif(closing \/ r < rounds - 1, <<Bar>>), 0, rounds - 1, 1)

(***************************************************************************)
(* What they are to compute, from the tiles' parts in the order of their   *)
(* use.                                                                    *)
(***************************************************************************)

Rounds == [r \in {"round"} \X (0 .. 3) |-> r[2]]
Sum(terms) == [terms |-> terms, max |-> 0]
Products(keys) == [n \in DOMAIN keys |-> << <<"A">> \o keys[n], <<"B">> \o keys[n] >>]

(* rows times each tile; each of its halves *)
RowSums(rows, tiles) == Products([n \in 1 .. rows * tiles |-> <<(n - 1) \div rows>>])
HalfSums(tiles) == Products([n \in 1 .. 4 * tiles |-> <<(n - 1) \div 4, ((n - 1) \div 2) % 2>>])
PartSums(w, tiles) == Products([n \in 1 .. 8 * tiles |-> <<(n - 1) \div 8, w>>])

QuarterSums(terms) == [q \in {"c"} \X Half \X Half |-> terms]
ShuffledSums(terms, waves, rounds) ==
  QuarterSums(terms) @@ (<<"dst">> :> [n \in 1 .. 2 * waves * rounds |-> << <<Sum(terms), (n - 1) \div (2 * waves)>> >>])
ReducedSums(w, waves, tiles) ==
  LET part(v, i) == <<Sum(PartSums(v, tiles)), i>>
      added(i) == << [v \in 1 .. waves |-> part(v - 1, i)] >>
  IN QuarterSums(PartSums(w, tiles)) @@ [s \in {"s"} \X (0 .. 3) |-> added(s[2])]
     @@ (<<"dst">> :> [n \in 1 .. 4 * waves |-> <<Sum(added((n - 1) \div waves))>>])

=============================================================================
