----------------------------- MODULE LaneLoops -----------------------------
(***************************************************************************)
(* Sorting, counting and summing across the lanes of a wave and across     *)
(* waves, as programs for WaveLds.  A wave of the code has 64 lanes; where *)
(* a program takes b, a wave has 2^b, and the other sizes follow.          *)
(***************************************************************************)
EXTENDS WaveIsa

LaneSet(b) == 0 .. 2^b - 1

(***************************************************************************)
(* warp_sort_bitonic.  Lane l of wave w has index w * 2^b + l.  A step     *)
(* compares with the lane at half the distance of its group; which of the  *)
(* two keeps the greater value depends on the bit of its index for that    *)
(* half and on the one, twiddle, that tells the direction of the group.    *)
(* Groups are given as exponents.                                          *)
(***************************************************************************)

Bit(i, e) == (i \div 2^e) % 2

warp_bitonic_merge_sort_step_(b, w, e, twiddle) ==
  LET index(l) == w * 2^b + l
  IN PickStage(IF e <= b THEN Swap(LaneSet(b), 2^(e - 1)) ELSE <<>>,
               [l \in LaneSet(b) |-> Bit(index(l), e - 1) = Bit(index(l), twiddle)])

(* Steps of groups of 2^first, 2^(first-1), ..., 2. *)
Steps(b, w, first, twiddle) ==
  [k \in 1 .. first |-> warp_bitonic_merge_sort_step_(b, w, first + 1 - k, twiddle)]

warp_bitonic_merge_sort_build(b, w, e) ==
  FlattenSeq([g \in 1 .. e - 1 |-> Steps(b, w, g, g)])
warp_bitonic_merge_sort_combine(b, w, e, twiddle) == Steps(b, w, e, twiddle)

(* A bit no index has. *)
Upwards == 12

warp_bitonic_merge_sort_to_reg(b) ==
  <<Lanes(<<"c">>, << <<"x">> >>, warp_bitonic_merge_sort_build(b, 0, b)),
    Lanes(<<"o">>, << <<"c">> >>, warp_bitonic_merge_sort_combine(b, 0, b, Upwards))>>

(* One value of every wave is exchanged through smem.  The waves meet in
   __syncthreads or, in the pyhip builds, at a bare s_barrier. *)
BareBarrier == <<Bar>>
Smem(w) == <<"smem", w>>
Give(w, r, meet) == <<Store(Smem(w), r, {})>> \o meet
Take(w, apart) == <<Read(<<"r">>, Smem(Flip(w, apart)), 1)>>
With(r) == <<r, <<"r">> >>

(* Groups of two waves and of four. *)
block_bitonic_merge_sort_to_reg2(b, w, meet) ==
  <<Lanes(<<"c">>, << <<"x">> >>, warp_bitonic_merge_sort_build(b, w, b + 1))>>
  \o Give(w, <<"c">>, meet) \o Take(w, 1)
  \o <<Lanes(<<"o">>, With(<<"c">>), warp_bitonic_merge_sort_combine(b, w, b + 1, Upwards))>>

block_bitonic_merge_sort_to_reg4(b, w, meet) ==
  <<Lanes(<<"c">>, << <<"x">> >>, warp_bitonic_merge_sort_build(b, w, b + 1))>>
  \o Give(w, <<"c">>, meet) \o Take(w, 1)
  \o <<Lanes(<<"o">>, With(<<"c">>),
             warp_bitonic_merge_sort_combine(b, w, b + 1, b + 1))>>
  \o meet \o Give(w, <<"o">>, meet) \o Take(w, 2)
  \o <<Lanes(<<"c">>, With(<<"o">>), <<warp_bitonic_merge_sort_step_(b, w, b + 2, Upwards)>>)>>
  \o meet \o Give(w, <<"c">>, meet) \o Take(w, 1)
  \o <<Lanes(<<"o">>, With(<<"c">>), warp_bitonic_merge_sort_combine(b, w, b + 1, Upwards))>>

bitonic_merge_sort_kernel(b, waves, w, input, meet) ==
  <<Pull(<<"x">>, [l \in LaneSet(b) |-> input[w * 2^b + l]], 1)>>
  \o (CASE waves = 1 -> warp_bitonic_merge_sort_to_reg(b)
        [] waves = 2 -> block_bitonic_merge_sort_to_reg2(b, w, meet)
        [] waves = 4 -> block_bitonic_merge_sort_to_reg4(b, w, meet))
  \o <<Add(<<"out">>, << <<"o">> >>)>>

(* Each wave's part of the input in descending order. *)
Descending(input) ==
  LET n == Cardinality(DOMAIN input)
      sorted == SortSeq([i \in 1 .. n |-> input[i - 1]], >)
  IN [i \in 0 .. n - 1 |-> sorted[i + 1]]
SortedPart(b, w, input) ==
  LET all == Descending(input) IN <<"out">> :> << <<[l \in LaneSet(b) |-> all[w * 2^b + l]]>> >>

(***************************************************************************)
(* warp_sort: odd-even merges across a group of 2^k lanes, after which     *)
(* lane 0 holds the whole group in descending order.  The wave's row is    *)
(* what is modelled; lanes behind the group hold the least value.          *)
(***************************************************************************)

Merges(unit) ==
  LET lanes == 0 .. Row - 1
  IN [n \in 1 .. 4 |-> MergeStage(<<Swap(lanes, 1), Swap(lanes, 2), Shl(lanes, 4, FromZero), Shl(lanes, 8, FromZero)>>[n], unit)]

Input(k, input) == <<Pull(<<"x">>, [l \in 0 .. Row - 1 |-> IF l < 2^k THEN <<input[l]>> ELSE <<-1>>], 1)>>
Merged(k, unit) == <<Lanes(<<"res">>, << <<"x">> >>, SubSeq(Merges(unit), 1, k)), OfLane(<<"sorted">>, <<"res">>, 0)>>
Sorted == <<Add(<<"out">>, << <<"sorted">> >>)>>

warp_merge_sort_to_reg(k, input) == Input(k, input) \o Merged(k, 1) \o Sorted

(* Stored by lane 0, read by all. *)
warp_merge_sort_to_smem(k, input) ==
  Input(k, input) \o Merged(k, 1)
  \o <<Store(Smem(0), <<"sorted">>, {})>> \o Sync \o <<Read(<<"sorted">>, Smem(0), 1)>> \o Sorted

(* A value and its argument are one number. *)
Tagged(input) == [l \in DOMAIN input |-> input[l] * Row + l]
warp_arg_merge_sort_to_reg(k, input) ==
  <<Pull(<<"x">>, [l \in 0 .. Row - 1 |-> IF l < 2^k THEN <<Tagged(input)[l]>> ELSE <<-Row>>], 1)>>
  \o Merged(k, Row) \o <<Unpack(<<"sorted">>, <<"sorted">>, Row)>> \o Sorted

(* The same in assembler, which is what is built unless asked otherwise: results
   are registers 0 to 15, temporary n is 20 + n, the input res1. *)
res1 == 40
Inline2 == << <<0, 1, res1, res1, 1>> >>
Inline4 ==
  << <<20, 21, res1, res1, 1>>, <<0>>, <<0, 22, 20, 20, 2>>, <<23, 3, 21, 21, 2>>, <<1, 2, 22, 23, Stay>> >>
Inline8 ==
  << <<20, 21, res1, res1, 1>>, <<0>>, <<31, 22, 20, 20, 2>>, <<23, 30, 21, 21, 2>>, <<29, 28, 22, 23, Stay>>,
     <<0, 20, 31, 31, 4>>, <<21, 22, 29, 29, 4>>, <<23, 24, 28, 28, 4>>, <<25, 7, 30, 30, 4>>,
     <<26, 27, 23, 20, Stay>>, <<28, 29, 25, 22, Stay>>, <<1, 2, 21, 26, Stay>>, <<3, 4, 28, 27, Stay>>,
     <<5, 6, 29, 24, Stay>> >>
Inline16 ==
  << <<20, 21, res1, res1, 1>>, <<0>>, <<15, 22, 20, 20, 2>>, <<23, 14, 21, 21, 2>>, <<29, 28, 22, 23, Stay>>,
     <<1, 20, 15, 15, 4>>, <<21, 22, 29, 29, 4>>, <<23, 24, 28, 28, 4>>, <<25, 8, 14, 14, 4>>,
     <<26, 27, 23, 20, Stay>>, <<28, 29, 25, 22, Stay>>, <<2, 3, 21, 26, Stay>>, <<4, 5, 28, 27, Stay>>,
     <<6, 7, 29, 24, Stay>>,
     <<0, 9, 1, 1, 8>>, <<10, 11, 2, 2, 8>>, <<12, 13, 3, 3, 8>>, <<14, 29, 4, 4, 8>>,
     <<1, 2, 5, 5, 8>>, <<3, 4, 6, 6, 8>>, <<5, 20, 7, 7, 8>>, <<21, 15, 8, 8, 8>>,
     <<22, 23, 1, 9, Stay>>, <<24, 25, 3, 11, Stay>>, <<26, 27, 5, 13, Stay>>, <<28, 29, 21, 29, Stay>>,
     <<8, 9, 12, 22, Stay>>, <<11, 12, 14, 24, Stay>>, <<13, 14, 26, 23, Stay>>, <<21, 22, 28, 25, Stay>>,
     <<23, 24, 27, 2, Stay>>, <<25, 26, 29, 4, Stay>>,
     <<1, 2, 10, 8, Stay>>, <<3, 4, 11, 9, Stay>>, <<5, 6, 12, 13, Stay>>, <<7, 8, 21, 14, Stay>>,
     <<9, 10, 22, 23, Stay>>, <<11, 12, 25, 24, Stay>>, <<13, 14, 26, 20, Stay>> >>
Inline(k) == <<Inline2, Inline4, Inline8, Inline16>>[k]

InlineSort(k, input) ==
  LET net == <<"net">>
      part(n) == <<Network(net, SubSeq(Inline(k), n, Min({n + 8, Len(Inline(k))})))>>
  IN Input(k, input) \o <<Feed(net, <<"x">>, res1)>> \o Chain(part, 1, Len(Inline(k)), 9)
     \o <<Unload(<<"sorted">>, net, 2^k, 0)>> \o Sorted

InOrder(input) == LET all == Descending(input) IN [i \in 1 .. Cardinality(DOMAIN input) |-> all[i - 1]]
MergedSum(input) == <<"out">> :> << <<InOrder(input)>> >>
ArgSum(input) ==
  <<"out">> :> << << <<InOrder(input), [x \in Range(input) |-> {l \in DOMAIN input : input[l] = x}]>> >> >>

(***************************************************************************)
(* wave_reduce_dpp: the sum of all lanes, and of all up to each lane.      *)
(***************************************************************************)

Whole64 == 0 .. 63
RowBcast(last, outside) == [l \in Whole64 |-> IF l > last THEN last ELSE outside]
BehindRow(first, back, outside) == [l \in Whole64 |-> IF l >= first THEN Row * (l \div Row) - back ELSE outside]

wave_reduce ==
  [n \in 1 .. 6 |-> SumStage(
     << Swap(Whole64, 1), Swap(Whole64, 2), Shr(Whole64, 4, FromAnywhere), Shr(Whole64, 8, FromAnywhere),
        BehindRow(16, 1, FromAnywhere), RowBcast(31, FromAnywhere) >>[n])]
wave_cumsum ==
  [n \in 1 .. 6 |-> SumStage(
     << Shr(Whole64, 1, FromZero), Shr(Whole64, 2, FromZero), Shr(Whole64, 4, FromZero), Shr(Whole64, 8, FromZero),
        BehindRow(16, 1, FromZero), BehindRow(32, 17, FromZero) >>[n])]

LoadLanes == <<Pull(<<"v">>, [l \in Whole64 |-> [k \in Whole64 |-> IF k = l THEN 1 ELSE 0]], 1)>>
wave_reduce_kernel ==
  LoadLanes \o <<Lanes(<<"v">>, << <<"v">> >>, wave_reduce), OfLane(<<"r">>, <<"v">>, 63), Add(<<"out">>, << <<"r">> >>)>>
wave_reduce_cumsum_kernel == LoadLanes \o <<Lanes(<<"v">>, << <<"v">> >>, wave_cumsum), Add(<<"out">>, << <<"v">> >>)>>

SumTo(last) == [k \in Whole64 |-> IF k <= last THEN 1 ELSE 0]
WholeSum == <<"out">> :> << <<SumTo(63)>> >>
RunningSums == <<"out">> :> << <<[l \in Whole64 |-> SumTo(l)]>> >>

(***************************************************************************)
(* magic_div: quotients and remainders of a wave's numbers, one load after *)
(* the other, by a divisor whose factor and shift come from the host.      *)
(***************************************************************************)

mdiv_u32_vs(bits) ==
  <<U32("mul_hi", <<"tmp">>, <<"magic">>, <<"numer">>, bits), U32("add", <<"tmp">>, <<"tmp">>, <<"numer">>, bits),
    U32("lshr", <<"quot">>, <<"tmp">>, <<"shift">>, bits)>>
mdiv_u32_rem_vs(bits) ==
  mdiv_u32_vs(bits)
  \o <<U32("mul_lo", <<"tmp">>, <<"denom">>, <<"quot">>, bits), U32("sub", <<"rem">>, <<"numer">>, <<"tmp">>, bits)>>

Numbers(round) == [l \in Whole64 |-> round * 64 + l]

magic_div(d, bits, rounds) ==
  LET m == magic_div_u32_gen(d, bits)
      argument(r, x) == PullScalar(<<r>>, [l \in Whole64 |-> x], 1)
  IN <<argument("denom", d), argument("magic", m.magic), argument("shift", m.shift), Lgkm(0)>>
     \o Chain(LAMBDA k : <<ByHand(Pull(<<"numer">>, Numbers(k), 1)), Vm(0)>> \o mdiv_u32_rem_vs(bits)
                         \o <<Add(<<"quots">>, << <<"quot">> >>), Add(<<"rems">>, << <<"rem">> >>)>>,
              0, rounds - 1, 1)

DivisionSums(d, rounds) ==
  LET all(f(_)) == [k \in 1 .. rounds |-> << [l \in Whole64 |-> f(Numbers(k - 1)[l])] >>]
  IN <<"quots">> :> all(LAMBDA n : n \div d) @@ <<"rems">> :> all(LAMBDA n : n % d)

(***************************************************************************)
(* warp_histogram.  A wave counts a block of values in its scratch part of *)
(* smem; the counts of all waves are then added through the same memory,   *)
(* where they overlap the scratch of wave 0.  block[i, w] are the values   *)
(* of wave w in the row's i-th block.                                      *)
(***************************************************************************)

Scratch(w) == <<"scratch", w>>
Final(w) == <<"final", w>>
Finals(waves) == {Final(v) : v \in 0 .. waves - 1}

warp_histogram_step(w, value, buckets, group, waves) ==
  <<Tally(<<"count">>, value, buckets, group),
    Store(Scratch(w), <<"count">>, IF w = 0 THEN Finals(waves) ELSE {}), Lgkm(0),
    Read(<<"r">>, Scratch(w), 1), Popcount(<<"c">>, <<"r">>), Add(<<"cnt">>, << <<"c">> >>)>>

Value(buf) == <<"value", buf>>
Block(buf, i, w, block) == <<Pull(Value(buf), block[i, w], 1)>>

(* A row block after block; the kernel of one wave serves the short rows. *)
CountRow(w, block, blocks, buckets, group, waves) ==
  Chain(LAMBDA i : Block(0, i, w, block) \o warp_histogram_step(w, Value(0), buckets, group, waves), 0, blocks - 1, 1)

(* With 256 buckets, one block ahead. *)
CountRowAhead(w, block, blocks, buckets, group, waves) ==
  LET step(buf) == warp_histogram_step(w, Value(buf), buckets, group, waves)
      loops == blocks \div 2
  IN Block(0, 0, w, block)
     \o Chain(LAMBDA i : Block(1, 2 * i - 1, w, block) \o step(0) \o Block(0, 2 * i, w, block) \o step(1),
              1, loops - 1, 1)
     \o Block(1, 2 * loops - 1, w, block) \o step(0) \o step(1)

(* The counts of all waves. *)
AddWaves(w, waves) ==
  Sync \o <<Store(Final(w), <<"cnt">>, {Scratch(0)})>> \o Sync
  \o Onlyif(w = 0, [v \in 1 .. waves |-> Read(<<"c", v>>, Final(v - 1), 1)]
                   \o <<Add(<<"o">>, [v \in 1 .. waves |-> <<"c", v>>])>>)

warp_histogram_kernel(block, blocks, buckets, group) == CountRow(0, block, blocks, buckets, group, 1)
block_histogram_kernel64(w, block, blocks, buckets, group, waves) ==
  CountRow(w, block, blocks, buckets, group, waves) \o AddWaves(w, waves)
block_histogram_kernel256(w, block, blocks, buckets, group, waves) ==
  CountRowAhead(w, block, blocks, buckets, group, waves) \o AddWaves(w, waves)

Histogram(values, buckets) == [k \in buckets |-> Cardinality({l \in DOMAIN values : values[l] = k})]
RowCounts(w, block, blocks, buckets) == [i \in 1 .. blocks |-> <<Histogram(block[i - 1, w], buckets)>>]
CountSums(w, block, blocks, buckets, waves) ==
  LET counts(v) == RowCounts(v, block, blocks, buckets)
  IN <<"cnt">> :> counts(w)
     @@ Onlyif(w = 0, <<"o">> :> << [v \in 1 .. waves |-> [terms |-> counts(v - 1), max |-> 0]] >>)

=============================================================================
