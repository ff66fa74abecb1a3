----------------------------- MODULE MCWaveLds -----------------------------
(***************************************************************************)
(* Kernels for WaveLds.                                                    *)
(***************************************************************************)
EXTENDS WaveLds, Outlining, Schedule, GemmLoops, AttnLoops, BufferLoops, LaneLoops, MfmaLoops, AsmLoops, MlaLoops,
        MatrixCore, MCTileOrder

Never == 1000

(* Loads into these slots land within n barriers; and none does. *)
Within(n, slots) == [barriers |-> n, of |-> slots]
AnyTime == Within(Never, {})

(* Loads land in order, nothing is assumed of when they and reads are done, and
   no launch is looked at. *)
Unlimited == [ordered |-> TRUE, latency |-> AnyTime, reads |-> Never, swift |-> FALSE, launch |-> {}]

(* A wave of kind a and one of kind b: what code and want say of a kind. *)
Pair(a, b, code(_), want(_), more, latency) ==
  LET both(f(_)) == [w \in {0, 1} |-> f(IF w = 0 THEN a ELSE b)]
  IN [code |-> both(code), want |-> both(want), latency |-> latency,
      start |-> both(LAMBDA k : [r \in DOMAIN want(k) |-> Zero] @@ more)] @@ Unlimited

(* All pairs of these kinds. *)
Side(kinds, code(_), want(_), more, latency) ==
  {Pair(kinds[x[1]], kinds[x[2]], code, want, more, latency) :
     x \in {y \in (DOMAIN kinds) \X (DOMAIN kinds) : y[1] <= y[2]}}

Gemm(code(_), want(_), latency) == Side(<<0, 1>>, code, want, <<>>, latency)

Launched(programs, shapes) == {[p EXCEPT !.launch = shapes] : p \in programs}

(* The waves of a causal block of queries reach its diagonal in different
   tiles, two of them in each. *)
Causal(max) == << <<0, max - 4>>, <<0, max - 3>>, <<1, max - 2>>, <<1, max - 1>> >>
Dense == << <<0, Unmasked>>, <<1, Unmasked>> >>

Attention(kinds, code(_), max, latency) ==
  Side(kinds, code, LAMBDA k : <<"l">> :> RowSum(max, k[2]) @@ <<"o">> :> Output(max, k[2]),
       <<"m">> :> 0, latency)

(***************************************************************************)
(* The kernels as written.                                                 *)
(***************************************************************************)

Monos ==
  Launched(UNION {Gemm(LAMBDA g : Mono(g, n), LAMBDA g : MonoSums(g, n), AnyTime) : n \in {2, 4, 6, 8}},
           ColumnShapes)

(* The loop reads the first quarter of B a barrier before the wait for it.  With two
   tiles it is not run. *)
FirstOfB == Within(6, {<<"B", 0, 0>>, <<"B", 1, 0>>})

Quads(n, latency) ==
  Launched(Gemm(LAMBDA g : Quad(g, n), LAMBDA g : QuadSums(g, n), latency), ColumnShapes)
  \cup UNION {Gemm(LAMBDA g : Sharded(g, x[1], n, x[2], x[3]), LAMBDA g : QuadSums(g, x[1] * n), latency) :
               x \in {2, 3} \X {0, 4} \X BOOLEAN}

OtherQuads ==
  Launched(Gemm(LAMBDA g : GemmA2AQuad(g, 2), LAMBDA g : QuadSums(g, 2), AnyTime), GemmA2AShapes)
  \cup Launched(Gemm(LAMBDA g : Fp8EightWave(g, 2), LAMBDA g : QuadSums(g, 2), AnyTime), RowShapes)
  \cup Launched(Gemm(LAMBDA g : Sharded(g, 2, 2, 0, FALSE), LAMBDA g : QuadSums(g, 4), AnyTime), A2AGemmShapes)

(* Stores that are not waited for are done one barrier later. *)
Prompt(programs) == {[p EXCEPT !.reads = 1] : p \in programs}
Stored(lengths) ==
  UNION {Launched(Gemm(LAMBDA g : FlatmmStored(g, n), LAMBDA g : FlatmmSums(n), AnyTime), ColumnShapes) : n \in lengths}

(* With two tiles nothing has been waited for when the tail begins. *)
SecondOfA == Within(5, {<<"A", 1, 1>>})
Blockscales(lengths, latency) ==
  Launched(UNION {Gemm(LAMBDA g : Blockscale(g, n), LAMBDA g : ScaledSums(g, n), latency) : n \in lengths}, RowShapes)

Attentions ==
  UNION {Attention(Causal(n), LAMBDA k : D128(k, n), n, AnyTime) : n \in {4, 8}}
  \cup Attention(Dense, LAMBDA k : D128(k, 8), 8, AnyTime)

(* The last tile but one of V is not waited for. *)
LastButOneOfV == Within(2, {VSlot(0)})
WideAttention(kinds, n) == Attention(kinds, LAMBDA k : D512(k, n), n, LastButOneOfV)
WideAttentions == WideAttention(Causal(4), 4) \cup WideAttention(Causal(6), 6) \cup WideAttention(Dense, 6)

Prefill(lengths) ==
  UNION {Side(<<0, 1>>, LAMBDA g : pa_prefill(g, n, TRUE), LAMBDA g : PagedSums(n, TRUE), <<"m">> :> 0, AnyTime) :
           n \in lengths}

(* One wave; or two with different parts. *)
Alone(code, want) ==
  [code |-> [w \in {0} |-> code], want |-> [w \in {0} |-> want],
   start |-> [w \in {0} |-> [r \in DOMAIN want |-> Zero]]] @@ Unlimited

Across(code(_), want(_)) == Pair(0, 1, code, want, <<>>, AnyTime)

Reductions ==
  {Alone(reduce_n2(rows), ReduceSums(rows)) : rows \in 4 .. 7}
  \cup {Alone(reduce_n3(rows), ReduceSums(rows)) : rows \in 4 .. 9}

(* Waves 0 to 3 produce, 4 to 7 consume. *)
PingPong(producer(_, _), consumer(_, _), steps, slabs) ==
  LET sums(w) == IF w < 4 THEN <<>> ELSE PingPongSums((w % 4) \div 2, w % 2, steps, slabs)
  IN [code |-> [w \in Wave |-> CASE w < 2 -> producer("A", w)
                                 [] w \in {2, 3} -> producer("B", w - 2)
                                 [] OTHER -> consumer((w % 4) \div 2, w % 2)],
      want |-> [w \in Wave |-> sums(w)],
      start |-> [w \in Wave |-> [r \in DOMAIN sums(w) |-> Zero]]] @@ Unlimited

PingPongs ==
  {PingPong(Producer1, LAMBDA m, n : Consumer1(m, n, 2), 1, 2),
   PingPong(LAMBDA op, h : Producer(op, h, 2), LAMBDA m, n : Consumer(m, n, 1, 2, 1), 2, 1)}
  \cup {PingPong(LAMBDA op, h : Producer2(op, h, k), LAMBDA m, n : Consumer(m, n, 2, k, 1), k, 1) : k \in {1, 3}}

SingleWaves ==
  {Alone(tcopy, PingPongSums(0, 0, 1, 1)), Alone(tcopy_pad, PingPongSums(0, 0, 1, 4))}
  \cup {Across(LAMBDA g : gfx942(g, 3), LAMBDA g : Gfx942Sums(3))}

Copies ==
  {Across(LAMBDA g : memcpy_stream_async(g, 3), LAMBDA g : CopySums(g, 3)),
   Alone(memcpy_persistent(4, 2), PersistentSums(4, 2))}

Waves(n, code(_), want(_)) ==
  [code |-> [w \in 0 .. n - 1 |-> code(w)], want |-> [w \in 0 .. n - 1 |-> want(w)],
   start |-> [w \in 0 .. n - 1 |-> [r \in DOMAIN want(w) |-> Zero]]] @@ Unlimited

(* Latent attention: no maximum to start with.  Tiles of tokens and of none. *)
Latents(waves, code(_), want(_)) ==
  [Waves(waves, code, want) EXCEPT
     !.start = [w \in DOMAIN @ |-> [r \in DOMAIN @[w] |-> IF r = <<"queries">> THEN Zero ELSE [Zero EXCEPT !.max = Lowest]]
                                  @@ <<"m">> :> Lowest],
     !.launch = TokenShapes]
Lists(n) == {[t \in 1 .. n |-> IF t \in present THEN <<"tokens", t>> ELSE Missing] : present \in SUBSET (1 .. n)}
Combined(parts) == {Latents(1, LAMBDA w : flash_mla_sparse_combine_kernel(p), LAMBDA w : CombinedSums(p)) : p \in parts}

Mlas ==
  {Latents(1, LAMBDA w : flash_mla_decode_kernel(n, TRUE), LAMBDA w : DenseSums(n, TRUE)) : n \in {0, 2}}
  \cup {Latents(1, LAMBDA w : flash_mla_sparse_decode_kernel(l), LAMBDA w : SparseSums(0, l)) : l \in {<<>>} \cup Lists(3)}
  \cup {Latents(2, LAMBDA w : flash_mla_sparse_decode_splitk_kernel(w, l), LAMBDA w : SparseSums(w, l)) : l \in {<<>>} \cup Lists(2)}
  \cup Combined(Lists(3) \ {<<Missing, Missing, Missing>>})

(* Waves 0 and 2 produce, 1 and 3 consume.  On an edge some of the loads are out of
   range, and those do not wait for their turn. *)
SplitK(edge, loops) ==
  [Waves(4, LAMBDA w : IF w % 2 = 0 THEN SplitKProducer(edge, loops) ELSE SplitKConsumer(loops),
            LAMBDA w : IF w % 2 = 0 THEN <<>> ELSE SplitKSums(loops))
   EXCEPT !.ordered = ~ edge, !.reads = 1, !.launch = SplitShapes]

SplitKs == {SplitK(edge, n) : edge \in BOOLEAN, n \in 4 .. 7}

(* The traits hgemm_mfma_invoker.hpp offers, for eight columns of tiles and two
   slices, or four of half the size; A is loaded with two issues and B with four. *)
Tile(traits, k, clears) == [traits |-> traits, n |-> 8, k |-> k, loads |-> [X |-> 2, Y |-> 4], clears |-> clears]
BothInLds == Tile(Traits(TRUE, 5, 15, 1, 2, 4, 2, 2, 1, 6, FALSE), 2, FALSE)
HalfSlices == Tile(Traits(TRUE, 13, 31, 1, 2, 4, 2, 2, 1, 10, FALSE), 4, FALSE)
AFirst == Tile(Traits(TRUE, 3, 15, 1, 2, 4, 2, 2, 1, 4, FALSE), 2, FALSE)
BFirst == Tile(Traits(FALSE, 5, 15, 1, 2, 4, 2, 2, 1, 2, FALSE), 2, FALSE)
Prio(xFirst) == Tile(Traits(xFirst, 0, 0, 1, 0, 0, 1, 1, 0, 0, TRUE), 2, FALSE)
Default == Tile(Traits(FALSE, 0, 0, 1, 0, 0, 1, 1, 0, 0, FALSE), 2, FALSE)

(* Waves of both halves of A, with the epilogue. *)
Mfma(code(_), want(_), c) ==
  Launched({Pair(0, 1, LAMBDA g : code(g) \o Shuffle(c, g, 2), LAMBDA g : want(g) @@ ShuffleSums(c, want, 2), <<>>, AnyTime)},
           GroupedShapes)

Flats(configs, lengths) ==
  UNION {Mfma(LAMBDA g : Flat(c, g, n), LAMBDA g : FlatSums(c, g, n), c) : c \in configs, n \in lengths}
OneSides(configs, lengths) ==
  UNION {Mfma(LAMBDA g : OneSide(c, n), LAMBDA g : OneSideSums(c, n), c) : c \in configs, n \in lengths}

Mfmas ==
  Flats({BothInLds, Prio(TRUE), Default}, {1, 3}) \cup Flats({HalfSlices}, {2})
  \cup OneSides({AFirst, Prio(FALSE), Default}, {2, 3})

(* One wave, or one of either wave_q; the part of LDS it writes C to overlaps
   over[w]. *)
Asm(waves, main, terms, rounds, over, settled, closing) ==
  Waves(waves, LAMBDA w : main \o Shuffled(w, waves, rounds, over[w], settled, closing),
               LAMBDA w : ShuffledSums(terms, waves, rounds))
AsmMain(main, terms) == Waves(2, LAMBDA w : main, LAMBDA w : QuarterSums(terms))
Prepared(p) == [p EXCEPT !.start = [w \in DOMAIN @ |-> @[w] @@ Rounds], !.launch = ColumnShapes]

Buf0 == {<<"A", 0>>, <<"B", 0>>}
Buf1 == {<<"A", 1>>, <<"B", 1>>}
Lower == [w \in Half |-> IF w = 0 THEN Buf0 ELSE {}]
Apart == [w \in Half |-> IF w = 0 THEN Buf0 ELSE Buf1]
OverA == [w \in Half |-> {<<"A", 0>>, <<"A", 1>>}]

V1(rows) == Asm(2, sgemm128x128(rows, 2), RowSums(8, 2), 4, Lower, FALSE, TRUE)
V3(waves, tiles) == Asm(waves, sgemm128x128_v3(tiles), RowSums(8, tiles), 4, Apart, FALSE, FALSE)
V3Main(tiles) == AsmMain(sgemm128x128_cov3_v3(tiles), RowSums(8, tiles))
Sgemm(waves, tiles) == Asm(waves, hip_sgemm_128x128(tiles), RowSums(8, tiles), 4, Lower, FALSE, TRUE)
Hgemm(waves, tiles) == Asm(waves, hip_hgemm_128x128_kpack2(tiles), RowSums(16, tiles), 4, OverA, FALSE, TRUE)
Kpack2(waves, tiles) == Asm(waves, hgemm128x128_kpack2(tiles), RowSums(16, tiles), 4, OverA, TRUE, FALSE)
Kpack4(waves, tiles) == Asm(waves, hgemm128x128_kpack4(tiles), HalfSums(tiles), 2, OverA, TRUE, FALSE)
Swift(programs) == {[p EXCEPT !.swift = TRUE] : p \in programs}

(* Where nothing keeps the waves apart, one wave; and both as far as they are. *)
SwiftAsms == {Prepared(p) : p \in Swift({V3(1, 2), V3(1, 4), V3Main(4)})}
Asms ==
  {Prepared(p) : p \in
     {V1(RowAhead), V1(ReadAhead)}
     \cup {Sgemm(1, 3), AsmMain(hip_sgemm_128x128(3), RowSums(8, 3)), Hgemm(1, 2)}
     \cup {Kpack2(1, 2), Kpack4(1, 3), Kpack4(2, 1)}
     \cup {Waves(2, LAMBDA w : sgemm_64x64_wr(w, 2, n), LAMBDA w : ReducedSums(w, 2, n)) : n \in 1 .. 2}}

(* Every input of zeroes and ones: a network that sorts these sorts all. *)
Bits(n) == [0 .. n - 1 -> {0, 1}]

(* Zeroes followed by ones; and two halves of ones followed by zeroes. *)
Rising(n) == {[i \in 0 .. n - 1 |-> IF i < z THEN 0 ELSE 1] : z \in 0 .. n}
Ones(n) == {[i \in 0 .. n - 1 |-> IF i < o THEN 1 ELSE 0] : o \in 0 .. n}
Halves(n) == {[i \in 0 .. 2 * n - 1 |-> IF i < o[1] \/ i - n \in 0 .. o[2] - 1 THEN 1 ELSE 0] : o \in (0 .. n) \X (0 .. n)}

BitonicSort(b, waves, inputs, meet) ==
  {Waves(waves, LAMBDA w : bitonic_merge_sort_kernel(b, waves, w, x, meet), LAMBDA w : SortedPart(b, w, x)) : x \in inputs}
Beside(x, y) == [i \in 0 .. 15 |-> IF i < 8 THEN x[i] ELSE y[i - 8]]

MergeSort(k, inputs) ==
  UNION {{Alone(code, MergedSum(x)) : code \in {warp_merge_sort_to_reg(k, x), InlineSort(k, x)}} : x \in inputs}
MergeSortSmem(k, inputs) == {Alone(warp_merge_sort_to_smem(k, x), MergedSum(x)) : x \in inputs}
ArgSort(k, inputs) == {Alone(warp_arg_merge_sort_to_reg(k, x), ArgSum(x)) : x \in inputs}

Sorts ==
  BitonicSort(3, 1, Bits(8), Sync) \cup BitonicSort(2, 2, Bits(8), Sync)
  \cup BitonicSort(0, 4, Bits(4), Sync) \cup BitonicSort(1, 4, Rising(8), Sync)
  \cup UNION {MergeSort(k, Bits(2^k)) : k \in 1 .. 3} \cup MergeSort(4, Halves(8))
  \cup {Alone(InlineSort(4, x), MergedSum(x)) : x \in {Beside(y, z) : y \in Bits(8), z \in Ones(8)}}
  \cup MergeSortSmem(2, Bits(4)) \cup MergeSortSmem(4, Halves(8))
  \cup ArgSort(2, Bits(4)) \cup ArgSort(3, Bits(8)) \cup ArgSort(4, Halves(8))

(* Blocks of eight values in which lanes of a group agree in threes, in pairs and
   not at all. *)
Agree == [i \in -1 .. 2, w \in 0 .. 1 |-> [l \in 0 .. 7 |-> << <<0, 0, 0, 3, 1, 2, 1, 1>>, <<5, 4, 5, 5, 0, 7, 7, 0>> >>[((i + w) % 2) + 1][l + 1]]]
Counts(code(_, _, _, _, _, _), blocks) ==
  Waves(2, LAMBDA w : code(w, Agree, blocks, 0 .. 7, 4, 2), LAMBDA w : CountSums(w, Agree, blocks, 0 .. 7, 2))
Histograms ==
  {Alone(warp_histogram_kernel(Agree, 3, 0 .. 7, 4), <<"cnt">> :> RowCounts(0, Agree, 3, 0 .. 7)),
   Counts(block_histogram_kernel64, 1), Counts(block_histogram_kernel64, 2), Counts(block_histogram_kernel256, 2)}

Sums == {Alone(wave_reduce_kernel, WholeSum), Alone(wave_reduce_cumsum_kernel, RunningSums)}

(* Every divisor and every number that leave the highest bit of a byte free. *)
Divisions == {Alone(magic_div(d, 8, 2), DivisionSums(d, 2)) : d \in 1 .. 127}

(* Prefix and extension, in tiles. *)
Pageds == Prefill({<<1, 2>>, <<3, 4>>, <<6, 0>>})

MatrixCores ==
  {Alone(code, ProductSum(1)) :
     code \in {matrix_core_kernel_standard, matrix_core_kernel_standard_agpr, matrix_core_kernel_swap_a_b,
               matrix_core_kernel_swap_swb}}
  \cup {Alone(matrix_core_kernel_loop(3, 2), ProductSum(6))}

Outlinable ==
  Histograms \cup Sums \cup Divisions \cup Monos \cup Quads(2, AnyTime) \cup OtherQuads \cup Blockscales({4, 6}, AnyTime) \cup Attentions \cup Pageds
  \cup Mfmas \cup Asms \cup Mlas \cup Reductions \cup SingleWaves \cup Copies \cup MatrixCores

(* Kernels that use a slot without having waited for it, and are right if loads into
   the slots named land, or reads and stores of LDS are done, within so many
   barriers, or reads within the next product. *)
Timed ==
  Quads(4, FirstOfB) \cup Blockscales({2}, SecondOfA) \cup WideAttentions \cup SplitKs \cup Prompt(Stored(1 .. 3)) \cup SwiftAsms

(* All others are right whatever time loads and reads take. *)
Kernels == Sorts \cup PingPongs \cup Outlinable \cup Timed

(* Loads that do not land in order go to LDS, by names that are there at once: so
   nothing but a wait for all of them is needed. *)
InTurn(p) ==
  \/ p.ordered
  \/ \A w \in DOMAIN p.code : \A i \in ToSet(p.code[w]) :
       i.op # "pull" /\ (i.op = "fetch" => i.from = <<>>)

(* What the theorems about WaveLds ask of programs and launches.  (That the waves go
   through as many barriers is what a run of EndsClean tells.) *)
ASSUME KernelsAssumption ==
  \A p \in Kernels :
    /\ InTurn(p)
    /\ \A w \in DOMAIN p.code : Executable(p.code[w]) /\ Drained(p.code[w])
    /\ \A s \in p.launch : Suits(s)

(* Whole workgroups, in place of one wave of a kind, and more tiles than can be gone
   through step by step. *)
Workgroup(kind(_), code(_), want(_), more, latency) ==
  [Waves(8, LAMBDA w : code(kind(w)), LAMBDA w : want(kind(w))) EXCEPT
     !.start = [w \in Wave |-> @[w] @@ more], !.latency = latency]
Group(w) == w \div 4
AttentionOf(kinds, code(_), max, latency) ==
  Workgroup(LAMBDA w : kinds[(w * Len(kinds)) \div 8 + 1], code,
            LAMBDA k : <<"l">> :> RowSum(max, k[2]) @@ <<"o">> :> Output(max, k[2]), <<"m">> :> 0, latency)

Workgroups ==
  {Workgroup(Group, LAMBDA g : Mono(g, n), LAMBDA g : MonoSums(g, n), <<>>, AnyTime) : n \in {2, 8, 16}}
  \cup {Workgroup(Group, LAMBDA g : Quad(g, n), LAMBDA g : QuadSums(g, n), <<>>, FirstOfB) : n \in {2, 8}}
  \cup {Workgroup(Group, LAMBDA g : Sharded(g, 3, 2, 4, TRUE), LAMBDA g : QuadSums(g, 6), <<>>, FirstOfB)}
  \cup {Workgroup(Group, LAMBDA g : Blockscale(g, 6), LAMBDA g : ScaledSums(g, 6), <<>>, AnyTime)}
  \cup {AttentionOf(Causal(n), LAMBDA k : D128(k, n), n, AnyTime) : n \in {4, 12}}
  \cup {AttentionOf(Dense, LAMBDA k : D128(k, 12), 12, AnyTime)}
  \cup {AttentionOf(Causal(6), LAMBDA k : D512(k, 6), 6, LastButOneOfV), AttentionOf(Dense, LAMBDA k : D512(k, 8), 8, LastButOneOfV)}

(* Sorts in which waves exchange values. *)
Exchanges ==
  BitonicSort(0, 4, Bits(4), Sync) \cup BitonicSort(1, 4, Rising(8), Sync) \cup BitonicSort(2, 2, Rising(8), Sync)
  \cup MergeSortSmem(2, Bits(4)) \cup ArgSort(2, Bits(4))

(* What SumsAreRight asks of programs. *)
ASSUME OutlinesAssumption ==
  \A p \in Outlinable \cup Timed \cup Workgroups \cup Exchanges : LET o == Outline(p) IN Proves(o, p)

(***************************************************************************)
(* Kernels that go wrong.  OddBlocks has a run; in place of Kernels in     *)
(* lds.cfg each of these sets shows how.                                   *)
(***************************************************************************)

OddBlocks == {Counts(block_histogram_kernel256, n) : n \in {1, 3}}

(* The tail waits for one load too few. *)
LongLoad == UNION {Gemm(LAMBDA g : Blockscale1x128x1(g, n), LAMBDA g : ScaledSums(g, n), AnyTime) : n \in {2, 4}}

Crossed == {Across(LAMBDA g : reduce_fp32_n2(g, rows), LAMBDA g : ReduceSums(rows)) : rows \in {4, 6}}

(* A barrier says nothing of the stores before it. *)
BareBarriers == BitonicSort(2, 2, Rising(8), BareBarrier)

(* No valid token in any split. *)
Lonely == Combined({<<Missing, Missing>>})

(* Numbers with the highest bit. *)
HighBit == {Alone(magic_div(d, 8, 4), DivisionSums(d, 4)) : d \in {3, 7, 100}}

(* The remainder by three is taken as rows & 2. *)
WrongRemainders == {Alone(reduce_n3_rolled(rows), ReduceSums(rows)) : rows \in {4, 5, 6, 7, 8, 10, 13}}

(* The tile the others read two clusters on. *)
LateStores == Stored({2})

(* A's last tile is not waited for; it is cleared before use. *)
TailOfA == OneSides({BFirst}, {1, 2})
OtherSlots(slots, c) == [c EXCEPT !.traits.other = slots]
Clearing(c) == [c EXCEPT !.clears = TRUE]
ClearedA == OneSides({Clearing(AFirst)}, {1, 2})

(* A prefix of one tile more than a multiple of four, then an extension. *)
Switched == Prefill({<<5, 1>>, <<9, 3>>})

(* Splits shorter than the pipeline is deep. *)
ShortSplit == {SplitK(FALSE, n) : n \in {2, 3}}

(* Rows 3 and 5 are used before they are there; C is written over a tile that
   others still read, and the next tile over this one. *)
Unwaited == {Prepared(V3Main(2))}
Unfenced(n) == {Prepared(<<Sgemm(2, 1), Hgemm(2, 1), [V3(2, 2) EXCEPT !.swift = TRUE], Kpack2(2, 2), Kpack4(2, 2)>>[n])}

(* Kernels of Timed whose loads, reads and stores take a barrier longer than
   assumed. *)
Slower(programs) == {[p EXCEPT !.latency.barriers = @ + 1, !.reads = @ + 1, !.swift = FALSE] : p \in programs}

(* Of two groups of waves, one each. *)
Mixed(programs) == {p \in programs : p.code[0] # p.code[1]}

TooSlow ==
  Slower(Mixed(Quads(4, FirstOfB) \cup Blockscales({2}, SecondOfA) \cup WideAttention(Dense, 6) \cup Prompt(Stored({2, 3})))
         \cup {SplitK(edge, n) : edge \in BOOLEAN, n \in 5 .. 7} \cup SwiftAsms)

(* That each of them goes wrong takes no more than one schedule to see. *)
ASSUME WrongAssumption ==
  \A p \in OddBlocks \cup LongLoad \cup Crossed \cup BareBarriers \cup Lonely \cup HighBit \cup WrongRemainders
           \cup LateStores \cup TailOfA \cup OneSides({OtherSlots(3, AFirst)}, {2}) \cup ClearedA \cup Mixed(Switched)
           \cup ShortSplit \cup Unwaited \cup UNION {Unfenced(n) : n \in 1 .. 5} \cup TooSlow :
    GoesWrong(p)

ASSUME WrongLaunchesAssumption ==
  \A s \in OddStripes \cup OtherColumns \cup ManySplits \cup ShortShards : ~ Covers(s)

=============================================================================
