# TLA+ models of the gcnasm pipelines

gcnasm is a collection of AMD GPU programs: hand-written assembly and HIP kernels, micro-benchmarks, and multi-GPU
programs that overlap a GEMM with an all-to-all. What is hard to get right, and hard to test, is the synchronisation:
streams tied together by events, SDMA copies that complete later, counters polled across GPUs, barriers between
workgroups, and, inside a workgroup, waves that wait for a number of loads rather than for a load. That is what the
modules here model.

## Inventory

### Communication and GEMM (src/opus_gemm_dist)

| component | state | operations | interacts through |
|---|---|---|---|
| `opus_a2a_gemm_lsa` mode 4 (SDMA A2A, then GEMM) | two receive slots per rank, one ready counter per slot and source, host-side `sdma_ready_target[2]`, two streams, three events per slot, the epoch | post, self copy, quiet/notify, wait-ready, GEMM, their fused form | SDMA queues, remote atomic increments, stream order, events |
| the same, modes 0 and 3 (LSA copy with the GEMM) | receive window, one counter per source, `tile_counter` | communication workgroups copy to peers and signal; compute workgroups poll per K shard | remote stores and atomics; world barrier between launches |
| `opus_gemm_a2a_lsa` (GEMM, then A2A) | one or two staging slots, one receive window, ready counters, `chunk_done`, `chunk_peer_lock` | GEMM into staging, post (bulk or chunked), quiet/notify; submission by the last tile of a chunk; stores of the GEMM or a copy kernel into peers' windows | SDMA queues, streams and events, device atomics |
| `opus_gemm_mem_gemm_a2a` (split-K GEMM, then A2A of partial sums) | ring of LDS slots; window of partial sums per rank | produce, consume, store to the owner, reduce | workgroup barriers; world barriers around clearing |

### Synchronisation inside one GPU

| component | state | hard part |
|---|---|---|
| GEMM kernels of `opus_gemm`, `opus_fmm` and the two `*_lsa` programs | two LDS slots of half tiles, loads outstanding per wave | two wave groups one barrier apart; counted waits that change meaning in prologue, shard change and tail |
| attention (`opus_attn`, `mla_agentic_v0`) | the same, with row maximum, row sum and output | rescaling by a maximum that changes elsewhere; masks; rows and splits without a token |
| `hgemm_mfma` | up to four LDS slots, traits that say when what is loaded | loads, reads and waits interleaved by a generated schedule |
| assembler GEMMs (`sgemm`, `hgemm`) | LDS tiles, explicit `s_waitcnt` | waits and barriers left out because the timing is known; C through the LDS of the last tile |
| `nbuf_reduction*`, `memcpy_async`, `memcpy_persistent` | two or three register or LDS buffers | counts that include loads of the next round; buffers refilled by other waves; tails |
| `wmma_opus_rdna4` kernels | LDS slots, named barriers | producer and consumer waves in alternation; one wave that loads a tile ahead of itself |
| `warp_sort_bitonic`, `warp_sort`, `warp_histogram`, `wave_reduce_dpp` | a value per lane; LDS shared by the waves | which lane takes whose value; LDS used again for the next exchange |
| `matrix_core*` | fragments and sums spread over the lanes of a wave | which lane has which row, with operands exchanged and rows permuted for wider stores |
| `magic_integer_division` | a factor and a shift per divisor | exact up to 31 bits, and not beyond |
| `lqq` | half bytes, a scale and an offset per group | four values in one multiplication: none may carry into the next |
| `cross-wg-sync` | semaphore and result in global memory | barrier between workgroups built from an atomic counter; reuse over kernels |
| `cmpswap_atomic`, `cmpswap_atomic_bench` | one 32-bit word holding two halves | compare-and-swap loop on packed 16-bit sums |

The remaining directories hold samples of single instructions and micro-benchmarks; PROJECT.json lists each group with
the reason it is not modelled.

### What has to hold, and what is hard about it

* **SDMA A2A, then GEMM.** A GEMM of epoch `e` must read epoch `e` of every source: neither the epoch that used the
  slot before (signal ahead of data, poll for the wrong target) nor the one that uses it next (a source that runs
  ahead). Every epoch must end. PUTs land in any order, ranks run at their own pace, counters are never reset.
* **LSA copy with the GEMM.** A shard counts as ready when all communication workgroups of its source have stored
  their shares. Windows and counters are cleared between launches by every rank for itself. Workgroups spin and are
  not preempted, so the order of dispatch decides whether a launch ends.
* **GEMM, then A2A.** A staging slot may not be rewritten while an SDMA engine reads it; the signal of an epoch must
  stand for that epoch although the next is already queued; at the end all ranks hold the last epoch. With chunk
  submission, exactly one workgroup must find a chunk complete, and only when all of its tiles are in memory. A window
  that is cleared for a round must not lose what has arrived for it.
* **Pipelined kernels.** Every accumulator must get every tile once, in order, whole, against its partner. Nothing in
  the code names the load it waits for: one load more or fewer, in a prologue or a tail, shifts what a count stands
  for. A barrier too few lets a wave overwrite what another reads; one too many, for one group, hangs.
* **Online softmax.** Sums are relative to a maximum; what is added to them must be relative to the same one.
* **Sorting, counting, summing across lanes.** Right for every input; and waves may not meet in LDS.
* **cross-wg-sync.** Rows added in index order, each complete in all waves' parts before the next workgroup reads
  them; no circular wait with more workgroups than fit the device.
* **cmpswap.** The loop around compare-and-swap is an atomic addition of two independent halves, whatever the first,
  plain read returned.

## Modules

A definition keeps the name it has in the source where there is one. PROJECT.json maps each definition to its lines.
A definition with a suffix after an underscore (`Signal_EveryWave`) is a faulty variant of the definition behind it;
the specifications do not use it, it is there to see that a property notices the fault.

| module | models | built on |
|---|---|---|
| `SdmaFabric` | PUTs in flight, the two-slot receive window, the ready counters | |
| `SlotExchange` | abstract: a producer is at most two epochs ahead of every consumer | |
| `StreamA2A` | mode 4 of `opus_a2a_gemm_lsa`, stream schedules | `SdmaFabric`; implements `SlotExchange` |
| `FusedA2A` | mode 4, literal fused kernel | `SdmaFabric`; implements `SlotExchange` |
| `LsaFused` | modes 0 and 3 of the same program | |
| `Mailbox` | abstract: between a source and a destination epochs arrive in order and are announced afterwards | |
| `GemmA2A` | the outputs of `opus_gemm_a2a_lsa`, and the rounds of `opus_gemm_mem_gemm_a2a` | implements `Mailbox` |
| `ChunkSubmit` | inside one launch of `chunk-sdma`: who submits which chunk | |
| `CrossWgSync` | `cross-wg-sync`: counter and lock | |
| `PackedAdd` | packed 16-bit addition, and the abstract atomic addition | |
| `CmpSwap` | the compare-and-swap loop | implements `PackedAdd` |
| `TileOrder` | which output tile, K tile or token a task number stands for | |
| `Division` | division by a known number, for words of any width | |
| `Lqq` | quantisation to half bytes and back | |
| `LaneOps` | exchanges between the lanes of a wave | `Division` |
| `WaveIsa` | the instructions a kernel is a sequence of, and what they do to registers | `LaneOps` |
| `WaveStep` | what one instruction does to its wave, and to another one | `WaveIsa` |
| `WaveLds` | the machine: waves of one workgroup in all interleavings | `WaveStep`, `TileOrder` |
| `WaveOutline` | proof outlines of programs: the conditions under which nothing has to be interleaved | `WaveStep` |
| `Outlining` | an outline for a program, put together from barrier to barrier | `WaveOutline` |
| `Schedule` | one schedule of a program, by evaluation: enough to see that it goes wrong | `WaveOutline` |
| `GemmLoops` | programs: the GEMM main loops, split-K | `WaveIsa` |
| `AttnLoops` | programs: grouped-query and paged attention | `WaveIsa` |
| `MlaLoops` | programs: latent attention, dense, sparse, split and combined | `WaveIsa` |
| `BufferLoops` | programs: multi-buffered reductions and copies, producers and consumers, the wmma kernels of one wave | `WaveIsa` |
| `LaneLoops` | programs: sorting, histogram, reduction and scan, division | `WaveIsa` |
| `MatrixCore` | programs: the matrix-core samples | `WaveIsa` |
| `MfmaLoops` | programs: the configurable GEMM, generated from its traits | `WaveIsa` |
| `AsmLoops` | programs: the assembler GEMMs | `WaveIsa` |
| `*_proofs` | theorems and proofs about the module they are named after; `Kernel_proofs` is about `WaveLds` with its `TileOrder` and `Division`, and about `Lqq` | |
| `MC*` | sets of values for the model checker; in `MCWaveLds`, the kernels, and which of them have an outline | |

### The multi-GPU pipelines

**SdmaFabric.** `flight` is the set of PUTs handed to the SDMA queues and not completed; `Land` completes any of
them. A chunk of data is the epoch it belongs to. `quietQueue(p)` is the guard `Drained`; the signal is `Signal`.
These stand for the mori CCO library, which is not part of the repository.

**StreamA2A.** A stream executes in order, so it is a program counter: `posted`/`cpc`/`told` for the communication
stream (`Post`, `SelfCopy`, `QuietNotify` per peer, `WaitReady`), `stage`/`running`/`open`/`done` for the stream of the
GEMM (`StartGemm`, `OpenShard`, `FinishGemm`). The three events per slot are the guards that compare these counters:
`recv_free` is `done`, `stage_ready` is `stage`. In the serial schedule both share one stream, which is the first
conjunct of `MayPost`. `open` is the set of shards some workgroup of the GEMM may be reading: from the first poll that
passed until the kernel ends.

**FusedA2A.** One kernel per epoch; `at[r][b]` is the shard block `b` has reached. Block 0 posts at entry and serves one
peer before each shard. Blocks are dispatched in index order into `Resident` places and leave only at their end.

**LsaFused.** `host` is the position of a rank's host in clear, barrier, launch, synchronise, barrier. `comm[r][c]`
alternates between storing and counting for one peer after the other. A compute workgroup has a `task` (fixed, or drawn
from `counter` under the persistent policy) and a `shard`. `recv` holds the set of shares present per source. Under the
policy `split` (mode 3) communication and computation are launches of their own, in one stream, which is the only thing
that keeps a compute workgroup from a share that is not there.

**GemmA2A.** `queue[r][d]` is the SDMA queue from `r` to `d`, first in first out. A PUT copies from staging when it
lands (`Source`), which is why staging may not be rewritten earlier. `mode` is chosen in `Init` and never changes: bulk
or chunk-fused under the serial or the parallel schedule; `direct`, where the workgroups of the GEMM store into the
peers' windows; `split`, where a copy kernel behind it does; `reduce`, the rounds of `opus_gemm_mem_gemm_a2a`, where
every rank clears its window, all meet, the partial sums are stored, all meet again, and the sums are reduced.

**ChunkSubmit.** A workgroup fetches a tile, stores it, counts it in `chunk_done`, and if the count is complete takes
`chunk_peer_lock`, submits and releases: five program points, one action each. The host clears `chunk_done` and
`tile_counter` between launches.

### Between workgroups

**CrossWgSync.** Every wave of a workgroup is an actor: `Load` and `Store` of its part of the sum are separate actions,
barriers are guards over all waves of the group. In serialized mode the gate is `wait_eq(blockIdx.x)`, in the other
`aquire`. A row is its number, a sum the sequence of rows added. `Busy` limits the workgroups on the device.

**CmpSwap / PackedAdd.** A word is a pair of halves. A build says whether halves are unsigned integers that wrap
(`BF16ASU16`) or bf16, and how many bits they have: in the second case those of the significand, to which every sum is
rounded to nearest even, as `float_2_bf16` rounds to its eight. The first read is plain and may return any value the
word has had.

**TileOrder.** `Covers(s)` says that the task numbers of a launch of shape `s` stand for every tile exactly once, in
the order the shape names: by row, by column, in groups, round robin over peers, in stripes, by shards of K, splits of
K, and tokens.

### Inside a workgroup

**WaveIsa, WaveStep and WaveLds.** A kernel is a sequence of instructions per wave; `WaveLds` runs the sequences in all
interleavings, one action per kind of instruction. The state of a wave is a record (`vm`, `ds`, `lds`, `reg`), and what an
instruction does to it is an operator of `WaveStep` (`HasFetched`, `HasRead`, `PastBarrier`, ...): the actions of `WaveLds` and
the conditions of `WaveOutline` use the same ones.

* Data is what it stands for. A tile is its name, an accumulator the sequence of the products added to it, a row
  maximum a version number. `RightSums` compares every accumulator with what the kernel is to compute, at every step.
* `Fetch` is a load from memory to LDS, `Pull` to registers, `Read` from LDS to a register, `Store` the other way.
  `vm` and `ds` are the queues of what is outstanding, in machine instructions, since that is what `Vm(n)`
  (`s_waitcnt vmcnt(n)`) and `Lgkm(n)` count. On newer targets `loadcnt`, `tensorcnt` and `dscnt` play the same roles.
* A slot of LDS that is being loaded, and a register whose read of LDS is outstanding when the slot is loaded again, is
  `Torn`: using it shows in a sum. A store counts as done for its own wave at once, for others when waited for.
* The compiler puts a wait before the use of a register it has loaded itself, and `AwaitOperands` does so. Where the
  source loads in an assembler statement it does not know of the load (`ByHand`), and use before the wait is `Torn`.
* `Bar` is `s_barrier`; `Signalled` and `Await` are named barriers, counted by completions.
* The softmax instructions carry the version of the maximum a sum stands for. `Lift` may or may not raise the maximum,
  so all combinations of tiles that raise it are taken.
* Lane instructions work on functions of the lane. A sum over lanes is the number of times each lane's input is in it;
  what a permutation reads from outside its row is `Unknown` where the hardware leaves the old register.

The programs are written by operators that follow the source's functions, lambdas and macros (`Chain` is a loop), with
the number of instructions each load takes in the source. The order is that of the source: what a compiler may move is
left out, and so are the waits it adds beyond those for operands.

**GemmLoops.** `Quad`: two groups of waves one barrier apart, half tiles in two slots; `Sharded` is the same over the
shards of the A2A GEMM, with or without polling, `GemmA2AQuad`, `Fp8EightWave` and `Mono` its relatives.
`FlatmmStored`: one slot per slice, stored from registers.
`Blockscale`, `Blockscale1x128x1`: with scales that are loaded along. `SplitKProducer`, `SplitKConsumer`: four tiles
ahead in a ring.

**AttnLoops, MlaLoops.** `D128`, `D512`, `pa_prefill`; `flash_mla_decode_kernel`, its sparse and split relatives,
and the combination of splits. Tokens of a tile are told apart only as far as some of them are missing, or all.

**MfmaLoops.** `Traits` are the template parameters of `hgemm_mfma`; `Flat` and `OneSide` are its two pipelines, for
any traits, the loads distributed over the slots between products as `TileOrder` and the traits say.

**AsmLoops.** The `sgemm` and `hgemm` kernels with their epilogues, which pass C through LDS.

**LaneLoops, BufferLoops.** As their sources; the inputs of the sorting networks are all sequences of zeroes and ones,
which is enough for networks (one that sorts those sorts everything). Of the merge sort both builds are there, the macros
and the assembler, whose registers are reused and whose moved operands need two instructions of distance. `Producer` and
`Consumer` are the ping-pong kernels (their `1` variants those of one slot), `OneWave` the kernels whose one wave does
both, `PersistentSums` what the copy has to have copied.

**Division.** `magic_div_u32_gen` is the host's search for factor and shift, `mdiv_u32` and `mdiv_u32_rem` the kernel's
instructions (`Alu32`). `LaneLoops` runs them in `WaveLds`, every divisor below 128 with numbers below 128, and words of
eight bits; the theorem in `Kernel_proofs` is about words of any width.

**Lqq.** `lqq_quant` and `lqq_dequant` as functions on a group; `u8u4_pair` puts four bytes into a word and `u8` takes one
out. `Round` is `std::round` of a quotient, which single precision gives exactly for numbers this small. A word has 32
bits and does not fit the model checker's integers, so this module is only proved about.

**MatrixCore.** One wave, 64 lanes. `MatrixSums` is the instruction's distribution of rows and columns over lanes; the
programs load, multiply and store as their sources do, and C, the set of what has been stored where, is compared with the
product. A place that two lanes store differently is in that set twice.

## Runs

| run | question | distinct states |
|---|---|---|
| `stream_serial` | does the serial schedule exchange data correctly, and end? | 13,471 |
| `stream_intra` | is polling shard by shard enough, and is `IInv` an invariant there too? | 5,531 |
| `parallel_slot_overwrite` | does `recv_free` protect a slot in the parallel schedule? (no) | |
| `fused` | the literal fused kernel: data, counters, termination | 450,058 |
| `gemm_a2a` | staging, receive window and clearing in all seven modes | 198,853 |
| `chunk_submit` | one submission per chunk, the queue for one workgroup at a time | 610,023 |
| `lsa` | modes 0 (both tile policies) and 3 | 504,573 |
| `lds` | do the waves of the pipelined kernels compute what they should, without a deadlock, and a launch of them all tiles? | 913,977 |
| `histogram` | does the 256-bucket histogram count rows of an odd number of blocks? (no) | |
| `crosswg` | order, completeness, termination in both modes | 1,375 |
| `crosswg_lost` | does the lock protect the sum? (no) | |
| `cmpswap` | is the loop an atomic addition? | 886 |

Bounds, and why they are enough:

* `R`. Three ranks in `stream_serial`, `fused` and `lsa`, where a source, a destination and a third that is ahead or
  behind can differ. Two where the interaction is between a source and a destination (the third rank multiplies the
  states and adds no new guard): intra, parallel, `gemm_a2a`.
* `Epochs`. Slots alternate, so three epochs are the first reuse of a slot and four the first reuse of both;
  `stream_intra` has five, where a count of two and of three has to be told apart.
* `Blocks = 3`, `Resident = 2` and, in `lsa`, two communication and two compute workgroups on two places; in `crosswg`
  four workgroups on two: one more than fits is what makes a circular wait possible.
* `Launches = 2` in `lsa` and `chunk_submit`: what the first leaves to the second.
* `chunk_submit`: two peers of two tile columns each, two chunks of two tile rows per peer, and one tile column that
  stays local: a chunk has more than one tile in both directions, each peer has more than one chunk, and there are tiles
  no chunk counts.
* `Waves = 2` in `crosswg`: a first wave, which does the synchronisation, and another, which does not.
* `cmpswap`: three or four threads; two-bit halves that wrap, significands of eight bits that hold every sum exactly, and
  of two bits that round. In each build the word can return to a value a thread has read before, which is what a
  comparison of values instead of versions could trip over.
* `lds`, waves. A slot that is torn is torn by one wave and seen by one wave, and other waves at a barrier only hold
  those two back; so the two waves take all pairs of roles the kernel has. The producers and consumers of
  `wmma_opus_rdna4`, which signal each other by counts, are there with all eight waves, those of split-K with four. Whole
  workgroups of eight waves are in `Workgroups`, which have outlines instead of a state space.
* `lds`, trips. Every loop is run at least as often as it needs to reach its steady state and leave it again (two to
  eight tiles), in both parities where the source allows both. `reduce_n3` is there unrolled, with 4 to 9 rows; the
  rolled loop, which is the one that is built, goes wrong for most small numbers of rows and is not among the kernels
  that pass (`WrongRemainders`). Lanes: 8 in one wave, 2 x 4, 4 x 1 and 4 x 2 for the bitonic sort, 2 to 16 lanes for
  the merge
  sort, 64 for reduction and scan. The histogram has two waves of
  eight lanes in groups of four and eight buckets.
* `lds`, detail. In `MfmaLoops` a wave has one row of tiles; in `AsmLoops` the rows of a tile are not told apart and
  two waves stand for four; in split-K a tile is one load and one read. A latent attention workgroup has one group of
  heads.
* Launch shapes (`MCTileOrder`): those the documentation measures, in small, and the smallest of each parity.

Deadlock is checked in `lds` and `histogram`, where a wave may be left at a barrier; a wave that has ended stutters.
In the other runs the programs end and nothing follows; `Completes` in the same run says that they end where they
should and nowhere else.

### What is assumed of time

A load lands at any time between its issue and the wait that covers it, and a read or store of LDS is through when it has
been waited for. Some kernels read a slot before the wait that covers its load, and are right only because the load was
issued long before. So that the rest of such a kernel is checked all the same, a program says of which slots the loads have
landed after how many barriers at the latest (`Within`), or after how many a read or store of LDS is through (`reads`). The
slots are only those that are read too early; for all other loads the waits have to do. These programs are `Timed` in
`MCWaveLds`, and what `lds` shows of them it shows on this condition only:

| programs of `Timed` | assumption | without it |
|---|---|---|
| `Quad`, `Sharded`, four K tiles | the first quarter of B lands within 6 barriers | the loop reads it one barrier before its wait (bf16_gemm quad template:357). With two tiles the loop is not run; they, `GemmA2AQuad` and `Fp8EightWave` need nothing there |
| `D512` | the last tile but one of V lands within 2 barriers | the wait of cluster 8 of the epilogue covers nothing (gqa_d512:738) |
| `Blockscale`, two K tiles | the second half of A of the second tile lands within 5 barriers | the tail follows the prologue, whose waits leave loads outstanding. With more tiles it needs nothing |
| split-K | a read is done within 1 barrier | a slot is refilled after one barrier (splitk cuh:382) |
| `FlatmmStored` | a store or read of LDS is done within 1 barrier | a tile is stored before a barrier, without a wait for the store, and read by the other group behind that barrier (flatmm gfx942:336, 372) |
| `sgemm128x128_v3`, its cov3 variant | swift: a read is done within the next product | rows 3 and 5 have no wait (line 341) |

Each number is the largest that will do: with one barrier more (or not swift) each of these kernels goes wrong
(`TooSlow`, see "Findings"). Nothing in the repository contradicts the assumptions, nor does anything vouch for them. The
1x128x1 kernel, whose own comments report stale data, has no such excuse and is in no passing run. All programs of
`Kernels` that are not in `Timed` are right whatever time loads, reads and stores take. Of the configurations of
`hgemm_mfma`, the lengths of `pa_prefill` and the numbers of splits and rows, `Kernels` has those that are right; what
happens with the others is under "Findings".

*Order of loads.* Counted waits take loads for landing in the order of their issue (`vector_add_asm/README.md:289`: "`vmcnt` is
a FIFO"), and nearly all of these kernels are built on that. The split-K pipeline says otherwise for edge tiles: "vmem
completion is not FIFO and the count may not include slot 0 when the consumer crosses the barrier"
(splitk cuh:231-235), and drains everything there. Both are modelled: a program says whether its loads land in order (`ordered`).
They do everywhere but in split-K with edge tiles, where only a wait for all loads lets anything land (`LoadsAwaited`; such a program may
load only into LDS, and the checker evaluates that: `InTurn`). What the
comment says of loads out of range would hold of other kernels as well; those have no such branch, and that their loads are all
in range, or land in order all the same, is an assumption.

### Fairness

Weak fairness only, per actor: each stream of each rank, each host, each resident workgroup or wave, and the SDMA
engines. The hardware runs every resident wave and every stream independently, and an engine works off what is queued.
No strong fairness is assumed: nothing waits for a condition that keeps going away, except `aquire` and the
compare-and-swap loop, and there an interfering actor finishes after a bounded number of steps. A workgroup that has
no place on the device is not treated fairly in any sense beyond its turn: that is what the order of dispatch
(`Precedes`, `CommFirst`) and `Resident` model. The programs of `WaveLds` have no loop that waits, so that deadlock
freedom is termination.

## Findings

Three runs show a disagreement between the code and what the repository says of it:

* `parallel_slot_overwrite` (`a2a_gemm_host.cc:996`): the event `recv_free[slot]` orders only the streams of one rank. A
  rank that has all data of epoch `e+1` may post `e+2` into the slot a slower peer is still reading epoch `e` from. The
  README says the event prevents that. In the serial schedule it cannot happen (theorem `SerialReadsCurrent`); neither
  in the fused one (run `fused`). The data of `e` and `e+2` are equal in this program, so its validation cannot see it.
* `histogram` (`warp_histogram.hip:298`): the loop over a row takes two blocks in a round, the second loaded ahead. A
  row of one block makes no round: the second buffer is loaded from before the row, and counted. The test has a row of
  256 values.
* `crosswg_lost` (`cross-wg-sync.hip.cpp:131`): `release` frees the lock before the other waves have stored. `inc`, used
  in the serialized mode, has its barrier first and is correct (theorem `RowsInOrder`).

Kernels that go wrong are named sets in `MCWaveLds`, and that each of their programs does is checked along with every run of
`lds`: `WrongAssumption` takes it through one schedule (module `Schedule`), which ends with a sum that is not what the kernel
is to compute. One schedule is enough to refute `RightSums`; put a set in place of `Kernels` in `lds.cfg` for a trace. The
following contradict what the repository says:

| set | where | what happens |
|---|---|---|
| `LongLoad` | `gemm_a8w8_1x128x1_blockscale_kernel_template.hpp:646` | the wait of the tail leaves more loads outstanding than have been issued behind the second half of A of the last tile, which is read next ("Tail count verified correct under ROCm 7.2", says the line before). Lines 370-389 report stale A and B when both prologue waits carry their counts, and both do (377, 390). In the model, with loads landing in order, those two counts cover the first tile and the failure is in the tail, whatever the prologue waits for; that a kernel with a drained prologue passed its tests is a matter of time then |
| `WrongRemainders` | `nbuf_reduction/test.cpp:338` | the rolled `reduce_n3` takes the remainder of three as `rows & 2`, which is wrong for 4 to 8, 10 and 13 rows; "assume loop larget than 3" (350) is all the source asks for |
| `Lonely` | `flash_mla_kernel.hip:862` | no split has a valid token, and the output is no number. `test/test.py:184-185` wants zero; the kernel without splits guards against it (484) |
| `TailOfA` | `hgemm_mfma.hpp:1375` | one operand in LDS, loads of B first, as a configuration that is commented out in `hgemm_mfma_invoker.hpp:41` has it: the wait of the last tile leaves as many loads as are outstanding, and A goes straight to registers |
| `BareBarriers` | `warp_sort_bitonic/pyhip*/csrc/warp_bitonic_sort.hip` (v3: 347) | a bare `s_barrier` between storing to LDS and reading what another wave stored, for which `README.md:154` gives it as a replacement of `__syncthreads()`: nothing waits for the store |
| `ShortSplit` | splitk cuh:317 | fewer than four tiles in a split: the pipeline is filled four deep, and tiles of the next split are added. The host allows as many splits as there are tiles (`main.cc:190-194`) |
| `OddBlocks` | `warp_histogram.hip:298` | the subject of the run `histogram` |

The others contradict nothing the repository says, or the repository has its own doubts:

| set | where | what happens |
|---|---|---|
| `Switched` | `pa_prefill_kernel_template.hpp:845` | a prefix of 5, 9, ... tiles followed by an extension: the extension fills slots the second group has still to read |
| `Crossed` | `nbuf_reduction_async/test.cpp:161` | a wave refills a buffer another wave has not read: no barrier between |
| `ClearedA` | `hgemm_mfma.hpp:1392` | with clearing on, which no configuration has, buffer 0 of A is cleared whichever is in use |
| `OneSides({OtherSlots(3, AFirst)}, {2})` | `hgemm_mfma.hpp:1066, 1378` | "this may have bugs if repeat if not large (?)": from three other slots on the wait no longer covers what is used; up to two, which is what is offered, it does |
| `Unwaited` | `sgemm128x128_v3.s:341` (also 396, 447, 486) | the products of rows 3 and 5 have no wait |
| `Unfenced(n)` | `sgemm128x128.hip.cc:147`, `hgemm128x128.hip.cc:199`, `sgemm128x128_v3.s:494`, `hgemm128x128.s:302`, `hgemm128x128.MAI.s:329` | no barrier between reading a tile and writing C, or the next tile, over it; right as long as the waves run alike |
| `LateStores` | `flatmm_a16w16_gfx942.cc:336, 372` | the next tile is stored, the barrier behind it does not wait for the store, and the first group reads behind it what the second has stored |
| `HighBit` | `magic_integer_division` | numbers with the highest bit set: the sum of product and number leaves the word. The code says 31 bits are the limit (`magic_div.s`), and that is where `MagicDivision` ends too |
| `TooSlow` | "What is assumed of time" | the kernels of `Timed`, their loads, reads and stores taking one barrier longer than assumed |

Launches whose task numbers miss a tile, or take one twice (`MCTileOrder`; `WrongLaunchesAssumption` evaluates each): `OddStripes`, an
odd number of tile rows, loses its last row in stripe order (`gemm_a16w16_quad_subtile_kernel_template.hpp:50`).
`OtherColumns`: the persistent order of the A2A GEMM is decoded for 31 or 32 columns (`a2a_gemm_kernel_template.hpp:334`).
`ShortShards`: a shard is taken for 16 K tiles (399), while the README recommends a run with two (`opus_a2a_gemm_lsa/README.md:36`).
`ManySplits`: of 56 K tiles and 20 splits the first 19 take three each, "all in-range" (splitk cuh:239), so that the last of
these begins at tile 54 and goes on beyond tile 55; with 11 and 13 splits alike (`main.cc:190` accepts them).

Seen while reading: an odd number of K tiles is wrong in the bf16 GEMMs (`gemm_host.cc:136` accepts it);
the comparison in `cmpswap_atomic/main.hip.cc:85` divides by the signed reference, so a wrong negative sum passes it.

## What is proved

All theorems hold for every value of the constants that satisfies the assumptions of the module; nothing else is
assumed.

**StreamA2A_proofs** (any `R >= 2`, any number of epochs). `TypeOK` is inductive. `IInv` is the inductive invariant: it
adds to the type invariant how far the two streams of a rank may be apart (`StreamOrder`, `Gated`), that a PUT in flight
belongs to the epoch its source is communicating and to a peer not yet told (`FlightOrder`), that a counter is exactly
the number of epochs of its slot the source has signalled (`ReadyCounts`), and that a chunk holds the last epoch of its
slot the source has delivered (`RecvHistory`). It is needed because a poll sees only a count: that the count implies
the data takes `ReadyCounts` and `RecvHistory` together. From it:

* `StaleFreedom`: no shard a GEMM has opened is older than its epoch, in any schedule.
* `SerialReadsCurrent`: in the serial schedule it is neither older nor newer, and no PUT is on its way to it.
* `SignalsFollowData`, `CountsExact`: a counter never runs ahead of the data, and ends at the value the program checks.
* `SerialImplementsExchange`: the serial schedule implements `SlotExchange`, with `posted` and `done` as its variables:
  a rank posts only when all peers are at most two epochs behind.

**GemmA2A_proofs** (any `R >= 2`, any number of epochs and chunks, every mode). `IInv` follows a chunk by four counts, the
epochs of it that have been stored (`Filled`), posted (`Posted`), moved by a copy kernel (`Copied`) and signalled
(`Signalled`). Staging holds every epoch that is stored and not transferred (`Kept`); what is queued has been posted, not
waited for, and is in order (`QueueOrder`); every epoch posted and not landed is queued (`Unlanded`). The last two say
together that the PUT that lands next is the next epoch of its chunk, although in the overlapped fused mode the PUTs of
two epochs share a queue. `Rounds` says for the reduction that no rank is ahead of a meeting. From it:

* `StableSources`: a PUT reads its own epoch, and no GEMM is rewriting its chunk. A GEMM that runs two epochs ahead would
  need the slot of an epoch that is not transferred (`OtherSlot`).
* `LastEpoch`, `NoOlderEpoch`: the windows end with the last epoch, and never step back but to be cleared.
* `OutputIsMailbox`: all modes implement `Mailbox`. A step moves one window on by at most an epoch (`Advance`), so that the
  oldest of its chunks, which is what has been received of the slab, goes up by one or not at all; a rank that signals has
  found no PUT of the epoch in the queue, so every chunk has landed (`SignalledHeld`).

**FusedA2A_proofs** (any `R >= 2`, any number of epochs, blocks and resident blocks). `LaunchOrder` ties what a rank has posted
and how many peers it has signalled to the shard its block 0 has reached; `Signalled(p, d)` is then what `d` may have been
told by `p`, `Delivered(p, d)` what has landed. `FlightOrder` says that a PUT in flight is of the running launch of its source
and goes to a peer not yet signalled, which is what `Drained` is for. `ReadyCount` and `RecvHistory` give the counters and the
last two epochs of a chunk from these two numbers. `Polled` keeps what a block has polled true for the rest of its launch,
`Gated` carries it over the end of it: a rank that has finished has been signalled by all. The two together bound the skew
between ranks (`Skew`): a rank posts at most two epochs beyond what another has computed, so the PUT that may be in flight
goes to the other slot. That block 0 serves every peer once is proved from `%` (`ServedPeers`). From it:

* `CurrentReads`: what a block reads is its own epoch, and nothing is about to change it.
* `FinalCounters`: the counters end at the value `validate_sdma_ready_counts` expects.
* `FusedImplementsExchange`: it implements `SlotExchange`; block 0's entry is `Publish`, the end of a launch `Consume`.

**LsaFused_proofs** (any `R >= 2`, any number of workgroups, tiles and launches, the three policies). `IInv` has seven parts.
`Phase` says where the host is while workgroups are under way, `Barrier` that nobody has left a barrier that somebody has
not reached. Together (lemma `Ordered`) they say that while one rank communicates all are in the same launch behind their
clearing, and that before a rank clears its windows nobody has begun the launch to come. `Shares` needs that: a window
cleared for a launch holds what has been stored in that launch, and its counters are exactly the workgroups that have
counted, which `Moved` reads off their progress, also when the sender is already in its next launch. `Polled` keeps what a
workgroup has polled true until the launch ends. `Fresh` and `Tiles` say that a tile below `tile_counter` is computed or in
the hands of one workgroup, that those above are neither, and that a workgroup ends only when no tile is left. That the
peers and the shards are visited in rotated order, every one and none twice, is proved from `%` (`Peers`, `Parts`). From it:

* `WholeShards`: a GEMM reads only whole shards of its own launch. In mode 0 the poll says so (all `CommWGs` have counted,
  hence all have stored), in mode 3 the barrier between the launches does (`SplitMoved`).
* `CompleteLaunches`: a launch that ended has computed every tile once and its windows have counted every share.

**ChunkSubmit_proofs** (any finite set of workgroups that is not empty, which is the grid of the code; any shape, any number
of launches). `LockInv` ties the lock word of a peer to the one workgroup between `Acquire` and `Release` for that peer.
`Flow` follows the tiles: a workgroup returns only when all are drawn (`Draws`), no tile has two workgroups (`Owners`), what
has been drawn is stored unless it is being computed (`StoredTiles`), `chunk_done` is the number of tiles of the area that are
stored and counted (`Counts`), one workgroup goes on to submit a chunk (`Turns`), and what has been submitted tells the launch
and whether the chunk is full (`Submissions`). That the tile order is a bijection between numbers and places is proved from
`÷` and `%` (`TileOf`, `TileOnce`, and `TileAll` by counting), and so is that the area of a chunk has `Required` places
(`AreaOf`); only with both does the count say which tiles are there. From it:

* `QueueNeverShared`: a peer's queue is filled by one workgroup at a time.
* `WholeSubmissions`: whoever goes to submit a chunk finds all of its area stored.
* `CompleteLaunches`: a launch that ended has stored all of C and submitted every chunk of every other peer once.

**CrossWgSync_proofs** (any number of workgroups, waves and places). `SyncInv` says, for the serialized mode, that only
the workgroup whose index is the counter is behind its gate, that waves ahead of it wait, those behind it have ended,
and that each wave's part holds rows `0..n-1` before and `0..n` after its own store; for the other mode, that the lock word is 1
exactly while one leader is between `Aquire` and `Release`. `RowsInOrder`, `CopyIsFinal` and `LeadersApart` follow.

**CmpSwap_proofs** (any builds, any number of threads, any pairs of integers). `Prepared` says that what a thread is about to
exchange is its pair added to the word it expects. An exchange that succeeds therefore adds to what the word holds, however
old the first read was and whatever the word has been in between, and takes one thread with that pair off `left`; reading and
trying again change nothing. `LoopImplementsAdd`: the loop implements `PackedAdd`.

`ExactSums`: when all threads are done the word is the sequential sum of the inputs, in whatever order they came, as long as no
addition rounds. `Sums` is what holds on the way: each half of the word stands for the sum over the threads that are done, that
is, it is what is left of it modulo the size of the half, or the sum itself. Sums are not computed but described, by a function
that grows from index to index (`Partial`), so that a thread that gets done changes it in a way the provers see (`AddOne`).
That a partial sum of bf16 halves fits the significand whatever the order follows from the sum of the magnitudes (`Bounded`),
and that it is not rounded from the powers of two growing (`PowersGrow`, `RoundsTo`). The sequential sum and the sum of the
magnitudes are folds of the library, recursive functions of a set of indices; that such functions exist for inputs of every
length is `FoldExists`. The library's induction theorems are no help there, but every set of natural numbers has a smallest
element (`Smallest`, from well-foundedness), and the smallest number a statement fails for does as well. The theorem has the
hypothesis `Powers` that `MagicDivision` has.

**Kernel_proofs** (any width of a word). `MagicDivision`: for a divisor and a number that leave the highest bit free, the
factor fits the word and the kernel's instructions give quotient and remainder. With `w` values in a word, shift `s` and
`p = 2^s`, the factor with the bit above the word, `k = magic + w`, satisfies `w*p < d*k <= w*p + d` (lemma `Factor`); the
excess, multiplied by the number and divided by `w*p`, is less than `1/d`, too little to reach the next quotient
(`Quotient`). That the search for the shift ends is `SearchEnds`. The provers know nothing of powers, so the theorem has one
hypothesis about them: `Powers` (`2^0 = 1`, doubling).

**Kernel_proofs**, continued (any group whose size the words divide, values in the range `lqq_quant` asserts). `LqqRoundTrip`: what comes
back is `u4 * scale` plus the lowest value for each element by itself, a signed byte, and at most eight off. A rounded
quotient is within half a divisor (`Rounded`), the range asserted keeps the scale at 16 or less, so a half byte stands for
at most eight more or less than the value's distance from the lowest (`Near`); with 128 added, that leaves each byte
between 0 and 255 (`Element`), and bytes in that range do not touch each other in a word (`Bytes`, `ByteByByte`). The bound
119 is used where the scale and the byte are bounded.

**Kernel_proofs**, continued (launches of every size). `EveryTileOnce`: whatever the numbers of tile rows, columns, peers,
splits or ranks, the task numbers of a launch bring up every tile for exactly one task and none outside the launch, if the
order suits it. `Suits` says when: any launch for the orders by column, by row and in groups; room for the scattered columns
for the round robin, and an even number of tile rows, or one, for the stripes besides; 31 or 32 columns for `rows`, 28 to 56
for the workers; 16 K tiles in a shard; splits that do not begin behind the last K tile. Those are the conditions the launches
under "Findings" break (`OddStripes`, `OtherColumns`, `ShortShards`, `ManySplits`), and every
launch the runs use meets them. The proof takes a task number for digits (`TwoDigits`: quotient and remainder, whatever the
base; up to four of them for the stripes, `Stripes`), shows that rotating one of them by the rank changes nothing
(`Rotation`), and that reading a block by columns instead of by rows does not either (`Transposed`, `BlockTransposed`). It is
left to count: a set with one member has cardinality 1 (`OneTaskEach`). `TilesOnce` says it of the machine: `EachTileOnce` holds
if every launch of a kernel is one the order is made for.

**Kernel_proofs**, continued (`WaveLds`, with programs of any length and content). Two theorems ask nothing of the programs.
`BarriersKeepAbreast`: a wave that still runs is at most one barrier behind any other, and if it is, the next thing it does
is that barrier. `Abreast` is inductive by itself: a wave that is ahead is held at its next barrier until the others have
come. `BarriersNeverBlock`: among the waves that still run there is always one that no barrier holds up, also when the waves
go through different numbers of them; it is one that has passed fewest. So a kernel can only hang in a
named barrier.

`CleanEnd` (`EndsClean`) needs to know something of the programs: that their counts are numbers (`Runnable`), that every
load into LDS is followed, somewhere, by a wait for all loads of its wave (`Drainage`), and that all waves go through
equally many barriers (`Balance`). All three speak of the code alone and not of how the waves are interleaved, nor of when loads land; the
invariant does the rest. `Even`: barriers passed and barriers left are the same sum for every wave. `Outstanding`: a queue with
a load into LDS in it belongs to a wave with such a wait still before it. What instructions do to the queue is a
lemma (`OutcomeLoads`, and `AftermathLoads` for the other waves), over what waits take out of a queue (`YoungestIs`, `AfterIs`) and what loads put in (`QueueIs`).
`MCWaveLds` assumes `Runnable` and `Drainage` of its kernels, and of their launches what `TilesOnce` asks
(`KernelsAssumption`), so the checker evaluates them for every kernel of the run; that the kernels are balanced is what the
run of `EndsClean` finds, since a wave that has ended has passed all its barriers.

**Kernel_proofs**, continued (`WaveLds`, programs of any length that have a proof outline). `SumsAreRight` (`RightSums`):
whatever an accumulator has been given is the beginning of what the kernel is to compute there, in every interleaving, and in
the end it is all of it. An outline, after Owicki and Gries (`WaveOutline`), gives for each wave and each place in its code the
states the wave may be in there (`at`), those if another wave is a barrier ahead (`behind`), and the barriers passed by then
(`epoch`). `Proves` is what it has to satisfy, and looks at one instruction of one wave at a time:

* the instruction leads from the states of its place to those of the next one (`Leads`); what a read may bring is collected
  from the states of all waves at the places where they can be meanwhile (`Visible`);
* a load into LDS or a store leaves the others in the states of their places, wherever they can be meanwhile (`Spares`);
* where a wave waits at a barrier or has ended, `at` is part of `behind`;
* in no state of a place is a sum anything but a beginning of what is wanted, nor at the end less than all of it (`SumsUp`).

Where the others can be meanwhile is `Meets`: between the same two barriers, at the barrier before, or at their end. That no
other place counts is what `Abreast` says, and so the first theorem about barriers carries the last one (lemma `Meeting`).
`Follows` is the inductive invariant: each wave is at a place of its code (`Stands`), with the barriers passed and in a state
the outline has for it. `FollowsWithin` is the step of an instruction between barriers, `FollowsBarrier` that of a barrier,
which may leave others behind; `StepOutcome` reads all actions as one operator (`Outcomes`, for the others `Aftermath`), and
`Reading` shows that what a read brings is in `Visible`. No state is assumed to be reachable, and nothing about the order of
instructions, nor about when loads land beyond what a program says of its latencies.

The hypothesis is `Outlined`: the programs have outlines. `Outlining` puts one together, and `MCWaveLds` assumes that what it
puts together satisfies `Proves` (`OutlinesAssumption`), so the checker evaluates it: for all kernels of `lds` but the named
barriers of `PingPongs` and the larger part of `Sorts`, where it would take too long, and besides for `Workgroups`, which are
too large for a state space: eight waves instead of two, and up to sixteen K tiles. For them `RightSums` is a theorem without
having been run. A program that is wrong has no outline: that of a Mono-tile loop which loads the wrong slot of its ring, or of
shards between which the groups do not meet, fails.

**Only model-checked.** Everything temporal beyond safety (`Completes` of every module). `RightSums` of the kernels that
signal each other by named barriers (`PingPongs`): an outline knows nothing of signals. `RightSums` of most inputs of the sorts.
That a given program has an outline is evaluated for the programs of `MCWaveLds`; it is not proved for a loop with any number of
rounds, since a program is a sequence put together by recursion.

## Not modelled

*In the modelled parts.* Set-up, printing, timing, and the arithmetic of validation. The values of matrix elements.
Caches, including `warmup_input_shard`: a store that has been waited for is visible to everybody who learns of it
through a counter, which is what the fences and the uncached windows of the code are for. `ccoBarrierAll` is a barrier.
Overflow of 64-bit counters. The divisions of `int_divide_mod` and `int_divide_mod_2`, which hang on the last bit of
the hardware's reciprocal. Addresses, swizzles and bank conflicts. That a wave may miss the completion of a named
barrier. When the taken data of a store to LDS leaves its register: at issue.

*Parts of their own.* Mode 2 and the RCCL exchange, which are a library call; the Python wrapper of latent attention and
its build cache, which takes a library that exists for one that has been built (`jit.py:185`); host programs, which set
up, launch and compare; samples of single instructions, conversions between number formats and micro-benchmarks, which
have no protocol. About a third of the repository's lines is eight copies of the vendored `half.hpp`; a good part of the
rest are generated headers (`vector_type_predef.hpp`, `to_seq_predef.hpp`), vendored `opus.hpp`, and listings of compiled
kernels.

## Plan

Done: the multi-GPU pipelines with all their modes, the proofs above, the pipelined kernels of one GPU, the wmma
kernels of one wave, the matrix-core samples, division and quantisation.

Next to model: two processes over one build directory
(`mla_agentic_v0/flash_mla/jit.py`).

Next to prove: outlines that count the signals of named barriers, and outlines of a loop's body that can be put one
after the other, for any number of rounds.
