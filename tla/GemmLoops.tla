----------------------------- MODULE GemmLoops -----------------------------
(***************************************************************************)
(* The main loops of the GEMM kernels as programs for WaveLds.  g is the   *)
(* wave group (0 or 1), loops the number of K tiles.                       *)
(* A definition with a suffix after an underscore is a faulty variant.     *)
(***************************************************************************)
EXTENDS WaveIsa

(* Tile t of the K dimension of half h of an operand. *)
A(h, t) == <<"A", h, t>>
B(h, t) == <<"B", h, t>>

(* What an accumulator of a GEMM is to receive. *)
Product(m, n, loops) == [t \in 1 .. loops |-> <<A(m, t - 1), B(n, t - 1)>>]

(***************************************************************************)
(* Quad-subtile GEMM.  A and B are halved; each of the four half tiles has *)
(* two slots, the tile being computed in slot x and the next one in y.     *)
(***************************************************************************)

QuadA == 2            (* a_buffer_load_insts *)
QuadB == 2            (* b_buffer_load_insts *)
QuadReadA == 8        (* a_ds_read_insts     *)
QuadReadB == 4        (* b_ds_read_insts     *)

LoadA(x, h, t) == <<Fetch(<<"A", x, h>>, A(h, t), QuadA)>>
LoadB(x, h, t) == <<Fetch(<<"B", x, h>>, B(h, t), QuadB)>>
TakeA(x, h) == <<Read(<<"a">>, <<"A", x, h>>, QuadReadA)>>
TakeB(h, x) == <<Read(<<"b", h>>, <<"B", x, h>>, QuadReadB)>>
Mma(m, n) == <<Add(<<"c", m, n>>, << <<"a">>, <<"b", n>> >>)>>

(* The tile in slot x, asked for from the first tile on. *)
QuadFill(x, t) == LoadB(x, 0, t) \o LoadA(x, 0, t) \o LoadB(x, 1, t) \o LoadA(x, 1, t)

QuadReady(x, t) ==
  <<Vm(QuadA + QuadB), Bar>>
  \o LoadB(1 - x, 0, t + 1) \o LoadA(1 - x, 0, t + 1) \o LoadB(1 - x, 1, t + 1)
  \o <<Vm(QuadA + 2 * QuadB), Bar>>
  \o TakeB(0, x) \o <<Bar>>

QuadHalf(t, x) ==
  LET y == 1 - x
  IN TakeA(x, 0) \o LoadA(y, 1, t + 1) \o <<Lgkm(QuadReadA), Bar>>
     \o <<Lgkm(0)>> \o Mma(0, 0) \o <<Bar>>
     \o TakeB(1, x) \o LoadB(x, 0, t + 2) \o <<Bar>>
     \o <<Lgkm(0)>> \o Mma(0, 1) \o <<Bar>>
     \o TakeA(x, 1) \o LoadA(x, 0, t + 2) \o <<Bar>>
     \o <<Lgkm(0)>> \o Mma(1, 0) \o <<Bar>>
     \o TakeB(0, y) \o LoadB(x, 1, t + 2) \o <<Vm(QuadA + 2 * QuadB), Bar>>
     \o Mma(1, 1) \o <<Bar>>

(* Tiles t, ..., t + loops - 3, two in each round; the first is in slot x. *)
QuadMain(t, x, loops) ==
  Chain(LAMBDA k : QuadHalf(k, x) \o QuadHalf(k + 1, 1 - x), t, t + loops - 3, 2)

(* The last two tiles, t in slot x. *)
QuadLast(t, x) ==
  LET y == 1 - x
  IN TakeA(x, 0) \o LoadA(y, 1, t + 1) \o <<Bar, Lgkm(0)>> \o Mma(0, 0) \o <<Bar>>
     \o TakeB(1, x) \o <<Bar, Lgkm(0)>> \o Mma(0, 1) \o <<Bar>>
     \o TakeA(x, 1) \o <<Vm(QuadA + QuadB), Bar, Lgkm(0)>> \o Mma(1, 0) \o Mma(1, 1) \o <<Bar>>
     \o TakeB(0, y) \o TakeA(y, 0) \o <<Vm(QuadA), Bar, Lgkm(0)>> \o Mma(0, 0) \o <<Bar>>
     \o TakeB(1, y) \o <<Vm(0), Bar, Lgkm(0)>> \o Mma(0, 1) \o <<Bar>>
     \o TakeA(y, 1) \o <<Bar, Lgkm(0)>> \o Mma(1, 0) \o Mma(1, 1) \o <<Bar>>

(* The second wave group stays one barrier behind, until the end. *)
Behind(g) == Onlyif(g = 1, <<Bar>>)
Rejoin(g) == Onlyif(g = 0, <<Bar>>)

(* The groups do not meet again. *)
Quad_Apart(g, loops) ==
  QuadFill(0, 0) \o Behind(g) \o QuadReady(0, 0) \o QuadMain(0, 0, loops) \o QuadLast(loops - 2, 0)

Quad(g, loops) ==
  QuadFill(0, 0) \o Behind(g) \o QuadReady(0, 0)
  \o QuadMain(0, 0, loops) \o QuadLast(loops - 2, 0) \o Rejoin(g)

QuadSums(g, loops) == Table({"c"} \X Groups \X Groups, LAMBDA r : Product(r[2], r[3], loops))

(* The same instructions with the same counts, in other programs. *)
GemmA2AQuad(g, loops) == Quad(g, loops)
FlatmmA16(g, loops) == Quad(g, loops)
FlatmmA8(g, loops) == Quad(g, loops)
Fp8EightWave(g, loops) == Quad(g, loops)

(***************************************************************************)
(* The quad-subtile GEMM of A2A+GEMM.  K is cut into one shard per rank;   *)
(* every shard starts the pipeline afresh, in the other slot, and what it  *)
(* waits for before ends in a barrier: all shards of another rank, in mode *)
(* 0 the rank's own as well.  The workgroup that submits the transfers of  *)
(* mode 4 has one more barrier between shards.                             *)
(***************************************************************************)

Shard(g, s, shards, loops, mode, posts) ==
  LET t == s * loops
      x == s % 2
  IN Onlyif(s # 0, <<Vm(0)>> \o Behind(g))
     \o Onlyif(s # 0 \/ mode = 0, <<Bar>>)
     \o QuadFill(x, t) \o Onlyif(s = 0, Behind(g)) \o QuadReady(x, t)
     \o QuadMain(t, x, loops) \o QuadLast(t + loops - 2, x)
     \o Onlyif(s + 1 < shards, <<Vm(0)>> \o Rejoin(g) \o Onlyif(posts, <<Bar>>))

Sharded(g, shards, loops, mode, posts) ==
  Chain(LAMBDA s : Shard(g, s, shards, loops, mode, posts), 0, shards - 1, 1) \o Rejoin(g)

(***************************************************************************)
(* Mono-tile GEMM.  A has two slots, of which each wave group loads and    *)
(* reads its own half; B goes round three slots, w being the one that is   *)
(* loaded, r0 and r1 those of the current and the next tile.               *)
(***************************************************************************)

MonoA == 3            (* a_buffer_load_insts *)
MonoB == 4            (* b_buffer_load_insts *)

MonoLoadA(g, x, t) == <<Fetch(<<"A", g, x>>, A(g, t), MonoA)>>
MonoLoadB(s, t) == <<Fetch(<<"B", s>>, B(0, t), MonoB)>>
MonoTake(g, x, s) == <<Read(<<"a">>, <<"A", g, x>>, 1), Read(<<"b">>, <<"B", s>>, 1)>>
MonoMma == <<Add(<<"c">>, << <<"a">>, <<"b">> >>)>>

MonoPrologue(g) ==
  MonoLoadA(g, 0, 0) \o MonoLoadB(0, 0) \o MonoLoadB(1, 1)
  \o <<Vm(MonoB), Bar>> \o Behind(g)

(* One tile: A comes from slot x, the next tile of A goes to y; B comes from
   slot r, the tile after the next goes to w. *)
MonoStep(g, t, x, y, r, w) ==
  MonoLoadA(g, y, t + 1) \o MonoTake(g, x, r) \o MonoLoadB(w, t + 2)
  \o <<Lgkm(0), Vm(MonoA + MonoB), Bar>>
  \o MonoMma \o <<Vm(MonoB), Bar>>

(* Before tile t, a multiple of two, the ring has turned t/2 times. *)
RingR0(t) == ((t \div 2) * 2) % 3
RingR1(t) == (RingR0(t) + 1) % 3
RingW(t) == (RingR0(t) + 2) % 3

MonoMain(g, loops) ==
  Chain(LAMBDA t : MonoStep(g, t, 0, 1, RingR0(t), RingW(t))
                   \o MonoStep(g, t + 1, 1, 0, RingR1(t), RingR0(t)),
        0, loops - 3, 2)

MonoLast(g, loops) ==
  LET t == loops - 2
  IN MonoTake(g, 0, RingR0(t)) \o MonoLoadA(g, 1, t + 1)
     \o <<Lgkm(0), Vm(MonoA), Bar>> \o MonoMma \o <<Vm(0), Bar>>
     \o MonoTake(g, 1, RingR1(t)) \o <<Lgkm(0), Bar>> \o MonoMma \o <<Bar>>

Mono(g, loops) ==
  MonoPrologue(g) \o MonoMain(g, loops) \o MonoLast(g, loops) \o Rejoin(g)

MonoSums(g, loops) == <<"c">> :> Product(g, 0, loops)

(***************************************************************************)
(* GEMM with block scales.  A half tile of the product is computed in one  *)
(* phase and added, times the scales of its tile, in the next.  c has the  *)
(* instruction counts of a kernel; sfb = 0 is for scales of B that come by *)
(* scalar loads.                                                           *)
(***************************************************************************)

SFA(h, t) == <<"sfa", h, t>>
SFB(h, t) == <<"sfb", h, t>>

ScaledFetchA(c, x, h, t) == <<Fetch(<<"A", x, h>>, A(h, t), c.a)>>
ScaledFetchB(c, x, h, t) == <<Fetch(<<"B", x, h>>, B(h, t), c.b)>>
ScaledTakeA(c, v, x, h) == <<Read(<<"a", v>>, <<"A", x, h>>, c.readA)>>
ScaledTakeB(c, x, h) == <<Read(<<"b">>, <<"B", x, h>>, c.readB)>>
PullSfa(c, x, h, t) == <<Pull(<<"sfa", x, h>>, SFA(h, t), c.sfa)>>
PullSfb(c, x, h, t) ==
  IF c.sfb = 0 THEN <<PullScalar(<<"sfb", x, h>>, SFB(h, t), 1)>>
  ELSE <<Pull(<<"sfb", x, h>>, SFB(h, t), c.sfb)>>

ScaledMma(v) == <<Calc(<<"v", v>>, << <<"a", v>>, <<"b">> >>)>>
ScaleTile(m, n, x) == <<Add(<<"c", m, n>>, << <<"v", m>>, <<"sfa", x, m>>, <<"sfb", x, n>> >>)>>

ScaledWait(c) == Vm(2 * c.a + 2 * c.b + 2 * c.sfa + 2 * c.sfb)

(* ahead: B(1, 1) is fetched before the second wait, not after it. *)
ScaledPrologue(c, g, ahead) ==
  LET last == ScaledFetchB(c, 1, 1, 1)
  IN PullSfa(c, 0, 0, 0) \o PullSfb(c, 0, 0, 0) \o ScaledFetchA(c, 0, 0, 0) \o ScaledFetchB(c, 0, 0, 0)
     \o PullSfa(c, 0, 1, 0) \o PullSfb(c, 0, 1, 0) \o ScaledFetchA(c, 0, 1, 0) \o ScaledFetchB(c, 0, 1, 0)
     \o Behind(g)
     \o <<Vm(c.a + c.b + c.sfa + c.sfb), Bar>>
     \o PullSfa(c, 1, 0, 1) \o PullSfb(c, 1, 0, 1)
     \o ScaledFetchA(c, 1, 0, 1) \o ScaledFetchB(c, 1, 0, 1) \o ScaledFetchA(c, 1, 1, 1)
     \o Onlyif(ahead, last)
     \o <<Vm(2 * c.a + (IF ahead THEN 2 ELSE 1) * c.b + c.sfa + c.sfb), Bar>>
     \o ScaledTakeA(c, 0, 0, 0) \o ScaledTakeB(c, 0, 0) \o Onlyif(~ahead, last)
     \o <<Lgkm(0), Bar>> \o ScaledMma(0) \o <<Bar>>

(* The rest of tile t in slot x, and the first product of the next tile. *)
ScaledHalf(c, t, x) ==
  LET y == 1 - x
  IN PullSfb(c, y, 1, t + 1) \o ScaledTakeA(c, 1, x, 1) \o ScaledFetchA(c, x, 0, t + 2)
     \o <<Lgkm(0), ScaledWait(c), Bar>> \o ScaledMma(1) \o ScaleTile(0, 0, x) \o <<Bar>>
     \o PullSfa(c, y, 1, t + 1) \o ScaledTakeB(c, x, 1) \o ScaledFetchB(c, x, 0, t + 2)
     \o <<Lgkm(0), ScaledWait(c), Bar>> \o ScaledMma(0) \o ScaleTile(1, 0, x) \o <<Bar>>
     \o PullSfb(c, x, 0, t + 2) \o ScaledTakeA(c, 0, y, 0) \o ScaledFetchA(c, x, 1, t + 2)
     \o <<Lgkm(c.readA), ScaledWait(c), Bar>> \o ScaledMma(1) \o ScaleTile(0, 1, x) \o <<Bar>>
     \o PullSfa(c, x, 0, t + 2) \o ScaledTakeB(c, y, 0) \o ScaledFetchB(c, x, 1, t + 2)
     \o <<Lgkm(0), ScaledWait(c), Bar>> \o ScaledMma(0) \o ScaleTile(1, 1, x) \o <<Bar>>

ScaledLast(c, t) ==
  PullSfb(c, 1, 1, t + 1) \o ScaledTakeA(c, 1, 0, 1)
  \o <<Lgkm(0), ScaledWait(c), Bar>> \o ScaledMma(1) \o ScaleTile(0, 0, 0) \o <<Bar>>
  \o PullSfa(c, 1, 1, t + 1) \o ScaledTakeB(c, 0, 1)
  \o <<Lgkm(0), Vm(c.a + c.b + 2 * c.sfa + 2 * c.sfb), Bar>>
  \o ScaledMma(0) \o ScaleTile(1, 0, 0) \o ScaledMma(1) \o ScaleTile(0, 1, 0) \o <<Bar>>
  \o ScaledTakeA(c, 0, 1, 0) \o ScaledTakeB(c, 1, 0)
  \o <<Lgkm(0), Vm(c.b + 2 * c.sfa + 2 * c.sfb), Bar>> \o ScaledMma(0) \o ScaleTile(1, 1, 0) \o <<Bar>>
  \o ScaledTakeA(c, 1, 1, 1) \o <<Lgkm(0), Vm(0), Bar>> \o ScaledMma(1) \o ScaleTile(0, 0, 1) \o <<Bar>>
  \o ScaledTakeB(c, 1, 1) \o <<Lgkm(0), Bar>>
  \o ScaledMma(0) \o ScaleTile(1, 0, 1) \o ScaledMma(1) \o ScaleTile(0, 1, 1) \o ScaleTile(1, 1, 1) \o <<Bar>>

Scaled(c, ahead, g, loops) ==
  ScaledPrologue(c, g, ahead)
  \o Chain(LAMBDA t : ScaledHalf(c, t, 0) \o ScaledHalf(c, t + 1, 1), 0, loops - 3, 2)
  \o ScaledLast(c, loops - 2) \o Rejoin(g)

Blockscale(g, loops) ==
  Scaled([a |-> 2, b |-> 2, sfa |-> 2, sfb |-> 0, readA |-> 4, readB |-> 2], FALSE, g, loops)
Blockscale1x128x1(g, loops) ==
  Scaled([a |-> 1, b |-> 2, sfa |-> 1, sfb |-> 1, readA |-> 2, readB |-> 2], TRUE, g, loops)

ScaledSums(g, loops) ==
  Table({"c"} \X Groups \X Groups,
        LAMBDA r : [t \in 1 .. loops |->
                     << <<A(r[2], t - 1), B(r[3], t - 1)>>, SFA(r[2], t - 1), SFB(r[3], t - 1)>>])

(***************************************************************************)
(* Flat GEMM without loads into LDS.  A has one slot for each slice of a K *)
(* tile, B one for each slice of half a tile.  All waves load their parts  *)
(* into registers and store them when the slots' last readers are through. *)
(* The two halves of A share every instruction, and are one here.          *)
(***************************************************************************)

PullTileA(t) == Chain(LAMBDA k : <<Pull(<<"ta", k>>, A(k, t), 1)>>, 0, 3, 1)
PullHalfB(h, t) == Chain(LAMBDA k : <<Pull(<<"tb", k>>, B(2 * h + k, t), 1)>>, 0, 1, 1)
StoreTileA == Chain(LAMBDA k : <<Store(<<"A", k>>, <<"ta", k>>, {})>>, 0, 3, 1)
StoreHalfB == Chain(LAMBDA k : <<Store(<<"B", k>>, <<"tb", k>>, {})>>, 0, 1, 1)

TakeSlice(x, k) == <<Read(<<"a", x>>, <<"A", k>>, 1)>>
TakeHalfB == <<Read(<<"b", 0>>, <<"B", 0>>, 1), Read(<<"b", 1>>, <<"B", 1>>, 1)>>
MmaSlice(x) == <<Add(<<"c">>, << <<"a", x>>, <<"b", x>> >>), Bar>>

FlatmmPrologue(g) ==
  PullTileA(0) \o StoreTileA \o PullHalfB(0, 0) \o StoreHalfB \o Sync
  \o Behind(g) \o PullHalfB(1, 0) \o <<Bar>>

FlatmmTile(t) ==
  PullTileA(t + 1) \o TakeSlice(0, 0) \o TakeHalfB \o Sync \o MmaSlice(0)
  \o StoreHalfB \o TakeSlice(1, 1) \o TakeSlice(0, 2) \o <<Bar, Lgkm(0)>> \o MmaSlice(1)
  \o PullHalfB(0, t + 1) \o TakeHalfB \o TakeSlice(1, 3) \o Sync \o MmaSlice(0)
  \o StoreTileA \o StoreHalfB \o PullHalfB(1, t + 1) \o <<Bar>> \o MmaSlice(1)

FlatmmLast ==
  TakeHalfB \o TakeSlice(0, 0) \o Sync \o MmaSlice(0)
  \o StoreHalfB \o TakeSlice(1, 1) \o Sync \o MmaSlice(1)
  \o TakeHalfB \o TakeSlice(0, 2) \o TakeSlice(1, 3) \o Sync \o MmaSlice(0) \o MmaSlice(1)

FlatmmStored(g, loops) ==
  FlatmmPrologue(g) \o Chain(FlatmmTile, 0, loops - 2, 1) \o FlatmmLast \o Rejoin(g)

FlatmmSums(loops) ==
  <<"c">> :> [n \in 1 .. 4 * loops |-> <<A((n - 1) % 4, (n - 1) \div 4), B((n - 1) % 4, (n - 1) \div 4)>>]

(***************************************************************************)
(* Split-K GEMM.  Two waves load the K tiles of a split into four slots,   *)
(* two others compute.  A load instruction stands for all those of an      *)
(* operand's tile, since every wait leaves whole tiles.                    *)
(***************************************************************************)

SplitKSlots == 4      (* prefetch_k_iter *)

SplitKLoad(t) ==
  <<Fetch(<<"A", t % SplitKSlots>>, A(0, t), 1), Fetch(<<"B", t % SplitKSlots>>, B(0, t), 1)>>
SplitKTake(t, x) ==
  <<Read(<<"a", x>>, <<"A", t % SplitKSlots>>, 1), Read(<<"b", x>>, <<"B", t % SplitKSlots>>, 1)>>
SplitKMma(x) == <<Add(<<"c">>, << <<"a", x>>, <<"b", x>> >>)>>

(* On the edge of the matrix, where loads do not land in order, everything is
   waited for. *)
SplitKLeave(edge, tiles) == <<Vm(IF edge THEN 0 ELSE 2 * tiles), Bar>>

SplitKProducer(edge, loops) ==
  Chain(SplitKLoad, 0, SplitKSlots - 1, 1)
  \o Chain(LAMBDA t : SplitKLeave(edge, SplitKSlots - 1 - t), 0, SplitKSlots - 3, 1)
  \o Chain(LAMBDA t : SplitKLoad(t + 2) \o SplitKLeave(edge, 2), SplitKSlots - 2, loops - 3, 1)
  \o SplitKLeave(edge, 1) \o <<Vm(0), Bar>>

(* A tile is read while the one before it is multiplied. *)
SplitKStep(t) == <<Bar>> \o SplitKTake(t, t % 2) \o <<Lgkm(2)>> \o SplitKMma((t - 1) % 2)

SplitKConsumer(loops) ==
  LET last == Max({SplitKSlots - 2, loops - 2})
      x == (last + 1) % 2
  IN <<Bar>> \o SplitKTake(0, 0) \o Chain(SplitKStep, 1, last, 1)
     \o <<Bar>> \o SplitKTake(loops - 1, x) \o <<Lgkm(2)>> \o SplitKMma(1 - x)
     \o <<Lgkm(0)>> \o SplitKMma(x)

SplitKSums(loops) == <<"c">> :> Product(0, 0, loops)

=============================================================================
