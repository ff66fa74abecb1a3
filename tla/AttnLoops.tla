----------------------------- MODULE AttnLoops -----------------------------
(***************************************************************************)
(* The attention kernels as programs for WaveLds.  A wave is of a kind     *)
(* <<g, diag>>: its group, the second of which runs a barrier behind, and  *)
(* the first tile of keys that reaches past its queries and so is to be    *)
(* masked.  max is the number of tiles of keys the workgroup goes through. *)
(***************************************************************************)
EXTENDS WaveIsa

K(t) == <<"K", t>>
V(t) == <<"V", t>>
S(x) == <<"s", x>>

Unmasked == 1000      (* diag of a kernel that is not causal               *)

(* What is to be added to l and to o. *)
Weights(t, diag) == [tile |-> K(t), masks |-> IF t >= diag THEN {t} ELSE {}]
RowSum(max, diag) == [t \in 1 .. max |-> Weights(t - 1, diag)]
Output(max, diag) == [t \in 1 .. max |-> <<Weights(t - 1, diag), V(t - 1)>>] \o <<Normalized>>

Masked(x, t, diag) == Onlyif(t >= diag, <<Mask(S(x), t)>>)

(***************************************************************************)
(* D = 128.  K and V have two slots each, of tiles x and 1 - x.            *)
(***************************************************************************)

KLoads == 2           (* k_buffer_load_insts *)
VLoads == 2           (* v_buffer_load_insts *)

FetchK(x, t) == <<Fetch(<<"K", x>>, K(t), KLoads)>>
FetchV(x, t) == <<Fetch(<<"V", x>>, V(t), VLoads)>>
TakeK(x) == <<Read(<<"k">>, <<"K", x>>, 1)>>
TakeV(x) == <<Read(<<"v">>, <<"V", x>>, 1)>>
Scores(x) == <<Score(S(x), << <<"k">> >>)>>
Values == <<Weigh(<< <<"v">> >>)>>

D128Prologue(g, diag) ==
  FetchK(0, 0) \o <<Vm(0), Lgkm(0), Bar>>
  \o FetchK(1, 1) \o FetchV(0, 0) \o TakeK(0) \o <<Lgkm(0), Vm(VLoads)>>
  \o Onlyif(g = 1, <<Bar>>)
  \o Scores(0) \o Masked(0, 0, diag) \o <<Begin(S(0)), Bar>>
  \o FetchK(0, 2)

(* Tile t: its scores, then the output of the tile before.  The tiles in the
   second slot of the main loop lie before any wave's diagonal. *)
D128Half(t, diag) ==
  LET x == t % 2
  IN FetchV(x, t) \o TakeK(x) \o <<Lgkm(0), Vm(KLoads + VLoads), Bar>>
     \o Scores(x) \o <<Finish(S(1 - x)), Bar>>
     \o FetchK(x, t + 2) \o TakeV(1 - x) \o Onlyif(x = 0, Masked(x, t, diag))
     \o <<Lgkm(0), Vm(KLoads + VLoads), Bar>>
     \o Values \o <<Lift(S(x)), Bar>>

D128Main(max, diag) ==
  Chain(LAMBDA t : D128Half(t, diag) \o D128Half(t + 1, diag), 1, max - 5, 2)

D128Last(g, max, diag) ==
  FetchV(1, max - 3) \o TakeK(1) \o <<Lgkm(0), Vm(KLoads + VLoads), Bar>>
  \o Scores(1) \o <<Finish(S(0)), Bar>>
  \o FetchK(1, max - 1) \o TakeV(0) \o Masked(1, max - 3, diag)
  \o <<Lgkm(0), Vm(KLoads + VLoads), Bar>>
  \o Values \o <<Raise(S(1)), ScaleO, Bar>>
  \o FetchV(0, max - 2) \o TakeK(0) \o <<Lgkm(0), Vm(KLoads + VLoads), Bar>>
  \o Scores(0) \o <<ScaleL, Finish(S(1)), Bar>>
  \o TakeV(1) \o Masked(0, max - 2, diag) \o <<Lgkm(0), Vm(VLoads), Bar>>
  \o Values \o <<Raise(S(0)), ScaleO, Bar>>
  \o FetchV(1, max - 1) \o TakeK(1) \o <<Lgkm(0), Vm(VLoads), Bar>>
  \o Scores(1) \o <<ScaleL, Finish(S(0)), Bar>>
  \o TakeV(0) \o Masked(1, max - 1, diag) \o <<Lgkm(0), Vm(0), Bar>>
  \o Values \o <<Raise(S(1)), ScaleL, Finish(S(1)), ScaleO, Bar>>
  \o TakeV(1) \o <<Lgkm(0), Bar>>
  \o Values \o <<Normalize>>
  \o Onlyif(g = 0, <<Bar>>)

D128(kind, max) ==
  D128Prologue(kind[1], kind[2]) \o D128Main(max, kind[2]) \o D128Last(kind[1], max, kind[2])

(***************************************************************************)
(* D = 512.  A tile is too large for the registers: a product starts with  *)
(* two slices and reads the others while it computes.                      *)
(***************************************************************************)

SliceLoads == 4       (* buffer load instructions of a tile of K or V      *)
SliceReads == 2       (* k_ds_read_insts; v_ds_read_insts is twice that    *)

FetchWideK(x, t) == <<Fetch(<<"K", x>>, K(t), SliceLoads)>>
FetchWideV(x, t) == <<Fetch(<<"V", x>>, V(t), SliceLoads)>>
KSlot(x) == <<"K", x>>
VSlot(x) == <<"V", x>>
FirstK(slot) == <<Read(<<"k", 0>>, slot, SliceReads), Read(<<"k", 1>>, slot, SliceReads)>>
FirstV(slot) == <<Read(<<"v", 0>>, slot, 2 * SliceReads), Read(<<"v", 1>>, slot, 2 * SliceReads)>>

compute_qk(x, slot) ==
  <<Read(<<"k", 2>>, slot, SliceReads), Lgkm(SliceReads),
    Read(<<"k", 3>>, slot, SliceReads), Lgkm(SliceReads),
    Lgkm(0), Score(S(x), [n \in 1 .. 4 |-> <<"k", n - 1>>])>>

compute_pv(slot) ==
  <<Read(<<"v", 2>>, slot, 2 * SliceReads), Lgkm(2 * SliceReads),
    Read(<<"v", 3>>, slot, 2 * SliceReads), Lgkm(2 * SliceReads),
    Lgkm(0), Weigh([n \in 1 .. 4 |-> <<"v", n - 1>>])>>

AwaitK(left) == <<Lgkm(SliceReads), Vm(left), Bar>>
AwaitV(left) == <<Lgkm(2 * SliceReads), Vm(left), Bar>>

D512Prologue(g, diag) ==
  FetchWideK(0, 0) \o <<Vm(0), Lgkm(0), Bar>>
  \o FetchWideK(1, 1) \o FetchWideV(0, 0) \o FirstK(KSlot(0)) \o <<Lgkm(SliceReads), Vm(SliceLoads)>>
  \o compute_qk(0, KSlot(0))
  \o Onlyif(g = 1, <<Bar>>)
  \o Masked(0, 0, diag) \o <<Begin(S(0)), Bar>>

D512Half(t, diag) ==
  LET x == t % 2
  IN FetchWideK(1 - x, t + 1) \o FirstK(KSlot(x)) \o AwaitK(SliceLoads)
     \o compute_qk(x, KSlot(x)) \o <<Finish(S(1 - x)), Bar>>
     \o FetchWideV(x, t) \o FirstV(VSlot(1 - x)) \o Onlyif(x = 0, Masked(x, t, diag)) \o AwaitV(SliceLoads)
     \o compute_pv(VSlot(1 - x)) \o <<Lift(S(x)), Bar>>

D512Main(max, diag) ==
  Chain(LAMBDA t : D512Half(t, diag) \o D512Half(t + 1, diag), 1, max - 5, 2)

D512Last(g, max, diag) ==
  FetchWideK(0, max - 2) \o FirstK(KSlot(1)) \o AwaitK(SliceLoads)
  \o compute_qk(1, KSlot(1)) \o <<Finish(S(0)), Bar>>
  \o FetchWideV(1, max - 3) \o FirstV(VSlot(0)) \o Masked(1, max - 3, diag) \o AwaitV(SliceLoads)
  \o compute_pv(VSlot(0)) \o <<Raise(S(1)), ScaleO, Bar>>
  \o FetchWideK(1, max - 1) \o FirstK(KSlot(0)) \o AwaitK(SliceLoads)
  \o compute_qk(0, KSlot(0)) \o <<ScaleL, Finish(S(1)), Bar>>
  \o FetchWideV(0, max - 2) \o FirstV(VSlot(1)) \o Masked(0, max - 2, diag) \o AwaitV(SliceLoads)
  \o compute_pv(VSlot(1)) \o <<Raise(S(0)), ScaleO, Bar>>
  \o FirstK(KSlot(1)) \o AwaitK(SliceLoads)
  \o compute_qk(1, KSlot(1)) \o <<ScaleL, Finish(S(0)), Bar>>
  \o FetchWideV(1, max - 1) \o FirstV(VSlot(0)) \o Masked(1, max - 1, diag) \o AwaitV(0)
  \o compute_pv(VSlot(0)) \o <<Raise(S(1)), ScaleL, Finish(S(1)), ScaleO, Bar>>
  \o FirstV(VSlot(1)) \o <<Lgkm(2 * SliceReads), Bar>>
  \o compute_pv(VSlot(1)) \o <<Normalize>>
  \o Onlyif(g = 0, <<Bar>>)

D512(kind, max) ==
  D512Prologue(kind[1], kind[2]) \o D512Main(max, kind[2]) \o D512Last(kind[1], max, kind[2])

(***************************************************************************)
(* Paged attention, D = 512.  A tile of the cache is both keys and values; *)
(* four slots take the tiles in turn.  The rows of a tile come from page   *)
(* numbers that have to be loaded first.  The prefix of n tiles and the    *)
(* extension, in segments 0 and 1, share the sums; ragged says that the    *)
(* last tile of a segment reaches past its end.                            *)
(***************************************************************************)

Cached(seg, t) == <<"kv", seg, t>>
Slot(t) == <<"kv", t % 4>>

load_kv_page(seg, t) == <<Pull(<<"page", t % 4>>, Cached(seg, t), 1)>>
FetchCached(t) == <<Paged(Slot(t), <<"page", t % 4>>, SliceLoads)>>

TakeKeys(t, left) == FirstK(Slot(t)) \o <<Lgkm(SliceReads)>> \o left \o <<Bar>>
TakeValues(t, left) == FirstV(Slot(t)) \o <<Lgkm(2 * SliceReads)>> \o left \o <<Bar>>

PagedScores(t) == compute_qk(t % 2, Slot(t))
PagedOutput(t) == compute_pv(Slot(t))
Out(x) == <<Finish(S(x)), Bar>>

mask_oob(t, n, ragged) == Onlyif(ragged /\ t = n - 1, <<Mask(S(t % 2), t)>>)

(* Up to two tiles: one after the other, the groups together. *)
le2_tiles(seg, n, ragged) ==
  Chain(LAMBDA t :
          load_kv_page(seg, t) \o <<Paged(Slot(0), <<"page", t % 4>>, SliceLoads), Vm(0), Bar>>
          \o FirstK(Slot(0)) \o <<Lgkm(SliceReads)>> \o compute_qk(t % 2, Slot(0))
          \o mask_oob(t, n, ragged) \o <<Raise(S(t % 2)), ScaleL, Finish(S(t % 2)), ScaleO>>
          \o FirstV(Slot(0)) \o <<Lgkm(2 * SliceReads)>> \o compute_pv(Slot(0)) \o <<Bar>>,
        0, n - 1, 1)

PagedPrologue(g, seg) ==
  load_kv_page(seg, 0) \o FetchCached(0) \o <<Vm(0), Lgkm(0), Bar>>
  \o load_kv_page(seg, 1) \o FetchCached(1) \o load_kv_page(seg, 2)
  \o FirstK(Slot(0)) \o <<Lgkm(SliceReads), Vm(1)>> \o PagedScores(0)
  \o Onlyif(g = 1, <<Bar>>) \o <<Lift(S(0)), Bar>>

(* The scores of tile t, while the next tile and the page numbers of the one
   behind it are loaded. *)
PagedAhead(seg, t) ==
  <<Vm(0)>> \o FetchCached(t + 1) \o load_kv_page(seg, t + 2) \o TakeKeys(t, <<Vm(SliceLoads + 1)>>)
  \o PagedScores(t) \o Out((t + 1) % 2)
  \o TakeValues(t - 1, <<Vm(1)>>)

PagedMain(seg, first, last) ==
  Chain(LAMBDA t : PagedAhead(seg, t) \o PagedOutput(t - 1) \o <<Lift(S(t % 2)), Bar>>, first, last, 1)

(* The last two tiles; the sums may still be to be scaled. *)
PagedLast(g, n, scale, ragged) ==
  LET x == n % 2
      y == (n - 1) % 2
  IN <<Vm(0)>> \o FetchCached(n - 1) \o TakeKeys(n - 2, <<Vm(SliceLoads)>>)
     \o PagedScores(n - 2) \o scale \o Out(y)
     \o TakeValues(n - 3, <<Vm(0)>>) \o PagedOutput(n - 3) \o <<Raise(S(x)), ScaleO, Bar>>
     \o TakeKeys(n - 1, <<>>) \o PagedScores(n - 1) \o <<ScaleL>> \o Out(x)
     \o FirstV(Slot(n - 2)) \o mask_oob(n - 1, n, ragged) \o <<Lgkm(2 * SliceReads), Bar>>
     \o PagedOutput(n - 2) \o <<Raise(S(y)), ScaleL, Finish(S(y)), ScaleO, Bar>>
     \o TakeValues(n - 1, <<>>) \o PagedOutput(n - 1) \o Onlyif(g = 0, <<Bar>>)

PagedOdd(g, seg, n, ragged) ==
  PagedPrologue(g, seg) \o PagedMain(seg, 1, n - 3) \o PagedLast(g, n, <<>>, ragged)

PagedEven(g, seg, n, ragged) ==
  PagedPrologue(g, seg) \o PagedMain(seg, 1, n - 4)
  \o PagedAhead(seg, n - 3) \o PagedOutput(n - 4) \o <<Raise(S(1)), ScaleO, Bar>>
  \o PagedLast(g, n, <<ScaleL>>, ragged)

Segment(g, seg, n, ragged) ==
  IF n <= 2 THEN le2_tiles(seg, n, ragged)
  ELSE IF n % 2 = 1 THEN PagedOdd(g, seg, n, ragged) ELSE PagedEven(g, seg, n, ragged)

pa_prefill(g, n, ragged) ==
  Segment(g, 0, n[1], ragged) \o Segment(g, 1, n[2], ragged) \o <<Normalize>>

PagedSums(n, ragged) ==
  LET tiles(f(_, _)) == [t \in 1 .. n[1] |-> f(0, t - 1)] \o [t \in 1 .. n[2] |-> f(1, t - 1)]
      weights(seg, t) == [tile |-> Cached(seg, t),
                          masks |-> IF ragged /\ t = n[seg + 1] - 1 THEN {t} ELSE {}]
  IN <<"l">> :> tiles(weights)
     @@ <<"o">> :> tiles(LAMBDA seg, t : <<weights(seg, t), Cached(seg, t)>>) \o <<Normalized>>

=============================================================================
