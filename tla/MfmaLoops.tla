----------------------------- MODULE MfmaLoops -----------------------------
(***************************************************************************)
(* The configurable GEMM of hgemm_mfma as programs for WaveLds.  Loads,    *)
(* reads, stores to LDS and products are all assembler statements: nothing *)
(* is waited for but by the fences written.                                *)
(*                                                                         *)
(* A wave has one row of matrix tiles and c.n columns of them, and goes    *)
(* through c.k slices of a K tile: the slots of the traits are its c.n *   *)
(* c.k products.  Operand X is A here, Y is B.  The trait names are the    *)
(* source's; wave group g stands for the waves that read the g-th half of  *)
(* the tile of A.                                                          *)
(***************************************************************************)
EXTENDS WaveIsa

(* gemm_pipeline_traits *)
Traits(xFirst, second, slots, other, x, y, xPer, yPer, xDistance, yDistance, prio) ==
  [xFirst |-> xFirst, second |-> second, slots |-> slots, other |-> other, prio |-> prio,
   issues |-> [X |-> x, Y |-> y], per |-> [X |-> xPer, Y |-> yPer],
   distance |-> [X |-> xDistance, Y |-> yDistance]]

(* c has traits, the repeats n and k of the products, and the issues that load
   a tile of each operand; clears says that it clears its buffers. *)
Total(c) == c.n * c.k
Order(t) == IF t.xFirst THEN <<"X", "Y">> ELSE <<"Y", "X">>
UseDefault(t) ==
  t.slots = 0 /\ ~t.prio /\ \A o \in {"X", "Y"} : t.issues[o] = 0 /\ t.distance[o] = 0

(* The issues of an operand in a slot: a group every distance slots, the
   second operand from slot second on; the last group to claim a slot has it. *)
IssuesAt(t, o, slot) ==
  LET start == IF o = Order(t)[1] THEN 0 ELSE t.second
      groups == {i \in 0 .. t.issues[o] \div t.per[o] - 1 : start + i * t.distance[o] = slot}
  IN IF slot >= t.slots \/ groups = {} THEN <<>>
     ELSE [j \in 1 .. t.per[o] |-> Max(groups) * t.per[o] + j - 1]

(* How many issues of the second operand are younger than the last of the
   first, when all have been made: get_waitcnt_before. *)
WaitcntBefore(t, first, second) ==
  LET starts == {s \in 0 .. t.slots - 1 : IssuesAt(t, first, s) # <<>>}
      from == IF starts = {} THEN 0 ELSE Max(starts)
  IN FoldLeft(LAMBDA n, s : n + Len(IssuesAt(t, second, s)), 0, [i \in 1 .. t.slots - from |-> from + i - 1])

(* code(0) \o ... \o code(n - 1) *)
Each(code(_), n) == Chain(code, 0, n - 1, 1)

WaveBarrier == <<Lgkm(0), Bar>>

(* Issue i of a tile loads a part of it: of its rows; or, where A goes straight
   to a buffer of registers, the columns of slice i. *)
Part(o, i, k) == <<o, i, k>>
Issue(o, buf, i, k) == <<ByHand(Pull(<<o, buf, i>>, Part(o, i, k), 1))>>
LoadTile(c, o, buf, k) == Each(LAMBDA i : Issue(o, buf, i, k), c.loads[o])
Clear(c, o, buf) == Onlyif(c.clears, Each(LAMBDA i : <<Calc(<<o, buf, i>>, <<>>)>>, c.loads[o]))
Sst(c, o) == Each(LAMBDA i : <<Store(<<o, i>>, <<o, 0, i>>, {})>>, c.loads[o])

(* The issues a slot of the loop has for an operand.  The default is everything
   in the first slot, and in the last one of the first slice. *)
TryGld(c, o, buf, k, slot) ==
  LET t == c.traits
      default == IF o = Order(t)[1] THEN 0 ELSE c.n - 1
  IN IF UseDefault(t) THEN Onlyif(slot = default, LoadTile(c, o, buf, k))
     ELSE FoldLeft(LAMBDA code, i : code \o Issue(o, buf, i, k), <<>>, IssuesAt(t, o, slot))

Tries(c, buf, k, slot) ==
  LET try(o) == TryGld(c, o, buf[o], k, slot)
  IN try(Order(c.traits)[1]) \o try(Order(c.traits)[2])

(* The part of B with column n, and its register in a double buffer. *)
PartOf(c, n) == (n * c.loads.Y) \div c.n
SldB(c, n, buf) == <<ByHand(Read(<<"b", buf>>, <<"Y", PartOf(c, n)>>, 1))>>

(***************************************************************************)
(* gemm_pipeline_flat: both operands go through LDS.                       *)
(***************************************************************************)

(* Wait for the first operand while the second is on its way. *)
Publish(c, left) ==
  LET o == Order(c.traits)
  IN <<Vm(left)>> \o Sst(c, o[1]) \o <<Vm(0)>> \o Sst(c, o[2]) \o Clear(c, "X", 0)

NoneOf(c) == [X |-> 0, Y |-> 0]

FlatSlot(c, g, k, hot, i) ==
  LET n == i % c.n
      last == Total(c) - c.traits.other
      ahead == n # c.n - 1
  IN Onlyif(hot, Tries(c, NoneOf(c), k + 1, i))
     \o Onlyif(i = 0, WaveBarrier)
     \o Onlyif(n = 0, <<ByHand(Read(<<"a">>, <<"X", g>>, 1))>> \o SldB(c, 0, 0))
     \o Onlyif(ahead, SldB(c, n + 1, (n + 1) % 2))
     \o Onlyif(i <= last, <<Lgkm(IF ahead /\ i # last THEN 1 ELSE 0)>>)
     \o Onlyif(hot /\ i = last,
          WaveBarrier \o Publish(c, WaitcntBefore(c.traits, Order(c.traits)[1], Order(c.traits)[2])))
     \o <<Add(<<"c", n>>, << <<"a">>, <<"b", n % 2>> >>)>>

(* Everything is loaded at the start and read before the first product. *)
FlatPrio(c, g, k, hot) ==
  LET o == Order(c.traits)
      slice == Each(LAMBDA n : <<Add(<<"c", n>>, << <<"a">>, <<"b", PartOf(c, n)>> >>)>>, c.n)
  IN Onlyif(hot, LoadTile(c, o[1], 0, k + 1) \o LoadTile(c, o[2], 0, k + 1))
     \o WaveBarrier \o <<ByHand(Read(<<"a">>, <<"X", g>>, c.k))>>
     \o Each(LAMBDA i : <<ByHand(Read(<<"b", i>>, <<"Y", i>>, Total(c) \div c.loads.Y))>>, c.loads.Y)
     \o <<Lgkm(0)>> \o Each(LAMBDA s : slice, c.k)
     \o Onlyif(hot, WaveBarrier \o Publish(c, c.loads[o[2]]))

FlatGemm(c, g, k, hot) ==
  IF c.traits.prio THEN FlatPrio(c, g, k, hot)
  ELSE Each(LAMBDA i : FlatSlot(c, g, k, hot, i), Total(c))

Flat(c, g, loops) ==
  LET o == Order(c.traits)
  IN LoadTile(c, o[1], 0, 0) \o LoadTile(c, o[2], 0, 0) \o Publish(c, c.loads[o[2]])
     \o Chain(LAMBDA k : FlatGemm(c, g, k, TRUE), 0, loops - 2, 1) \o FlatGemm(c, g, loops - 1, FALSE)

FlatSums(c, g, loops) ==
  Table({"c"} \X (0 .. c.n - 1),
        LAMBDA r : [j \in 1 .. loops * c.k |->
                      << Part("X", g, (j - 1) \div c.k), Part("Y", PartOf(c, r[2]), (j - 1) \div c.k) >>])

(***************************************************************************)
(* gemm_pipeline_oneside_lds: A goes straight to two buffers of registers, *)
(* which change their roles with every K tile.                             *)
(***************************************************************************)

(* The issues of A that are younger than all of B. *)
LastOfA(c) == WaitcntBefore(c.traits, "Y", "X")

(* B is there, and is stored.  The clearing names buffer 0 of A whatever buffer
   the tile is in. *)
PublishB(c, left) == <<Vm(left)>> \o Sst(c, "Y") \o Clear(c, "X", 0)

OneSideSlot(c, k, hot, i) ==
  LET t == c.traits
      n == i % c.n
      next == (i + 1) % c.n
      last == i = Total(c) - 1
  IN Onlyif(hot, Tries(c, [X |-> (k + 1) % 2, Y |-> 0], k + 1, i))
     \o Onlyif(i = 0, WaveBarrier \o SldB(c, 0, 0))
     \o Onlyif(~last, SldB(c, next, (n + 1) % 2))
     \o Onlyif(i = 0 /\ ~t.xFirst /\ LastOfA(c) # 0, <<Vm(t.per.Y)>>)
     \o <<Lgkm(IF last THEN 0 ELSE 1)>>
     \o Onlyif(hot /\ i = Total(c) - t.other,
          WaveBarrier \o PublishB(c, IF t.xFirst THEN 0 ELSE LastOfA(c)))
     \o <<Add(<<"c", n>>, << <<"X", k % 2, i \div c.n>>, <<"b", n % 2>> >>)>>

OneSidePrio(c, k, hot) ==
  LET o == Order(c.traits)
      gld(x) == LoadTile(c, x, IF x = "X" THEN (k + 1) % 2 ELSE 0, k + 1)
      slice(s) == Each(LAMBDA n : <<Add(<<"c", n>>, << <<"X", k % 2, s>>, <<"b", PartOf(c, n)>> >>)>>, c.n)
  IN Onlyif(hot, gld(o[1]) \o gld(o[2])) \o WaveBarrier
     \o Each(LAMBDA i : <<ByHand(Read(<<"b", i>>, <<"Y", i>>, Total(c) \div c.loads.Y))>>, c.loads.Y)
     \o Onlyif(~c.traits.xFirst, <<Vm(IF hot THEN c.loads.X + c.loads.Y ELSE 0)>>)
     \o <<Lgkm(0)>> \o Each(slice, c.k)
     \o Onlyif(hot, WaveBarrier \o PublishB(c, IF c.traits.xFirst THEN 0 ELSE c.loads.X))

OneSideGemm(c, k, hot) ==
  IF c.traits.prio THEN OneSidePrio(c, k, hot)
  ELSE Onlyif(LastOfA(c) = 0, <<Vm(0)>>) \o Each(LAMBDA i : OneSideSlot(c, k, hot, i), Total(c))

OneSide(c, loops) ==
  LET o == Order(c.traits)
  IN LoadTile(c, o[1], 0, 0) \o LoadTile(c, o[2], 0, 0) \o PublishB(c, IF c.traits.xFirst THEN 0 ELSE c.loads.X)
     \o Chain(LAMBDA k : OneSideGemm(c, k, TRUE), 0, loops - 2, 1) \o OneSideGemm(c, loops - 1, FALSE)

OneSideSums(c, loops) ==
  Table({"c"} \X (0 .. c.n - 1),
        LAMBDA r : [j \in 1 .. loops * c.k |->
                      LET k == (j - 1) \div c.k
                      IN << Part("X", (j - 1) % c.k, k), Part("Y", PartOf(c, r[2]), k) >>])

(***************************************************************************)
(* epilogue_iterator: the products of one column of matrix tiles at a time *)
(* go through the same LDS, each wave storing rows of all of them.         *)
(***************************************************************************)

Shuffle(c, g, groups) ==
  Each(LAMBDA n :
         WaveBarrier \o <<Store(<<"C", g>>, <<"c", n>>, {<<o, i>> : o \in {"X", "Y"}, i \in 0 .. 7})>> \o WaveBarrier
         \o Chain(LAMBDA w : <<ByHand(Read(<<"gst", w>>, <<"C", w>>, 1))>>, 0, groups - 1, 1)
         \o Chain(LAMBDA w : <<Lgkm(groups - w - 1), Add(<<"dst">>, << <<"gst", w>> >>)>>, 0, groups - 1, 1),
       c.n)

(* want(w) is what wave w has in its accumulators. *)
ShuffleSums(c, want(_), groups) ==
  <<"dst">> :> [j \in 1 .. c.n * groups |->
                  << [terms |-> want((j - 1) % groups)[<<"c", (j - 1) \div groups>>], max |-> 0] >>]

=============================================================================
