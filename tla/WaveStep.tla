------------------------------ MODULE WaveStep ------------------------------
(***************************************************************************)
(* What one instruction does to a wave, and what the stores and loads of   *)
(* the others do to it meanwhile.  A wave m is a record of                 *)
(*                                                                         *)
(*   m.vm    the loads it has outstanding, oldest first                    *)
(*   m.ds    the accesses of LDS it has outstanding, oldest first          *)
(*   m.lds   what each slot it loads or stores holds of it                 *)
(*   m.reg   its registers                                                 *)
(*                                                                         *)
(* and now the number of barriers passed by the wave that executes.        *)
(***************************************************************************)
EXTENDS WaveIsa

(* The slots a wave loads or stores, for a part or whole. *)
OwnSlots(code) == {i.slot : i \in {j \in ToSet(code) : j.op \in {"fetch", "store"}}}

Starting(code, reg) == [vm |-> <<>>, ds |-> <<>>, lds |-> [s \in OwnSlots(code) |-> Torn], reg |-> reg]

(* count machine instructions, the last of which completes the load. *)
Entry(slot, data, into, kind, now) ==
  [slot |-> slot, data |-> data, into |-> into, kind |-> kind, since |-> now]
Queue(e, count) == [k \in 1 .. count - 1 |-> [e EXCEPT !.slot = <<>>, !.data = <<>>, !.into = <<>>]] \o <<e>>

(***************************************************************************)
(* Outstanding loads.  They return in order, so waiting for one is waiting *)
(* for all older ones; where they do not (ordered is FALSE), only a wait   *)
(* for all of them says anything.  A load may land at any time between its *)
(* issue and the wait that covers it; what it writes counts as Torn        *)
(* meanwhile.                                                              *)
(***************************************************************************)

Left(q, k) == SubSeq(q, Len(q) - k + 1, Len(q))
Youngest(q, k) == IF k < Len(q) THEN Left(q, k) ELSE q

(* The slots of a wave when all its loads but the last k have landed. *)
Landed(m, k) ==
  LET gone == SubSeq(m.vm, 1, Len(m.vm) - k)
      kept == ToSet(Youngest(m.vm, k))
      news(s) == {n \in DOMAIN gone : gone[n].slot = s}
      busy(s) == \E e \in kept : e.slot = s
      landed == {s \in DOMAIN m.lds : news(s) # {} /\ ~ busy(s)}
  IN [s \in landed |-> gone[Max(news(s))].data] @@ m.lds

Landing(m, k) == [m EXCEPT !.lds = Landed(m, k), !.vm = Youngest(@, k)]

(* A wait until at most this many are left. *)
LoadsAwaited(m, left, ordered) == IF ordered \/ left = 0 THEN Landing(m, left) ELSE m

(* How many of a queue's entries are younger than all those for registers rs
   that the compiler knows of. *)
After(q, rs) ==
  LET mine == {n \in DOMAIN q : q[n].into \in rs /\ q[n].kind = "known"}
  IN IF mine = {} THEN Len(q) ELSE Len(q) - Max(mine)

(* A register that is on its way behind the compiler's back is not to be used. *)
Operand(m, r) ==
  IF \E e \in ToSet(m.vm) \cup ToSet(m.ds) : e.into = r /\ e.kind # "known" THEN Torn ELSE m.reg[r]

Operands(m, i) ==
  [r \in ToSet(i.from) |-> Operand(m, r)] @@ m.reg

(* The compiler makes an instruction wait for its own operands.  Swift reads are
   done when a product is, whatever it was of. *)
AwaitOperands(m, i, swift) ==
  LET rs == ToSet(i.from)
  IN [Landing(m, After(m.vm, rs)) EXCEPT
        !.ds = IF swift /\ i.op = "add" THEN SelectSeq(@, LAMBDA e : e.kind = "store")
               ELSE Youngest(@, After(@, rs))]

(***************************************************************************)
(* Who writes to a slot spoils what is still to be read of it.             *)
(***************************************************************************)

Spoilt(m, slots, now, reads) ==
  LET spoilt == {e.into : e \in {d \in ToSet(m.ds) : d.slot \in slots /\ d.since + reads > now}}
  IN [m EXCEPT !.reg = [r \in DOMAIN @ \cap spoilt |-> Torn] @@ @]

(* A load into LDS spoils the slot until it lands. *)
HasFetched(m, i, now, reads) ==
  LET rs == ToSet(i.from)
      data == IF i.from = <<>> THEN i.data ELSE Operand(m, i.from[1])
  IN Spoilt([m EXCEPT !.lds = [Landed(m, After(m.vm, rs)) EXCEPT ![i.slot] = Torn],
                      !.vm = Youngest(@, After(@, rs)) \o Queue(Entry(i.slot, data, <<>>, "known", now), i.count)],
            {i.slot}, now, reads)

(* A store is done for its own wave when it issues, since LDS executes a wave's
   accesses in order; for the others only when it has been waited for. *)
HasStored(m, i, now) ==
  [m EXCEPT !.lds = (i.slot :> Operand(m, i.from[1])) @@ [s \in DOMAIN @ \cap i.others |-> Torn] @@ @,
            !.ds = Append(@, Entry(i.slot, <<>>, <<>>, "store", now))]

(* The same store, as it finds another wave. *)
Overwritten(m, i, now, reads) ==
  Spoilt([m EXCEPT !.lds = [s \in DOMAIN @ \cap i.others |-> Torn] @@ @],
         {i.slot} \cup i.others, now, reads)

(* What another wave sees of slot s where m loads or stores it: a store that has
   not been waited for may not be through. *)
Shown(m, s, now, reads) ==
  IF \E e \in ToSet(m.ds) : e.kind = "store" /\ e.slot = s /\ e.since + reads > now THEN Torn ELSE m.lds[s]

(* All parts must be of one tile. *)
Agreed(parts) == IF \A x, y \in parts : x = y THEN CHOOSE x \in parts : TRUE ELSE Torn

(***************************************************************************)
(* The instructions that concern only their own wave.                      *)
(***************************************************************************)

HasPulled(m, i, now) ==
  [m EXCEPT !.vm = @ \o Queue(Entry(<<>>, <<>>, i.into, i.kind, now), i.count),
            !.reg = Set(@, i.into, i.data)]

(* A scalar load returns out of order: only a wait for everything covers it. *)
HasPulledScalar(m, i, now) ==
  [m EXCEPT !.ds = Append(@, Entry(<<>>, <<>>, i.into, i.kind, now)),
            !.reg = Set(@, i.into, i.data)]

(* A read sees the slot as it is when it issues, here x, unless the slot is loaded
   before the read has been waited for. *)
HasRead(m, i, now, x) ==
  [m EXCEPT !.ds = @ \o Queue(Entry(i.slot, <<>>, i.into, i.kind, now), i.count),
            !.reg = Set(@, i.into, x)]

ReadsAwaited(m, left) ==
  LET old == SubSeq(m.ds, 1, Len(m.ds) - left)
      scalars == SelectSeq(old, LAMBDA e : e.kind = "scalar")
  IN [m EXCEPT !.ds = IF left = 0 THEN <<>> ELSE scalars \o Youngest(@, left)]

(* Through a barrier, the wave's now-th.  latency says of some slots after how
   many barriers a load into them has landed at the latest, and so what is older. *)
Due(e, now, latency) == e.slot \in latency.of /\ e.since + latency.barriers <= now

PastBarrier(m, now, latency) ==
  LET due == {n \in DOMAIN m.vm : \E k \in n .. Len(m.vm) : Due(m.vm[k], now, latency)}
  IN Landing(m, Len(m.vm) - Cardinality(due))

Computed(m, i, swift) ==
  {[AwaitOperands(m, i, swift) EXCEPT !.reg = r] : r \in Alu(i, Operands(m, i))}

=============================================================================
