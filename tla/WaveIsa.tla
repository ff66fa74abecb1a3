------------------------------ MODULE WaveIsa ------------------------------
(***************************************************************************)
(* The instructions the kernels of WaveLds are written in, and what those  *)
(* that only touch registers do.                                           *)
(*                                                                         *)
(* Data is what it stands for: a tile fetched from global memory is a      *)
(* tuple that names it, a product the tuple of its factors, an accumulator *)
(* the sequence of what has been added to it.                              *)
(***************************************************************************)
EXTENDS LaneOps

CONSTANT Torn       (* what a race leaves behind                           *)

Groups == {0, 1}    (* of waves                                            *)

(***************************************************************************)
(* Memory.  count is the number of machine instructions: waits count them. *)
(***************************************************************************)

(* async_load: global memory to LDS *)
Fetch(slot, data, count) == [op |-> "fetch", slot |-> slot, data |-> data, count |-> count, from |-> <<>>]
(* the same, the rows taken from a page number in a register *)
Paged(slot, page, count) == [op |-> "fetch", slot |-> slot, count |-> count, from |-> <<page>>]
(* global memory to a register *)
Pull(into, data, count) ==
  [op |-> "pull", into |-> into, data |-> data, count |-> count, from |-> <<>>, kind |-> "known"]
(* LDS to a register *)
Read(into, slot, count) ==
  [op |-> "read", into |-> into, slot |-> slot, count |-> count, from |-> <<>>, kind |-> "known"]
(* either in an assembler statement, so that the compiler does not know what to
   wait for *)
ByHand(i) == [i EXCEPT !.kind = "raw"]
(* a Pull by the scalar unit, likewise *)
PullScalar(into, data, count) == [Pull(into, data, count) EXCEPT !.op = "scalar", !.kind = "scalar"]

(* a register to LDS; others are the slots that share its bytes *)
Store(slot, from, others) == [op |-> "store", slot |-> slot, from |-> <<from>>, others |-> others]

Vm(left) == [op |-> "vm", left |-> left]          (* s_waitcnt_vmcnt       *)
Lgkm(left) == [op |-> "lgkm", left |-> left]      (* s_waitcnt_lgkmcnt     *)
Bar == [op |-> "bar"]                             (* s_barrier             *)
Sync == <<Lgkm(0), Bar>>                          (* __syncthreads         *)

(* s_barrier_signal to a named barrier, and s_barrier_wait until its members'
   signals are complete.  A wave joins the barrier before it waits; that it
   may miss a completion in between is not modelled. *)
Signalled(barrier) == [op |-> "signal", barrier |-> barrier]
Await(barrier, members) == [op |-> "await", barrier |-> barrier, members |-> members]

(***************************************************************************)
(* Matrix products and sums.                                               *)
(***************************************************************************)

Calc(into, from) == [op |-> "calc", into |-> into, from |-> from]
Add(into, from) == [op |-> "add", into |-> into, from |-> from]

(***************************************************************************)
(* Values spread over the lanes.                                           *)
(***************************************************************************)

Lanes(into, from, stages) == [op |-> "lanes", into |-> into, from |-> from, stages |-> stages]
(* A network: its registers, with the input in one of them; its comparators; what
   it leaves in the first n registers of a lane. *)
Feed(net, from, input) == [op |-> "feed", into |-> net, from |-> <<from>>, input |-> input]
Network(net, code) == [op |-> "network", into |-> net, from |-> <<net>>, code |-> code]
Unload(into, net, n, lane) == [op |-> "unload", into |-> into, from |-> <<net>>, n |-> n, lane |-> lane]
(* Values and what they carry, apart: which come with one value, in no order. *)
Unpack(into, from, unit) == [op |-> "unpack", into |-> into, from |-> <<from>>, unit |-> unit]
Tally(into, from, buckets, group) ==
  [op |-> "tally", into |-> into, from |-> <<from>>, buckets |-> buckets, group |-> group]
OfLane(into, from, lane) == [op |-> "oflane", into |-> into, from |-> <<from>>, lane |-> lane]
(* Lane by lane; a scalar register is the same for all. *)
U32(f, into, x, y, bits) == [op |-> "u32", f |-> f, into |-> into, from |-> <<x, y>>, bits |-> bits]
(* v_mfma_f32_32x32: of two fragments a lane and sixteen sums a lane *)
Multiply(into, x, y) == [op |-> "multiply", into |-> into, from |-> <<into, x, y>>]
Fill(into, value) == [op |-> "fill", into |-> into, from |-> <<>>, value |-> value]
(* Stores of all lanes to memory: what is left at which place. *)
StoreLanes(into, from, place) == [op |-> "storelanes", into |-> into, from |-> <<from>>, place |-> place]
Popcount(into, from) == [op |-> "popcount", into |-> into, from |-> <<from>>]

(***************************************************************************)
(* Online softmax, on the wave's scores s, running maximum m, row sum l,   *)
(* weights p and output o.  A maximum is a version number: exponentials    *)
(* taken against one version may only be added to sums that stand for the  *)
(* same version or have been scaled to it by r.                            *)
(***************************************************************************)

Score(s, keys) == [op |-> "score", into |-> s, from |-> keys]    (* Q K            *)
Mask(s, tile) == [op |-> "mask", into |-> s, tile |-> tile, from |-> <<>>]
Begin(s) == [op |-> "begin", into |-> s, from |-> <<>>]     (* first maximum       *)
Lift(s) == [op |-> "lift", into |-> s, from |-> <<>>]       (* maximum, if needed  *)
Raise(s) == [op |-> "raise", into |-> s, from |-> <<>>, guarded |-> FALSE]  (* always *)
ScaleO == [op |-> "scale", into |-> <<"o">>, from |-> <<>>]
ScaleL == [op |-> "scale", into |-> <<"l">>, from |-> <<>>]
Finish(s) == [op |-> "finish", into |-> s, from |-> <<>>, guarded |-> FALSE] (* rest of exp, l, p *)
Weigh(values) == [op |-> "weigh", into |-> <<"o">>, from |-> values]  (* P V           *)
Normalize == [op |-> "normalize", into |-> <<"o">>, from |-> <<>>]
ZeroSum(sum) == [op |-> "clear", into |-> sum, from |-> <<>>]
Lse == [op |-> "lse", into |-> <<"lse">>, from |-> <<>>]    (* m + log l           *)

(* Scores of entries that are missing are minus infinity.  Where all are, and all
   before were, a difference from the maximum is no number, unless that case is
   guarded against. *)
Invalid(s, entries) == [op |-> "invalid", into |-> s, from |-> <<entries>>]
Guarded(i) == [i EXCEPT !.guarded = TRUE]

Missing == <<"missing">>                                 (* no entry at all      *)
Lowest == -1                                             (* no maximum yet       *)
Undefined == -2                                          (* ... less itself      *)
Nothing == [tile |-> <<>>, masks |-> {}]                 (* weights of zero      *)
NaN == [tile |-> <<>>, masks |-> {Torn}]                 (* weights that are no number *)

(* What the division by l leaves in o. *)
Normalized == <<"normalized">>

(* Versions are counted modulo this: every sum is used, and so compared, at
   least once between two changes of the maximum. *)
Versions == 3
Newer(m) == (m + 1) % Versions

(* What several reads of one tile, slice by slice, amount to. *)
Whole(reg, from) ==
  IF \A i, j \in DOMAIN from : reg[from[i]] = reg[from[j]] THEN reg[from[1]] ELSE Torn

Set(reg, r, v) == (r :> v) @@ reg

(* Scores against maximum m: attn_sub_row and the first half of attn_exp2. *)
Against(reg, s, m) == Set(reg, s, [reg[s] EXCEPT !.max = m, !.halves = 1])

(* A cleared accumulator: what has been added to it, against which maximum. *)
Zero == [terms |-> <<>>, max |-> 0]

(* Scaling a sum by exp2(old - new) is right if it stands for old. *)
Scale(reg, sum, r) ==
  Set(reg, sum, [reg[sum] EXCEPT
                   !.max = r[2],
                   !.terms = IF reg[sum].max = r[1] THEN @ ELSE Append(@, Torn)])

Into(reg, sum, term, m) ==
  Set(reg, sum, [reg[sum] EXCEPT
                   !.terms = Append(@, IF reg[sum].max = m THEN term ELSE Torn)])

(* l and p take the scores' exponentials once both halves are there. *)
Exponentials(x, guarded) ==
  CASE x.halves # 1 -> Torn
    [] x.halves = 1 /\ ~x.void -> [tile |-> x.tile, masks |-> x.masks]
    [] x.halves = 1 /\ x.void -> IF x.max = Lowest /\ ~guarded THEN NaN ELSE Nothing

Weighted(reg, sum, weights, term, m) == IF weights = Nothing THEN reg ELSE Into(reg, sum, term, m)

(* The maximum before and after; minus infinity is not raised. *)
Change(reg, s, guarded) ==
  LET old == reg[<<"m">>]
      new == IF reg[s].void THEN old ELSE Newer(old)
  IN <<IF new = Lowest /\ ~guarded THEN Undefined ELSE old, new>>

Raised(reg, s, r) == Against((<<"m">> :> r[2] @@ <<"r">> :> r) @@ reg, s, r[2])

(* The maximum of the wave's rows exceeds m by more than the threshold, or
   not: then m is kept, and nothing need be scaled. *)
Lifted(reg, s) ==
  LET r == Change(reg, s, FALSE)
  IN Scale(Scale(Raised(reg, s, r), <<"o">>, r), <<"l">>, r)

(* A sum that is no number is not above zero: then, too, the result is minus
   infinity. *)
LogSum(reg) ==
  LET l == reg[<<"l">>]
  IN [l EXCEPT !.terms = IF l.max # reg[<<"m">>] THEN <<Torn>> ELSE IF NaN \in ToSet(@) THEN <<>> ELSE @]

Carried(v, unit) ==
  LET keys == [k \in DOMAIN v |-> v[k] \div unit]
  IN <<keys, [x \in Range(keys) |-> {v[k] % unit : k \in {j \in DOMAIN v : keys[j] = x}}]>>

Spread(i, from) ==
  CASE i.op = "lanes" -> {IF Len(from) = 1 THEN Through(i.stages, from[1])
                          ELSE ThroughWith(i.stages, from[1], from[2])}
    [] i.op = "network" -> {Compares(i.code, from[1])}
    [] i.op = "feed" -> {Fresh(from[1], i.input)}
    [] i.op = "unload" -> {Results(from[1], i.n, i.lane)}
    [] i.op = "unpack" -> {Carried(from[1], i.unit)}
    [] i.op = "tally" -> Tables(from[1], i.buckets, i.group)
    [] i.op = "oflane" -> {from[1][i.lane]}
    [] i.op = "popcount" -> {Population(from[1])}
    [] i.op = "multiply" -> {MatrixSums(from[1], from[2], from[3])}
    [] i.op = "fill" -> {i.value}
    [] i.op = "storelanes" -> {UNION {{<<i.place[l][k], from[1][l][k]>> : k \in DOMAIN i.place[l]} : l \in DOMAIN i.place}}
    [] i.op = "u32" -> {[l \in DOMAIN from[1] |-> Alu32(i.f, from[1][l], from[2][l], i.bits)]}

(* The register files an instruction may leave behind. *)
Alu(i, reg) ==
  LET s == i.into
      from == [k \in DOMAIN i.from |-> reg[i.from[k]]]
  IN CASE i.op = "calc" -> {Set(reg, s, from)}
       [] i.op = "add" -> {Into(reg, s, from, 0)}
       [] i.op \in {"lanes", "feed", "network", "unload", "unpack", "tally", "oflane", "popcount", "u32", "multiply",
                        "fill", "storelanes"} ->
            {Set(reg, s, x) : x \in IF Torn \in ToSet(from) THEN {Torn} ELSE Spread(i, from)}
       [] i.op = "score" ->
            {Set(reg, s, [tile |-> Whole(reg, i.from), masks |-> {}, max |-> 0, halves |-> 0,
                            void |-> FALSE])}
       [] i.op = "mask" -> {Set(reg, s, [reg[s] EXCEPT !.masks = @ \cup {i.tile}])}
       [] i.op = "invalid" ->
            {Set(reg, s, [reg[s] EXCEPT !.masks = @ \cup {from[1]}, !.void = from[1] = Missing])}
       [] i.op = "begin" -> {Against(reg, s, reg[<<"m">>])}
       [] i.op = "lift" -> {Against(reg, s, reg[<<"m">>]), Lifted(reg, s)}
       [] i.op = "raise" -> {Raised(reg, s, Change(reg, s, i.guarded))}
       [] i.op = "scale" -> {Scale(reg, s, reg[<<"r">>])}
       [] i.op = "finish" ->
            LET e == Exponentials(reg[s], i.guarded)
            IN {Weighted(Set(reg, <<"p">>, [value |-> e, max |-> reg[s].max]), <<"l">>, e, e, reg[s].max)}
       [] i.op = "weigh" ->
            LET p == reg[<<"p">>]
            IN {Weighted(reg, <<"o">>, p.value, <<p.value, Whole(reg, i.from)>>, p.max)}
       [] i.op = "clear" -> {Set(reg, s, [terms |-> <<>>, max |-> reg[<<"m">>]])}
       [] i.op = "lse" -> {Set(reg, s, LogSum(reg))}
       [] i.op = "normalize" -> {Into(reg, <<"o">>, Normalized, reg[<<"l">>].max)}

(***************************************************************************)
(* Putting programs together.                                              *)
(***************************************************************************)

Onlyif(c, code) == IF c THEN code ELSE <<>>

(* part(first) \o part(first + step) \o ..., as far as last *)
Chain(part(_), first, last, step) ==
  FoldLeft(LAMBDA code, k : code \o part(first + k * step), <<>>,
           [k \in 1 .. (last - first) \div step + 1 |-> k - 1])

=============================================================================
