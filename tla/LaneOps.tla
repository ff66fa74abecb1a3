------------------------------ MODULE LaneOps ------------------------------
(***************************************************************************)
(* Values spread over the lanes of a wave: functions of the lane.  Lanes   *)
(* exchange what they hold in stages.  In each stage every lane takes the  *)
(* value of another one and combines it with its own.                      *)
(***************************************************************************)
EXTENDS Integers, SequencesExt, Division

(* The lane whose number differs in the bit worth m. *)
Flip(l, m) == IF (l \div m) % 2 = 0 THEN l + m ELSE l - m
Swap(lanes, m) == [l \in lanes |-> Flip(l, m)]

(* Data-parallel primitives that reach beyond their row of lanes yield zero, or
   whatever was in the register. *)
FromZero == -1
FromAnywhere == -2
Row == 16
Shl(lanes, n, outside) == [l \in lanes |-> IF (l % Row) + n < Row THEN l + n ELSE outside]
Shr(lanes, n, outside) == [l \in lanes |-> IF l % Row >= n THEN l - n ELSE outside]

(* [k \in keys |-> f(k)], written so that TLC computes it once. *)
Table(keys, f(_)) == FoldSet(LAMBDA k, t : t @@ (k :> f(k)), <<>>, keys)

(* How a lane combines. *)
PickStage(source, high) == [source |-> source, how |-> "pick", high |-> high]
SumStage(source) == [source |-> source, how |-> "sum"]
(* Values are compared by what they are divided by unit: the rest comes along. *)
MergeStage(source, unit) == [source |-> source, how |-> "merge", unit |-> unit]

(* med3 with an infinity: the greater one or the smaller one. *)
Pick(high, a, b) == IF high = (a > b) THEN a ELSE b

(* A sum is the number of times each lane's input is in it. *)
Unknown == <<>>
Added(a, b) == IF Unknown \in {a, b} THEN Unknown ELSE [l \in DOMAIN a |-> a[l] + b[l]]

(* Batcher's odd-even merge of two descending sequences of 2^k elements: rounds
   of exchanges at distance 2^k, 2^(k-1), ..., 1. *)
Exchange(z, d, odd, unit) ==
  LET lower(i) == i > 0 /\ i + d <= Len(z) /\ ((i - 1) \div d) % 2 = odd
      pick(high, i) == IF high = (z[i] \div unit > z[i + d] \div unit) THEN z[i] ELSE z[i + d]
  IN [i \in DOMAIN z |->
        IF lower(i) THEN pick(TRUE, i) ELSE IF lower(i - d) THEN pick(FALSE, i - d) ELSE z[i]]

OddEven(x, y, unit) ==
  LET k == CHOOSE e \in 0 .. 5 : 2^e = Len(x)
  IN FoldLeft(LAMBDA z, j : Exchange(z, 2^(k - j), 1, unit), Exchange(x \o y, 2^k, 0, unit),
              [j \in 1 .. k |-> j])

Combine(stage, l, other, own) ==
  CASE stage.how = "pick" -> Pick(stage.high[l], own, other)
    [] stage.how = "sum" -> Added(own, other)
    [] stage.how = "merge" -> OddEven(other, own, stage.unit)

Taken(x, source) ==
  LET zero(v) == [i \in DOMAIN v |-> 0]
  IN [l \in DOMAIN x |-> CASE source[l] >= 0 -> x[source[l]]
                           [] source[l] = FromZero -> zero(x[l])
                           [] source[l] = FromAnywhere -> Unknown]

Joined(stage, x, y) == [l \in DOMAIN x |-> Combine(stage, l, y[l], x[l])]

(* All stages in turn; what the first one takes may be given from outside. *)
Through(stages, x) == FoldLeft(LAMBDA v, s : Joined(s, v, Taken(v, s.source)), x, stages)
ThroughWith(stages, x, y) == Through(Tail(stages), Joined(Head(stages), x, y))

(***************************************************************************)
(* Networks in assembler.  <<greater, smaller, a, b, move>> is a v_max_f32 *)
(* and the v_min_f32 behind it, of registers a, whose lanes are moved, and *)
(* b; <<n>> is an s_nop of n.  A register may be moved once two            *)
(* instructions lie behind the one that wrote it; sooner, what is moved is *)
(* something else.                                                         *)
(***************************************************************************)

Stay == 0
Elsewhere == 99
Moves(lanes, m) == IF m <= 2 THEN Swap(lanes, m) ELSE Shl(lanes, m, FromZero)
Moved(x, m) ==
  IF m = Stay THEN x ELSE LET source == Moves(DOMAIN x, m) IN [l \in DOMAIN x |-> IF source[l] < 0 THEN 0 ELSE x[source[l]]]

(* The registers, when each was written, and the time. *)
Written(s, into, high, c) ==
  LET lanes == DOMAIN s.value[c[3]]
      settled == c[5] = Stay \/ s.now - s.since[c[3]] > 2
      a == IF settled THEN Moved(s.value[c[3]], c[5]) ELSE [l \in lanes |-> Elsewhere]
      b == s.value[c[4]]
  IN [value |-> (into :> Table(lanes, LAMBDA l : Pick(high, a[l], b[l]))) @@ s.value,
      since |-> (into :> s.now) @@ s.since, now |-> s.now + 1]

Compared(s, c) ==
  IF Len(c) = 1 THEN [s EXCEPT !.now = @ + c[1] + 1] ELSE Written(Written(s, c[1], TRUE, c), c[2], FALSE, c)

Compares(code, s) == FoldLeft(Compared, s, code)
Fresh(x, input) == [value |-> input :> [l \in DOMAIN x |-> x[l][1]], since |-> input :> -3, now |-> 0]

(* What a network leaves in registers 0 to n - 1 of a lane. *)
Results(s, n, lane) == [i \in 1 .. n |-> s.value[i - 1][lane]]

(***************************************************************************)
(* Counting equal values.  Each lane finds out which lanes of its group    *)
(* hold its value, as a mask of differences to its own number, and writes  *)
(* the mask into the cell of its value and its group.  Lanes of one cell   *)
(* write different masks, and one of them stays.                           *)
(***************************************************************************)

(* Of two lane numbers, which have six bits. *)
Xor(a, b) == MapThenSumSet(LAMBDA k : (((a \div 2^k) + (b \div 2^k)) % 2) * 2^k, 0 .. 5)

Equals(v, l, group) == {k \in 0 .. group - 1 : v[Xor(l, k)] = v[l]}

Tables(v, buckets, group) ==
  LET lanes == DOMAIN v
      cells == {<<v[l], l \div group>> : l \in lanes}
      writers(c) == {l \in lanes : <<v[l], l \div group>> = c}
      columns == {l \div group : l \in lanes}
      masks(c) == {Equals(v, l, group) : l \in writers(c)}
      kept == FoldLeft(LAMBDA fs, c : {(c :> m) @@ f : f \in fs, m \in masks(c)}, {<<>>}, SetToSeq(cells))
  IN {[b \in buckets |-> [n \in columns |-> IF <<b, n>> \in cells THEN f[<<b, n>>] ELSE {}]] : f \in kept}

(* The bits set in the rows of a table. *)
Population(table) ==
  [b \in DOMAIN table |-> FoldLeft(LAMBDA s, n : s + Cardinality(table[b][n]), 0, SetToSeq(DOMAIN table[b]))]

(* The matrix core: lane l holds a fragment of row l % 32 of each operand, one of
   the two that are multiplied by its half of the wave.  Of the sums it has those
   of column l % 32, in groups of four rows that alternate between the halves. *)
MatrixSums(sums, x, y) ==
  [l \in DOMAIN sums |->
     [i \in DOMAIN sums[l] |->
        LET row == 8 * (i \div 4) + 4 * (l \div 32) + (i % 4)
            column == l % 32
        IN Append(sums[l][i], {{x[row + h], y[column + h]} : h \in {0, 32}})]]

=============================================================================
