---------------------------- MODULE MCTileOrder ----------------------------
(***************************************************************************)
(* Families of launches for TileOrder.                                     *)
(***************************************************************************)
EXTENDS TileOrder

Scatter(order, rows, peers, perPeers, tails) ==
  {[order |-> order, tm |-> m, tn |-> p * q + t, peers |-> p, perPeer |-> q, me |-> r] :
     m \in rows, p \in peers, q \in perPeers, t \in tails, r \in {0, 1}}

Plain(order, rows, columns) ==
  {[order |-> order, tm |-> m, tn |-> n, peers |-> 1, perPeer |-> 0, me |-> 1] :
     m \in rows, n \in columns}

(* The shapes the documentation measures, in small: 31 or 32 tile columns, an
   even number of tile rows for the stripes, shards of 1024 columns. *)
A2AGemmShapes ==
  Plain("rows", 1 .. 3, {31, 32}) \cup Plain("workers", 1 .. 2, {28, 31, 32})
  \cup Plain("shards", {4, 8}, {16})

GemmA2AShapes ==
  Scatter("roundrobin", 1 .. 3, {4, 8}, {1, 3}, {0, 2})
  \cup Scatter("stripe", {1, 2, 4}, {4, 8}, {1, 3}, {0, 2})

ColumnShapes == Plain("bycolumn", {1, 3}, {1, 4})
GroupedShapes == Plain("grouped", {1, 7, 8, 9, 16, 19}, {1, 2, 5})
RowShapes == Plain("byrow", {1, 3}, {1, 4})

(* K = 7168 in tiles of 128, in splits of four tiles or more. *)
KSplits(parts) == {[order |-> "splits", tm |-> 56, tn |-> 1, peers |-> p, perPeer |-> 0, me |-> 0] : p \in parts}
SplitShapes == KSplits((1 .. 9) \cup {14})

(* Also fewer tokens than splits. *)
TokenShapes ==
  {[order |-> "tokens", tm |-> n, tn |-> h, peers |-> p, perPeer |-> 0, me |-> 0] :
     n \in {0, 3, 16, 65}, h \in {1, 4}, p \in {1, 2, 7}}

(* Other launches the hosts accept, which are not covered: M and N are only
   asked to be multiples of 256, a K shard to be an even number, at least two,
   of tiles of 64.  There may be as many splits as K tiles. *)
OddStripes == Scatter("stripe", {3}, {4}, {1}, {0})
OtherColumns == Plain("rows", {2}, {8, 33})
ManySplits == KSplits({11, 13, 20})
ShortShards == Plain("shards", {4}, {2})

=============================================================================
