----------------------------- MODULE TileOrder -----------------------------
(***************************************************************************)
(* The index arithmetic by which a linear task number becomes an output    *)
(* tile, or a K step becomes a shard and a tile of it.  A launch works     *)
(* through the tasks 0 .. Tasks-1; every tile must come up exactly once,   *)
(* or the result has a hole or a tile is accumulated twice.  (The chunk    *)
(* order is in ChunkSubmit.)                                               *)
(*                                                                         *)
(*   bycolumn    bf16 and flat GEMMs: down a column of tiles first         *)
(*   byrow       fp8 GEMMs: along a row of tiles first                     *)
(*   roundrobin  gemm_a2a: columns of different peers alternate            *)
(*   stripe      gemm_a2a --fused-lsa-stripe: pairs of rows, peers rotated *)
(*   rows        a2a_gemm: 31 or 32 tile columns                           *)
(*   workers     a2a_gemm mode 1: 28 column workers per tile row           *)
(*   shards      a2a_gemm: K steps of all ranks' shards, own shard first   *)
(*   splits      mem_gemm_a2a: K tiles of a split                          *)
(*   tokens      latent attention: a split's tokens, for a block of heads  *)
(*   grouped     hgemm_mfma: down the columns of eight rows at a time      *)
(***************************************************************************)
EXTENDS Integers, FiniteSets

(* A launch s has tm tile rows and tn tile columns, the first peers * perPeer
   of them scattered to peers; me is this rank.  For "shards", tm ranks with tn
   K tiles each; for "splits" and "tokens", tm K tiles or tokens in peers splits,
   and tn blocks of heads. *)

(***************************************************************************)
(* The decodings.  The suffixed ones are faulty variants.                  *)
(***************************************************************************)

Scattered(s) == s.peers * s.perPeer

ByColumn(s, t) == <<t % s.tm, t \div s.tm>>
ByRow(s, t) == <<t \div s.tn, t % s.tn>>

(* Columns go round the peers; the tail columns follow in order. *)
RoundRobin_Overlap(s, t) ==
  LET seq == t \div s.tm
      inner == seq \div s.peers
  IN <<t % s.tm, IF seq < Scattered(s) THEN (seq % s.peers) + inner ELSE seq>>
RoundRobin(s, t) ==
  LET seq == t \div s.tm
      inner == seq \div s.peers
  IN <<t % s.tm, IF seq < Scattered(s) THEN (seq % s.peers) * s.perPeer + inner ELSE seq>>

(* opus_direct_stripe_tile: two rows of a column, then the next peer. *)
StripeRows(s) == IF s.tm < 2 THEN s.tm ELSE 2

Stripe(s, t) ==
  LET rows == StripeRows(s)
      seq == t \div rows
      peer == ((seq % s.peers) + s.me) % s.peers
      groups == s.tm \div rows
      group == (seq \div s.peers) % groups
      inner == (seq \div s.peers) \div groups
      tail == t - Scattered(s) * s.tm
  IN IF t < Scattered(s) * s.tm
     THEN <<group * rows + (t % rows), peer * s.perPeer + inner>>
     ELSE <<tail % s.tm, Scattered(s) + (tail \div s.tm)>>

(* Shift and mask for 32 columns, division by 31 for everything else. *)
Rows(s, t) == IF s.tn = 32 THEN <<t \div 32, t % 32>> ELSE <<t \div 31, t % 31>>

(* A column worker computes its own column and the one 28 further, if any. *)
ColumnWorkers == 28
Workers(s, t) ==
  LET n == t % ColumnWorkers
  IN {<<t \div ColumnWorkers, c>> : c \in {n} \cup {d \in {n + ColumnWorkers} : d < s.tn}}

(* The K order takes every shard to have 1024 / 64 tiles. *)
ShardTiles == 16
Shards(s, t) == <<(s.me + (t \div ShardTiles)) % s.tm, t % ShardTiles>>

(* K tiles or tokens of a split: enough for all of them. *)
PerSplit(s) == (s.tm + s.peers - 1) \div s.peers

(* All splits have equally many tiles but the last, which has what is left; if
   that is nothing it returns at once. *)
Splits(s, t) ==
  LET full == PerSplit(s)
      mine == IF t < s.peers - 1 THEN full ELSE s.tm - (s.peers - 1) * full
  IN {<<t * full + i, 0>> : i \in 0 .. mine - 1}

(* Equally many tokens for each split, as far as there are. *)
Tokens(s, t) ==
  LET split == t \div s.tn
      each == PerSplit(s)
      first == split * each
      last == IF first + each < s.tm THEN first + each ELSE s.tm
  IN {<<i, t % s.tn>> : i \in first .. last - 1}

(* tile_scheduler: the last group of rows has what is left of them. *)
GroupRows == 8
Grouped(s, t) ==
  LET row == t \div s.tn
      rows == IF row < s.tm - (s.tm % GroupRows) THEN GroupRows ELSE s.tm % GroupRows
      local == (row % GroupRows) * s.tn + (t % s.tn)
  IN <<(row \div GroupRows) * GroupRows + (local % rows), local \div rows>>

TilesOf(s, t) ==
  CASE s.order = "bycolumn" -> {ByColumn(s, t)}
    [] s.order = "byrow" -> {ByRow(s, t)}
    [] s.order = "roundrobin" -> {RoundRobin(s, t)}
    [] s.order = "stripe" -> {Stripe(s, t)}
    [] s.order = "rows" -> {Rows(s, t)}
    [] s.order = "workers" -> Workers(s, t)
    [] s.order = "shards" -> {Shards(s, t)}
    [] s.order = "splits" -> Splits(s, t)
    [] s.order = "tokens" -> Tokens(s, t)
    [] s.order = "grouped" -> {Grouped(s, t)}

(* The number of tasks of a launch. *)
Tasks(s) ==
  CASE s.order = "workers" -> s.tm * ColumnWorkers
    [] s.order = "shards" -> s.tm * ShardTiles
    [] s.order = "splits" -> s.peers
    [] s.order = "tokens" -> s.peers * s.tn
    [] OTHER -> s.tm * s.tn

Grid(s) == (0 .. s.tm - 1) \X (0 .. s.tn - 1)

(***************************************************************************)
(* The launches each order is made for.                                    *)
(***************************************************************************)

(* Tile rows and columns, as many as there are. *)
HasTiles(s) == s.tm \in Nat \ {0} /\ s.tn \in Nat \ {0}

(* Columns scattered to peers, and room for them. *)
Scatters(s) ==
  /\ s.tm \in Nat \ {0} /\ s.peers \in Nat \ {0} /\ s.perPeer \in Nat \ {0}
  /\ s.tn \in Nat /\ s.tn >= Scattered(s)

Suits(s) ==
  \/ s.order \in {"bycolumn", "byrow", "grouped"} /\ HasTiles(s)
  \/ s.order = "roundrobin" /\ Scatters(s)
  \/ s.order = "stripe" /\ Scatters(s) /\ s.me \in 0 .. s.peers - 1 /\ (s.tm = 1 \/ s.tm % 2 = 0)
  \/ s.order = "rows" /\ HasTiles(s) /\ s.tn \in {31, 32}
  \/ s.order = "workers" /\ HasTiles(s) /\ s.tn \in ColumnWorkers .. 2 * ColumnWorkers
  \/ s.order = "shards" /\ HasTiles(s) /\ s.tn = ShardTiles /\ s.me \in 0 .. s.tm - 1
  \/ /\ s.order = "splits" /\ HasTiles(s) /\ s.tn = 1 /\ s.peers \in Nat \ {0}
     /\ (s.peers - 1) * PerSplit(s) <= s.tm
  \/ s.order = "tokens" /\ s.tm \in Nat /\ s.tn \in Nat \ {0} /\ s.peers \in Nat \ {0}

(* No task lands outside the tiles of the launch, and every tile comes up for
   exactly one task. *)
Covers(s) ==
  LET tasks == 0 .. Tasks(s) - 1
      tiles == [t \in tasks |-> TilesOf(s, t)]
  IN /\ \A t \in tasks : tiles[t] \subseteq Grid(s)
     /\ \A c \in Grid(s) : Cardinality({t \in tasks : c \in tiles[t]}) = 1

=============================================================================
