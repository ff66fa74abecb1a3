------------------------ MODULE ChunkSubmit_proofs ------------------------
(***************************************************************************)
(* Proofs about ChunkSubmit, for every number of workgroups and launches   *)
(* and every shape: the lock keeps the submissions to a peer's queue apart,*)
(* the count of a chunk stands for its tiles.                              *)
(***************************************************************************)
EXTENDS ChunkSubmit, FiniteSetTheorems, TLAPS

Places == {"returned", "fetch", "compute", "count", "acquire", "put", "release"}
Holding(w) == pc[w] \in {"put", "release"}

Typed ==
  /\ counter \in Nat
  /\ pc \in [Workgroups -> Places]
  /\ tile \in [Workgroups -> Nat]
  /\ lock \in [Peer -> 0 .. 1]

(* A workgroup counts, locks and submits for a peer there is. *)
Aimed ==
  \A w \in Workgroups :
    pc[w] \in {"count", "acquire", "put", "release"} => Dst(w) \in Peer

(* Whoever is between the exchange and the release store has set the lock of
   its peer, and nobody else is there for the same peer. *)
Locked ==
  \A w \in Workgroups :
    Holding(w) =>
      /\ lock[Dst(w)] = 1
      /\ \A v \in Workgroups : Holding(v) /\ Dst(v) = Dst(w) => v = w

LockInv == Typed /\ Aimed /\ Locked

(* A workgroup has a tile from the draw until it draws again. *)
Working(w) == pc[w] \in {"compute", "count", "acquire", "put", "release"}
Returned == {w \in Workgroups : pc[w] = "returned"}

(* Nobody returns before all tiles are drawn, and each workgroup draws past the
   last one once. *)
Draws ==
  /\ launched \in 0 .. Launches
  /\ launched = 0 => counter = 0 /\ \A w \in Workgroups : pc[w] = "returned"
  /\ launched > 0 => \A w \in Workgroups : pc[w] = "returned" => counter >= TotalTiles
  /\ counter <= TotalTiles + Cardinality(Returned)
  /\ \A w \in Workgroups : tile[w] <= TotalTiles + Cardinality(Workgroups)

(* No tile is drawn twice. *)
Owners ==
  /\ \A w \in Workgroups : Working(w) => tile[w] < counter /\ tile[w] < TotalTiles
  /\ \A v, w \in Workgroups : Working(v) /\ Working(w) /\ tile[v] = tile[w] => v = w

(* All tiles, by number and by place. *)
Ids == 0 .. TotalTiles-1
TilePlaces == (0 .. TilesM-1) \X (0 .. TilesN-1)

(* What has been drawn is stored unless it is being computed. *)
Computing(t) == \E w \in Workgroups : pc[w] = "compute" /\ tile[w] = t
Over(t) == t < counter /\ ~Computing(t)
StoredTiles == stored = {Tile(t) : t \in {u \in Ids : Over(u)}}

(* What is stored is counted unless its workgroup is about to count it. *)
Uncounted(c) == \E w \in Workgroups : pc[w] = "count" /\ Tile(tile[w]) = c
Counted(d, g) == {c \in ChunkArea(d, g) : c \in stored /\ ~Uncounted(c)}
Counts ==
  /\ chunkDone \in [Peer -> [Group -> Nat]]
  /\ \A d \in Peer, g \in Group : chunkDone[d][g] = Cardinality(Counted(d, g))

(* One workgroup, the one that has completed the count, submits a chunk. *)
Claims(w, d, g) == pc[w] \in {"acquire", "put"} /\ Dst(w) = d /\ Grp(w) = g
Turns ==
  \A d \in Peer, g \in Group, w \in Workgroups :
    Claims(w, d, g) =>
      /\ d # Me /\ chunkDone[d][g] = Required
      /\ \A v \in Workgroups : Claims(v, d, g) => v = w
Unclaimed(d, g) == \A w \in Workgroups : ~Claims(w, d, g)
Submissions ==
  /\ submitted \in [Peer -> [Group -> Int]]
  /\ \A d \in Peer, g \in Group :
       submitted[d][g] =
         IF d = Me \/ launched = 0 THEN 0
         ELSE IF chunkDone[d][g] = Required /\ Unclaimed(d, g) THEN launched ELSE launched - 1

Flow == Draws /\ Owners /\ StoredTiles /\ Counts /\ Turns /\ Submissions
IInv == LockInv /\ Flow

(***************************************************************************)
(* The numbers of the tiles and their places.                              *)
(***************************************************************************)

(* Quotients and remainders of natural numbers are natural numbers. *)
LEMMA QuotientNat ==
  ASSUME NEW a \in Nat, NEW b \in Nat \ {0} PROVE a \div b \in Nat
OBVIOUS

LEMMA RemainderNat ==
  ASSUME NEW a \in Nat, NEW b \in Nat \ {0} PROVE a % b \in 0 .. b-1
OBVIOUS

(* The product of natural numbers is one. *)
LEMMA ProductNat ==
  ASSUME NEW a \in Nat, NEW b \in Nat PROVE a * b \in Nat
OBVIOUS

(* Quotient and remainder. *)
LEMMA Split ==
  ASSUME NEW a \in Nat, NEW b \in Nat \ {0}
  PROVE  a \div b \in Nat /\ a % b \in 0 .. b-1 /\ a = b * (a \div b) + (a % b)
BY SMT

(* A factor keeps an order. *)
LEMMA Monotone ==
  ASSUME NEW b \in Nat, NEW p \in Int, NEW q \in Int, p <= q
  PROVE  b * p <= b * q
<1>1. b * (q - p) >= 0
  BY SMT
<1> QED BY <1>1, SMT

(* A bound on a product bounds its quotient. *)
LEMMA Below ==
  ASSUME NEW a \in Nat, NEW b \in Nat \ {0}, NEW c \in Nat, a < b * c
  PROVE  a \div b < c
<1> DEFINE q == a \div b
           r == a % b
<1>1. q \in Nat /\ r \in 0 .. b-1 /\ a = b * q + r
  BY Split
<1> HIDE DEF q, r
<1>2. ASSUME q >= c PROVE FALSE
  <2>1. b * c <= b * q
    BY <1>1, <1>2, Monotone
  <2>2. b * c \in Nat /\ b * q \in Nat
    BY <1>1
  <2> DEFINE x == b * c
             y == b * q
  <2>3. x <= y /\ x \in Nat /\ y \in Nat /\ a < x /\ a = y + r
    BY <1>1, <2>1, <2>2
  <2> HIDE DEF x, y
  <2> QED BY <1>1, <2>3
<1> QED BY <1>1, <1>2 DEF q

(* Quotient and remainder are determined by their bounds. *)
LEMMA Join ==
  ASSUME NEW b \in Nat \ {0}, NEW q \in Nat, NEW r \in 0 .. b-1
  PROVE  /\ (q * b + r) \in Nat /\ (q * b + r) \div b = q /\ (q * b + r) % b = r
<1> DEFINE a == q * b + r
           x == a \div b
           y == a % b
<1>0. a \in Nat
  <2>1. q * b \in Nat
    BY SMT
  <2> QED BY <2>1
<1>1. x \in Nat /\ y \in 0 .. b-1 /\ a = b * x + y
  BY <1>0, Split
<1>2. a = q * b + r
  OBVIOUS
<1> HIDE DEF a, x, y
<1>3. x = q
  <2>1. ASSUME x < q PROVE FALSE
    <3>1. b * (x + 1) <= b * q
      BY <1>1, <2>1, Monotone
    <3> QED BY <1>1, <1>2, <3>1, SMT
  <2>2. ASSUME q < x PROVE FALSE
    <3>1. b * (q + 1) <= b * x
      BY <1>1, <2>2, Monotone
    <3> QED BY <1>1, <1>2, <3>1, SMT
  <2> QED BY <1>1, <2>1, <2>2
<1>4. y = r
  BY <1>1, <1>2, <1>3, SMT
<1> QED BY <1>0, <1>3, <1>4 DEF a, x, y

(* So equal sums have equal parts. *)
LEMMA SamePair ==
  ASSUME NEW b \in Nat \ {0}, NEW q \in Nat, NEW r \in 0 .. b-1, NEW v \in Nat, NEW s \in 0 .. b-1,
         q * b + r = v * b + s
  PROVE  q = v /\ r = s
<1> DEFINE a == q * b + r
<1>1. a \div b = q /\ a % b = r
  BY Join
<1>2. a = v * b + s
  OBVIOUS
<1> HIDE DEF a
<1>3. (v * b + s) \div b = v /\ (v * b + s) % b = s
  BY Join
<1> QED BY <1>1, <1>2, <1>3

(* And a bounded pair has a bounded sum. *)
LEMMA PairBelow ==
  ASSUME NEW b \in Nat \ {0}, NEW q \in Nat, NEW r \in 0 .. b-1, NEW n \in Nat, q < n
  PROVE  q * b + r < n * b /\ n * b \in Nat /\ q * b + r \in Nat
<1>1. b * (q + 1) <= b * n
  BY Monotone
<1>2. n * b \in Nat /\ q * b \in Nat
  BY SMT
<1>3. q * b + b <= n * b
  BY <1>1, SMT
<1> DEFINE x == q * b
           y == n * b
<1>4. x + b <= y /\ x \in Nat /\ y \in Nat
  BY <1>2, <1>3
<1> HIDE DEF x, y
<1>5. x + r < y /\ x + r \in Nat
  BY <1>4
<1> QED BY <1>4, <1>5 DEF x, y

(* The peers are visited in rotated order, none of them twice. *)
LEMMA Rotated ==
  ASSUME NEW k \in 0 .. P-1
  PROVE  /\ (k + Me) % P \in Peer
         /\ (k + Me) % P = IF k + Me < P THEN k + Me ELSE k + Me - P
<1>0. P \in Nat \ {0} /\ Me \in 0 .. P-1
  BY ShapeAssumption
<1> DEFINE x == k + Me
           y == x % P
<1>1. x \in Nat /\ x < 2 * P /\ x = k + Me
  BY <1>0
<1> HIDE DEF x
<1>2. y = IF x < P THEN x ELSE x - P
  <2>1. CASE x < P
    <3>1. x \in 0 .. P-1 /\ 0 \in Nat /\ 0 * P + x = x
      BY <1>0, <1>1, <2>1
    <3>2. (0 * P + x) % P = x
      BY <1>0, <3>1, Join
    <3> QED BY <2>1, <3>1, <3>2
  <2>2. CASE ~(x < P)
    <3>1. x - P \in 0 .. P-1 /\ 1 \in Nat /\ 1 * P + (x - P) = x
      BY <1>0, <1>1, <2>2
    <3>2. (1 * P + (x - P)) % P = x - P
      BY <1>0, <3>1, Join
    <3> QED BY <2>2, <3>1, <3>2
  <2> QED BY <2>1, <2>2
<1>3. (k + Me) % P = y
  BY DEF x
<1> HIDE DEF y
<1>4. y \in 0 .. P-1
  BY <1>0, <1>1, <1>2
<1>5. (k + Me) % P \in Peer
  BY <1>3, <1>4 DEF Peer
<1>6. y = IF k + Me < P THEN k + Me ELSE k + Me - P
  BY <1>0, <1>1, <1>2
<1> QED BY <1>3, <1>5, <1>6

LEMMA RotatedOnce ==
  ASSUME NEW k \in 0 .. P-1, NEW l \in 0 .. P-1, (k + Me) % P = (l + Me) % P
  PROVE  k = l
<1>0. P \in Nat \ {0} /\ Me \in 0 .. P-1
  BY ShapeAssumption
<1>1. (IF k + Me < P THEN k + Me ELSE k + Me - P) = (IF l + Me < P THEN l + Me ELSE l + Me - P)
  <2>1. /\ (k + Me) % P = IF k + Me < P THEN k + Me ELSE k + Me - P
        /\ (l + Me) % P = IF l + Me < P THEN l + Me ELSE l + Me - P
    BY Rotated
  <2> QED BY <2>1, Zenon
<1>2. CASE k + Me < P /\ l + Me < P
  BY <1>0, <1>1, <1>2
<1>3. CASE ~(k + Me < P) /\ l + Me < P
  BY <1>0, <1>1, <1>3
<1>4. CASE k + Me < P /\ ~(l + Me < P)
  BY <1>0, <1>1, <1>4
<1>5. CASE ~(k + Me < P) /\ ~(l + Me < P)
  BY <1>0, <1>1, <1>5
<1> QED BY <1>2, <1>3, <1>4, <1>5

(* The sizes. *)
LEMMA Sizes ==
  /\ {P, TilesPerPeer, ChunkTiles, Groups} \subseteq Nat \ {0} /\ TailColumns \in Nat /\ Me \in 0 .. P-1
  /\ TilesM \in Nat \ {0} /\ TilesN \in Nat \ {0} /\ ScatterTiles \in Nat /\ TotalTiles \in Nat \ {0}
  /\ Required \in Nat \ {0}
  /\ ScatterTiles = ChunkTiles * (P * (TilesPerPeer * Groups))
  /\ TotalTiles = ScatterTiles + TilesM * TailColumns
  /\ TotalTiles = TilesM * TilesN
<1>1. {P, TilesPerPeer, ChunkTiles, Groups} \subseteq Nat \ {0} /\ TailColumns \in Nat /\ Me \in 0 .. P-1
  BY ShapeAssumption
<1>2. \A a, b \in Nat \ {0} : a * b \in Nat \ {0}
  BY SMT
<1>3. TilesM \in Nat \ {0} /\ Required \in Nat \ {0} /\ TilesPerPeer * P \in Nat \ {0}
  BY <1>1, <1>2 DEF TilesM, Required
<1>4. TilesN \in Nat \ {0}
  <2> DEFINE x == TilesPerPeer * P
  <2>1. x \in Nat \ {0} /\ TilesN = x + TailColumns
    BY <1>3 DEF TilesN
  <2> HIDE DEF x
  <2> QED BY <1>1, <2>1
<1>5. ScatterTiles \in Nat \ {0} /\ TotalTiles \in Nat \ {0}
  BY <1>2, <1>3, <1>4 DEF ScatterTiles, TotalTiles
<1>6. ScatterTiles = ChunkTiles * (P * (TilesPerPeer * Groups))
  BY <1>1, SMT DEF ScatterTiles, TilesM
<1>7. TotalTiles = ScatterTiles + TilesM * TailColumns
  <2>1. TilesM \in Int /\ TilesPerPeer \in Int /\ P \in Int /\ TailColumns \in Int
    BY <1>1, <1>3
  <2>2. ScatterTiles = TilesPerPeer * P * TilesM /\ TotalTiles = TilesM * (TilesPerPeer * P + TailColumns)
    BY DEF ScatterTiles, TotalTiles, TilesN
  <2> QED BY <2>1, <2>2, SMT
<1> QED BY <1>1, <1>3, <1>4, <1>5, <1>6, <1>7 DEF TotalTiles

(* A tile of a chunk: i and inner are its row and column in the chunk, k counts
   the peers from this rank. *)
LEMMA ScatterTile ==
  ASSUME NEW t \in Nat, t < ScatterTiles
  PROVE  \E i \in 0 .. ChunkTiles-1, inner \in 0 .. TilesPerPeer-1, g \in Group, k \in 0 .. P-1 :
           /\ t = ((g * TilesPerPeer + inner) * P + k) * ChunkTiles + i
           /\ Tile(t) = <<g * ChunkTiles + i, ((k + Me) % P) * TilesPerPeer + inner>>
<1> DEFINE q == t \div ChunkTiles
           i == t % ChunkTiles
           s == q \div P
           k == q % P
           g == s \div TilesPerPeer
           inner == s % TilesPerPeer
<1>0. /\ P \in Nat \ {0} /\ TilesPerPeer \in Nat \ {0} /\ ChunkTiles \in Nat \ {0} /\ Groups \in Nat \ {0}
      /\ t < ChunkTiles * (P * (TilesPerPeer * Groups))
      /\ TilesPerPeer * Groups \in Nat /\ P * (TilesPerPeer * Groups) \in Nat
  <2>1. /\ P \in Nat \ {0} /\ TilesPerPeer \in Nat \ {0} /\ ChunkTiles \in Nat \ {0} /\ Groups \in Nat \ {0}
        /\ t < ChunkTiles * (P * (TilesPerPeer * Groups))
    BY Sizes
  <2>2. TilesPerPeer * Groups \in Nat
    BY <2>1, ProductNat
  <2>3. P * (TilesPerPeer * Groups) \in Nat
    BY <2>1, <2>2, ProductNat
  <2> QED BY <2>1, <2>2, <2>3
<1>1. q \in Nat /\ i \in 0 .. ChunkTiles-1 /\ t = ChunkTiles * q + i /\ q < P * (TilesPerPeer * Groups)
  BY <1>0, Split, Below
<1>2. Tile(t) = <<g * ChunkTiles + i, ((k + Me) % P) * TilesPerPeer + inner>>
  BY DEF Tile, GroupOf, PeerOf, Inner, Sequence
<1> HIDE DEF q, i
<1>3. s \in Nat /\ k \in 0 .. P-1 /\ q = P * s + k /\ s < TilesPerPeer * Groups
  BY <1>0, <1>1, Split, Below
<1> HIDE DEF s, k
<1>4. g \in Nat /\ inner \in 0 .. TilesPerPeer-1 /\ s = TilesPerPeer * g + inner /\ g < Groups
  BY <1>0, <1>3, Split, Below
<1> HIDE DEF g, inner
<1>5. t = ((g * TilesPerPeer + inner) * P + k) * ChunkTiles + i
  <2>1. g * TilesPerPeer = TilesPerPeer * g /\ s * P = P * s /\ q * ChunkTiles = ChunkTiles * q
    BY <1>0, <1>1, <1>3, <1>4, SMT
  <2> QED BY <1>1, <1>3, <1>4, <2>1
<1>6. g \in Group
  BY <1>0, <1>4 DEF Group
<1> QED BY <1>1, <1>2, <1>3, <1>4, <1>5, <1>6

(* A tile of the tail. *)
LEMMA TailTile ==
  ASSUME NEW t \in Nat, ScatterTiles <= t, t < TotalTiles
  PROVE  \E m \in 0 .. TilesM-1, x \in 0 .. TailColumns-1 :
           t = ScatterTiles + (x * TilesM + m) /\ Tile(t) = <<m, TilesPerPeer * P + x>>
<1> DEFINE a == t - ScatterTiles
           x == a \div TilesM
           m == a % TilesM
<1>0. TilesM \in Nat \ {0} /\ TailColumns \in Nat /\ ScatterTiles \in Nat /\ TotalTiles = ScatterTiles + TilesM * TailColumns
      /\ TilesM * TailColumns \in Nat
  BY Sizes, ProductNat
<1>1. a \in Nat /\ a < TilesM * TailColumns /\ t = ScatterTiles + a
  <2> DEFINE y == TilesM * TailColumns
  <2>1. y \in Nat /\ TotalTiles = ScatterTiles + y
    BY <1>0
  <2> HIDE DEF y
  <2>2. a \in Nat /\ a < y /\ t = ScatterTiles + a
    BY <1>0, <2>1
  <2> QED BY <2>2 DEF y
<1>2. Tile(t) = <<m, TilesPerPeer * P + x>>
  <2>1. ~(t < ScatterTiles)
    BY <1>0
  <2> QED BY <2>1 DEF Tile
<1> HIDE DEF a
<1>3. x \in Nat /\ m \in 0 .. TilesM-1 /\ a = TilesM * x + m /\ x < TailColumns
  BY <1>0, <1>1, Split, Below
<1> HIDE DEF x, m
<1>4. x * TilesM = TilesM * x
  BY <1>0, <1>3, SMT
<1>5. x \in 0 .. TailColumns-1
  BY <1>0, <1>3
<1>6. t = ScatterTiles + (x * TilesM + m)
  BY <1>1, <1>3, <1>4
<1> QED BY <1>2, <1>3, <1>5, <1>6

(* The area of a chunk: what lies in the rows of the group and the columns of the
   peer. *)
LEMMA AreaOf ==
  ASSUME NEW d \in Peer, NEW g \in Group
  PROVE  /\ ChunkArea(d, g) \subseteq TilePlaces
         /\ IsFiniteSet(ChunkArea(d, g)) /\ Cardinality(ChunkArea(d, g)) = Required
         /\ \A c \in ChunkArea(d, g) : c[1] \div ChunkTiles = g /\ c[2] \div TilesPerPeer = d
<1> DEFINE lo == g * ChunkTiles
           hi == (g + 1) * ChunkTiles
           left == d * TilesPerPeer
           right == (d + 1) * TilesPerPeer
<1>0. /\ P \in Nat \ {0} /\ TilesPerPeer \in Nat \ {0} /\ ChunkTiles \in Nat \ {0} /\ Groups \in Nat \ {0}
      /\ g \in Nat /\ g < Groups /\ d \in Nat /\ d < P /\ TailColumns \in Nat
  BY Sizes DEF Group, Peer
<1>1. lo \in Nat /\ hi = lo + ChunkTiles /\ left \in Nat /\ right = left + TilesPerPeer
  BY <1>0, SMT
<1>2. hi <= TilesM /\ right <= TilesN /\ TilesM \in Nat /\ TilesN \in Nat
  <2>1. ChunkTiles * (g + 1) <= ChunkTiles * Groups /\ TilesPerPeer * (d + 1) <= TilesPerPeer * P
    BY <1>0, Monotone
  <2>2. hi = ChunkTiles * (g + 1) /\ right = TilesPerPeer * (d + 1)
    BY <1>0, SMT
  <2>3. TilesPerPeer * P \in Nat /\ TilesM \in Nat /\ TilesN \in Nat
    BY <1>0, Sizes, ProductNat
  <2> DEFINE y == TilesPerPeer * P
  <2>4. right <= y /\ y \in Nat /\ TilesN = y + TailColumns
    BY <2>1, <2>2, <2>3 DEF TilesN
  <2>5. hi <= TilesM
    BY <2>1, <2>2 DEF TilesM
  <2> HIDE DEF hi, right, y
  <2>6. right \in Int
    <3>1. right = left + TilesPerPeer
      BY <1>1
    <3> QED BY <1>0, <1>1, <3>1
  <2> QED BY <1>0, <2>3, <2>4, <2>5, <2>6
<1>3. ChunkArea(d, g) = (lo .. hi - 1) \X (left .. right - 1)
  BY DEF ChunkArea
<1>4. ASSUME NEW x \in lo .. hi - 1 PROVE x \div ChunkTiles = g
  <2> DEFINE r == x - lo
  <2>1. r \in 0 .. ChunkTiles-1 /\ lo + r = x
    <3> HIDE DEF lo, hi
    <3> QED BY <1>0, <1>1, <1>4
  <2> HIDE DEF r
  <2>2. (g * ChunkTiles + r) \div ChunkTiles = g
    BY <1>0, <2>1, Join
  <2> QED BY <2>1, <2>2
<1>5. ASSUME NEW x \in left .. right - 1 PROVE x \div TilesPerPeer = d
  <2> DEFINE r == x - left
  <2>1. r \in 0 .. TilesPerPeer-1 /\ left + r = x
    <3> HIDE DEF left, right
    <3> QED BY <1>0, <1>1, <1>5
  <2> HIDE DEF r
  <2>2. (d * TilesPerPeer + r) \div TilesPerPeer = d
    BY <1>0, <2>1, Join
  <2> QED BY <2>1, <2>2
<1> HIDE DEF lo, hi, left, right
<1>6. lo .. hi - 1 \subseteq 0 .. TilesM-1 /\ left .. right - 1 \subseteq 0 .. TilesN-1
  BY <1>0, <1>1, <1>2
<1>7. /\ IsFiniteSet(lo .. hi - 1) /\ Cardinality(lo .. hi - 1) = ChunkTiles
      /\ IsFiniteSet(left .. right - 1) /\ Cardinality(left .. right - 1) = TilesPerPeer
  <2>1. lo \in Int /\ hi - 1 \in Int /\ left \in Int /\ right - 1 \in Int
        /\ ~(lo > hi - 1) /\ (hi - 1) - lo + 1 = ChunkTiles
        /\ ~(left > right - 1) /\ (right - 1) - left + 1 = TilesPerPeer
    BY <1>0, <1>1
  <2> QED BY <2>1, FS_Interval
<1>8. /\ IsFiniteSet((lo .. hi - 1) \X (left .. right - 1))
      /\ Cardinality((lo .. hi - 1) \X (left .. right - 1)) = ChunkTiles * TilesPerPeer
  BY <1>7, FS_Product
<1>9. ChunkTiles * TilesPerPeer = Required
  BY <1>0, SMT DEF Required
<1>10. \A c \in ChunkArea(d, g) : c[1] \div ChunkTiles = g /\ c[2] \div TilesPerPeer = d
  BY <1>3, <1>4, <1>5
<1> QED BY <1>3, <1>6, <1>8, <1>9, <1>10 DEF TilePlaces

(* The tiles of a chunk have their place in it, those of the tail beyond all
   peers. *)
LEMMA TileOf ==
  ASSUME NEW t \in Ids
  PROVE  /\ Tile(t) \in TilePlaces
         /\ Tile(t)[1] \div ChunkTiles \in Group
         /\ Tile(t)[2] \div TilesPerPeer \in Nat
         /\ Tile(t)[2] \div TilesPerPeer < P =>
              Tile(t) \in ChunkArea(Tile(t)[2] \div TilesPerPeer, Tile(t)[1] \div ChunkTiles)
<1>0. /\ P \in Nat \ {0} /\ TilesPerPeer \in Nat \ {0} /\ ChunkTiles \in Nat \ {0} /\ Groups \in Nat \ {0}
      /\ t \in Nat /\ t < TotalTiles /\ ScatterTiles \in Nat /\ TailColumns \in Nat /\ TilesM \in Nat \ {0}
      /\ TilesN \in Nat
  BY Sizes DEF Ids
<1>1. CASE t < ScatterTiles
  <2>1. PICK i \in 0 .. ChunkTiles-1, inner \in 0 .. TilesPerPeer-1, g \in Group, k \in 0 .. P-1 :
           Tile(t) = <<g * ChunkTiles + i, ((k + Me) % P) * TilesPerPeer + inner>>
    BY <1>0, <1>1, ScatterTile
  <2>2. PICK d \in Peer : d = (k + Me) % P
    BY Rotated
  <2>3. Tile(t)[1] = g * ChunkTiles + i /\ Tile(t)[2] = d * TilesPerPeer + inner
        /\ Tile(t) = <<g * ChunkTiles + i, d * TilesPerPeer + inner>>
    BY <2>1, <2>2
  <2>4. g \in Nat /\ d \in Nat
    BY <1>0 DEF Group, Peer
  <2>5. (g * ChunkTiles + i) \div ChunkTiles = g /\ (d * TilesPerPeer + inner) \div TilesPerPeer = d
    BY <1>0, <2>4, Join
  <2>6. g * ChunkTiles \in Nat /\ (g + 1) * ChunkTiles = g * ChunkTiles + ChunkTiles
        /\ d * TilesPerPeer \in Nat /\ (d + 1) * TilesPerPeer = d * TilesPerPeer + TilesPerPeer
    BY <1>0, <2>4, SMT
  <2>7. Tile(t) \in ChunkArea(d, g)
    <3> DEFINE lo == g * ChunkTiles
               hi == (g + 1) * ChunkTiles
               left == d * TilesPerPeer
               right == (d + 1) * TilesPerPeer
    <3>1. lo \in Nat /\ left \in Nat /\ hi = lo + ChunkTiles /\ right = left + TilesPerPeer
      BY <2>6
    <3>2. ChunkArea(d, g) = (lo .. hi - 1) \X (left .. right - 1) /\ Tile(t) = <<lo + i, left + inner>>
      BY <2>3 DEF ChunkArea
    <3> HIDE DEF lo, hi, left, right
    <3>3. lo + i \in lo .. hi - 1 /\ left + inner \in left .. right - 1
      BY <1>0, <3>1
    <3> QED BY <3>2, <3>3
  <2>8. Tile(t)[1] \div ChunkTiles = g /\ Tile(t)[2] \div TilesPerPeer = d
    BY <2>3, <2>5
  <2>9. Tile(t) \in TilePlaces
    BY <2>7, AreaOf
  <2> QED BY <2>4, <2>7, <2>8, <2>9
<1>2. CASE ~(t < ScatterTiles)
  <2>1. PICK m \in 0 .. TilesM-1, x \in 0 .. TailColumns-1 : Tile(t) = <<m, TilesPerPeer * P + x>>
    BY <1>0, <1>2, TailTile
  <2>2. m \in Nat /\ m < ChunkTiles * Groups
    BY <1>0 DEF TilesM
  <2>3. m \div ChunkTiles \in Group
    <3>1. m \div ChunkTiles \in Nat /\ m \div ChunkTiles < Groups
      BY <1>0, <2>2, Below, QuotientNat
    <3> DEFINE y == m \div ChunkTiles
    <3> HIDE DEF y
    <3>2. y \in Nat /\ y < Groups => y \in Group
      BY <1>0 DEF Group
    <3> QED BY <3>1, <3>2 DEF y
  <2> DEFINE w == TilesPerPeer * P
             n == w + x
             y == n \div TilesPerPeer
  <2>4. w \in Nat /\ TilesN = w + TailColumns
    BY <1>0, ProductNat DEF TilesN
  <2>5. n \in Nat /\ n < TilesN
    <3> HIDE DEF w
    <3> QED BY <1>0, <2>4
  <2>6. y \in Nat /\ n % TilesPerPeer \in 0 .. TilesPerPeer-1 /\ n = TilesPerPeer * y + (n % TilesPerPeer)
    <3> HIDE DEF n
    <3> QED BY <1>0, <2>5, Split
  <2>7. ~(y < P)
    <3> SUFFICES ASSUME y < P PROVE FALSE
      OBVIOUS
    <3> DEFINE r == n % TilesPerPeer
    <3>1. n = w + x /\ n = TilesPerPeer * y + r /\ r \in 0 .. TilesPerPeer-1
      BY <2>6
    <3> HIDE DEF n, y, r
    <3>2. TilesPerPeer * (y + 1) <= TilesPerPeer * P
      BY <1>0, <2>6, Monotone
    <3>3. TilesPerPeer * (y + 1) = TilesPerPeer * y + TilesPerPeer /\ TilesPerPeer * y \in Nat
      BY <1>0, <2>6, SMT
    <3> DEFINE z == TilesPerPeer * y
    <3>4. z + TilesPerPeer <= w /\ z \in Nat /\ n = z + r
      BY <3>1, <3>2, <3>3
    <3> HIDE DEF w, z
    <3> QED BY <1>0, <2>4, <3>1, <3>4
  <2>8. Tile(t)[1] = m /\ Tile(t)[2] = n
    BY <2>1
  <2>9. Tile(t) \in TilePlaces
    <3>1. n \in 0 .. TilesN-1
      <4> HIDE DEF n
      <4> QED BY <1>0, <2>5
    <3> QED BY <2>1, <3>1 DEF TilePlaces
  <2> HIDE DEF n
  <2> QED BY <2>3, <2>6, <2>7, <2>8, <2>9
<1> QED BY <1>1, <1>2

(* No two numbers stand for the same tile. *)
LEMMA TileOnce ==
  ASSUME NEW t \in Ids, NEW u \in Ids, Tile(t) = Tile(u)
  PROVE  t = u
<1>0. /\ P \in Nat \ {0} /\ TilesPerPeer \in Nat \ {0} /\ ChunkTiles \in Nat \ {0} /\ Groups \in Nat \ {0}
      /\ t \in Nat /\ t < TotalTiles /\ u \in Nat /\ u < TotalTiles /\ ScatterTiles \in Nat
      /\ TailColumns \in Nat /\ TilesM \in Nat \ {0} /\ Me \in 0 .. P-1
  BY Sizes DEF Ids
<1>1. ASSUME NEW v \in Ids, v < ScatterTiles, NEW z \in Ids, ~(z < ScatterTiles), Tile(v) = Tile(z)
      PROVE  FALSE
  <2>1. PICK i \in 0 .. ChunkTiles-1, inner \in 0 .. TilesPerPeer-1, g \in Group, k \in 0 .. P-1 :
           Tile(v) = <<g * ChunkTiles + i, ((k + Me) % P) * TilesPerPeer + inner>>
    BY <1>1, ScatterTile DEF Ids
  <2>2. PICK d \in Peer : d = (k + Me) % P
    BY Rotated
  <2>3. PICK m \in 0 .. TilesM-1, x \in 0 .. TailColumns-1 : Tile(z) = <<m, TilesPerPeer * P + x>>
    <3>1. z \in Nat /\ ScatterTiles <= z /\ z < TotalTiles
      BY <1>0, <1>1, Sizes DEF Ids
    <3> QED BY <3>1, TailTile
  <2>4. d * TilesPerPeer + inner = TilesPerPeer * P + x
    <3>1. Tile(v)[2] = d * TilesPerPeer + inner
      BY <2>1, <2>2
    <3>2. Tile(z)[2] = TilesPerPeer * P + x
      BY <2>3
    <3> QED BY <1>1, <3>1, <3>2
  <2>5. d \in Nat /\ d < P
    BY <1>0 DEF Peer
  <2>6. d * TilesPerPeer + inner < P * TilesPerPeer
    BY <1>0, <2>5, PairBelow
  <2>7. P * TilesPerPeer = TilesPerPeer * P /\ TilesPerPeer * P \in Nat
    BY <1>0, SMT
  <2> DEFINE w == TilesPerPeer * P
  <2>8. w + x < w /\ w \in Nat
    BY <2>4, <2>6, <2>7
  <2> HIDE DEF w
  <2> QED BY <1>0, <2>8
<1>2. CASE t < ScatterTiles /\ u < ScatterTiles
  <2>1. PICK i \in 0 .. ChunkTiles-1, inner \in 0 .. TilesPerPeer-1, g \in Group, k \in 0 .. P-1 :
           /\ t = ((g * TilesPerPeer + inner) * P + k) * ChunkTiles + i
           /\ Tile(t) = <<g * ChunkTiles + i, ((k + Me) % P) * TilesPerPeer + inner>>
    BY <1>0, <1>2, ScatterTile
  <2>2. PICK j \in 0 .. ChunkTiles-1, other \in 0 .. TilesPerPeer-1, h \in Group, l \in 0 .. P-1 :
           /\ u = ((h * TilesPerPeer + other) * P + l) * ChunkTiles + j
           /\ Tile(u) = <<h * ChunkTiles + j, ((l + Me) % P) * TilesPerPeer + other>>
    BY <1>0, <1>2, ScatterTile
  <2>3. g * ChunkTiles + i = h * ChunkTiles + j
        /\ ((k + Me) % P) * TilesPerPeer + inner = ((l + Me) % P) * TilesPerPeer + other
    BY <2>1, <2>2
  <2>4. g \in Nat /\ h \in Nat /\ (k + Me) % P \in Nat /\ (l + Me) % P \in Nat
    BY <1>0, Rotated DEF Group, Peer
  <2>5. g = h /\ i = j
    BY <1>0, <2>3, <2>4, SamePair
  <2>6. (k + Me) % P = (l + Me) % P /\ inner = other
    <3> DEFINE a == (k + Me) % P
               b == (l + Me) % P
    <3>1. a \in Nat /\ b \in Nat /\ a * TilesPerPeer + inner = b * TilesPerPeer + other
      BY <2>3, <2>4
    <3> HIDE DEF a, b
    <3>2. a = b /\ inner = other
      BY <1>0, <3>1, SamePair
    <3> QED BY <3>2 DEF a, b
  <2>7. k = l
    <3>1. (k + Me) % P = (l + Me) % P
      BY <2>6
    <3> QED BY <3>1, RotatedOnce
  <2> QED BY <2>1, <2>2, <2>5, <2>6, <2>7
<1>3. CASE ~(t < ScatterTiles) /\ ~(u < ScatterTiles)
  <2>1. PICK m \in 0 .. TilesM-1, x \in 0 .. TailColumns-1 :
           t = ScatterTiles + (x * TilesM + m) /\ Tile(t) = <<m, TilesPerPeer * P + x>>
    BY <1>0, <1>3, TailTile
  <2>2. PICK n \in 0 .. TilesM-1, y \in 0 .. TailColumns-1 :
           u = ScatterTiles + (y * TilesM + n) /\ Tile(u) = <<n, TilesPerPeer * P + y>>
    BY <1>0, <1>3, TailTile
  <2>3. m = n /\ TilesPerPeer * P + x = TilesPerPeer * P + y /\ TilesPerPeer * P \in Nat
    BY <1>0, <2>1, <2>2, ProductNat
  <2> DEFINE w == TilesPerPeer * P
  <2>4. w + x = w + y /\ w \in Nat
    BY <2>3
  <2> HIDE DEF w
  <2>5. x = y
    BY <1>0, <2>4
  <2> QED BY <2>1, <2>2, <2>3, <2>5
<1> QED BY <1>1, <1>2, <1>3

(* As many numbers as places: every place has its number. *)
LEMMA TileAll == TilePlaces = {Tile(t) : t \in Ids}
<1>1. TotalTiles \in Nat \ {0} /\ TilesM \in Nat \ {0} /\ TilesN \in Nat \ {0} /\ TotalTiles = TilesM * TilesN
  BY Sizes
<1>2. IsFiniteSet(Ids) /\ Cardinality(Ids) = TotalTiles
  <2>1. 0 \in Int /\ TotalTiles-1 \in Int /\ ~(0 > TotalTiles-1) /\ TotalTiles-1 - 0 + 1 = TotalTiles
    BY <1>1
  <2> QED BY <2>1, FS_Interval DEF Ids
<1>3. IsFiniteSet(TilePlaces) /\ Cardinality(TilePlaces) = TotalTiles
  <2>1. /\ IsFiniteSet(0 .. TilesM-1) /\ Cardinality(0 .. TilesM-1) = TilesM
        /\ IsFiniteSet(0 .. TilesN-1) /\ Cardinality(0 .. TilesN-1) = TilesN
    <3>1. /\ 0 \in Int /\ TilesM-1 \in Int /\ ~(0 > TilesM-1) /\ TilesM-1 - 0 + 1 = TilesM
          /\ TilesN-1 \in Int /\ ~(0 > TilesN-1) /\ TilesN-1 - 0 + 1 = TilesN
      BY <1>1
    <3> QED BY <3>1, FS_Interval
  <2> QED BY <1>1, <2>1, FS_Product DEF TilePlaces
<1> DEFINE f == [t \in Ids |-> Tile(t)]
<1>4. f \in Injection(Ids, TilePlaces)
  BY TileOf, TileOnce DEF Injection, IsInjective
<1>5. f \in Surjection(Ids, TilePlaces)
  BY <1>2, <1>3, <1>4, FS_Injection
<1>6. \A c \in TilePlaces : \E t \in Ids : c = Tile(t)
  BY <1>5 DEF Surjection
<1> QED BY <1>6, TileOf

(* The tile order only yields columns from 0 on. *)
LEMMA ColumnNat ==
  ASSUME NEW t \in Nat PROVE Tile(t)[2] \in Nat
<1> DEFINE q == t \div ChunkTiles
<1>1. {P, TilesPerPeer, ChunkTiles, Groups} \subseteq Nat \ {0} /\ Me \in Nat
  BY ShapeAssumption
<1>2. q \in Nat
  BY <1>1, QuotientNat
<1>3. PeerOf(t) \in Nat
  <2> HIDE DEF q
  <2>1. P \in Nat \ {0}
    BY <1>1
  <2>2. q % P \in 0 .. P-1
    BY <1>2, <2>1, RemainderNat
  <2>3. (q % P) + Me \in Nat
    BY <1>1, <2>1, <2>2
  <2>4. ((q % P) + Me) % P \in 0 .. P-1
    BY <2>1, <2>3, RemainderNat
  <2> QED
    BY <2>1, <2>4 DEF PeerOf, q
<1>4. Inner(t) \in Nat
  <2>1. Sequence(t) \in Nat
    BY <1>1, <1>2, QuotientNat DEF Sequence
  <2> QED
    BY <1>1, <2>1, RemainderNat DEF Inner
<1>5. PeerOf(t) * TilesPerPeer + Inner(t) \in Nat
  BY <1>1, <1>3, <1>4, ProductNat
<1>6. ASSUME ~(t < ScatterTiles)
      PROVE  TilesPerPeer * P + ((t - ScatterTiles) \div TilesM) \in Nat
  <2>1. TilesM \in Nat \ {0}
    BY <1>1 DEF TilesM
  <2>2. TilesPerPeer * P \in Nat
    BY <1>1, ProductNat
  <2>3. ScatterTiles \in Nat
    BY <2>1, <2>2, ProductNat DEF ScatterTiles
  <2>4. t - ScatterTiles \in Nat
    BY <1>6, <2>3
  <2>5. (t - ScatterTiles) \div TilesM \in Nat
    BY <2>1, <2>4, QuotientNat
  <2> QED
    BY <2>2, <2>5
<1> QED
  BY <1>5, <1>6 DEF Tile

(* The peer of a workgroup is a natural number, or the tail beyond P. *)
LEMMA DstNat ==
  ASSUME Typed, NEW w \in Workgroups PROVE Dst(w) \in Nat
<1>1. tile[w] \in Nat
  BY DEF Typed
<1>2. Tile(tile[w])[2] \in Nat
  BY <1>1, ColumnNat
<1> QED
  BY <1>2, ShapeAssumption, QuotientNat DEF Dst

(***************************************************************************)
(* The lock.                                                               *)
(***************************************************************************)

(* Setting or clearing one lock leaves the locks well typed. *)
LEMMA LocksTyped ==
  ASSUME NEW f \in [Peer -> 0 .. 1], NEW d, NEW b \in 0 .. 1
  PROVE  [f EXCEPT ![d] = b] \in [Peer -> 0 .. 1]
OBVIOUS

(* No workgroup runs before the first launch. *)
LEMMA LockInit == Init => LockInv
BY DEF Init, LockInv, Typed, Aimed, Locked, Holding, Places, Free

(* A launch starts with every workgroup at the counter and every lock free. *)
LEMMA LockLaunch ==
  ASSUME LockInv, Launch PROVE LockInv'
BY DEF LockInv, Typed, Aimed, Locked, Holding, Places, Launch, Free, Dst

(* Only the exchange makes a holder, and it finds the lock free; only the
   release store frees a lock, and it is its holder's last step. *)
LEMMA LockWork ==
  ASSUME LockInv, NEW w \in Workgroups, Work(w) PROVE LockInv'
<1> USE DEF Goto
<1>1. \A v \in Workgroups : Dst(v) \in Nat
  BY DstNat DEF LockInv
<1>2. CASE Fetch(w)
  <2>1. \A v \in Workgroups \ {w} : pc'[v] = pc[v] /\ Dst(v)' = Dst(v)
    BY <1>2 DEF LockInv, Typed, Fetch, Dst
  <2>2. pc'[w] \in {"compute", "returned"} /\ lock' = lock
    BY <1>2 DEF LockInv, Typed, Fetch
  <2>3. Typed'
    BY <1>2 DEF LockInv, Typed, Fetch, Places
  <2> QED
    BY <2>1, <2>2, <2>3 DEF LockInv, Aimed, Locked, Holding
<1>3. ASSUME UNCHANGED tile PROVE \A v \in Workgroups : Dst(v)' = Dst(v)
  BY <1>3 DEF Dst
<1>4. CASE Store(w)
  <2>1. \A v \in Workgroups : Dst(v)' = Dst(v)
    BY <1>3, <1>4 DEF Store
  <2>2. \A v \in Workgroups \ {w} : pc'[v] = pc[v]
    BY <1>4 DEF LockInv, Typed, Store
  <2>3. pc'[w] \in {"count", "fetch"} /\ (pc'[w] = "count" => Dst(w) < P)
    BY <1>4 DEF LockInv, Typed, Store
  <2>4. pc'[w] = "count" => Dst(w) \in Peer
    BY <1>1, <2>3, ShapeAssumption DEF Peer
  <2>5. Typed' /\ lock' = lock
    BY <1>4 DEF LockInv, Typed, Store, Places
  <2> QED
    BY <2>1, <2>2, <2>3, <2>4, <2>5 DEF LockInv, Aimed, Locked, Holding
<1>5. CASE Count(w)
  <2>1. \A v \in Workgroups : Dst(v)' = Dst(v)
    BY <1>3, <1>5 DEF Count
  <2>2. \A v \in Workgroups \ {w} : pc'[v] = pc[v]
    BY <1>5 DEF LockInv, Typed, Count
  <2>3. pc[w] = "count" /\ pc'[w] \in {"acquire", "fetch"}
    BY <1>5 DEF LockInv, Typed, Count
  <2>4. Typed' /\ lock' = lock
    BY <1>5 DEF LockInv, Typed, Count, Places
  <2> QED
    BY <2>1, <2>2, <2>3, <2>4 DEF LockInv, Aimed, Locked, Holding
<1>6. CASE Acquire(w)
  <2>1. \A v \in Workgroups : Dst(v)' = Dst(v)
    BY <1>3, <1>6 DEF Acquire
  <2>2. \A v \in Workgroups \ {w} : pc'[v] = pc[v]
    BY <1>6 DEF LockInv, Typed, Acquire
  <2>3. pc[w] = "acquire" /\ pc'[w] = "put"
    BY <1>6 DEF LockInv, Typed, Acquire
  <2>4. Dst(w) \in Peer /\ lock[Dst(w)] = 0
    BY <1>6, <2>3 DEF LockInv, Aimed, Acquire, FoundFree
  <2>5. lock' = [lock EXCEPT ![Dst(w)] = 1] /\ lock \in [Peer -> 0 .. 1]
    BY <1>6 DEF Acquire, LockInv, Typed
  <2>6. Typed'
    <3>1. lock' \in [Peer -> 0 .. 1]
      BY <2>5, LocksTyped
    <3>2. pc' \in [Workgroups -> Places]
      BY <1>6 DEF LockInv, Typed, Acquire, Places
    <3>3. counter' \in Nat /\ tile' \in [Workgroups -> Nat]
      BY <1>6 DEF LockInv, Typed, Acquire
    <3> QED
      BY <3>1, <3>2, <3>3 DEF Typed
  <2>7. \A v \in Workgroups : Holding(v) => Dst(v) # Dst(w) /\ Dst(v) \in Peer
    BY <2>4 DEF LockInv, Locked, Aimed, Holding
  <2>8. \A v \in Workgroups \ {w} : Holding(v)' <=> Holding(v)
    BY <2>2 DEF Holding
  <2>9. Aimed'
    BY <2>1, <2>2, <2>3, <2>4 DEF LockInv, Aimed
  <2>10. lock'[Dst(w)] = 1
    BY <2>4, <2>5
  <2>11. \A v \in Workgroups \ {w} : Holding(v) => lock'[Dst(v)] = 1
    BY <2>5, <2>7 DEF LockInv, Locked
  <2>12. Locked'
    BY <2>1, <2>7, <2>8, <2>10, <2>11 DEF LockInv, Locked
  <2> QED
    BY <2>6, <2>9, <2>12 DEF LockInv
<1>7. CASE Submit(w)
  <2>1. \A v \in Workgroups : Dst(v)' = Dst(v)
    BY <1>3, <1>7 DEF Submit
  <2>2. \A v \in Workgroups \ {w} : pc'[v] = pc[v]
    BY <1>7 DEF LockInv, Typed, Submit
  <2>3. pc[w] = "put" /\ pc'[w] = "release"
    BY <1>7 DEF LockInv, Typed, Submit
  <2>4. Typed' /\ lock' = lock
    BY <1>7 DEF LockInv, Typed, Submit, Places
  <2>5. \A v \in Workgroups : Holding(v)' <=> Holding(v)
    BY <2>2, <2>3 DEF Holding
  <2> QED
    BY <2>1, <2>2, <2>3, <2>4, <2>5 DEF LockInv, Aimed, Locked
<1>8. CASE Release(w)
  <2>1. \A v \in Workgroups : Dst(v)' = Dst(v)
    BY <1>3, <1>8 DEF Release
  <2>2. \A v \in Workgroups \ {w} : pc'[v] = pc[v]
    BY <1>8 DEF LockInv, Typed, Release
  <2>3. pc[w] = "release" /\ pc'[w] = "fetch"
    BY <1>8 DEF LockInv, Typed, Release
  <2>4. Dst(w) \in Peer
    BY <2>3 DEF LockInv, Aimed
  <2>5. lock' = [lock EXCEPT ![Dst(w)] = 0] /\ lock \in [Peer -> 0 .. 1]
    BY <1>8 DEF Release, Unlocked, LockInv, Typed
  <2>6. Typed'
    <3>1. lock' \in [Peer -> 0 .. 1]
      BY <2>5, LocksTyped
    <3>2. pc' \in [Workgroups -> Places]
      BY <1>8 DEF LockInv, Typed, Release, Places
    <3>3. counter' \in Nat /\ tile' \in [Workgroups -> Nat]
      BY <1>8 DEF LockInv, Typed, Release
    <3> QED
      BY <3>1, <3>2, <3>3 DEF Typed
  <2>7. \A v \in Workgroups \ {w} : Holding(v) => Dst(v) # Dst(w) /\ Dst(v) \in Peer
    BY <2>3 DEF LockInv, Locked, Aimed, Holding
  <2>8. \A v \in Workgroups \ {w} : Holding(v)' <=> Holding(v)
    BY <2>2 DEF Holding
  <2>9. ~Holding(w)'
    BY <2>3 DEF Holding
  <2>10. Aimed'
    BY <2>1, <2>2, <2>3 DEF LockInv, Aimed
  <2>11. \A v \in Workgroups \ {w} : Holding(v) => lock'[Dst(v)] = lock[Dst(v)]
    BY <2>5, <2>7
  <2>12. Locked'
    BY <2>1, <2>8, <2>9, <2>11 DEF LockInv, Locked
  <2> QED
    BY <2>6, <2>10, <2>12 DEF LockInv
<1> QED
  BY <1>2, <1>4, <1>5, <1>6, <1>7, <1>8 DEF Work

(***************************************************************************)
(* What a step leaves alone.                                               *)
(***************************************************************************)

(* The workgroups are finitely many. *)
LEMMA Grid ==
  /\ IsFiniteSet(Workgroups) /\ Cardinality(Workgroups) \in Nat
  /\ IsFiniteSet(Returned) /\ Cardinality(Returned) \in Nat /\ Cardinality(Returned) <= Cardinality(Workgroups)
<1>1. IsFiniteSet(Workgroups) /\ Returned \in SUBSET Workgroups
  BY WorkgroupsAssumption DEF Returned
<1>2. IsFiniteSet(Returned) /\ Cardinality(Returned) <= Cardinality(Workgroups)
  BY <1>1, FS_Subset
<1> QED BY <1>1, <1>2, FS_CardinalityType

(* A part of a chunk has no more tiles than the chunk, and is the chunk if it has
   as many. *)
LEMMA PartOf ==
  ASSUME NEW d \in Peer, NEW g \in Group, NEW S \in SUBSET ChunkArea(d, g)
  PROVE  /\ IsFiniteSet(S) /\ Cardinality(S) \in Nat /\ Cardinality(S) <= Required
         /\ Cardinality(S) = Required => S = ChunkArea(d, g)
<1>1. IsFiniteSet(ChunkArea(d, g)) /\ Cardinality(ChunkArea(d, g)) = Required
  BY AreaOf
<1>2. IsFiniteSet(S) /\ Cardinality(S) <= Required /\ (Required = Cardinality(S) => ChunkArea(d, g) = S)
  BY <1>1, FS_Subset
<1> QED BY <1>2, FS_CardinalityType

(* The tile of a workgroup has its place, and is counted there. *)
LEMMA PlaceOf ==
  ASSUME IInv, NEW w \in Workgroups, Working(w)
  PROVE  /\ tile[w] \in Ids /\ tile[w] < counter /\ launched > 0
         /\ Tile(tile[w]) \in TilePlaces /\ Grp(w) \in Group /\ Dst(w) \in Nat
         /\ Dst(w) < P => Dst(w) \in Peer /\ Tile(tile[w]) \in ChunkArea(Dst(w), Grp(w))
         /\ pc[w] # "compute" => Dst(w) < P
<1>1. tile[w] \in Nat /\ tile[w] < TotalTiles /\ tile[w] < counter /\ TotalTiles \in Nat
  BY Sizes DEF IInv, LockInv, Typed, Flow, Owners
<1>2. tile[w] \in Ids
  BY <1>1 DEF Ids
<1>3. launched > 0
  <2>1. launched # 0 /\ launched \in Nat
    BY ShapeAssumption DEF IInv, Flow, Draws, Working
  <2> QED BY <2>1
<1>4. /\ Tile(tile[w]) \in TilePlaces /\ Grp(w) \in Group /\ Dst(w) \in Nat
      /\ Dst(w) < P => Tile(tile[w]) \in ChunkArea(Dst(w), Grp(w))
  BY <1>2, TileOf DEF Dst, Grp
<1>5. Dst(w) < P => Dst(w) \in Peer
  BY <1>4, Sizes DEF Peer
<1>6. pc[w] # "compute" => Dst(w) < P
  <2>1. pc[w] # "compute" => Dst(w) \in Peer
    BY DEF IInv, LockInv, Aimed, Working
  <2> QED BY <2>1, Sizes DEF Peer
<1> QED BY <1>1, <1>2, <1>3, <1>4, <1>5, <1>6

(* A workgroup that neither draws nor ends keeps the draws. *)
LEMMA DrawsFrame ==
  ASSUME Draws, Owners, launched' = launched, counter' = counter, tile' = tile,
         \A w \in Workgroups : pc'[w] = "returned" <=> pc[w] = "returned",
         \A w \in Workgroups : Working(w)' => Working(w)
  PROVE  Draws' /\ Owners'
<1>1. Returned' = Returned
  BY DEF Returned
<1>2. Draws'
  BY <1>1 DEF Draws
<1> QED BY <1>2 DEF Owners

(* One that does not store keeps what is stored. *)
LEMMA StoringFrame ==
  ASSUME StoredTiles, stored' = stored, counter' = counter, tile' = tile,
         \A w \in Workgroups : pc'[w] = "compute" <=> pc[w] = "compute"
  PROVE  StoredTiles'
<1>1. \A t \in Ids : Over(t)' = Over(t)
  BY DEF Over, Computing
<1> QED BY <1>1 DEF StoredTiles

(* One that does not count keeps the counts. *)
LEMMA CountsFrame ==
  ASSUME Counts, chunkDone' = chunkDone, \A d \in Peer, g \in Group : Counted(d, g)' = Counted(d, g)
  PROVE  Counts'
BY DEF Counts

(* What is counted depends on who is about to. *)
LEMMA CountedFrame ==
  ASSUME stored' = stored, tile' = tile, \A w \in Workgroups : pc'[w] = "count" <=> pc[w] = "count"
  PROVE  \A d \in Peer, g \in Group : Counted(d, g)' = Counted(d, g)
<1>1. \A c : Uncounted(c)' = Uncounted(c)
  BY DEF Uncounted
<1> QED BY <1>1 DEF Counted

(* Who is about to submit depends on his place and tile. *)
LEMMA ClaimsFrame ==
  ASSUME NEW w \in Workgroups, tile'[w] = tile[w],
         pc'[w] \in {"acquire", "put"} <=> pc[w] \in {"acquire", "put"}
  PROVE  \A d \in Peer, g \in Group : Claims(w, d, g)' = Claims(w, d, g)
<1>1. Dst(w)' = Dst(w) /\ Grp(w)' = Grp(w)
  BY DEF Dst, Grp
<1> QED BY <1>1 DEF Claims

(* One that neither completes nor submits keeps the submissions. *)
LEMMA TurnsFrame ==
  ASSUME Turns, Submissions, chunkDone' = chunkDone, submitted' = submitted, launched' = launched,
         \A w \in Workgroups : \A d \in Peer, g \in Group : Claims(w, d, g)' = Claims(w, d, g)
  PROVE  Turns' /\ Submissions'
<1>1. \A d \in Peer, g \in Group : Unclaimed(d, g)' = Unclaimed(d, g)
  BY DEF Unclaimed
<1>2. Turns'
  BY DEF Turns
<1>3. Submissions'
  BY <1>1 DEF Submissions
<1> QED BY <1>2, <1>3

(***************************************************************************)
(* The steps of a workgroup and of the stream.                             *)
(***************************************************************************)

(* Drawing: the number is nobody else's, and not over. *)
LEMMA InvFetch == ASSUME IInv, NEW w \in Workgroups, Fetch(w) PROVE Flow'
<1>0. /\ Typed /\ Draws /\ Owners /\ StoredTiles /\ Counts /\ Turns /\ Submissions
      /\ counter \in Nat /\ TotalTiles \in Nat /\ launched \in Nat /\ tile \in [Workgroups -> Nat]
      /\ pc \in [Workgroups -> Places]
  <2>1. launched \in Nat
    BY ShapeAssumption DEF IInv, Flow, Draws
  <2> QED BY <2>1, Sizes DEF IInv, LockInv, Typed, Flow
<1>1. /\ pc[w] = "fetch" /\ tile' = [tile EXCEPT ![w] = counter] /\ counter' = counter + 1
      /\ pc' = [pc EXCEPT ![w] = IF counter < TotalTiles THEN "compute" ELSE "returned"]
      /\ launched' = launched /\ stored' = stored /\ chunkDone' = chunkDone /\ submitted' = submitted
  BY DEF Fetch, Goto
<1>2. /\ tile'[w] = counter /\ \A v \in Workgroups : v # w => tile'[v] = tile[v] /\ pc'[v] = pc[v]
      /\ pc'[w] = IF counter < TotalTiles THEN "compute" ELSE "returned"
  BY <1>0, <1>1
<1>3. launched > 0
  <2>1. launched # 0
    BY <1>0, <1>1 DEF Draws
  <2> QED BY <1>0, <2>1
<1>4. Draws'
  <2>1. counter' <= TotalTiles + Cardinality(Returned)'
    <3>1. CASE counter < TotalTiles
      <4>1. Returned' = Returned
        BY <1>1, <1>2, <3>1 DEF Returned
      <4> QED BY <1>0, <1>1, <3>1, <4>1, Grid
    <3>2. CASE ~(counter < TotalTiles)
      <4>1. Returned' = Returned \cup {w} /\ w \notin Returned
        BY <1>1, <1>2, <3>2 DEF Returned
      <4>2. Cardinality(Returned') = Cardinality(Returned) + 1
        BY <4>1, Grid, FS_AddElement
      <4> QED BY <1>0, <1>1, <4>2, Grid DEF Draws
    <3> QED BY <3>1, <3>2
  <2>2. \A v \in Workgroups : tile'[v] <= TotalTiles + Cardinality(Workgroups)
    <3>1. counter <= TotalTiles + Cardinality(Workgroups)
      BY <1>0, Grid DEF Draws
    <3> QED BY <1>0, <1>2, <3>1 DEF Draws
  <2>3. \A v \in Workgroups : pc'[v] = "returned" => counter' >= TotalTiles
    <3>1. ASSUME NEW v \in Workgroups, pc'[v] = "returned" PROVE counter >= TotalTiles
      <4>1. CASE v = w
        BY <1>0, <1>2, <3>1, <4>1
      <4>2. CASE v # w
        BY <1>0, <1>2, <1>3, <3>1, <4>2 DEF Draws
      <4> QED BY <4>1, <4>2
    <3> QED BY <1>0, <1>1, <3>1
  <2>4. launched' \in 0 .. Launches /\ launched' # 0
    BY <1>0, <1>1, <1>3 DEF Draws
  <2> QED BY <2>1, <2>2, <2>3, <2>4 DEF Draws
<1>5. \A v \in Workgroups : v # w => Working(v)' = Working(v)
  BY <1>2 DEF Working
<1>6. Working(w)' => counter < TotalTiles
  BY <1>2 DEF Working
<1>7. Owners'
  <2>1. ASSUME NEW v \in Workgroups, Working(v)' PROVE tile'[v] < counter' /\ tile'[v] < TotalTiles
    <3>1. CASE v = w
      BY <1>0, <1>1, <1>2, <1>6, <2>1, <3>1
    <3>2. CASE v # w
      <4>1. tile[v] < counter /\ tile[v] < TotalTiles /\ tile[v] \in Nat
        BY <1>0, <1>5, <2>1, <3>2 DEF Owners
      <4> QED BY <1>0, <1>1, <1>2, <3>2, <4>1
    <3> QED BY <3>1, <3>2
  <2>2. ASSUME NEW v \in Workgroups, Working(v)', v # w PROVE tile'[v] # counter
    <3>1. tile[v] < counter /\ tile[v] \in Nat
      BY <1>0, <1>5, <2>2 DEF Owners
    <3> QED BY <1>0, <1>2, <2>2, <3>1
  <2>3. ASSUME NEW v \in Workgroups, NEW u \in Workgroups, Working(v)', Working(u)', tile'[v] = tile'[u]
        PROVE  v = u
    BY <1>0, <1>2, <1>5, <2>2, <2>3 DEF Owners
  <2> QED BY <2>1, <2>3 DEF Owners
<1>8. StoredTiles'
  <2>1. ASSUME NEW t \in Ids PROVE Over(t)' = Over(t)
    <3>0. t \in Nat /\ t < TotalTiles
      BY <1>0, <2>1 DEF Ids
    <3>1. CASE t = counter
      <4>1. Computing(t)'
        BY <1>0, <1>2, <3>0, <3>1 DEF Computing
      <4>2. ~(t < counter)
        BY <1>0, <3>1
      <4> QED BY <4>1, <4>2 DEF Over
    <3>2. CASE t # counter
      <4>1. t < counter' <=> t < counter
        BY <1>0, <1>1, <3>0, <3>2
      <4>2. Computing(t)' <=> Computing(t)
        BY <1>1, <1>2, <3>2 DEF Computing
      <4> QED BY <4>1, <4>2 DEF Over
    <3> QED BY <3>1, <3>2
  <2> QED BY <1>0, <1>1, <2>1 DEF StoredTiles
<1>9. Counts'
  <2>1. \A c : Uncounted(c)' <=> Uncounted(c)
    BY <1>1, <1>2 DEF Uncounted
  <2>2. \A d \in Peer, g \in Group : Counted(d, g)' = Counted(d, g)
    BY <1>1, <2>1 DEF Counted
  <2> QED BY <1>0, <1>1, <2>2, CountsFrame
<1>10. Turns' /\ Submissions'
  <2>1. ASSUME NEW v \in Workgroups PROVE \A d \in Peer, g \in Group : Claims(v, d, g)' = Claims(v, d, g)
    <3>1. CASE v = w
      <4>1. pc[v] \notin {"acquire", "put"} /\ pc'[v] \notin {"acquire", "put"}
        BY <1>1, <1>2, <3>1
      <4> QED BY <4>1 DEF Claims
    <3>2. CASE v # w
      BY <1>2, <3>2, ClaimsFrame
    <3> QED BY <3>1, <3>2
  <2> QED BY <1>0, <1>1, <2>1, TurnsFrame
<1> QED BY <1>4, <1>7, <1>8, <1>9, <1>10 DEF Flow

(* Storing: a tile of a chunk is stored before it is counted, one of the tail is
   in no chunk. *)
LEMMA InvStore == ASSUME IInv, NEW w \in Workgroups, Store(w) PROVE Flow'
<1> DEFINE T == Tile(tile[w])
<1>0. /\ Typed /\ Draws /\ Owners /\ StoredTiles /\ Counts /\ Turns /\ Submissions
      /\ pc \in [Workgroups -> Places]
  BY DEF IInv, LockInv, Typed, Flow
<1>1. /\ pc[w] = "compute" /\ stored' = stored \cup {T}
      /\ pc' = [pc EXCEPT ![w] = IF Dst(w) < P THEN "count" ELSE "fetch"]
      /\ launched' = launched /\ counter' = counter /\ tile' = tile
      /\ chunkDone' = chunkDone /\ submitted' = submitted
  BY DEF Store, Goto
<1>2. /\ pc'[w] = IF Dst(w) < P THEN "count" ELSE "fetch"
      /\ \A v \in Workgroups : v # w => pc'[v] = pc[v]
  BY <1>0, <1>1
<1>3. Working(w) /\ tile[w] \in Ids /\ tile[w] < counter /\ Computing(tile[w])
  BY <1>1, PlaceOf DEF Working, Computing
<1>4. T \notin stored
  <2>1. ASSUME NEW t \in Ids, Over(t), T = Tile(t) PROVE FALSE
    <3>1. t = tile[w]
      BY <1>3, <2>1, TileOnce
    <3> QED BY <1>3, <2>1, <3>1 DEF Over
  <2> QED BY <1>0, <2>1 DEF StoredTiles
<1>5. Draws' /\ Owners'
  BY <1>0, <1>1, <1>2, DrawsFrame DEF Working
<1>6. StoredTiles'
  <2>1. ASSUME NEW t \in Ids PROVE Over(t)' <=> Over(t) \/ t = tile[w]
    <3>1. CASE t = tile[w]
      <4>1. ~Computing(t)'
        <5>1. ASSUME NEW v \in Workgroups, pc'[v] = "compute", tile[v] = t PROVE FALSE
          <6>1. v # w /\ pc[v] = "compute"
            BY <1>2, <5>1
          <6>2. Working(v) /\ tile[v] = tile[w]
            BY <3>1, <5>1, <6>1 DEF Working
          <6> QED BY <1>0, <1>3, <6>1, <6>2 DEF Owners
        <5> QED BY <1>1, <5>1 DEF Computing
      <4> QED BY <1>1, <1>3, <3>1, <4>1 DEF Over
    <3>2. CASE t # tile[w]
      <4>1. Computing(t)' <=> Computing(t)
        BY <1>1, <1>2, <3>2 DEF Computing
      <4> QED BY <1>1, <3>2, <4>1 DEF Over
    <3> QED BY <3>1, <3>2
  <2>2. {t \in Ids : Over(t)}' = {t \in Ids : Over(t)} \cup {tile[w]}
    BY <1>3, <2>1
  <2>3. stored' = {Tile(t) : t \in {u \in Ids : Over(u)}} \cup {T}
    BY <1>0, <1>1 DEF StoredTiles
  <2>4. stored' = {Tile(t) : t \in {u \in Ids : Over(u)} \cup {tile[w]}}
    BY <2>3
  <2> QED BY <2>2, <2>4 DEF StoredTiles
<1>7. Counts'
  <2>1. ASSUME NEW d \in Peer, NEW g \in Group, NEW c \in ChunkArea(d, g)
        PROVE  c \in stored' /\ ~Uncounted(c)' <=> c \in stored /\ ~Uncounted(c)
    <3>1. CASE c = T
      <4>1. Dst(w) < P
        <5>1. c[2] \div TilesPerPeer = d
          BY <2>1, AreaOf
        <5>2. Dst(w) = d
          BY <3>1, <5>1 DEF Dst
        <5> QED BY <5>2, Sizes DEF Peer
      <4>2. Uncounted(c)'
        BY <1>1, <1>2, <3>1, <4>1 DEF Uncounted
      <4> QED BY <1>4, <3>1, <4>2
    <3>2. CASE c # T
      <4>1. Uncounted(c)' <=> Uncounted(c)
        BY <1>1, <1>2, <3>2 DEF Uncounted
      <4> QED BY <1>1, <3>2, <4>1
    <3> QED BY <3>1, <3>2
  <2>2. \A d \in Peer, g \in Group : Counted(d, g)' = Counted(d, g)
    BY <2>1 DEF Counted
  <2> QED BY <1>0, <1>1, <2>2, CountsFrame
<1>8. Turns' /\ Submissions'
  <2>1. \A v \in Workgroups : pc'[v] \in {"acquire", "put"} <=> pc[v] \in {"acquire", "put"}
    BY <1>1, <1>2
  <2>2. \A v \in Workgroups : \A d \in Peer, g \in Group : Claims(v, d, g)' = Claims(v, d, g)
    BY <1>1, <2>1, ClaimsFrame
  <2> QED BY <1>0, <1>1, <2>2, TurnsFrame
<1> QED BY <1>5, <1>6, <1>7, <1>8 DEF Flow

(* Counting: the tile joins those counted for its chunk, and only the last of them
   makes a claim. *)
LEMMA InvCount == ASSUME IInv, NEW w \in Workgroups, Count(w) PROVE Flow'
<1> DEFINE T == Tile(tile[w])
<1>0. /\ Typed /\ Draws /\ Owners /\ StoredTiles /\ Counts /\ Turns /\ Submissions
      /\ pc \in [Workgroups -> Places] /\ chunkDone \in [Peer -> [Group -> Nat]]
      /\ submitted \in [Peer -> [Group -> Int]]
  BY DEF IInv, LockInv, Typed, Flow, Counts, Submissions
<1>1. Working(w) /\ pc[w] = "count"
  BY DEF Count, Working
<1>2. PICK D \in Peer, G \in Group : D = Dst(w) /\ G = Grp(w) /\ T \in ChunkArea(D, G)
  BY <1>1, PlaceOf
<1>3. tile[w] \in Ids /\ tile[w] < counter /\ launched > 0
  BY <1>1, PlaceOf
<1>4. PICK n \in Nat : n = chunkDone[D][G]
  BY <1>0
<1>5. PICK go \in BOOLEAN : go = (n + 1 = Required /\ D # Me)
  OBVIOUS
<1>6. /\ chunkDone' = [chunkDone EXCEPT ![D][G] = n + 1]
      /\ launched' = launched /\ counter' = counter /\ tile' = tile
      /\ stored' = stored /\ submitted' = submitted
      /\ pc' = [pc EXCEPT ![w] = IF chunkDone'[D][G] = Required /\ D # Me THEN "acquire" ELSE "fetch"]
  BY <1>2, <1>4 DEF Count, Goto
<1>7. /\ chunkDone' \in [Peer -> [Group -> Nat]] /\ chunkDone'[D][G] = n + 1
      /\ \A d \in Peer, g \in Group : ~(d = D /\ g = G) => chunkDone'[d][g] = chunkDone[d][g]
  BY <1>0, <1>6
<1>8. /\ pc'[w] = IF go THEN "acquire" ELSE "fetch"
      /\ \A v \in Workgroups : v # w => pc'[v] = pc[v]
  BY <1>0, <1>5, <1>6, <1>7
<1>9. Draws' /\ Owners'
  BY <1>0, <1>1, <1>6, <1>8, DrawsFrame DEF Working
<1>10. StoredTiles'
  <2>1. \A v \in Workgroups : pc'[v] = "compute" <=> pc[v] = "compute"
    BY <1>1, <1>8
  <2> QED BY <1>0, <1>6, <2>1, StoringFrame
<1>11. ASSUME NEW v \in Workgroups, Working(v), Tile(tile[v]) = T PROVE v = w
  <2>1. tile[v] = tile[w]
    BY <1>3, <1>11, PlaceOf, TileOnce
  <2> QED BY <1>0, <1>1, <1>11, <2>1 DEF Owners
<1>12. T \in stored
  <2>1. ~Computing(tile[w])
    <3>1. ASSUME NEW v \in Workgroups, pc[v] = "compute", tile[v] = tile[w] PROVE FALSE
      <4>1. v = w
        BY <1>11, <3>1 DEF Working
      <4> QED BY <1>1, <3>1, <4>1
    <3> QED BY <3>1 DEF Computing
  <2> QED BY <1>0, <1>3, <2>1 DEF StoredTiles, Over
<1>13. Uncounted(T) /\ ~Uncounted(T)' /\ \A c : c # T => (Uncounted(c)' <=> Uncounted(c))
  <2>1. Uncounted(T)
    BY <1>1 DEF Uncounted
  <2>2. ASSUME NEW v \in Workgroups, pc'[v] = "count", Tile(tile[v]) = T PROVE FALSE
    <3>1. v # w /\ pc[v] = "count"
      BY <1>8, <2>2
    <3> QED BY <1>11, <2>2, <3>1 DEF Working
  <2>3. ~Uncounted(T)'
    BY <1>6, <2>2 DEF Uncounted
  <2>4. ASSUME NEW c, c # T PROVE Uncounted(c)' <=> Uncounted(c)
    BY <1>1, <1>6, <1>8, <2>4 DEF Uncounted
  <2> QED BY <2>1, <2>3, <2>4
<1>14. Counted(D, G)' = Counted(D, G) \cup {T} /\ T \notin Counted(D, G)
  BY <1>2, <1>6, <1>12, <1>13 DEF Counted
<1>15. ASSUME NEW d \in Peer, NEW g \in Group, ~(d = D /\ g = G) PROVE Counted(d, g)' = Counted(d, g)
  <2>1. T \notin ChunkArea(d, g)
    <3>1. T[1] \div ChunkTiles = G /\ T[2] \div TilesPerPeer = D
      BY <1>2, AreaOf
    <3>2. T \in ChunkArea(d, g) => T[1] \div ChunkTiles = g /\ T[2] \div TilesPerPeer = d
      BY AreaOf
    <3> QED BY <1>15, <3>1, <3>2
  <2> QED BY <1>6, <1>13, <2>1 DEF Counted
<1>16. Cardinality(Counted(D, G)') = n + 1 /\ n + 1 <= Required
  <2>1. Counted(D, G) \in SUBSET ChunkArea(D, G) /\ Cardinality(Counted(D, G)) = n
    BY <1>0, <1>4 DEF Counts, Counted
  <2>2. IsFiniteSet(Counted(D, G))
    BY <2>1, PartOf
  <2>3. Cardinality(Counted(D, G) \cup {T}) = n + 1
    BY <1>14, <2>1, <2>2, FS_AddElement
  <2>4. Counted(D, G) \cup {T} \in SUBSET ChunkArea(D, G)
    BY <1>2, <2>1
  <2>5. Cardinality(Counted(D, G) \cup {T}) <= Required
    BY <2>4, PartOf
  <2> QED BY <1>14, <2>3, <2>5
<1>17. Counts'
  <2>1. ASSUME NEW d \in Peer, NEW g \in Group PROVE chunkDone'[d][g] = Cardinality(Counted(d, g)')
    <3>1. CASE d = D /\ g = G
      BY <1>7, <1>16, <3>1
    <3>2. CASE ~(d = D /\ g = G)
      BY <1>0, <1>7, <1>15, <3>2 DEF Counts
    <3> QED BY <3>1, <3>2
  <2> QED BY <1>7, <2>1 DEF Counts
<1>18. n # Required
  BY <1>16, Sizes
<1>19. \A v \in Workgroups : ~Claims(v, D, G)
  BY <1>0, <1>4, <1>18 DEF Turns
<1>20. /\ \A v \in Workgroups : \A d \in Peer, g \in Group : v # w => Claims(v, d, g)' = Claims(v, d, g)
       /\ \A d \in Peer, g \in Group : Claims(w, d, g)' <=> go /\ d = D /\ g = G
       /\ \A d \in Peer, g \in Group : ~Claims(w, d, g)
  <2>1. ASSUME NEW v \in Workgroups, v # w PROVE \A d \in Peer, g \in Group : Claims(v, d, g)' = Claims(v, d, g)
    BY <1>6, <1>8, <2>1, ClaimsFrame
  <2>2. Dst(w)' = D /\ Grp(w)' = G
    BY <1>2, <1>6 DEF Dst, Grp
  <2>3. \A d \in Peer, g \in Group : Claims(w, d, g)' <=> go /\ d = D /\ g = G
    BY <1>8, <2>2 DEF Claims
  <2>4. \A d \in Peer, g \in Group : ~Claims(w, d, g)
    BY <1>1 DEF Claims
  <2> QED BY <2>1, <2>3, <2>4
<1>21. Turns'
  <2>1. ASSUME NEW d \in Peer, NEW g \in Group, NEW v \in Workgroups, Claims(v, d, g)'
        PROVE  /\ d # Me /\ chunkDone'[d][g] = Required
               /\ \A u \in Workgroups : Claims(u, d, g)' => u = v
    <3>1. CASE d = D /\ g = G
      <4>1. ASSUME NEW u \in Workgroups, Claims(u, d, g)' PROVE u = w
        BY <1>19, <1>20, <3>1, <4>1
      <4>2. v = w
        BY <2>1, <4>1
      <4>3. go
        BY <1>20, <2>1, <4>2
      <4> QED BY <1>5, <1>7, <3>1, <4>1, <4>2, <4>3
    <3>2. CASE ~(d = D /\ g = G)
      <4>1. \A u \in Workgroups : Claims(u, d, g)' <=> Claims(u, d, g)
        BY <1>20, <3>2
      <4> QED BY <1>0, <1>7, <2>1, <3>2, <4>1 DEF Turns
    <3> QED BY <3>1, <3>2
  <2> QED BY <2>1 DEF Turns
<1>22. Submissions'
  <2>1. ASSUME NEW d \in Peer, NEW g \in Group
        PROVE  submitted[d][g] =
                 IF d = Me \/ launched = 0 THEN 0
                 ELSE IF chunkDone'[d][g] = Required /\ Unclaimed(d, g)' THEN launched ELSE launched - 1
    <3>1. submitted[d][g] =
            IF d = Me \/ launched = 0 THEN 0
            ELSE IF chunkDone[d][g] = Required /\ Unclaimed(d, g) THEN launched ELSE launched - 1
      BY <1>0 DEF Submissions
    <3>2. CASE d = D /\ g = G
      <4>1. submitted[d][g] = IF d = Me \/ launched = 0 THEN 0 ELSE launched - 1
        BY <1>4, <1>18, <3>1, <3>2
      <4>2. CASE d = Me
        BY <4>1, <4>2
      <4>3. CASE d # Me /\ n + 1 = Required
        <5>1. Claims(w, d, g)'
          BY <1>5, <1>20, <3>2, <4>3
        <5>2. ~Unclaimed(d, g)'
          BY <5>1 DEF Unclaimed
        <5> QED BY <4>1, <5>2
      <4>4. CASE n + 1 # Required
        BY <1>7, <3>2, <4>1, <4>4
      <4> QED BY <4>2, <4>3, <4>4
    <3>3. CASE ~(d = D /\ g = G)
      <4>1. \A u \in Workgroups : Claims(u, d, g)' <=> Claims(u, d, g)
        BY <1>20, <3>3
      <4>2. Unclaimed(d, g)' <=> Unclaimed(d, g)
        BY <4>1 DEF Unclaimed
      <4> QED BY <1>7, <3>1, <3>3, <4>2
    <3> QED BY <3>2, <3>3
  <2> QED BY <1>0, <1>6, <2>1 DEF Submissions
<1> QED BY <1>9, <1>10, <1>17, <1>21, <1>22 DEF Flow

(* Taking and freeing the lock. *)
LEMMA InvLock == ASSUME IInv, NEW w \in Workgroups, Acquire(w) \/ Release(w) PROVE Flow'
<1>0. /\ Typed /\ Draws /\ Owners /\ StoredTiles /\ Counts /\ Turns /\ Submissions
      /\ pc \in [Workgroups -> Places]
  BY DEF IInv, LockInv, Typed, Flow
<1>1. /\ \/ pc[w] = "acquire" /\ pc' = [pc EXCEPT ![w] = "put"]
         \/ pc[w] = "release" /\ pc' = [pc EXCEPT ![w] = "fetch"]
      /\ launched' = launched /\ counter' = counter /\ tile' = tile
      /\ stored' = stored /\ chunkDone' = chunkDone /\ submitted' = submitted
  BY DEF Acquire, Release, Goto
<1>2. /\ \/ pc[w] = "acquire" /\ pc'[w] = "put"
         \/ pc[w] = "release" /\ pc'[w] = "fetch"
      /\ \A v \in Workgroups : v # w => pc'[v] = pc[v]
  BY <1>0, <1>1
<1>3. Draws' /\ Owners'
  BY <1>0, <1>1, <1>2, DrawsFrame DEF Working
<1>4. /\ \A v \in Workgroups : pc'[v] = "compute" <=> pc[v] = "compute"
      /\ \A v \in Workgroups : pc'[v] = "count" <=> pc[v] = "count"
      /\ \A v \in Workgroups : pc'[v] \in {"acquire", "put"} <=> pc[v] \in {"acquire", "put"}
  BY <1>2
<1>5. StoredTiles'
  BY <1>0, <1>1, <1>4, StoringFrame
<1>6. \A d \in Peer, g \in Group : Counted(d, g)' = Counted(d, g)
  BY <1>1, <1>4, CountedFrame
<1>7. Counts'
  BY <1>0, <1>1, <1>6, CountsFrame
<1>8. \A v \in Workgroups : \A d \in Peer, g \in Group : Claims(v, d, g)' = Claims(v, d, g)
  BY <1>1, <1>4, ClaimsFrame
<1>9. Turns' /\ Submissions'
  BY <1>0, <1>1, <1>8, TurnsFrame
<1> QED BY <1>3, <1>5, <1>7, <1>9 DEF Flow

(* Submitting: the only claim to the chunk is met. *)
LEMMA InvSubmit == ASSUME IInv, NEW w \in Workgroups, Submit(w) PROVE Flow'
<1>0. /\ Typed /\ Draws /\ Owners /\ StoredTiles /\ Counts /\ Turns /\ Submissions
      /\ pc \in [Workgroups -> Places] /\ submitted \in [Peer -> [Group -> Int]]
  BY DEF IInv, LockInv, Typed, Flow, Submissions
<1>1. Working(w) /\ pc[w] = "put"
  BY DEF Submit, Working
<1>2. PICK D \in Peer, G \in Group : D = Dst(w) /\ G = Grp(w)
  BY <1>1, PlaceOf
<1>3. launched > 0 /\ launched \in Int
  <2>1. launched \in Int
    BY <1>0, ShapeAssumption DEF Draws
  <2> QED BY <1>1, <2>1, PlaceOf
<1>4. Claims(w, D, G)
  BY <1>1, <1>2 DEF Claims
<1>5. D # Me /\ chunkDone[D][G] = Required /\ \A v \in Workgroups : Claims(v, D, G) => v = w
  BY <1>0, <1>4 DEF Turns
<1>6. submitted[D][G] = launched - 1
  <2>1. ~Unclaimed(D, G)
    BY <1>4 DEF Unclaimed
  <2> QED BY <1>0, <1>3, <1>5, <2>1 DEF Submissions
<1>7. /\ submitted' = [submitted EXCEPT ![D][G] = submitted[D][G] + 1]
      /\ launched' = launched /\ counter' = counter /\ tile' = tile
      /\ stored' = stored /\ chunkDone' = chunkDone
      /\ pc' = [pc EXCEPT ![w] = "release"]
  BY <1>2 DEF Submit, Goto
<1>8. /\ submitted' \in [Peer -> [Group -> Int]] /\ submitted'[D][G] = launched
      /\ \A d \in Peer, g \in Group : ~(d = D /\ g = G) => submitted'[d][g] = submitted[d][g]
  <2>1. submitted[D][G] + 1 = launched
    BY <1>3, <1>6
  <2> QED BY <1>0, <1>3, <1>7, <2>1
<1>9. pc'[w] = "release" /\ \A v \in Workgroups : v # w => pc'[v] = pc[v]
  BY <1>0, <1>7
<1>10. Draws' /\ Owners'
  BY <1>0, <1>1, <1>7, <1>9, DrawsFrame DEF Working
<1>11. /\ \A v \in Workgroups : pc'[v] = "compute" <=> pc[v] = "compute"
       /\ \A v \in Workgroups : pc'[v] = "count" <=> pc[v] = "count"
  BY <1>1, <1>9
<1>12. StoredTiles'
  BY <1>0, <1>7, <1>11, StoringFrame
<1>13. Counts'
  <2>1. \A d \in Peer, g \in Group : Counted(d, g)' = Counted(d, g)
    BY <1>7, <1>11, CountedFrame
  <2> QED BY <1>0, <1>7, <2>1, CountsFrame
<1>14. /\ \A v \in Workgroups : \A d \in Peer, g \in Group : v # w => Claims(v, d, g)' = Claims(v, d, g)
       /\ \A d \in Peer, g \in Group : ~Claims(w, d, g)'
       /\ \A d \in Peer, g \in Group : Claims(w, d, g) => d = D /\ g = G
  <2>1. ASSUME NEW v \in Workgroups, v # w PROVE \A d \in Peer, g \in Group : Claims(v, d, g)' = Claims(v, d, g)
    BY <1>7, <1>9, <2>1, ClaimsFrame
  <2>2. \A d \in Peer, g \in Group : ~Claims(w, d, g)'
    BY <1>9 DEF Claims
  <2>3. \A d \in Peer, g \in Group : Claims(w, d, g) => d = D /\ g = G
    BY <1>2 DEF Claims
  <2> QED BY <2>1, <2>2, <2>3
<1>15. Turns'
  <2>1. ASSUME NEW d \in Peer, NEW g \in Group, NEW v \in Workgroups, Claims(v, d, g)' PROVE Claims(v, d, g)
    BY <1>14, <2>1
  <2> QED BY <1>0, <1>7, <2>1 DEF Turns
<1>16. Submissions'
  <2>1. ASSUME NEW d \in Peer, NEW g \in Group
        PROVE  submitted'[d][g] =
                 IF d = Me \/ launched = 0 THEN 0
                 ELSE IF chunkDone[d][g] = Required /\ Unclaimed(d, g)' THEN launched ELSE launched - 1
    <3>1. CASE d = D /\ g = G
      <4>1. Unclaimed(d, g)'
        <5>1. ASSUME NEW v \in Workgroups PROVE ~Claims(v, D, G)'
          BY <1>5, <1>14
        <5> QED BY <3>1, <5>1 DEF Unclaimed
      <4> QED BY <1>3, <1>5, <1>8, <3>1, <4>1
    <3>2. CASE ~(d = D /\ g = G)
      <4>1. \A u \in Workgroups : Claims(u, d, g)' <=> Claims(u, d, g)
        BY <1>14, <3>2
      <4>2. Unclaimed(d, g)' <=> Unclaimed(d, g)
        BY <4>1 DEF Unclaimed
      <4>3. submitted[d][g] =
              IF d = Me \/ launched = 0 THEN 0
              ELSE IF chunkDone[d][g] = Required /\ Unclaimed(d, g) THEN launched ELSE launched - 1
        BY <1>0 DEF Submissions
      <4> QED BY <1>8, <3>2, <4>2, <4>3
    <3> QED BY <3>1, <3>2
  <2> QED BY <1>7, <1>8, <2>1 DEF Submissions
<1> QED BY <1>10, <1>12, <1>13, <1>15, <1>16 DEF Flow

(* When nobody works, all is stored, counted and submitted. *)
LEMMA AllOver ==
  ASSUME IInv, launched > 0, \A w \in Workgroups : pc[w] = "returned"
  PROVE  /\ stored = TilePlaces
         /\ \A d \in Peer, g \in Group : submitted[d][g] = IF d = Me THEN 0 ELSE launched
<1>0. Draws /\ StoredTiles /\ Counts /\ Submissions /\ counter \in Nat /\ TotalTiles \in Nat
  BY Sizes DEF IInv, LockInv, Typed, Flow
<1>1. counter >= TotalTiles
  <2>1. PICK w \in Workgroups : TRUE
    BY WorkgroupsAssumption
  <2> QED BY <1>0, <2>1 DEF Draws
<1>2. stored = TilePlaces
  <2>1. \A t \in Ids : Over(t)
    BY <1>0, <1>1 DEF Over, Computing, Ids
  <2>2. {u \in Ids : Over(u)} = Ids
    BY <2>1
  <2> QED BY <1>0, <2>2, TileAll DEF StoredTiles
<1>3. ASSUME NEW d \in Peer, NEW g \in Group PROVE submitted[d][g] = IF d = Me THEN 0 ELSE launched
  <2>1. Counted(d, g) = ChunkArea(d, g)
    BY <1>2, AreaOf DEF Counted, Uncounted
  <2>2. chunkDone[d][g] = Required
    BY <1>0, <2>1, AreaOf DEF Counts
  <2>3. Unclaimed(d, g)
    BY DEF Unclaimed, Claims
  <2>4. launched # 0
    BY <1>0, ShapeAssumption DEF Draws
  <2> QED BY <1>0, <2>2, <2>3, <2>4 DEF Submissions
<1> QED BY <1>2, <1>3

(* A launch starts with nothing drawn, stored or counted. *)
LEMMA InvLaunch == ASSUME IInv, Launch PROVE Flow'
<1>0. /\ Draws /\ Submissions /\ TotalTiles \in Nat /\ Required \in Nat \ {0}
      /\ launched \in Nat /\ Launches \in Nat /\ submitted \in [Peer -> [Group -> Int]]
      /\ TotalTiles > 0
  <2>1. launched \in Nat /\ Launches \in Nat
    BY ShapeAssumption DEF IInv, Flow, Draws
  <2> QED BY <2>1, Sizes DEF IInv, Flow, Submissions
<1>1. /\ launched < Launches /\ launched' = launched + 1 /\ counter' = 0
      /\ chunkDone' = [d \in Peer |-> [g \in Group |-> 0]]
      /\ stored' = {} /\ pc' = [w \in Workgroups |-> "fetch"] /\ tile' = tile /\ submitted' = submitted
      /\ \A w \in Workgroups : pc[w] = "returned"
  BY DEF Launch, Cleared, Zero
<1>2. \A w \in Workgroups : pc'[w] = "fetch"
  BY <1>1
<1>3. \A d \in Peer, g \in Group : submitted[d][g] = IF d = Me THEN 0 ELSE launched
  <2>1. CASE launched = 0
    BY <1>0, <2>1 DEF Submissions
  <2>2. CASE launched # 0
    BY <1>0, <1>1, <2>2, AllOver
  <2> QED BY <2>1, <2>2
<1>4. Draws'
  <2>1. launched' \in 0 .. Launches /\ launched' # 0
    BY <1>0, <1>1
  <2>2. Cardinality(Returned)' = 0
    <3>1. Returned' = {}
      BY <1>2 DEF Returned
    <3> QED BY <3>1, FS_EmptySet
  <2>3. \A w \in Workgroups : tile'[w] <= TotalTiles + Cardinality(Workgroups)
    BY <1>0, <1>1 DEF Draws
  <2> QED BY <1>0, <1>1, <1>2, <2>1, <2>2, <2>3 DEF Draws
<1>5. Owners' /\ Turns'
  BY <1>2 DEF Owners, Turns, Working, Claims
<1>6. StoredTiles'
  <2>1. \A t \in Ids : ~Over(t)'
    BY <1>0, <1>1 DEF Over, Ids
  <2> QED BY <1>1, <2>1 DEF StoredTiles
<1>7. Counts'
  <2>1. \A d \in Peer, g \in Group : Counted(d, g)' = {}
    BY <1>1 DEF Counted
  <2> QED BY <1>1, <2>1, FS_EmptySet DEF Counts
<1>8. Submissions'
  <2>1. ASSUME NEW d \in Peer, NEW g \in Group
        PROVE  submitted[d][g] = IF d = Me \/ launched + 1 = 0 THEN 0 ELSE (launched + 1) - 1
    BY <1>0, <1>3
  <2>2. \A d \in Peer, g \in Group : chunkDone'[d][g] # Required
    BY <1>0, <1>1
  <2> QED BY <1>0, <1>1, <2>1, <2>2 DEF Submissions
<1> QED BY <1>4, <1>5, <1>6, <1>7, <1>8 DEF Flow

(***************************************************************************)
(* What holds of every run.                                                *)
(***************************************************************************)

(* Nothing is drawn before the first launch. *)
LEMMA InvInit == Init => IInv
<1> SUFFICES ASSUME Init PROVE IInv
  OBVIOUS
<1>1. /\ launched = 0 /\ counter = 0 /\ stored = {}
      /\ pc = [w \in Workgroups |-> "returned"] /\ tile = [w \in Workgroups |-> 0]
      /\ chunkDone = [d \in Peer |-> [g \in Group |-> 0]] /\ submitted = [d \in Peer |-> [g \in Group |-> 0]]
  BY DEF Init, Zero
<1>2. TotalTiles \in Nat /\ Launches \in Nat /\ Required \in Nat
  BY Sizes, ShapeAssumption
<1>3. Draws
  <2>1. 0 <= TotalTiles + Cardinality(Returned) /\ 0 <= TotalTiles + Cardinality(Workgroups)
    BY <1>2, Grid
  <2> QED BY <1>1, <1>2, <2>1 DEF Draws
<1>4. Owners /\ Turns
  BY <1>1 DEF Owners, Turns, Working, Claims
<1>5. StoredTiles
  <2>1. \A t \in Ids : ~Over(t)
    BY <1>1, <1>2 DEF Over, Ids
  <2> QED BY <1>1, <2>1 DEF StoredTiles
<1>6. Counts
  <2>1. \A d \in Peer, g \in Group : Counted(d, g) = {}
    BY <1>1 DEF Counted
  <2> QED BY <1>1, <2>1, FS_EmptySet DEF Counts
<1>7. Submissions
  BY <1>1 DEF Submissions
<1> QED BY <1>3, <1>4, <1>5, <1>6, <1>7, LockInit DEF IInv, Flow

(* Every step keeps the invariant. *)
LEMMA InvNext == IInv /\ [Next]_vars => IInv'
<1> SUFFICES ASSUME IInv, [Next]_vars PROVE IInv'
  OBVIOUS
<1>0. LockInv
  BY DEF IInv
<1>1. CASE Launch
  BY <1>0, <1>1, LockLaunch, InvLaunch DEF IInv
<1>2. ASSUME NEW w \in Workgroups, Work(w) PROVE IInv'
  <2>1. Flow'
    BY <1>2, InvFetch, InvStore, InvCount, InvLock, InvSubmit DEF Work
  <2> QED BY <1>0, <1>2, <2>1, LockWork DEF IInv
<1>3. CASE UNCHANGED vars
  <2>1. /\ launched' = launched /\ counter' = counter /\ pc' = pc /\ tile' = tile /\ stored' = stored
        /\ chunkDone' = chunkDone /\ lock' = lock /\ submitted' = submitted
    BY <1>3 DEF vars
  <2>2. LockInv'
    BY <1>0, <2>1 DEF LockInv, Typed, Aimed, Locked, Holding, Dst
  <2>3. Draws /\ Owners /\ StoredTiles /\ Counts /\ Turns /\ Submissions
    BY DEF IInv, Flow
  <2>4. Draws' /\ Owners'
    BY <2>1, <2>3, DrawsFrame DEF Working
  <2>5. StoredTiles'
    BY <2>1, <2>3, StoringFrame
  <2>6. Counts'
    <3>1. \A d \in Peer, g \in Group : Counted(d, g)' = Counted(d, g)
      BY <2>1, CountedFrame
    <3> QED BY <2>1, <2>3, <3>1, CountsFrame
  <2>7. Turns' /\ Submissions'
    <3>1. \A w \in Workgroups : \A d \in Peer, g \in Group : Claims(w, d, g)' = Claims(w, d, g)
      BY <2>1, ClaimsFrame
    <3> QED BY <2>1, <2>3, <3>1, TurnsFrame
  <2> QED BY <2>2, <2>4, <2>5, <2>6, <2>7 DEF IInv, Flow
<1> QED BY <1>1, <1>2, <1>3 DEF Next

(* The inductive invariant holds throughout. *)
THEOREM Invariance == Spec => []IInv
<1> QED BY InvInit, InvNext, PTL DEF Spec

(* The variables keep their types: in particular the counter stops within one draw
   per workgroup of the last tile, no chunk is counted beyond its tiles and none is
   submitted more often than launched. *)
THEOREM TypeCorrect == Spec => []TypeOK
<1>1. IInv => TypeOK
  <2> SUFFICES ASSUME IInv PROVE TypeOK
    OBVIOUS
  <2>1. Typed /\ Draws /\ StoredTiles /\ Counts /\ Submissions
    BY DEF IInv, LockInv, Flow
  <2>2. TotalTiles \in Nat /\ Launches \in Nat /\ launched \in Nat
    BY <2>1, Sizes, ShapeAssumption DEF Draws
  <2>3. counter \in 0 .. TotalTiles + Cardinality(Workgroups)
    BY <2>1, <2>2, Grid DEF Draws, Typed
  <2>4. tile \in [Workgroups -> 0 .. TotalTiles + Cardinality(Workgroups)]
    BY <2>1, <2>2, Grid DEF Draws, Typed
  <2>5. stored \subseteq (0 .. TilesM-1) \X (0 .. TilesN-1)
    <3>1. \A t \in Ids : Tile(t) \in TilePlaces
      BY TileOf
    <3> QED BY <2>1, <3>1 DEF StoredTiles, TilePlaces
  <2>6. chunkDone \in [Peer -> [Group -> 0 .. Required]]
    <3>1. ASSUME NEW d \in Peer, NEW g \in Group PROVE chunkDone[d][g] \in 0 .. Required
      <4>1. Counted(d, g) \in SUBSET ChunkArea(d, g)
        BY DEF Counted
      <4>2. Cardinality(Counted(d, g)) \in Nat /\ Cardinality(Counted(d, g)) <= Required
        BY <4>1, PartOf
      <4> QED BY <2>1, <4>2, Sizes DEF Counts
    <3> QED BY <2>1, <3>1 DEF Counts
  <2>7. submitted \in [Peer -> [Group -> 0 .. Launches]]
    <3>1. ASSUME NEW d \in Peer, NEW g \in Group PROVE submitted[d][g] \in 0 .. Launches
      BY <2>1, <2>2 DEF Submissions, Draws
    <3> QED BY <2>1, <3>1 DEF Submissions
  <2> QED BY <2>1, <2>3, <2>4, <2>5, <2>6, <2>7 DEF TypeOK, Typed, Places, Draws
<1> QED BY <1>1, Invariance, PTL

(* The submissions to a peer's queue never overlap, whatever the number of
   workgroups: opus_chunk_sdma_submit's exchange and release store bracket
   exactly one of them at a time. *)
THEOREM QueueNeverShared == Spec => []QueueExclusive
<1>1. IInv => QueueExclusive
  <2> SUFFICES ASSUME LockInv, NEW d \in Peer
               PROVE  Cardinality(Submitting(d)) <= 1
    BY DEF QueueExclusive, IInv
  <2>1. CASE Submitting(d) = {}
    BY <2>1, FS_EmptySet
  <2>2. CASE Submitting(d) # {}
    <3>1. PICK w \in Workgroups : w \in Submitting(d)
      BY <2>2 DEF Submitting
    <3>2. Submitting(d) = {w}
      BY <3>1 DEF Submitting, LockInv, Locked, Holding
    <3> QED
      BY <3>2, FS_Singleton
  <2> QED
    BY <2>1, <2>2
<1> QED
  BY <1>1, Invariance, PTL

(* A chunk that is submitted has been stored by this launch, every tile its PUT
   copies: the count at which a workgroup submits is reached by nothing less. *)
THEOREM WholeSubmissions == Spec => []SubmitsWhole
<1>1. IInv => SubmitsWhole
  <2> SUFFICES ASSUME IInv, NEW w \in Workgroups, pc[w] \in {"acquire", "put"}
               PROVE  ChunkArea(Dst(w), Grp(w)) \subseteq stored
    BY DEF SubmitsWhole
  <2>1. PICK D \in Peer, G \in Group : D = Dst(w) /\ G = Grp(w)
    BY PlaceOf DEF Working
  <2>2. chunkDone[D][G] = Required
    BY <2>1 DEF IInv, Flow, Turns, Claims
  <2>3. Counted(D, G) \in SUBSET ChunkArea(D, G) /\ Cardinality(Counted(D, G)) = Required
    BY <2>2 DEF IInv, Flow, Counts, Counted
  <2>4. Counted(D, G) = ChunkArea(D, G)
    BY <2>3, PartOf
  <2> QED BY <2>1, <2>4 DEF Counted
<1> QED BY <1>1, Invariance, PTL

(* A launch that has ended has stored the whole of C and submitted each chunk of
   every peer once. *)
THEOREM CompleteLaunches == Spec => []LaunchComplete
<1>1. IInv => LaunchComplete
  BY AllOver DEF LaunchComplete, TilePlaces
<1> QED BY <1>1, Invariance, PTL

=============================================================================
