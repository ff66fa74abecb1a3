--------------------------- MODULE LsaFused_proofs ---------------------------
(***************************************************************************)
(* Proofs about LsaFused, for every number of ranks, workgroups, tiles and *)
(* launches, and for every policy.                                         *)
(***************************************************************************)
EXTENDS LsaFused, FiniteSetTheorems, TLAPS

(***************************************************************************)
(* The inductive invariant.                                                *)
(***************************************************************************)

(* The barriers rank r has left. *)
Passed(r) == IF host[r] \in {"clear", "run", "compute"} THEN Entered(r) ELSE Entered(r) - 1

(* Where the host is while the GEMM runs, and once it has been launched. *)
GemmHost == IF Split THEN "compute" ELSE "run"
GemmStarted(r) == host[r] \in {"compute", "leave"} \/ (~Split /\ host[r] = "run")

(* Which workgroups may be under way, by the position of the host. *)
Phase(r) ==
  /\ host[r] \in {"exchanged", "compute"} => Split
  /\ host[r] # "run" => \A c \in Comm : comm[r][c] = CommEnd
  /\ host[r] # GemmHost => \A w \in Worker : shard[r][w] = ShardEnd
  /\ \A w \in Worker : w >= Workers => shard[r][w] = ShardEnd
  /\ host[r] # "clear" => launches[r] < Launches

(* Nobody is past a barrier that somebody has not reached. *)
Barrier(r, p) == Passed(r) <= Entered(p)

(* How far a communication workgroup is in the n-th launch. *)
Begun(p, n) == launches[p] = n - 1 /\ host[p] \notin {"clear", "meet"}
Moved(p, c, n) ==
  IF launches[p] >= n THEN CommEnd ELSE IF Begun(p, n) THEN comm[p][c] ELSE Pending

(* In that launch, it has stored its share at d; who has been counted there. *)
Stored(p, c, n, d) == \E i \in 0 .. R-2 : Peer(p, c, i) = d /\ Moved(p, c, n) >= 2 * i + 1
Counted(p, n, d) == {c \in Comm : \E i \in 0 .. R-2 : Peer(p, c, i) = d /\ Moved(p, c, n) >= 2 * i + 2}

(* A window that has been cleared for a launch holds the shares stored in that
   launch, and its counters count them: nothing is left from another launch. *)
Shares(d, p) ==
  /\ d = p => ready[d][p] = 0
  /\ host[d] # "clear" =>
       /\ \A c \in Comm : p = d \/ Stored(p, c, launches[d] + 1, d) => recv[d][p][c] = launches[d] + 1
       /\ p # d => ready[d][p] = Cardinality(Counted(p, launches[d] + 1, d))

(* What a compute workgroup has polled stays ready until the launch ends. *)
Polled(r) ==
  ~Split /\ host[r] \in {"run", "leave"} =>
    \A w \in Worker, k \in 1 .. R-1 :
      w < Workers /\ k <= shard[r][w] => ready[r][Part(r, k)] >= CommWGs

(* The tiles that have been handed out are computed, or one workgroup has each. *)
Tile == 0 .. Tasks-1
Active(r, w) == shard[r][w] # ShardEnd
Ended(r) == {w \in 0 .. Workers-1 : shard[r][w] = ShardEnd}

Fresh(r) ==
  host[r] # "clear" /\ ~GemmStarted(r) =>
    counter[r] = Workers /\ \A t \in Tile : computed[r][t] = 0

Tiles(r) ==
  GemmStarted(r) =>
    /\ Workers <= counter[r]
    /\ \A t \in Tile : t >= counter[r] => computed[r][t] = 0
    /\ \A t \in Tile : t < counter[r] /\ computed[r][t] = 0 =>
         \E w \in Worker : Active(r, w) /\ task[r][w] = t
    /\ \A w \in Worker : Active(r, w) =>
         /\ task[r][w] \in Tile /\ task[r][w] < counter[r] /\ computed[r][task[r][w]] = 0
         /\ \A v \in Worker : v # w /\ Active(r, v) => task[r][v] # task[r][w]
    /\ ~Drawing => \A w \in Worker : task[r][w] = w
    /\ Ended(r) # {} => counter[r] >= Tasks
    /\ counter[r] <= Tasks + Cardinality(Ended(r))

Own(r) == Phase(r) /\ Fresh(r) /\ Tiles(r)

IInv ==
  /\ TypeOK
  /\ \A r \in Ranks : Own(r) /\ Polled(r)
  /\ \A r, p \in Ranks : Barrier(r, p) /\ Shares(r, p)

(***************************************************************************)
(* Remainders, and the orders in which peers and shards are visited.       *)
(***************************************************************************)

(* Quotient and remainder. *)
LEMMA ModDef == ASSUME NEW a \in Int, NEW b \in Nat \ {0}
  PROVE \E q \in Int : a % b \in 0 .. b - 1 /\ a = b * q + (a % b) /\ a \div b = q
<1> DEFINE r == a \div b
           s == a % b
<1>1. r \in Int /\ s \in 0 .. b - 1 /\ a = b * r + s
  BY SMT
<1> HIDE DEF r, s
<1>2. \E q \in Int : s \in 0 .. b - 1 /\ a = b * q + s /\ r = q
  BY <1>1
<1> QED BY <1>2 DEF r, s

(* They are determined by their bounds. *)
LEMMA ModIs ==
  ASSUME NEW a \in Int, NEW b \in Nat \ {0}, NEW q \in Int, b * q <= a, a < b * q + b
  PROVE  a \div b = q /\ a % b = a - b * q
<1> DEFINE r == a \div b
           s == a % b
<1>1. r \in Int /\ s \in 0 .. b - 1 /\ a = b * r + s
  BY SMT
<1> HIDE DEF r, s
<1>2. r = q
  <2>1. ASSUME r < q PROVE FALSE
    <3>1. b * (q - r) >= b
      BY <1>1, <2>1, SMT
    <3> QED BY <1>1, <3>1, SMT
  <2>2. ASSUME r > q PROVE FALSE
    <3>1. b * (r - q) >= b
      BY <1>1, <2>2, SMT
    <3> QED BY <1>1, <3>1, SMT
  <2> QED BY <1>1, <2>1, <2>2, SMT
<1> QED BY <1>1, <1>2, SMT DEF r, s

(* Within one modulus on either side, a remainder is an addition. *)
LEMMA Wrap ==
  ASSUME NEW n \in Nat \ {0}, NEW a \in Int, a < 2 * n, -n <= a
  PROVE  a % n = IF a < 0 THEN a + n ELSE IF a < n THEN a ELSE a - n
<1>1. CASE a < 0
  <2>1. PICK q \in Int : q = -1
    OBVIOUS
  <2>2. n * q = -n
    BY <2>1
  <2>3. n * q <= a /\ a < n * q + n
    BY <1>1, <2>2
  <2>4. a % n = a - n * q
    BY <2>3, ModIs
  <2> DEFINE s == a % n
  <2>5. s = a - n * q
    BY <2>4
  <2> HIDE DEF s
  <2>6. s = a + n
    BY <2>2, <2>5
  <2> QED BY <1>1, <2>6 DEF s
<1>2. CASE 0 <= a /\ a < n
  <2>1. PICK q \in Int : q = 0
    OBVIOUS
  <2>2. n * q = 0
    BY <2>1
  <2>3. n * q <= a /\ a < n * q + n
    BY <1>2, <2>2
  <2>4. a % n = a - n * q
    BY <2>3, ModIs
  <2> QED BY <1>2, <2>2, <2>4
<1>3. CASE n <= a
  <2>1. PICK q \in Int : q = 1
    OBVIOUS
  <2>2. n * q = n
    BY <2>1
  <2>3. n * q <= a /\ a < n * q + n
    BY <1>3, <2>2
  <2>4. a % n = a - n * q
    BY <2>3, ModIs
  <2> QED BY <1>3, <2>2, <2>4
<1> QED BY <1>1, <1>2, <1>3

(* Equal remainders less than a modulus apart are of equal numbers. *)
LEMMA SameMod ==
  ASSUME NEW n \in Nat \ {0}, NEW a \in Int, NEW b \in Int, a % n = b % n, a - b < n, b - a < n
  PROVE  a = b
<1>1. PICK q \in Int : a = n * q + (a % n) /\ a % n \in 0 .. n - 1
  BY ModDef
<1>2. PICK p \in Int : b = n * p + (b % n) /\ b % n \in 0 .. n - 1
  BY ModDef
<1> DEFINE s == a % n
<1>3. s \in Int /\ a = n * q + s /\ b = n * p + s
  BY <1>1, <1>2
<1> HIDE DEF s
<1>4. a - b = n * (q - p)
  BY <1>3, SMT
<1>5. CASE q > p
  <2>1. n * (q - p) >= n
    BY <1>5, SMT
  <2> QED BY <1>4, <2>1
<1>6. CASE q < p
  <2>1. n * (q - p) <= -n
    BY <1>6, SMT
  <2> QED BY <1>4, <2>1
<1>7. CASE q = p
  BY <1>3, <1>7
<1> QED BY <1>5, <1>6, <1>7

(* Every remainder is reached from every offset. *)
LEMMA Shift ==
  ASSUME NEW n \in Nat \ {0}, NEW c \in Int, NEW x \in 0 .. n - 1
  PROVE  \E i \in 0 .. n - 1 : (i + c) % n = x
<1> DEFINE y == x - c
           i == y % n
<1>1. PICK q \in Int : i \in 0 .. n - 1 /\ y = n * q + i
  BY ModDef, y \in Int
<1> HIDE DEF i
<1>2. PICK p \in Int : p = -q
  OBVIOUS
<1>3. n * p = -(n * q)
  BY <1>2, SMT
<1> DEFINE z == i + c
<1>4. z = x + n * p /\ z \in Int
  BY <1>1, <1>3
<1> HIDE DEF z
<1>5. z % n = z - n * p
  <2>1. n * p <= z /\ z < n * p + n
    BY <1>4
  <2> QED BY <1>4, <2>1, ModIs
<1>6. z % n = x
  BY <1>4, <1>5
<1> QED BY <1>1, <1>6 DEF z

(* The sizes are what the code takes. *)
LEMMA Sizes ==
  /\ R \in Nat /\ R >= 2 /\ CommWGs \in Nat /\ CommWGs >= 1 /\ Tasks \in Nat /\ Tasks >= 1
  /\ Persistent \in Nat /\ Persistent >= 1 /\ Persistent <= Tasks /\ Launches \in Nat
  /\ Workers \in 1 .. Tasks /\ CommEnd \in Nat /\ CommEnd = 2 * (R - 1)
BY SizeAssumption, GridAssumption DEF Workers, CommEnd

(* A communication workgroup visits every peer, and no peer twice. *)
LEMMA Peers ==
  ASSUME NEW p \in Ranks, NEW c \in Comm
  PROVE  /\ \A i \in 0 .. R-2 : Peer(p, c, i) \in Ranks /\ Peer(p, c, i) # p
         /\ \A i, j \in 0 .. R-2 : Peer(p, c, i) = Peer(p, c, j) => i = j
         /\ \A d \in Ranks : d # p => \E i \in 0 .. R-2 : Peer(p, c, i) = d
<1> DEFINE n == R - 1
           x(i) == (i + c) % n
           a(i) == p - (1 + x(i)) + R
<1>0. R \in Nat \ {0} /\ n \in Nat \ {0} /\ c \in Nat /\ p \in 0 .. R-1 /\ n = R - 1
  BY Sizes DEF Comm, Ranks
<1>1. ASSUME NEW i \in 0 .. R-2
      PROVE  /\ x(i) \in 0 .. R-2 /\ a(i) \in p + 1 .. p + R - 1
             /\ Peer(p, c, i) = IF a(i) < R THEN a(i) ELSE a(i) - R
  <2>1. x(i) \in 0 .. n - 1
    <3>1. i + c \in Int
      BY <1>0
    <3> QED BY <1>0, <3>1, ModDef
  <2>2. Peer(p, c, i) = a(i) % R
    BY DEF Peer
  <2> HIDE DEF x
  <2>3. a(i) \in p + 1 .. p + R - 1 /\ a(i) \in Int /\ a(i) < 2 * R /\ -R <= a(i) /\ 0 <= a(i)
    BY <1>0, <2>1
  <2> HIDE DEF a, n
  <2>4. a(i) % R = IF a(i) < R THEN a(i) ELSE a(i) - R
    BY <1>0, <2>3, Wrap
  <2> QED BY <1>0, <2>1, <2>2, <2>3, <2>4
<1>2. ASSUME NEW i \in 0 .. R-2, NEW j \in 0 .. R-2, Peer(p, c, i) = Peer(p, c, j) PROVE i = j
  <2>1. x(i) = x(j)
    <3> HIDE DEF x
    <3>1. a(i) = a(j)
      <4>1. a(i) \in Int /\ a(j) \in Int
        BY <1>0, <1>1
      <4>2. /\ p + 1 <= a(i) /\ a(i) <= p + R - 1 /\ p + 1 <= a(j) /\ a(j) <= p + R - 1
            /\ (IF a(i) < R THEN a(i) ELSE a(i) - R) = (IF a(j) < R THEN a(j) ELSE a(j) - R)
        BY <1>0, <1>1, <1>2
      <4> HIDE DEF a
      <4> QED BY <1>0, <4>1, <4>2
    <3>2. x(i) \in Int /\ x(j) \in Int
      BY <1>0, <1>1
    <3> QED BY <1>0, <3>1, <3>2
  <2>2. i + c \in Int /\ j + c \in Int /\ (i + c) - (j + c) < n /\ (j + c) - (i + c) < n
    BY <1>0
  <2>3. i + c = j + c
    BY <1>0, <2>1, <2>2, SameMod
  <2> QED BY <1>0, <2>3
<1>3. ASSUME NEW d \in Ranks, d # p PROVE \E i \in 0 .. R-2 : Peer(p, c, i) = d
  <2> DEFINE y == IF d < p THEN p - 1 - d ELSE p - 1 - d + R
  <2>1. y \in 0 .. n - 1 /\ d \in 0 .. R-1
    BY <1>0, <1>3 DEF Ranks
  <2>2. PICK i \in 0 .. n - 1 : x(i) = y
    <3> HIDE DEF y
    <3>1. c \in Int
      BY <1>0
    <3> QED BY <1>0, <2>1, <3>1, Shift
  <2>3. i \in 0 .. R-2
    BY <1>0
  <2> HIDE DEF x
  <2>4. a(i) = IF d < p THEN d + R ELSE d
    BY <1>0, <2>1, <2>2
  <2>5. Peer(p, c, i) = d
    <3>1. Peer(p, c, i) = IF a(i) < R THEN a(i) ELSE a(i) - R
      BY <1>1, <2>3
    <3> HIDE DEF a
    <3> QED BY <1>0, <2>1, <2>4, <3>1
  <2> QED BY <2>3, <2>5
<1> HIDE DEF x, a, n
<1>4. ASSUME NEW i \in 0 .. R-2 PROVE Peer(p, c, i) \in Ranks /\ Peer(p, c, i) # p
  <2>1. /\ a(i) \in p + 1 .. p + R - 1
        /\ Peer(p, c, i) = IF a(i) < R THEN a(i) ELSE a(i) - R
    BY <1>1
  <2> QED BY <1>0, <2>1 DEF Ranks
<1> QED BY <1>2, <1>3, <1>4

(* A compute workgroup takes its own shard first, then that of every peer. *)
LEMMA Parts ==
  ASSUME NEW r \in Ranks
  PROVE  /\ \A k \in 0 .. R-1 : Part(r, k) \in Ranks
         /\ Part(r, 0) = r
         /\ \A k \in 1 .. R-1 : Part(r, k) # r
         /\ \A p \in Ranks : p # r => \E k \in 1 .. R-1 : Part(r, k) = p
<1>0. R \in Nat \ {0} /\ r \in 0 .. R-1
  BY Sizes DEF Ranks
<1>1. ASSUME NEW k \in 0 .. R-1 PROVE Part(r, k) = IF r + k < R THEN r + k ELSE r + k - R
  <2>1. r + k \in Int /\ r + k < 2 * R /\ -R <= r + k /\ ~ (r + k < 0)
    BY <1>0
  <2>2. (r + k) % R = IF r + k < 0 THEN (r + k) + R ELSE IF r + k < R THEN r + k ELSE (r + k) - R
    BY <1>0, <2>1, Wrap
  <2> DEFINE s == (r + k) % R
  <2>3. Part(r, k) = s
    BY DEF Part
  <2>4. s = IF r + k < 0 THEN (r + k) + R ELSE IF r + k < R THEN r + k ELSE (r + k) - R
    BY <2>2
  <2> HIDE DEF s
  <2> QED BY <1>0, <2>1, <2>3, <2>4
<1>2. ASSUME NEW p \in Ranks, p # r PROVE \E k \in 1 .. R-1 : Part(r, k) = p
  <2> DEFINE k == IF r < p THEN p - r ELSE p - r + R
  <2>1. p \in 0 .. R-1 /\ k \in 1 .. R-1 /\ (IF r + k < R THEN r + k ELSE r + k - R) = p
    BY <1>0, <1>2 DEF Ranks
  <2>2. k \in 0 .. R-1
    BY <1>0, <2>1
  <2>3. Part(r, k) = p
    <3> HIDE DEF k
    <3> QED BY <1>1, <2>1, <2>2
  <2> QED BY <2>1, <2>3
<1>3. \A k \in 0 .. R-1 : Part(r, k) \in 0 .. R-1
  BY <1>0, <1>1
<1>4. Part(r, 0) = r
  <2>1. 0 \in 0 .. R-1
    BY <1>0
  <2> QED BY <1>0, <1>1, <2>1
<1>5. \A k \in 1 .. R-1 : Part(r, k) # r
  BY <1>0, <1>1
<1> QED BY <1>2, <1>3, <1>4, <1>5 DEF Ranks

(***************************************************************************)
(* The hosts and their barriers.                                           *)
(***************************************************************************)

(* The values of one rank. *)
LEMMA Kinds ==
  ASSUME TypeOK, NEW r \in Ranks
  PROVE  /\ host[r] \in {"clear", "meet", "run", "exchanged", "compute", "leave"}
         /\ launches[r] \in 0 .. Launches /\ launches[r] \in Nat
         /\ counter[r] \in Nat
         /\ \A p \in Ranks : ready[r][p] \in 0 .. CommWGs /\ ready[r][p] \in Nat
         /\ \A c \in Comm : comm[r][c] \in -1 .. 2 * (R - 1) /\ comm[r][c] \in Int
         /\ \A w \in Worker : shard[r][w] \in -1 .. R /\ shard[r][w] \in Int
<1>1. TypeOK /\ R \in Nat /\ CommEnd = 2 * (R - 1) /\ CommWGs \in Nat /\ Launches \in Nat
      /\ Workers \in Nat /\ Tasks \in Nat
  BY Sizes
<1>2. host \in [Ranks -> {"clear", "meet", "run", "exchanged", "compute", "leave"}]
      /\ launches \in [Ranks -> 0 .. Launches] /\ counter \in [Ranks -> 0 .. Tasks + Workers]
  BY <1>1 DEF TypeOK
<1>3. ready \in [Ranks -> [Ranks -> 0 .. CommWGs]]
  BY <1>1 DEF TypeOK
<1>4. comm \in [Ranks -> [Comm -> -1 .. 2 * (R - 1)]]
  BY <1>1 DEF TypeOK, Pending
<1>5. shard \in [Ranks -> [Worker -> -1 .. R]]
  BY <1>1 DEF TypeOK, Pending, ShardEnd
<1>6. host[r] \in {"clear", "meet", "run", "exchanged", "compute", "leave"}
      /\ launches[r] \in 0 .. Launches /\ launches[r] \in Nat /\ counter[r] \in Nat
  BY <1>1, <1>2
<1>7. \A p \in Ranks : ready[r][p] \in 0 .. CommWGs /\ ready[r][p] \in Nat
  BY <1>1, <1>3
<1>8. \A c \in Comm : comm[r][c] \in -1 .. 2 * (R - 1) /\ comm[r][c] \in Int
  BY <1>1, <1>4
<1>9. \A w \in Worker : shard[r][w] \in -1 .. R /\ shard[r][w] \in Int
  BY <1>1, <1>5
<1> QED BY <1>6, <1>7, <1>8, <1>9

(* A run keeps its policy. *)
LEMMA PolicyStable ==
  ASSUME policy' = policy
  PROVE  /\ Split' = Split /\ Drawing' = Drawing /\ Workers' = Workers /\ Meetings' = Meetings
         /\ GemmHost' = GemmHost
BY DEF Split, Drawing, Workers, Meetings, GemmHost

(* The barriers a host has entered and left, by where it is. *)
Place(r) ==
  /\ launches[r] \in Nat /\ Entered(r) \in Nat /\ Passed(r) \in Int
  /\ host[r] = "clear" =>
       Entered(r) = Meetings * launches[r] /\ Passed(r) = Meetings * launches[r]
  /\ host[r] = "meet" =>
       Entered(r) = Meetings * launches[r] + 1 /\ Passed(r) = Meetings * launches[r]
  /\ host[r] = "run" =>
       Entered(r) = Meetings * launches[r] + 1 /\ Passed(r) = Meetings * launches[r] + 1
  /\ host[r] = "exchanged" =>
       /\ Split /\ Meetings = 3
       /\ Entered(r) = Meetings * launches[r] + 2 /\ Passed(r) = Meetings * launches[r] + 1
  /\ host[r] = "compute" =>
       /\ Split /\ Meetings = 3
       /\ Entered(r) = Meetings * launches[r] + 2 /\ Passed(r) = Meetings * launches[r] + 2
  /\ host[r] = "leave" =>
       /\ Entered(r) = Meetings * launches[r] + Meetings
       /\ Passed(r) = Meetings * launches[r] + Meetings - 1

(* A host is at one of these places. *)
LEMMA Places ==
  ASSUME TypeOK, NEW r \in Ranks, Phase(r)
  PROVE  Place(r)
<1>1. launches[r] \in Nat /\ host[r] \in {"clear", "meet", "run", "exchanged", "compute", "leave"}
  BY Kinds
<1>2. Meetings \in {2, 3} /\ (Split => Meetings = 3)
  BY DEF Meetings
<1>3. host[r] \in {"exchanged", "compute"} => Split
  BY DEF Phase
<1> DEFINE b == Meetings * launches[r]
<1>4. b \in Nat
  BY <1>1, <1>2
<1>5. Entered(r) = b + CASE host[r] = "clear" -> 0
                         [] host[r] \in {"meet", "run"} -> 1
                         [] host[r] \in {"exchanged", "compute"} -> 2
                         [] host[r] = "leave" -> Meetings
  BY DEF Entered
<1>6. b = Meetings * launches[r]
  OBVIOUS
<1> HIDE DEF b
<1>7. CASE host[r] = "clear"
  BY <1>1, <1>2, <1>4, <1>5, <1>6, <1>7 DEF Passed, Place
<1>8. CASE host[r] = "meet"
  BY <1>1, <1>2, <1>4, <1>5, <1>6, <1>8 DEF Passed, Place
<1>9. CASE host[r] = "run"
  BY <1>1, <1>2, <1>4, <1>5, <1>6, <1>9 DEF Passed, Place
<1>10. CASE host[r] = "exchanged"
  BY <1>1, <1>2, <1>3, <1>4, <1>5, <1>6, <1>10 DEF Passed, Place
<1>11. CASE host[r] = "compute"
  BY <1>1, <1>2, <1>3, <1>4, <1>5, <1>6, <1>11 DEF Passed, Place
<1>12. CASE host[r] = "leave"
  BY <1>1, <1>2, <1>4, <1>5, <1>6, <1>12 DEF Passed, Place
<1> QED BY <1>1, <1>6, <1>7, <1>8, <1>9, <1>10, <1>11, <1>12 DEF Place

(* The same of a rank that has just moved. *)
LEMMA PlaceNext ==
  ASSUME NEW r \in Ranks
  PROVE  (TypeOK /\ Phase(r) => Place(r))'
<1>1. TypeOK /\ Phase(r) => Place(r)
  BY Places
<1> QED BY <1>1, PTL

(* The barriers order the launches: a rank that has begun its next launch is at
   most one barrier ahead. *)
LEMMA Ordered ==
  ASSUME IInv, NEW r \in Ranks, NEW p \in Ranks
  PROVE  /\ host[r] = "run" => launches[p] = launches[r] /\ host[p] # "clear"
         /\ host[r] = "clear" =>
              launches[p] <= launches[r] /\ ~Begun(p, launches[r] + 1)
         /\ Split /\ host[r] \in {"compute", "leave"} =>
              \/ launches[p] >= launches[r] + 1
              \/ launches[p] = launches[r] /\ host[p] \in {"exchanged", "compute", "leave"}
<1>1. TypeOK /\ Phase(r) /\ Phase(p) /\ Passed(r) <= Entered(p) /\ Passed(p) <= Entered(r)
  BY DEF IInv, Own, Barrier
<1>2. /\ host[r] \in {"clear", "meet", "run", "exchanged", "compute", "leave"}
      /\ host[p] \in {"clear", "meet", "run", "exchanged", "compute", "leave"}
      /\ launches[r] \in Nat /\ launches[p] \in Nat
      /\ Meetings \in {2, 3} /\ (Split => Meetings = 3)
  BY <1>1, Kinds DEF Meetings
<1> DEFINE x == Meetings * launches[r]
           y == Meetings * launches[p]
<1>3. /\ x \in Nat /\ y \in Nat /\ (launches[p] > launches[r] => y >= x + Meetings)
      /\ (launches[p] < launches[r] => x >= y + Meetings) /\ (launches[p] = launches[r] => x = y)
  <2>1. CASE Meetings = 2
    BY <1>2, <2>1
  <2>2. CASE Meetings = 3
    BY <1>2, <2>2
  <2> QED BY <1>2, <2>1, <2>2
<1>4. /\ Entered(r) \in Nat /\ Passed(r) \in Int
      /\ host[r] = "clear" => Entered(r) = x
      /\ host[r] = "run" => Entered(r) = x + 1 /\ Passed(r) = x + 1
      /\ host[r] = "compute" => Passed(r) = x + 2
      /\ host[r] = "leave" => Passed(r) = x + Meetings - 1
  BY <1>1, Places DEF Place
<1>5. /\ Entered(p) \in Nat /\ Passed(p) \in Int
      /\ host[p] = "clear" => Entered(p) = y /\ Passed(p) = y
      /\ host[p] = "meet" => Entered(p) = y + 1 /\ Passed(p) = y
      /\ host[p] = "run" => Entered(p) = y + 1 /\ Passed(p) = y + 1
      /\ host[p] = "exchanged" => Entered(p) = y + 2 /\ Passed(p) = y + 1
      /\ host[p] = "compute" => Entered(p) = y + 2 /\ Passed(p) = y + 2 /\ Meetings = 3
      /\ host[p] = "leave" => Entered(p) = y + Meetings /\ Passed(p) = y + Meetings - 1
  BY <1>1, Places DEF Place
<1>6. host[p] = "exchanged" => Meetings = 3
  BY <1>1, Places DEF Place
<1> HIDE DEF x, y
<1>7. Passed(p) >= y /\ Entered(p) <= y + Meetings
  BY <1>2, <1>3, <1>5, <1>6
<1>8. ASSUME host[r] = "run" PROVE launches[p] = launches[r] /\ host[p] # "clear"
  <2>1. ~(launches[p] > launches[r]) /\ ~(launches[p] < launches[r])
    BY <1>1, <1>2, <1>3, <1>4, <1>5, <1>7, <1>8
  <2> QED BY <1>1, <1>2, <1>3, <1>4, <1>5, <1>8, <2>1
<1>9. ASSUME host[r] = "clear" PROVE launches[p] <= launches[r] /\ ~Begun(p, launches[r] + 1)
  <2>1. launches[p] <= launches[r]
    BY <1>1, <1>2, <1>3, <1>4, <1>5, <1>7, <1>9
  <2>2. ASSUME launches[p] = launches[r] PROVE host[p] \in {"clear", "meet"}
    BY <1>1, <1>2, <1>3, <1>4, <1>5, <1>9, <2>2
  <2> QED BY <1>2, <2>1, <2>2 DEF Begun
<1>10. ASSUME Split, host[r] \in {"compute", "leave"}
       PROVE  \/ launches[p] >= launches[r] + 1
              \/ launches[p] = launches[r] /\ host[p] \in {"exchanged", "compute", "leave"}
  <2>1. Passed(r) = x + 2 /\ Meetings = 3
    BY <1>2, <1>3, <1>4, <1>10
  <2>2. ~(launches[p] < launches[r])
    BY <1>1, <1>2, <1>3, <1>4, <1>5, <1>7, <2>1
  <2>3. ASSUME launches[p] = launches[r] PROVE host[p] \in {"exchanged", "compute", "leave"}
    BY <1>1, <1>2, <1>3, <1>4, <1>5, <2>1, <2>3
  <2> QED BY <1>2, <2>2, <2>3
<1> QED BY <1>8, <1>9, <1>10

(* The kinds of communication progress. *)
LEMMA MovedKinds ==
  ASSUME TypeOK, NEW p \in Ranks, NEW c \in Comm, NEW n \in Nat
  PROVE  Moved(p, c, n) \in Int /\ Moved(p, c, n) <= CommEnd
<1>1. comm[p][c] \in Int /\ comm[p][c] <= CommEnd /\ CommEnd \in Nat
  BY Kinds, Sizes
<1> QED BY <1>1 DEF Moved, Pending

(* The communication workgroups are as many as there are shares. *)
LEMMA CommFinite == IsFiniteSet(Comm) /\ Cardinality(Comm) = CommWGs
BY Sizes, FS_Interval DEF Comm

(* Who has been counted is some of them. *)
LEMMA CountedFinite ==
  ASSUME NEW p \in Ranks, NEW n \in Nat, NEW d \in Ranks
  PROVE  /\ Counted(p, n, d) \subseteq Comm /\ IsFiniteSet(Counted(p, n, d))
         /\ Cardinality(Counted(p, n, d)) \in 0 .. CommWGs
         /\ Cardinality(Counted(p, n, d)) = CommWGs => Counted(p, n, d) = Comm
<1> DEFINE s == Counted(p, n, d)
<1>1. s \in SUBSET Comm
  BY DEF Counted
<1> HIDE DEF s
<1>2. IsFiniteSet(s) /\ Cardinality(s) <= Cardinality(Comm)
      /\ (Cardinality(Comm) = Cardinality(s) => Comm = s)
  BY <1>1, CommFinite, FS_Subset
<1>3. Cardinality(s) \in Nat
  BY <1>2, FS_CardinalityType
<1> QED BY <1>1, <1>2, <1>3, CommFinite, Sizes DEF s

(* A workgroup that has done its communication has stored its share at every
   peer and counted itself there. *)
LEMMA AllMoved ==
  ASSUME NEW p \in Ranks, NEW d \in Ranks, p # d, NEW c \in Comm, NEW n \in Nat,
         Moved(p, c, n) = CommEnd
  PROVE  Stored(p, c, n, d) /\ c \in Counted(p, n, d)
<1>1. PICK i \in 0 .. R-2 : Peer(p, c, i) = d
  BY Peers
<1>2. CommEnd >= 2 * i + 1 /\ CommEnd >= 2 * i + 2
  BY Sizes
<1> QED BY <1>1, <1>2 DEF Stored, Counted

(* While the GEMM runs apart, everything has been exchanged. *)
LEMMA SplitMoved ==
  ASSUME IInv, Split, NEW r \in Ranks, host[r] \in {"compute", "leave"}, NEW p \in Ranks,
         NEW c \in Comm
  PROVE  Moved(p, c, launches[r] + 1) = CommEnd
<1>1. \/ launches[p] >= launches[r] + 1
      \/ launches[p] = launches[r] /\ host[p] \in {"exchanged", "compute", "leave"}
  BY Ordered
<1>2. TypeOK /\ Phase(p) /\ launches[r] \in Nat /\ launches[p] \in Nat
  BY Kinds DEF IInv, Own
<1>3. CASE launches[p] = launches[r] /\ host[p] \in {"exchanged", "compute", "leave"}
  <2>1. comm[p][c] = CommEnd /\ Begun(p, launches[r] + 1)
    BY <1>2, <1>3 DEF Phase, Begun
  <2> QED BY <2>1 DEF Moved
<1> QED BY <1>1, <1>3 DEF Moved

(* The GEMM is where its workgroups are under way. *)
LEMMA Computing ==
  ASSUME NEW r \in Ranks, Phase(r), NEW w \in Worker, shard[r][w] # ShardEnd
  PROVE  host[r] = GemmHost /\ w \in 0 .. Workers-1 /\ GemmStarted(r)
<1>1. host[r] = GemmHost
  BY DEF Phase
<1>2. ~(w >= Workers)
  BY DEF Phase
<1>3. w \in Nat /\ Workers \in Nat
  BY Sizes DEF Worker
<1> QED BY <1>1, <1>2, <1>3 DEF GemmHost, GemmStarted

(* A workgroup that computes finds every share of the shards it has reached. *)
LEMMA InvReads == IInv => ReadsWhole
<1> SUFFICES ASSUME IInv, NEW r \in Ranks, NEW w \in Worker, shard[r][w] \in 0 .. R-1,
                    NEW k \in 0 .. shard[r][w], NEW c \in Comm
             PROVE  recv[r][Part(r, k)][c] = launches[r] + 1
  BY DEF ReadsWhole
<1> DEFINE n == launches[r] + 1
           p == Part(r, k)
<1>1. TypeOK /\ Phase(r) /\ Polled(r) /\ R \in Nat /\ R >= 2
  BY Sizes DEF IInv, Own
<1>2. k \in 0 .. R-1 /\ p \in Ranks /\ (k = 0 => p = r) /\ (k \in 1 .. R-1 => p # r)
  <2>1. k \in 0 .. R-1
    BY <1>1
  <2> QED BY <2>1, Parts
<1>3. host[r] = GemmHost /\ w \in 0 .. Workers-1 /\ host[r] # "clear"
  <2>1. shard[r][w] # ShardEnd
    BY <1>1 DEF ShardEnd
  <2> QED BY <1>1, <2>1, Computing DEF GemmHost
<1>4. Shares(r, p) /\ n \in Nat
  BY <1>1, <1>2, Kinds DEF IInv
<1> HIDE DEF p
<1>5. CASE k = 0
  BY <1>2, <1>3, <1>4, <1>5 DEF Shares, p
<1>6. CASE k # 0
  <2>1. k \in 1 .. R-1 /\ p # r
    BY <1>2, <1>6
  <2>2. Stored(p, c, n, r)
    <3>1. CASE Split
      <4>1. Moved(p, c, n) = CommEnd
        BY <1>2, <1>3, <3>1, SplitMoved DEF GemmHost
      <4> QED BY <1>2, <1>4, <2>1, <4>1, AllMoved
    <3>2. CASE ~Split
      <4>1. ready[r][p] >= CommWGs
        <5>1. host[r] = "run" /\ w < Workers /\ k <= shard[r][w]
          BY <1>2, <1>3, <3>2, Sizes DEF GemmHost
        <5> QED BY <1>1, <2>1, <3>2, <5>1 DEF Polled, p
      <4>2. ready[r][p] = Cardinality(Counted(p, n, r))
        BY <1>3, <1>4, <2>1 DEF Shares
      <4>3. c \in Counted(p, n, r)
        <5>1. Cardinality(Counted(p, n, r)) \in 0 .. CommWGs
              /\ (Cardinality(Counted(p, n, r)) = CommWGs => Counted(p, n, r) = Comm)
          BY <1>2, <1>4, CountedFinite
        <5> QED BY <4>1, <4>2, <5>1, Sizes
      <4>4. PICK i \in 0 .. R-2 : Peer(p, c, i) = r /\ Moved(p, c, n) >= 2 * i + 2
        BY <4>3 DEF Counted
      <4>5. Moved(p, c, n) \in Int /\ i \in Int
        BY <1>1, <1>2, <1>4, MovedKinds
      <4>6. Moved(p, c, n) >= 2 * i + 1
        BY <4>4, <4>5
      <4> QED BY <4>4, <4>6 DEF Stored
    <3> QED BY <3>1, <3>2
  <2> QED BY <1>3, <1>4, <2>2 DEF Shares, p
<1> QED BY <1>5, <1>6

(* A launch that has ended has done all its work. *)
LEMMA InvComplete == IInv => LaunchComplete
<1> SUFFICES ASSUME IInv, NEW r \in Ranks, host[r] = "leave"
             PROVE  /\ \A t \in 0 .. Tasks-1 : computed[r][t] = 1
                    /\ \A p \in Ranks \ {r} : ready[r][p] = CommWGs
  BY DEF LaunchComplete
<1>1. TypeOK /\ Phase(r) /\ Tiles(r) /\ Polled(r) /\ GemmStarted(r)
  BY DEF IInv, Own, GemmStarted
<1>2. Workers \in Nat \ {0} /\ Workers <= Tasks /\ Tasks \in Nat /\ R \in Nat /\ R >= 2
      /\ 0 \in Worker /\ 0 \in 0 .. Workers-1 /\ CommWGs \in Nat
  BY Sizes DEF Worker
<1>3. \A w \in Worker : shard[r][w] = ShardEnd
  BY <1>1 DEF Phase, GemmHost
<1>4. counter[r] >= Tasks /\ counter[r] \in Nat
  <2>1. 0 \in Ended(r)
    BY <1>2, <1>3 DEF Ended
  <2> QED BY <1>1, <2>1, Kinds DEF Tiles
<1>5. ASSUME NEW t \in 0 .. Tasks-1 PROVE computed[r][t] = 1
  <2>1. computed[r][t] \in {0, 1}
    <3>1. computed \in [Ranks -> [0 .. Tasks-1 -> 0 .. 1]]
      BY <1>1 DEF TypeOK
    <3>2. computed[r][t] \in 0 .. 1
      BY <1>5, <3>1
    <3> QED BY <3>2
  <2>2. computed[r][t] # 0
    <3>1. t \in Tile /\ t < counter[r]
      BY <1>2, <1>4 DEF Tile
    <3>2. \A w \in Worker : ~Active(r, w)
      BY <1>3 DEF Active
    <3> QED BY <1>1, <3>1, <3>2 DEF Tiles
  <2> QED BY <2>1, <2>2
<1>6. ASSUME NEW p \in Ranks, p # r PROVE ready[r][p] = CommWGs
  <2>1. CASE Split
    <3> DEFINE n == launches[r] + 1
    <3>1. Shares(r, p) /\ n \in Nat
      BY <1>1, Kinds DEF IInv
    <3>2. Counted(p, n, r) = Comm
      <4>1. \A c \in Comm : Moved(p, c, n) = CommEnd
        BY <2>1, SplitMoved
      <4>2. \A c \in Comm : c \in Counted(p, n, r)
        BY <1>6, <3>1, <4>1, AllMoved
      <4> QED BY <4>2 DEF Counted
    <3>3. ready[r][p] = Cardinality(Counted(p, n, r))
      BY <1>6, <3>1 DEF Shares
    <3> QED BY <3>2, <3>3, CommFinite
  <2>2. CASE ~Split
    <3>1. PICK k \in 1 .. R-1 : Part(r, k) = p
      BY <1>6, Parts
    <3>2. 0 < Workers /\ k <= shard[r][0]
      BY <1>2, <1>3 DEF ShardEnd
    <3>3. ready[r][p] >= CommWGs
      BY <1>1, <1>2, <2>2, <3>1, <3>2 DEF Polled
    <3>4. ready[r][p] \in 0 .. CommWGs
      BY <1>1, Kinds
    <3> QED BY <1>2, <3>3, <3>4
  <2> QED BY <2>1, <2>2
<1> QED BY <1>5, <1>6

(***************************************************************************)
(* The first state, and what a step leaves alone.                          *)
(***************************************************************************)

(* The invariant holds at the start. *)
LEMMA InvInit == Init => IInv
<1> SUFFICES ASSUME Init PROVE IInv
  OBVIOUS
<1>1. /\ R \in Nat /\ R >= 2 /\ CommWGs \in Nat /\ Tasks \in Nat /\ Launches \in Nat
      /\ Workers \in 1 .. Tasks /\ CommEnd \in Nat
  BY Sizes
<1>2. TypeOK
  <2>1. comm \in [Ranks -> [Comm -> Pending .. CommEnd]]
        /\ shard \in [Ranks -> [Worker -> Pending .. ShardEnd]]
    BY <1>1 DEF Init, Pending, ShardEnd
  <2>2. task \in [Ranks -> [Worker -> 0 .. Tasks + Workers]]
    <3>1. \A w \in Worker : w \in 0 .. Tasks + Workers
      BY <1>1 DEF Worker
    <3> QED BY <3>1 DEF Init
  <2>3. counter \in [Ranks -> 0 .. Tasks + Workers]
        /\ computed \in [Ranks -> [0 .. Tasks-1 -> 0 .. 1]]
        /\ launches \in [Ranks -> 0 .. Launches]
    BY <1>1 DEF Init
  <2>4. recv \in [Ranks -> [Ranks -> [Comm -> 0 .. Launches]]]
        /\ ready \in [Ranks -> [Ranks -> 0 .. CommWGs]]
    BY <1>1 DEF Init
  <2>5. policy \in Policies /\ host \in [Ranks -> {"clear", "meet", "run", "exchanged", "compute", "leave"}]
    BY DEF Init
  <2> QED BY <2>1, <2>2, <2>3, <2>4, <2>5 DEF TypeOK
<1>3. ASSUME NEW r \in Ranks
      PROVE  /\ host[r] = "clear" /\ launches[r] = 0
             /\ \A p \in Ranks : ready[r][p] = 0
             /\ \A c \in Comm : comm[r][c] = CommEnd
             /\ \A w \in Worker : shard[r][w] = ShardEnd
  BY DEF Init
<1>4. ASSUME NEW r \in Ranks PROVE Own(r) /\ Polled(r)
  BY <1>3, <1>4 DEF Own, Phase, Fresh, Tiles, Polled, GemmStarted
<1>5. ASSUME NEW r \in Ranks, NEW p \in Ranks PROVE Barrier(r, p) /\ Shares(r, p)
  <2>1. Barrier(r, p)
    <3>1. Phase(r) /\ Phase(p)
      BY <1>4 DEF Own
    <3>2. Passed(r) = Meetings * launches[r] /\ Entered(p) = Meetings * launches[p]
      BY <1>2, <1>3, <3>1, Places DEF Place
    <3>3. launches[r] = launches[p] /\ Meetings * launches[p] \in Nat
      BY <1>3 DEF Meetings
    <3> QED BY <3>2, <3>3 DEF Barrier
  <2>2. Shares(r, p)
    BY <1>3 DEF Shares
  <2> QED BY <2>1, <2>2
<1> QED BY <1>2, <1>4, <1>5 DEF IInv

(* The tiles of a rank follow its GEMM. *)
LEMMA TilesFrame ==
  ASSUME NEW r \in Ranks, Fresh(r), Tiles(r), policy' = policy,
         host'[r] = host[r], shard'[r] = shard[r], task'[r] = task[r],
         counter'[r] = counter[r], computed'[r] = computed[r]
  PROVE  Fresh(r)' /\ Tiles(r)'
<1>1. GemmStarted(r)' = GemmStarted(r) /\ Workers' = Workers /\ Drawing' = Drawing
  BY PolicyStable DEF GemmStarted
<1>2. Ended(r)' = Ended(r) /\ \A w \in Worker : Active(r, w)' = Active(r, w)
  BY <1>1 DEF Ended, Active
<1>3. Fresh(r)'
  BY <1>1 DEF Fresh
<1>4. Tiles(r)'
  BY <1>1, <1>2 DEF Tiles
<1> QED BY <1>3, <1>4

(* So does everything of its own. *)
LEMMA OwnFrame ==
  ASSUME NEW r \in Ranks, Own(r), policy' = policy,
         host'[r] = host[r], launches'[r] = launches[r], comm'[r] = comm[r],
         shard'[r] = shard[r], task'[r] = task[r],
         counter'[r] = counter[r], computed'[r] = computed[r]
  PROVE  Own(r)'
<1>1. Split' = Split /\ GemmHost' = GemmHost /\ Workers' = Workers
  BY PolicyStable
<1>2. Phase(r)'
  BY <1>1 DEF Own, Phase
<1> QED BY <1>2, TilesFrame DEF Own

(* What has been polled stays ready as long as the counters do not fall. *)
LEMMA PolledFrame ==
  ASSUME TypeOK, NEW r \in Ranks, Polled(r), policy' = policy,
         host'[r] \in {"run", "leave"} => host[r] \in {"run", "leave"},
         \A p \in Ranks : ready'[r][p] \in Nat /\ ready'[r][p] >= ready[r][p],
         shard'[r] = shard[r]
  PROVE  Polled(r)'
<1>1. Split' = Split /\ Workers' = Workers
  BY PolicyStable
<1>2. ASSUME NEW w \in Worker, NEW k \in 1 .. R-1, w < Workers /\ k <= shard'[r][w],
             ~Split, host'[r] \in {"run", "leave"}
      PROVE  ready'[r][Part(r, k)] >= CommWGs
  <2>1. ready[r][Part(r, k)] >= CommWGs
    BY <1>2 DEF Polled
  <2>2. Part(r, k) \in Ranks
    <3>1. k \in 0 .. R-1
      BY Sizes
    <3> QED BY <3>1, Parts
  <2> DEFINE p == Part(r, k)
  <2>3. ready[r][p] >= CommWGs /\ p \in Ranks
    BY <2>1, <2>2
  <2> HIDE DEF p
  <2>4. ready[r][p] \in Nat /\ ready'[r][p] \in Nat /\ ready'[r][p] >= ready[r][p] /\ CommWGs \in Nat
    BY <2>3, Kinds, Sizes
  <2>5. ready'[r][p] >= CommWGs
    BY <2>3, <2>4
  <2> QED BY <2>5 DEF p
<1> QED BY <1>1, <1>2 DEF Polled

(* The barriers stay in order when a host moves on, if it waits for the others
   where it leaves one. *)
LEMMA BarrierFrame ==
  ASSUME IInv, NEW q \in Ranks, policy' = policy,
         \A r \in Ranks \ {q} : host'[r] = host[r] /\ launches'[r] = launches[r],
         Entered(q)' \in Nat, Passed(q)' \in Int, Entered(q) <= Entered(q)',
         Passed(q)' <= Passed(q) \/ (AllMet(q) /\ Passed(q)' = Entered(q))
  PROVE  \A r, p \in Ranks : Barrier(r, p)'
<1>1. Meetings' = Meetings
  BY PolicyStable
<1>2. ASSUME NEW r \in Ranks PROVE Entered(r) \in Nat /\ Passed(r) \in Int
  BY Places DEF IInv, Own, Place
<1>3. ASSUME NEW r \in Ranks, r # q PROVE Entered(r)' = Entered(r) /\ Passed(r)' = Passed(r)
  <2>1. host'[r] = host[r] /\ launches'[r] = launches[r]
    BY <1>3
  <2>2. Entered(r)' = Entered(r)
    BY <1>1, <2>1 DEF Entered
  <2> QED BY <2>1, <2>2 DEF Passed
<1>4. ASSUME NEW r \in Ranks, NEW p \in Ranks PROVE Passed(r)' <= Entered(p)'
  <2>1. Passed(r) <= Entered(p) /\ Passed(q) <= Entered(p) /\ (AllMet(q) => Entered(q) <= Entered(p))
    BY DEF IInv, Barrier, AllMet
  <2>2. Entered(p) <= Entered(p)' /\ Entered(p)' \in Nat
    BY <1>2, <1>3
  <2>3. Passed(r)' <= Entered(p) /\ Passed(r)' \in Int
    <3>1. CASE r = q
      BY <1>2, <2>1, <3>1
    <3>2. CASE r # q
      BY <1>2, <1>3, <2>1, <3>2
    <3> QED BY <3>1, <3>2
  <2> QED BY <1>2, <2>2, <2>3
<1> QED BY <1>4 DEF Barrier

(* How far a launch's communication is follows its host and its workgroups. *)
LEMMA MovedFrame ==
  ASSUME NEW p \in Ranks, NEW c \in Comm, NEW n \in Nat,
         host'[p] = host[p], launches'[p] = launches[p], comm'[p][c] = comm[p][c]
  PROVE  Moved(p, c, n)' = Moved(p, c, n)
<1>1. Begun(p, n)' = Begun(p, n)
  BY DEF Begun
<1> QED BY <1>1 DEF Moved

(* The shares stay right while neither they nor the counters change and the
   target stays in its launch. *)
LEMMA SharesFrame ==
  ASSUME NEW d \in Ranks, NEW p \in Ranks, Shares(d, p),
         recv'[d][p] = recv[d][p], ready'[d][p] = ready[d][p],
         host'[d] # "clear" =>
           /\ host[d] # "clear" /\ launches'[d] = launches[d] /\ launches[d] \in Nat
           /\ \A c \in Comm : Moved(p, c, launches[d] + 1)' = Moved(p, c, launches[d] + 1)
  PROVE  Shares(d, p)'
<1>1. ASSUME host'[d] # "clear"
      PROVE  /\ \A c \in Comm : p = d \/ Stored(p, c, launches[d] + 1, d)'
                                  => recv'[d][p][c] = launches'[d] + 1
             /\ p # d => ready'[d][p] = Cardinality(Counted(p, launches[d] + 1, d)')
  <2>1. /\ host[d] # "clear" /\ launches'[d] = launches[d]
        /\ \A c \in Comm : Moved(p, c, launches[d] + 1)' = Moved(p, c, launches[d] + 1)
    BY <1>1
  <2>2. \A c \in Comm : Stored(p, c, launches[d] + 1, d)' = Stored(p, c, launches[d] + 1, d)
    BY <2>1 DEF Stored
  <2>3. Counted(p, launches[d] + 1, d)' = Counted(p, launches[d] + 1, d)
    BY <2>1 DEF Counted
  <2> QED BY <2>1, <2>2, <2>3 DEF Shares
<1> QED BY <1>1 DEF Shares

(***************************************************************************)
(* The steps of a host.                                                    *)
(***************************************************************************)

(* A GEMM that is launched after the windows were cleared has every tile to do. *)
LEMMA GemmFresh ==
  ASSUME TypeOK, NEW q \in Ranks, policy' = policy, GemmStarted(q)',
         shard'[q] = [w \in Worker |-> IF w < Workers THEN Pending ELSE ShardEnd],
         task'[q] = [w \in Worker |-> w],
         counter'[q] = Workers, \A t \in Tile : computed'[q][t] = 0
  PROVE  Tiles(q)'
<1>1. Workers \in 1 .. Tasks /\ Tasks \in Nat /\ Worker = Tile /\ R \in Nat /\ R >= 2
  BY Sizes DEF Worker, Tile
<1>2. Workers' = Workers /\ Drawing' = Drawing
  BY PolicyStable
<1>3. ASSUME NEW w \in Worker
      PROVE  /\ shard'[q][w] # ShardEnd <=> w < Workers
             /\ task'[q][w] = w
  BY <1>1 DEF Pending, ShardEnd
<1>4. Ended(q)' = {}
  <2>1. ASSUME NEW w \in 0 .. Workers-1 PROVE shard'[q][w] # ShardEnd
    <3>1. w \in Worker /\ w < Workers
      BY <1>1 DEF Worker
    <3> QED BY <1>3, <3>1
  <2> QED BY <1>2, <2>1 DEF Ended
<1>5. Cardinality(Ended(q)') = 0
  BY <1>4, FS_EmptySet
<1>6. ASSUME NEW t \in Tile, t < Workers
      PROVE  \E w \in Worker : shard'[q][w] # ShardEnd /\ task'[q][w] = t
  BY <1>1, <1>3, <1>6
<1>7. \A w \in Worker : shard'[q][w] # ShardEnd =>
        /\ task'[q][w] \in Tile /\ task'[q][w] < counter'[q] /\ computed'[q][task'[q][w]] = 0
        /\ \A v \in Worker : v # w /\ shard'[q][v] # ShardEnd => task'[q][v] # task'[q][w]
  BY <1>1, <1>3
<1>8. Workers <= counter'[q] /\ counter'[q] <= Tasks + Cardinality(Ended(q)')
  BY <1>1, <1>5
<1> QED BY <1>2, <1>3, <1>4, <1>6, <1>7, <1>8 DEF Tiles, Active

(* Before a launch the windows are empty but for the local shard, and no share
   of the launch has been stored. *)
LEMMA InvClear == ASSUME IInv, NEW q \in Ranks, Clear(q) PROVE IInv'
<1> DEFINE n == launches[q] + 1
<1>0. TypeOK /\ Launches \in Nat /\ CommWGs \in Nat /\ Workers \in Nat /\ Tasks \in Nat
  BY Sizes DEF IInv
<1>1. /\ host[q] = "clear" /\ launches[q] < Launches /\ launches[q] \in Nat /\ n \in Nat
      /\ policy' = policy /\ launches' = launches /\ comm' = comm /\ task' = task /\ shard' = shard
      /\ n \in 0 .. Launches
  BY <1>0, Kinds DEF Clear
<1>2. host' = [host EXCEPT ![q] = "meet"] /\ counter' = [counter EXCEPT ![q] = Workers]
      /\ computed' = [computed EXCEPT ![q] = [t \in 0 .. Tasks-1 |-> 0]]
      /\ ready' = [ready EXCEPT ![q] = [p \in Ranks |-> 0]]
      /\ recv' = [recv EXCEPT ![q] = [p \in Ranks |-> [c \in Comm |-> IF p = q THEN n ELSE 0]]]
  BY DEF Clear, FirstDrawn
<1>3. /\ host'[q] = "meet" /\ counter'[q] = Workers
      /\ \A t \in 0 .. Tasks-1 : computed'[q][t] = 0
      /\ \A p \in Ranks : ready'[q][p] = 0
      /\ \A c \in Comm : recv'[q][q][c] = n
  BY <1>0, <1>2 DEF TypeOK
<1>4. ASSUME NEW r \in Ranks, r # q
      PROVE  /\ host'[r] = host[r] /\ counter'[r] = counter[r] /\ computed'[r] = computed[r]
             /\ ready'[r] = ready[r] /\ recv'[r] = recv[r]
  BY <1>0, <1>2, <1>4 DEF TypeOK
<1>5. TypeOK'
  <2>1. host' \in [Ranks -> {"clear", "meet", "run", "exchanged", "compute", "leave"}]
    BY <1>0, <1>2 DEF TypeOK
  <2>2. counter' \in [Ranks -> 0 .. Tasks + Workers] /\ computed' \in [Ranks -> [0 .. Tasks-1 -> 0 .. 1]]
    BY <1>0, <1>2 DEF TypeOK
  <2>3. ready' \in [Ranks -> [Ranks -> 0 .. CommWGs]]
    BY <1>0, <1>2 DEF TypeOK
  <2>4. recv' \in [Ranks -> [Ranks -> [Comm -> 0 .. Launches]]]
    <3>1. recv \in [Ranks -> [Ranks -> [Comm -> 0 .. Launches]]]
      BY <1>0 DEF TypeOK
    <3>2. [p \in Ranks |-> [c \in Comm |-> IF p = q THEN n ELSE 0]] \in [Ranks -> [Comm -> 0 .. Launches]]
      BY <1>0, <1>1
    <3> QED BY <1>2, <3>1, <3>2
  <2> QED BY <1>0, <1>1, <2>1, <2>2, <2>3, <2>4, PolicyStable DEF TypeOK
<1>6. Phase(q) /\ \A w \in Worker : shard[q][w] = ShardEnd
  BY <1>1 DEF IInv, Own, Phase, GemmHost
<1>7. ASSUME NEW r \in Ranks PROVE Own(r)'
  <2>1. CASE r # q
    BY <1>1, <1>4, <2>1, OwnFrame DEF IInv
  <2>2. CASE r = q
    <3>1. Phase(q)'
      BY <1>1, <1>3, <1>6, PolicyStable DEF Phase
    <3>2. Fresh(q)' /\ Tiles(q)'
      <4>1. ~GemmStarted(q)'
        BY <1>3 DEF GemmStarted
      <4>2. counter'[q] = Workers' /\ \A t \in Tile : computed'[q][t] = 0
        BY <1>1, <1>3, PolicyStable DEF Tile
      <4> QED BY <4>1, <4>2 DEF Fresh, Tiles
    <3> QED BY <2>2, <3>1, <3>2 DEF Own
  <2> QED BY <2>1, <2>2
<1>8. ASSUME NEW r \in Ranks PROVE Polled(r)'
  <2>1. CASE r # q
    <3>1. \A p \in Ranks : ready'[r][p] \in Nat /\ ready'[r][p] >= ready[r][p]
      BY <1>0, <1>4, <2>1, Kinds
    <3> QED BY <1>0, <1>1, <1>4, <2>1, <3>1, PolledFrame DEF IInv
  <2>2. CASE r = q
    BY <1>3, <2>2 DEF Polled
  <2> QED BY <2>1, <2>2
<1>9. ASSUME NEW r \in Ranks, NEW p \in Ranks PROVE Barrier(r, p)'
  <2>1. Phase(q)' /\ TypeOK'
    BY <1>5, <1>7 DEF Own
  <2>2. Entered(q)' = Meetings' * launches'[q] + 1 /\ Passed(q)' = Meetings' * launches'[q]
    BY <1>3, <2>1, PlaceNext DEF Place
  <2>3. Entered(q) = Meetings * launches[q] /\ Passed(q) = Meetings * launches[q]
    BY <1>0, <1>1, <1>6, Places DEF Place
  <2>4. Meetings' = Meetings /\ launches'[q] = launches[q] /\ Meetings * launches[q] \in Nat
    BY <1>1, PolicyStable DEF Meetings
  <2>5. Entered(q)' \in Nat /\ Passed(q)' \in Int /\ Entered(q) <= Entered(q)' /\ Passed(q)' <= Passed(q)
    BY <2>2, <2>3, <2>4
  <2> QED BY <1>1, <1>4, <2>5, BarrierFrame
<1>10. ASSUME NEW p \in Ranks, NEW c \in Comm, NEW m \in Nat
       PROVE  Moved(p, c, m)' = Moved(p, c, m)
  <2>1. Begun(p, m)' = Begun(p, m)
    BY <1>1, <1>3, <1>4 DEF Begun
  <2> QED BY <1>1, <2>1 DEF Moved
<1>11. ASSUME NEW d \in Ranks, NEW p \in Ranks PROVE Shares(d, p)'
  <2>1. CASE d # q
    <3>1. launches[d] \in Nat /\ launches[d] + 1 \in Nat
      BY <1>0, Kinds
    <3>2. \A c \in Comm : Moved(p, c, launches[d] + 1)' = Moved(p, c, launches[d] + 1)
      <4> DEFINE m == launches[d] + 1
      <4>1. ASSUME NEW c \in Comm PROVE Moved(p, c, m)' = Moved(p, c, m)
        <5>1. Begun(p, m)' = Begun(p, m) /\ launches'[p] = launches[p] /\ comm' = comm /\ m' = m
          BY <1>1, <1>3, <1>4 DEF Begun
        <5> QED BY <5>1 DEF Moved
      <4> QED BY <4>1
    <3>3. Shares(d, p)
      BY DEF IInv
    <3> QED BY <1>1, <1>4, <2>1, <3>1, <3>2, <3>3, SharesFrame
  <2>2. CASE d = q
    <3>1. ASSUME NEW c \in Comm PROVE Moved(p, c, n)' = Pending
      <4>1. launches[p] <= launches[q] /\ ~Begun(p, n) /\ launches[p] \in Nat
        BY <1>0, <1>1, Ordered, Kinds
      <4>2. ~(launches[p] >= n)
        BY <1>1, <4>1
      <4>3. Begun(p, n)' = Begun(p, n) /\ n' = n /\ launches'[p] = launches[p]
        BY <1>1, <1>3, <1>4 DEF Begun
      <4> QED BY <4>1, <4>2, <4>3 DEF Moved
    <3>2. \A c \in Comm : ~Stored(p, c, n, q)'
      BY <3>1 DEF Stored, Pending
    <3>3. Counted(p, n, q)' = {}
      BY <3>1 DEF Counted, Pending
    <3>4. Cardinality(Counted(p, n, q)') = 0
      BY <3>3, FS_EmptySet
    <3>5. launches'[q] = launches[q]
      BY <1>1
    <3> QED BY <1>3, <2>2, <3>2, <3>4, <3>5 DEF Shares
  <2> QED BY <2>1, <2>2
<1> QED BY <1>5, <1>7, <1>8, <1>9, <1>11 DEF IInv

(* A host that goes on without touching a window keeps the invariant if it keeps
   its own part, its barriers and its place in the exchange. *)
LEMMA HostFrame ==
  ASSUME IInv, NEW q \in Ranks, TypeOK', policy' = policy, recv' = recv, ready' = ready,
         \A r \in Ranks \ {q} :
           /\ host'[r] = host[r] /\ launches'[r] = launches[r] /\ comm'[r] = comm[r]
           /\ shard'[r] = shard[r] /\ task'[r] = task[r]
           /\ counter'[r] = counter[r] /\ computed'[r] = computed[r],
         Own(q)', Polled(q)', Entered(q) <= Entered(q)',
         Passed(q)' <= Passed(q) \/ (AllMet(q) /\ Passed(q)' = Entered(q)),
         \A c \in Comm, m \in Nat : Moved(q, c, m)' = Moved(q, c, m),
         host'[q] # "clear" => host[q] # "clear" /\ launches'[q] = launches[q]
  PROVE  IInv'
<1>1. TypeOK /\ Place(q)'
  BY PlaceNext DEF IInv, Own
<1>2. ASSUME NEW r \in Ranks, r # q
      PROVE  /\ host'[r] = host[r] /\ launches'[r] = launches[r] /\ comm'[r] = comm[r]
             /\ shard'[r] = shard[r] /\ task'[r] = task[r]
             /\ counter'[r] = counter[r] /\ computed'[r] = computed[r]
  BY <1>2
<1>3. ASSUME NEW r \in Ranks PROVE Own(r)' /\ Polled(r)'
  <2>1. CASE r # q
    <3>1. Own(r)'
      BY <1>2, <2>1, OwnFrame DEF IInv
    <3>2. \A p \in Ranks : ready'[r][p] \in Nat /\ ready'[r][p] >= ready[r][p]
      BY <1>1, Kinds
    <3>3. Polled(r)'
      BY <1>1, <1>2, <2>1, <3>2, PolledFrame DEF IInv
    <3> QED BY <3>1, <3>3
  <2> QED BY <2>1
<1>4. \A r, p \in Ranks : Barrier(r, p)'
  <2>1. Entered(q)' \in Nat /\ Passed(q)' \in Int
    BY <1>1 DEF Place
  <2>2. \A r \in Ranks \ {q} : host'[r] = host[r] /\ launches'[r] = launches[r]
    BY <1>2
  <2> QED BY <2>1, <2>2, BarrierFrame
<1>5. ASSUME NEW p \in Ranks, NEW c \in Comm, NEW m \in Nat PROVE Moved(p, c, m)' = Moved(p, c, m)
  BY <1>2, MovedFrame
<1>6. ASSUME NEW d \in Ranks, NEW p \in Ranks PROVE Shares(d, p)'
  <2>1. Shares(d, p) /\ launches[d] \in Nat /\ launches[d] + 1 \in Nat
    BY <1>1, Kinds DEF IInv
  <2>2. host'[d] # "clear" => host[d] # "clear" /\ launches'[d] = launches[d]
    BY <1>2
  <2>3. ASSUME host'[d] # "clear", NEW c \in Comm
        PROVE  Moved(p, c, launches[d] + 1)' = Moved(p, c, launches[d] + 1)
    <3> DEFINE m == launches[d] + 1
    <3>1. m' = m /\ m \in Nat
      BY <2>1, <2>2, <2>3
    <3>2. PICK k \in Nat : k = m
      BY <3>1
    <3>3. Moved(p, c, k)' = Moved(p, c, k)
      BY <1>5
    <3> QED BY <3>1, <3>2, <3>3
  <2> QED BY <2>1, <2>2, <2>3, SharesFrame
<1> QED BY <1>3, <1>4, <1>6 DEF IInv

(* The GEMM starts on one rank. *)
LEMMA GemmLaunched ==
  ASSUME TypeOK, NEW q \in Ranks, LaunchGemm(q)
  PROVE  /\ shard' \in [Ranks -> [Worker -> Pending .. ShardEnd]]
         /\ task' \in [Ranks -> [Worker -> 0 .. Tasks + Workers]]
         /\ shard'[q] = [w \in Worker |-> IF w < Workers THEN Pending ELSE ShardEnd]
         /\ task'[q] = [w \in Worker |-> w]
         /\ \A r \in Ranks : r # q => shard'[r] = shard[r] /\ task'[r] = task[r]
<1> DEFINE s == [w \in Worker |-> IF w < Workers THEN Pending ELSE ShardEnd]
           t == [w \in Worker |-> w]
<1>1. shard' = [shard EXCEPT ![q] = s] /\ task' = [task EXCEPT ![q] = t]
  BY DEF LaunchGemm
<1>2. s \in [Worker -> Pending .. ShardEnd]
  <2>1. Pending \in Pending .. ShardEnd /\ ShardEnd \in Pending .. ShardEnd
    BY Sizes DEF Pending, ShardEnd
  <2> QED BY <2>1
<1>3. t \in [Worker -> 0 .. Tasks + Workers]
  <2>1. \A w \in Worker : w \in 0 .. Tasks + Workers
    BY Sizes DEF Worker
  <2> QED BY <2>1
<1>4. /\ shard \in [Ranks -> [Worker -> Pending .. ShardEnd]]
      /\ task \in [Ranks -> [Worker -> 0 .. Tasks + Workers]]
  BY DEF TypeOK
<1> HIDE DEF s, t
<1>5. /\ shard' \in [Ranks -> [Worker -> Pending .. ShardEnd]]
      /\ task' \in [Ranks -> [Worker -> 0 .. Tasks + Workers]]
  BY <1>1, <1>2, <1>3, <1>4
<1>6. /\ shard'[q] = s /\ task'[q] = t
      /\ \A r \in Ranks : r # q => shard'[r] = shard[r] /\ task'[r] = task[r]
  BY <1>1, <1>4
<1> QED BY <1>5, <1>6 DEF s, t

(* A launch starts its communication, and with it, in one launch, the GEMM. *)
LEMMA InvLaunch == ASSUME IInv, NEW q \in Ranks, Launch(q) PROVE IInv'
<1>0. TypeOK /\ Phase(q) /\ Fresh(q) /\ CommEnd \in Nat /\ R \in Nat /\ Workers \in 1 .. Tasks /\ Tasks \in Nat
  BY Sizes DEF IInv, Own
<1>1. /\ host[q] = "meet" /\ AllMet(q)
      /\ comm' = [comm EXCEPT ![q] = [c \in Comm |-> Pending]]
      /\ host' = [host EXCEPT ![q] = "run"]
      /\ policy' = policy /\ launches' = launches /\ recv' = recv /\ ready' = ready
      /\ counter' = counter /\ computed' = computed
  BY DEF Launch
<1>2. /\ Split => task' = task /\ shard' = shard
      /\ ~Split => LaunchGemm(q)
  BY DEF Launch
<1>3. Split' = Split /\ Workers' = Workers
  BY <1>1, PolicyStable
<1>4. host'[q] = "run" /\ \A c \in Comm : comm'[q][c] = Pending
  BY <1>0, <1>1 DEF TypeOK
<1>5. ~Split => /\ shard'[q] = [w \in Worker |-> IF w < Workers THEN Pending ELSE ShardEnd]
                /\ task'[q] = [w \in Worker |-> w]
  BY <1>0, <1>2, GemmLaunched
<1>6. ASSUME NEW r \in Ranks, r # q
      PROVE  /\ host'[r] = host[r] /\ launches'[r] = launches[r] /\ comm'[r] = comm[r]
             /\ shard'[r] = shard[r] /\ task'[r] = task[r]
             /\ counter'[r] = counter[r] /\ computed'[r] = computed[r]
  <2>1. shard'[r] = shard[r] /\ task'[r] = task[r]
    BY <1>0, <1>2, <1>6, GemmLaunched
  <2> QED BY <1>0, <1>1, <1>6, <2>1 DEF TypeOK
<1>7. TypeOK'
  <2>1. host' \in [Ranks -> {"clear", "meet", "run", "exchanged", "compute", "leave"}]
    BY <1>0, <1>1 DEF TypeOK
  <2>2. comm' \in [Ranks -> [Comm -> Pending .. CommEnd]]
    <3>1. Pending \in Pending .. CommEnd
      BY <1>0 DEF Pending
    <3> QED BY <1>0, <1>1, <3>1 DEF TypeOK
  <2>3. /\ shard' \in [Ranks -> [Worker -> Pending .. ShardEnd]]
        /\ task' \in [Ranks -> [Worker -> 0 .. Tasks + Workers]]
    <3>1. CASE Split
      BY <1>0, <1>2, <3>1 DEF TypeOK
    <3>2. CASE ~Split
      BY <1>0, <1>2, <3>2, GemmLaunched
    <3> QED BY <3>1, <3>2
  <2> QED BY <1>0, <1>1, <1>3, <2>1, <2>2, <2>3 DEF TypeOK
<1>8. counter[q] = Workers /\ \A t \in Tile : computed[q][t] = 0
  BY <1>0, <1>1 DEF Fresh, GemmStarted
<1>9. Phase(q)'
  <2>1. CASE Split
    <3>1. \A w \in Worker : shard'[q][w] = ShardEnd
      BY <1>0, <1>1, <1>2, <2>1 DEF Phase, GemmHost
    <3> QED BY <1>0, <1>1, <1>3, <1>4, <3>1 DEF Phase
  <2>2. CASE ~Split
    <3>1. \A w \in Worker : w >= Workers => shard'[q][w] = ShardEnd
      BY <1>0, <1>5, <2>2 DEF Worker
    <3>2. GemmHost' = "run"
      BY <1>3, <2>2 DEF GemmHost
    <3> QED BY <1>0, <1>1, <1>3, <1>4, <3>1, <3>2 DEF Phase
  <2> QED BY <2>1, <2>2
<1>10. Fresh(q)' /\ Tiles(q)'
  <2>1. counter'[q] = Workers /\ \A t \in Tile : computed'[q][t] = 0
    BY <1>1, <1>8
  <2>2. CASE Split
    <3>1. ~GemmStarted(q)'
      BY <1>3, <1>4, <2>2 DEF GemmStarted
    <3> QED BY <1>3, <2>1, <3>1 DEF Fresh, Tiles
  <2>3. CASE ~Split
    <3>1. GemmStarted(q)'
      BY <1>3, <1>4, <2>3 DEF GemmStarted
    <3>2. Tiles(q)'
      BY <1>0, <1>1, <1>5, <2>1, <2>3, <3>1, GemmFresh
    <3> QED BY <3>1, <3>2 DEF Fresh
  <2> QED BY <2>2, <2>3
<1>11. Polled(q)'
  <2>1. CASE Split
    BY <1>3, <2>1 DEF Polled
  <2>2. CASE ~Split
    <3>1. ASSUME NEW w \in Worker, w < Workers PROVE shard'[q][w] = -1
      BY <1>5, <2>2, <3>1 DEF Pending
    <3>2. \A w \in Worker, k \in 1 .. R-1 : ~ (w < Workers /\ k <= shard'[q][w])
      BY <1>0, <3>1
    <3> QED BY <1>3, <3>2 DEF Polled
  <2> QED BY <2>1, <2>2
<1>12. Place(q) /\ Place(q)' /\ Meetings' = Meetings /\ launches'[q] = launches[q]
  BY <1>0, <1>1, <1>7, <1>9, Places, PlaceNext, PolicyStable
<1>13. Entered(q)' = Entered(q) /\ Passed(q)' = Entered(q) /\ Entered(q) \in Nat
  BY <1>1, <1>4, <1>12 DEF Place
<1>14. ASSUME NEW c \in Comm, NEW m \in Nat PROVE Moved(q, c, m)' = Moved(q, c, m)
  <2>1. comm'[q][c] = Pending /\ launches'[q] = launches[q] /\ ~Begun(q, m)
    BY <1>1, <1>4 DEF Begun
  <2> QED BY <2>1 DEF Moved
<1> QED
  <2>1. Own(q)' /\ Entered(q) <= Entered(q)'
    BY <1>9, <1>10, <1>13 DEF Own
  <2> QED BY <1>1, <1>4, <1>6, <1>7, <1>11, <1>13, <1>14, <2>1, HostFrame

(* Split off, the GEMM is launched when the exchange is over. *)
LEMMA InvLaunchCompute == ASSUME IInv, NEW q \in Ranks, LaunchCompute(q) PROVE IInv'
<1>0. TypeOK /\ Phase(q) /\ Fresh(q) /\ R \in Nat /\ Workers \in 1 .. Tasks /\ Tasks \in Nat
  BY Sizes DEF IInv, Own
<1>1. /\ host[q] = "exchanged" /\ AllMet(q) /\ LaunchGemm(q)
      /\ host' = [host EXCEPT ![q] = "compute"]
      /\ policy' = policy /\ launches' = launches /\ recv' = recv /\ ready' = ready
      /\ comm' = comm /\ counter' = counter /\ computed' = computed
  BY DEF LaunchCompute
<1>2. Split /\ Split' /\ Workers' = Workers
  <2>1. Split
    BY <1>0, <1>1 DEF Phase
  <2> QED BY <1>1, <2>1, PolicyStable
<1>3. /\ shard' \in [Ranks -> [Worker -> Pending .. ShardEnd]]
      /\ task' \in [Ranks -> [Worker -> 0 .. Tasks + Workers]]
      /\ shard'[q] = [w \in Worker |-> IF w < Workers THEN Pending ELSE ShardEnd]
      /\ task'[q] = [w \in Worker |-> w]
      /\ \A r \in Ranks : r # q => shard'[r] = shard[r] /\ task'[r] = task[r]
  BY <1>0, <1>1, GemmLaunched
<1>4. host'[q] = "compute"
  BY <1>0, <1>1 DEF TypeOK
<1>5. ASSUME NEW r \in Ranks, r # q
      PROVE  /\ host'[r] = host[r] /\ launches'[r] = launches[r] /\ comm'[r] = comm[r]
             /\ shard'[r] = shard[r] /\ task'[r] = task[r]
             /\ counter'[r] = counter[r] /\ computed'[r] = computed[r]
  BY <1>0, <1>1, <1>3, <1>5 DEF TypeOK
<1>6. TypeOK'
  <2>1. host' \in [Ranks -> {"clear", "meet", "run", "exchanged", "compute", "leave"}]
    BY <1>0, <1>1 DEF TypeOK
  <2> QED BY <1>0, <1>1, <1>2, <1>3, <2>1 DEF TypeOK
<1>7. counter'[q] = Workers /\ \A t \in Tile : computed'[q][t] = 0
  BY <1>0, <1>1, <1>2 DEF Fresh, GemmStarted
<1>8. Phase(q)'
  <2>1. \A w \in Worker : w >= Workers => shard'[q][w] = ShardEnd
    BY <1>0, <1>3 DEF Worker
  <2>2. GemmHost' = "compute"
    BY <1>2 DEF GemmHost
  <2> QED BY <1>0, <1>1, <1>2, <1>4, <2>1, <2>2 DEF Phase
<1>9. Fresh(q)' /\ Tiles(q)'
  <2>1. GemmStarted(q)'
    BY <1>4 DEF GemmStarted
  <2>2. Tiles(q)'
    BY <1>0, <1>1, <1>3, <1>7, <2>1, GemmFresh
  <2> QED BY <2>1, <2>2 DEF Fresh
<1>10. Polled(q)'
  BY <1>2 DEF Polled
<1>11. Place(q) /\ Place(q)' /\ Meetings' = Meetings /\ launches'[q] = launches[q]
  BY <1>0, <1>1, <1>6, <1>8, Places, PlaceNext, PolicyStable
<1>12. Entered(q)' = Entered(q) /\ Passed(q)' = Entered(q) /\ Entered(q) \in Nat
  BY <1>1, <1>4, <1>11 DEF Place
<1>13. ASSUME NEW c \in Comm, NEW m \in Nat PROVE Moved(q, c, m)' = Moved(q, c, m)
  <2>1. comm'[q][c] = comm[q][c] /\ launches'[q] = launches[q] /\ Begun(q, m)' = Begun(q, m)
    BY <1>1, <1>4 DEF Begun
  <2> QED BY <2>1 DEF Moved
<1> QED
  <2>1. Own(q)' /\ Entered(q) <= Entered(q)'
    BY <1>8, <1>9, <1>12 DEF Own
  <2> QED BY <1>1, <1>4, <1>5, <1>6, <1>10, <1>12, <1>13, <2>1, HostFrame

(* A host goes on when its launch has drained. *)
LEMMA InvSynchronize == ASSUME IInv, NEW q \in Ranks, Synchronize(q) PROVE IInv'
<1>0. TypeOK /\ Phase(q) /\ Fresh(q) /\ Tiles(q) /\ Polled(q)
  BY DEF IInv, Own
<1> DEFINE next == IF Split /\ host[q] = "run" THEN "exchanged" ELSE "leave"
<1>1. /\ host[q] \in {"run", "compute"}
      /\ \A c \in Comm : comm[q][c] = CommEnd
      /\ \A w \in Worker : shard[q][w] = ShardEnd
      /\ host' = [host EXCEPT ![q] = next]
      /\ policy' = policy /\ launches' = launches /\ recv' = recv /\ ready' = ready
      /\ comm' = comm /\ counter' = counter /\ computed' = computed
      /\ shard' = shard /\ task' = task
  BY DEF Synchronize, device
<1>2. Split' = Split /\ Workers' = Workers /\ Drawing' = Drawing /\ (host[q] = "compute" => Split)
  BY <1>0, <1>1, PolicyStable DEF Phase
<1>3. host'[q] = next
  BY <1>0, <1>1 DEF TypeOK
<1>4. ASSUME NEW r \in Ranks, r # q PROVE host'[r] = host[r]
  BY <1>0, <1>1, <1>4 DEF TypeOK
<1>5. TypeOK'
  <2>1. host' \in [Ranks -> {"clear", "meet", "run", "exchanged", "compute", "leave"}]
    BY <1>0, <1>1 DEF TypeOK
  <2> QED BY <1>0, <1>1, <1>2, <2>1 DEF TypeOK
<1>6. Phase(q)'
  BY <1>0, <1>1, <1>2, <1>3 DEF Phase
<1>7. GemmStarted(q)' = GemmStarted(q)
  BY <1>1, <1>2, <1>3 DEF GemmStarted
<1>8. Fresh(q)' /\ Tiles(q)'
  <2>1. Ended(q)' = Ended(q) /\ \A w \in Worker : Active(q, w)' = Active(q, w)
    BY <1>1, <1>2 DEF Ended, Active
  <2>2. Fresh(q)'
    BY <1>0, <1>1, <1>2, <1>7 DEF Fresh
  <2>3. Tiles(q)'
    BY <1>0, <1>1, <1>2, <1>7, <2>1 DEF Tiles
  <2> QED BY <2>2, <2>3
<1>9. Polled(q)'
  <2>1. ~Split => host[q] \in {"run", "leave"}
    BY <1>1, <1>2
  <2> QED BY <1>0, <1>1, <1>2, <2>1 DEF Polled
<1>10. Place(q) /\ Place(q)' /\ Meetings' = Meetings /\ launches'[q] = launches[q]
  BY <1>0, <1>1, <1>5, <1>6, Places, PlaceNext, PolicyStable
<1>11. Meetings = IF Split THEN 3 ELSE 2
  BY DEF Meetings
<1>12. Entered(q) <= Entered(q)' /\ Passed(q)' <= Passed(q)
  <2> DEFINE b == Meetings * launches[q]
  <2>1. b \in Nat
    BY <1>10, <1>11 DEF Place
  <2>2. /\ host[q] = "run" => Entered(q) = b + 1 /\ Passed(q) = b + 1
        /\ host[q] = "compute" => Entered(q) = b + 2 /\ Passed(q) = b + 2
    BY <1>10 DEF Place
  <2>3. /\ host'[q] = "exchanged" => Entered(q)' = b + 2 /\ Passed(q)' = b + 1
        /\ host'[q] = "leave" => Entered(q)' = b + Meetings /\ Passed(q)' = b + Meetings - 1
    BY <1>10 DEF Place
  <2> HIDE DEF b
  <2> QED BY <1>1, <1>2, <1>3, <1>11, <2>1, <2>2, <2>3
<1>13. ASSUME NEW c \in Comm, NEW m \in Nat PROVE Moved(q, c, m)' = Moved(q, c, m)
  <2>1. comm'[q][c] = comm[q][c] /\ launches'[q] = launches[q] /\ Begun(q, m)' = Begun(q, m)
    BY <1>1, <1>3 DEF Begun
  <2> QED BY <2>1 DEF Moved
<1> QED
  <2>1. Own(q)'
    BY <1>6, <1>8 DEF Own
  <2> QED BY <1>1, <1>4, <1>5, <1>9, <1>12, <1>13, <2>1, HostFrame

(* A host leaves its launch behind when all have ended theirs. *)
LEMMA InvLeave == ASSUME IInv, NEW q \in Ranks, Leave(q) PROVE IInv'
<1>0. TypeOK /\ Phase(q) /\ Launches \in Nat /\ launches[q] \in Nat
  BY Sizes, Kinds DEF IInv, Own
<1>1. /\ host[q] = "leave" /\ AllMet(q)
      /\ launches' = [launches EXCEPT ![q] = @ + 1]
      /\ host' = [host EXCEPT ![q] = "clear"]
      /\ policy' = policy /\ recv' = recv /\ ready' = ready
      /\ comm' = comm /\ counter' = counter /\ computed' = computed
      /\ shard' = shard /\ task' = task
  BY DEF Leave, device
<1>2. host'[q] = "clear" /\ launches'[q] = launches[q] + 1
  BY <1>0, <1>1 DEF TypeOK
<1>3. ASSUME NEW r \in Ranks, r # q PROVE host'[r] = host[r] /\ launches'[r] = launches[r]
  BY <1>0, <1>1, <1>3 DEF TypeOK
<1>4. /\ launches[q] < Launches
      /\ \A c \in Comm : comm[q][c] = CommEnd
      /\ \A w \in Worker : shard[q][w] = ShardEnd
  BY <1>0, <1>1 DEF Phase, GemmHost
<1>5. TypeOK'
  <2>1. host' \in [Ranks -> {"clear", "meet", "run", "exchanged", "compute", "leave"}]
    BY <1>0, <1>1 DEF TypeOK
  <2>2. launches' \in [Ranks -> 0 .. Launches]
    <3>1. launches[q] + 1 \in 0 .. Launches
      BY <1>0, <1>4
    <3> QED BY <1>0, <1>1, <3>1 DEF TypeOK
  <2>3. Workers' = Workers
    BY <1>1, PolicyStable
  <2> QED BY <1>0, <1>1, <2>1, <2>2, <2>3 DEF TypeOK
<1>6. Phase(q)'
  <2>1. /\ \A c \in Comm : comm'[q][c] = CommEnd
        /\ \A w \in Worker : shard'[q][w] = ShardEnd
    BY <1>1, <1>4
  <2> QED BY <1>2, <2>1 DEF Phase
<1>7. Fresh(q)' /\ Tiles(q)' /\ Polled(q)'
  BY <1>2 DEF Fresh, Tiles, Polled, GemmStarted
<1>8. Place(q) /\ Place(q)' /\ Meetings' = Meetings
  BY <1>0, <1>1, <1>5, <1>6, Places, PlaceNext, PolicyStable
<1>9. Entered(q)' = Entered(q) /\ Passed(q)' = Entered(q) /\ Entered(q) \in Nat
  <2>1. Entered(q) = Meetings * launches[q] + Meetings /\ Meetings \in Nat
    BY <1>1, <1>8 DEF Place, Meetings
  <2>2. Entered(q)' = Meetings * (launches[q] + 1) /\ Passed(q)' = Meetings * (launches[q] + 1)
    BY <1>2, <1>8 DEF Place
  <2>3. Meetings * (launches[q] + 1) = Meetings * launches[q] + Meetings
    <3>1. Meetings \in {2, 3}
      BY DEF Meetings
    <3> QED BY <1>0, <3>1
  <2> QED BY <1>8, <2>1, <2>2, <2>3 DEF Place
<1>10. ASSUME NEW c \in Comm, NEW m \in Nat PROVE Moved(q, c, m)' = Moved(q, c, m)
  <2>1. comm'[q][c] = CommEnd /\ comm[q][c] = CommEnd
    BY <1>1, <1>4
  <2>2. ~Begun(q, m)' /\ (Begun(q, m) <=> launches[q] + 1 = m)
    BY <1>0, <1>1, <1>2 DEF Begun
  <2> QED BY <1>0, <1>2, <2>1, <2>2 DEF Moved
<1> QED
  <2>1. Own(q)' /\ Entered(q) <= Entered(q)'
    BY <1>6, <1>7, <1>9 DEF Own
  <2> QED BY <1>1, <1>2, <1>3, <1>5, <1>7, <1>9, <1>10, <2>1, HostFrame

(***************************************************************************)
(* The steps of a communication workgroup.                                 *)
(***************************************************************************)

(* A communication workgroup is under way only in its launch, in which every
   rank is; its step leaves everything but the exchange alone. *)
LEMMA CommStep ==
  ASSUME IInv, NEW q \in Ranks, NEW b \in Comm, comm[q][b] < CommEnd,
         UNCHANGED <<policy, host, launches, task, shard, counter, computed>>,
         comm' = [comm EXCEPT ![q][b] = comm[q][b] + 1],
         \A d, p \in Ranks : ready'[d][p] \in Nat /\ ready'[d][p] >= ready[d][p]
  PROVE  /\ comm' \in [Ranks -> [Comm -> Pending .. CommEnd]]
         /\ \A r \in Ranks : Own(r)' /\ Polled(r)'
         /\ \A r, p \in Ranks : Barrier(r, p)'
         /\ \A d \in Ranks : launches[d] = launches[q] /\ host[d] # "clear"
         /\ \A p \in Ranks, c \in Comm : p # q \/ c # b =>
              Moved(p, c, launches[q] + 1)' = Moved(p, c, launches[q] + 1)
         /\ Moved(q, b, launches[q] + 1) = comm[q][b]
         /\ Moved(q, b, launches[q] + 1)' = comm[q][b] + 1
<1> DEFINE n == launches[q] + 1
<1>1. TypeOK /\ Phase(q) /\ CommEnd \in Nat /\ comm[q][b] \in Int /\ n \in Nat /\ launches[q] \in Nat
      /\ comm[q][b] \in Pending .. CommEnd
  <2>1. comm[q][b] \in -1 .. 2 * (R - 1) /\ launches[q] \in Nat
    BY Kinds DEF IInv
  <2> QED BY <2>1, Sizes DEF IInv, Own, Pending
<1>2. comm' \in [Ranks -> [Comm -> Pending .. CommEnd]]
  <2>1. comm \in [Ranks -> [Comm -> Pending .. CommEnd]]
    BY <1>1 DEF TypeOK
  <2>2. comm[q][b] + 1 \in Pending .. CommEnd
    BY <1>1 DEF Pending
  <2> QED BY <2>1, <2>2
<1>3. comm'[q][b] = comm[q][b] + 1 /\ \A p \in Ranks, c \in Comm : p # q \/ c # b => comm'[p][c] = comm[p][c]
  <2>1. comm \in [Ranks -> [Comm -> Pending .. CommEnd]]
    BY <1>1 DEF TypeOK
  <2> QED BY <2>1
<1>4. host[q] = "run"
  <2>1. comm[q][b] # CommEnd
    BY <1>1
  <2> QED BY <1>1, <2>1 DEF Phase
<1>5. ASSUME NEW d \in Ranks PROVE launches[d] = launches[q] /\ host[d] # "clear"
  BY <1>4, Ordered
<1>6. ASSUME NEW r \in Ranks PROVE Own(r)' /\ Polled(r)'
  <2>1. Own(r) /\ Polled(r)
    BY DEF IInv
  <2>2. CASE r = q
    <3>1. Phase(r)'
      BY <1>4, <2>1, <2>2, PolicyStable DEF Own, Phase
    <3>2. Fresh(r)' /\ Tiles(r)'
      BY <2>1, TilesFrame DEF Own
    <3> QED BY <1>1, <2>1, <3>1, <3>2, PolledFrame DEF Own
  <2>3. CASE r # q
    <3>1. comm'[r] = comm[r]
      BY <1>1, <2>3 DEF TypeOK
    <3> QED BY <1>1, <2>1, <3>1, OwnFrame, PolledFrame
  <2> QED BY <2>2, <2>3
<1>7. ASSUME NEW r \in Ranks, NEW p \in Ranks PROVE Barrier(r, p)'
  <2>1. Entered(p)' = Entered(p) /\ Entered(r)' = Entered(r)
    BY PolicyStable DEF Entered
  <2>2. Passed(r)' = Passed(r)
    BY <2>1 DEF Passed
  <2>3. Barrier(r, p)
    BY DEF IInv
  <2> QED BY <2>1, <2>2, <2>3 DEF Barrier
<1>8. ASSUME NEW p \in Ranks, NEW c \in Comm, p # q \/ c # b PROVE Moved(p, c, n)' = Moved(p, c, n)
  <2>1. comm'[p][c] = comm[p][c] /\ n' = n
    BY <1>3, <1>8
  <2>2. Begun(p, n)' = Begun(p, n)
    BY DEF Begun
  <2> QED BY <2>1, <2>2 DEF Moved
<1>9. Moved(q, b, n) = comm[q][b] /\ Moved(q, b, n)' = comm'[q][b]
  <2>1. Begun(q, n) /\ ~(launches[q] >= n) /\ n - 1 = launches[q]
    BY <1>1, <1>4 DEF Begun
  <2> QED BY <2>1 DEF Moved, Begun
<1> QED BY <1>2, <1>3, <1>5, <1>6, <1>7, <1>8, <1>9

(* A communication workgroup starts. *)
LEMMA InvDispatchComm ==
  ASSUME IInv, NEW q \in Ranks, NEW b \in Comm, DispatchComm(q, b) PROVE IInv'
<1> DEFINE n == launches[q] + 1
<1>0. TypeOK /\ CommEnd \in Nat /\ n \in Nat /\ CommWGs \in Nat
  BY Sizes, Kinds DEF IInv
<1>1. /\ comm[q][b] = -1 /\ comm' = [comm EXCEPT ![q][b] = 0]
      /\ UNCHANGED <<policy, host, launches, recv, ready, task, shard, counter, computed>>
  BY DEF DispatchComm, Pending
<1>2. comm' = [comm EXCEPT ![q][b] = comm[q][b] + 1] /\ comm[q][b] < CommEnd
  <2>1. comm[q][b] + 1 = 0
    BY <1>1
  <2> QED BY <1>0, <1>1, <2>1
<1>3. \A d, p \in Ranks : ready'[d][p] \in Nat /\ ready'[d][p] >= ready[d][p]
  BY <1>0, <1>1, Kinds
<1>4. /\ comm' \in [Ranks -> [Comm -> Pending .. CommEnd]]
      /\ \A r \in Ranks : Own(r)' /\ Polled(r)'
      /\ \A r, p \in Ranks : Barrier(r, p)'
      /\ \A d \in Ranks : launches[d] = launches[q] /\ host[d] # "clear"
      /\ \A p \in Ranks, c \in Comm : p # q \/ c # b => Moved(p, c, n)' = Moved(p, c, n)
      /\ Moved(q, b, n) = -1 /\ Moved(q, b, n)' = 0
  <2>1. UNCHANGED <<policy, host, launches, task, shard, counter, computed>>
    BY <1>1
  <2>2. /\ comm' \in [Ranks -> [Comm -> Pending .. CommEnd]]
        /\ \A r \in Ranks : Own(r)' /\ Polled(r)'
        /\ \A r, p \in Ranks : Barrier(r, p)'
        /\ \A d \in Ranks : launches[d] = launches[q] /\ host[d] # "clear"
        /\ \A p \in Ranks, c \in Comm : p # q \/ c # b => Moved(p, c, n)' = Moved(p, c, n)
        /\ Moved(q, b, n) = comm[q][b] /\ Moved(q, b, n)' = comm[q][b] + 1
    BY <1>2, <1>3, <2>1, CommStep
  <2>3. comm[q][b] = -1 /\ comm[q][b] + 1 = 0
    BY <1>1
  <2> QED BY <2>2, <2>3
<1>5. TypeOK'
  BY <1>0, <1>1, <1>4, PolicyStable DEF TypeOK
<1>6. ASSUME NEW d \in Ranks, NEW p \in Ranks PROVE Shares(d, p)'
  <2>1. Shares(d, p) /\ launches[d] = launches[q] /\ host[d] # "clear"
    BY <1>4 DEF IInv
  <2>2. \A c \in Comm, i \in 0 .. R-2 :
          /\ (Moved(p, c, n)' >= 2 * i + 1) <=> (Moved(p, c, n) >= 2 * i + 1)
          /\ (Moved(p, c, n)' >= 2 * i + 2) <=> (Moved(p, c, n) >= 2 * i + 2)
    <3> SUFFICES ASSUME NEW c \in Comm, NEW i \in 0 .. R-2
                 PROVE  /\ (Moved(p, c, n)' >= 2 * i + 1) <=> (Moved(p, c, n) >= 2 * i + 1)
                        /\ (Moved(p, c, n)' >= 2 * i + 2) <=> (Moved(p, c, n) >= 2 * i + 2)
      OBVIOUS
    <3>1. CASE p # q \/ c # b
      BY <1>4, <3>1
    <3>2. CASE p = q /\ c = b
      <4>1. Moved(p, c, n) = -1 /\ Moved(p, c, n)' = 0
        BY <1>4, <3>2
      <4>2. ~(0 >= 2 * i + 1) /\ ~(0 >= 2 * i + 2) /\ ~(-1 >= 2 * i + 1) /\ ~(-1 >= 2 * i + 2)
        OBVIOUS
      <4> QED BY <4>1, <4>2
    <3> QED BY <3>1, <3>2
  <2>3. \A c \in Comm : Stored(p, c, n, d)' = Stored(p, c, n, d)
    BY <2>2 DEF Stored
  <2>4. Counted(p, n, d)' = Counted(p, n, d)
    BY <2>2 DEF Counted
  <2>5. n = launches[d] + 1 /\ n' = n /\ launches'[d] + 1 = n
    BY <1>1, <2>1
  <2> QED BY <1>1, <2>1, <2>3, <2>4, <2>5 DEF Shares
<1> QED BY <1>4, <1>5, <1>6 DEF IInv

(* Where a communication workgroup is, and the peer it serves. *)
LEMMA Serving ==
  ASSUME TypeOK, NEW q \in Ranks, NEW b \in Comm, comm[q][b] \in 0 .. CommEnd-1,
         NEW k \in {0, 1}, comm[q][b] % 2 = k
  PROVE  \E i \in 0 .. R-2 : comm[q][b] = 2 * i + k /\ Target(q, b) = Peer(q, b, i)
<1> DEFINE x == comm[q][b]
<1>1. x \in Nat /\ x < 2 * (R - 1) /\ R \in Nat /\ R >= 2
  BY Sizes
<1>2. PICK i \in Int : x = 2 * i + k /\ x \div 2 = i
  <2>1. x \in Int /\ x % 2 = k
    BY <1>1
  <2> HIDE DEF x
  <2>2. \E i \in Int : x % 2 \in 0 .. 2 - 1 /\ x = 2 * i + (x % 2) /\ x \div 2 = i
    <3>1. 2 \in Nat \ {0}
      OBVIOUS
    <3> QED BY <2>1, <3>1, ModDef, Zenon
  <2>3. PICK i \in Int : x = 2 * i + (x % 2) /\ x \div 2 = i
    BY <2>2
  <2>4. x = 2 * i + k
    BY <2>1, <2>3
  <2> QED BY <2>3, <2>4
<1>3. i \in 0 .. R-2
  <2> HIDE DEF x
  <2> QED BY <1>1, <1>2
<1> QED BY <1>2, <1>3 DEF Target

(* A share is stored at the peer, whole and in this launch, before it counts. *)
LEMMA InvCopyShare ==
  ASSUME IInv, NEW q \in Ranks, NEW b \in Comm, CopyShare(q, b) PROVE IInv'
<1> DEFINE n == launches[q] + 1
           D == Target(q, b)
<1>0. TypeOK /\ CommEnd \in Nat /\ n \in Nat /\ CommWGs \in Nat /\ launches[q] \in Nat /\ Launches \in Nat
  BY Sizes, Kinds DEF IInv
<1>1. /\ comm[q][b] \in 0 .. CommEnd-1 /\ comm[q][b] % 2 = 0
      /\ comm' = [comm EXCEPT ![q][b] = comm[q][b] + 1]
      /\ recv' = [recv EXCEPT ![D][q][b] = n]
      /\ UNCHANGED <<policy, host, launches, ready, task, shard, counter, computed>>
  BY DEF CopyShare, Storing
<1>2. PICK i \in 0 .. R-2 : comm[q][b] = 2 * i /\ D = Peer(q, b, i)
  <2>1. \E i \in 0 .. R-2 : comm[q][b] = 2 * i + 0 /\ D = Peer(q, b, i)
    BY <1>0, <1>1, Serving
  <2>2. PICK i \in 0 .. R-2 : comm[q][b] = 2 * i + 0 /\ D = Peer(q, b, i)
    BY <2>1
  <2>3. 2 * i + 0 = 2 * i
    OBVIOUS
  <2> QED BY <2>2, <2>3
<1>3. D \in Ranks /\ D # q
  BY <1>2, Peers
<1>4. /\ comm' \in [Ranks -> [Comm -> Pending .. CommEnd]]
      /\ \A r \in Ranks : Own(r)' /\ Polled(r)'
      /\ \A r, p \in Ranks : Barrier(r, p)'
      /\ \A d \in Ranks : launches[d] = launches[q] /\ host[d] # "clear"
      /\ \A p \in Ranks, c \in Comm : p # q \/ c # b => Moved(p, c, n)' = Moved(p, c, n)
      /\ Moved(q, b, n) = comm[q][b] /\ Moved(q, b, n)' = comm[q][b] + 1
  <2>1. comm[q][b] < CommEnd
    BY <1>0, <1>1
  <2>2. UNCHANGED <<policy, host, launches, task, shard, counter, computed>>
    BY <1>1
  <2>3. \A d, p \in Ranks : ready'[d][p] \in Nat /\ ready'[d][p] >= ready[d][p]
    BY <1>0, <1>1, Kinds
  <2> QED BY <1>1, <2>1, <2>2, <2>3, CommStep
<1>5. launches[q] < Launches
  <2>1. Phase(q) /\ host[q] # "clear"
    BY <1>4 DEF IInv, Own
  <2> QED BY <2>1 DEF Phase
<1>6. /\ recv' \in [Ranks -> [Ranks -> [Comm -> 0 .. Launches]]]
      /\ recv'[D][q][b] = n
      /\ \A d, p \in Ranks : d # D \/ p # q => recv'[d][p] = recv[d][p]
      /\ \A c \in Comm : c # b => recv'[D][q][c] = recv[D][q][c]
  <2>1. recv \in [Ranks -> [Ranks -> [Comm -> 0 .. Launches]]] /\ n \in 0 .. Launches
    BY <1>0, <1>5 DEF TypeOK
  <2> HIDE DEF D, n
  <2>2. recv' = [recv EXCEPT ![D][q][b] = n]
    BY <1>1
  <2> QED BY <1>3, <2>1, <2>2
<1>7. TypeOK'
  BY <1>0, <1>1, <1>4, <1>6, PolicyStable DEF TypeOK
<1>8. ASSUME NEW d \in Ranks, NEW p \in Ranks PROVE Shares(d, p)'
  <2>1. Shares(d, p) /\ launches[d] = launches[q] /\ host[d] # "clear"
        /\ launches' = launches /\ ready' = ready
    BY <1>1, <1>4 DEF IInv
  <2>2. CASE p # q
    <3>1. recv'[d][p] = recv[d][p] /\ ready'[d][p] = ready[d][p]
      BY <1>6, <2>1, <2>2
    <3>2. \A c \in Comm : Moved(p, c, launches[d] + 1)' = Moved(p, c, launches[d] + 1)
      BY <1>4, <2>1, <2>2
    <3> QED BY <1>0, <2>1, <3>1, <3>2, SharesFrame
  <2>3. CASE p = q
    <3>1. ASSUME NEW c \in Comm, Stored(q, c, n, d)' PROVE Stored(q, c, n, d) \/ (c = b /\ d = D)
      <4>1. PICK j \in 0 .. R-2 : Peer(q, c, j) = d /\ Moved(q, c, n)' >= 2 * j + 1
        BY <3>1 DEF Stored
      <4>2. CASE c # b
        BY <1>4, <4>1, <4>2 DEF Stored
      <4>3. CASE c = b /\ j = i
        BY <1>2, <4>1, <4>3
      <4>4. CASE c = b /\ j # i
        <5>1. 2 * i + 1 >= 2 * j + 1
          BY <1>2, <1>4, <4>1, <4>4
        <5>2. 2 * i >= 2 * j + 1
          BY <4>4, <5>1
        <5> QED BY <1>2, <1>4, <4>1, <4>4, <5>2 DEF Stored
      <4> QED BY <4>2, <4>3, <4>4
    <3>2. ASSUME NEW c \in Comm, NEW j \in 0 .. R-2
          PROVE  (Moved(q, c, n)' >= 2 * j + 2) <=> (Moved(q, c, n) >= 2 * j + 2)
      <4>1. CASE c # b
        BY <1>4, <4>1
      <4>2. CASE c = b
        <5>1. Moved(q, c, n)' = 2 * i + 1 /\ Moved(q, c, n) = 2 * i
          BY <1>2, <1>4, <4>2
        <5>2. (2 * i + 1 >= 2 * j + 2) <=> (2 * i >= 2 * j + 2)
          OBVIOUS
        <5> QED BY <5>1, <5>2
      <4> QED BY <4>1, <4>2
    <3>3. Counted(q, n, d)' = Counted(q, n, d)
      BY <3>2 DEF Counted
    <3>4. ASSUME NEW c \in Comm, q = d \/ Stored(q, c, n, d)' PROVE recv'[d][q][c] = n
      <4>1. q = d \/ Stored(q, c, n, d) => recv[d][q][c] = n
        BY <2>1, <2>3 DEF Shares
      <4>2. CASE d = D /\ c = b
        BY <1>6, <4>2
      <4>3. CASE ~(d = D /\ c = b)
        <5>1. recv'[d][q][c] = recv[d][q][c]
          BY <1>6, <4>3
        <5> QED BY <3>1, <3>4, <4>1, <4>3, <5>1
      <4> QED BY <4>2, <4>3
    <3>5. n = launches[d] + 1 /\ launches'[d] + 1 = n
      BY <2>1
    <3> QED BY <2>1, <2>3, <3>3, <3>4, <3>5 DEF Shares
  <2> QED BY <2>2, <2>3
<1> QED BY <1>4, <1>7, <1>8 DEF IInv

(* A workgroup counts itself at the peer that has its share, once. *)
LEMMA InvCountShare ==
  ASSUME IInv, NEW q \in Ranks, NEW b \in Comm, CountShare(q, b) PROVE IInv'
<1> DEFINE n == launches[q] + 1
<1>0. TypeOK /\ CommEnd \in Nat /\ n \in Nat /\ CommWGs \in Nat /\ launches[q] \in Nat
  BY Sizes, Kinds DEF IInv
<1>12. comm[q][b] \in 0 .. CommEnd-1 /\ comm[q][b] % 2 = 1
  BY DEF CountShare, Counting
<1>2. PICK i \in 0 .. R-2 : comm[q][b] = 2 * i + 1 /\ Target(q, b) = Peer(q, b, i)
  BY <1>0, <1>12, Serving
<1> DEFINE D == Peer(q, b, i)
<1>1. /\ comm[q][b] \in 0 .. CommEnd-1
      /\ comm' = [comm EXCEPT ![q][b] = comm[q][b] + 1]
      /\ ready' = [ready EXCEPT ![D][q] = ready[D][q] + 1]
      /\ UNCHANGED <<policy, host, launches, recv, task, shard, counter, computed>>
  BY <1>12, <1>2 DEF CountShare
<1>3. D \in Ranks /\ D # q
  BY <1>2, Peers
<1>4. /\ ready'[D][q] = ready[D][q] + 1
      /\ \A d, p \in Ranks : d # D \/ p # q => ready'[d][p] = ready[d][p]
      /\ \A d, p \in Ranks : ready[d][p] \in 0 .. CommWGs
      /\ \A d, p \in Ranks : ready'[d][p] \in Nat /\ ready'[d][p] >= ready[d][p]
  <2>1. ready \in [Ranks -> [Ranks -> 0 .. CommWGs]]
    BY <1>0 DEF TypeOK
  <2>2. \A d, p \in Ranks : ready[d][p] \in 0 .. CommWGs /\ ready[d][p] \in Nat
    BY <1>0, <2>1
  <2> HIDE DEF D
  <2>3. ready'[D][q] = ready[D][q] + 1
        /\ \A d, p \in Ranks : d # D \/ p # q => ready'[d][p] = ready[d][p]
    BY <1>1, <1>3, <2>1
  <2>4. \A d, p \in Ranks : ready'[d][p] \in Nat /\ ready'[d][p] >= ready[d][p]
    BY <1>3, <2>2, <2>3
  <2> QED BY <2>2, <2>3, <2>4
<1>5. /\ comm' \in [Ranks -> [Comm -> Pending .. CommEnd]]
      /\ \A r \in Ranks : Own(r)' /\ Polled(r)'
      /\ \A r, p \in Ranks : Barrier(r, p)'
      /\ \A d \in Ranks : launches[d] = launches[q] /\ host[d] # "clear"
      /\ \A p \in Ranks, c \in Comm : p # q \/ c # b => Moved(p, c, n)' = Moved(p, c, n)
      /\ Moved(q, b, n) = comm[q][b] /\ Moved(q, b, n)' = comm[q][b] + 1
  <2>1. comm[q][b] < CommEnd
    BY <1>0, <1>1
  <2>2. UNCHANGED <<policy, host, launches, task, shard, counter, computed>>
    BY <1>1
  <2> QED BY <1>1, <1>4, <2>1, <2>2, CommStep
<1>6. Moved(q, b, n) = 2 * i + 1 /\ Moved(q, b, n)' = 2 * i + 2
  BY <1>2, <1>5
<1>7. /\ b \notin Counted(q, n, D)
      /\ Counted(q, n, D)' = Counted(q, n, D) \cup {b}
      /\ \A d \in Ranks : d # D => Counted(q, n, d)' = Counted(q, n, d)
  <2>1. ASSUME NEW d \in Ranks, NEW c \in Comm, c # b
        PROVE  c \in Counted(q, n, d)' <=> c \in Counted(q, n, d)
    <3>1. Moved(q, c, n)' = Moved(q, c, n)
      BY <1>5, <2>1
    <3> QED BY <3>1 DEF Counted
  <2>2. ASSUME NEW d \in Ranks, NEW j \in 0 .. R-2, Peer(q, b, j) = d
        PROVE  /\ d # D => j # i
               /\ d = D => j = i
    BY <1>2, <2>2, Peers
  <2>3. b \notin Counted(q, n, D)
    <3>1. ASSUME NEW j \in 0 .. R-2, Peer(q, b, j) = D, 2 * i + 1 >= 2 * j + 2 PROVE FALSE
      <4>1. j = i
        BY <1>3, <2>2, <3>1
      <4> QED BY <3>1, <4>1
    <3> QED BY <1>6, <3>1 DEF Counted
  <2>4. b \in Counted(q, n, D)'
    <3>1. Peer(q, b, i) = D /\ Moved(q, b, n)' >= 2 * i + 2
      BY <1>2, <1>6
    <3> QED BY <3>1 DEF Counted
  <2>5. ASSUME NEW d \in Ranks, d # D PROVE b \in Counted(q, n, d)' <=> b \in Counted(q, n, d)
    <3>1. ASSUME NEW j \in 0 .. R-2, Peer(q, b, j) = d
          PROVE  (2 * i + 2 >= 2 * j + 2) <=> (2 * i + 1 >= 2 * j + 2)
      <4>1. j # i
        BY <2>2, <2>5, <3>1
      <4> QED BY <4>1
    <3> QED BY <1>6, <3>1 DEF Counted
  <2>6. \A d \in Ranks : Counted(q, n, d)' \subseteq Comm /\ Counted(q, n, d) \subseteq Comm
    BY DEF Counted
  <2>7. ASSUME NEW d \in Ranks, d # D PROVE Counted(q, n, d)' = Counted(q, n, d)
    <3> HIDE DEF D
    <3>1. \A c \in Comm : c \in Counted(q, n, d)' <=> c \in Counted(q, n, d)
      BY <2>1, <2>5, <2>7
    <3>2. Counted(q, n, d)' \subseteq Comm /\ Counted(q, n, d) \subseteq Comm
      BY <2>6
    <3> QED BY <3>1, <3>2
  <2>8. Counted(q, n, D)' = Counted(q, n, D) \cup {b}
    <3> HIDE DEF D
    <3>1. \A c \in Comm : c # b => (c \in Counted(q, n, D)' <=> c \in Counted(q, n, D))
      BY <1>3, <2>1
    <3>2. Counted(q, n, D)' \subseteq Comm /\ Counted(q, n, D) \subseteq Comm
      BY <1>3, <2>6
    <3> QED BY <2>4, <3>1, <3>2
  <2> QED BY <2>3, <2>7, <2>8
<1>8. ready'[D][q] = Cardinality(Counted(q, n, D)') /\ ready'[D][q] \in 0 .. CommWGs
  <2> DEFINE s == Counted(q, n, D)
  <2>1. ready[D][q] = Cardinality(s) /\ IsFiniteSet(s)
    <3>1. Shares(D, q) /\ host[D] # "clear" /\ launches[D] = launches[q]
      BY <1>3, <1>5 DEF IInv
    <3>2. IsFiniteSet(s)
      BY <1>0, <1>3, CountedFinite
    <3> QED BY <1>3, <3>1, <3>2 DEF Shares
  <2>2. Cardinality(s \cup {b}) = Cardinality(s) + 1
    BY <1>7, <2>1, FS_AddElement
  <2>3. Cardinality(s \cup {b}) \in 0 .. CommWGs
    <3>1. s \cup {b} \in SUBSET Comm
      BY DEF Counted
    <3>2. Cardinality(s \cup {b}) <= Cardinality(Comm) /\ IsFiniteSet(s \cup {b})
      BY <3>1, CommFinite, FS_Subset
    <3> QED BY <1>0, <3>2, CommFinite, FS_CardinalityType
  <2> QED BY <1>4, <1>7, <2>1, <2>2, <2>3
<1>9. TypeOK'
  <2>1. ready' \in [Ranks -> [Ranks -> 0 .. CommWGs]]
    <3>1. ready \in [Ranks -> [Ranks -> 0 .. CommWGs]]
      BY <1>0 DEF TypeOK
    <3>2. ready[D][q] + 1 \in 0 .. CommWGs
      BY <1>4, <1>8
    <3> HIDE DEF D
    <3> QED BY <1>1, <1>3, <3>1, <3>2
  <2> QED BY <1>0, <1>1, <1>5, <2>1, PolicyStable DEF TypeOK
<1>10. ASSUME NEW c \in Comm, NEW j \in 0 .. R-2
       PROVE  (Moved(q, c, n)' >= 2 * j + 1) <=> (Moved(q, c, n) >= 2 * j + 1)
  <2>1. CASE c # b
    BY <1>5, <2>1
  <2>2. CASE c = b
    <3>1. (2 * i + 2 >= 2 * j + 1) <=> (2 * i + 1 >= 2 * j + 1)
      OBVIOUS
    <3> QED BY <1>6, <2>2, <3>1
  <2> QED BY <2>1, <2>2
<1>11. ASSUME NEW d \in Ranks, NEW p \in Ranks PROVE Shares(d, p)'
  <2>1. Shares(d, p) /\ launches[d] = launches[q] /\ host[d] # "clear"
        /\ launches' = launches /\ recv' = recv
    BY <1>1, <1>5 DEF IInv
  <2>2. CASE p # q
    <3>1. recv'[d][p] = recv[d][p] /\ ready'[d][p] = ready[d][p]
      BY <1>4, <2>1, <2>2
    <3>2. \A c \in Comm : Moved(p, c, launches[d] + 1)' = Moved(p, c, launches[d] + 1)
      BY <1>5, <2>1, <2>2
    <3> QED BY <1>0, <2>1, <3>1, <3>2, SharesFrame
  <2>3. CASE p = q
    <3>1. \A c \in Comm : Stored(q, c, n, d)' = Stored(q, c, n, d)
      BY <1>10 DEF Stored
    <3>2. q # d => ready'[d][q] = Cardinality(Counted(q, n, d)')
      <4>1. CASE d = D
        BY <1>8, <4>1
      <4>2. CASE d # D
        <5>1. ready'[d][q] = ready[d][q] /\ Counted(q, n, d)' = Counted(q, n, d)
          BY <1>4, <1>7, <4>2
        <5> QED BY <2>1, <2>3, <5>1 DEF Shares
      <4> QED BY <4>1, <4>2
    <3>3. d = q => ready'[d][q] = 0
      BY <1>3, <1>4, <2>1, <2>3 DEF Shares
    <3>4. n = launches[d] + 1 /\ launches'[d] + 1 = n
      BY <2>1
    <3> QED BY <2>1, <2>3, <3>1, <3>2, <3>3, <3>4 DEF Shares
  <2> QED BY <2>2, <2>3
<1> QED BY <1>5, <1>9, <1>11 DEF IInv

(***************************************************************************)
(* The steps of a compute workgroup.                                       *)
(***************************************************************************)

(* A step of one rank's GEMM keeps the invariant if it keeps the rank's tiles
   and what it has polled. *)
LEMMA GemmStep ==
  ASSUME IInv, NEW q \in Ranks, NEW w \in Worker, shard[q][w] # ShardEnd, TypeOK',
         UNCHANGED <<policy, host, launches, recv, ready, comm>>,
         \A r \in Ranks \ {q} :
           /\ shard'[r] = shard[r] /\ task'[r] = task[r]
           /\ counter'[r] = counter[r] /\ computed'[r] = computed[r],
         \A v \in Worker : v # w => shard'[q][v] = shard[q][v],
         Tiles(q)', Polled(q)'
  PROVE  IInv'
<1>1. TypeOK /\ Phase(q) /\ Workers' = Workers /\ Split' = Split /\ GemmHost' = GemmHost
  BY PolicyStable DEF IInv, Own
<1>2. host[q] = GemmHost /\ w \in 0 .. Workers-1 /\ GemmStarted(q)
  BY <1>1, Computing
<1>3. Phase(q)'
  <2>1. ASSUME NEW v \in Worker, v >= Workers PROVE shard'[q][v] = ShardEnd
    <3>1. v # w
      BY <1>2, <2>1, Sizes DEF Worker
    <3> QED BY <1>1, <2>1, <3>1 DEF Phase
  <2> QED BY <1>1, <1>2, <2>1 DEF Phase
<1>4. Fresh(q)'
  <2>1. GemmStarted(q)'
    BY <1>1, <1>2 DEF GemmStarted
  <2> QED BY <2>1 DEF Fresh
<1>5. ASSUME NEW r \in Ranks PROVE Own(r)' /\ Polled(r)'
  <2>1. CASE r = q
    BY <1>3, <1>4, <2>1 DEF Own
  <2>2. CASE r # q
    <3>1. Own(r) /\ Polled(r)
      BY DEF IInv
    <3>2. /\ shard'[r] = shard[r] /\ task'[r] = task[r]
          /\ counter'[r] = counter[r] /\ computed'[r] = computed[r]
      BY <2>2
    <3>3. \A p \in Ranks : ready'[r][p] \in Nat /\ ready'[r][p] >= ready[r][p]
      BY <1>1, Kinds
    <3> QED BY <1>1, <3>1, <3>2, <3>3, OwnFrame, PolledFrame
  <2> QED BY <2>1, <2>2
<1>6. ASSUME NEW r \in Ranks, NEW p \in Ranks PROVE Barrier(r, p)'
  <2>1. Entered(p)' = Entered(p) /\ Entered(r)' = Entered(r)
    BY PolicyStable DEF Entered
  <2>2. Passed(r)' = Passed(r)
    BY <2>1 DEF Passed
  <2>3. Barrier(r, p)
    BY DEF IInv
  <2> QED BY <2>1, <2>2, <2>3 DEF Barrier
<1>7. ASSUME NEW d \in Ranks, NEW p \in Ranks PROVE Shares(d, p)'
  <2>1. Shares(d, p) /\ launches[d] \in Nat
    BY <1>1, Kinds DEF IInv
  <2>2. ASSUME NEW c \in Comm PROVE Moved(p, c, launches[d] + 1)' = Moved(p, c, launches[d] + 1)
    <3>1. Begun(p, launches[d] + 1)' = Begun(p, launches[d] + 1)
      BY DEF Begun
    <3> QED BY <3>1 DEF Moved
  <2> QED BY <2>1, <2>2, SharesFrame
<1> QED BY <1>5, <1>6, <1>7 DEF IInv

(* A workgroup whose shard counter moves, but not to or from the end, keeps its
   tile. *)
LEMMA TilesKept ==
  ASSUME NEW q \in Ranks, NEW w \in Worker, Tiles(q), policy' = policy, host' = host,
         shard[q][w] # ShardEnd, shard'[q][w] # ShardEnd,
         \A v \in Worker : v # w => shard'[q][v] = shard[q][v],
         task' = task, counter' = counter, computed' = computed
  PROVE  Tiles(q)'
<1>1. Workers' = Workers /\ Drawing' = Drawing /\ Split' = Split
  BY PolicyStable
<1>2. GemmStarted(q)' = GemmStarted(q)
  BY <1>1 DEF GemmStarted
<1>3. \A v \in Worker : Active(q, v)' = Active(q, v)
  BY DEF Active
<1>4. Ended(q)' = Ended(q)
  <2>1. \A v \in 0 .. Workers-1 : v \in Worker
    BY Sizes DEF Worker
  <2> QED BY <1>1, <1>3, <2>1 DEF Ended, Active
<1> QED BY <1>1, <1>2, <1>3, <1>4 DEF Tiles

(* A compute workgroup starts. *)
LEMMA InvDispatchWorker ==
  ASSUME IInv, NEW q \in Ranks, NEW w \in Worker, DispatchWorker(q, w) PROVE IInv'
<1>0. TypeOK /\ Tiles(q) /\ Polled(q) /\ R \in Nat /\ R >= 2
  BY Sizes DEF IInv, Own
<1>1. /\ shard[q][w] = -1 /\ shard' = [shard EXCEPT ![q][w] = 0]
      /\ UNCHANGED <<policy, host, launches, recv, ready, comm, task, counter, computed>>
  BY DEF DispatchWorker, Pending
<1>2. /\ shard' \in [Ranks -> [Worker -> Pending .. ShardEnd]]
      /\ shard'[q][w] = 0
      /\ \A v \in Worker : v # w => shard'[q][v] = shard[q][v]
      /\ \A r \in Ranks : r # q => shard'[r] = shard[r]
  <2>1. shard \in [Ranks -> [Worker -> Pending .. ShardEnd]] /\ 0 \in Pending .. ShardEnd
    BY <1>0 DEF TypeOK, Pending, ShardEnd
  <2> QED BY <1>1, <2>1
<1>3. TypeOK'
  BY <1>0, <1>1, <1>2, PolicyStable DEF TypeOK
<1>4. shard[q][w] # ShardEnd /\ shard'[q][w] # ShardEnd
  BY <1>0, <1>1, <1>2 DEF ShardEnd
<1>5. Tiles(q)'
  BY <1>0, <1>1, <1>2, <1>4, TilesKept
<1>6. Polled(q)'
  <2>1. Split' = Split /\ Workers' = Workers
    BY <1>1, PolicyStable
  <2>2. ASSUME NEW v \in Worker, NEW k \in 1 .. R-1, k <= shard'[q][v] PROVE k <= shard[q][v]
    <3>1. v # w
      BY <1>2, <2>2
    <3> QED BY <1>2, <2>2, <3>1
  <2> QED BY <1>0, <1>1, <2>1, <2>2 DEF Polled
<1> QED BY <1>1, <1>2, <1>3, <1>4, <1>5, <1>6, GemmStep

(* A compute workgroup gets past the poll for its next shard. *)
LEMMA InvNextShard ==
  ASSUME IInv, NEW q \in Ranks, NEW w \in Worker, NextShard(q, w) PROVE IInv'
<1> DEFINE s == shard[q][w]
<1>0. TypeOK /\ Tiles(q) /\ Polled(q) /\ R \in Nat /\ R >= 2
  BY Sizes DEF IInv, Own
<1>1. /\ s \in 0 .. R-2 /\ (Split \/ ready[q][Part(q, s + 1)] >= CommWGs)
      /\ shard' = [shard EXCEPT ![q][w] = s + 1]
      /\ UNCHANGED <<policy, host, launches, recv, ready, comm, task, counter, computed>>
  BY DEF NextShard, InputReady
<1>2. /\ shard' \in [Ranks -> [Worker -> Pending .. ShardEnd]]
      /\ shard'[q][w] = s + 1
      /\ \A v \in Worker : v # w => shard'[q][v] = shard[q][v]
      /\ \A r \in Ranks : r # q => shard'[r] = shard[r]
  <2>1. shard \in [Ranks -> [Worker -> Pending .. ShardEnd]] /\ s + 1 \in Pending .. ShardEnd
    BY <1>0, <1>1 DEF TypeOK, Pending, ShardEnd
  <2>2. shard' = [shard EXCEPT ![q][w] = s + 1]
    BY <1>1
  <2> HIDE DEF s
  <2> QED BY <2>1, <2>2
<1>3. TypeOK'
  BY <1>0, <1>1, <1>2, PolicyStable DEF TypeOK
<1>4. shard[q][w] # ShardEnd /\ shard'[q][w] # ShardEnd
  BY <1>0, <1>1, <1>2 DEF ShardEnd
<1>5. Tiles(q)'
  BY <1>0, <1>1, <1>2, <1>4, TilesKept
<1>6. Polled(q)'
  <2>1. Split' = Split /\ Workers' = Workers
    BY <1>1, PolicyStable
  <2>2. ASSUME NEW v \in Worker, NEW k \in 1 .. R-1, k <= shard'[q][v], ~Split
        PROVE  k <= shard[q][v] \/ ready[q][Part(q, k)] >= CommWGs
    <3>1. CASE v # w
      BY <1>2, <2>2, <3>1
    <3>2. CASE v = w /\ k # s + 1
      <4>1. k <= s
        BY <1>1, <1>2, <2>2, <3>2
      <4> QED BY <3>2, <4>1
    <3>3. CASE v = w /\ k = s + 1
      BY <1>1, <2>2, <3>3
    <3> QED BY <3>1, <3>2, <3>3
  <2> QED BY <1>0, <1>1, <2>1, <2>2 DEF Polled
<1> QED BY <1>1, <1>2, <1>3, <1>4, <1>5, <1>6, GemmStep

(* The workgroups of a GEMM that have ended, and one more of them. *)
LEMMA EndedFinite ==
  ASSUME NEW q \in Ranks
  PROVE  IsFiniteSet(Ended(q)) /\ Cardinality(Ended(q)) \in 0 .. Workers
<1>1. Ended(q) \in SUBSET (0 .. Workers-1) /\ Workers \in Nat
  BY Sizes DEF Ended
<1>2. IsFiniteSet(0 .. Workers-1) /\ Cardinality(0 .. Workers-1) = Workers
  BY <1>1, FS_Interval
<1>3. IsFiniteSet(Ended(q)) /\ Cardinality(Ended(q)) <= Cardinality(0 .. Workers-1)
  BY <1>1, <1>2, FS_Subset
<1>4. Cardinality(Ended(q)) \in Nat
  BY <1>3, FS_CardinalityType
<1> QED BY <1>1, <1>2, <1>3, <1>4

(* A tile is stored, once, and the workgroup has the next one or ends. *)
LEMMA InvFinishTask ==
  ASSUME IInv, NEW q \in Ranks, NEW w \in Worker, FinishTask(q, w) PROVE IInv'
<1> DEFINE a == task[q][w]
           n == counter[q]
           last == IF Drawing /\ n < Tasks THEN 0 ELSE ShardEnd
<1>0. /\ TypeOK /\ Phase(q) /\ Tiles(q) /\ Polled(q) /\ R \in Nat /\ R >= 2
      /\ Tasks \in Nat /\ Workers \in 1 .. Tasks /\ n \in Nat
  BY Sizes, Kinds DEF IInv, Own
<1>1. /\ shard[q][w] = R - 1
      /\ computed' = [computed EXCEPT ![q][a] = computed[q][a] + 1]
      /\ shard' = [shard EXCEPT ![q][w] = last]
      /\ Drawing => counter' = [counter EXCEPT ![q] = n + 1] /\ task' = [task EXCEPT ![q][w] = n]
      /\ ~Drawing => counter' = counter /\ task' = task
      /\ UNCHANGED <<policy, host, launches, recv, ready, comm>>
  BY DEF FinishTask
<1>2. /\ shard[q][w] # ShardEnd /\ Active(q, w) /\ host[q] = GemmHost /\ w \in 0 .. Workers-1
      /\ GemmStarted(q)
  <2>1. shard[q][w] # ShardEnd
    BY <1>0, <1>1 DEF ShardEnd
  <2> QED BY <1>0, <2>1, Computing DEF Active
<1>3. /\ Workers <= n
      /\ \A t \in Tile : t >= n => computed[q][t] = 0
      /\ \A t \in Tile : t < n /\ computed[q][t] = 0 => \E v \in Worker : Active(q, v) /\ task[q][v] = t
      /\ \A v \in Worker : Active(q, v) =>
           /\ task[q][v] \in Tile /\ task[q][v] < n /\ computed[q][task[q][v]] = 0
           /\ \A u \in Worker : u # v /\ Active(q, u) => task[q][u] # task[q][v]
      /\ ~Drawing => \A v \in Worker : task[q][v] = v
      /\ Ended(q) # {} => n >= Tasks
      /\ n <= Tasks + Cardinality(Ended(q))
  BY <1>0, <1>2 DEF Tiles
<1>4. a \in Tile /\ a < n /\ computed[q][a] = 0
  BY <1>2, <1>3
<1>5. /\ shard \in [Ranks -> [Worker -> Pending .. ShardEnd]]
      /\ task \in [Ranks -> [Worker -> 0 .. Tasks + Workers]]
      /\ counter \in [Ranks -> 0 .. Tasks + Workers]
      /\ computed \in [Ranks -> [Tile -> 0 .. 1]]
  BY <1>0 DEF TypeOK, Tile
<1>6. /\ shard' \in [Ranks -> [Worker -> Pending .. ShardEnd]]
      /\ shard'[q][w] = last
      /\ \A v \in Worker : v # w => shard'[q][v] = shard[q][v]
      /\ \A r \in Ranks : r # q => shard'[r] = shard[r]
  <2>1. last \in Pending .. ShardEnd
    BY <1>0 DEF Pending, ShardEnd
  <2>2. shard' = [shard EXCEPT ![q][w] = last]
    BY <1>1
  <2> HIDE DEF last
  <2> QED BY <1>5, <2>1, <2>2
<1>7. /\ computed' \in [Ranks -> [Tile -> 0 .. 1]]
      /\ computed'[q][a] = 1
      /\ \A t \in Tile : t # a => computed'[q][t] = computed[q][t]
      /\ \A r \in Ranks : r # q => computed'[r] = computed[r]
  <2>1. computed' = [computed EXCEPT ![q][a] = 1]
    BY <1>1, <1>4
  <2> HIDE DEF a
  <2>2. 1 \in 0 .. 1
    OBVIOUS
  <2> QED BY <1>4, <1>5, <2>1, <2>2
<1>8. Workers' = Workers /\ Drawing' = Drawing /\ Split' = Split /\ GemmHost' = GemmHost
  BY <1>1, PolicyStable
<1>9. GemmStarted(q)'
  BY <1>1, <1>2, <1>8 DEF GemmStarted
<1>10. IsFiniteSet(Ended(q)) /\ Cardinality(Ended(q)) \in 0 .. Workers
  BY EndedFinite
<1>11. w \notin Ended(q) /\ \A v \in 0 .. Workers-1 : v \in Worker
  BY <1>0, <1>2 DEF Ended, Worker
<1>12. Ended(q)' = IF last = ShardEnd THEN Ended(q) \cup {w} ELSE Ended(q)
  BY <1>2, <1>6, <1>8, <1>11 DEF Ended
<1>13. (last = ShardEnd /\ (Drawing => n >= Tasks)) \/ (last = 0 /\ last # ShardEnd /\ Drawing /\ n < Tasks)
  BY <1>0 DEF ShardEnd
<1>14. \A v \in Worker : v # w => (Active(q, v)' <=> Active(q, v))
  BY <1>6 DEF Active
<1>15. Active(q, w)' <=> last # ShardEnd
  BY <1>6 DEF Active
<1> HIDE DEF last
<1>16. Cardinality(Ended(q) \cup {w}) = Cardinality(Ended(q)) + 1
       /\ Cardinality(Ended(q)) + 1 <= Workers
  <2>1. Cardinality(Ended(q) \cup {w}) = Cardinality(Ended(q)) + 1
    BY <1>10, <1>11, FS_AddElement
  <2>2. Ended(q) \cup {w} \in SUBSET (0 .. Workers-1)
    BY <1>2 DEF Ended
  <2>3. IsFiniteSet(0 .. Workers-1) /\ Cardinality(0 .. Workers-1) = Workers
    BY <1>0, FS_Interval
  <2> QED BY <2>1, <2>2, <2>3, FS_Subset
<1>17. /\ counter' \in [Ranks -> 0 .. Tasks + Workers]
       /\ task' \in [Ranks -> [Worker -> 0 .. Tasks + Workers]]
       /\ counter'[q] = IF Drawing THEN n + 1 ELSE n
       /\ task'[q][w] = IF Drawing THEN n ELSE a
       /\ \A v \in Worker : v # w => task'[q][v] = task[q][v]
       /\ \A r \in Ranks : r # q => counter'[r] = counter[r] /\ task'[r] = task[r]
  <2>1. CASE ~Drawing
    BY <1>1, <1>5, <2>1
  <2>2. CASE Drawing
    <3>1. n \in 0 .. Tasks + Workers /\ n + 1 \in 0 .. Tasks + Workers
      BY <1>0, <1>3, <1>10, <1>16
    <3>2. counter' = [counter EXCEPT ![q] = n + 1] /\ task' = [task EXCEPT ![q][w] = n]
      BY <1>1, <2>2
    <3> HIDE DEF n
    <3> QED BY <1>5, <2>2, <3>1, <3>2
  <2> QED BY <2>1, <2>2
<1>18. TypeOK'
  <2>1. computed' \in [Ranks -> [0 .. Tasks-1 -> 0 .. 1]]
    BY <1>7 DEF Tile
  <2> QED BY <1>0, <1>1, <1>6, <1>8, <1>17, <2>1 DEF TypeOK
<1> DEFINE m == counter'[q]
<1>19. /\ Workers <= m /\ m \in Nat /\ (m = n \/ m = n + 1)
       /\ \A t \in Tile : t >= m => computed'[q][t] = 0
  <2>1. m = n \/ m = n + 1
    BY <1>17
  <2>2. Workers <= m /\ m \in Nat /\ n <= m
    BY <1>0, <1>3, <2>1
  <2>3. ASSUME NEW t \in Tile, t >= m PROVE computed'[q][t] = 0
    <3>1. t >= n /\ t # a
      BY <1>0, <1>4, <2>2, <2>3 DEF Tile
    <3> QED BY <1>3, <1>7, <2>3, <3>1
  <2> QED BY <2>1, <2>2, <2>3
<1>20. ASSUME NEW t \in Tile, t < m, computed'[q][t] = 0
       PROVE  \E v \in Worker : Active(q, v)' /\ task'[q][v] = t
  <2>1. t # a /\ computed[q][t] = 0
    BY <1>4, <1>7, <1>20
  <2>2. CASE t < n
    <3>1. PICK v \in Worker : Active(q, v) /\ task[q][v] = t
      BY <1>3, <2>1, <2>2
    <3>2. v # w
      BY <2>1, <3>1
    <3> QED BY <1>14, <1>17, <3>1, <3>2
  <2>3. CASE ~(t < n)
    <3>1. t = n /\ Drawing /\ n < Tasks
      <4>1. t \in Nat /\ t < Tasks /\ t < m /\ ~(t < n) /\ n \in Nat /\ (m = n \/ m = n + 1)
        BY <1>0, <1>19, <1>20, <2>3 DEF Tile
      <4>2. m = IF Drawing THEN n + 1 ELSE n
        BY <1>17
      <4> HIDE DEF m, n
      <4> QED BY <4>1, <4>2
    <3>2. Active(q, w)' /\ task'[q][w] = t
      BY <1>0, <1>13, <1>15, <1>17, <3>1
    <3> QED BY <3>2
  <2> QED BY <2>2, <2>3
<1>21. ASSUME NEW v \in Worker, Active(q, v)'
       PROVE  /\ task'[q][v] \in Tile /\ task'[q][v] < m /\ computed'[q][task'[q][v]] = 0
              /\ v # w => Active(q, v) /\ task'[q][v] = task[q][v] /\ task[q][v] < n
              /\ v = w => task'[q][v] = n
  <2>1. CASE v # w
    <3>1. Active(q, v) /\ task'[q][v] = task[q][v]
      BY <1>14, <1>17, <1>21, <2>1
    <3>2. task[q][v] \in Tile /\ task[q][v] < n /\ computed[q][task[q][v]] = 0 /\ task[q][v] # a
      BY <1>2, <1>3, <2>1, <3>1
    <3>3. task[q][v] < m
      BY <1>0, <1>19, <3>2 DEF Tile
    <3> QED BY <1>7, <2>1, <3>1, <3>2, <3>3
  <2>2. CASE v = w
    <3>1. last # ShardEnd /\ Drawing /\ n < Tasks
      BY <1>13, <1>15, <1>21, <2>2
    <3>2. task'[q][w] = n /\ m = n + 1 /\ n \in Tile /\ n # a
      BY <1>0, <1>4, <1>17, <3>1 DEF Tile
    <3>3. computed'[q][n] = 0
      BY <1>0, <1>3, <1>7, <3>2
    <3> QED BY <1>0, <2>2, <3>2, <3>3
  <2> QED BY <2>1, <2>2
<1>22. ASSUME NEW v \in Worker, NEW u \in Worker, u # v, Active(q, v)', Active(q, u)'
       PROVE  task'[q][u] # task'[q][v]
  <2>1. CASE u # w /\ v # w
    BY <1>3, <1>21, <1>22, <2>1
  <2>2. CASE u = w
    <3>1. task'[q][u] = n /\ task'[q][v] < n /\ task'[q][v] \in Tile
      BY <1>21, <1>22, <2>2
    <3> QED BY <1>0, <3>1 DEF Tile
  <2>3. CASE v = w
    <3>1. task'[q][v] = n /\ task'[q][u] < n /\ task'[q][u] \in Tile
      BY <1>21, <1>22, <2>3
    <3> QED BY <1>0, <3>1 DEF Tile
  <2> QED BY <2>1, <2>2, <2>3
<1>23. ~Drawing => \A v \in Worker : task'[q][v] = v
  BY <1>3, <1>17
<1>24. Ended(q)' # {} => m >= Tasks
  <2>1. CASE last = ShardEnd
    <3>1. Drawing => n >= Tasks
      BY <1>13, <2>1
    <3>2. ~Drawing => n >= Tasks
      BY <1>0, <1>3 DEF Workers
    <3> QED BY <1>0, <1>19, <3>1, <3>2
  <2>2. CASE last # ShardEnd
    <3>1. Ended(q)' = Ended(q)
      BY <1>12, <2>2
    <3> QED BY <1>0, <1>3, <1>19, <3>1
  <2> QED BY <2>1, <2>2
<1>25. m <= Tasks + Cardinality(Ended(q)')
  <2>1. CASE last = ShardEnd
    <3>1. Cardinality(Ended(q)') = Cardinality(Ended(q)) + 1
      BY <1>12, <1>16, <2>1
    <3> QED BY <1>0, <1>3, <1>10, <1>19, <3>1
  <2>2. CASE last # ShardEnd
    <3>1. m = n + 1 /\ n < Tasks /\ Ended(q)' = Ended(q)
      BY <1>12, <1>13, <1>17, <2>2
    <3> QED BY <1>0, <1>10, <3>1
  <2> QED BY <2>1, <2>2
<1>26. Tiles(q)'
  BY <1>8, <1>19, <1>20, <1>21, <1>22, <1>23, <1>24, <1>25 DEF Tiles
<1>27. Polled(q)'
  <2>1. ASSUME NEW v \in Worker, NEW k \in 1 .. R-1, k <= shard'[q][v] PROVE k <= shard[q][v]
    <3>1. CASE v # w
      BY <1>6, <2>1, <3>1
    <3>2. CASE v = w
      BY <1>0, <1>1, <3>2
    <3> QED BY <3>1, <3>2
  <2> QED BY <1>0, <1>1, <1>8, <2>1 DEF Polled
<1> QED
  <2>1. UNCHANGED <<policy, host, launches, recv, ready, comm>>
    BY <1>1
  <2>2. \A r \in Ranks \ {q} :
          /\ shard'[r] = shard[r] /\ task'[r] = task[r]
          /\ counter'[r] = counter[r] /\ computed'[r] = computed[r]
    BY <1>6, <1>7, <1>17
  <2> QED BY <1>2, <1>6, <1>18, <1>26, <1>27, <2>1, <2>2, GemmStep

(* Every step keeps the invariant. *)
LEMMA InvNext == IInv /\ [Next]_vars => IInv'
<1> SUFFICES ASSUME IInv, [Next]_vars PROVE IInv'
  OBVIOUS
<1>1. CASE UNCHANGED vars
  <2>1. UNCHANGED <<policy, host, launches, recv, ready, comm, task, shard, counter, computed>>
    BY <1>1 DEF vars, device
  <2>2. TypeOK /\ TypeOK'
    BY <2>1, PolicyStable DEF IInv, TypeOK
  <2>3. \A r \in Ranks : Own(r)' /\ Polled(r)'
    <3>1. ASSUME NEW r \in Ranks, NEW p \in Ranks
          PROVE  ready'[r][p] \in Nat /\ ready'[r][p] >= ready[r][p]
      BY <2>1, <2>2, Kinds
    <3> QED BY <2>1, <2>2, <3>1, OwnFrame, PolledFrame DEF IInv
  <2>4. \A r, p \in Ranks : Barrier(r, p)'
    <3>1. \A r \in Ranks : Entered(r)' = Entered(r)
      BY <2>1, PolicyStable DEF Entered
    <3>2. \A r \in Ranks : Passed(r)' = Passed(r)
      BY <2>1, <3>1 DEF Passed
    <3> QED BY <3>1, <3>2 DEF IInv, Barrier
  <2>5. ASSUME NEW d \in Ranks, NEW p \in Ranks PROVE Shares(d, p)'
    <3>1. Shares(d, p) /\ launches[d] \in Nat
      BY <2>2, Kinds DEF IInv
    <3>2. \A c \in Comm : Moved(p, c, launches[d] + 1)' = Moved(p, c, launches[d] + 1)
      BY <2>1 DEF Moved, Begun
    <3> QED BY <2>1, <3>1, <3>2, SharesFrame
  <2> QED BY <2>2, <2>3, <2>4, <2>5 DEF IInv
<1>2. CASE Next
  <2>1. PICK r \in Ranks :
          \/ Host(r)
          \/ \E c \in Comm : CommWG(r, c)
          \/ \E w \in Worker : ComputeWG(r, w)
    BY <1>2 DEF Next
  <2>2. CASE Host(r)
    BY <2>2, InvClear, InvLaunch, InvLaunchCompute, InvSynchronize, InvLeave DEF Host
  <2>3. ASSUME NEW c \in Comm, CommWG(r, c) PROVE IInv'
    BY <2>3, InvDispatchComm, InvCopyShare, InvCountShare DEF CommWG
  <2>4. ASSUME NEW w \in Worker, ComputeWG(r, w) PROVE IInv'
    BY <2>4, InvDispatchWorker, InvNextShard, InvFinishTask DEF ComputeWG
  <2> QED BY <2>1, <2>2, <2>3, <2>4
<1> QED BY <1>1, <1>2

(***************************************************************************)
(* What holds of every run.                                                *)
(***************************************************************************)

(* The inductive invariant holds throughout. *)
THEOREM Invariance == Spec => []IInv
<1> QED BY InvInit, InvNext, PTL DEF Spec

(* The variables keep their types: in particular no counter of a peer passes
   the number of its communication workgroups, no tile counter the workgroups
   that can draw from it, and no tile is computed twice in a launch. *)
THEOREM TypeCorrect == Spec => []TypeOK
<1>1. IInv => TypeOK
  BY DEF IInv
<1> QED BY <1>1, Invariance, PTL

(* A compute workgroup past the poll for a shard reads only what was stored for
   its own launch, polled in the kernel or awaited by the hosts between launches. *)
THEOREM WholeShards == Spec => []ReadsWhole
<1> QED BY InvReads, Invariance, PTL

(* A launch that its host has waited for has computed every tile exactly once,
   and its windows have counted every share of every peer. *)
THEOREM CompleteLaunches == Spec => []LaunchComplete
<1> QED BY InvComplete, Invariance, PTL

=============================================================================
