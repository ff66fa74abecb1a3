--------------------------- MODULE FusedA2A_proofs ---------------------------
(***************************************************************************)
(* Proofs about FusedA2A, for every number of ranks, epochs and blocks and *)
(* however few of the blocks are resident.                                 *)
(***************************************************************************)
EXTENDS FusedA2A, TLAPS

(***************************************************************************)
(* The inductive invariant.                                                *)
(***************************************************************************)

(* Of the epochs 0 .. n-1, those that use slot s. *)
Count(n, s) == (n + 1 - s) \div 2

(* Whom a launch has signalled, and how many epochs p has signalled to d. *)
Told(p, d) == \E i \in 0 .. R-2 : i < told[p] /\ Served(p, i) = d
Signalled(p, d) == IF Launched(p) /\ Told(p, d) THEN done[p] + 1 ELSE done[p]

(* How many epochs of p's chunk have landed at d. *)
Delivered(p, d) ==
  IF p = d THEN copied[p]
  ELSE IF \E m \in flight : m.src = p /\ m.dst = d THEN posted[p] - 1 ELSE posted[p]

(* A rank is in no launch or in one, which posts when block 0 enters and signals
   behind the shards of block 0. *)
LaunchOrder(r) ==
  /\ done[r] <= Epochs
  /\ ~Launched(r) => copied[r] = done[r] /\ posted[r] = done[r] /\ \A b \in Block : at[r][b] = Ended
  /\ Launched(r) =>
       /\ done[r] < Epochs
       /\ posted[r] = IF at[r][Leader] = Pending THEN done[r] ELSE done[r] + 1
       /\ at[r][Leader] = Pending => told[r] = 0
       /\ at[r][Leader] \in 0 .. R-1 => told[r] \in {at[r][Leader], at[r][Leader] + 1}
       /\ at[r][Leader] = Ended => told[r] = R - 1

(* What a block has polled has been signalled, and so has all that was computed. *)
Polled(r) ==
  Launched(r) =>
    \A b \in Block, k \in 1 .. R-1 : k <= at[r][b] => Signalled(Part(r, k), r) >= done[r] + 1
Gated(p, r) == p # r => done[r] <= Signalled(p, r)

(* A PUT in flight is of its source's launch and not signalled. *)
FlightOrder ==
  \A m \in flight :
    /\ m.src # m.dst
    /\ m.epoch = done[m.src] /\ posted[m.src] = done[m.src] + 1
    /\ ~Told(m.src, m.dst)

(* A counter counts what has been signalled; a chunk holds the last epoch of its
   slot that has been delivered. *)
ReadyCount(p, d) == \A s \in Slots : ready[d][s][p] = IF p = d THEN 0 ELSE Count(Signalled(p, d), s)
RecvHistory(p, d) ==
  \A k \in {1, 2} : Delivered(p, d) >= k => recv[d][Slot(Delivered(p, d) - k)][p] = Delivered(p, d) - k

IInv ==
  /\ TypeOK
  /\ FlightOrder
  /\ \A r \in Ranks : LaunchOrder(r) /\ Polled(r)
  /\ \A p, d \in Ranks : Gated(p, d) /\ ReadyCount(p, d) /\ RecvHistory(p, d)

(***************************************************************************)
(* Remainders: the shards of a block, the peers block 0 serves, the slots. *)
(***************************************************************************)

(* Quotient and remainder. *)
LEMMA ModDef == ASSUME NEW a \in Int, NEW b \in Nat \ {0}
  PROVE \E q \in Int : a % b \in 0 .. b - 1 /\ a = b * q + (a % b) /\ a \div b = q
<1> DEFINE r == a \div b
           s == a % b
<1>1. r \in Int /\ s \in 0 .. b - 1 /\ a = b * r + s
  BY SMT
<1> HIDE DEF r, s
<1>2. \E q \in Int : s \in 0 .. b - 1 /\ a = b * q + s /\ r = q
  BY <1>1
<1> QED BY <1>2 DEF r, s

(* They are determined by their bounds. *)
LEMMA ModIs ==
  ASSUME NEW a \in Int, NEW b \in Nat \ {0}, NEW q \in Int, b * q <= a, a < b * q + b
  PROVE  a \div b = q /\ a % b = a - b * q
<1> DEFINE r == a \div b
           s == a % b
<1>1. r \in Int /\ s \in 0 .. b - 1 /\ a = b * r + s
  BY SMT
<1> HIDE DEF r, s
<1>2. r = q
  <2>1. ASSUME r < q PROVE FALSE
    <3>1. b * (q - r) >= b
      BY <1>1, <2>1, SMT
    <3> QED BY <1>1, <3>1, SMT
  <2>2. ASSUME r > q PROVE FALSE
    <3>1. b * (r - q) >= b
      BY <1>1, <2>2, SMT
    <3> QED BY <1>1, <3>1, SMT
  <2> QED BY <1>1, <2>1, <2>2, SMT
<1> QED BY <1>1, <1>2, SMT DEF r, s

(* Within one modulus on either side, a remainder is an addition. *)
LEMMA Wrap ==
  ASSUME NEW n \in Nat \ {0}, NEW a \in Int, a < 2 * n, -n <= a
  PROVE  a % n = IF a < 0 THEN a + n ELSE IF a < n THEN a ELSE a - n
<1>1. CASE a < 0
  <2>1. PICK q \in Int : q = -1
    OBVIOUS
  <2>2. n * q = -n
    BY <2>1
  <2>3. n * q <= a /\ a < n * q + n
    BY <1>1, <2>2
  <2>4. a % n = a - n * q
    BY <2>3, ModIs
  <2> DEFINE s == a % n
  <2>5. s = a - n * q
    BY <2>4
  <2> HIDE DEF s
  <2>6. s = a + n
    BY <2>2, <2>5
  <2> QED BY <1>1, <2>6 DEF s
<1>2. CASE 0 <= a /\ a < n
  <2>1. PICK q \in Int : q = 0
    OBVIOUS
  <2>2. n * q = 0
    BY <2>1
  <2>3. n * q <= a /\ a < n * q + n
    BY <1>2, <2>2
  <2>4. a % n = a - n * q
    BY <2>3, ModIs
  <2> QED BY <1>2, <2>2, <2>4
<1>3. CASE n <= a
  <2>1. PICK q \in Int : q = 1
    OBVIOUS
  <2>2. n * q = n
    BY <2>1
  <2>3. n * q <= a /\ a < n * q + n
    BY <1>3, <2>2
  <2>4. a % n = a - n * q
    BY <2>3, ModIs
  <2> QED BY <1>3, <2>2, <2>4
<1> QED BY <1>1, <1>2, <1>3

(* A block takes its own shard first, then that of every peer. *)
LEMMA Parts ==
  ASSUME NEW r \in Ranks
  PROVE  /\ \A k \in 0 .. R-1 : Part(r, k) \in Ranks
         /\ Part(r, 0) = r
         /\ \A k \in 1 .. R-1 : Part(r, k) # r
         /\ \A p \in Ranks : p # r => \E k \in 1 .. R-1 : Part(r, k) = p
<1>0. R \in Nat \ {0} /\ r \in 0 .. R-1
  BY RAssumption DEF Ranks
<1>1. ASSUME NEW k \in 0 .. R-1 PROVE Part(r, k) = IF r + k < R THEN r + k ELSE r + k - R
  <2>1. r + k \in Int /\ r + k < 2 * R /\ -R <= r + k /\ ~ (r + k < 0)
    BY <1>0
  <2>2. (r + k) % R = IF r + k < 0 THEN (r + k) + R ELSE IF r + k < R THEN r + k ELSE (r + k) - R
    BY <1>0, <2>1, Wrap
  <2> DEFINE s == (r + k) % R
  <2>3. Part(r, k) = s
    BY DEF Part
  <2>4. s = IF r + k < 0 THEN (r + k) + R ELSE IF r + k < R THEN r + k ELSE (r + k) - R
    BY <2>2
  <2> HIDE DEF s
  <2> QED BY <1>0, <2>1, <2>3, <2>4
<1>2. ASSUME NEW p \in Ranks, p # r PROVE \E k \in 1 .. R-1 : Part(r, k) = p
  <2> DEFINE k == IF r < p THEN p - r ELSE p - r + R
  <2>1. p \in 0 .. R-1 /\ k \in 1 .. R-1 /\ (IF r + k < R THEN r + k ELSE r + k - R) = p
    BY <1>0, <1>2 DEF Ranks
  <2>2. k \in 0 .. R-1
    BY <1>0, <2>1
  <2>3. Part(r, k) = p
    <3> HIDE DEF k
    <3> QED BY <1>1, <2>1, <2>2
  <2> QED BY <2>1, <2>3
<1>3. \A k \in 0 .. R-1 : Part(r, k) \in 0 .. R-1
  BY <1>0, <1>1
<1>4. Part(r, 0) = r
  <2>1. 0 \in 0 .. R-1
    BY <1>0
  <2> QED BY <1>0, <1>1, <2>1
<1>5. \A k \in 1 .. R-1 : Part(r, k) # r
  BY <1>0, <1>1
<1> QED BY <1>2, <1>3, <1>4, <1>5 DEF Ranks

(* Block 0 serves every peer, and no peer twice. *)
LEMMA ServedPeers ==
  ASSUME NEW r \in Ranks
  PROVE  /\ \A i \in 0 .. R-2 : Served(r, i) \in Ranks /\ Served(r, i) # r
         /\ \A i, j \in 0 .. R-2 : Served(r, i) = Served(r, j) => i = j
         /\ \A p \in Ranks : p # r => \E i \in 0 .. R-2 : Served(r, i) = p
<1>0. R \in Nat \ {0} /\ R >= 2 /\ r \in 0 .. R-1
  BY RAssumption DEF Ranks
<1>1. ASSUME NEW i \in 0 .. R-2
      PROVE  Served(r, i) = IF r - 1 - i < 0 THEN r - 1 - i + R ELSE r - 1 - i
  <2> DEFINE a == r - 1 - i + R
             s == a % R
  <2>1. a \in Int /\ a < 2 * R /\ -R <= a /\ ~ (a < 0) /\ i \in Int
    BY <1>0
  <2>2. Served(r, i) = s
    BY DEF Served
  <2>3. a = r - 1 - i + R
    OBVIOUS
  <2> HIDE DEF a
  <2>4. s = IF a < 0 THEN a + R ELSE IF a < R THEN a ELSE a - R
    BY <1>0, <2>1, Wrap
  <2> HIDE DEF s
  <2> QED BY <1>0, <2>1, <2>2, <2>3, <2>4
<1>2. ASSUME NEW p \in Ranks, p # r PROVE \E i \in 0 .. R-2 : Served(r, i) = p
  <2> DEFINE i == IF p < r THEN r - 1 - p ELSE r - 1 - p + R
  <2>1. p \in 0 .. R-1 /\ i \in 0 .. R-2 /\ (IF r - 1 - i < 0 THEN r - 1 - i + R ELSE r - 1 - i) = p
    BY <1>0, <1>2 DEF Ranks
  <2>2. Served(r, i) = p
    <3> HIDE DEF i
    <3> QED BY <1>1, <2>1
  <2> QED BY <2>1, <2>2
<1>3. \A i \in 0 .. R-2 : Served(r, i) \in 0 .. R-1 /\ Served(r, i) # r
  BY <1>0, <1>1
<1>4. \A i, j \in 0 .. R-2 : Served(r, i) = Served(r, j) => i = j
  BY <1>0, <1>1
<1> QED BY <1>2, <1>3, <1>4 DEF Ranks

(* Every second epoch uses the same slot. *)
LEMMA Parity ==
  ASSUME NEW e \in Int
  PROVE  Slot(e) \in Slots /\ Slot(e + 1) # Slot(e) /\ Slot(e - 1) # Slot(e)
BY DEF Slot, Slots

(* One more epoch adds one to the count of its own slot. *)
LEMMA CountStep ==
  ASSUME NEW n \in Nat, NEW s \in Slots
  PROVE  /\ Count(n, s) \in Nat
         /\ Count(n + 1, s) = IF s = Slot(n) THEN Count(n, s) + 1 ELSE Count(n, s)
BY DEF Count, Slot, Slots

(* A counter at the target of epoch e stands for at least e + 1 epochs. *)
LEMMA CountTarget ==
  ASSUME NEW n \in Nat, NEW e \in Nat, Count(n, Slot(e)) >= Target(e)
  PROVE  n >= e + 1
BY DEF Count, Slot, Target

(* Nothing has been counted before the first epoch. *)
LEMMA CountZero == \A s \in Slots : Count(0, s) = 0
BY DEF Count, Slots

(***************************************************************************)
(* What the invariant says of two ranks.                                   *)
(***************************************************************************)

(* The values of one rank. *)
LEMMA Kinds ==
  ASSUME TypeOK, NEW r \in Ranks
  PROVE  /\ posted[r] \in Nat /\ copied[r] \in Nat /\ done[r] \in Nat
         /\ told[r] \in 0 .. R-1 /\ told[r] \in Int
         /\ \A b \in Block : at[r][b] \in -1 .. R /\ at[r][b] \in Int
         /\ \A m \in flight : m.src \in Ranks /\ m.dst \in Ranks /\ m.epoch \in Nat
                              /\ m = [src |-> m.src, dst |-> m.dst, epoch |-> m.epoch]
<1>1. posted[r] \in Nat /\ copied[r] \in Nat /\ done[r] \in Nat
  BY DEF TypeOK
<1>2. told[r] \in 0 .. R-1 /\ R \in Nat
  BY RAssumption DEF TypeOK
<1>3. told[r] \in Int
  BY <1>2
<1>4. \A b \in Block : at[r][b] \in -1 .. R
  BY DEF TypeOK, Pending, Ended
<1>5. \A b \in Block : at[r][b] \in Int
  BY <1>2, <1>4
<1>6. flight \subseteq [src : Ranks, dst : Ranks, epoch : Nat]
  BY DEF TypeOK, FabricType, Put
<1>7. \A m \in flight : m.src \in Ranks /\ m.dst \in Ranks /\ m.epoch \in Nat
                        /\ m = [src |-> m.src, dst |-> m.dst, epoch |-> m.epoch]
  BY <1>6
<1> QED BY <1>1, <1>2, <1>3, <1>4, <1>5, <1>7

(* Block 0 is a block, and every rank has a peer. *)
LEMMA Leading == Leader \in Block /\ Blocks \in Nat /\ Blocks >= 1
BY BlocksAssumption DEF Leader, Block

(* A PUT that may still land is of its source's launch, whose block 0 has
   entered and not signalled it. *)
LEMMA InFlight ==
  ASSUME IInv, NEW m \in flight
  PROVE  /\ m.src \in Ranks /\ m.dst \in Ranks /\ m.src # m.dst
         /\ m.epoch = done[m.src] /\ posted[m.src] = done[m.src] + 1 /\ ~Told(m.src, m.dst)
         /\ Launched(m.src) /\ done[m.src] \in Nat
         /\ m = [src |-> m.src, dst |-> m.dst, epoch |-> m.epoch]
<1>1. TypeOK /\ 0 \in Ranks
  BY RAssumption DEF IInv, Ranks
<1>2. m.src \in Ranks /\ m.dst \in Ranks /\ m = [src |-> m.src, dst |-> m.dst, epoch |-> m.epoch]
  BY <1>1, Kinds
<1>3. /\ m.src # m.dst
      /\ m.epoch = done[m.src] /\ posted[m.src] = done[m.src] + 1 /\ ~Told(m.src, m.dst)
  BY DEF IInv, FlightOrder
<1>4. LaunchOrder(m.src) /\ done[m.src] \in Nat
  BY <1>1, <1>2, Kinds DEF IInv
<1>5. posted[m.src] # done[m.src]
  BY <1>3, <1>4
<1>6. Launched(m.src)
  BY <1>4, <1>5 DEF LaunchOrder
<1> QED BY <1>2, <1>3, <1>4, <1>6

(* A launch that has signalled anybody has posted. *)
LEMMA TellsAfterPost ==
  ASSUME IInv, NEW p \in Ranks, Launched(p), NEW d \in Ranks, Told(p, d)
  PROVE  posted[p] = done[p] + 1
<1>1. LaunchOrder(p) /\ TypeOK /\ told[p] \in Int
  BY Kinds DEF IInv
<1>2. told[p] # 0
  <2>1. PICK i \in 0 .. R-2 : i < told[p]
    BY DEF Told
  <2> QED BY <1>1, <2>1
<1> QED BY <1>1, <1>2 DEF LaunchOrder

(* How far signals, data and PUTs of a source may be apart. *)
LEMMA CountsOf ==
  ASSUME IInv, NEW p \in Ranks, NEW d \in Ranks
  PROVE  /\ done[p] \in Nat /\ Signalled(p, d) \in Nat /\ Delivered(p, d) \in Nat
         /\ Signalled(p, d) \in {done[p], done[p] + 1}
         /\ posted[p] \in {done[p], done[p] + 1} /\ posted[p] <= Epochs
         /\ Delivered(p, d) \in {done[p], done[p] + 1}
         /\ p # d => Signalled(p, d) <= Delivered(p, d) /\ Delivered(p, d) <= posted[p]
<1>1. TypeOK /\ LaunchOrder(p) /\ done[p] \in Nat /\ posted[p] \in Nat /\ copied[p] \in Nat /\ Epochs \in Nat
  BY Kinds, EpochsAssumption DEF IInv
<1>2. Signalled(p, d) \in {done[p], done[p] + 1}
  BY DEF Signalled
<1>3. posted[p] \in {done[p], done[p] + 1} /\ copied[p] \in {done[p], done[p] + 1} /\ posted[p] <= Epochs
  <2>1. CASE Launched(p)
    <3>1. copied[p] = done[p] + 1
      BY <2>1 DEF Launched
    <3> QED BY <1>1, <2>1, <3>1 DEF LaunchOrder
  <2>2. CASE ~Launched(p)
    BY <1>1, <2>2 DEF LaunchOrder
  <2> QED BY <2>1, <2>2
<1>4. CASE p = d
  <2>1. Delivered(p, d) = copied[p]
    BY <1>4 DEF Delivered
  <2> QED BY <1>1, <1>2, <1>3, <1>4, <2>1
<1>5. CASE p # d
  <2>1. CASE \E m \in flight : m.src = p /\ m.dst = d
    <3>1. posted[p] = done[p] + 1 /\ ~Told(p, d)
      BY <2>1, InFlight
    <3>2. Delivered(p, d) = posted[p] - 1 /\ Signalled(p, d) = done[p]
      BY <1>5, <2>1, <3>1 DEF Delivered, Signalled
    <3>3. Delivered(p, d) = done[p]
      BY <1>1, <3>1, <3>2
    <3> QED BY <1>1, <1>2, <1>3, <3>1, <3>2, <3>3
  <2>2. CASE ~ \E m \in flight : m.src = p /\ m.dst = d
    <3>1. Delivered(p, d) = posted[p]
      BY <1>5, <2>2 DEF Delivered
    <3>2. Signalled(p, d) # done[p] => posted[p] = done[p] + 1
      BY TellsAfterPost DEF Signalled
    <3> QED BY <1>1, <1>2, <1>3, <3>1, <3>2
  <2> QED BY <2>1, <2>2
<1> QED BY <1>4, <1>5

(* No rank posts more than two epochs past what another has computed. *)
LEMMA Skew ==
  ASSUME IInv, NEW p \in Ranks, NEW r \in Ranks
  PROVE  posted[p] <= done[r] + 2
<1>1. /\ done[p] \in Nat /\ done[r] \in Nat /\ posted[p] \in {done[p], done[p] + 1}
      /\ Signalled(r, p) \in {done[r], done[r] + 1}
  BY CountsOf
<1>2. p # r => done[p] <= Signalled(r, p)
  BY DEF IInv, Gated
<1> QED BY <1>1, <1>2

(* A block that is under way belongs to a launch. *)
LEMMA BusyLaunched ==
  ASSUME IInv, NEW r \in Ranks, NEW b \in Block, at[r][b] # Ended
  PROVE  Launched(r)
BY DEF IInv, LaunchOrder

(* A poll that succeeds has seen the signal of its epoch. *)
LEMMA PollSees ==
  ASSUME IInv, NEW r \in Ranks, NEW p \in Ranks, p # r, Arrived(r, p, done[r])
  PROVE  Signalled(p, r) >= done[r] + 1
<1> DEFINE e == done[r]
           n == Signalled(p, r)
<1>1. e \in Nat /\ n \in Nat /\ Slot(e) \in Slots
  BY CountsOf, Parity
<1>2. ready[r][Slot(e)][p] = Count(n, Slot(e))
  BY <1>1 DEF IInv, ReadyCount
<1>3. Count(n, Slot(e)) >= Target(e)
  BY <1>2 DEF Arrived
<1> HIDE DEF e, n
<1>4. n >= e + 1
  BY <1>1, <1>3, CountTarget
<1> QED BY <1>4 DEF e, n

(* What is delivered, but not two epochs later, is there. *)
LEMMA SlotHolds ==
  ASSUME IInv, NEW r \in Ranks, NEW p \in Ranks, NEW e \in Nat, Delivered(p, r) \in {e + 1, e + 2}
  PROVE  recv[r][Slot(e)][p] = e
<1>1. PICK k \in {1, 2} : Delivered(p, r) = e + k
  OBVIOUS
<1>2. Delivered(p, r) >= k /\ Delivered(p, r) - k = e
  BY <1>1
<1>3. recv[r][Slot(Delivered(p, r) - k)][p] = Delivered(p, r) - k
  BY <1>2 DEF IInv, RecvHistory
<1> QED BY <1>2, <1>3

(* A block reads the epoch of its launch, and no PUT may change it. *)
LEMMA InvReads == IInv => ReadsCurrent
<1> SUFFICES ASSUME IInv, NEW r \in Ranks, NEW b \in Busy(r)
             PROVE  Holds(r, Part(r, at[r][b]), done[r])
  BY DEF ReadsCurrent, Epoch
<1> DEFINE k == at[r][b]
           p == Part(r, k)
           e == done[r]
<1>1. b \in Block /\ k # Pending /\ k # Ended
  BY DEF Busy
<1>2. k \in 0 .. R-1 /\ TypeOK /\ e \in Nat /\ Launched(r) /\ R \in Nat
  <2>1. TypeOK
    BY DEF IInv
  <2>2. k \in -1 .. R /\ k # -1 /\ k # R /\ R \in Nat /\ e \in Nat
    BY <1>1, <2>1, Kinds, RAssumption DEF Pending, Ended
  <2>3. Launched(r)
    BY <1>1, BusyLaunched
  <2> HIDE DEF k, e
  <2> QED BY <2>1, <2>2, <2>3
<1>3. p \in Ranks /\ (k = 0 => p = r) /\ (k \in 1 .. R-1 => p # r)
  <2> HIDE DEF k
  <2> QED BY <1>2, Parts
<1> HIDE DEF p
<1>4. k # 0 => p # r /\ Signalled(p, r) >= e + 1
  <2> SUFFICES ASSUME k # 0 PROVE p # r /\ Signalled(p, r) >= e + 1
    OBVIOUS
  <2>1. k \in 1 .. R-1 /\ k <= at[r][b]
    <3>1. k <= at[r][b] /\ k \in Int
      BY <1>2
    <3> HIDE DEF k
    <3> QED BY <1>2, <3>1
  <2>2. Polled(r)
    BY DEF IInv
  <2>3. Signalled(Part(r, k), r) >= e + 1
    <3> HIDE DEF k
    <3> QED BY <1>1, <1>2, <2>1, <2>2 DEF Polled
  <2> QED BY <1>3, <2>1, <2>3 DEF p
<1>5. Delivered(p, r) \in {e + 1, e + 2}
  <2>1. CASE p = r
    <3>1. Delivered(p, r) = copied[r] /\ copied[r] = e + 1
      BY <1>2, <2>1 DEF Delivered, Launched
    <3> QED BY <3>1
  <2>2. CASE p # r
    <3>1. Signalled(p, r) >= e + 1 /\ posted[p] <= e + 2
      BY <1>3, <1>4, <2>2, Skew
    <3>2. Signalled(p, r) <= Delivered(p, r) /\ Delivered(p, r) <= posted[p]
          /\ Signalled(p, r) \in Nat /\ Delivered(p, r) \in Nat /\ posted[p] \in Nat
      BY <1>2, <1>3, <2>2, CountsOf, Kinds
    <3> HIDE DEF e
    <3> QED BY <1>2, <3>1, <3>2
  <2> QED BY <2>1, <2>2
<1>6. recv[r][Slot(e)][p] = e
  <2> HIDE DEF e
  <2> QED BY <1>2, <1>3, <1>5, SlotHolds
<1>7. ASSUME NEW m \in flight, m.dst = r, m.src = p PROVE Slot(m.epoch) # Slot(e)
  <2>1. p # r /\ m.epoch = done[p] /\ posted[p] = done[p] + 1 /\ ~Told(p, r) /\ done[p] \in Nat
    BY <1>7, InFlight
  <2>2. Signalled(p, r) = done[p] /\ Signalled(p, r) >= e + 1
    BY <1>3, <1>4, <2>1 DEF Signalled
  <2>3. posted[p] <= e + 2
    BY <1>3, Skew
  <2>4. done[p] = e + 1
    <3> HIDE DEF e
    <3> QED BY <1>2, <2>1, <2>2, <2>3
  <2> HIDE DEF e
  <2> QED BY <1>2, <2>1, <2>4, Parity
<1> QED BY <1>6, <1>7 DEF Holds, p

(* At the end the counters stand for all epochs. *)
LEMMA InvFinal == IInv => FinalCounts
<1> SUFFICES ASSUME IInv, NEW r \in Ranks, done[r] = Epochs, NEW s \in Slots, NEW p \in Ranks
             PROVE  ready[r][s][p] = IF p = r THEN 0 ELSE (Epochs + 1 - s) \div 2
  BY DEF FinalCounts
<1>1. p # r => Signalled(p, r) = Epochs
  <2>1. p # r => done[r] <= Signalled(p, r)
    BY DEF IInv, Gated
  <2>2. p # r => Signalled(p, r) <= Delivered(p, r) /\ Delivered(p, r) <= posted[p]
    BY CountsOf
  <2>3. posted[p] <= Epochs /\ Signalled(p, r) \in Nat /\ Delivered(p, r) \in Nat
        /\ posted[p] \in Nat /\ Epochs \in Nat
    BY CountsOf, Kinds, EpochsAssumption DEF IInv
  <2> QED BY <2>1, <2>2, <2>3
<1>2. ready[r][s][p] = IF p = r THEN 0 ELSE Count(Signalled(p, r), s)
  BY DEF IInv, ReadyCount
<1> QED BY <1>1, <1>2 DEF Count

(***************************************************************************)
(* The first state, and what a step leaves alone.                          *)
(***************************************************************************)

(* The invariant holds at the start. *)
LEMMA InvInit == Init => IInv
<1> SUFFICES ASSUME Init PROVE IInv
  OBVIOUS
<1>1. R \in Nat /\ R >= 2 /\ Epochs \in Nat /\ Leader \in Block
  BY RAssumption, EpochsAssumption, Leading
<1>2. /\ flight = {} /\ recv = [d \in Ranks |-> [s \in Slots |-> [p \in Ranks |-> Empty]]]
      /\ ready = [d \in Ranks |-> [s \in Slots |-> [p \in Ranks |-> 0]]]
      /\ posted = [r \in Ranks |-> 0] /\ copied = [r \in Ranks |-> 0] /\ told = [r \in Ranks |-> 0]
      /\ at = [r \in Ranks |-> [b \in Block |-> Ended]] /\ done = [r \in Ranks |-> 0]
  BY DEF Init, FabricInit
<1>3. TypeOK
  <2>1. FabricType
    BY <1>2 DEF FabricType, Empty
  <2>2. 0 \in 0 .. R-1 /\ Ended \in Pending .. Ended
    BY <1>1 DEF Pending, Ended
  <2> QED BY <1>2, <2>1, <2>2 DEF TypeOK
<1>4. ASSUME NEW r \in Ranks
      PROVE  /\ ~Launched(r) /\ copied[r] = 0 /\ posted[r] = 0 /\ done[r] = 0
             /\ \A b \in Block : at[r][b] = Ended
  BY <1>2 DEF Launched
<1>5. FlightOrder
  BY <1>2 DEF FlightOrder
<1>6. ASSUME NEW r \in Ranks PROVE LaunchOrder(r) /\ Polled(r)
  BY <1>1, <1>4 DEF LaunchOrder, Polled
<1>7. ASSUME NEW p \in Ranks, NEW d \in Ranks PROVE Gated(p, d) /\ ReadyCount(p, d) /\ RecvHistory(p, d)
  <2>1. Signalled(p, d) = 0 /\ Delivered(p, d) = 0
    BY <1>2, <1>4 DEF Signalled, Delivered
  <2>2. ReadyCount(p, d)
    BY <1>2, <2>1, CountZero DEF ReadyCount
  <2> QED BY <1>4, <2>1, <2>2 DEF Gated, RecvHistory
<1> QED BY <1>3, <1>5, <1>6, <1>7 DEF IInv

(* The place of a rank in its launch follows its own variables. *)
LEMMA LaunchFrame ==
  ASSUME NEW r \in Ranks, LaunchOrder(r), done'[r] = done[r], copied'[r] = copied[r],
         posted'[r] = posted[r], told'[r] = told[r], at'[r] = at[r]
  PROVE  LaunchOrder(r)'
<1>1. Launched(r)' = Launched(r)
  BY DEF Launched
<1> QED BY <1>1 DEF LaunchOrder

(* So do its signals. *)
LEMMA SignalFrame ==
  ASSUME NEW p \in Ranks, NEW d \in Ranks, done'[p] = done[p], copied'[p] = copied[p], told'[p] = told[p]
  PROVE  Signalled(p, d)' = Signalled(p, d) /\ Told(p, d)' = Told(p, d)
<1>1. Launched(p)' = Launched(p) /\ Told(p, d)' = Told(p, d)
  BY DEF Launched, Told
<1> QED BY <1>1 DEF Signalled

(* What a rank has polled stays signalled. *)
LEMMA PolledFrame ==
  ASSUME NEW r \in Ranks, Polled(r), done'[r] = done[r], done[r] \in Nat, copied'[r] = copied[r], at'[r] = at[r],
         \A p \in Ranks : p # r => Signalled(p, r) \in Nat /\ Signalled(p, r)' \in Nat
                                   /\ Signalled(p, r)' >= Signalled(p, r)
  PROVE  Polled(r)'
<1>1. Launched(r)' = Launched(r)
  BY DEF Launched
<1> SUFFICES ASSUME Launched(r), NEW b \in Block, NEW k \in 1 .. R-1, k <= at[r][b]
             PROVE  Signalled(Part(r, k), r)' >= done[r] + 1
  BY <1>1 DEF Polled
<1> DEFINE p == Part(r, k)
<1>2. p \in Ranks /\ p # r
  <2>1. k \in 0 .. R-1
    BY RAssumption
  <2> QED BY <2>1, Parts
<1>3. Signalled(p, r) >= done[r] + 1
  BY DEF Polled
<1> HIDE DEF p
<1>4. Signalled(p, r)' >= done[r] + 1
  BY <1>2, <1>3
<1> QED BY <1>4 DEF p

(* A window that gets nothing keeps its history. *)
LEMMA RecvFrame ==
  ASSUME NEW p \in Ranks, NEW d \in Ranks, RecvHistory(p, d), Delivered(p, d) \in Nat,
         Delivered(p, d)' = Delivered(p, d), \A s \in Slots : recv'[d][s][p] = recv[d][s][p]
  PROVE  RecvHistory(p, d)'
<1> DEFINE n == Delivered(p, d)
<1>1. ASSUME NEW k \in {1, 2}, n >= k PROVE recv'[d][Slot(n - k)][p] = n - k
  <2>1. n - k \in Int
    OBVIOUS
  <2>2. Slot(n - k) \in Slots
    BY <2>1, Parity
  <2>3. recv[d][Slot(n - k)][p] = n - k
    BY <1>1 DEF RecvHistory
  <2> QED BY <2>2, <2>3
<1> QED BY <1>1 DEF RecvHistory

(* A window that gets the next epoch keeps the last one in its other slot. *)
LEMMA RecvNext ==
  ASSUME NEW p \in Ranks, NEW d \in Ranks, RecvHistory(p, d), NEW e \in Nat, Delivered(p, d) = e,
         Delivered(p, d)' = e + 1, recv'[d][Slot(e)][p] = e,
         \A s \in Slots : s # Slot(e) => recv'[d][s][p] = recv[d][s][p]
  PROVE  RecvHistory(p, d)'
<1>1. ASSUME NEW k \in {1, 2}, e + 1 >= k PROVE recv'[d][Slot((e + 1) - k)][p] = (e + 1) - k
  <2>1. CASE k = 1
    <3>1. (e + 1) - k = e
      BY <2>1
    <3> QED BY <3>1
  <2>2. CASE k = 2
    <3>1. (e + 1) - k = e - 1 /\ e >= 1 /\ e - 1 \in Int
      BY <1>1, <2>2
    <3>2. recv[d][Slot(e - 1)][p] = e - 1
      BY <3>1 DEF RecvHistory
    <3>3. Slot(e - 1) \in Slots /\ Slot(e - 1) # Slot(e)
      BY <3>1, Parity
    <3> QED BY <3>1, <3>2, <3>3
  <2> QED BY <2>1, <2>2
<1> QED BY <1>1 DEF RecvHistory

(* A step that signals nobody and finishes no launch keeps what depends on the
   signals, whoever's block advances. *)
LEMMA SilentStep ==
  ASSUME IInv, ready' = ready, done' = done,
         \A p, d \in Ranks : p # d => Signalled(p, d)' = Signalled(p, d)
  PROVE  /\ \A p, d \in Ranks : Gated(p, d)' /\ ReadyCount(p, d)'
         /\ \A r \in Ranks : copied'[r] = copied[r] /\ at'[r] = at[r] => Polled(r)'
<1>1. ASSUME NEW p \in Ranks, NEW d \in Ranks PROVE Gated(p, d)' /\ ReadyCount(p, d)'
  <2>1. Gated(p, d) /\ ReadyCount(p, d)
    BY DEF IInv
  <2>2. Gated(p, d)'
    BY <2>1 DEF Gated
  <2>3. ReadyCount(p, d)'
    BY <2>1 DEF ReadyCount
  <2> QED BY <2>2, <2>3
<1>2. ASSUME NEW r \in Ranks, copied'[r] = copied[r], at'[r] = at[r] PROVE Polled(r)'
  <2>1. \A p \in Ranks : p # r => Signalled(p, r) \in Nat /\ Signalled(p, r)' \in Nat
                                  /\ Signalled(p, r)' >= Signalled(p, r)
    BY CountsOf
  <2>2. Polled(r) /\ done'[r] = done[r] /\ done[r] \in Nat
    BY CountsOf DEF IInv
  <2> QED BY <1>2, <2>1, <2>2, PolledFrame
<1> QED BY <1>1, <1>2

(***************************************************************************)
(* The steps of the stream.                                                *)
(***************************************************************************)

(* The stream copies the local chunk and launches the kernel. *)
LEMMA InvPrepare == ASSUME IInv, NEW q \in Ranks, Prepare(q) PROVE IInv'
<1> DEFINE e == done[q]
<1>0. TypeOK /\ LaunchOrder(q) /\ e \in Nat /\ Leader \in Block /\ Slot(e) \in Slots /\ R \in Nat /\ R >= 2
  BY Kinds, Leading, Parity, RAssumption DEF IInv
<1>1. /\ ~Launched(q) /\ e < Epochs
      /\ recv' = [recv EXCEPT ![q][Slot(e)][q] = e]
      /\ copied' = [copied EXCEPT ![q] = copied[q] + 1]
      /\ told' = [told EXCEPT ![q] = 0]
      /\ at' = [at EXCEPT ![q] = [b \in Block |-> Pending]]
      /\ flight' = flight /\ ready' = ready /\ posted' = posted /\ done' = done
  BY DEF Prepare, CopySelf, Epoch
<1>2. copied[q] = e /\ posted[q] = e
  BY <1>0, <1>1 DEF LaunchOrder
<1>3. /\ copied'[q] = e + 1 /\ told'[q] = 0 /\ \A b \in Block : at'[q][b] = Pending
      /\ \A r \in Ranks : r # q => copied'[r] = copied[r] /\ told'[r] = told[r] /\ at'[r] = at[r]
  BY <1>0, <1>1, <1>2 DEF TypeOK
<1>4. /\ recv' \in [Ranks -> [Slots -> [Ranks -> Nat \cup {Empty}]]]
      /\ recv'[q][Slot(e)][q] = e
      /\ \A d, p \in Ranks, s \in Slots : ~(d = q /\ p = q /\ s = Slot(e)) => recv'[d][s][p] = recv[d][s][p]
  <2>1. recv \in [Ranks -> [Slots -> [Ranks -> Nat \cup {Empty}]]] /\ recv' = [recv EXCEPT ![q][Slot(e)][q] = e]
    BY <1>0, <1>1 DEF TypeOK, FabricType
  <2> HIDE DEF e
  <2> QED BY <1>0, <2>1
<1>5. TypeOK'
  <2>1. FabricType'
    BY <1>0, <1>1, <1>4 DEF TypeOK, FabricType
  <2>2. copied' \in [Ranks -> Nat] /\ told' \in [Ranks -> 0 .. R-1]
    <3>1. copied[q] + 1 \in Nat /\ 0 \in 0 .. R-1
      BY <1>0, <1>2
    <3> QED BY <1>0, <1>1, <3>1 DEF TypeOK
  <2>3. at' \in [Ranks -> [Block -> Pending .. Ended]]
    <3>1. Pending \in Pending .. Ended
      BY <1>0 DEF Pending, Ended
    <3> QED BY <1>0, <1>1, <3>1 DEF TypeOK
  <2> QED BY <1>0, <1>1, <2>1, <2>2, <2>3 DEF TypeOK
<1>6. Launched(q)' /\ \A d \in Ranks : ~Told(q, d)'
  <2>1. Launched(q)'
    BY <1>1, <1>3 DEF Launched
  <2>2. \A i \in 0 .. R-2 : ~(i < 0)
    BY <1>0
  <2> QED BY <1>3, <2>1, <2>2 DEF Told
<1>7. ASSUME NEW p \in Ranks, NEW d \in Ranks PROVE Signalled(p, d)' = Signalled(p, d)
  <2>1. CASE p = q
    BY <1>1, <1>6, <2>1 DEF Signalled
  <2>2. CASE p # q
    BY <1>1, <1>3, <2>2, SignalFrame
  <2> QED BY <2>1, <2>2
<1>8. /\ \A p, d \in Ranks : Gated(p, d)' /\ ReadyCount(p, d)'
      /\ \A r \in Ranks : copied'[r] = copied[r] /\ at'[r] = at[r] => Polled(r)'
  BY <1>1, <1>7, SilentStep
<1>9. FlightOrder'
  <2>1. ASSUME NEW m \in flight
        PROVE  /\ m.src # m.dst /\ m.epoch = done[m.src] /\ posted[m.src] = done[m.src] + 1
               /\ ~Told(m.src, m.dst)'
    <3>1. /\ m.src \in Ranks /\ m.dst \in Ranks /\ m.src # m.dst /\ Launched(m.src)
          /\ m.epoch = done[m.src] /\ posted[m.src] = done[m.src] + 1 /\ ~Told(m.src, m.dst)
      BY InFlight
    <3>2. m.src # q
      BY <1>1, <3>1
    <3>3. told'[m.src] = told[m.src]
      BY <1>3, <3>1, <3>2
    <3>4. Told(m.src, m.dst)' = Told(m.src, m.dst)
      BY <3>3 DEF Told
    <3> QED BY <3>1, <3>4
  <2> QED BY <1>1, <2>1 DEF FlightOrder
<1>10. ASSUME NEW r \in Ranks PROVE LaunchOrder(r)' /\ Polled(r)'
  <2>1. CASE r = q
    <3>1. LaunchOrder(q)'
      <4>1. done[q] <= Epochs /\ at'[q][Leader] = Pending
        BY <1>0, <1>3 DEF LaunchOrder
      <4>2. Pending \notin 0 .. R-1 /\ Pending # Ended
        BY <1>0 DEF Pending, Ended
      <4> QED BY <1>1, <1>2, <1>3, <1>6, <4>1, <4>2 DEF LaunchOrder
    <3>2. \A b \in Block, k \in 1 .. R-1 : ~(k <= at'[q][b])
      BY <1>0, <1>3 DEF Pending
    <3>3. Polled(q)'
      BY <3>2 DEF Polled
    <3> QED BY <2>1, <3>1, <3>3
  <2>2. CASE r # q
    BY <1>1, <1>3, <1>8, <2>2, LaunchFrame DEF IInv
  <2> QED BY <2>1, <2>2
<1>11. ASSUME NEW p \in Ranks, NEW d \in Ranks PROVE RecvHistory(p, d)'
  <2>1. RecvHistory(p, d) /\ Delivered(p, d) \in Nat
    BY CountsOf DEF IInv
  <2>2. CASE p = q /\ d = q
    <3>1. Delivered(q, q) = e /\ Delivered(q, q)' = e + 1
      BY <1>2, <1>3 DEF Delivered
    <3>2. recv'[q][Slot(e)][q] = e /\ \A s \in Slots : s # Slot(e) => recv'[q][s][q] = recv[q][s][q]
      BY <1>4
    <3>3. RecvHistory(q, q)
      BY <2>1, <2>2
    <3>4. PICK k \in Nat : k = e
      BY <1>0
    <3> HIDE DEF e
    <3>5. Delivered(q, q) = k /\ Delivered(q, q)' = k + 1 /\ recv'[q][Slot(k)][q] = k
          /\ \A s \in Slots : s # Slot(k) => recv'[q][s][q] = recv[q][s][q]
      BY <3>1, <3>2, <3>4
    <3> QED BY <2>2, <3>3, <3>5, RecvNext
  <2>3. CASE ~(p = q /\ d = q)
    <3>1. Delivered(p, d)' = Delivered(p, d)
      BY <1>1, <1>3, <2>3 DEF Delivered
    <3>2. \A s \in Slots : recv'[d][s][p] = recv[d][s][p]
      BY <1>4, <2>3
    <3> QED BY <2>1, <3>1, <3>2, RecvFrame
  <2> QED BY <2>2, <2>3
<1> QED BY <1>5, <1>8, <1>9, <1>10, <1>11 DEF IInv

(* A launch ends when all its blocks have, and has signalled every peer. *)
LEMMA AllTold ==
  ASSUME IInv, NEW q \in Ranks, FinishKernel(q)
  PROVE  /\ Launched(q) /\ posted[q] = done[q] + 1 /\ copied[q] = done[q] + 1 /\ done[q] < Epochs
         /\ \A d \in Ranks : d # q => Told(q, d) /\ Signalled(q, d) = done[q] + 1
         /\ \A p \in Ranks : p # q => Signalled(p, q) >= done[q] + 1
<1>1. Launched(q) /\ \A b \in Block : at[q][b] = Ended
  BY DEF FinishKernel
<1>2. TypeOK /\ LaunchOrder(q) /\ Polled(q) /\ Leader \in Block /\ R \in Nat /\ R >= 2
  BY Leading, RAssumption DEF IInv
<1>3. at[q][Leader] = R /\ Ended = R /\ Pending = -1
  BY <1>1, <1>2 DEF Ended, Pending
<1>4. told[q] = R - 1 /\ posted[q] = done[q] + 1 /\ done[q] < Epochs
  BY <1>1, <1>2, <1>3 DEF LaunchOrder
<1>5. ASSUME NEW d \in Ranks, d # q PROVE Told(q, d) /\ Signalled(q, d) = done[q] + 1
  <2>1. PICK i \in 0 .. R-2 : Served(q, i) = d
    BY <1>5, ServedPeers
  <2>2. i < told[q]
    BY <1>2, <1>4
  <2>3. Told(q, d)
    BY <2>1, <2>2 DEF Told
  <2> QED BY <1>1, <2>3 DEF Signalled
<1>6. ASSUME NEW p \in Ranks, p # q PROVE Signalled(p, q) >= done[q] + 1
  <2>1. PICK k \in 1 .. R-1 : Part(q, k) = p
    BY <1>6, Parts
  <2>2. k <= at[q][Leader]
    BY <1>2, <1>3
  <2> QED BY <1>1, <1>2, <2>1, <2>2 DEF Polled
<1> QED BY <1>1, <1>4, <1>5, <1>6 DEF Launched

LEMMA InvFinishKernel == ASSUME IInv, NEW q \in Ranks, FinishKernel(q) PROVE IInv'
<1>0. TypeOK /\ done[q] \in Nat /\ LaunchOrder(q) /\ Epochs \in Nat
  BY Kinds, EpochsAssumption DEF IInv
<1>1. /\ \A b \in Block : at[q][b] = Ended
      /\ done' = [done EXCEPT ![q] = done[q] + 1]
      /\ flight' = flight /\ recv' = recv /\ ready' = ready
      /\ posted' = posted /\ copied' = copied /\ told' = told /\ at' = at
  BY DEF FinishKernel, fabric
<1>2. /\ Launched(q) /\ posted[q] = done[q] + 1 /\ copied[q] = done[q] + 1 /\ done[q] < Epochs
      /\ \A d \in Ranks : d # q => Told(q, d) /\ Signalled(q, d) = done[q] + 1
      /\ \A p \in Ranks : p # q => Signalled(p, q) >= done[q] + 1
  BY AllTold
<1>3. done'[q] = done[q] + 1 /\ \A r \in Ranks : r # q => done'[r] = done[r]
  BY <1>0, <1>1 DEF TypeOK
<1>4. TypeOK'
  <2>1. done' \in [Ranks -> Nat]
    BY <1>0, <1>1 DEF TypeOK
  <2> QED BY <1>0, <1>1, <2>1 DEF TypeOK, FabricType
<1>5. ~Launched(q)'
  BY <1>0, <1>1, <1>2, <1>3 DEF Launched
<1>6. ASSUME NEW p \in Ranks, NEW d \in Ranks, p # d PROVE Signalled(p, d)' = Signalled(p, d)
  <2>1. CASE p = q
    BY <1>2, <1>3, <1>5, <1>6, <2>1 DEF Signalled
  <2>2. CASE p # q
    BY <1>1, <1>3, <2>2, SignalFrame
  <2> QED BY <2>1, <2>2
<1>7. ASSUME NEW p \in Ranks, NEW d \in Ranks PROVE Delivered(p, d)' = Delivered(p, d)
  BY <1>1 DEF Delivered
<1>8. FlightOrder'
  <2>1. ASSUME NEW m \in flight
        PROVE  /\ m.src # m.dst /\ m.epoch = done'[m.src] /\ posted[m.src] = done'[m.src] + 1
               /\ ~Told(m.src, m.dst)'
    <3>1. /\ m.src \in Ranks /\ m.dst \in Ranks /\ m.src # m.dst
          /\ m.epoch = done[m.src] /\ posted[m.src] = done[m.src] + 1 /\ ~Told(m.src, m.dst)
      BY InFlight
    <3>2. m.src # q
      BY <1>2, <3>1
    <3>3. Told(m.src, m.dst)' = Told(m.src, m.dst)
      BY <1>1 DEF Told
    <3> QED BY <1>3, <3>1, <3>2, <3>3
  <2> QED BY <1>1, <2>1 DEF FlightOrder
<1>9. ASSUME NEW r \in Ranks PROVE LaunchOrder(r)' /\ Polled(r)'
  <2>1. CASE r = q
    <3>1. done'[q] <= Epochs
      BY <1>0, <1>2, <1>3
    <3>2. copied'[q] = done'[q] /\ posted'[q] = done'[q] /\ \A b \in Block : at'[q][b] = Ended
      BY <1>1, <1>2, <1>3
    <3>3. LaunchOrder(q)'
      BY <1>5, <3>1, <3>2 DEF LaunchOrder
    <3>4. Polled(q)'
      BY <1>5 DEF Polled
    <3> QED BY <2>1, <3>3, <3>4
  <2>2. CASE r # q
    <3>1. done'[r] = done[r] /\ done[r] \in Nat /\ LaunchOrder(r) /\ Polled(r)
      BY <1>3, <2>2, CountsOf DEF IInv
    <3>2. \A p \in Ranks : p # r => Signalled(p, r) \in Nat /\ Signalled(p, r)' \in Nat
                                    /\ Signalled(p, r)' >= Signalled(p, r)
      BY <1>6, CountsOf
    <3> QED BY <1>1, <3>1, <3>2, LaunchFrame, PolledFrame
  <2> QED BY <2>1, <2>2
<1>10. ASSUME NEW p \in Ranks, NEW d \in Ranks PROVE Gated(p, d)' /\ ReadyCount(p, d)' /\ RecvHistory(p, d)'
  <2>1. Gated(p, d) /\ ReadyCount(p, d) /\ RecvHistory(p, d) /\ Delivered(p, d) \in Nat
    BY CountsOf DEF IInv
  <2>2. Gated(p, d)'
    <3>1. CASE d = q
      BY <1>2, <1>3, <1>6, <3>1 DEF Gated
    <3>2. CASE d # q
      BY <1>3, <1>6, <2>1, <3>2 DEF Gated
    <3> QED BY <3>1, <3>2
  <2>3. ReadyCount(p, d)'
    BY <1>1, <1>6, <2>1 DEF ReadyCount
  <2>4. RecvHistory(p, d)'
    BY <1>1, <1>7, <2>1, RecvFrame
  <2> QED BY <2>2, <2>3, <2>4
<1> QED BY <1>4, <1>8, <1>9, <1>10 DEF IInv

(***************************************************************************)
(* The steps of the blocks and of the SDMA engines.                        *)
(***************************************************************************)

(* A step of a block that neither posts nor signals. *)
LEMMA BlockFrame ==
  ASSUME IInv, NEW q \in Ranks, NEW b \in Block, NEW k \in 0 .. R, at[q][b] # Ended \/ Launched(q),
         at' = [at EXCEPT ![q][b] = k],
         UNCHANGED <<flight, recv, ready, posted, copied, told, done>>,
         LaunchOrder(q)',
         \A j \in 1 .. R-1 : j <= k /\ ~(j <= at[q][b]) => Signalled(Part(q, j), q) >= done[q] + 1
  PROVE  IInv'
<1>0. TypeOK /\ Launched(q) /\ Polled(q)
  BY BusyLaunched DEF IInv
<1>1. /\ at'[q][b] = k /\ \A c \in Block : c # b => at'[q][c] = at[q][c]
      /\ \A r \in Ranks : r # q => at'[r] = at[r]
      /\ at' \in [Ranks -> [Block -> Pending .. Ended]]
  <2>1. at \in [Ranks -> [Block -> Pending .. Ended]]
    BY <1>0 DEF TypeOK
  <2>2. k \in Pending .. Ended
    BY RAssumption DEF Pending, Ended
  <2> QED BY <2>1, <2>2
<1>2. TypeOK'
  BY <1>0, <1>1 DEF TypeOK, FabricType
<1>3. ASSUME NEW p \in Ranks, NEW d \in Ranks PROVE Signalled(p, d)' = Signalled(p, d)
  BY SignalFrame
<1>4. /\ \A p, d \in Ranks : Gated(p, d)' /\ ReadyCount(p, d)'
      /\ \A r \in Ranks : copied'[r] = copied[r] /\ at'[r] = at[r] => Polled(r)'
  BY <1>3, SilentStep
<1>5. FlightOrder'
  <2>1. \A m \in flight : Told(m.src, m.dst)' = Told(m.src, m.dst)
    BY DEF Told
  <2> QED BY <2>1 DEF IInv, FlightOrder
<1>6. Polled(q)'
  <2>1. Launched(q)' = Launched(q)
    BY DEF Launched
  <2>2. ASSUME NEW c \in Block, NEW j \in 1 .. R-1, j <= at'[q][c]
        PROVE  Signalled(Part(q, j), q) >= done[q] + 1
    <3>1. CASE j <= at[q][c]
      BY <1>0, <3>1 DEF Polled
    <3>2. CASE ~(j <= at[q][c])
      <4>1. c = b /\ j <= k
        BY <1>1, <2>2, <3>2
      <4> QED BY <3>2, <4>1
    <3> QED BY <3>1, <3>2
  <2>3. ASSUME NEW j \in 1 .. R-1 PROVE Signalled(Part(q, j), q)' = Signalled(Part(q, j), q)
    <3>1. j \in 0 .. R-1
      BY RAssumption
    <3>2. Part(q, j) \in Ranks
      BY <3>1, Parts
    <3> QED BY <1>3, <3>2
  <2> QED BY <2>1, <2>2, <2>3 DEF Polled
<1>7. ASSUME NEW r \in Ranks PROVE LaunchOrder(r)' /\ Polled(r)'
  <2>1. CASE r = q
    BY <1>6, <2>1
  <2>2. CASE r # q
    BY <1>1, <1>4, <2>2, LaunchFrame DEF IInv
  <2> QED BY <2>1, <2>2
<1>8. ASSUME NEW p \in Ranks, NEW d \in Ranks PROVE RecvHistory(p, d)'
  <2>1. RecvHistory(p, d) /\ Delivered(p, d) \in Nat
    BY CountsOf DEF IInv
  <2>2. Delivered(p, d)' = Delivered(p, d)
    BY DEF Delivered
  <2> QED BY <2>1, <2>2, RecvFrame
<1> QED BY <1>2, <1>4, <1>5, <1>7, <1>8 DEF IInv

(* Block 0 enters and posts; what has been delivered stays delivered. *)
LEMMA InvEnter == ASSUME IInv, NEW q \in Ranks, Dispatch(q, Leader) PROVE IInv'
<1> DEFINE e == done[q]
           new == {[src |-> q, dst |-> p, epoch |-> e] : p \in Peers(q)}
<1>0. TypeOK /\ LaunchOrder(q) /\ e \in Nat /\ Leader \in Block /\ R \in Nat /\ R >= 2 /\ Polled(q)
  BY Kinds, Leading, RAssumption DEF IInv
<1>1. /\ Launched(q) /\ at[q][Leader] = Pending
      /\ at' = [at EXCEPT ![q][Leader] = 0]
      /\ flight' = flight \cup new
      /\ posted' = [posted EXCEPT ![q] = posted[q] + 1]
      /\ recv' = recv /\ ready' = ready /\ copied' = copied /\ told' = told /\ done' = done
  BY DEF Dispatch, PostAll, Epoch
<1>2. posted[q] = e /\ told[q] = 0 /\ e < Epochs
  BY <1>0, <1>1 DEF LaunchOrder
<1>3. /\ at'[q][Leader] = 0 /\ \A c \in Block : c # Leader => at'[q][c] = at[q][c]
      /\ \A r \in Ranks : r # q => at'[r] = at[r]
      /\ at' \in [Ranks -> [Block -> Pending .. Ended]]
  <2>1. at \in [Ranks -> [Block -> Pending .. Ended]] /\ 0 \in Pending .. Ended
    BY <1>0 DEF TypeOK, Pending, Ended
  <2> QED BY <1>0, <1>1, <2>1
<1>4. posted'[q] = e + 1 /\ \A r \in Ranks : r # q => posted'[r] = posted[r]
  BY <1>0, <1>1, <1>2 DEF TypeOK
<1>5. TypeOK'
  <2>1. new \subseteq Put
    BY <1>0 DEF Put, Peers
  <2>2. posted' \in [Ranks -> Nat]
    BY <1>0, <1>1, <1>2 DEF TypeOK
  <2> HIDE DEF new
  <2>3. FabricType'
    BY <1>0, <1>1, <2>1 DEF TypeOK, FabricType
  <2> QED BY <1>0, <1>1, <1>3, <2>2, <2>3 DEF TypeOK
<1>6. ASSUME NEW p \in Ranks, NEW d \in Ranks
      PROVE  Signalled(p, d)' = Signalled(p, d) /\ Told(p, d)' = Told(p, d)
  BY <1>1, SignalFrame
<1>7. /\ \A p, d \in Ranks : Gated(p, d)' /\ ReadyCount(p, d)'
      /\ \A r \in Ranks : copied'[r] = copied[r] /\ at'[r] = at[r] => Polled(r)'
  BY <1>1, <1>6, SilentStep
<1>8. ASSUME NEW m \in flight PROVE m.src \in Ranks /\ m.dst \in Ranks /\ m.src # q
  <2>1. m.src \in Ranks /\ m.dst \in Ranks /\ posted[m.src] = done[m.src] + 1
    BY InFlight
  <2> QED BY <1>0, <1>2, <2>1
<1>9. FlightOrder'
  <2>1. ASSUME NEW m \in flight
        PROVE  /\ m.src # m.dst /\ m.epoch = done[m.src] /\ posted'[m.src] = done[m.src] + 1
               /\ ~Told(m.src, m.dst)'
    BY <1>4, <1>6, <1>8, InFlight
  <2>2. ASSUME NEW m \in new
        PROVE  /\ m.src # m.dst /\ m.epoch = done[m.src] /\ posted'[m.src] = done[m.src] + 1
               /\ ~Told(m.src, m.dst)'
    <3>1. PICK d \in Peers(q) : m = [src |-> q, dst |-> d, epoch |-> e]
      OBVIOUS
    <3>2. m.src = q /\ m.dst = d /\ m.epoch = e /\ d \in Ranks /\ d # q
      BY <3>1 DEF Peers
    <3>3. ~Told(q, d)
      <4>1. \A i \in 0 .. R-2 : ~(i < 0)
        BY <1>0
      <4> QED BY <1>2, <4>1 DEF Told
    <3>4. ~Told(q, d)'
      BY <1>6, <3>2, <3>3
    <3> QED BY <1>4, <3>2, <3>4
  <2> HIDE DEF new
  <2> QED BY <1>1, <2>1, <2>2 DEF FlightOrder
<1>10. ASSUME NEW r \in Ranks PROVE LaunchOrder(r)' /\ Polled(r)'
  <2>1. CASE r = q
    <3>1. LaunchOrder(q)'
      <4>1. Launched(q)'
        BY <1>1 DEF Launched
      <4>2. 0 # Pending /\ 0 # Ended
        BY <1>0 DEF Pending, Ended
      <4> QED BY <1>0, <1>1, <1>2, <1>3, <1>4, <4>1, <4>2 DEF LaunchOrder
    <3>2. Polled(q)'
      <4>1. ASSUME NEW c \in Block, NEW j \in 1 .. R-1, j <= at'[q][c]
            PROVE  Signalled(Part(q, j), q)' >= done[q] + 1
        <5>1. c # Leader
          BY <1>3, <4>1
        <5>2. Signalled(Part(q, j), q) >= done[q] + 1
          BY <1>0, <1>1, <1>3, <4>1, <5>1 DEF Polled
        <5>3. j \in 0 .. R-1
          BY <1>0
        <5>4. Part(q, j) \in Ranks
          BY <5>3, Parts
        <5> QED BY <1>6, <5>2, <5>4
      <4> QED BY <1>1, <4>1 DEF Polled
    <3> QED BY <2>1, <3>1, <3>2
  <2>2. CASE r # q
    BY <1>1, <1>3, <1>4, <1>7, <2>2, LaunchFrame DEF IInv
  <2> QED BY <2>1, <2>2
<1>11. ASSUME NEW p \in Ranks, NEW d \in Ranks PROVE RecvHistory(p, d)'
  <2>1. RecvHistory(p, d) /\ Delivered(p, d) \in Nat
    BY CountsOf DEF IInv
  <2>2. Delivered(p, d)' = Delivered(p, d)
    <3>1. CASE p = d
      BY <1>1, <3>1 DEF Delivered
    <3>2. CASE p = q /\ p # d
      <4>1. Delivered(q, d) = e
        BY <1>2, <1>8, <3>2 DEF Delivered
      <4>2. [src |-> q, dst |-> d, epoch |-> e] \in flight'
        BY <1>1, <3>2 DEF Peers
      <4>3. \E m \in flight' : m.src = q /\ m.dst = d
        BY <4>2
      <4>4. Delivered(q, d)' = posted'[q] - 1
        BY <3>2, <4>3 DEF Delivered
      <4> QED BY <1>0, <1>4, <3>2, <4>1, <4>4
    <3>3. CASE p # q /\ p # d
      <4>1. \A m \in new : m.src = q
        OBVIOUS
      <4> HIDE DEF new
      <4>2. (\E m \in flight' : m.src = p /\ m.dst = d) <=> (\E m \in flight : m.src = p /\ m.dst = d)
        BY <1>1, <3>3, <4>1
      <4> QED BY <1>4, <3>3, <4>2 DEF Delivered
    <3> QED BY <3>1, <3>2, <3>3
  <2> QED BY <1>1, <2>1, <2>2, RecvFrame
<1> QED BY <1>5, <1>7, <1>9, <1>10, <1>11 DEF IInv

(* Any block starts. *)
LEMMA InvDispatch == ASSUME IInv, NEW q \in Ranks, NEW b \in Block, Dispatch(q, b) PROVE IInv'
<1>1. CASE b = Leader
  BY <1>1, InvEnter
<1>2. CASE b # Leader
  <2>1. /\ Launched(q) /\ at[q][b] = Pending
        /\ at' = [at EXCEPT ![q][b] = 0]
        /\ flight' = flight /\ posted' = posted /\ recv' = recv /\ ready' = ready
        /\ copied' = copied /\ told' = told /\ done' = done
    BY <1>2 DEF Dispatch
  <2>2. at'[q][Leader] = at[q][Leader] /\ Launched(q)' = Launched(q)
    <3>1. at \in [Ranks -> [Block -> Pending .. Ended]]
      BY DEF IInv, TypeOK
    <3> QED BY <1>2, <2>1, <3>1, Leading DEF Launched
  <2>3. LaunchOrder(q)'
    BY <2>1, <2>2 DEF IInv, LaunchOrder
  <2>4. 0 \in 0 .. R /\ \A j \in 1 .. R-1 : ~(j <= 0)
    BY RAssumption
  <2>5. UNCHANGED <<flight, recv, ready, posted, copied, told, done>>
    BY <2>1
  <2> QED BY <2>1, <2>3, <2>4, <2>5, BlockFrame
<1> QED BY <1>1, <1>2

(* A block gets past a poll. *)
LEMMA InvAdvance == ASSUME IInv, NEW q \in Ranks, NEW b \in Block, Advance(q, b) PROVE IInv'
<1> DEFINE k == at[q][b]
<1>0. TypeOK /\ R \in Nat /\ R >= 2 /\ Leader \in Block /\ k \in -1 .. R /\ k \in Int /\ told[q] \in 0 .. R-1
  BY Kinds, Leading, RAssumption DEF IInv
<1>1. /\ k # -1 /\ k # R /\ k < R - 1
      /\ b = Leader => told[q] = k + 1
      /\ Arrived(q, Part(q, k + 1), done[q])
      /\ at' = [at EXCEPT ![q][b] = k + 1]
      /\ flight' = flight /\ posted' = posted /\ recv' = recv /\ ready' = ready
      /\ copied' = copied /\ told' = told /\ done' = done
  BY DEF Advance, Busy, Pending, Ended, fabric, Epoch
<1>2. k \in 0 .. R-2 /\ k + 1 \in 1 .. R-1 /\ k + 1 \in 0 .. R-1 /\ k + 1 \in 0 .. R
  <2> HIDE DEF k
  <2> QED BY <1>0, <1>1
<1>3. k # Ended /\ k # Pending /\ Launched(q)
  <2>1. k # Ended
    BY <1>1 DEF Ended
  <2> QED BY <1>1, <2>1, BusyLaunched DEF Pending
<1>4. Signalled(Part(q, k + 1), q) >= done[q] + 1
  <2>1. Part(q, k + 1) \in Ranks /\ Part(q, k + 1) # q
    <3> HIDE DEF k
    <3> QED BY <1>2, Parts
  <2> QED BY <1>1, <2>1, PollSees
<1>5. at'[q][b] = k + 1 /\ (b # Leader => at'[q][Leader] = at[q][Leader])
  <2>1. at \in [Ranks -> [Block -> Pending .. Ended]] /\ at' = [at EXCEPT ![q][b] = k + 1]
    BY <1>0, <1>1 DEF TypeOK
  <2> HIDE DEF k
  <2> QED BY <1>0, <2>1
<1>6. LaunchOrder(q)'
  <2>1. LaunchOrder(q) /\ Launched(q)' = Launched(q)
    BY <1>1 DEF IInv, Launched
  <2>2. CASE b # Leader
    <3>1. /\ posted' = posted /\ copied' = copied /\ told' = told /\ done' = done
          /\ at'[q][Leader] = at[q][Leader] /\ Launched(q) /\ Launched(q)'
      BY <1>1, <1>3, <1>5, <2>1, <2>2
    <3> QED BY <2>1, <3>1 DEF LaunchOrder
  <2>3. CASE b = Leader
    <3>1. posted[q] = done[q] + 1 /\ done[q] <= Epochs /\ done[q] < Epochs
      BY <1>3, <2>1, <2>3 DEF LaunchOrder
    <3>2. at'[q][Leader] = k + 1 /\ told'[q] = k + 1
      BY <1>1, <1>5, <2>3
    <3>3. k + 1 # Pending /\ k + 1 # Ended
      <4> HIDE DEF k
      <4> QED BY <1>0, <1>2 DEF Pending, Ended
    <3> HIDE DEF k
    <3> QED BY <1>1, <1>3, <2>1, <3>1, <3>2, <3>3 DEF LaunchOrder
  <2> QED BY <2>2, <2>3
<1>7. \A j \in 1 .. R-1 : j <= k + 1 /\ ~(j <= k) => Signalled(Part(q, j), q) >= done[q] + 1
  <2>1. \A j \in 1 .. R-1 : j <= k + 1 /\ ~(j <= k) => j = k + 1
    <3> HIDE DEF k
    <3> QED BY <1>0
  <2> QED BY <1>4, <2>1
<1>8. UNCHANGED <<flight, recv, ready, posted, copied, told, done>>
  BY <1>1
<1> QED BY <1>1, <1>2, <1>3, <1>6, <1>7, <1>8, BlockFrame

(* A block ends. *)
LEMMA InvRetire == ASSUME IInv, NEW q \in Ranks, NEW b \in Block, Retire(q, b) PROVE IInv'
<1>0. TypeOK /\ R \in Nat /\ R >= 2 /\ Leader \in Block /\ told[q] \in 0 .. R-1
  BY Kinds, Leading, RAssumption DEF IInv
<1>1. /\ at[q][b] = R - 1
      /\ at' = [at EXCEPT ![q][b] = R]
      /\ flight' = flight /\ posted' = posted /\ recv' = recv /\ ready' = ready
      /\ copied' = copied /\ told' = told /\ done' = done
  BY DEF Retire, Ended, fabric
<1>2. at[q][b] # Ended /\ at[q][b] # Pending /\ Launched(q)
  <2>1. at[q][b] # Ended /\ at[q][b] # Pending
    BY <1>0, <1>1 DEF Ended, Pending
  <2> QED BY <2>1, BusyLaunched
<1>3. at'[q][b] = R /\ (b # Leader => at'[q][Leader] = at[q][Leader])
  <2>1. at \in [Ranks -> [Block -> Pending .. Ended]]
    BY <1>0 DEF TypeOK
  <2> QED BY <1>0, <1>1, <2>1
<1>4. LaunchOrder(q)'
  <2>1. LaunchOrder(q) /\ Launched(q)' = Launched(q)
    BY <1>1 DEF IInv, Launched
  <2>2. CASE b # Leader
    <3>1. /\ posted' = posted /\ copied' = copied /\ told' = told /\ done' = done
          /\ at'[q][Leader] = at[q][Leader] /\ Launched(q) /\ Launched(q)'
      BY <1>1, <1>2, <1>3, <2>1, <2>2
    <3> QED BY <2>1, <3>1 DEF LaunchOrder
  <2>3. CASE b = Leader
    <3>1. posted[q] = done[q] + 1 /\ done[q] <= Epochs /\ done[q] < Epochs /\ told[q] \in {R - 1, (R - 1) + 1}
      <4>1. at[q][Leader] \in 0 .. R-1
        BY <1>0, <1>1, <2>3
      <4> QED BY <1>1, <1>2, <2>1, <2>3, <4>1 DEF LaunchOrder
    <3>2. told[q] = R - 1
      BY <1>0, <3>1
    <3>3. at'[q][Leader] = R /\ R # Pending /\ R = Ended /\ R \notin 0 .. R-1
      BY <1>0, <1>3, <2>3 DEF Pending, Ended
    <3> QED BY <1>1, <1>2, <2>1, <3>1, <3>2, <3>3 DEF LaunchOrder
  <2> QED BY <2>2, <2>3
<1>5. \A j \in 1 .. R-1 : j <= R - 1
  BY <1>0
<1>6. UNCHANGED <<flight, recv, ready, posted, copied, told, done>> /\ R \in 0 .. R
  BY <1>0, <1>1
<1> QED BY <1>1, <1>2, <1>4, <1>5, <1>6, BlockFrame

(* Block 0 signals the peer its next shard is for, having drained the PUT to it. *)
LEMMA InvQuietAndSignal == ASSUME IInv, NEW q \in Ranks, QuietAndSignal(q) PROVE IInv'
<1>0. /\ TypeOK /\ LaunchOrder(q) /\ Polled(q) /\ done[q] \in Nat /\ Leader \in Block
      /\ told[q] \in 0 .. R-1 /\ R \in Nat /\ R >= 2
  BY Kinds, Leading, RAssumption DEF IInv
<1>1. PICK n \in Nat, e \in Nat : n = told[q] /\ e = done[q]
  <2>1. told[q] \in Nat
    BY <1>0
  <2> QED BY <1>0, <2>1
<1>2. PICK D : D = Served(q, n)
  OBVIOUS
<1>3. /\ Launched(q) /\ at[q][Leader] = n /\ n < R - 1
      /\ \A m \in flight : ~(m.src = q /\ m.dst = D)
      /\ ready' = [ready EXCEPT ![D][Slot(e)][q] = ready[D][Slot(e)][q] + 1]
      /\ told' = [told EXCEPT ![q] = n + 1]
      /\ flight' = flight /\ recv' = recv /\ posted' = posted /\ copied' = copied
      /\ at' = at /\ done' = done
  BY <1>1, <1>2 DEF QuietAndSignal, Drained, Signal, Epoch
<1>4. n \in 0 .. R-2 /\ n + 1 \in 0 .. R-1 /\ D \in Ranks /\ D # q
  <2>1. n \in 0 .. R-2 /\ n + 1 \in 0 .. R-1
    BY <1>0, <1>1, <1>3
  <2> QED BY <1>2, <2>1, ServedPeers
<1>5. told'[q] = n + 1 /\ \A r \in Ranks : r # q => told'[r] = told[r]
  BY <1>0, <1>3 DEF TypeOK
<1>6. /\ ready' \in [Ranks -> [Slots -> [Ranks -> Nat]]]
      /\ ready'[D][Slot(e)][q] = ready[D][Slot(e)][q] + 1
      /\ \A d, p \in Ranks, s \in Slots : ~(d = D /\ p = q /\ s = Slot(e)) => ready'[d][s][p] = ready[d][s][p]
  <2>1. ready \in [Ranks -> [Slots -> [Ranks -> Nat]]] /\ Slot(e) \in Slots
    <3>1. e \in Int
      BY <1>1
    <3> QED BY <1>0, <3>1, Parity DEF TypeOK, FabricType
  <2>2. ready[D][Slot(e)][q] \in Nat
    BY <1>4, <2>1
  <2>3. ready[D][Slot(e)][q] + 1 \in Nat
    BY <2>2
  <2> QED BY <1>3, <1>4, <2>1, <2>3
<1>7. TypeOK'
  <2>1. FabricType'
    BY <1>0, <1>3, <1>6 DEF TypeOK, FabricType
  <2>2. told' \in [Ranks -> 0 .. R-1]
    BY <1>0, <1>3, <1>4 DEF TypeOK
  <2> QED BY <1>0, <1>3, <2>1, <2>2 DEF TypeOK
<1>8. /\ ~Told(q, D) /\ Told(q, D)' /\ Launched(q)'
      /\ \A d \in Ranks : d # D => Told(q, d)' = Told(q, d)
  <2>1. ~Told(q, D)
    <3>1. ASSUME NEW i \in 0 .. R-2, i < n, Served(q, i) = D PROVE FALSE
      <4>1. i = n
        BY <1>2, <1>4, <3>1, ServedPeers
      <4> QED BY <3>1, <4>1
    <3> QED BY <1>1, <3>1 DEF Told
  <2>2. Told(q, D)'
    <3>1. n < n + 1
      OBVIOUS
    <3> QED BY <1>2, <1>4, <1>5, <3>1 DEF Told
  <2>3. ASSUME NEW d \in Ranks, d # D PROVE Told(q, d)' = Told(q, d)
    <3>1. ASSUME NEW i \in 0 .. R-2, Served(q, i) = d PROVE i < n + 1 <=> i < n
      <4>1. i # n
        BY <1>2, <2>3, <3>1
      <4> QED BY <4>1
    <3> QED BY <1>1, <1>5, <3>1 DEF Told
  <2>4. Launched(q)'
    BY <1>3 DEF Launched
  <2> QED BY <2>1, <2>2, <2>3, <2>4
<1>9. /\ Signalled(q, D) = e /\ Signalled(q, D)' = e + 1
      /\ \A p, d \in Ranks : ~(p = q /\ d = D) => Signalled(p, d)' = Signalled(p, d)
  <2>1. Signalled(q, D) = e /\ Signalled(q, D)' = e + 1
    BY <1>1, <1>3, <1>8 DEF Signalled
  <2>2. ASSUME NEW p \in Ranks, NEW d \in Ranks, ~(p = q /\ d = D)
        PROVE  Signalled(p, d)' = Signalled(p, d)
    <3>1. CASE p = q
      BY <1>3, <1>8, <2>2, <3>1 DEF Signalled
    <3>2. CASE p # q
      BY <1>3, <1>5, <3>2, SignalFrame
    <3> QED BY <3>1, <3>2
  <2> QED BY <2>1, <2>2
<1>10. ASSUME NEW p \in Ranks, NEW d \in Ranks
       PROVE  Signalled(p, d) \in Nat /\ Signalled(p, d)' \in Nat /\ Signalled(p, d)' >= Signalled(p, d)
  <2>1. Signalled(p, d) \in Nat
    BY CountsOf
  <2>2. CASE p = q /\ d = D
    BY <1>9, <2>2
  <2>3. CASE ~(p = q /\ d = D)
    BY <1>9, <2>1, <2>3
  <2> QED BY <2>1, <2>2, <2>3
<1>11. FlightOrder'
  <2>1. ASSUME NEW m \in flight
        PROVE  /\ m.src # m.dst /\ m.epoch = done[m.src] /\ posted[m.src] = done[m.src] + 1
               /\ ~Told(m.src, m.dst)'
    <3>1. /\ m.src \in Ranks /\ m.dst \in Ranks /\ m.src # m.dst
          /\ m.epoch = done[m.src] /\ posted[m.src] = done[m.src] + 1 /\ ~Told(m.src, m.dst)
      BY InFlight
    <3>2. Told(m.src, m.dst)' = Told(m.src, m.dst)
      <4>1. CASE m.src = q
        <5>1. m.dst # D
          BY <1>3, <4>1
        <5> QED BY <1>8, <3>1, <4>1, <5>1
      <4>2. CASE m.src # q
        BY <1>5, <3>1, <4>2 DEF Told
      <4> QED BY <4>1, <4>2
    <3> QED BY <3>1, <3>2
  <2> QED BY <1>3, <2>1 DEF FlightOrder
<1>12. ASSUME NEW r \in Ranks PROVE LaunchOrder(r)' /\ Polled(r)'
  <2>1. Polled(r)'
    <3>1. Polled(r) /\ done'[r] = done[r] /\ done[r] \in Nat /\ copied'[r] = copied[r] /\ at'[r] = at[r]
      BY <1>3, CountsOf DEF IInv
    <3> QED BY <1>10, <3>1, PolledFrame
  <2>2. CASE r = q
    <3>1. posted[q] = e + 1 /\ e < Epochs /\ e <= Epochs
      <4>1. n # Pending
        BY DEF Pending
      <4> QED BY <1>0, <1>1, <1>3, <4>1 DEF LaunchOrder
    <3>2. /\ posted'[q] = e + 1 /\ done'[q] = e /\ told'[q] = n + 1 /\ at'[q][Leader] = n
          /\ n # Pending /\ n # Ended
      BY <1>0, <1>1, <1>3, <1>4, <1>5, <3>1 DEF Pending, Ended
    <3>3. LaunchOrder(q)'
      BY <1>8, <3>1, <3>2 DEF LaunchOrder
    <3> QED BY <2>1, <2>2, <3>3
  <2>3. CASE r # q
    <3>1. LaunchOrder(r)
      BY DEF IInv
    <3> QED BY <1>3, <1>5, <2>1, <2>3, <3>1, LaunchFrame
  <2> QED BY <2>2, <2>3
<1>13. ASSUME NEW p \in Ranks, NEW d \in Ranks PROVE Gated(p, d)' /\ ReadyCount(p, d)' /\ RecvHistory(p, d)'
  <2>1. Gated(p, d) /\ ReadyCount(p, d) /\ RecvHistory(p, d) /\ Delivered(p, d) \in Nat /\ done[d] \in Nat
    BY CountsOf DEF IInv
  <2>2. Gated(p, d)'
    <3>1. p # d => done[d] <= Signalled(p, d)
      BY <2>1 DEF Gated
    <3> QED BY <1>3, <1>10, <2>1, <3>1 DEF Gated
  <2>3. RecvHistory(p, d)'
    <3>1. Delivered(p, d)' = Delivered(p, d)
      BY <1>3 DEF Delivered
    <3> QED BY <1>3, <2>1, <3>1, RecvFrame
  <2>4. ReadyCount(p, d)'
    <3>1. CASE p = q /\ d = D
      <4>1. ASSUME NEW s \in Slots PROVE ready'[D][s][q] = Count(e + 1, s)
        <5>1. ready[D][s][q] = Count(e, s)
          BY <1>4, <1>9, <2>1, <3>1 DEF ReadyCount
        <5>2. Count(e + 1, s) = IF s = Slot(e) THEN Count(e, s) + 1 ELSE Count(e, s)
          BY CountStep
        <5>3. ready'[D][s][q] = IF s = Slot(e) THEN ready[D][s][q] + 1 ELSE ready[D][s][q]
          BY <1>4, <1>6
        <5> QED BY <5>1, <5>2, <5>3
      <4> QED BY <1>4, <1>9, <3>1, <4>1 DEF ReadyCount
    <3>2. CASE ~(p = q /\ d = D)
      <4>1. \A s \in Slots : ready'[d][s][p] = ready[d][s][p]
        BY <1>6, <3>2
      <4>2. Signalled(p, d)' = Signalled(p, d)
        BY <1>9, <3>2
      <4> QED BY <2>1, <4>1, <4>2 DEF ReadyCount
    <3> QED BY <3>1, <3>2
  <2> QED BY <2>2, <2>3, <2>4
<1> QED BY <1>7, <1>11, <1>12, <1>13 DEF IInv

(* The chunk of a PUT lands where the epoch before the last was. *)
LEMMA InvLand == ASSUME IInv, NEW m \in flight, Land(m), UNCHANGED kernel PROVE IInv'
<1>0. TypeOK
  BY DEF IInv
<1>1. PICK p0 \in Ranks, d0 \in Ranks, e \in Nat :
        m.src = p0 /\ m.dst = d0 /\ m.epoch = e /\ p0 # d0 /\ e = done[p0] /\ posted[p0] = e + 1
        /\ m = [src |-> p0, dst |-> d0, epoch |-> e]
  BY InFlight
<1>2. /\ flight' = flight \ {m}
      /\ recv' = [recv EXCEPT ![d0][Slot(e)][p0] = e]
      /\ ready' = ready /\ posted' = posted /\ copied' = copied /\ told' = told /\ at' = at /\ done' = done
  BY <1>1 DEF Land, kernel
<1>3. /\ recv' \in [Ranks -> [Slots -> [Ranks -> Nat \cup {Empty}]]]
      /\ recv'[d0][Slot(e)][p0] = e
      /\ \A d, p \in Ranks, s \in Slots : ~(d = d0 /\ p = p0 /\ s = Slot(e)) => recv'[d][s][p] = recv[d][s][p]
  <2>1. recv \in [Ranks -> [Slots -> [Ranks -> Nat \cup {Empty}]]] /\ Slot(e) \in Slots
    <3>1. e \in Int
      BY <1>1
    <3> QED BY <1>0, <3>1, Parity DEF TypeOK, FabricType
  <2> QED BY <1>1, <1>2, <2>1
<1>4. TypeOK'
  <2>1. FabricType'
    BY <1>0, <1>2, <1>3 DEF TypeOK, FabricType
  <2> QED BY <1>0, <1>2, <2>1 DEF TypeOK
<1>5. ASSUME NEW p \in Ranks, NEW d \in Ranks
      PROVE  Signalled(p, d)' = Signalled(p, d) /\ Told(p, d)' = Told(p, d)
  BY <1>2, SignalFrame
<1>6. /\ \A p, d \in Ranks : Gated(p, d)' /\ ReadyCount(p, d)'
      /\ \A r \in Ranks : copied'[r] = copied[r] /\ at'[r] = at[r] => Polled(r)'
  BY <1>2, <1>5, SilentStep
<1>7. FlightOrder'
  <2>1. ASSUME NEW w \in flight'
        PROVE  /\ w.src # w.dst /\ w.epoch = done[w.src] /\ posted[w.src] = done[w.src] + 1
               /\ ~Told(w.src, w.dst)'
    <3>1. w \in flight
      BY <1>2
    <3> QED BY <1>5, <3>1, InFlight
  <2> QED BY <1>2, <2>1 DEF FlightOrder
<1>8. ASSUME NEW r \in Ranks PROVE LaunchOrder(r)' /\ Polled(r)'
  <2>1. LaunchOrder(r)
    BY DEF IInv
  <2> QED BY <1>2, <1>6, <2>1, LaunchFrame
<1>9. ASSUME NEW p \in Ranks, NEW d \in Ranks PROVE RecvHistory(p, d)'
  <2>1. RecvHistory(p, d) /\ Delivered(p, d) \in Nat
    BY CountsOf DEF IInv
  <2>2. CASE p = p0 /\ d = d0
    <3>1. Delivered(p0, d0) = e
      <4>1. \E w \in flight : w.src = p0 /\ w.dst = d0
        BY <1>1
      <4>2. Delivered(p0, d0) = posted[p0] - 1
        BY <1>1, <4>1 DEF Delivered
      <4> QED BY <1>1, <4>2
    <3>2. Delivered(p0, d0)' = e + 1
      <4>1. ASSUME NEW w \in flight', w.src = p0, w.dst = d0 PROVE FALSE
        <5>1. w \in flight /\ w # m
          BY <1>2
        <5>2. w = [src |-> w.src, dst |-> w.dst, epoch |-> w.epoch] /\ w.epoch = done[w.src]
          BY <5>1, InFlight
        <5>3. w.epoch = e
          BY <1>1, <4>1, <5>2
        <5> QED BY <1>1, <4>1, <5>1, <5>2, <5>3
      <4>2. Delivered(p0, d0)' = posted'[p0]
        BY <1>1, <4>1 DEF Delivered
      <4> QED BY <1>1, <1>2, <4>2
    <3>3. \A s \in Slots : s # Slot(e) => recv'[d0][s][p0] = recv[d0][s][p0]
      BY <1>3
    <3>4. RecvHistory(p0, d0)
      BY <2>1, <2>2
    <3> QED BY <1>3, <2>2, <3>1, <3>2, <3>3, <3>4, RecvNext
  <2>3. CASE ~(p = p0 /\ d = d0)
    <3>1. (\E w \in flight' : w.src = p /\ w.dst = d) <=> (\E w \in flight : w.src = p /\ w.dst = d)
      BY <1>1, <1>2, <2>3
    <3>2. Delivered(p, d)' = Delivered(p, d)
      BY <1>2, <3>1 DEF Delivered
    <3>3. \A s \in Slots : recv'[d][s][p] = recv[d][s][p]
      BY <1>3, <2>3
    <3> QED BY <2>1, <3>2, <3>3, RecvFrame
  <2> QED BY <2>2, <2>3
<1> QED BY <1>4, <1>6, <1>7, <1>8, <1>9 DEF IInv

(* Every step keeps the invariant. *)
LEMMA InvNext == IInv /\ [Next]_vars => IInv'
<1> SUFFICES ASSUME IInv, [Next]_vars PROVE IInv'
  OBVIOUS
<1>1. CASE UNCHANGED vars
  <2>1. /\ flight' = flight /\ recv' = recv /\ ready' = ready
        /\ posted' = posted /\ copied' = copied /\ told' = told /\ at' = at /\ done' = done
    BY <1>1 DEF vars, fabric, kernel
  <2>2. TypeOK'
    BY <2>1 DEF IInv, TypeOK, FabricType
  <2>3. ASSUME NEW p \in Ranks, NEW d \in Ranks
        PROVE  Signalled(p, d)' = Signalled(p, d) /\ Told(p, d)' = Told(p, d)
    BY <2>1, SignalFrame
  <2>4. /\ \A p, d \in Ranks : Gated(p, d)' /\ ReadyCount(p, d)'
        /\ \A r \in Ranks : copied'[r] = copied[r] /\ at'[r] = at[r] => Polled(r)'
    BY <2>1, <2>3, SilentStep
  <2>5. FlightOrder'
    <3>1. \A m \in flight : Told(m.src, m.dst)' = Told(m.src, m.dst)
      BY <2>1 DEF Told
    <3> QED BY <2>1, <3>1 DEF IInv, FlightOrder
  <2>6. ASSUME NEW r \in Ranks PROVE LaunchOrder(r)' /\ Polled(r)'
    <3>1. LaunchOrder(r)
      BY DEF IInv
    <3> QED BY <2>1, <2>4, <3>1, LaunchFrame
  <2>7. ASSUME NEW p \in Ranks, NEW d \in Ranks PROVE RecvHistory(p, d)'
    <3>1. RecvHistory(p, d) /\ Delivered(p, d) \in Nat
      BY CountsOf DEF IInv
    <3>2. Delivered(p, d)' = Delivered(p, d)
      BY <2>1 DEF Delivered
    <3> QED BY <2>1, <3>1, <3>2, RecvFrame
  <2> QED BY <2>2, <2>4, <2>5, <2>6, <2>7 DEF IInv
<1>2. CASE \E q \in Ranks : Stream(q)
  BY <1>2, InvPrepare, InvFinishKernel DEF Stream
<1>3. CASE \E q \in Ranks : \E b \in Block : BlockStep(q, b)
  BY <1>3, InvDispatch, InvQuietAndSignal, InvAdvance, InvRetire DEF BlockStep
<1>4. CASE SdmaStep
  <2>1. PICK m \in flight : Land(m) /\ UNCHANGED kernel
    BY <1>4 DEF SdmaStep
  <2> QED BY <2>1, InvLand
<1> QED BY <1>1, <1>2, <1>3, <1>4 DEF Next

(***************************************************************************)
(* The theorems.                                                           *)
(***************************************************************************)

(* The inductive invariant holds throughout. *)
THEOREM Invariance == Spec => []IInv
<1> QED BY InvInit, InvNext, PTL DEF Spec

(* The variables keep their types: in particular block 0 signals no more peers
   than there are. *)
THEOREM TypeCorrect == Spec => []TypeOK
<1>1. IInv => TypeOK
  BY DEF IInv
<1> QED BY <1>1, Invariance, PTL

(* No block reads a chunk of another epoch, or one a PUT may be changing, although
   only the polls keep launches of different ranks apart. *)
THEOREM CurrentReads == Spec => []ReadsCurrent
<1> QED BY InvReads, Invariance, PTL

(* A rank that is through finds its counters at the number of launches that used
   each slot: no signal is lost, repeated or still to come. *)
THEOREM FinalCounters == Spec => []FinalCounts
<1> QED BY InvFinal, Invariance, PTL

(* The fused kernel implements the two-slot exchange: block 0 posts an epoch only
   when every peer has computed the one before the last, and a launch ends only
   when every rank has posted its epoch. *)
THEOREM FusedImplementsExchange == Spec => ImplementsExchange
<1>1. Init => Exchange!Init
  BY DEF Init, Exchange!Init
<1>2. IInv /\ [Next]_vars => [Exchange!Next]_<<posted, done>>
  <2> SUFFICES ASSUME IInv, [Next]_vars
               PROVE  Exchange!Next \/ UNCHANGED <<posted, done>>
    OBVIOUS
  <2>1. ASSUME NEW r \in Ranks, Dispatch(r, Leader) PROVE Exchange!Publish(r)
    <3>1. /\ Launched(r) /\ at[r][Leader] = Pending
          /\ posted' = [posted EXCEPT ![r] = posted[r] + 1] /\ done' = done
      BY <2>1 DEF Dispatch
    <3>2. posted[r] = done[r] /\ posted[r] < Epochs
      BY <3>1 DEF IInv, LaunchOrder
    <3>3. ASSUME NEW p \in Ranks \ {r} PROVE posted[r] < done[p] + 2
      <4>1. done[r] <= Signalled(p, r)
        BY <3>3 DEF IInv, Gated
      <4>2. Signalled(p, r) \in {done[p], done[p] + 1} /\ done[p] \in Nat /\ done[r] \in Nat
        BY CountsOf
      <4> QED BY <3>2, <4>1, <4>2
    <3> QED BY <3>1, <3>2, <3>3 DEF Exchange!Publish
  <2>2. ASSUME NEW r \in Ranks, FinishKernel(r) PROVE Exchange!Consume(r)
    <3>1. posted' = posted /\ done' = [done EXCEPT ![r] = done[r] + 1]
      BY <2>2 DEF FinishKernel
    <3>2. ASSUME NEW p \in Ranks PROVE done[r] < posted[p]
      <4>1. CASE p = r
        <5>1. posted[r] = done[r] + 1 /\ done[r] \in Nat
          BY <2>2, AllTold, CountsOf
        <5> QED BY <4>1, <5>1
      <4>2. CASE p # r
        <5>1. Signalled(p, r) >= done[r] + 1
          BY <2>2, <4>2, AllTold
        <5>2. /\ Signalled(p, r) <= Delivered(p, r) /\ Delivered(p, r) <= posted[p]
              /\ Signalled(p, r) \in Nat /\ Delivered(p, r) \in Nat
          BY <4>2, CountsOf
        <5>3. done[r] \in Nat /\ posted[p] \in Nat
          BY Kinds DEF IInv
        <5> QED BY <5>1, <5>2, <5>3
      <4> QED BY <4>1, <4>2
    <3> QED BY <3>1, <3>2 DEF Exchange!Consume
  <2>3. ASSUME NEW r \in Ranks, Prepare(r) \/ QuietAndSignal(r) PROVE UNCHANGED <<posted, done>>
    BY <2>3 DEF Prepare, QuietAndSignal
  <2>4. ASSUME NEW r \in Ranks, NEW b \in Block, Dispatch(r, b), b # Leader PROVE UNCHANGED <<posted, done>>
    BY <2>4 DEF Dispatch
  <2>5. ASSUME NEW r \in Ranks, NEW b \in Block, Advance(r, b) \/ Retire(r, b) PROVE UNCHANGED <<posted, done>>
    BY <2>5 DEF Advance, Retire
  <2>6. CASE SdmaStep \/ UNCHANGED vars
    BY <2>6 DEF SdmaStep, kernel, vars
  <2>7. CASE \E r \in Ranks : Stream(r)
    BY <2>2, <2>3, <2>7 DEF Stream, Exchange!Next
  <2>8. CASE \E r \in Ranks : \E b \in Block : BlockStep(r, b)
    BY <2>1, <2>3, <2>4, <2>5, <2>8 DEF BlockStep, Exchange!Next
  <2> QED BY <2>6, <2>7, <2>8 DEF Next
<1>3. QED
  BY <1>1, <1>2, Invariance, PTL DEF Spec, ImplementsExchange, Exchange!Spec, Exchange!vars

=============================================================================
