------------------------ MODULE CrossWgSync_proofs ------------------------
(***************************************************************************)
(* The counter and the lock of CrossWgSync, for every number of            *)
(* workgroups, waves and places on the device.                             *)
(***************************************************************************)
EXTENDS CrossWgSync, FiniteSetTheorems, TLAPS

Labels == {"pending", "poll", "gate", "load", "store", "stored", "released", "done"}

Typed ==
  /\ serialized \in Modes
  /\ pc \in [WG -> [Wave -> Labels]]
  /\ word \in 0 .. Groups
  /\ sum \in [WG -> [Wave -> Seq(Row)]]
  /\ out \in [Wave -> Seq(Row)]
  /\ aux \in [Wave -> Seq(Row)]

(* The rows 0 .. n-1, added in that order. *)
Upto(n) == [i \in 1 .. n |-> i - 1]

(* Where a wave may be, by the place of its workgroup before, at or behind the
   counter.  Only the workgroup at the counter gets past its gate. *)
Ahead(v) == IF v = Leader THEN {"pending", "poll"} ELSE {"pending", "gate"}
AtTurn(g) ==
  IF g = Copier
  THEN {"pending", "poll", "gate", "load", "done"}
  ELSE {"pending", "poll", "gate", "load", "store", "stored"}

Placed ==
  \A g \in WG, v \in Wave :
    /\ g < word => pc[g][v] = "done"
    /\ g = word => pc[g][v] \in AtTurn(g)
    /\ g > word => pc[g][v] \in Ahead(v)

(* How many rows part v of the output holds. *)
Added(v) == IF pc[word][v] = "stored" THEN word + 1 ELSE word

Summed ==
  \A v \in Wave :
    /\ out[v] = Upto(Added(v))
    /\ pc[word][v] = "store" => sum[word][v] = Upto(word + 1)
    /\ word = Copier /\ pc[word][v] = "done" => aux[v] = Upto(Groups)

(* At most one leader is between the exchange and the release, and the word
   tells whether one is. *)
Exclusive ==
  /\ word \in {0, 1}
  /\ word = 0 => Holding = {}
  /\ word = 1 => \E g \in WG : Holding = {g}
  /\ \A v \in Wave : pc[Copier][v] = "done"

Ordered == Placed /\ Summed
SyncInv == Typed /\ (serialized => Ordered) /\ (~serialized => Exclusive)

-----------------------------------------------------------------------------

(* What the sizes are made of. *)
LEMMA Sizes ==
  /\ Groups \in Nat \ {0} /\ Leader \in Wave /\ Copier \in WG
  /\ WG \subseteq Nat /\ Row = WG \ {Copier}
BY SizeAssumption DEF Leader, Wave, Copier, WG, Row

(* Adding row n to the rows below it. *)
LEMMA AddRow ==
  ASSUME NEW n \in Nat
  PROVE  Append(Upto(n), n) = Upto(n + 1) /\ Len(Upto(n)) = n /\ Upto(n) \in Seq(Nat)
<1>1. Upto(n) \in Seq(Nat) /\ Len(Upto(n)) = n
  BY DEF Upto
<1> QED
  BY <1>1 DEF Upto

(* What Goto and GotoAll do to the positions. *)
LEMMA GotoMoves ==
  ASSUME Typed, NEW g \in WG, NEW v \in Wave, NEW l \in Labels, Goto(g, v, l)
  PROVE  /\ pc' \in [WG -> [Wave -> Labels]]
         /\ pc'[g][v] = l
         /\ \A f \in WG, u \in Wave : f # g \/ u # v => pc'[f][u] = pc[f][u]
BY DEF Typed, Goto

(* The same for all waves of a workgroup at once. *)
LEMMA GotoAllMoves ==
  ASSUME Typed, NEW g \in WG, NEW l \in Labels, GotoAll(g, l)
  PROVE  /\ pc' \in [WG -> [Wave -> Labels]]
         /\ \A u \in Wave : pc'[g][u] = l
         /\ \A f \in WG \ {g}, u \in Wave : pc'[f][u] = pc[f][u]
BY DEF Typed, GotoAll

(* Before the first dispatch the output is empty and the word is 0. *)
LEMMA SyncInit ==
  ASSUME Init PROVE SyncInv
<1> USE Sizes
<1>1. Typed
  BY SizeAssumption DEF Init, Typed, Labels
<1>2. ASSUME serialized PROVE Ordered
  <2>1. Placed
    BY <1>2 DEF Init, Placed, Ahead, AtTurn
  <2>2. word = 0 /\ word \in WG /\ word # Copier
    BY DEF Init, WG, Copier
  <2>3. \A v \in Wave : pc[word][v] = "pending"
    BY <1>2, <2>2 DEF Init
  <2>4. \A v \in Wave : out[v] = << >>
    BY DEF Init
  <2>5. Upto(0) = << >>
    BY DEF Upto
  <2>6. Summed
    BY <2>2, <2>3, <2>4, <2>5 DEF Summed, Added
  <2> QED
    BY <2>1, <2>6 DEF Ordered
<1>3. ASSUME ~serialized PROVE Exclusive
  <2>1. Holding = {}
    BY DEF Init, Holding
  <2> QED
    BY <1>3, <2>1 DEF Init, Exclusive
<1> QED
  BY <1>1, <1>2, <1>3 DEF SyncInv


-----------------------------------------------------------------------------

(* Serialized: the workgroup of a wave past its gate is the one at the
   counter. *)
LEMMA AtCounter ==
  ASSUME SyncInv, serialized, NEW g \in WG, NEW v \in Wave,
         pc[g][v] \in {"load", "store", "stored"}
  PROVE  g = word
<1>1. g \in Nat /\ word \in Nat
  BY Sizes DEF SyncInv, Typed
<1>2. ~(g < word)
  BY DEF SyncInv, Ordered, Placed
<1>3. ~(g > word)
  BY DEF SyncInv, Ordered, Placed, Ahead
<1> QED
  BY <1>1, <1>2, <1>3

(* A step that only moves waves, and none of them past a load, a store or the
   end. *)
LEMMA OnlyMoves ==
  ASSUME SyncInv, UNCHANGED <<serialized, word, sum, out, aux>>,
         pc' \in [WG -> [Wave -> Labels]],
         serialized => Placed',
         serialized => \A v \in Wave :
           /\ pc'[word][v] = "stored" <=> pc[word][v] = "stored"
           /\ pc'[word][v] \in {"store", "done"} => pc'[word][v] = pc[word][v],
         ~serialized => Exclusive'
  PROVE  SyncInv'
<1>1. Typed'
  BY DEF SyncInv, Typed
<1>2. ASSUME serialized PROVE Summed'
  <2>1. \A v \in Wave : Added(v)' = Added(v)
    BY <1>2 DEF Added
  <2> QED
    BY <1>2, <2>1 DEF SyncInv, Ordered, Summed
<1> QED
  BY <1>1, <1>2 DEF SyncInv, Ordered

(* Out of order: steps that leave the leaders where they hold, or do not. *)
LEMMA SameHolders ==
  ASSUME SyncInv, ~serialized, word' = word,
         \A g \in WG : pc'[g][Leader] \in {"gate", "load", "store", "stored"}
                        <=> pc[g][Leader] \in {"gate", "load", "store", "stored"},
         \A v \in Wave : pc'[Copier][v] = pc[Copier][v]
  PROVE  Exclusive'
<1>1. Holding' = Holding
  BY DEF Holding
<1> QED
  BY <1>1 DEF SyncInv, Exclusive

(* Out of order: the copier has ended before it started. *)
LEMMA NoCopier ==
  ASSUME SyncInv, ~serialized, NEW v \in Wave, NEW l, l # "done", NEW g \in WG, pc[g][v] = l
  PROVE  g # Copier
BY DEF SyncInv, Exclusive

(* The leader goes to its poll, the other waves to the barrier behind it. *)
LEMMA DispatchStep ==
  ASSUME SyncInv, NEW g \in WG, Dispatch(g) PROVE SyncInv'
<1> USE Sizes
<1>1. pc' \in [WG -> [Wave -> Labels]]
  BY DEF Dispatch, SyncInv, Typed, Labels
<1>2. \A u \in Wave : pc[g][u] = "pending" /\ pc'[g][u] = IF u = Leader THEN "poll" ELSE "gate"
  BY DEF Dispatch, All, SyncInv, Typed
<1>3. \A f \in WG \ {g}, u \in Wave : pc'[f][u] = pc[f][u]
  BY DEF Dispatch, SyncInv, Typed
<1>4. UNCHANGED <<serialized, word, sum, out, aux>> /\ word \in WG
  BY DEF Dispatch, SyncInv, Typed, WG
<1>5. ASSUME serialized PROVE Placed'
  <2>1. g >= word
    BY <1>2, <1>4, <1>5 DEF SyncInv, Ordered, Placed
  <2> QED
    BY <1>2, <1>3, <1>4, <1>5, <2>1 DEF SyncInv, Ordered, Placed, Ahead, AtTurn
<1>6. \A v \in Wave :
        /\ pc'[word][v] = "stored" <=> pc[word][v] = "stored"
        /\ pc'[word][v] \in {"store", "done"} => pc'[word][v] = pc[word][v]
  BY <1>2, <1>3, <1>4
<1>7. ASSUME ~serialized PROVE Exclusive'
  <2>1. g # Copier
    BY <1>2, <1>7, NoCopier
  <2> QED
    BY <1>2, <1>3, <1>4, <1>7, <2>1, SameHolders
<1> QED
  BY <1>1, <1>4, <1>5, <1>6, <1>7, OnlyMoves

(* wait_eq lets the leader of the workgroup at the counter through. *)
LEMMA WaitEqStep ==
  ASSUME SyncInv, NEW g \in WG, WaitEq(g) PROVE SyncInv'
<1> USE Sizes
<1>1. serialized /\ word = g /\ pc[g][Leader] = "poll" /\ Goto(g, Leader, "gate")
  BY DEF WaitEq, Turn
<1>2. /\ pc' \in [WG -> [Wave -> Labels]] /\ pc'[g][Leader] = "gate"
      /\ \A f \in WG, u \in Wave : f # g \/ u # Leader => pc'[f][u] = pc[f][u]
  BY <1>1, GotoMoves DEF SyncInv, Labels
<1>3. UNCHANGED <<serialized, word, sum, out, aux>>
  BY DEF WaitEq
<1>4. Placed'
  BY <1>1, <1>2, <1>3 DEF SyncInv, Typed, Ordered, Placed, AtTurn, Ahead
<1>5. \A v \in Wave :
        /\ pc'[word][v] = "stored" <=> pc[word][v] = "stored"
        /\ pc'[word][v] \in {"store", "done"} => pc'[word][v] = pc[word][v]
  BY <1>1, <1>2
<1> QED
  BY <1>1, <1>2, <1>3, <1>4, <1>5, OnlyMoves

(* The exchange makes its workgroup the only holder. *)
LEMMA AquireStep ==
  ASSUME SyncInv, NEW g \in WG, Aquire(g) PROVE SyncInv'
<1> USE Sizes
<1>1. ~serialized /\ word = 0 /\ word' = 1 /\ pc[g][Leader] = "poll" /\ Goto(g, Leader, "gate")
  BY DEF Aquire, FoundFree
<1>2. /\ pc' \in [WG -> [Wave -> Labels]] /\ pc'[g][Leader] = "gate"
      /\ \A f \in WG, u \in Wave : f # g \/ u # Leader => pc'[f][u] = pc[f][u]
  BY <1>1, GotoMoves DEF SyncInv, Labels
<1>3. Typed' /\ serialized' = serialized
  BY <1>1, <1>2 DEF Aquire, SyncInv, Typed
<1>4. Holding' = {g}
  <2>1. Holding = {}
    BY <1>1 DEF SyncInv, Exclusive
  <2> QED
    BY <1>2, <2>1 DEF Holding
<1>5. g # Copier
  BY <1>1, NoCopier
<1>6. Exclusive'
  BY <1>1, <1>2, <1>4, <1>5 DEF SyncInv, Exclusive
<1> QED
  BY <1>1, <1>3, <1>6 DEF SyncInv

(* Only a workgroup whose leader is through passes the barrier. *)
LEMMA EnterStep ==
  ASSUME SyncInv, NEW g \in WG, Enter(g) PROVE SyncInv'
<1> USE Sizes
<1>1. \A u \in Wave : pc[g][u] = "gate"
  BY DEF Enter, All
<1>2. /\ pc' \in [WG -> [Wave -> Labels]] /\ \A u \in Wave : pc'[g][u] = "load"
      /\ \A f \in WG \ {g}, u \in Wave : pc'[f][u] = pc[f][u]
  BY GotoAllMoves DEF Enter, SyncInv, Labels
<1>3. UNCHANGED <<serialized, word, sum, out, aux>> /\ word \in WG
  BY DEF Enter, SyncInv, Typed, WG
<1>4. ASSUME serialized PROVE Placed'
  <2>1. g = word
    BY <1>1, <1>3, <1>4 DEF SyncInv, Ordered, Placed, Ahead
  <2> QED
    BY <1>2, <1>3, <1>4, <2>1 DEF SyncInv, Ordered, Placed, AtTurn, Ahead
<1>5. \A v \in Wave :
        /\ pc'[word][v] = "stored" <=> pc[word][v] = "stored"
        /\ pc'[word][v] \in {"store", "done"} => pc'[word][v] = pc[word][v]
  BY <1>1, <1>2, <1>3
<1>6. ASSUME ~serialized PROVE Exclusive'
  <2>1. g # Copier
    BY <1>1, <1>6, NoCopier
  <2> QED
    BY <1>1, <1>2, <1>3, <1>6, <2>1, SameHolders
<1> QED
  BY <1>2, <1>3, <1>4, <1>5, <1>6, OnlyMoves

(* The barrier behind the release ends a workgroup that holds nothing. *)
LEMMA LeaveStep ==
  ASSUME SyncInv, NEW g \in WG, Leave(g) PROVE SyncInv'
<1> USE Sizes
<1>1. ~serialized /\ pc[g][Leader] = "released" /\ GotoAll(g, "done")
  BY DEF Leave
<1>2. /\ pc' \in [WG -> [Wave -> Labels]] /\ \A u \in Wave : pc'[g][u] = "done"
      /\ \A f \in WG \ {g}, u \in Wave : pc'[f][u] = pc[f][u]
  BY <1>1, GotoAllMoves DEF SyncInv, Labels
<1>3. UNCHANGED <<serialized, word, sum, out, aux>>
  BY DEF Leave
<1>4. g # Copier
  BY <1>1, NoCopier
<1>5. Exclusive'
  BY <1>1, <1>2, <1>3, <1>4, SameHolders
<1> QED
  BY <1>1, <1>2, <1>3, <1>5, OnlyMoves

(* A wave adds its row to the rows below the counter. *)
LEMMA LoadStep ==
  ASSUME SyncInv, NEW g \in WG, NEW v \in Wave, Load(g, v) PROVE SyncInv'
<1> USE Sizes
<1>1. g \in Row /\ pc[g][v] = "load" /\ Goto(g, v, "store")
  BY DEF Load
<1>2. /\ pc' \in [WG -> [Wave -> Labels]] /\ pc'[g][v] = "store"
      /\ \A f \in WG, u \in Wave : f # g \/ u # v => pc'[f][u] = pc[f][u]
  BY <1>1, GotoMoves DEF SyncInv, Labels
<1>3. UNCHANGED <<serialized, word, out, aux>>
  BY DEF Load
<1>4. /\ sum' \in [WG -> [Wave -> Seq(Row)]] /\ sum'[g][v] = Append(out[v], g)
      /\ \A f \in WG, u \in Wave : f # g \/ u # v => sum'[f][u] = sum[f][u]
  <2>1. Append(out[v], g) \in Seq(Row)
    BY <1>1 DEF SyncInv, Typed
  <2> QED
    BY <2>1 DEF Load, SyncInv, Typed
<1>5. Typed'
  BY <1>2, <1>3, <1>4 DEF SyncInv, Typed
<1>6. ASSUME serialized PROVE Ordered'
  <2>1. g = word /\ word \in Nat
    BY <1>1, <1>6, AtCounter
  <2>2. Placed'
    BY <1>1, <1>2, <1>3, <1>6, <2>1 DEF SyncInv, Ordered, Placed, AtTurn, Ahead
  <2>3. \A u \in Wave : Added(u)' = Added(u)
    BY <1>1, <1>2, <1>3, <2>1 DEF Added
  <2>4. out[v] = Upto(word)
    BY <1>1, <1>6, <2>1 DEF SyncInv, Ordered, Summed, Added
  <2>5. sum'[g][v] = Upto(word + 1)
    BY <1>4, <2>1, <2>4, AddRow
  <2>6. Summed'
    BY <1>1, <1>2, <1>3, <1>4, <1>6, <2>1, <2>3, <2>5 DEF SyncInv, Ordered, Summed
  <2> QED
    BY <2>2, <2>6 DEF Ordered
<1>7. ASSUME ~serialized PROVE Exclusive'
  <2>1. g # Copier
    BY <1>1
  <2> QED
    BY <1>1, <1>2, <1>3, <1>7, <2>1, SameHolders
<1> QED
  BY <1>3, <1>5, <1>6, <1>7 DEF SyncInv

(* A wave stores the sum it has loaded and added to. *)
LEMMA StoreStep ==
  ASSUME SyncInv, NEW g \in WG, NEW v \in Wave, Store(g, v) PROVE SyncInv'
<1> USE Sizes
<1>1. pc[g][v] = "store" /\ Goto(g, v, "stored")
  BY DEF Store
<1>2. /\ pc' \in [WG -> [Wave -> Labels]] /\ pc'[g][v] = "stored"
      /\ \A f \in WG, u \in Wave : f # g \/ u # v => pc'[f][u] = pc[f][u]
  BY <1>1, GotoMoves DEF SyncInv, Labels
<1>3. UNCHANGED <<serialized, word, sum, aux>>
  BY DEF Store
<1>4. /\ out' \in [Wave -> Seq(Row)] /\ out'[v] = sum[g][v]
      /\ \A u \in Wave \ {v} : out'[u] = out[u]
  BY DEF Store, SyncInv, Typed
<1>5. Typed'
  BY <1>2, <1>3, <1>4 DEF SyncInv, Typed
<1>6. ASSUME serialized PROVE Ordered'
  <2>1. g = word
    BY <1>1, <1>6, AtCounter
  <2>2. g # Copier
    BY <1>1, <1>6, <2>1 DEF SyncInv, Ordered, Placed, AtTurn
  <2>3. Placed'
    BY <1>1, <1>2, <1>3, <1>6, <2>1, <2>2 DEF SyncInv, Ordered, Placed, AtTurn, Ahead
  <2>4. \A u \in Wave \ {v} : Added(u)' = Added(u)
    BY <1>2, <1>3, <2>1 DEF Added
  <2>5. Added(v)' = word + 1
    BY <1>2, <1>3, <2>1 DEF Added
  <2>6. out'[v] = Upto(word + 1)
    BY <1>1, <1>4, <1>6, <2>1 DEF SyncInv, Ordered, Summed
  <2>7. Summed'
    BY <1>2, <1>3, <1>4, <1>6, <2>1, <2>2, <2>4, <2>5, <2>6 DEF SyncInv, Ordered, Summed
  <2> QED
    BY <2>3, <2>7 DEF Ordered
<1>7. ASSUME ~serialized PROVE Exclusive'
  <2>1. g # Copier
    BY <1>1, <1>7, NoCopier
  <2> QED
    BY <1>1, <1>2, <1>3, <1>7, <2>1, SameHolders
<1> QED
  BY <1>3, <1>5, <1>6, <1>7 DEF SyncInv

(* The copier reads the sum of all rows. *)
LEMMA CopyStep ==
  ASSUME SyncInv, NEW g \in WG, NEW v \in Wave, Copy(g, v) PROVE SyncInv'
<1> USE Sizes
<1>1. g = Copier /\ pc[g][v] = "load" /\ Goto(g, v, "done")
  BY DEF Copy
<1>2. /\ pc' \in [WG -> [Wave -> Labels]] /\ pc'[g][v] = "done"
      /\ \A f \in WG, u \in Wave : f # g \/ u # v => pc'[f][u] = pc[f][u]
  BY <1>1, GotoMoves DEF SyncInv, Labels
<1>3. UNCHANGED <<serialized, word, sum, out>>
  BY DEF Copy
<1>4. /\ aux' \in [Wave -> Seq(Row)] /\ aux'[v] = out[v]
      /\ \A u \in Wave \ {v} : aux'[u] = aux[u]
  BY DEF Copy, SyncInv, Typed
<1>5. Typed'
  BY <1>2, <1>3, <1>4 DEF SyncInv, Typed
<1>6. serialized
  BY <1>1, NoCopier
<1>7. g = word
  BY <1>1, <1>6, AtCounter
<1>8. Placed'
  BY <1>1, <1>2, <1>3, <1>6, <1>7 DEF SyncInv, Ordered, Placed, AtTurn, Ahead
<1>9. \A u \in Wave : Added(u)' = Added(u)
  BY <1>1, <1>2, <1>3, <1>7 DEF Added
<1>10. out[v] = Upto(Groups)
  BY <1>1, <1>6, <1>7 DEF SyncInv, Ordered, Summed, Added, Copier
<1>11. Summed'
  BY <1>1, <1>2, <1>3, <1>4, <1>6, <1>7, <1>9, <1>10 DEF SyncInv, Ordered, Summed
<1> QED
  BY <1>3, <1>5, <1>6, <1>8, <1>11 DEF SyncInv, Ordered

(* The increment comes when every wave has stored, and hands the turn on. *)
LEMMA IncStep ==
  ASSUME SyncInv, NEW g \in WG, Inc(g) PROVE SyncInv'
<1> USE Sizes
<1>1. serialized /\ word' = word + 1 /\ \A u \in Wave : pc[g][u] = "stored"
  BY DEF Inc, IncMayStart, All, After
<1>2. /\ pc' \in [WG -> [Wave -> Labels]] /\ \A u \in Wave : pc'[g][u] = "done"
      /\ \A f \in WG \ {g}, u \in Wave : pc'[f][u] = pc[f][u]
  BY <1>1 DEF Inc, SyncInv, Typed, Labels
<1>3. UNCHANGED <<serialized, sum, out, aux>>
  BY DEF Inc
<1>4. g = word
  BY <1>1, AtCounter
<1>5. g # Copier /\ word + 1 \in WG /\ word + 1 # g
  <2>1. g # Copier
    BY <1>1, <1>4 DEF SyncInv, Ordered, Placed, AtTurn
  <2> QED
    BY <1>4, <2>1 DEF WG, Copier
<1>6. Typed'
  BY <1>1, <1>2, <1>3, <1>4, <1>5 DEF SyncInv, Typed, WG
<1>7. \A u \in Wave : pc'[word + 1][u] \in Ahead(u)
  BY <1>1, <1>2, <1>4, <1>5 DEF SyncInv, Ordered, Placed
<1>8. Placed'
  <2> SUFFICES ASSUME NEW f \in WG, NEW u \in Wave
               PROVE  /\ f < word + 1 => pc'[f][u] = "done"
                      /\ f = word + 1 => pc'[f][u] \in AtTurn(f)
                      /\ f > word + 1 => pc'[f][u] \in Ahead(u)
    BY <1>1 DEF Placed, AtTurn, Ahead
  <2>1. f \in Nat /\ word \in Nat
    BY <1>4
  <2>2. CASE f = g
    BY <1>2, <1>4, <2>1, <2>2
  <2>3. CASE f = word + 1
    BY <1>7, <2>1, <2>3 DEF Ahead, AtTurn
  <2>4. CASE f # g /\ f # word + 1
    <3>1. pc'[f][u] = pc[f][u]
      BY <1>2, <2>4
    <3>2. (f < word + 1 => f < word) /\ (f > word + 1 => f > word)
      BY <1>4, <2>1, <2>4
    <3>3. (f < word => pc[f][u] = "done") /\ (f > word => pc[f][u] \in Ahead(u))
      BY <1>1 DEF SyncInv, Ordered, Placed
    <3> QED
      BY <2>4, <3>1, <3>2, <3>3
  <2> QED
    BY <2>2, <2>3, <2>4
<1>9. Summed'
  <2>1. \A u \in Wave : pc'[word'][u] \in {"pending", "poll", "gate"}
    BY <1>1, <1>7 DEF Ahead
  <2>2. \A u \in Wave : Added(u)' = word + 1
    BY <1>1, <2>1 DEF Added
  <2>3. \A u \in Wave : out[u] = Upto(word + 1)
    BY <1>1, <1>4 DEF SyncInv, Ordered, Summed, Added
  <2> QED
    BY <1>3, <2>1, <2>2, <2>3 DEF Summed
<1> QED
  BY <1>1, <1>3, <1>6, <1>8, <1>9 DEF SyncInv, Ordered

(* The release leaves nobody holding the lock. *)
LEMMA ReleaseStep ==
  ASSUME SyncInv, NEW g \in WG, Release(g) PROVE SyncInv'
<1> USE Sizes
<1>1. /\ ~serialized /\ word = 1 /\ word' = 0
      /\ pc[g][Leader] = "stored" /\ Goto(g, Leader, "released")
  BY DEF Release, Unlocked
<1>2. /\ pc' \in [WG -> [Wave -> Labels]] /\ pc'[g][Leader] = "released"
      /\ \A f \in WG, u \in Wave : f # g \/ u # Leader => pc'[f][u] = pc[f][u]
  BY <1>1, GotoMoves DEF SyncInv, Labels
<1>3. Typed' /\ serialized' = serialized
  BY <1>1, <1>2 DEF Release, SyncInv, Typed
<1>4. Holding = {g}
  BY <1>1 DEF SyncInv, Exclusive, Holding
<1>5. Holding' = {}
  BY <1>2, <1>4 DEF Holding
<1>6. g # Copier
  BY <1>1, NoCopier
<1>7. Exclusive'
  BY <1>1, <1>2, <1>5, <1>6 DEF SyncInv, Exclusive
<1> QED
  BY <1>1, <1>3, <1>7 DEF SyncInv

-----------------------------------------------------------------------------

(* The inductive invariant of both modes. *)
THEOREM SyncInvariant == Spec => []SyncInv
<1>1. SyncInv /\ [Next]_vars => SyncInv'
  <2> SUFFICES ASSUME SyncInv, [Next]_vars PROVE SyncInv'
    OBVIOUS
  <2>1. ASSUME NEW g \in WG, GroupStep(g) PROVE SyncInv'
    BY <2>1, DispatchStep, WaitEqStep, AquireStep, EnterStep, IncStep, ReleaseStep, LeaveStep
       DEF GroupStep
  <2>2. ASSUME NEW g \in WG, NEW v \in Wave, WaveStep(g, v) PROVE SyncInv'
    BY <2>2, LoadStep, StoreStep, CopyStep DEF WaveStep
  <2>3. CASE UNCHANGED vars
    <3>1. UNCHANGED Placed /\ UNCHANGED Summed /\ UNCHANGED Exclusive
      BY <2>3 DEF vars, Placed, Summed, Added, Exclusive, Holding
    <3> QED
      BY <2>3, <3>1 DEF vars, SyncInv, Typed, Ordered
  <2> QED
    BY <2>1, <2>2, <2>3 DEF Next
<1> QED
  BY <1>1, SyncInit, PTL DEF Spec

(* Type correctness in both modes. *)
THEOREM TypeCorrect == Spec => []TypeOK
<1>1. SyncInv => TypeOK
  BY SizeAssumption DEF SyncInv, Typed, Exclusive, Labels, TypeOK
<1> QED
  BY <1>1, SyncInvariant, PTL

(* Serialized: rows are added in index order, and every row below the counter
   is in every part of the output. *)
THEOREM RowsInOrder == Spec => []InOrder
<1>1. SyncInv => InOrder
  <2> SUFFICES ASSUME SyncInv, serialized, NEW v \in Wave
               PROVE  out[v] = Upto(Len(out[v])) /\ Len(out[v]) >= word
    BY DEF InOrder, Upto
  <2>1. Added(v) \in Nat /\ Added(v) >= word
    BY DEF SyncInv, Typed, Added
  <2>2. out[v] = Upto(Added(v))
    BY DEF SyncInv, Ordered, Summed
  <2> QED
    BY <2>1, <2>2, AddRow
<1> QED
  BY <1>1, SyncInvariant, PTL

(* Serialized: what the extra workgroup has copied when the kernel ends is the
   complete sum. *)
THEOREM CopyIsFinal == Spec => []AuxIsFinal
<1>1. SyncInv => AuxIsFinal
  <2> SUFFICES ASSUME SyncInv, serialized, Finished, NEW v \in Wave
               PROVE  aux[v] = out[v] /\ Len(aux[v]) = Groups
    BY DEF AuxIsFinal
  <2>1. word \in WG
    BY DEF SyncInv, Typed, WG
  <2>2. pc[word][v] = "done"
    BY <2>1 DEF Finished, All
  <2>3. word = Copier
    BY <2>1, <2>2 DEF SyncInv, Ordered, Placed, AtTurn
  <2>4. out[v] = Upto(Groups) /\ aux[v] = Upto(Groups)
    BY <2>2, <2>3 DEF SyncInv, Ordered, Summed, Added, Copier
  <2> QED
    BY <2>4, Sizes, AddRow
<1> QED
  BY <1>1, SyncInvariant, PTL

(* Out of order: the leaders of two workgroups are never between the exchange
   and the release at the same time. *)
THEOREM LeadersApart == Spec => []LeaderExclusive
<1>1. SyncInv => LeaderExclusive
  <2> SUFFICES ASSUME SyncInv, ~serialized PROVE Cardinality(Holding) = word
    BY DEF LeaderExclusive
  <2>1. CASE word = 0
    BY <2>1, FS_EmptySet DEF SyncInv, Exclusive
  <2>2. CASE word = 1
    BY <2>2, FS_Singleton DEF SyncInv, Exclusive
  <2> QED
    BY <2>1, <2>2 DEF SyncInv, Exclusive
<1> QED
  BY <1>1, SyncInvariant, PTL

=============================================================================
