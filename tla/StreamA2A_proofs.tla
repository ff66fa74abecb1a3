-------------------------- MODULE StreamA2A_proofs --------------------------
(***************************************************************************)
(* Proofs about StreamA2A, for every number of ranks and epochs.           *)
(***************************************************************************)
EXTENDS StreamA2A, FiniteSetTheorems, TLAPS

(***************************************************************************)
(* Slots, targets and counts.                                              *)
(***************************************************************************)

(* Epoch parity picks one of the two slots. *)
LEMMA SlotType == ASSUME NEW e \in Int PROVE Slot(e) \in Slots
  BY DEF Slot, Slots

(* Consecutive epochs use different slots, every second epoch the same. *)
LEMMA SlotParity ==
  ASSUME NEW d \in Int, NEW e \in Int, Slot(d) = Slot(e), d > e
  PROVE  d >= e + 2
  BY DEF Slot

LEMMA SlotAlternates ==
  ASSUME NEW e \in Int
  PROVE  Slot(e + 2) = Slot(e) /\ Slot(e + 1) # Slot(e) /\ Slot(e - 1) # Slot(e)
  BY DEF Slot

(* One more epoch adds one to the count of its own slot and leaves the other. *)
LEMMA CountStep ==
  ASSUME NEW n \in Nat, NEW s \in Slots
  PROVE  Count(n + 1, s) = IF s = Slot(n) THEN Count(n, s) + 1 ELSE Count(n, s)
  BY DEF Count, Slot, Slots

LEMMA CountType == ASSUME NEW n \in Nat, NEW s \in Slots PROVE Count(n, s) \in Nat
  BY DEF Count, Slots

(* A counter at the target of epoch e stands for at least e + 1 epochs. *)
LEMMA CountTarget ==
  ASSUME NEW n \in Nat, NEW e \in Nat, Count(n, Slot(e)) >= Target(e)
  PROVE  n >= e + 1
  BY DEF Count, Slot, Target

(* The last epoch a count stands for is among the first n. *)
LEMMA CountBound ==
  ASSUME NEW n \in Nat, NEW s \in Slots, Count(n, s) > 0
  PROVE  /\ 2 * (Count(n, s) - 1) + s <= n - 1
         /\ Slot(2 * (Count(n, s) - 1) + s) = s
         /\ 2 * (Count(n, s) - 1) + s >= 0
  BY DEF Count, Slot, Slots

(***************************************************************************)
(* Types.                                                                  *)
(***************************************************************************)

LEMMA NextPartType ==
  ASSUME NEW r \in Ranks, open[r] \in SUBSET Ranks
  PROVE  NextPart(r) \in Ranks
<1>1. IsFiniteSet(Ranks)
  BY RAssumption, FS_Interval DEF Ranks
<1>2. Cardinality(open[r]) \in Nat
  BY <1>1, FS_Subset, FS_CardinalityType
<1>3. QED
  BY <1>2, RAssumption DEF NextPart, Ranks

LEMMA TypeStep == TypeOK /\ [Next]_vars => TypeOK'
<1> SUFFICES ASSUME TypeOK, [Next]_vars PROVE TypeOK'
  OBVIOUS
<1> USE DEF TypeOK, FabricType
<1>1. ASSUME NEW r \in Ranks, Post(r) PROVE TypeOK'
  <2>1. flight' \subseteq Put
    <3>1. {[src |-> r, dst |-> p, epoch |-> posted[r]] : p \in Peers(r)} \subseteq Put
      BY DEF Put, Peers
    <3>2. QED
      BY <1>1, <3>1 DEF Post, PostAll
  <2>2. QED
    BY <1>1, <2>1 DEF Post
<1>2. ASSUME NEW r \in Ranks, SelfCopy(r) PROVE TypeOK'
  <2>1. Slot(Current(r)) \in Slots
    BY SlotType DEF Current
  <2>2. Current(r) \in Nat \cup {Empty}
    BY DEF Current, Empty
  <2>3. recv' \in [Ranks -> [Slots -> [Ranks -> Nat \cup {Empty}]]]
    BY <1>2, <2>1, <2>2 DEF SelfCopy, CopySelf
  <2>4. stage' \in [Ranks -> Nat]
    BY <1>2 DEF SelfCopy
  <2>5. cpc' \in [Ranks -> {"idle", "copy", "notify", "await"}]
    BY <1>2 DEF SelfCopy
  <2>6. QED
    BY <1>2, <2>3, <2>4, <2>5 DEF SelfCopy
<1>3. ASSUME NEW r \in Ranks, NEW p \in Peers(r), QuietNotify(r, p) PROVE TypeOK'
  <2>1. Slot(Current(r)) \in Slots
    BY SlotType DEF Current
  <2>2. ready' \in [Ranks -> [Slots -> [Ranks -> Nat]]]
    BY <1>3, <2>1 DEF QuietNotify, Signal, Peers
  <2>3. QED
    BY <1>3, <2>2 DEF QuietNotify, Peers
<1>4. ASSUME NEW r \in Ranks, WaitReady(r) PROVE TypeOK'
  BY <1>4 DEF WaitReady, fabric
<1>5. ASSUME NEW r \in Ranks, StartGemm(r) PROVE TypeOK'
  BY <1>5 DEF StartGemm, fabric
<1>6. ASSUME NEW r \in Ranks, OpenShard(r) PROVE TypeOK'
  BY <1>6, NextPartType DEF OpenShard, fabric
<1>7. ASSUME NEW r \in Ranks, FinishGemm(r) PROVE TypeOK'
  BY <1>7 DEF FinishGemm, fabric
<1>8. ASSUME NEW m \in flight, Land(m), UNCHANGED streams PROVE TypeOK'
  <2>1. m \in Put
    OBVIOUS
  <2>2. m.src \in Ranks /\ m.dst \in Ranks /\ m.epoch \in Nat
    BY <2>1 DEF Put
  <2>3. Slot(m.epoch) \in Slots
    BY <2>2, SlotType
  <2>4. recv' \in [Ranks -> [Slots -> [Ranks -> Nat \cup {Empty}]]]
    BY <1>8, <2>2, <2>3 DEF Land
  <2>5. QED
    BY <1>8, <2>4 DEF Land, streams
<1>9. CASE UNCHANGED vars
  BY <1>9 DEF vars, fabric, streams
<1>10. QED
  BY <1>1, <1>2, <1>3, <1>4, <1>5, <1>6, <1>7, <1>8, <1>9
  DEF Next, CommStream, ComputeStream, SdmaStep

(* The variables of StreamA2A keep their types. *)
THEOREM TypeCorrect == Spec => []TypeOK
<1>1. Init => TypeOK
  BY DEF Init, FabricInit, TypeOK, FabricType, Put, Empty
<1>2. QED
  BY <1>1, TypeStep, PTL DEF Spec

(***************************************************************************)
(* The two counts, and what each action does to them.                      *)
(***************************************************************************)

LEMMA FlightFacts ==
  ASSUME IInv, NEW m \in flight
  PROVE  /\ m.src \in Ranks /\ m.dst \in Ranks /\ m.epoch \in Nat
         /\ m.src # m.dst
         /\ posted[m.src] \in Nat /\ posted[m.src] >= 1
         /\ m.epoch = posted[m.src] - 1
         /\ Signalled(m.src, m.dst) = posted[m.src] - 1
         /\ m = [src |-> m.src, dst |-> m.dst, epoch |-> m.epoch]
<1>1. m \in Put /\ posted \in [Ranks -> Nat]
  BY DEF IInv, TypeOK, FabricType
<1>2. QED
  BY <1>1 DEF IInv, FlightOrder, Put

LEMMA CountsOf ==
  ASSUME IInv, NEW p \in Ranks, NEW r \in Ranks
  PROVE  /\ Signalled(p, r) \in Nat
         /\ Delivered(p, r) \in Nat
         /\ Signalled(p, r) \in {posted[p] - 1, posted[p]}
         /\ Delivered(p, r) \in {posted[p] - 1, posted[p]}
         /\ p # r => Signalled(p, r) <= Delivered(p, r)
<1> USE DEF IInv, TypeOK, FabricType
<1>0. posted[p] \in Nat /\ (cpc[p] # "idle" => posted[p] >= 1)
  BY DEF StreamOrder
<1>1. Signalled(p, r) \in Nat /\ Signalled(p, r) \in {posted[p] - 1, posted[p]}
  BY <1>0 DEF Signalled
<1>2. Delivered(p, r) \in Nat /\ Delivered(p, r) \in {posted[p] - 1, posted[p]}
  BY <1>0 DEF FlightOrder, Delivered
<1>3. ASSUME p # r PROVE Signalled(p, r) <= Delivered(p, r)
  <2>1. CASE \E m \in flight : m.src = p /\ m.dst = r
    BY <2>1, <1>1, <1>2, <1>3 DEF FlightOrder, Delivered
  <2>2. CASE ~ \E m \in flight : m.src = p /\ m.dst = r
    BY <2>2, <1>1, <1>2, <1>3 DEF Delivered
  <2>3. QED
    BY <2>1, <2>2
<1>4. QED
  BY <1>1, <1>2, <1>3

(* What a slot holds when the count of delivered epochs is known. *)
LEMMA SlotHolds ==
  ASSUME IInv, NEW r \in Ranks, NEW p \in Ranks, NEW e \in Nat,
         Delivered(p, r) \in {e + 1, e + 2}
  PROVE  recv[r][Slot(e)][p] = e
<1>1. PICK k \in {1, 2} : Delivered(p, r) = e + k
  OBVIOUS
<1>2. Delivered(p, r) >= k /\ Delivered(p, r) - k = e
  BY <1>1
<1>3. recv[r][Slot(Delivered(p, r) - k)][p] = Delivered(p, r) - k
  BY <1>2 DEF IInv, RecvHistory
<1>4. QED
  BY <1>2, <1>3

(***************************************************************************)
(* No rank posts more than four epochs past what another has computed, and *)
(* in the serial schedule no more than two.                                *)
(***************************************************************************)
LEMMA Skew ==
  ASSUME IInv, NEW p \in Ranks, NEW r \in Ranks
  PROVE  /\ posted[p] <= done[r] + 4
         /\ Schedule = "serial" => posted[p] <= done[r] + 2
<1> USE DEF IInv, TypeOK
<1>1. CASE p = r
  BY <1>1 DEF StreamOrder
<1>2. CASE p # r
  <2>1. Signalled(r, p) >= done[p] /\ Signalled(r, p) <= posted[r]
    BY <1>2, CountsOf DEF Gated, Peers
  <2>2. posted[p] \in Nat /\ done[p] \in Nat /\ posted[r] \in Nat
        /\ done[r] \in Nat /\ Signalled(r, p) \in Nat
    BY CountsOf
  <2>3. posted[p] <= done[p] + 2 /\ posted[r] <= done[r] + 2
    BY DEF StreamOrder
  <2>4. Schedule = "serial" =>
          posted[p] <= done[p] + 1 /\ posted[r] <= done[r] + 1
    BY DEF StreamOrder
  <2>5. QED
    BY <2>1, <2>2, <2>3, <2>4
<1>3. QED
  BY <1>1, <1>2

(***************************************************************************)
(* The parts of IInv that speak of several ranks depend on the state only  *)
(* through the two counts; a step that keeps the counts keeps them.        *)
(***************************************************************************)
SameCounts ==
  \A p, r \in Ranks : /\ p # r => Signalled(p, r)' = Signalled(p, r)
                      /\ Delivered(p, r)' = Delivered(p, r)

LEMMA SameCountsKeep ==
  ASSUME IInv, TypeOK', SameCounts, UNCHANGED <<recv, ready>>
  PROVE  ReadyCounts' /\ RecvHistory'
<1>1. ReadyCounts'
  BY DEF IInv, ReadyCounts, SameCounts, Peers
<1>2. RecvHistory'
  BY DEF IInv, RecvHistory, SameCounts
<1>3. QED
  BY <1>1, <1>2

LEMMA PostStep ==
  ASSUME IInv, TypeOK', NEW r \in Ranks, Post(r) PROVE IInv'
<1> USE DEF IInv, TypeOK, FabricType
<1>1. /\ cpc[r] = "idle" /\ posted[r] < Epochs
      /\ posted' = [posted EXCEPT ![r] = posted[r] + 1]
      /\ cpc' = [cpc EXCEPT ![r] = "copy"]
      /\ told' = [told EXCEPT ![r] = {}]
      /\ flight' = flight \cup
           {[src |-> r, dst |-> p, epoch |-> posted[r]] : p \in Peers(r)}
      /\ UNCHANGED <<recv, ready, stage, running, open, done>>
  BY DEF Post, PostAll
<1>a. /\ posted[r] \in Nat /\ posted'[r] = posted[r] + 1
      /\ posted'[r] - 1 = posted[r]
      /\ cpc'[r] = "copy" /\ told'[r] = {}
      /\ stage'[r] = stage[r] /\ done'[r] = done[r] /\ running'[r] = running[r]
      /\ open'[r] = open[r]
  BY <1>1
<1>2. \A m \in flight : m.src # r
  <2> SUFFICES ASSUME NEW m \in flight, m.src = r PROVE FALSE
    OBVIOUS
  <2>1. Signalled(r, m.dst) = posted[r] - 1 /\ posted[r] \in Nat
    BY FlightFacts
  <2>2. Signalled(r, m.dst) = posted[r]
    BY <1>1 DEF Signalled
  <2>3. QED
    BY <2>1, <2>2
<1>3. \A p, q \in Ranks : Signalled(p, q)' = Signalled(p, q)
  BY <1>1 DEF Signalled
<1>4. \A q \in Ranks : Delivered(r, q)' = posted[r] /\ Delivered(r, q) = posted[r]
  <2> TAKE q \in Ranks
  <2>1. Delivered(r, q) = posted[r]
    BY <1>1, <1>2 DEF Delivered
  <2>2. CASE q = r
    BY <2>1, <2>2, <1>1 DEF Delivered
  <2>3. CASE q # r
    <3>1. [src |-> r, dst |-> q, epoch |-> posted[r]] \in flight'
      BY <2>3, <1>1 DEF Peers
    <3>2. \E m \in flight' : m.src = r /\ m.dst = q
      BY <3>1
    <3>3. QED
      BY <2>1, <3>2, <1>a DEF Delivered
  <2>4. QED
    BY <2>2, <2>3
<1>5. \A p, q \in Ranks : p # r => Delivered(p, q)' = Delivered(p, q)
  <2> TAKE p, q \in Ranks
  <2> HAVE p # r
  <2>1. (\E m \in flight' : m.src = p /\ m.dst = q)
        <=> (\E m \in flight : m.src = p /\ m.dst = q)
    BY <1>1
  <2>2. QED
    BY <2>1, <1>1 DEF Delivered
<1>6. SameCounts
  BY <1>3, <1>4, <1>5 DEF SameCounts
<1>7. \A p \in Ranks : StreamOrder(p)'
  <2> TAKE p \in Ranks
  <2>1. CASE p = r
    <3>1. StreamOrder(r)
      OBVIOUS
    <3>2. posted[r] + 1 <= done[r] + 2
          /\ (Schedule = "serial" => posted[r] = done[r] /\ ~running[r])
      BY <3>1, <1>1, ScheduleAssumption DEF StreamOrder, Post, MayPost
    <3>3. stage[r] = posted[r]
      BY <3>1, <1>1 DEF StreamOrder
    <3>4. QED
      BY <2>1, <3>1, <3>2, <3>3, <1>1, <1>a, EpochsAssumption DEF StreamOrder
  <2>2. CASE p # r
    BY <2>2, <1>1 DEF StreamOrder
  <2>3. QED
    BY <2>1, <2>2
<1>8. FlightOrder'
  <2> SUFFICES ASSUME NEW m \in flight'
               PROVE  /\ m.src # m.dst
                      /\ posted'[m.src] >= 1
                      /\ m.epoch = posted'[m.src] - 1
                      /\ Signalled(m.src, m.dst)' = posted'[m.src] - 1
    BY DEF FlightOrder
  <2>1. CASE m \in flight
    <3>1. m.src \in Ranks /\ m.dst \in Ranks /\ m.src # r
      BY <2>1, <1>2 DEF Put
    <3>2. QED
      BY <2>1, <3>1, <1>1, <1>3 DEF FlightOrder
  <2>2. CASE m \notin flight
    <3>1. PICK q \in Peers(r) : m = [src |-> r, dst |-> q, epoch |-> posted[r]]
      BY <2>2, <1>1
    <3>2. Signalled(r, q)' = posted[r]
      BY <3>1, <1>1 DEF Signalled, Peers
    <3>3. QED
      BY <3>1, <3>2, <1>a DEF Peers
  <2>3. QED
    BY <2>1, <2>2
<1>9. ReadyCounts' /\ RecvHistory'
  BY <1>1, <1>6, SameCountsKeep
<1>10. Gated'
  BY <1>1, <1>3 DEF Gated, Peers
<1>11. QED
  BY <1>7, <1>8, <1>9, <1>10

(* A step of one rank's streams that neither posts nor signals nor lands keeps
   what the other ranks' parts of the invariant rest on. *)
LEMMA FlightOrderKeep ==
  ASSUME IInv, UNCHANGED <<flight, posted>>,
         \A p, q \in Ranks : p # q =>
           Signalled(p, q)' = Signalled(p, q)
           \/ \A m \in flight : ~(m.src = p /\ m.dst = q)
  PROVE  FlightOrder'
<1> SUFFICES ASSUME NEW m \in flight
             PROVE  /\ m.src # m.dst
                    /\ posted[m.src] >= 1
                    /\ m.epoch = posted[m.src] - 1
                    /\ Signalled(m.src, m.dst)' = posted[m.src] - 1
  BY DEF FlightOrder
<1> QED
  BY FlightFacts

LEMMA SelfCopyStep ==
  ASSUME IInv, TypeOK', NEW r \in Ranks, SelfCopy(r) PROVE IInv'
<1> USE DEF IInv, TypeOK, FabricType
<1> DEFINE e == posted[r] - 1
<1>1. /\ cpc[r] = "copy"
      /\ recv' = [recv EXCEPT ![r][Slot(e)][r] = e]
      /\ cpc' = [cpc EXCEPT ![r] = "notify"]
      /\ stage' = IF Schedule = "intra"
                  THEN [stage EXCEPT ![r] = stage[r] + 1] ELSE stage
      /\ UNCHANGED <<flight, ready, posted, told, running, open, done>>
  BY DEF SelfCopy, CopySelf, Current
<1>2. /\ told[r] = {} /\ stage[r] = posted[r] - 1 /\ posted[r] >= 1
      /\ posted[r] \in Nat /\ e \in Nat /\ Slot(e) \in Slots
      /\ posted'[r] = posted[r] /\ cpc'[r] = "notify" /\ told'[r] = {}
      /\ done'[r] = done[r] /\ running'[r] = running[r] /\ open'[r] = open[r]
      /\ stage'[r] = IF Schedule = "intra" THEN posted[r] ELSE posted[r] - 1
  BY <1>1, SlotType DEF StreamOrder
<1>3. \A p, q \in Ranks : Signalled(p, q)' = Signalled(p, q)
  BY <1>1, <1>2 DEF Signalled
<1>4. \A p, q \in Ranks : ~(p = r /\ q = r) => Delivered(p, q)' = Delivered(p, q)
  BY <1>1, <1>2 DEF Delivered
<1>5. Delivered(r, r) = posted[r] - 1 /\ Delivered(r, r)' = posted[r]
  <2>1. \A m \in flight : ~(m.src = r /\ m.dst = r)
    BY FlightFacts
  <2>2. QED
    BY <2>1, <1>1, <1>2 DEF Delivered
<1>6. \A p \in Ranks : StreamOrder(p)'
  <2> TAKE p \in Ranks
  <2>1. CASE p = r
    <3>1. Peers(r) # {}
      <4>1. r = 0 => 1 \in Peers(r)
        BY RAssumption DEF Peers, Ranks
      <4>2. r # 0 => 0 \in Peers(r)
        BY RAssumption DEF Peers, Ranks
      <4>3. QED
        BY <4>1, <4>2
    <3>2. QED
      BY <2>1, <1>1, <1>2, <3>1 DEF StreamOrder
  <2>2. CASE p # r
    BY <2>2, <1>1 DEF StreamOrder
  <2>3. QED
    BY <2>1, <2>2
<1>7. FlightOrder'
  BY <1>1, <1>3, FlightOrderKeep
<1>8. ReadyCounts'
  BY <1>1, <1>3 DEF ReadyCounts, Peers
<1>9. RecvHistory'
  <2> SUFFICES ASSUME NEW q \in Ranks, NEW p \in Ranks, NEW k \in {1, 2},
                      Delivered(p, q)' >= k
               PROVE  recv'[q][Slot(Delivered(p, q)' - k)][p] = Delivered(p, q)' - k
    BY DEF RecvHistory
  <2>1. CASE ~(p = r /\ q = r)
    <3>1. recv[q][Slot(Delivered(p, q) - k)][p] = Delivered(p, q) - k
      BY <2>1, <1>4 DEF RecvHistory
    <3>2. Slot(Delivered(p, q) - k) \in Slots
      <4>1. Delivered(p, q) \in Nat
        BY CountsOf
      <4>2. Delivered(p, q) - k \in Int
        BY <4>1
      <4>3. QED
        BY <4>2, SlotType
    <3>3. recv'[q][Slot(Delivered(p, q) - k)][p]
            = recv[q][Slot(Delivered(p, q) - k)][p]
      BY <2>1, <3>2, <1>1, <1>2
    <3>4. QED
      BY <2>1, <3>1, <3>3, <1>4
  <2>2. CASE p = r /\ q = r /\ k = 1
    BY <2>2, <1>1, <1>2, <1>5
  <2>3. CASE p = r /\ q = r /\ k = 2
    <3>1. recv[r][Slot(posted[r] - 2)][r] = posted[r] - 2
      <4>1. posted[r] - 2 \in Nat
        BY <2>3, <1>2, <1>5
      <4>2. Delivered(r, r) \in {(posted[r] - 2) + 1, (posted[r] - 2) + 2}
        BY <4>1, <1>2, <1>5
      <4>3. QED
        BY <4>1, <4>2, SlotHolds
    <3>2. Slot(posted[r] - 2) # Slot(e) /\ Slot(posted[r] - 2) \in Slots
      <4>1. posted[r] - 2 = e - 1
        BY <1>2
      <4>2. QED
        BY <4>1, <1>2, SlotAlternates, SlotType
    <3>3. QED
      BY <2>3, <3>1, <3>2, <1>1, <1>2, <1>5
  <2>4. QED
    BY <2>1, <2>2, <2>3
<1>10. Gated'
  <2>1. \A q \in Ranks : Schedule # "intra" => stage'[q] = stage[q]
    BY <1>1
  <2>2. QED
    BY <2>1, <1>1, <1>3 DEF Gated, Peers
<1>11. QED
  BY <1>6, <1>7, <1>8, <1>9, <1>10

LEMMA QuietNotifyStep ==
  ASSUME IInv, TypeOK', NEW r \in Ranks, NEW p \in Peers(r), QuietNotify(r, p)
  PROVE  IInv'
<1> USE DEF IInv, TypeOK, FabricType
<1> DEFINE e == posted[r] - 1
<1>1. /\ cpc[r] = "notify" /\ p \notin told[r] /\ Drained(r, p)
      /\ ready' = [ready EXCEPT ![p][Slot(e)][r] = ready[p][Slot(e)][r] + 1]
      /\ told' = [told EXCEPT ![r] = told[r] \cup {p}]
      /\ cpc' = IF told'[r] = Peers(r)
                THEN [cpc EXCEPT ![r] =
                        IF Schedule = "intra" THEN "idle" ELSE "await"]
                ELSE cpc
      /\ UNCHANGED <<flight, recv, posted, stage, running, open, done>>
  BY DEF QuietNotify, Signal, Current
<1>2. /\ p \in Ranks /\ p # r
      /\ posted[r] >= 1 /\ posted[r] \in Nat /\ e \in Nat /\ Slot(e) \in Slots
      /\ told[r] \subseteq Peers(r) /\ told'[r] = told[r] \cup {p}
      /\ told'[r] \subseteq Peers(r)
      /\ cpc'[r] = IF told'[r] = Peers(r)
                   THEN (IF Schedule = "intra" THEN "idle" ELSE "await")
                   ELSE "notify"
      /\ \A q \in Ranks : q # r => cpc'[q] = cpc[q] /\ told'[q] = told[q]
      /\ UNCHANGED <<flight, recv, posted, stage, running, open, done>>
  <2>1. p \in Ranks /\ p # r /\ told[r] \subseteq Peers(r)
    BY DEF StreamOrder, Peers
  <2>2. posted[r] >= 1 /\ posted[r] \in Nat /\ e \in Nat
    BY <1>1 DEF StreamOrder
  <2>3. Slot(e) \in Slots
    BY <2>2, SlotType
  <2>4. told'[r] = told[r] \cup {p}
    BY <1>1
  <2>5. \A q \in Ranks : q # r => cpc'[q] = cpc[q] /\ told'[q] = told[q]
    BY <1>1
  <2>6. cpc'[r] = IF told'[r] = Peers(r)
                  THEN (IF Schedule = "intra" THEN "idle" ELSE "await")
                  ELSE "notify"
    BY <1>1
  <2>7. QED
    BY <1>1, <2>1, <2>2, <2>3, <2>4, <2>5, <2>6
<1>3. Signalled(r, p) = e /\ Signalled(r, p)' = e + 1
  <2>1. Signalled(r, p) = e
    BY <1>1 DEF Signalled
  <2>2. p \in told'[r] /\ cpc'[r] # "copy"
    BY <1>2
  <2>3. QED
    BY <2>1, <2>2, <1>2 DEF Signalled
<1>4. \A q, s \in Ranks : q # s /\ ~(q = r /\ s = p) =>
        Signalled(q, s)' = Signalled(q, s)
  <2> TAKE q, s \in Ranks
  <2> HAVE q # s /\ ~(q = r /\ s = p)
  <2>1. CASE q = r
    <3>1. s \in told'[r] <=> s \in told[r]
      BY <2>1, <1>2
    <3>2. told'[r] = Peers(r) => s \in told[r]
      BY <2>1, <3>1 DEF Peers
    <3>3. CASE told'[r] = Peers(r)
      BY <3>3, <3>2, <2>1, <1>1, <1>2 DEF Signalled
    <3>4. CASE told'[r] # Peers(r)
      BY <3>4, <3>1, <2>1, <1>1, <1>2 DEF Signalled
    <3>5. QED
      BY <3>3, <3>4
  <2>2. CASE q # r
    BY <2>2, <1>2 DEF Signalled
  <2>3. QED
    BY <2>1, <2>2
<1>5. \A q, s \in Ranks : Delivered(q, s)' = Delivered(q, s)
  <2> TAKE q, s \in Ranks
  <2>1. cpc'[q] = "copy" <=> cpc[q] = "copy"
    BY <1>1, <1>2
  <2>2. QED
    BY <2>1, <1>2 DEF Delivered
<1>6. \A q \in Ranks : StreamOrder(q)'
  <2> TAKE q \in Ranks
  <2>1. CASE q = r
    BY <2>1, <1>1, <1>2 DEF StreamOrder
  <2>2. CASE q # r
    BY <2>2, <1>2 DEF StreamOrder
  <2>3. QED
    BY <2>1, <2>2
<1>7. FlightOrder'
  BY <1>1, <1>2, <1>4, FlightOrderKeep DEF Drained
<1>8. ReadyCounts'
  <2> SUFFICES ASSUME NEW q \in Ranks, NEW s \in Slots
               PROVE  /\ ready'[q][s][q] = 0
                      /\ \A t \in Peers(q) : ready'[q][s][t] = Count(Signalled(t, q)', s)
    BY DEF ReadyCounts
  <2>1. ready'[q][s][q] = 0
    BY <1>1, <1>2 DEF ReadyCounts
  <2>2. ASSUME NEW t \in Peers(q)
        PROVE  ready'[q][s][t] = Count(Signalled(t, q)', s)
    <3>1. ready[q][s][t] = Count(Signalled(t, q), s) /\ t \in Ranks /\ t # q
      BY DEF ReadyCounts, Peers
    <3>2. CASE t = r /\ q = p
      <4>1. Count(e + 1, s) = IF s = Slot(e) THEN Count(e, s) + 1 ELSE Count(e, s)
        BY <1>2, CountStep
      <4>2. QED
        BY <3>1, <3>2, <4>1, <1>1, <1>2, <1>3
    <3>3. CASE ~(t = r /\ q = p)
      BY <3>1, <3>3, <1>1, <1>2, <1>4
    <3>4. QED
      BY <3>2, <3>3
  <2>3. QED
    BY <2>1, <2>2
<1>9. RecvHistory'
  BY <1>2, <1>5 DEF RecvHistory
<1>10. Gated'
  <2> SUFFICES ASSUME NEW q \in Ranks, NEW t \in Peers(q)
               PROVE  /\ Signalled(t, q)' >= done[q]
                      /\ running[q] /\ t \in open[q] => Signalled(t, q)' >= done[q] + 1
                      /\ Schedule # "intra" => Signalled(t, q)' >= stage[q]
    BY <1>2 DEF Gated
  <2>1. t \in Ranks /\ t # q
    BY DEF Peers
  <2>2. Signalled(t, q)' \in Int /\ Signalled(t, q) \in Int
        /\ Signalled(t, q)' >= Signalled(t, q)
    <3>1. Signalled(t, q) \in Int
      BY <2>1, CountsOf
    <3>2. CASE t = r /\ q = p
      BY <3>1, <3>2, <1>2, <1>3
    <3>3. CASE ~(t = r /\ q = p)
      BY <3>1, <3>3, <2>1, <1>4
    <3>4. QED
      BY <3>1, <3>2, <3>3
  <2>3. QED
    BY <2>1, <2>2 DEF Gated
<1>11. QED
  BY <1>6, <1>7, <1>8, <1>9, <1>10

(* Steps of the streams that move no data and send no signal. *)
LEMMA QuietStep ==
  ASSUME IInv, TypeOK', UNCHANGED <<fabric, posted, told>>,
         \A q \in Ranks : StreamOrder(q)',
         \A q \in Ranks : cpc'[q] = cpc[q]
                          \/ (cpc[q] = "await" /\ cpc'[q] = "idle"),
         Gated'
  PROVE  IInv'
<1>1. UNCHANGED <<flight, recv, ready, posted, told>>
  BY DEF fabric
<1>2. \A p, q \in Ranks : Signalled(p, q)' = Signalled(p, q)
  BY <1>1 DEF Signalled
<1>3. \A p, q \in Ranks : Delivered(p, q)' = Delivered(p, q)
  <2> TAKE p, q \in Ranks
  <2>1. cpc'[p] = "copy" <=> cpc[p] = "copy"
    OBVIOUS
  <2>2. QED
    BY <2>1, <1>1 DEF Delivered
<1>4. FlightOrder'
  BY <1>1, <1>2, FlightOrderKeep
<1>5. ReadyCounts' /\ RecvHistory'
  BY <1>1, <1>2, <1>3, SameCountsKeep DEF SameCounts
<1>6. QED
  BY <1>4, <1>5 DEF IInv

LEMMA WaitReadyStep ==
  ASSUME IInv, TypeOK', NEW r \in Ranks, WaitReady(r) PROVE IInv'
<1> USE DEF IInv, TypeOK, FabricType
<1>1. /\ cpc[r] = "await" /\ \A p \in Peers(r) : Arrived(r, p, posted[r] - 1)
      /\ cpc' = [cpc EXCEPT ![r] = "idle"]
      /\ stage' = [stage EXCEPT ![r] = stage[r] + 1]
      /\ UNCHANGED <<fabric, posted, told, running, open, done>>
  BY DEF WaitReady, Current
<1>2. /\ UNCHANGED <<flight, recv, ready, posted, told, running, open, done>>
      /\ Schedule # "intra" /\ posted[r] >= 1 /\ posted[r] \in Nat
      /\ stage[r] = posted[r] - 1 /\ stage'[r] = posted[r]
      /\ cpc'[r] = "idle"
  BY <1>1 DEF StreamOrder, fabric
<1>3. \A p, q \in Ranks : Signalled(p, q)' = Signalled(p, q)
  BY <1>1, <1>2 DEF Signalled
<1>4. \A p \in Peers(r) : Signalled(p, r) >= posted[r]
  <2> TAKE p \in Peers(r)
  <2>1. Signalled(p, r) \in Nat
    BY CountsOf DEF Peers
  <2>2. Slot(posted[r] - 1) \in Slots /\ posted[r] - 1 \in Nat
    BY <1>2, SlotType
  <2>3. ready[r][Slot(posted[r] - 1)][p] = Count(Signalled(p, r), Slot(posted[r] - 1))
    BY <2>2 DEF ReadyCounts
  <2>4. Count(Signalled(p, r), Slot(posted[r] - 1)) >= Target(posted[r] - 1)
    BY <1>1, <2>3 DEF Arrived
  <2>5. Signalled(p, r) >= (posted[r] - 1) + 1
    BY <2>1, <2>2, <2>4, CountTarget
  <2>6. QED
    BY <2>5, <1>2
<1>5. \A q \in Ranks : StreamOrder(q)'
  <2> TAKE q \in Ranks
  <2>1. CASE q = r
    BY <2>1, <1>1, <1>2 DEF StreamOrder
  <2>2. CASE q # r
    BY <2>2, <1>1, <1>2 DEF StreamOrder
  <2>3. QED
    BY <2>1, <2>2
<1>6. Gated'
  <2> SUFFICES ASSUME NEW q \in Ranks, NEW p \in Peers(q)
               PROVE  /\ Signalled(p, q) >= done[q]
                      /\ running[q] /\ p \in open[q] => Signalled(p, q) >= done[q] + 1
                      /\ Schedule # "intra" => Signalled(p, q) >= stage'[q]
    BY <1>2, <1>3 DEF Gated, Peers
  <2>1. CASE q = r
    BY <2>1, <1>2, <1>4 DEF Gated
  <2>2. CASE q # r
    BY <2>2, <1>1 DEF Gated
  <2>3. QED
    BY <2>1, <2>2
<1>7. \A q \in Ranks : cpc'[q] = cpc[q] \/ (cpc[q] = "await" /\ cpc'[q] = "idle")
  BY <1>1
<1>8. QED
  BY <1>1, <1>5, <1>6, <1>7, QuietStep

LEMMA StartGemmStep ==
  ASSUME IInv, TypeOK', NEW r \in Ranks, StartGemm(r) PROVE IInv'
<1> USE DEF IInv, TypeOK, FabricType
<1>1. /\ ~running[r] /\ done[r] < stage[r]
      /\ running' = [running EXCEPT ![r] = TRUE]
      /\ open' = [open EXCEPT ![r] = IF Schedule = "intra" THEN {r} ELSE Ranks]
      /\ UNCHANGED <<fabric, posted, cpc, told, stage, done>>
  BY DEF StartGemm
<1>2. UNCHANGED <<flight, recv, ready, posted, cpc, told, stage, done>>
  BY <1>1 DEF fabric
<1>3. \A p, q \in Ranks : Signalled(p, q)' = Signalled(p, q)
  BY <1>2 DEF Signalled
<1>4. \A q \in Ranks : StreamOrder(q)'
  <2> TAKE q \in Ranks
  <2>1. CASE q = r
    <3>1. Schedule = "serial" => cpc[r] = "idle"
      BY <1>1 DEF StreamOrder
    <3>2. QED
      BY <2>1, <3>1, <1>1, <1>2 DEF StreamOrder
  <2>2. CASE q # r
    BY <2>2, <1>1, <1>2 DEF StreamOrder
  <2>3. QED
    BY <2>1, <2>2
<1>5. Gated'
  <2> SUFFICES ASSUME NEW q \in Ranks, NEW p \in Peers(q)
               PROVE  /\ Signalled(p, q) >= done[q]
                      /\ running'[q] /\ p \in open'[q] => Signalled(p, q) >= done[q] + 1
                      /\ Schedule # "intra" => Signalled(p, q) >= stage[q]
    BY <1>2, <1>3 DEF Gated, Peers
  <2>1. CASE q = r
    <3>1. CASE Schedule = "intra"
      BY <2>1, <3>1, <1>1 DEF Gated, Peers
    <3>2. CASE Schedule # "intra"
      <4>1. Signalled(p, r) >= stage[r] /\ Signalled(p, r) \in Nat
        BY <2>1, <3>2, CountsOf DEF Gated, Peers
      <4>2. QED
        BY <2>1, <3>2, <4>1, <1>1
    <3>3. QED
      BY <3>1, <3>2
  <2>2. CASE q # r
    BY <2>2, <1>1 DEF Gated
  <2>3. QED
    BY <2>1, <2>2
<1>6. QED
  BY <1>1, <1>2, <1>4, <1>5, QuietStep

LEMMA OpenShardStep ==
  ASSUME IInv, TypeOK', NEW r \in Ranks, OpenShard(r) PROVE IInv'
<1> USE DEF IInv, TypeOK, FabricType
<1> DEFINE k == NextPart(r)
<1>1. /\ running[r] /\ open[r] # Ranks
      /\ k # r => Arrived(r, k, done[r])
      /\ open' = [open EXCEPT ![r] = open[r] \cup {k}]
      /\ UNCHANGED <<fabric, posted, cpc, told, stage, running, done>>
  BY DEF OpenShard
<1>2. UNCHANGED <<flight, recv, ready, posted, cpc, told, stage, running, done>>
  BY <1>1 DEF fabric
<1>3. \A p, q \in Ranks : Signalled(p, q)' = Signalled(p, q)
  BY <1>2 DEF Signalled
<1>4. \A q \in Ranks : StreamOrder(q)'
  <2> TAKE q \in Ranks
  <2>1. CASE q = r
    <3>1. Schedule = "intra"
      BY <1>1 DEF StreamOrder
    <3>2. QED
      BY <2>1, <3>1, <1>2 DEF StreamOrder
  <2>2. CASE q # r
    BY <2>2, <1>1, <1>2 DEF StreamOrder
  <2>3. QED
    BY <2>1, <2>2
<1>5. k \in Ranks
  BY NextPartType
<1>6. k # r => Signalled(k, r) >= done[r] + 1
  <2> HAVE k # r
  <2>1. Signalled(k, r) \in Nat /\ done[r] \in Nat /\ Slot(done[r]) \in Slots
    <3>1. Signalled(k, r) \in Nat
      BY <1>5, CountsOf
    <3>2. done[r] \in Nat /\ done[r] \in Int
      OBVIOUS
    <3>3. Slot(done[r]) \in Slots
      BY <3>2, SlotType
    <3>4. QED
      BY <3>1, <3>2, <3>3
  <2>2. ready[r][Slot(done[r])][k] = Count(Signalled(k, r), Slot(done[r]))
    BY <1>5, <2>1 DEF ReadyCounts, Peers
  <2>3. Count(Signalled(k, r), Slot(done[r])) >= Target(done[r])
    BY <1>1, <2>2 DEF Arrived
  <2>4. QED
    BY <2>1, <2>3, CountTarget
<1>7. Gated'
  <2> SUFFICES ASSUME NEW q \in Ranks, NEW p \in Peers(q)
               PROVE  /\ Signalled(p, q) >= done[q]
                      /\ running[q] /\ p \in open'[q] => Signalled(p, q) >= done[q] + 1
                      /\ Schedule # "intra" => Signalled(p, q) >= stage[q]
    BY <1>2, <1>3 DEF Gated, Peers
  <2>1. p \in Ranks /\ p # q
    BY DEF Peers
  <2>2. CASE q = r /\ p = k
    BY <2>1, <2>2, <1>6 DEF Gated
  <2>3. CASE ~(q = r /\ p = k)
    BY <2>1, <2>3, <1>1 DEF Gated
  <2>4. QED
    BY <2>2, <2>3
<1>8. QED
  BY <1>1, <1>2, <1>4, <1>7, QuietStep

LEMMA FinishGemmStep ==
  ASSUME IInv, TypeOK', NEW r \in Ranks, FinishGemm(r) PROVE IInv'
<1> USE DEF IInv, TypeOK, FabricType
<1>1. /\ running[r] /\ open[r] = Ranks
      /\ running' = [running EXCEPT ![r] = FALSE]
      /\ open' = [open EXCEPT ![r] = {}]
      /\ done' = [done EXCEPT ![r] = done[r] + 1]
      /\ UNCHANGED <<fabric, posted, cpc, told, stage>>
  BY DEF FinishGemm
<1>2. UNCHANGED <<flight, recv, ready, posted, cpc, told, stage>>
  BY <1>1 DEF fabric
<1>3. \A p, q \in Ranks : Signalled(p, q)' = Signalled(p, q)
  BY <1>2 DEF Signalled
<1>4. \A q \in Ranks : StreamOrder(q)'
  <2> TAKE q \in Ranks
  <2>1. CASE q = r
    <3>1. Schedule = "serial" => cpc[r] = "idle" /\ posted[r] = stage[r]
      BY <1>1 DEF StreamOrder
    <3>2. done[r] + 1 <= stage[r] /\ done'[r] = done[r] + 1 /\ running'[r] = FALSE
      BY <1>1 DEF StreamOrder
    <3>3. QED
      BY <2>1, <3>1, <3>2, <1>2 DEF StreamOrder
  <2>2. CASE q # r
    BY <2>2, <1>1, <1>2 DEF StreamOrder
  <2>3. QED
    BY <2>1, <2>2
<1>5. Gated'
  <2> SUFFICES ASSUME NEW q \in Ranks, NEW p \in Peers(q)
               PROVE  /\ Signalled(p, q) >= done'[q]
                      /\ running'[q] /\ p \in open'[q] => Signalled(p, q) >= done'[q] + 1
                      /\ Schedule # "intra" => Signalled(p, q) >= stage[q]
    BY <1>2, <1>3 DEF Gated, Peers
  <2>1. CASE q = r
    BY <2>1, <1>1 DEF Gated, Peers
  <2>2. CASE q # r
    BY <2>2, <1>1 DEF Gated
  <2>3. QED
    BY <2>1, <2>2
<1>6. QED
  BY <1>1, <1>2, <1>4, <1>5, QuietStep

LEMMA LandStep ==
  ASSUME IInv, TypeOK', NEW m \in flight, Land(m), UNCHANGED streams PROVE IInv'
<1> USE DEF IInv, TypeOK, FabricType
<1>0. PICK a \in Ranks, b \in Ranks : a = m.src /\ b = m.dst
  BY FlightFacts
<1> DEFINE e == posted[a] - 1
<1>1. /\ flight' = flight \ {m}
      /\ recv' = [recv EXCEPT ![b][Slot(m.epoch)][a] = m.epoch]
      /\ ready' = ready
      /\ UNCHANGED <<posted, cpc, told, stage, running, open, done>>
  BY <1>0 DEF Land, streams
<1>2. /\ a \in Ranks /\ b \in Ranks /\ a # b /\ posted[a] \in Nat /\ posted[a] >= 1
      /\ m.epoch = e /\ e \in Nat
  BY <1>0, FlightFacts
<1>3. Slot(e) \in Slots
  BY <1>2, SlotType
<1>4. \A p, q \in Ranks : Signalled(p, q)' = Signalled(p, q)
  BY <1>1 DEF Signalled
<1>5. \A n \in flight : n.src = a /\ n.dst = b => n = m
  BY <1>0, FlightFacts
<1>6. Delivered(a, b) = e /\ Delivered(a, b)' = e + 1
  <2>1. Delivered(a, b) = e
    BY <1>0 DEF Delivered
  <2>2. ~ \E n \in flight' : n.src = a /\ n.dst = b
    BY <1>0, <1>1, <1>5
  <2>3. QED
    BY <2>1, <2>2, <1>1, <1>2 DEF Delivered
<1>7. \A p, q \in Ranks : ~(p = a /\ q = b) => Delivered(p, q)' = Delivered(p, q)
  <2> TAKE p, q \in Ranks
  <2> HAVE ~(p = a /\ q = b)
  <2>1. (\E n \in flight' : n.src = p /\ n.dst = q)
        <=> (\E n \in flight : n.src = p /\ n.dst = q)
    BY <1>0, <1>1
  <2>2. QED
    BY <2>1, <1>1 DEF Delivered
<1>8. FlightOrder'
  BY <1>1, <1>4, FlightFacts DEF FlightOrder
<1>9. \A p \in Ranks : StreamOrder(p)'
  BY <1>1 DEF StreamOrder
<1>10. ReadyCounts' /\ Gated'
  BY <1>1, <1>4 DEF ReadyCounts, Gated, Peers
<1>11. RecvHistory'
  <2> SUFFICES ASSUME NEW q \in Ranks, NEW p \in Ranks, NEW k \in {1, 2},
                      Delivered(p, q)' >= k
               PROVE  recv'[q][Slot(Delivered(p, q)' - k)][p] = Delivered(p, q)' - k
    BY DEF RecvHistory
  <2>1. CASE ~(p = a /\ q = b)
    <3>1. recv[q][Slot(Delivered(p, q) - k)][p] = Delivered(p, q) - k
      BY <2>1, <1>7 DEF RecvHistory
    <3>2. Slot(Delivered(p, q) - k) \in Slots
      <4>1. Delivered(p, q) \in Nat
        BY CountsOf
      <4>2. Delivered(p, q) - k \in Int
        BY <4>1
      <4>3. QED
        BY <4>2, SlotType
    <3>3. recv'[q][Slot(Delivered(p, q) - k)][p]
            = recv[q][Slot(Delivered(p, q) - k)][p]
      BY <2>1, <3>2, <1>1, <1>2, <1>3
    <3>4. QED
      BY <2>1, <3>1, <3>3, <1>7
  <2>2. CASE p = a /\ q = b /\ k = 1
    BY <2>2, <1>1, <1>2, <1>3, <1>6
  <2>3. CASE p = a /\ q = b /\ k = 2
    <3>1. recv[b][Slot(e - 1)][a] = e - 1
      <4>1. Delivered(a, b) = e /\ e >= 1
        BY <2>3, <1>2, <1>6
      <4>2. e - 1 \in Nat /\ Delivered(a, b) \in {(e - 1) + 1, (e - 1) + 2}
        BY <4>1, <1>2
      <4>3. QED
        BY <4>2, SlotHolds
    <3>2. Slot(e - 1) # Slot(e) /\ Slot(e - 1) \in Slots
      <4>1. e \in Int /\ e - 1 \in Int
        BY <1>2
      <4>2. QED
        BY <4>1, SlotAlternates, SlotType
    <3>3. (e + 1) - 2 = e - 1
      BY <1>2
    <3>4. recv'[b][Slot(e - 1)][a] = recv[b][Slot(e - 1)][a]
      BY <3>2, <1>1, <1>2, <1>3
    <3>5. QED
      BY <2>3, <3>1, <3>3, <3>4, <1>6
  <2>4. QED
    BY <2>1, <2>2, <2>3
<1>12. QED
  BY <1>8, <1>9, <1>10, <1>11

(***************************************************************************)
(* The inductive invariant holds of every behaviour.                       *)
(***************************************************************************)

LEMMA InitIInv == Init => IInv
<1> SUFFICES ASSUME Init PROVE IInv
  OBVIOUS
<1> USE DEF Init, FabricInit
<1>1. TypeOK
  BY DEF TypeOK, FabricType, Put, Empty
<1>2. \A p, r \in Ranks : Signalled(p, r) = 0 /\ Delivered(p, r) = 0
  BY DEF Signalled, Delivered
<1>3. \A r \in Ranks : StreamOrder(r)
  BY EpochsAssumption DEF StreamOrder
<1>4. FlightOrder
  BY DEF FlightOrder
<1>5. ReadyCounts
  <2>1. \A s \in Slots : Count(0, s) = 0
    BY DEF Count, Slots
  <2>2. QED
    BY <1>2, <2>1 DEF ReadyCounts, Peers
<1>6. RecvHistory
  BY <1>2 DEF RecvHistory
<1>7. Gated
  BY <1>2 DEF Gated, Peers
<1>8. QED
  BY <1>1, <1>3, <1>4, <1>5, <1>6, <1>7 DEF IInv

LEMMA IInvStep == IInv /\ [Next]_vars => IInv'
<1> SUFFICES ASSUME IInv, [Next]_vars PROVE IInv'
  OBVIOUS
<1>1. TypeOK'
  BY TypeStep DEF IInv
<1>2. CASE UNCHANGED vars
  <2>1. UNCHANGED <<flight, recv, ready, posted, cpc, told, stage, running, open, done>>
    BY <1>2 DEF vars, fabric, streams
  <2>2. QED
    BY <2>1, <1>1 DEF IInv, StreamOrder, FlightOrder, ReadyCounts, RecvHistory,
                      Gated, Signalled, Delivered
<1>3. ASSUME NEW r \in Ranks, CommStream(r) PROVE IInv'
  BY <1>1, <1>3, PostStep, SelfCopyStep, QuietNotifyStep, WaitReadyStep
  DEF CommStream
<1>4. ASSUME NEW r \in Ranks, ComputeStream(r) PROVE IInv'
  BY <1>1, <1>4, StartGemmStep, OpenShardStep, FinishGemmStep DEF ComputeStream
<1>5. CASE SdmaStep
  BY <1>1, <1>5, LandStep DEF SdmaStep
<1>6. QED
  BY <1>2, <1>3, <1>4, <1>5 DEF Next

(* Streams, flight, counters and chunks stay in step, whatever the schedule. *)
THEOREM Invariance == Spec => []IInv
  BY InitIInv, IInvStep, PTL DEF Spec

(***************************************************************************)
(* What the invariant gives.                                               *)
(***************************************************************************)

(* A shard a GEMM may read has arrived: its source has signalled the epoch,
   or it is the rank's own and the copy is done. *)
LEMMA OpenDelivered ==
  ASSUME IInv, NEW r \in Ranks, running[r], NEW p \in open[r]
  PROVE  /\ p \in Ranks /\ done[r] \in Nat /\ Delivered(p, r) \in Nat
         /\ Delivered(p, r) >= done[r] + 1
         /\ Delivered(p, r) <= posted[p]
<1> USE DEF IInv, TypeOK
<1>1. p \in Ranks /\ done[r] \in Nat /\ Delivered(p, r) \in Nat
  BY CountsOf
<1>2. Delivered(p, r) <= posted[p]
  BY <1>1, CountsOf
<1>3. CASE p # r
  <2>1. Signalled(p, r) \in Nat /\ Signalled(p, r) <= Delivered(p, r)
    BY <1>1, <1>3, CountsOf
  <2>2. Signalled(p, r) >= done[r] + 1
    BY <1>1, <1>3 DEF Gated, Peers
  <2>3. QED
    BY <1>1, <1>2, <2>1, <2>2
<1>4. CASE p = r
  <2>1. done[r] < stage[r] /\ stage[r] \in Nat /\ posted[r] \in Nat
    BY DEF StreamOrder
  <2>2. stage[r] <= Delivered(r, r)
    <3>1. CASE cpc[r] = "copy"
      <4>1. stage[r] = posted[r] - 1
        BY <3>1 DEF StreamOrder
      <4>2. QED
        BY <4>1, <2>1, CountsOf
    <3>2. CASE cpc[r] # "copy"
      <4>1. \A m \in flight : ~(m.src = r /\ m.dst = r)
        BY FlightFacts
      <4>2. Delivered(r, r) = posted[r]
        BY <3>2, <4>1 DEF Delivered
      <4>3. QED
        BY <4>2, <2>1 DEF StreamOrder
    <3>3. QED
      BY <3>1, <3>2
  <2>3. QED
    BY <1>1, <1>2, <1>4, <2>1, <2>2
<1>5. QED
  BY <1>3, <1>4

(* Under every schedule, for any number of ranks and epochs, a GEMM never reads
   a stale or empty chunk, and never one more than two epochs ahead. *)
THEOREM StaleFreedom == Spec => []NeverStale
<1>1. IInv => NeverStale
  <2> SUFFICES ASSUME IInv, NEW r \in Ranks, running[r], NEW p \in open[r]
               PROVE  recv[r][Slot(done[r])][p] \in {done[r], done[r] + 2}
    BY DEF NeverStale
  <2> DEFINE e == done[r]
  <2>1. /\ p \in Ranks /\ e \in Nat /\ Delivered(p, r) \in Nat
        /\ Delivered(p, r) >= e + 1
        /\ Delivered(p, r) <= posted[p]
    BY OpenDelivered
  <2>2. posted[p] <= e + 4 /\ posted[p] \in Nat
    BY <2>1, Skew DEF IInv, TypeOK
  <2>3. CASE Delivered(p, r) \in {e + 1, e + 2}
    BY <2>1, <2>3, SlotHolds
  <2>4. CASE Delivered(p, r) \in {e + 3, e + 4}
    <3>1. e + 2 \in Nat /\ Delivered(p, r) \in {(e + 2) + 1, (e + 2) + 2}
      BY <2>1, <2>4
    <3>2. recv[r][Slot(e + 2)][p] = e + 2
      BY <2>1, <3>1, SlotHolds
    <3>3. Slot(e + 2) = Slot(e)
      BY <2>1, SlotAlternates
    <3>4. QED
      BY <3>2, <3>3
  <2>5. QED
    BY <2>1, <2>2, <2>3, <2>4
<1>2. QED
  BY <1>1, Invariance, PTL

(* In the serial schedule the slot of a running GEMM holds exactly its epoch
   and no PUT is on its way to it: the stream order of one rank is enough to
   hold back every other rank. *)
THEOREM SerialReadsCurrent ==
  ASSUME Schedule = "serial" PROVE Spec => []ReadsCurrent
<1>1. IInv => ReadsCurrent
  <2> SUFFICES ASSUME IInv, NEW r \in Ranks, running[r], NEW p \in open[r]
               PROVE  Holds(r, p, done[r])
    BY DEF ReadsCurrent
  <2> DEFINE e == done[r]
  <2>1. /\ p \in Ranks /\ e \in Nat /\ Delivered(p, r) \in Nat
        /\ Delivered(p, r) >= e + 1
        /\ Delivered(p, r) <= posted[p]
    BY OpenDelivered
  <2>2. posted[p] <= e + 2 /\ posted[p] \in Nat
    BY <2>1, Skew DEF IInv, TypeOK
  <2>3. recv[r][Slot(e)][p] = e
    BY <2>1, <2>2, SlotHolds
  <2>4. ASSUME NEW m \in flight, m.dst = r, m.src = p, Slot(m.epoch) = Slot(e)
        PROVE  FALSE
    <3>1. Delivered(p, r) = posted[p] - 1
      BY <2>4 DEF Delivered
    <3>2. m.epoch = e + 1
      BY <2>1, <2>2, <2>4, <3>1, FlightFacts
    <3>3. QED
      BY <2>1, <2>4, <3>2, SlotAlternates
  <2>5. QED
    BY <2>3, <2>4 DEF Holds
<1>2. QED
  BY <1>1, Invariance, PTL

(* The counters are exact when a rank has computed its last epoch. *)
THEOREM CountsExact == Spec => []FinalCounts
<1>1. IInv => FinalCounts
  <2> SUFFICES ASSUME IInv, NEW r \in Ranks, done[r] = Epochs,
                      NEW s \in Slots, NEW p \in Ranks
               PROVE  ready[r][s][p] = IF p = r THEN 0 ELSE Count(Epochs, s)
    BY DEF FinalCounts
  <2>1. CASE p = r
    BY <2>1 DEF IInv, ReadyCounts
  <2>2. CASE p # r
    <3>1. ready[r][s][p] = Count(Signalled(p, r), s) /\ Signalled(p, r) >= Epochs
      BY <2>2 DEF IInv, ReadyCounts, Gated, Peers
    <3>2. posted[p] <= Epochs /\ posted[p] \in Nat
      BY DEF IInv, StreamOrder, TypeOK
    <3>3. Signalled(p, r) \in Nat /\ Signalled(p, r) <= posted[p]
      BY <3>2, CountsOf
    <3>4. Signalled(p, r) = Epochs
      BY <3>1, <3>2, <3>3, EpochsAssumption
    <3>5. QED
      BY <2>2, <3>1, <3>4
  <2>3. QED
    BY <2>1, <2>2
<1>2. QED
  BY <1>1, Invariance, PTL

(* A ready counter never runs ahead of the data it stands for. *)
THEOREM SignalsFollowData == Spec => []SignalAfterData
<1>1. IInv => SignalAfterData
  <2> SUFFICES ASSUME IInv, NEW r \in Ranks, NEW s \in Slots, NEW p \in Peers(r),
                      ready[r][s][p] > 0
               PROVE  recv[r][s][p] >= 2 * (ready[r][s][p] - 1) + s
    BY DEF SignalAfterData
  <2> DEFINE n == Signalled(p, r)
             d == Delivered(p, r)
             y == 2 * (Count(n, s) - 1) + s
  <2>1. /\ p \in Ranks /\ p # r /\ n \in Nat /\ d \in Nat /\ n <= d
        /\ Count(n, s) \in Nat
    BY CountsOf, CountType DEF Peers
  <2>2. ready[r][s][p] = Count(n, s)
    BY DEF IInv, ReadyCounts
  <2>3. y <= n - 1 /\ Slot(y) = s /\ y >= 0 /\ y \in Int /\ s \in Int
    BY <2>1, <2>2, CountBound DEF Slots
  <2>4. PICK k \in {1, 2} : Slot(d - k) = s /\ d - k >= y
    <3>1. CASE Slot(d - 1) = s
      BY <2>1, <2>3, <3>1
    <3>2. CASE Slot(d - 1) # s
      <4>1. Slot(d - 2) = s
        BY <2>1, <3>2 DEF Slot, Slots
      <4>2. y # d - 1
        BY <2>3, <3>2
      <4>3. d - 2 >= y
        BY <2>1, <2>3, <4>2
      <4>4. QED
        BY <4>1, <4>3
    <3>3. QED
      BY <3>1, <3>2
  <2>5. d >= k /\ d - k \in Int
    BY <2>1, <2>3, <2>4
  <2>6. recv[r][Slot(d - k)][p] = d - k
    BY <2>1, <2>5 DEF IInv, RecvHistory
  <2>7. QED
    BY <2>2, <2>4, <2>6
<1>2. QED
  BY <1>1, Invariance, PTL

(* The serial schedule implements the two-slot exchange: a rank never starts to
   overwrite a slot that some peer has yet to consume. *)
THEOREM SerialImplementsExchange ==
  ASSUME Schedule = "serial" PROVE Spec => ImplementsExchange
<1>1. Init => Exchange!Init
  BY DEF Init, Exchange!Init
<1>2. IInv /\ [Next]_vars => [Exchange!Next]_<<posted, done>>
  <2> SUFFICES ASSUME IInv, [Next]_vars
               PROVE  Exchange!Next \/ UNCHANGED <<posted, done>>
    OBVIOUS
  <2> USE DEF IInv, TypeOK
  <2>1. ASSUME NEW r \in Ranks, Post(r) PROVE Exchange!Publish(r)
    <3>1. /\ cpc[r] = "idle" /\ posted[r] < Epochs /\ done[r] = posted[r]
          /\ posted' = [posted EXCEPT ![r] = posted[r] + 1] /\ done' = done
      BY <2>1 DEF Post, MayPost
    <3>2. ASSUME NEW p \in Ranks \ {r} PROVE posted[r] < done[p] + 2
      <4>1. Signalled(p, r) >= done[r] /\ Signalled(p, r) <= posted[p]
            /\ Signalled(p, r) \in Nat
        BY <3>2, CountsOf DEF Gated, Peers
      <4>2. posted[p] <= done[p] + 1
        BY DEF StreamOrder
      <4>3. posted[r] \in Nat /\ posted[p] \in Nat /\ done[p] \in Nat
        OBVIOUS
      <4>4. QED
        BY <3>1, <4>1, <4>2, <4>3
    <3>3. QED
      BY <3>1, <3>2 DEF Exchange!Publish
  <2>2. ASSUME NEW r \in Ranks, FinishGemm(r) PROVE Exchange!Consume(r)
    <3>1. /\ running[r] /\ open[r] = Ranks /\ posted' = posted
          /\ done' = [done EXCEPT ![r] = done[r] + 1]
      BY <2>2 DEF FinishGemm
    <3>2. ASSUME NEW p \in Ranks PROVE done[r] < posted[p]
      <4>1. /\ Delivered(p, r) >= done[r] + 1 /\ Delivered(p, r) <= posted[p]
            /\ done[r] \in Nat /\ Delivered(p, r) \in Nat
        BY <3>1, <3>2, OpenDelivered
      <4>2. posted[p] \in Nat
        OBVIOUS
      <4>3. QED
        BY <4>1, <4>2
    <3>3. QED
      BY <3>1, <3>2 DEF Exchange!Consume
  <2>3. ASSUME NEW r \in Ranks, CommStream(r), ~Post(r) PROVE UNCHANGED <<posted, done>>
    BY <2>3 DEF CommStream, SelfCopy, QuietNotify, WaitReady
  <2>4. ASSUME NEW r \in Ranks, StartGemm(r) \/ OpenShard(r)
        PROVE  UNCHANGED <<posted, done>>
    BY <2>4 DEF StartGemm, OpenShard
  <2>5. CASE SdmaStep \/ UNCHANGED vars
    BY <2>5 DEF SdmaStep, streams, vars
  <2>6. QED
    BY <2>1, <2>2, <2>3, <2>4, <2>5
    DEF Next, ComputeStream, Exchange!Next
<1>3. QED
  BY <1>1, <1>2, Invariance, PTL DEF Spec, ImplementsExchange, Exchange!Spec, Exchange!vars

=============================================================================
