--------------------------- MODULE GemmA2A_proofs ---------------------------
(***************************************************************************)
(* Proofs about GemmA2A, for every number of ranks, epochs and chunks, and *)
(* for every mode.                                                         *)
(***************************************************************************)
EXTENDS GemmA2A, SequenceTheorems, WellFoundedInduction, TLAPS

(***************************************************************************)
(* The inductive invariant.  Four counts say how far one chunk has come:   *)
(* what the GEMM has stored of it, what has been posted, what the copy     *)
(* kernels have moved, and what has been signalled.                        *)
(***************************************************************************)

(* The epochs of which rank r's GEMM has stored chunk c for rank d. *)
Filled(r, d, c) ==
  IF running[r] /\ <<d, IF d = r THEN 0 ELSE c>> \notin stored[r]
  THEN started[r] - 1
  ELSE started[r]

(* The epochs of which rank r has posted chunk c to rank d. *)
Posted(r, d, c) ==
  IF Bulk THEN IF pc[r] = "idle" THEN freed[r] ELSE freed[r] + 1
  ELSE Filled(r, d, c)

(* The epochs of which rank r's copy kernel has moved chunk c to rank d. *)
Copied(r, d, c) == IF <<d, c>> \in told[r] THEN freed[r] + 1 ELSE freed[r]

(* The epochs rank r has signalled to rank d. *)
Signalled(r, d) == IF pc[r] = "notify" /\ d \in told[r] THEN freed[r] + 1 ELSE freed[r]

(* The two streams of a rank relative to each other. *)
StreamOrder(r) ==
  /\ freed[r] <= Staged(r)
  /\ started[r] <= (IF Overlapped THEN freed[r] + 2 ELSE freed[r] + 1)
  /\ Direct => freed[r] = Staged(r)
  /\ pc[r] # "idle" => UsesSdma /\ freed[r] < Staged(r)
  /\ pc[r] = "copy" => Bulk
  /\ pc[r] = "notify" => told[r] # Peers(r)
  /\ UsesSdma => told[r] \subseteq Peers(r)
  /\ SplitLsa \/ Reducing =>
       told[r] # AllChunks /\ (told[r] # {} => freed[r] < Staged(r))

(* The rounds of the reduction: nobody is ahead of a barrier. *)
Rounds(r) ==
  /\ ~Reducing => cleared[r] = 0
  /\ Reducing => \A p \in Ranks : started[r] <= cleared[p] /\ cleared[p] <= freed[r] + 1

(* A staging slot keeps every epoch that has been stored and not transferred. *)
Kept(r, d, c) ==
  ~Direct => \A e \in freed[r] .. Filled(r, d, c) - 1 : staging[r][Slot(e)][d][c] = e

(* What is queued to a peer has been posted, has not been waited for, is newer
   than what has landed, and is in order. *)
QueueOrder(r, d) ==
  /\ d = r \/ ~UsesSdma => queue[r][d] = <<>>
  /\ \A i \in DOMAIN queue[r][d] :
       /\ freed[r] <= queue[r][d][i].epoch
       /\ queue[r][d][i].epoch < Posted(r, d, queue[r][d][i].chunk)
       /\ recv[d][r][queue[r][d][i].chunk] < queue[r][d][i].epoch
       /\ pc[r] = "notify" /\ d \in told[r] => queue[r][d][i].epoch # freed[r]
       /\ \A j \in DOMAIN queue[r][d] :
            i < j /\ queue[r][d][j].chunk = queue[r][d][i].chunk
              => queue[r][d][i].epoch < queue[r][d][j].epoch

(* Every epoch posted and not landed is in the queue. *)
Unlanded(r, d, c) ==
  UsesSdma /\ d # r =>
    /\ recv[d][r][c] < Posted(r, d, c)
    /\ \A e \in recv[d][r][c] + 1 .. Posted(r, d, c) - 1 :
         \E i \in DOMAIN queue[r][d] : queue[r][d][i] = Put(e, c)

(* What a window holds where it is not an SDMA engine that fills it. *)
Window(r, d, c) ==
  /\ UsesSdma /\ d = r => recv[d][r][c] = IF pc[r] = "notify" THEN freed[r] ELSE freed[r] - 1
  /\ Direct => recv[d][r][c] = Filled(r, d, c) - 1
  /\ SplitLsa => recv[d][r][c] = Copied(r, d, c) - 1
  /\ Reducing => recv[d][r][c] = IF Copied(r, d, c) = cleared[d] THEN cleared[d] - 1 ELSE Empty

(* A counter is the number of epochs signalled. *)
Signals(r, d) == ready[d][r] = IF UsesSdma /\ d # r THEN Signalled(r, d) ELSE 0

ByRank(r) == StreamOrder(r) /\ Rounds(r)
ByPeer(r, d) == QueueOrder(r, d) /\ Signals(r, d)
ByChunk(r, d, c) == Kept(r, d, c) /\ Unlanded(r, d, c) /\ Window(r, d, c)

IInv ==
  /\ TypeOK
  /\ \A r \in Ranks : ByRank(r)
  /\ \A r, d \in Ranks : ByPeer(r, d)
  /\ \A r, d \in Ranks : \A c \in Chunk : ByChunk(r, d, c)

(***************************************************************************)
(* Modes, slots, and the constants.                                        *)
(***************************************************************************)

(* One entry of a table is replaced. *)
LEMMA Update2 ==
  ASSUME NEW A, NEW B, NEW S, NEW f \in [A -> [B -> S]], NEW a \in A, NEW b \in B, NEW x
  PROVE  /\ x \in S => [f EXCEPT ![a][b] = x] \in [A -> [B -> S]]
         /\ [f EXCEPT ![a][b] = x][a][b] = x
         /\ \A i \in A, j \in B : i # a \/ j # b => [f EXCEPT ![a][b] = x][i][j] = f[i][j]
         /\ \A i \in A : i # a => [f EXCEPT ![a][b] = x][i] = f[i]
OBVIOUS

LEMMA Update3 ==
  ASSUME NEW A, NEW B, NEW C, NEW S, NEW f \in [A -> [B -> [C -> S]]],
         NEW a \in A, NEW b \in B, NEW c \in C, NEW x
  PROVE  /\ x \in S => [f EXCEPT ![a][b][c] = x] \in [A -> [B -> [C -> S]]]
         /\ [f EXCEPT ![a][b][c] = x][a][b][c] = x
         /\ \A i \in A, j \in B, k \in C :
              i # a \/ j # b \/ k # c => [f EXCEPT ![a][b][c] = x][i][j][k] = f[i][j][k]
         /\ \A i \in A : i # a => [f EXCEPT ![a][b][c] = x][i] = f[i]
OBVIOUS

(* A run has one output mode, and overlaps only where SDMA engines copy. *)
LEMMA Exclusive ==
  ASSUME mode \in Modes
  PROVE  /\ Bulk \/ Fused \/ Direct \/ SplitLsa \/ Reducing
         /\ UsesSdma => ~Direct /\ ~SplitLsa /\ ~Reducing
         /\ Direct => ~UsesSdma /\ ~SplitLsa /\ ~Reducing /\ ~Bulk /\ ~Fused
         /\ SplitLsa => ~UsesSdma /\ ~Direct /\ ~Reducing /\ ~Bulk /\ ~Fused
         /\ Reducing => ~UsesSdma /\ ~Direct /\ ~SplitLsa /\ ~Bulk /\ ~Fused
         /\ Bulk => UsesSdma /\ ~Fused
         /\ Fused => UsesSdma /\ ~Bulk
         /\ UsesSdma => Bulk \/ Fused
         /\ Overlapped => UsesSdma
<1> USE DEF Bulk, Fused, Direct, SplitLsa, Reducing, UsesSdma, Overlapped
<1>1. mode \in {"bulk", "chunk"} \X {"serial", "parallel"}
        \/ mode \in {"direct", "split", "reduce"} \X {"serial"}
  BY ModeAssumption
<1> QED BY <1>1

(* The mode of a run does not change, nor what depends on it alone. *)
LEMMA ModeStable ==
  ASSUME mode' = mode
  PROVE  /\ Bulk' = Bulk /\ Fused' = Fused /\ Direct' = Direct /\ SplitLsa' = SplitLsa
         /\ Reducing' = Reducing /\ UsesSdma' = UsesSdma /\ Overlapped' = Overlapped
         /\ \A e : Slot(e)' = Slot(e)
BY DEF Bulk, Fused, Direct, SplitLsa, Reducing, UsesSdma, Overlapped, Slot

(* An epoch uses one of the two slots; where two epochs may be under way,
   neighbours use different ones. *)
LEMMA SlotFacts ==
  ASSUME NEW e \in Int
  PROVE  /\ Slot(e) \in Slots
         /\ Overlapped => Slot(e) # Slot(e + 1)
BY DEF Slot, Slots

(* The sets of ranks and chunks are not empty. *)
LEMMA Sizes == /\ 0 \in Ranks /\ 1 \in Ranks /\ 0 \in Chunk /\ Ranks \subseteq Nat /\ Chunk \subseteq Nat
               /\ Epochs \in Nat
BY RAssumption, ChunksAssumption, EpochsAssumption DEF Ranks, Chunk

(* Each count is a number of epochs. *)
LEMMA Counts ==
  ASSUME TypeOK, NEW r \in Ranks, NEW d \in Ranks, NEW c \in Chunk
  PROVE  /\ started[r] \in Nat /\ freed[r] \in Nat /\ cleared[r] \in Nat /\ running[r] \in BOOLEAN
         /\ Staged(r) \in Int /\ Filled(r, d, c) \in Int /\ Posted(r, d, c) \in Int
         /\ Copied(r, d, c) \in Nat /\ Signalled(r, d) \in Nat
         /\ Filled(r, d, c) >= Staged(r) /\ Filled(r, d, c) <= started[r]
<1>1. started[r] \in Nat /\ freed[r] \in Nat /\ cleared[r] \in Nat /\ running[r] \in BOOLEAN
  BY Sizes DEF TypeOK
<1>2. Staged(r) \in Int /\ Filled(r, d, c) \in Int /\ Filled(r, d, c) >= Staged(r) /\ Filled(r, d, c) <= started[r]
  BY <1>1 DEF Staged, Filled
<1> QED BY <1>1, <1>2 DEF Posted, Copied, Signalled

(* What the type invariant says of one rank. *)
LEMMA Types ==
  ASSUME TypeOK, NEW r \in Ranks
  PROVE  /\ started[r] \in Nat /\ freed[r] \in Nat /\ cleared[r] \in Nat /\ running[r] \in BOOLEAN
         /\ started[r] <= Epochs /\ freed[r] <= Epochs /\ cleared[r] <= Epochs
         /\ Staged(r) \in Int /\ Staged(r) <= started[r]
<1>1. started[r] \in 0 .. Epochs /\ freed[r] \in 0 .. Epochs /\ cleared[r] \in 0 .. Epochs
      /\ running[r] \in BOOLEAN
  BY DEF TypeOK
<1> QED BY <1>1, Sizes DEF Staged

(* What it says of a queued PUT. *)
LEMMA PutTypes ==
  ASSUME TypeOK, NEW r \in Ranks, NEW d \in Ranks
  PROVE  /\ queue[r][d] \in Seq(Puts)
         /\ DOMAIN queue[r][d] = 1 .. Len(queue[r][d])
         /\ \A i \in DOMAIN queue[r][d] :
              /\ queue[r][d][i] \in Puts
              /\ queue[r][d][i].epoch \in Nat /\ queue[r][d][i].chunk \in Chunk
<1>1. queue[r][d] \in Seq(Puts)
  BY DEF TypeOK
<1>2. DOMAIN queue[r][d] = 1 .. Len(queue[r][d])
  BY <1>1, LenProperties
<1>3. \A i \in DOMAIN queue[r][d] : queue[r][d][i] \in Puts
  BY <1>1, <1>2, ElementOfSeq
<1>4. \A m \in Puts : m.epoch \in Nat /\ m.chunk \in Chunk
  BY Sizes DEF Puts, Epoch
<1> QED BY <1>1, <1>2, <1>3, <1>4

(***************************************************************************)
(* The invariant holds at the start, and every action keeps it.            *)
(***************************************************************************)

(* Nothing has been computed or moved yet. *)
LEMMA InvInit == Init => IInv
<1> SUFFICES ASSUME Init PROVE IInv
  OBVIOUS
<1>1. mode \in Modes
  BY DEF Init
<1>2. TypeOK
  <2>1. [c \in Chunk |-> Empty] \in Slab
    BY DEF Slab
  <2>2. <<>> \in Seq(Puts)
    BY EmptySeq
  <2>3. /\ queue \in [Ranks -> [Ranks -> Seq(Puts)]] /\ recv \in [Ranks -> [Ranks -> Slab]]
        /\ staging \in [Ranks -> [Slots -> [Ranks -> Slab]]]
    BY <2>1, <2>2 DEF Init
  <2>4. 0 \in 0 .. Epochs
    BY Sizes
  <2> QED BY <2>3, <2>4 DEF Init, TypeOK
<1>3. ASSUME NEW r \in Ranks PROVE ByRank(r)
  <2>1. told[r] # Peers(r)
    BY Sizes DEF Init, Peers
  <2>2. told[r] # AllChunks
    <3>1. <<0, 0>> \in AllChunks
      BY Sizes DEF AllChunks
    <3> QED BY <3>1 DEF Init
  <2> QED BY <1>3, <2>1, <2>2 DEF Init, ByRank, StreamOrder, Rounds, Staged
<1>4. ASSUME NEW r \in Ranks, NEW d \in Ranks PROVE ByPeer(r, d)
  BY <1>4 DEF Init, ByPeer, QueueOrder, Signals, Signalled
<1>5. ASSUME NEW r \in Ranks, NEW d \in Ranks, NEW c \in Chunk PROVE ByChunk(r, d, c)
  <2>1. Filled(r, d, c) = 0 /\ Copied(r, d, c) = 0 /\ Posted(r, d, c) = 0
    BY <1>5 DEF Init, Filled, Copied, Posted
  <2> QED
    BY <1>1, <1>5, <2>1, Exclusive DEF Init, ByChunk, Kept, Unlanded, Window, Empty
<1> QED BY <1>2, <1>3, <1>4, <1>5 DEF IInv

(* The counts of a rank none of whose streams moves. *)
LEMMA Untouched ==
  ASSUME mode' = mode, NEW r \in Ranks,
         started'[r] = started[r], running'[r] = running[r], stored'[r] = stored[r],
         pc'[r] = pc[r], told'[r] = told[r], freed'[r] = freed[r]
  PROVE  /\ Staged(r)' = Staged(r)
         /\ \A d \in Ranks : Signalled(r, d)' = Signalled(r, d)
         /\ \A d \in Ranks, c \in Chunk :
              /\ Filled(r, d, c)' = Filled(r, d, c) /\ Posted(r, d, c)' = Posted(r, d, c)
              /\ Copied(r, d, c)' = Copied(r, d, c)
         /\ StreamOrder(r) => StreamOrder(r)'
<1>1. Staged(r)' = Staged(r)
  BY DEF Staged
<1>2. \A d \in Ranks : Signalled(r, d)' = Signalled(r, d)
  BY DEF Signalled
<1>3. \A d \in Ranks, c \in Chunk : Filled(r, d, c)' = Filled(r, d, c)
  BY DEF Filled
<1>4. \A d \in Ranks, c \in Chunk :
        Posted(r, d, c)' = Posted(r, d, c) /\ Copied(r, d, c)' = Copied(r, d, c)
  BY <1>3, ModeStable DEF Posted, Copied
<1>5. StreamOrder(r) => StreamOrder(r)'
  BY <1>1, ModeStable DEF StreamOrder, Peers, AllChunks
<1> QED BY <1>1, <1>2, <1>3, <1>4, <1>5

(* What a rank has copied it has staged. *)
LEMMA CopiedStaged ==
  ASSUME TypeOK, NEW r \in Ranks, NEW d \in Ranks, NEW c \in Chunk, StreamOrder(r),
         SplitLsa \/ Reducing
  PROVE  Copied(r, d, c) <= Staged(r) /\ Copied(r, d, c) \in Nat
<1>1. freed[r] \in Nat /\ Staged(r) \in Int
  BY Types
<1>2. <<d, c>> \in told[r] => freed[r] < Staged(r)
  BY DEF StreamOrder
<1> QED BY <1>1, <1>2 DEF StreamOrder, Copied

(* A rank clears its buffers, which no rank is using. *)
LEMMA InvClear ==
  ASSUME IInv, NEW q \in Ranks, Clear(q) PROVE IInv'
<1>0. TypeOK /\ mode \in Modes
  BY DEF IInv, TypeOK
<1>1. /\ mode' = mode /\ Reducing /\ cleared[q] = freed[q] /\ cleared[q] < Epochs
      /\ \A p \in Ranks : freed[p] >= cleared[q]
      /\ UNCHANGED <<started, running, stored, queue, ready, pc, told, freed>>
  BY DEF Clear, transfer, Met
<1>2. /\ cleared' = [cleared EXCEPT ![q] = cleared[q] + 1]
      /\ recv' = [recv EXCEPT ![q] = [p \in Ranks |-> [c \in Chunk |-> Empty]]]
      /\ staging' = [staging EXCEPT ![q] = [s \in Slots |-> [d \in Ranks |-> [c \in Chunk |-> Empty]]]]
  BY DEF Clear
<1>3. /\ cleared'[q] = cleared[q] + 1 /\ \A d \in Ranks, c \in Chunk : recv'[q][d][c] = Empty
      /\ \A r \in Ranks \ {q} :
           cleared'[r] = cleared[r] /\ recv'[r] = recv[r] /\ staging'[r] = staging[r]
  BY <1>0, <1>2 DEF TypeOK
<1>4. TypeOK'
  <2>1. cleared[q] + 1 \in 0 .. Epochs
    BY <1>0, <1>1, Types, Sizes
  <2>2. cleared' \in [Ranks -> 0 .. Epochs]
    BY <1>0, <1>2, <2>1 DEF TypeOK
  <2>0. [c \in Chunk |-> Empty] \in Slab
    BY DEF Slab
  <2>3. recv' \in [Ranks -> [Ranks -> Slab]]
    BY <1>0, <1>2, <2>0 DEF TypeOK
  <2>4. staging' \in [Ranks -> [Slots -> [Ranks -> Slab]]]
    BY <1>0, <1>2, <2>0 DEF TypeOK
  <2> QED BY <1>0, <1>1, <2>2, <2>3, <2>4, ModeStable DEF TypeOK
<1>5. ASSUME NEW r \in Ranks
      PROVE  /\ Staged(r)' = Staged(r) /\ (StreamOrder(r) => StreamOrder(r)')
             /\ \A d \in Ranks : Signalled(r, d)' = Signalled(r, d)
             /\ \A d \in Ranks, c \in Chunk :
                  /\ Filled(r, d, c)' = Filled(r, d, c) /\ Posted(r, d, c)' = Posted(r, d, c)
                  /\ Copied(r, d, c)' = Copied(r, d, c)
  BY <1>1, Untouched
<1>6. \A r, p \in Ranks : started[r] <= cleared[p] /\ cleared[p] <= freed[r] + 1
  BY <1>1 DEF IInv, ByRank, Rounds
<1>7. ASSUME NEW r \in Ranks PROVE ByRank(r)'
  <2>1. ByRank(r)
    BY DEF IInv
  <2>2. \A p \in Ranks : started[r] <= cleared'[p] /\ cleared'[p] <= freed[r] + 1
    <3> SUFFICES ASSUME NEW p \in Ranks
                 PROVE  started[r] <= cleared'[p] /\ cleared'[p] <= freed[r] + 1
      OBVIOUS
    <3>1. started[r] \in Nat /\ freed[r] \in Nat /\ cleared[p] \in Nat
      BY <1>0, Types
    <3>2. CASE p = q
      BY <1>1, <1>3, <1>6, <3>1, <3>2
    <3>3. CASE p # q
      BY <1>3, <1>6, <3>3
    <3> QED BY <3>2, <3>3
  <2>3. Rounds(r)'
    BY <1>1, <2>2, ModeStable DEF Rounds
  <2> QED BY <1>5, <2>1, <2>3 DEF ByRank
<1>8. ASSUME NEW r \in Ranks, NEW d \in Ranks PROVE ByPeer(r, d)'
  <2>1. ByPeer(r, d)
    BY DEF IInv
  <2>2. queue'[r][d] = <<>>
    BY <1>0, <1>1, <2>1, Exclusive DEF ByPeer, QueueOrder
  <2>3. QueueOrder(r, d)'
    BY <2>2 DEF QueueOrder
  <2>4. Signals(r, d)'
    BY <1>1, <1>5, <2>1, ModeStable DEF ByPeer, Signals
  <2> QED BY <2>3, <2>4 DEF ByPeer
<1>9. ASSUME NEW r \in Ranks, NEW d \in Ranks, NEW c \in Chunk PROVE ByChunk(r, d, c)'
  <2>1. ByChunk(r, d, c) /\ ~UsesSdma /\ ~Direct /\ ~SplitLsa /\ Reducing /\ StreamOrder(r)
    BY <1>0, <1>1, Exclusive DEF IInv, ByRank
  <2>2. Kept(r, d, c)'
    <3>1. CASE r = q
      <4>1. Filled(r, d, c) \in Int /\ Filled(r, d, c) <= started[r] /\ started[r] <= cleared[r]
            /\ started[r] \in Nat /\ freed[r] \in Nat /\ freed'[r] = freed[r] /\ cleared[r] = freed[r]
        BY <1>0, <1>1, <1>6, <3>1, Counts
      <4>2. freed'[r] .. Filled(r, d, c)' - 1 = {}
        BY <1>5, <4>1
      <4> QED BY <4>2 DEF Kept
    <3>2. CASE r # q
      BY <1>1, <1>3, <1>5, <2>1, <3>2, ModeStable DEF ByChunk, Kept
    <3> QED BY <3>1, <3>2
  <2>3. Window(r, d, c)'
    <3>1. CASE d = q
      <4>1. Copied(r, d, c) <= Staged(r) /\ Copied(r, d, c) \in Nat
        BY <1>0, <2>1, CopiedStaged
      <4>2. Staged(r) <= started[r] /\ started[r] <= cleared[q] /\ Staged(r) \in Int
            /\ started[r] \in Nat /\ cleared[q] \in Nat
        BY <1>0, <1>6, Types
      <4>3. Copied(r, d, c)' # cleared'[d]
        BY <1>3, <1>5, <3>1, <4>1, <4>2
      <4> QED BY <1>1, <1>3, <2>1, <3>1, <4>3, ModeStable DEF Window
    <3>2. CASE d # q
      BY <1>1, <1>3, <1>5, <2>1, <3>2, ModeStable DEF ByChunk, Window
    <3> QED BY <3>1, <3>2
  <2>4. Unlanded(r, d, c)'
    BY <1>1, <2>1, ModeStable DEF Unlanded
  <2> QED BY <2>2, <2>3, <2>4 DEF ByChunk
<1> QED BY <1>4, <1>7, <1>8, <1>9 DEF IInv

(* A GEMM starts: what it has stored of its epoch is nothing. *)
LEMMA InvStartGemm ==
  ASSUME IInv, NEW q \in Ranks, StartGemm(q) PROVE IInv'
<1>0. TypeOK /\ mode \in Modes
  BY DEF IInv, TypeOK
<1>1. /\ mode' = mode
      /\ ~running[q] /\ started[q] < Epochs /\ MayStart(q) /\ AllCleared(q)
      /\ UNCHANGED <<staging, queue, recv, ready, pc, told, freed, cleared>>
  BY DEF StartGemm, transfer
<1>2. /\ started'[q] = started[q] + 1 /\ running'[q] /\ stored'[q] = {}
      /\ \A r \in Ranks \ {q} :
           started'[r] = started[r] /\ running'[r] = running[r] /\ stored'[r] = stored[r]
  BY <1>0 DEF StartGemm, TypeOK
<1>3. TypeOK'
  <2>1. started[q] + 1 \in 0 .. Epochs
    BY <1>0, <1>1, Types, Sizes
  <2>2. started' \in [Ranks -> 0 .. Epochs]
    BY <1>0, <2>1 DEF StartGemm, TypeOK
  <2>3. running' \in [Ranks -> BOOLEAN] /\ stored' \in [Ranks -> SUBSET AllChunks]
    BY <1>0 DEF StartGemm, TypeOK
  <2> QED BY <1>0, <1>1, <2>2, <2>3, ModeStable DEF TypeOK
<1>4. ASSUME NEW r \in Ranks PROVE Staged(r)' = Staged(r)
  <2>1. CASE r = q
    BY <1>0, <1>1, <1>2, <2>1, Types DEF Staged
  <2>2. CASE r # q
    BY <1>2, <2>2 DEF Staged
  <2> QED BY <2>1, <2>2
<1>5. ASSUME NEW r \in Ranks, NEW d \in Ranks, NEW c \in Chunk
      PROVE  /\ Filled(r, d, c)' = Filled(r, d, c) /\ Posted(r, d, c)' = Posted(r, d, c)
             /\ Copied(r, d, c)' = Copied(r, d, c) /\ Signalled(r, d)' = Signalled(r, d)
  <2>1. Filled(r, d, c)' = Filled(r, d, c)
    <3>1. CASE r = q
      BY <1>0, <1>1, <1>2, <3>1, Types DEF Filled
    <3>2. CASE r # q
      BY <1>2, <3>2 DEF Filled
    <3> QED BY <3>1, <3>2
  <2> QED BY <1>1, <2>1, ModeStable DEF Posted, Copied, Signalled
<1>6. ASSUME NEW r \in Ranks PROVE ByRank(r)'
  <2>1. ByRank(r) /\ started[r] \in Nat /\ freed[r] \in Nat /\ \A p \in Ranks : cleared[p] \in Nat
    BY <1>0, Types DEF IInv
  <2>2. started'[r] <= (IF Overlapped THEN freed[r] + 2 ELSE freed[r] + 1)
    <3>1. CASE r = q
      BY <1>1, <1>2, <2>1, <3>1 DEF MayStart
    <3>2. CASE r # q
      BY <1>2, <2>1, <3>2 DEF ByRank, StreamOrder
    <3> QED BY <3>1, <3>2
  <2>3. Rounds(r)'
    <3>1. CASE r = q
      BY <1>1, <1>2, <2>1, <3>1, ModeStable DEF ByRank, Rounds, AllCleared
    <3>2. CASE r # q
      BY <1>1, <1>2, <2>1, <3>2, ModeStable DEF ByRank, Rounds
    <3> QED BY <3>1, <3>2
  <2>4. StreamOrder(r)'
    BY <1>1, <1>4, <2>1, <2>2, ModeStable DEF ByRank, StreamOrder, Peers
  <2> QED BY <2>3, <2>4 DEF ByRank
<1>7. ASSUME NEW r \in Ranks, NEW d \in Ranks PROVE ByPeer(r, d)'
  <2>1. ByPeer(r, d) /\ \A i \in DOMAIN queue[r][d] : queue[r][d][i].chunk \in Chunk
    BY <1>0, PutTypes DEF IInv
  <2>2. QueueOrder(r, d)'
    BY <1>1, <1>5, <2>1, ModeStable DEF ByPeer, QueueOrder
  <2>3. Signals(r, d)'
    <3>1. Signalled(r, d)' = Signalled(r, d)
      BY <1>5, Sizes
    <3> QED BY <1>1, <2>1, <3>1, ModeStable DEF ByPeer, Signals
  <2> QED BY <2>2, <2>3 DEF ByPeer
<1>8. ASSUME NEW r \in Ranks, NEW d \in Ranks, NEW c \in Chunk PROVE ByChunk(r, d, c)'
  <2>1. ByChunk(r, d, c)
    BY DEF IInv
  <2> QED BY <1>1, <1>5, <2>1, ModeStable DEF ByChunk, Kept, Unlanded, Window
<1> QED BY <1>3, <1>6, <1>7, <1>8 DEF IInv

(* While a GEMM runs, only the epoch before its own can still be transferred
   from staging, and that is in the other slot. *)
LEMMA OtherSlot ==
  ASSUME TypeOK, NEW r \in Ranks, StreamOrder(r), running[r], NEW e \in freed[r] .. Computing(r) - 1
  PROVE  Slot(e) # Slot(Computing(r))
<1>1. started[r] \in Nat /\ freed[r] \in Nat
  BY Types
<1>2. e \in Int /\ freed[r] <= e /\ e <= started[r] - 2
  BY <1>1 DEF Computing
<1>3. Overlapped /\ e + 1 = Computing(r)
  BY <1>1, <1>2 DEF StreamOrder, Computing
<1> QED BY <1>2, <1>3, SlotFacts

(* A chunk of the GEMM's epoch is stored, and in the fused mode posted. *)
LEMMA InvStoreChunk ==
  ASSUME IInv, NEW q \in Ranks, NEW d0 \in Ranks, NEW c0 \in Chunk, <<d0, c0>> \in Pieces(q),
         StoreChunk(q, d0, c0)
  PROVE  IInv'
<1> DEFINE e0 == Computing(q)
           Touched(r, d, c) == r = q /\ d = d0 /\ (c = c0 \/ d = q)
<1>0. TypeOK /\ mode \in Modes
  BY DEF IInv, TypeOK
<1>1. /\ mode' = mode /\ running[q] /\ <<d0, c0>> \notin stored[q]
      /\ UNCHANGED <<started, running, ready, pc, told, freed, cleared>>
      /\ stored' = [stored EXCEPT ![q] = stored[q] \cup {<<d0, c0>>}]
  BY DEF StoreChunk, transfer
<1>2. /\ Direct => /\ recv' = [recv EXCEPT ![d0][q] = WithChunk(recv[d0][q], d0 = q, c0, e0)]
                   /\ staging' = staging
      /\ ~Direct =>
           /\ staging' = [staging EXCEPT ![q][Slot(e0)][d0] =
                             WithChunk(staging[q][Slot(e0)][d0], d0 = q, c0, e0)]
           /\ recv' = recv
      /\ queue' = IF Fused /\ d0 # q
                  THEN [queue EXCEPT ![q][d0] = Append(queue[q][d0], Put(e0, c0))]
                  ELSE queue
  BY DEF StoreChunk
<1>3. d0 = q => c0 = 0
  BY DEF Pieces, Peers
<1>33. /\ recv \in [Ranks -> [Ranks -> Slab]] /\ staging \in [Ranks -> [Slots -> [Ranks -> Slab]]]
       /\ queue \in [Ranks -> [Ranks -> Seq(Puts)]]
  BY <1>0 DEF TypeOK
<1>4. /\ started[q] \in Nat /\ freed[q] \in Nat /\ started[q] <= Epochs /\ StreamOrder(q)
      /\ Staged(q) = e0 /\ freed[q] <= e0 /\ e0 \in Nat /\ e0 = started[q] - 1
  BY <1>0, <1>1, Types DEF IInv, ByRank, StreamOrder, Staged, Computing
<1>5. e0 \in Epoch /\ Slot(e0) \in Slots /\ Put(e0, c0) \in Puts
  BY <1>4, SlotFacts, Sizes DEF Epoch, Put, Puts
<1> HIDE DEF e0
<1>6. /\ stored'[q] = stored[q] \cup {<<d0, c0>>}
      /\ \A r \in Ranks \ {q} : stored'[r] = stored[r] /\ staging'[r] = staging[r] /\ queue'[r] = queue[r]
      /\ \A d \in Ranks \ {d0} : queue'[q][d] = queue[q][d]
  BY <1>0, <1>1, <1>2 DEF TypeOK
<1>7. TypeOK'
  <2>1. stored' \in [Ranks -> SUBSET AllChunks]
    <3>1. <<d0, c0>> \in AllChunks
      BY DEF AllChunks
    <3>2. stored[q] \cup {<<d0, c0>>} \in SUBSET AllChunks
      BY <1>0, <3>1 DEF TypeOK
    <3> QED BY <1>0, <1>1, <3>2 DEF TypeOK
  <2>2. ASSUME NEW slab \in Slab
        PROVE  WithChunk(slab, d0 = q, c0, e0) \in Slab
    BY <1>5 DEF WithChunk, Slab
  <2>3. recv' \in [Ranks -> [Ranks -> Slab]]
    <3>1. WithChunk(recv[d0][q], d0 = q, c0, e0) \in Slab
      BY <1>33, <2>2
    <3>2. CASE Direct
      <4> DEFINE x == WithChunk(recv[d0][q], d0 = q, c0, e0)
      <4>1. recv' = [recv EXCEPT ![d0][q] = x] /\ x \in Slab
        BY <1>2, <3>1, <3>2
      <4> HIDE DEF x
      <4> QED BY <1>33, <4>1, Update2
    <3>3. CASE ~Direct
      BY <1>2, <1>33, <3>3
    <3> QED BY <3>2, <3>3
  <2>4. staging' \in [Ranks -> [Slots -> [Ranks -> Slab]]]
    <3>1. WithChunk(staging[q][Slot(e0)][d0], d0 = q, c0, e0) \in Slab
      BY <1>5, <1>33, <2>2
    <3>2. CASE Direct
      BY <1>2, <1>33, <3>2
    <3>3. CASE ~Direct
      <4> DEFINE x == WithChunk(staging[q][Slot(e0)][d0], d0 = q, c0, e0)
      <4>1. staging' = [staging EXCEPT ![q][Slot(e0)][d0] = x] /\ x \in Slab
        BY <1>2, <3>1, <3>3
      <4> HIDE DEF x
      <4> QED BY <1>5, <1>33, <4>1, Update3
    <3> QED BY <3>2, <3>3
  <2>5. queue' \in [Ranks -> [Ranks -> Seq(Puts)]]
    <3>1. Append(queue[q][d0], Put(e0, c0)) \in Seq(Puts)
      BY <1>0, <1>5, PutTypes, AppendProperties
    <3> QED BY <1>0, <1>2, <3>1 DEF TypeOK
  <2>6. UNCHANGED <<mode, started, running, ready, pc, told, freed, cleared>>
    BY <1>1
  <2>7. /\ mode \in Modes /\ started \in [Ranks -> 0 .. Epochs] /\ running \in [Ranks -> BOOLEAN]
        /\ ready \in [Ranks -> [Ranks -> 0 .. Epochs]] /\ pc \in [Ranks -> {"idle", "copy", "notify"}]
        /\ told \in [Ranks -> SUBSET (IF SplitLsa \/ Reducing THEN AllChunks ELSE Ranks)]
        /\ freed \in [Ranks -> 0 .. Epochs] /\ cleared \in [Ranks -> 0 .. Epochs]
    BY <1>0 DEF TypeOK
  <2>8. (told \in [Ranks -> SUBSET (IF SplitLsa \/ Reducing THEN AllChunks ELSE Ranks)])'
    BY <2>6, <2>7, ModeStable DEF AllChunks
  <2> QED BY <2>1, <2>3, <2>4, <2>5, <2>6, <2>7, <2>8 DEF TypeOK
<1>8. ASSUME NEW r \in Ranks
      PROVE  /\ Staged(r)' = Staged(r) /\ (StreamOrder(r) => StreamOrder(r)')
             /\ \A d \in Ranks : Signalled(r, d)' = Signalled(r, d)
             /\ \A d \in Ranks, c \in Chunk : Copied(r, d, c)' = Copied(r, d, c)
  <2>1. Staged(r)' = Staged(r)
    BY <1>1 DEF Staged
  <2> QED BY <1>1, <2>1, ModeStable DEF StreamOrder, Signalled, Copied, Peers, AllChunks
<1>9. ASSUME NEW r \in Ranks, NEW d \in Ranks, NEW c \in Chunk
      PROVE  /\ Touched(r, d, c) => Filled(r, d, c) = e0 /\ Filled(r, d, c)' = e0 + 1
             /\ ~Touched(r, d, c) => Filled(r, d, c)' = Filled(r, d, c)
  <2>1. CASE Touched(r, d, c)
    <3>1. <<d, IF d = r THEN 0 ELSE c>> = <<d0, c0>>
      BY <1>3, <2>1
    <3>2. Filled(r, d, c) = started[q] - 1 /\ Filled(r, d, c)' = started[q]
      BY <1>1, <1>6, <2>1, <3>1 DEF Filled
    <3> QED BY <1>4, <2>1, <3>2
  <2>2. CASE ~Touched(r, d, c)
    <3>1. CASE r = q
      <4>1. <<d, IF d = r THEN 0 ELSE c>> # <<d0, c0>>
        BY <1>3, <2>2, <3>1
      <4> QED BY <1>1, <1>6, <2>2, <3>1, <4>1 DEF Filled
    <3>2. CASE r # q
      BY <1>1, <1>6, <2>2, <3>2 DEF Filled
    <3> QED BY <3>1, <3>2
  <2> QED BY <2>1, <2>2
<1>10. ASSUME NEW r \in Ranks PROVE ByRank(r)'
  BY <1>1, <1>8, ModeStable DEF IInv, ByRank, Rounds
<1>11. ASSUME NEW r \in Ranks, NEW d \in Ranks, NEW c \in Chunk PROVE Kept(r, d, c)'
  <2> SUFFICES ASSUME ~Direct, NEW e \in freed[r] .. Filled(r, d, c)' - 1
               PROVE  staging'[r][Slot(e)][d][c] = e
    BY <1>1, ModeStable DEF Kept
  <2>1. ByChunk(r, d, c) /\ freed[r] \in Nat /\ Filled(r, d, c) \in Int
    BY <1>0, Counts DEF IInv
  <2>2. e \in freed[r] .. Filled(r, d, c) - 1 => staging[r][Slot(e)][d][c] = e
    BY <2>1 DEF ByChunk, Kept
  <2>3. e \in Int /\ Slot(e) \in Slots /\ freed[r] <= e /\ e <= Filled(r, d, c)' - 1
    <3>1. Filled(r, d, c)' \in Int
      BY <1>4, <1>9, <2>1
    <3> QED BY <2>1, <3>1, SlotFacts
  <2>4. CASE r # q
    <3>1. Filled(r, d, c)' = Filled(r, d, c) /\ staging'[r] = staging[r]
      BY <1>6, <1>9, <2>4
    <3> QED BY <2>2, <3>1
  <2>5. CASE r = q /\ Slot(e) # Slot(e0)
    <3>1. staging'[q][Slot(e)] = staging[q][Slot(e)]
      BY <1>2, <1>33, <2>3, <2>5
    <3>2. e # e0
      BY <2>5
    <3>3. e \in freed[r] .. Filled(r, d, c) - 1
      BY <1>4, <1>9, <2>1, <2>3, <3>2
    <3> QED BY <2>2, <2>5, <3>1, <3>3
  <2>6. CASE r = q /\ Slot(e) = Slot(e0) /\ Touched(r, d, c)
    <3>1. staging'[q][Slot(e0)][d0] = WithChunk(staging[q][Slot(e0)][d0], d0 = q, c0, e0)
      BY <1>2, <1>5, <1>33, Update3
    <3>2. staging'[q][Slot(e0)][d0][c] = e0
      BY <2>6, <3>1 DEF WithChunk
    <3>3. e = e0
      <4>1. e <= e0
        BY <1>4, <1>9, <2>3, <2>6
      <4>2. CASE e # e0
        <5>1. e \in freed[q] .. e0 - 1
          BY <1>4, <2>1, <2>3, <2>6, <4>1, <4>2
        <5> QED BY <1>0, <1>1, <1>4, <2>6, <5>1, OtherSlot DEF e0
      <4> QED BY <4>2
    <3> QED BY <2>6, <3>2, <3>3
  <2>7. CASE r = q /\ Slot(e) = Slot(e0) /\ ~Touched(r, d, c)
    <3>1. staging'[q][Slot(e0)][d0] = WithChunk(staging[q][Slot(e0)][d0], d0 = q, c0, e0)
          /\ (d # d0 => staging'[q][Slot(e0)][d] = staging[q][Slot(e0)][d])
      BY <1>2, <1>5, <1>33, Update3
    <3>2. staging'[q][Slot(e0)][d][c] = staging[q][Slot(e0)][d][c]
      BY <2>7, <3>1 DEF WithChunk
    <3>3. Filled(r, d, c)' = Filled(r, d, c)
      BY <1>9, <2>7
    <3> QED BY <2>2, <2>7, <3>2, <3>3
  <2> QED BY <2>4, <2>5, <2>6, <2>7
<1>12. ASSUME NEW r \in Ranks, NEW d \in Ranks, NEW c \in Chunk PROVE Window(r, d, c)'
  <2>1. ByChunk(r, d, c)
    BY DEF IInv
  <2>2. CASE Direct
    <3>1. recv[d][r][c] = Filled(r, d, c) - 1 /\ Filled(r, d, c) \in Int
      BY <1>0, <2>1, <2>2, Counts DEF ByChunk, Window
    <3>2. recv'[d][r][c] = IF Touched(r, d, c) THEN e0 ELSE recv[d][r][c]
      <4>1. CASE d = d0 /\ r = q
        <5>1. recv'[d][r] = WithChunk(recv[d][r], d0 = q, c0, e0)
          BY <1>2, <1>33, <2>2, <4>1, Update2
        <5> QED BY <4>1, <5>1 DEF WithChunk
      <4>2. CASE ~(d = d0 /\ r = q)
        <5>1. recv'[d][r] = recv[d][r]
          BY <1>2, <1>33, <2>2, <4>2, Update2
        <5> QED BY <4>2, <5>1
      <4> QED BY <4>1, <4>2
    <3>3. recv'[d][r][c] = Filled(r, d, c)' - 1
      BY <1>4, <1>9, <3>1, <3>2
    <3> QED BY <1>0, <1>1, <2>2, <3>3, Exclusive, ModeStable DEF Window
  <2>3. CASE ~Direct
    BY <1>1, <1>2, <1>8, <2>1, <2>3, ModeStable DEF ByChunk, Window
  <2> QED BY <2>2, <2>3

<1>13. ASSUME NEW r \in Ranks, NEW d \in Ranks, NEW c \in Chunk
       PROVE  /\ Posted(r, d, c)' >= Posted(r, d, c) /\ Posted(r, d, c)' \in Int /\ Posted(r, d, c) \in Int
              /\ Fused /\ Touched(r, d, c) => Posted(r, d, c) = e0 /\ Posted(r, d, c)' = e0 + 1
              /\ ~(Fused /\ Touched(r, d, c)) /\ UsesSdma => Posted(r, d, c)' = Posted(r, d, c)
  <2>1. freed[r] \in Nat /\ Filled(r, d, c) \in Int /\ Posted(r, d, c) \in Int
    BY <1>0, Counts
  <2>2. Posted(r, d, c) = IF Bulk THEN IF pc[r] = "idle" THEN freed[r] ELSE freed[r] + 1 ELSE Filled(r, d, c)
    BY DEF Posted
  <2>3. Posted(r, d, c)' = IF Bulk THEN IF pc[r] = "idle" THEN freed[r] ELSE freed[r] + 1 ELSE Filled(r, d, c)'
    BY <1>1, ModeStable DEF Posted
  <2> HIDE DEF Touched
  <2>4. CASE Bulk
    BY <1>0, <2>1, <2>2, <2>3, <2>4, Exclusive
  <2>5. CASE ~Bulk
    BY <1>0, <1>4, <1>9, <2>1, <2>2, <2>3, <2>5, Exclusive
  <2> QED BY <2>4, <2>5
<1>14. ASSUME NEW r \in Ranks, NEW d \in Ranks, ~(Fused /\ r = q /\ d = d0 /\ d # q)
       PROVE  /\ queue'[r][d] = queue[r][d]
              /\ QueueOrder(r, d)' /\ \A c \in Chunk : Unlanded(r, d, c)'
  <2>1. queue'[r][d] = queue[r][d]
    BY <1>2, <1>6, <1>14
  <2>2. ByPeer(r, d) /\ \A i \in DOMAIN queue[r][d] : queue[r][d][i].chunk \in Chunk /\ queue[r][d][i].epoch \in Nat
    BY <1>0, PutTypes DEF IInv
  <2>3. CASE d = r \/ ~UsesSdma
    <3>1. queue'[r][d] = <<>>
      BY <2>1, <2>2, <2>3 DEF ByPeer, QueueOrder
    <3>2. QueueOrder(r, d)'
      BY <3>1 DEF QueueOrder
    <3>3. \A c \in Chunk : Unlanded(r, d, c)'
      BY <1>1, <2>3, ModeStable DEF Unlanded
    <3> QED BY <2>1, <3>2, <3>3
  <2>4. CASE d # r /\ UsesSdma
    <3>1. \A c \in Chunk : ~(Fused /\ Touched(r, d, c))
      BY <1>14, <2>4
    <3>2. \A c \in Chunk : Posted(r, d, c)' = Posted(r, d, c)
      BY <1>13, <2>4, <3>1
    <3>3. recv' = recv
      BY <1>0, <1>2, <2>4, Exclusive
    <3>4. QueueOrder(r, d)'
      BY <1>1, <2>1, <2>2, <2>4, <3>2, <3>3, ModeStable DEF ByPeer, QueueOrder
    <3>5. ASSUME NEW c \in Chunk PROVE Unlanded(r, d, c)'
      <4>1. ByChunk(r, d, c)
        BY DEF IInv
      <4> QED BY <1>1, <2>1, <2>4, <3>2, <3>3, <4>1, ModeStable DEF ByChunk, Unlanded, Put
    <3> QED BY <2>1, <3>4, <3>5
  <2> QED BY <2>3, <2>4
<1>15. ASSUME Fused, d0 # q
       PROVE  QueueOrder(q, d0)' /\ \A c \in Chunk : Unlanded(q, d0, c)'
  <2> DEFINE s == queue[q][d0]
             n == Len(s) + 1
             x == Put(e0, c0)
  <2>1. queue'[q][d0] = Append(s, x) /\ s \in Seq(Puts) /\ recv' = recv /\ UsesSdma /\ ~Bulk
    <3>1. UsesSdma /\ ~Bulk /\ ~Direct
      BY <1>0, <1>15, Exclusive
    <3>2. queue' = [queue EXCEPT ![q][d0] = Append(s, x)]
      BY <1>2, <1>15
    <3>3. queue'[q][d0] = Append(s, x)
      BY <1>33, <3>2
    <3> QED BY <1>2, <1>33, <3>1, <3>3
  <2>2. ByPeer(q, d0) /\ \A i \in DOMAIN s : s[i].chunk \in Chunk /\ s[i].epoch \in Nat
    BY <1>0, PutTypes DEF IInv
  <2>3. /\ DOMAIN s = 1 .. Len(s) /\ Len(s) \in Nat /\ DOMAIN Append(s, x) = 1 .. n
        /\ \A i \in DOMAIN s : Append(s, x)[i] = s[i]
        /\ Append(s, x)[n] = x
    BY <1>5, <2>1, AppendProperties, LenProperties
  <2>4. x.epoch = e0 /\ x.chunk = c0
    BY DEF Put
  <2> HIDE DEF s, x
  <2> DEFINE t == Append(s, x)
  <2>5. \A c \in Chunk : /\ Posted(q, d0, c)' = IF c = c0 THEN e0 + 1 ELSE Posted(q, d0, c)
                         /\ Posted(q, d0, c) \in Int
                         /\ c = c0 => Posted(q, d0, c) = e0
    BY <1>13, <1>15, <2>1
  <2>6. recv[d0][q][c0] < e0 /\ \A c \in Chunk : recv[d0][q][c] \in Int
    <3>1. ByChunk(q, d0, c0)
      BY DEF IInv
    <3>2. \A c \in Chunk : recv[d0][q][c] \in Epoch \cup {Empty}
      <4>1. recv[d0][q] \in Slab
        BY <1>33
      <4> QED BY <4>1 DEF Slab
    <3>3. Epoch \cup {Empty} \subseteq Int
      BY Sizes DEF Epoch, Empty
    <3> QED BY <1>15, <2>1, <2>5, <3>1, <3>2, <3>3 DEF ByChunk, Unlanded
  <2>7. ASSUME NEW i \in DOMAIN t
        PROVE  /\ freed[q] <= t[i].epoch
               /\ \A c \in Chunk : t[i].chunk = c => t[i].epoch < Posted(q, d0, c)'
               /\ recv[d0][q][t[i].chunk] < t[i].epoch
               /\ pc[q] = "notify" /\ d0 \in told[q] => t[i].epoch # freed[q]
               /\ \A j \in DOMAIN t : i < j /\ t[j].chunk = t[i].chunk => t[i].epoch < t[j].epoch
    <3>1. CASE i = n
      <4>1. t[i] = x
        BY <2>3, <3>1
      <4>2. pc[q] # "idle" => freed[q] < e0
        BY <1>4 DEF StreamOrder
      <4>3. \A j \in DOMAIN t : ~(i < j)
        BY <2>3, <3>1
      <4>4. \A c \in Chunk : t[i].chunk = c => Posted(q, d0, c)' = e0 + 1
        BY <2>4, <2>5, <4>1
      <4> HIDE DEF t
      <4> QED BY <1>4, <2>4, <2>6, <4>1, <4>2, <4>3, <4>4
    <3>2. CASE i # n
      <4>1. i \in DOMAIN s /\ t[i] = s[i]
        BY <2>3, <3>2
      <4>2. /\ freed[q] <= s[i].epoch /\ s[i].epoch < Posted(q, d0, s[i].chunk)
            /\ recv[d0][q][s[i].chunk] < s[i].epoch
            /\ pc[q] = "notify" /\ d0 \in told[q] => s[i].epoch # freed[q]
            /\ \A j \in DOMAIN s : i < j /\ s[j].chunk = s[i].chunk => s[i].epoch < s[j].epoch
        BY <2>2, <4>1 DEF ByPeer, QueueOrder, s
      <4>3. s[i].chunk \in Chunk /\ s[i].epoch \in Nat
        BY <2>2, <4>1
      <4>5. ASSUME NEW c \in Chunk, s[i].chunk = c PROVE s[i].epoch < Posted(q, d0, c)'
        <5>1. Posted(q, d0, c) <= Posted(q, d0, c)'
          BY <1>4, <2>5
        <5>2. s[i].epoch < Posted(q, d0, c) /\ s[i].epoch \in Nat
          BY <4>2, <4>3, <4>5
        <5>3. Posted(q, d0, c) \in Int /\ Posted(q, d0, c)' \in Int
          BY <1>13
        <5> QED BY <5>1, <5>2, <5>3
      <4>6. ASSUME NEW j \in DOMAIN t, i < j, t[j].chunk = t[i].chunk PROVE t[i].epoch < t[j].epoch
        <5>1. CASE j = n
          BY <2>3, <2>4, <2>5, <4>1, <4>2, <4>3, <4>6, <5>1
        <5>2. CASE j # n
          <6>1. j \in DOMAIN s /\ t[j] = s[j]
            BY <2>3, <5>2
          <6> QED BY <4>1, <4>2, <4>6, <6>1
        <5> QED BY <5>1, <5>2
      <4> QED BY <4>1, <4>2, <4>5, <4>6
    <3> QED BY <3>1, <3>2
  <2>8. QueueOrder(q, d0)'
    <3>1. \A i \in DOMAIN t : t[i].chunk \in Chunk
      BY <2>2, <2>3, <2>4
    <3>2. queue'[q][d0] = t
      BY <2>1
    <3> HIDE DEF t
    <3>3. \A i \in DOMAIN queue'[q][d0] : queue'[q][d0][i].epoch < Posted(q, d0, queue[q][d0][i].chunk)'
      BY <2>7, <3>1, <3>2
    <3> QED BY <1>1, <1>15, <2>1, <2>7, <3>2, <3>3, ModeStable DEF QueueOrder
  <2>9. ASSUME NEW c \in Chunk PROVE Unlanded(q, d0, c)'
    <3>1. recv[d0][q][c] < Posted(q, d0, c)
          /\ \A e \in recv[d0][q][c] + 1 .. Posted(q, d0, c) - 1 : \E i \in DOMAIN s : s[i] = Put(e, c)
      BY <1>15, <2>1 DEF IInv, ByChunk, Unlanded, s
    <3>2. recv[d0][q][c] < Posted(q, d0, c)'
      BY <1>4, <2>5, <2>6, <3>1
    <3>3. ASSUME NEW e \in recv[d0][q][c] + 1 .. Posted(q, d0, c)' - 1
          PROVE  \E i \in DOMAIN t : t[i] = Put(e, c)
      <4>1. CASE c = c0 /\ e = e0
        <5>1. t[n] = Put(e, c) /\ n \in DOMAIN t
          BY <2>3, <4>1 DEF x
        <5> QED BY <5>1
      <4>2. CASE ~(c = c0 /\ e = e0)
        <5>1. e \in recv[d0][q][c] + 1 .. Posted(q, d0, c) - 1
          BY <1>4, <2>5, <2>6, <3>3, <4>2
        <5>2. PICK i \in DOMAIN s : s[i] = Put(e, c)
          BY <3>1, <5>1
        <5>3. i \in DOMAIN t /\ t[i] = Put(e, c)
          BY <2>3, <5>2
        <5> QED BY <5>3
      <4> QED BY <4>1, <4>2
    <3> QED BY <1>15, <2>1, <3>2, <3>3 DEF Unlanded, Put
  <2> QED BY <2>8, <2>9
<1>16. ASSUME NEW r \in Ranks, NEW d \in Ranks PROVE ByPeer(r, d)'
  <2>1. QueueOrder(r, d)'
    <3>1. CASE Fused /\ r = q /\ d = d0 /\ d # q
      BY <1>15, <3>1
    <3>2. CASE ~(Fused /\ r = q /\ d = d0 /\ d # q)
      BY <1>14, <3>2
    <3> QED BY <3>1, <3>2
  <2>2. Signals(r, d)'
    BY <1>1, <1>8, ModeStable DEF IInv, ByPeer, Signals
  <2> QED BY <2>1, <2>2 DEF ByPeer
<1>17. ASSUME NEW r \in Ranks, NEW d \in Ranks, NEW c \in Chunk PROVE Unlanded(r, d, c)'
  <2>1. CASE Fused /\ r = q /\ d = d0 /\ d # q
    BY <1>15, <2>1
  <2>2. CASE ~(Fused /\ r = q /\ d = d0 /\ d # q)
    BY <1>14, <2>2
  <2> QED BY <2>1, <2>2
<1> QED BY <1>7, <1>10, <1>11, <1>12, <1>16, <1>17 DEF IInv, ByChunk

(* What is queued to a peer, when neither the queue nor what it depends on moves. *)
LEMMA PeerStable ==
  ASSUME TypeOK, mode' = mode, NEW r \in Ranks, NEW d \in Ranks,
         queue'[r][d] = queue[r][d], \A c \in Chunk : recv'[d][r][c] = recv[d][r][c],
         ready'[d][r] = ready[d][r],
         freed'[r] = freed[r], pc'[r] = pc[r], told'[r] = told[r],
         \A c \in Chunk : Posted(r, d, c)' = Posted(r, d, c),
         ByPeer(r, d)
  PROVE  ByPeer(r, d)'
<1>1. \A i \in DOMAIN queue[r][d] : queue[r][d][i].chunk \in Chunk
  BY PutTypes
<1>2. QueueOrder(r, d)'
  BY <1>1, ModeStable DEF ByPeer, QueueOrder
<1>3. Signals(r, d)'
  BY ModeStable DEF ByPeer, Signals, Signalled
<1> QED BY <1>2, <1>3 DEF ByPeer

(* A chunk, when nothing about it moves. *)
LEMMA ChunkStable ==
  ASSUME mode' = mode, NEW r \in Ranks, NEW d \in Ranks, NEW c \in Chunk,
         queue'[r][d] = queue[r][d], recv'[d][r][c] = recv[d][r][c],
         \A s \in Slots : staging'[r][s][d][c] = staging[r][s][d][c],
         freed'[r] = freed[r], pc'[r] = pc[r], cleared'[d] = cleared[d],
         Filled(r, d, c)' = Filled(r, d, c), Posted(r, d, c)' = Posted(r, d, c),
         Copied(r, d, c)' = Copied(r, d, c), Filled(r, d, c) \in Int, freed[r] \in Int,
         ByChunk(r, d, c)
  PROVE  ByChunk(r, d, c)'
<1>1. Kept(r, d, c)'
  <2> SUFFICES ASSUME ~Direct, NEW e \in freed[r] .. Filled(r, d, c) - 1
               PROVE  staging'[r][Slot(e)][d][c] = e
    BY ModeStable DEF Kept
  <2>1. staging[r][Slot(e)][d][c] = e /\ e \in Int
    BY DEF ByChunk, Kept
  <2> QED BY <2>1, SlotFacts
<1>2. Unlanded(r, d, c)' /\ Window(r, d, c)'
  BY ModeStable DEF ByChunk, Unlanded, Window, Put
<1> QED BY <1>1, <1>2 DEF ByChunk

(* A GEMM ends: all it had to store is stored. *)
LEMMA InvFinishGemm ==
  ASSUME IInv, NEW q \in Ranks, FinishGemm(q) PROVE IInv'
<1>0. TypeOK /\ mode \in Modes
  BY DEF IInv, TypeOK
<1>1. /\ mode' = mode /\ running[q] /\ stored[q] = Pieces(q)
      /\ UNCHANGED <<started, stored, staging, queue, recv, ready, pc, told, cleared>>
      /\ running' = [running EXCEPT ![q] = FALSE]
      /\ freed' = IF Direct THEN [freed EXCEPT ![q] = freed[q] + 1] ELSE freed
  BY DEF FinishGemm
<1>2. /\ ~running'[q] /\ freed'[q] = IF Direct THEN freed[q] + 1 ELSE freed[q]
      /\ \A r \in Ranks \ {q} : running'[r] = running[r] /\ freed'[r] = freed[r]
      /\ ~Direct => freed' = freed
  BY <1>0, <1>1 DEF TypeOK
<1>3. /\ started[q] \in Nat /\ freed[q] \in Nat /\ started[q] <= Epochs /\ ByRank(q) /\ StreamOrder(q)
      /\ Staged(q) = started[q] - 1 /\ Staged(q)' = started[q] /\ freed[q] <= started[q] - 1
  BY <1>0, <1>1, <1>2, Types DEF IInv, ByRank, StreamOrder, Staged
<1>4. TypeOK'
  <2>1. running' \in [Ranks -> BOOLEAN]
    BY <1>0, <1>1 DEF TypeOK
  <2>2. freed' \in [Ranks -> 0 .. Epochs]
    <3>1. freed \in [Ranks -> 0 .. Epochs]
      BY <1>0 DEF TypeOK
    <3>2. freed[q] + 1 \in 0 .. Epochs
      BY <1>3, Sizes
    <3> QED BY <1>1, <3>1, <3>2
  <2> QED BY <1>0, <1>1, <2>1, <2>2, ModeStable DEF TypeOK
<1>5. ASSUME NEW r \in Ranks, NEW d \in Ranks, NEW c \in Chunk
      PROVE  Filled(r, d, c)' = Filled(r, d, c)
  <2>1. CASE r = q
    <3>1. <<d, IF d = r THEN 0 ELSE c>> \in stored[q]
      BY <1>1, <2>1 DEF Pieces, Peers
    <3> QED BY <1>1, <1>2, <2>1, <3>1 DEF Filled
  <2>2. CASE r # q
    BY <1>1, <1>2, <2>2 DEF Filled
  <2> QED BY <2>1, <2>2
<1>6. ASSUME NEW r \in Ranks PROVE ByRank(r)'
  <2>1. CASE r = q
    <3>1. Rounds(q)'
      BY <1>0, <1>1, <1>2, <1>3, Exclusive, ModeStable DEF ByRank, Rounds
    <3>2. freed'[q] <= started[q] /\ freed[q] <= freed'[q] /\ freed'[q] \in Nat
          /\ (Direct => freed'[q] = started[q])
      BY <1>2, <1>3 DEF StreamOrder
    <3>3. pc[q] # "idle" => UsesSdma /\ freed'[q] < started[q]
      BY <1>0, <1>2, <1>3, Exclusive DEF StreamOrder
    <3>4. SplitLsa \/ Reducing => told[q] # AllChunks /\ (told[q] # {} => freed'[q] < started[q])
      BY <1>0, <1>2, <1>3, Exclusive DEF StreamOrder
    <3>5. started[q] <= (IF Overlapped THEN freed'[q] + 2 ELSE freed'[q] + 1)
      BY <1>3, <3>2 DEF StreamOrder
    <3>6. StreamOrder(q)'
      BY <1>1, <1>3, <3>2, <3>3, <3>4, <3>5, ModeStable DEF StreamOrder, Peers, AllChunks
    <3> QED BY <2>1, <3>1, <3>6 DEF ByRank
  <2>2. CASE r # q
    <3>1. StreamOrder(r)'
      BY <1>1, <1>2, <2>2, Untouched DEF IInv, ByRank
    <3> QED BY <1>1, <1>2, <2>2, <3>1, ModeStable DEF IInv, ByRank, Rounds
  <2> QED BY <2>1, <2>2
<1>7. CASE ~Direct
  <2>1. freed' = freed
    BY <1>2, <1>7
  <2>2. ASSUME NEW r \in Ranks, NEW d \in Ranks, NEW c \in Chunk
        PROVE  Posted(r, d, c)' = Posted(r, d, c) /\ Copied(r, d, c)' = Copied(r, d, c)
    BY <1>1, <1>5, <2>1, ModeStable DEF Posted, Copied
  <2>3. ASSUME NEW r \in Ranks, NEW d \in Ranks PROVE ByPeer(r, d)'
    BY <1>0, <1>1, <2>1, <2>2, PeerStable DEF IInv
  <2>4. ASSUME NEW r \in Ranks, NEW d \in Ranks, NEW c \in Chunk PROVE ByChunk(r, d, c)'
    <3>1. ByChunk(r, d, c) /\ freed[r] \in Int /\ Filled(r, d, c) \in Int
      BY <1>0, Counts DEF IInv
    <3> QED BY <1>1, <1>5, <2>1, <2>2, <3>1, ChunkStable
  <2> QED BY <1>4, <1>6, <2>3, <2>4 DEF IInv
<1>8. CASE Direct
  <2>0. ~UsesSdma /\ ~SplitLsa /\ ~Reducing
    BY <1>0, <1>8, Exclusive
  <2>1. ASSUME NEW r \in Ranks, NEW d \in Ranks PROVE ByPeer(r, d)'
    <3>1. ByPeer(r, d)
      BY DEF IInv
    <3>2. queue'[r][d] = <<>> /\ ready'[d][r] = 0
      BY <1>1, <2>0, <3>1 DEF ByPeer, QueueOrder, Signals
    <3> QED BY <1>1, <2>0, <3>2, ModeStable DEF ByPeer, QueueOrder, Signals
  <2>2. ASSUME NEW r \in Ranks, NEW d \in Ranks, NEW c \in Chunk PROVE ByChunk(r, d, c)'
    <3>1. ByChunk(r, d, c)
      BY DEF IInv
    <3> QED BY <1>1, <1>5, <1>8, <2>0, <3>1, ModeStable DEF ByChunk, Kept, Unlanded, Window
  <2> QED BY <1>4, <1>6, <2>1, <2>2 DEF IInv
<1> QED BY <1>7, <1>8

(* The PUTs of a slab, one for each chunk. *)
LEMMA PostsFacts ==
  ASSUME NEW e \in Epoch
  PROVE  /\ Posts(e) \in Seq(Puts) /\ DOMAIN Posts(e) = 1 .. Chunks
         /\ \A i \in 1 .. Chunks : Posts(e)[i].epoch = e /\ Posts(e)[i].chunk = i - 1
         /\ \A c \in Chunk : c + 1 \in 1 .. Chunks /\ Posts(e)[c + 1] = Put(e, c)
<1>1. \A i \in 1 .. Chunks : i - 1 \in Chunk
  BY ChunksAssumption DEF Chunk
<1>2. \A i \in 1 .. Chunks : Put(e, i - 1) \in Puts
  BY <1>1 DEF Put, Puts
<1>3. Posts(e) \in [1 .. Chunks -> Puts]
  BY <1>2 DEF Posts
<1>4. Posts(e) \in Seq(Puts)
  BY <1>3, ChunksAssumption, SeqDef
<1>5. \A c \in Chunk : c + 1 \in 1 .. Chunks /\ (c + 1) - 1 = c
  BY ChunksAssumption DEF Chunk
<1> QED BY <1>3, <1>4, <1>5 DEF Posts, Put

(* The chunks of an epoch are posted: until then everything posted has landed. *)
LEMMA InvPost ==
  ASSUME IInv, NEW q \in Ranks, Post(q) PROVE IInv'
<1> DEFINE f == freed[q]
<1>0. TypeOK /\ mode \in Modes
  BY DEF IInv, TypeOK
<1>1. /\ mode' = mode /\ Bulk /\ pc[q] = "idle" /\ f < Staged(q)
      /\ UNCHANGED <<started, running, stored, staging, recv, ready, told, freed, cleared>>
      /\ queue' = [queue EXCEPT ![q] = [d \in Ranks |->
                     IF d = q THEN queue[q][d] ELSE queue[q][d] \o Posts(f)]]
      /\ pc' = [pc EXCEPT ![q] = "copy"]
  BY DEF Post, gemm
<1>2. UsesSdma /\ ~Fused /\ ~Direct /\ ~SplitLsa /\ ~Reducing
  BY <1>0, <1>1, Exclusive
<1>3. f \in Nat /\ f \in Epoch /\ StreamOrder(q)
  <2>1. /\ f \in Nat /\ Staged(q) \in Int /\ started[q] \in Nat /\ Staged(q) <= started[q]
        /\ started[q] <= Epochs
    BY <1>0, Types
  <2>2. f \in Epoch
    BY <1>1, <2>1, Sizes DEF Epoch
  <2> QED BY <2>1, <2>2 DEF IInv, ByRank
<1>4. ASSUME NEW d \in Ranks
      PROVE  /\ queue[q][d] = <<>>
             /\ queue'[q][d] = IF d = q THEN <<>> ELSE Posts(f)
  <2>1. ByPeer(q, d) /\ DOMAIN queue[q][d] = 1 .. Len(queue[q][d]) /\ queue[q][d] \in Seq(Puts)
        /\ \A i \in DOMAIN queue[q][d] : queue[q][d][i].epoch \in Nat
    BY <1>0, PutTypes DEF IInv
  <2>2. ASSUME NEW i \in DOMAIN queue[q][d] PROVE FALSE
    <3>1. f <= queue[q][d][i].epoch /\ queue[q][d][i].epoch < Posted(q, d, queue[q][d][i].chunk)
      BY <2>1, <2>2 DEF ByPeer, QueueOrder
    <3> QED BY <1>1, <1>3, <2>1, <2>2, <3>1 DEF Posted
  <2>3. queue[q][d] = <<>>
    BY <2>1, <2>2, EmptySeq, LenProperties
  <2>4. Posts(f) \in Seq(Puts)
    BY <1>3, PostsFacts
  <2>5. <<>> \o Posts(f) = Posts(f)
    BY <2>4, ConcatEmptySeq
  <2>6. queue'[q][d] = IF d = q THEN queue[q][d] ELSE queue[q][d] \o Posts(f)
    BY <1>0, <1>1 DEF TypeOK
  <2> QED BY <2>3, <2>5, <2>6
<1>5. /\ pc'[q] = "copy"
      /\ \A r \in Ranks \ {q} : pc'[r] = pc[r] /\ queue'[r] = queue[r]
  BY <1>0, <1>1 DEF TypeOK
<1> HIDE DEF f
<1>6. TypeOK'
  <2>1. pc' \in [Ranks -> {"idle", "copy", "notify"}]
    BY <1>0, <1>1 DEF TypeOK
  <2>2. queue' \in [Ranks -> [Ranks -> Seq(Puts)]]
    <3>1. Posts(f) \in Seq(Puts) /\ <<>> \in Seq(Puts)
      BY <1>3, PostsFacts, EmptySeq
    <3>2. [d \in Ranks |-> IF d = q THEN queue[q][d] ELSE queue[q][d] \o Posts(f)] \in [Ranks -> Seq(Puts)]
      <4>1. \A d \in Ranks : queue[q][d] = <<>> /\ <<>> \o Posts(f) = Posts(f)
        BY <1>4, <3>1, ConcatEmptySeq
      <4> QED BY <3>1, <4>1
    <3>3. queue \in [Ranks -> [Ranks -> Seq(Puts)]]
      BY <1>0 DEF TypeOK
    <3> QED BY <1>1, <3>2, <3>3
  <2>3. UNCHANGED <<mode, started, running, stored, staging, recv, ready, told, freed, cleared>>
    BY <1>1
  <2> QED BY <1>0, <2>1, <2>2, <2>3, ModeStable DEF TypeOK
<1>7. ASSUME NEW r \in Ranks, NEW d \in Ranks, NEW c \in Chunk
      PROVE  /\ Filled(r, d, c)' = Filled(r, d, c) /\ Copied(r, d, c)' = Copied(r, d, c)
             /\ Posted(r, d, c)' = IF r = q THEN f + 1 ELSE Posted(r, d, c)
             /\ r = q => Posted(r, d, c) = f
  <2>1. Filled(r, d, c)' = Filled(r, d, c) /\ Copied(r, d, c)' = Copied(r, d, c)
    BY <1>1 DEF Filled, Copied
  <2> QED BY <1>1, <1>5, <2>1, ModeStable DEF Posted, f
<1>8. ASSUME NEW r \in Ranks PROVE ByRank(r)'
  <2>1. CASE r = q
    <3>1. Staged(q)' = Staged(q)
      BY <1>1 DEF Staged
    <3>2. StreamOrder(q)'
      BY <1>1, <1>2, <1>3, <1>5, <3>1, ModeStable DEF StreamOrder, Peers, f
    <3> QED BY <1>1, <2>1, <3>2, ModeStable DEF IInv, ByRank, Rounds
  <2>2. CASE r # q
    <3>1. StreamOrder(r)'
      BY <1>1, <1>5, <2>2, Untouched DEF IInv, ByRank
    <3> QED BY <1>1, <3>1, ModeStable DEF IInv, ByRank, Rounds
  <2> QED BY <2>1, <2>2
<1>9. ASSUME NEW d \in Ranks, d # q, NEW c \in Chunk
      PROVE  recv[d][q][c] = f - 1
  <2>1. recv[d][q][c] \in Int
    <3>1. recv[d][q] \in Slab
      BY <1>0 DEF TypeOK
    <3> QED BY <3>1, Sizes DEF Slab, Epoch, Empty
  <2>2. ByChunk(q, d, c)
    BY DEF IInv
  <2>3. recv[d][q][c] < f /\ \A e \in recv[d][q][c] + 1 .. f - 1 : \E i \in DOMAIN queue[q][d] : queue[q][d][i] = Put(e, c)
    BY <1>2, <1>7, <1>9, <2>2 DEF ByChunk, Unlanded
  <2>4. DOMAIN queue[q][d] = {}
    <3>1. queue[q][d] = <<>>
      BY <1>4
    <3> QED BY <3>1
  <2>5. \A e \in recv[d][q][c] + 1 .. f - 1 : FALSE
    BY <2>3, <2>4
  <2>6. recv[d][q][c] >= f - 1
    <3> SUFFICES ASSUME recv[d][q][c] + 1 <= f - 1 PROVE FALSE
      BY <1>3, <2>1
    <3>1. f - 1 \in recv[d][q][c] + 1 .. f - 1
      BY <1>3, <2>1
    <3> QED BY <2>5, <3>1
  <2> QED BY <1>3, <2>1, <2>3, <2>6
<1>10. ASSUME NEW r \in Ranks, NEW d \in Ranks PROVE ByPeer(r, d)'
  <2>0. ByPeer(r, d)
    BY DEF IInv
  <2>1. CASE r # q
    BY <1>0, <1>1, <1>5, <1>7, <2>0, <2>1, PeerStable
  <2>2. CASE r = q
    <3>1. Signals(q, d)'
      BY <1>1, <1>5, <2>0, <2>2, ModeStable DEF ByPeer, Signals, Signalled
    <3>2. CASE d = q
      <4>1. queue'[q][d] = <<>>
        BY <1>4, <3>2
      <4> QED BY <2>2, <3>1, <4>1 DEF ByPeer, QueueOrder
    <3>3. CASE d # q
      <4> DEFINE t == Posts(f)
      <4>1. queue'[q][d] = t
        BY <1>4, <3>3
      <4>2. /\ DOMAIN t = 1 .. Chunks
            /\ \A i \in DOMAIN t : t[i].epoch = f /\ t[i].chunk = i - 1 /\ i - 1 \in Chunk
        <5>1. \A i \in 1 .. Chunks : i - 1 \in Chunk
          BY ChunksAssumption DEF Chunk
        <5> QED BY <1>3, <5>1, PostsFacts
      <4> HIDE DEF t
      <4>3. ASSUME NEW i \in DOMAIN t
            PROVE  /\ f <= t[i].epoch
                   /\ \A c \in Chunk : t[i].chunk = c => t[i].epoch < Posted(q, d, c)'
                   /\ recv[d][q][t[i].chunk] < t[i].epoch
                   /\ \A j \in DOMAIN t : i < j /\ t[j].chunk = t[i].chunk => t[i].epoch < t[j].epoch
        <5>1. \A c \in Chunk : Posted(q, d, c)' = f + 1 /\ recv[d][q][c] = f - 1
          BY <1>7, <1>9, <3>3
        <5>2. \A j \in DOMAIN t : i < j => t[j].chunk # t[i].chunk
          BY <4>2, <4>3, ChunksAssumption
        <5> QED BY <1>3, <4>2, <4>3, <5>1, <5>2
      <4>4. \A i \in DOMAIN queue'[q][d] : queue'[q][d][i].epoch < Posted(q, d, queue[q][d][i].chunk)'
        BY <4>1, <4>2, <4>3
      <4>5. QueueOrder(q, d)'
        <5>1. /\ freed'[q] = f /\ recv' = recv /\ pc'[q] = "copy"
              /\ UsesSdma' /\ d # q
          BY <1>1, <1>2, <1>5, <3>3, ModeStable DEF f
        <5>2. \A i \in DOMAIN queue'[q][d] :
                /\ f <= queue'[q][d][i].epoch
                /\ recv[d][q][queue'[q][d][i].chunk] < queue'[q][d][i].epoch
                /\ \A j \in DOMAIN queue'[q][d] :
                     i < j /\ queue'[q][d][j].chunk = queue'[q][d][i].chunk
                       => queue'[q][d][i].epoch < queue'[q][d][j].epoch
          BY <4>1, <4>3
        <5> QED BY <4>4, <5>1, <5>2 DEF QueueOrder
      <4> QED BY <2>2, <3>1, <4>5 DEF ByPeer
    <3> QED BY <3>2, <3>3
  <2> QED BY <2>1, <2>2
<1>11. ASSUME NEW r \in Ranks, NEW d \in Ranks, NEW c \in Chunk PROVE ByChunk(r, d, c)'
  <2>0. ByChunk(r, d, c) /\ freed[r] \in Int /\ Filled(r, d, c) \in Int
    BY <1>0, Counts DEF IInv
  <2>1. CASE r # q
    BY <1>1, <1>5, <1>7, <2>0, <2>1, ChunkStable
  <2>2. CASE r = q
    <3>1. Kept(q, d, c)' /\ Window(q, d, c)'
      BY <1>1, <1>2, <1>5, <1>7, <2>0, <2>2, ModeStable DEF ByChunk, Kept, Window
    <3>2. Unlanded(q, d, c)'
      <4> SUFFICES ASSUME d # q
                   PROVE  /\ recv[d][q][c] < f + 1
                          /\ \A e \in recv[d][q][c] + 1 .. (f + 1) - 1 :
                               \E i \in DOMAIN queue'[q][d] : queue'[q][d][i] = Put(e, c)
        <5>1. Posted(q, d, c)' = f + 1 /\ recv' = recv
          BY <1>1, <1>7
        <5> QED BY <5>1, ModeStable DEF Unlanded, Put
      <4>1. recv[d][q][c] = f - 1 /\ queue'[q][d] = Posts(f)
        BY <1>4, <1>9
      <4>2. ASSUME NEW e \in recv[d][q][c] + 1 .. (f + 1) - 1
            PROVE  \E i \in DOMAIN Posts(f) : Posts(f)[i] = Put(e, c)
        <5>1. e = f
          BY <1>3, <4>1, <4>2
        <5>2. c + 1 \in DOMAIN Posts(f) /\ Posts(f)[c + 1] = Put(f, c)
          BY <1>3, PostsFacts
        <5> QED BY <5>1, <5>2
      <4> QED BY <1>3, <4>1, <4>2
    <3> QED BY <2>2, <3>1, <3>2 DEF ByChunk
  <2> QED BY <2>1, <2>2
<1> QED BY <1>6, <1>8, <1>10, <1>11 DEF IInv

(* The local slab is copied: the staging slot still holds the epoch it is from. *)
LEMMA InvSelfCopy ==
  ASSUME IInv, NEW q \in Ranks, SelfCopy(q) PROVE IInv'
<1> DEFINE f == freed[q]
           slab == staging[q][Slot(f)][q]
<1>0. TypeOK /\ mode \in Modes
  BY DEF IInv, TypeOK
<1>1. /\ mode' = mode /\ UsesSdma
      /\ IF Fused THEN pc[q] = "idle" /\ f < Staged(q) ELSE pc[q] = "copy"
      /\ UNCHANGED <<started, running, stored, staging, queue, ready, freed, cleared>>
      /\ recv' = [recv EXCEPT ![q][q] = slab]
      /\ pc' = [pc EXCEPT ![q] = "notify"]
      /\ told' = [told EXCEPT ![q] = {}]
  BY DEF SelfCopy, gemm
<1>2. ~Direct /\ ~SplitLsa /\ ~Reducing /\ (Bulk <=> ~Fused)
  BY <1>0, <1>1, Exclusive
<1>3. f \in Nat /\ StreamOrder(q) /\ f < Staged(q) /\ Staged(q) \in Int /\ Slot(f) \in Slots
  BY <1>0, <1>1, <1>2, Types, SlotFacts DEF IInv, ByRank, StreamOrder
<1>4. slab \in Slab /\ \A c \in Chunk : slab[c] = f
  <2>1. slab \in Slab
    BY <1>0, <1>3, SlotFacts DEF TypeOK
  <2>2. ASSUME NEW c \in Chunk PROVE slab[c] = f
    <3>1. Filled(q, q, c) \in Int /\ Filled(q, q, c) >= Staged(q)
      BY <1>0, Counts
    <3>2. f \in f .. Filled(q, q, c) - 1
      BY <1>3, <3>1
    <3>3. ByChunk(q, q, c)
      BY DEF IInv
    <3> QED BY <1>2, <3>2, <3>3 DEF ByChunk, Kept
  <2> QED BY <2>1, <2>2
<1> HIDE DEF slab
<1>5. recv \in [Ranks -> [Ranks -> Slab]]
  BY <1>0 DEF TypeOK
<1>6. /\ recv'[q][q] = slab
      /\ \A d, r \in Ranks : d # q \/ r # q => recv'[d][r] = recv[d][r]
      /\ recv' \in [Ranks -> [Ranks -> Slab]]
  BY <1>1, <1>4, <1>5, Update2
<1>7. /\ pc'[q] = "notify" /\ told'[q] = {}
      /\ \A r \in Ranks \ {q} : pc'[r] = pc[r] /\ told'[r] = told[r]
  BY <1>0, <1>1 DEF TypeOK
<1>8. TypeOK'
  <2>1. pc' \in [Ranks -> {"idle", "copy", "notify"}]
    BY <1>0, <1>1 DEF TypeOK
  <2>2. (told \in [Ranks -> SUBSET (IF SplitLsa \/ Reducing THEN AllChunks ELSE Ranks)])'
    <3>1. told \in [Ranks -> SUBSET Ranks]
      BY <1>0, <1>2 DEF TypeOK
    <3>2. told' \in [Ranks -> SUBSET Ranks]
      BY <1>1, <3>1
    <3> QED BY <1>1, <1>2, <3>2, ModeStable
  <2>3. UNCHANGED <<mode, started, running, stored, staging, queue, ready, freed, cleared>>
    BY <1>1
  <2> QED BY <1>0, <1>6, <2>1, <2>2, <2>3 DEF TypeOK
<1>9. ASSUME NEW r \in Ranks, NEW d \in Ranks, NEW c \in Chunk
      PROVE  /\ Filled(r, d, c)' = Filled(r, d, c) /\ Posted(r, d, c)' = Posted(r, d, c)
             /\ r # q => Copied(r, d, c)' = Copied(r, d, c)
  <2>1. Filled(r, d, c)' = Filled(r, d, c) /\ (r # q => Copied(r, d, c)' = Copied(r, d, c))
    BY <1>1, <1>7 DEF Filled, Copied
  <2> QED BY <1>1, <1>2, <1>7, <2>1, ModeStable DEF Posted
<1>10. ASSUME NEW r \in Ranks PROVE ByRank(r)'
  <2>1. CASE r = q
    <3>1. Staged(q)' = Staged(q)
      BY <1>1 DEF Staged
    <3>2. {} # Peers(q)
      BY Sizes DEF Peers
    <3>3. StreamOrder(q)'
      BY <1>1, <1>2, <1>3, <1>7, <3>1, <3>2, ModeStable DEF StreamOrder, Peers, f
    <3> QED BY <1>1, <2>1, <3>3, ModeStable DEF IInv, ByRank, Rounds
  <2>2. CASE r # q
    <3>1. StreamOrder(r)'
      BY <1>1, <1>7, <2>2, Untouched DEF IInv, ByRank
    <3> QED BY <1>1, <3>1, ModeStable DEF IInv, ByRank, Rounds
  <2> QED BY <2>1, <2>2
<1>11. ASSUME NEW r \in Ranks, NEW d \in Ranks PROVE ByPeer(r, d)'
  <2>0. ByPeer(r, d)
    BY DEF IInv
  <2>1. CASE r # q
    BY <1>0, <1>1, <1>6, <1>7, <1>9, <2>0, <2>1, PeerStable
  <2>2. CASE r = q
    <3>1. Signals(q, d)'
      <4>1. Signalled(q, d)' = Signalled(q, d)
        BY <1>1, <1>2, <1>7 DEF Signalled
      <4> QED BY <1>1, <2>0, <2>2, <4>1, ModeStable DEF ByPeer, Signals
    <3>2. QueueOrder(q, d)'
      <4>1. CASE d = q
        <5>1. queue'[q][d] = <<>>
          BY <1>1, <2>0, <2>2, <4>1 DEF ByPeer, QueueOrder
        <5> QED BY <5>1 DEF QueueOrder
      <4>2. CASE d # q
        <5>1. recv'[d][q] = recv[d][q]
          BY <1>6, <4>2
        <5>2. \A i \in DOMAIN queue[q][d] : queue[q][d][i].chunk \in Chunk
          BY <1>0, PutTypes
        <5> QED BY <1>1, <1>7, <1>9, <2>0, <2>2, <4>2, <5>1, <5>2, ModeStable DEF ByPeer, QueueOrder
      <4> QED BY <4>1, <4>2
    <3> QED BY <2>2, <3>1, <3>2 DEF ByPeer
  <2> QED BY <2>1, <2>2
<1>12. ASSUME NEW r \in Ranks, NEW d \in Ranks, NEW c \in Chunk PROVE ByChunk(r, d, c)'
  <2>0. ByChunk(r, d, c) /\ freed[r] \in Int /\ Filled(r, d, c) \in Int
    BY <1>0, Counts DEF IInv
  <2>1. CASE r # q
    BY <1>1, <1>6, <1>7, <1>9, <2>0, <2>1, ChunkStable
  <2>2. CASE r = q
    <3>1. Kept(q, d, c)'
      BY <1>1, <1>9, <2>0, <2>2, ModeStable DEF ByChunk, Kept
    <3>2. Window(q, d, c)'
      BY <1>1, <1>2, <1>4, <1>6, <1>7, ModeStable DEF Window, f
    <3>3. Unlanded(q, d, c)'
      BY <1>1, <1>6, <1>9, <2>0, <2>2, ModeStable DEF ByChunk, Unlanded, Put
    <3> QED BY <2>2, <3>1, <3>2, <3>3 DEF ByChunk
  <2> QED BY <2>1, <2>2
<1> QED BY <1>8, <1>10, <1>11, <1>12 DEF IInv

(* A peer is signalled: every PUT of the epoch to it has landed; with the last
   peer the epoch is transferred, and its slot free. *)
LEMMA InvQuietNotify ==
  ASSUME IInv, NEW q \in Ranks, NEW p \in Ranks, QuietNotify(q, p) PROVE IInv'
<1> DEFINE f == freed[q]
           AllDone == told[q] \cup {p} = Peers(q)
<1>0. TypeOK /\ mode \in Modes
  BY DEF IInv, TypeOK
<1>33. /\ told \in [Ranks -> SUBSET (IF SplitLsa \/ Reducing THEN AllChunks ELSE Ranks)]
       /\ ready \in [Ranks -> [Ranks -> 0 .. Epochs]] /\ freed \in [Ranks -> 0 .. Epochs]
       /\ pc \in [Ranks -> {"idle", "copy", "notify"}]
  BY <1>0 DEF TypeOK
<1>1. /\ mode' = mode /\ pc[q] = "notify" /\ p \in Peers(q) /\ p \notin told[q] /\ Drained(q, p)
      /\ ready' = [ready EXCEPT ![p][q] = ready[p][q] + 1]
      /\ told' = [told EXCEPT ![q] = told[q] \cup {p}]
      /\ UNCHANGED <<started, running, stored, staging, queue, recv, cleared>>
  BY DEF QuietNotify, gemm
<1>2. told'[q] = told[q] \cup {p} /\ \A r \in Ranks \ {q} : told'[r] = told[r]
  BY <1>1, <1>33
<1>3. /\ AllDone => pc' = [pc EXCEPT ![q] = "idle"] /\ freed' = [freed EXCEPT ![q] = f + 1]
      /\ ~AllDone => pc' = pc /\ freed' = freed
  BY <1>2 DEF QuietNotify
<1>4. /\ AllDone => pc'[q] = "idle" /\ freed'[q] = f + 1
      /\ ~AllDone => pc'[q] = "notify" /\ freed'[q] = f
      /\ \A r \in Ranks \ {q} : pc'[r] = pc[r] /\ freed'[r] = freed[r]
  BY <1>1, <1>3, <1>33
<1>5. /\ UsesSdma /\ ~Direct /\ ~SplitLsa /\ ~Reducing /\ StreamOrder(q) /\ (Bulk <=> ~Fused)
      /\ f \in Nat /\ f < Staged(q) /\ Staged(q) \in Int /\ f < Epochs
  <2>1. StreamOrder(q)
    BY DEF IInv, ByRank
  <2>2. UsesSdma /\ f < Staged(q)
    BY <1>1, <2>1 DEF StreamOrder
  <2>3. f \in Nat /\ Staged(q) \in Int /\ Staged(q) <= started[q] /\ started[q] <= Epochs /\ started[q] \in Nat
    BY <1>0, Types
  <2> QED BY <1>0, <2>1, <2>2, <2>3, Sizes, Exclusive
<1>6. /\ ready'[p][q] = f + 1
      /\ \A d, r \in Ranks : d # p \/ r # q => ready'[d][r] = ready[d][r]
      /\ ready' \in [Ranks -> [Ranks -> 0 .. Epochs]]
  <2>1. ready[p][q] = f
    BY <1>1, <1>5 DEF IInv, ByPeer, Signals, Signalled, Peers
  <2>2. f + 1 \in 0 .. Epochs
    BY <1>5, Sizes
  <2>3. ready' = [ready EXCEPT ![p][q] = f + 1]
    BY <1>1, <2>1
  <2> HIDE DEF f
  <2> QED BY <1>33, <2>2, <2>3, Update2
<1> HIDE DEF f, AllDone
<1>7. TypeOK'
  <2>1. (told \in [Ranks -> SUBSET (IF SplitLsa \/ Reducing THEN AllChunks ELSE Ranks)])'
    <3>1. told \in [Ranks -> SUBSET Ranks]
      BY <1>5, <1>33
    <3>2. told' \in [Ranks -> SUBSET Ranks]
      BY <1>1, <3>1
    <3> QED BY <1>1, <1>5, <3>2, ModeStable
  <2>2. freed' \in [Ranks -> 0 .. Epochs] /\ pc' \in [Ranks -> {"idle", "copy", "notify"}]
    <3>1. f + 1 \in 0 .. Epochs
      BY <1>5, Sizes
    <3> QED BY <1>3, <1>33, <3>1
  <2>3. UNCHANGED <<mode, started, running, stored, staging, queue, recv, cleared>>
    BY <1>1
  <2> QED BY <1>0, <1>6, <2>1, <2>2, <2>3 DEF TypeOK
<1>8. ASSUME NEW r \in Ranks, NEW d \in Ranks, NEW c \in Chunk
      PROVE  /\ Filled(r, d, c)' = Filled(r, d, c) /\ Posted(r, d, c)' = Posted(r, d, c)
             /\ r # q => Copied(r, d, c)' = Copied(r, d, c)
  <2>1. Filled(r, d, c)' = Filled(r, d, c)
    BY <1>1 DEF Filled
  <2>2. r # q => Copied(r, d, c)' = Copied(r, d, c)
    BY <1>2, <1>4 DEF Copied
  <2>3. CASE r # q
    <3>1. pc'[r] = pc[r] /\ freed'[r] = freed[r] /\ Bulk' = Bulk
      BY <1>1, <1>4, <2>3, ModeStable
    <3>2. Posted(r, d, c)' = Posted(r, d, c)
      BY <2>1, <3>1 DEF Posted
    <3> QED BY <2>1, <2>2, <3>2
  <2>4. CASE r = q
    <3>1. Bulk => Posted(q, d, c) = f + 1 /\ Posted(q, d, c)' = f + 1
      BY <1>1, <1>4, ModeStable DEF Posted, f
    <3> QED BY <1>1, <2>1, <2>2, <2>4, <3>1, ModeStable DEF Posted
  <2> QED BY <2>1, <2>2, <2>3, <2>4
<1>9. ASSUME NEW r \in Ranks PROVE ByRank(r)'
  <2>0. Rounds(r)'
    BY <1>1, <1>5, ModeStable DEF IInv, ByRank, Rounds
  <2>1. CASE r = q
    <3>1. Staged(q)' = Staged(q) /\ started[q] \in Nat
      BY <1>0, <1>1, Types DEF Staged
    <3>2. freed'[q] <= Staged(q) /\ f <= freed'[q] /\ freed'[q] \in Nat
      BY <1>4, <1>5
    <3>3. started[q] <= (IF Overlapped THEN freed'[q] + 2 ELSE freed'[q] + 1)
      BY <1>5, <3>1, <3>2 DEF StreamOrder, f
    <3>4. told'[q] \subseteq Peers(q) /\ (pc'[q] = "notify" => told'[q] # Peers(q) /\ freed'[q] < Staged(q))
      BY <1>1, <1>2, <1>4, <1>5 DEF StreamOrder, AllDone
    <3>5. pc'[q] # "idle" => freed'[q] < Staged(q)
      BY <1>4, <1>5
    <3>6. pc'[q] # "copy"
      BY <1>4
    <3>7. StreamOrder(q)'
      BY <1>1, <1>5, <3>1, <3>2, <3>3, <3>4, <3>5, <3>6, ModeStable DEF StreamOrder, Peers
    <3> QED BY <2>0, <2>1, <3>7 DEF ByRank
  <2>2. CASE r # q
    <3>1. StreamOrder(r)'
      BY <1>1, <1>2, <1>4, <2>2, Untouched DEF IInv, ByRank
    <3> QED BY <2>0, <3>1 DEF ByRank
  <2> QED BY <2>1, <2>2
<1>10. ASSUME NEW r \in Ranks, NEW d \in Ranks PROVE ByPeer(r, d)'
  <2>0. ByPeer(r, d) /\ \A i \in DOMAIN queue[r][d] : queue[r][d][i].chunk \in Chunk /\ queue[r][d][i].epoch \in Nat
    BY <1>0, PutTypes DEF IInv
  <2>1. CASE r # q
    BY <1>0, <1>1, <1>2, <1>4, <1>6, <1>8, <2>0, <2>1, PeerStable
  <2>2. CASE r = q
    <3>1. Signalled(q, d)' = (IF d \in told[q] \cup {p} \/ AllDone THEN f + 1 ELSE f)
      BY <1>2, <1>4 DEF Signalled
    <3>2. Signals(q, d)'
      <4>1. CASE d = p
        BY <1>1, <1>5, <1>6, <2>2, <3>1, <4>1, ModeStable DEF Signals, Peers
      <4>2. CASE d # p /\ d # q
        <5>1. AllDone => d \in told[q]
          BY <4>2 DEF AllDone, Peers
        <5>2. ready[d][q] = IF d \in told[q] THEN f + 1 ELSE f
          BY <1>1, <1>5, <2>0, <2>2, <4>2 DEF ByPeer, Signals, Signalled, f
        <5> QED BY <1>1, <1>5, <1>6, <2>2, <3>1, <4>2, <5>1, <5>2, ModeStable DEF Signals
      <4>3. CASE d = q
        BY <1>1, <1>6, <2>0, <2>2, <4>3, ModeStable DEF ByPeer, Signals, Peers
      <4> QED BY <4>1, <4>2, <4>3
    <3>3. QueueOrder(q, d)'
      <4>1. CASE d = q
        <5>1. queue'[q][d] = <<>>
          BY <1>1, <2>0, <2>2, <4>1 DEF ByPeer, QueueOrder
        <5> QED BY <5>1 DEF QueueOrder
      <4>2. CASE d # q
        <5>1. ASSUME NEW i \in DOMAIN queue[q][d]
              PROVE  /\ freed'[q] <= queue[q][d][i].epoch
                     /\ pc'[q] = "notify" /\ d \in told'[q] => queue[q][d][i].epoch # freed'[q]
          <6>1. f <= queue[q][d][i].epoch /\ (d \in told[q] => queue[q][d][i].epoch # f) /\ queue[q][d][i].epoch \in Nat
            BY <1>1, <2>0, <2>2, <5>1 DEF ByPeer, QueueOrder, f
          <6>2. d = p => queue[q][d][i].epoch > f
            BY <1>1, <5>1 DEF Drained, f
          <6>3. AllDone => d \in told[q] \cup {p}
            BY <4>2 DEF AllDone, Peers
          <6> QED BY <1>2, <1>4, <1>5, <6>1, <6>2, <6>3
        <5>2. \A i \in DOMAIN queue[q][d] :
                (queue[q][d][i].epoch < Posted(q, d, queue[q][d][i].chunk))'
          BY <1>1, <1>8, <2>0, <2>2 DEF ByPeer, QueueOrder
        <5>3. \A i \in DOMAIN queue[q][d] :
                 /\ recv[d][q][queue[q][d][i].chunk] < queue[q][d][i].epoch
                 /\ \A j \in DOMAIN queue[q][d] :
                      i < j /\ queue[q][d][j].chunk = queue[q][d][i].chunk
                        => queue[q][d][i].epoch < queue[q][d][j].epoch
          BY <2>0, <2>2 DEF ByPeer, QueueOrder
        <5> QED BY <1>1, <1>5, <4>2, <5>1, <5>2, <5>3, ModeStable DEF QueueOrder
      <4> QED BY <4>1, <4>2
    <3> QED BY <2>2, <3>2, <3>3 DEF ByPeer
  <2> QED BY <2>1, <2>2
<1>11. ASSUME NEW r \in Ranks, NEW d \in Ranks, NEW c \in Chunk PROVE ByChunk(r, d, c)'
  <2>0. ByChunk(r, d, c) /\ freed[r] \in Int /\ Filled(r, d, c) \in Int
    BY <1>0, Counts DEF IInv
  <2>1. CASE r # q
    BY <1>1, <1>4, <1>8, <2>0, <2>1, ChunkStable
  <2>2. CASE r = q
    <3>1. Kept(q, d, c)'
      <4> SUFFICES ASSUME ~Direct, NEW e \in freed'[q] .. Filled(q, d, c) - 1
                   PROVE  staging[q][Slot(e)][d][c] = e
        BY <1>1, <1>8, ModeStable DEF Kept
      <4>1. e \in f .. Filled(q, d, c) - 1
        BY <1>4, <1>5, <2>0, <2>2
      <4> QED BY <2>0, <2>2, <4>1 DEF ByChunk, Kept, f
    <3>2. Window(q, d, c)'
      <4>1. d = q => recv[d][q][c] = f
        BY <1>1, <1>5, <2>0, <2>2 DEF ByChunk, Window, f
      <4>2. d = q => recv'[d][q][c] = IF pc'[q] = "notify" THEN freed'[q] ELSE freed'[q] - 1
        BY <1>1, <1>4, <1>5, <4>1
      <4> QED BY <1>1, <1>5, <4>2, ModeStable DEF Window
    <3>3. Unlanded(q, d, c)'
      BY <1>1, <1>8, <2>0, <2>2, ModeStable DEF ByChunk, Unlanded, Put
    <3> QED BY <2>2, <3>1, <3>2, <3>3 DEF ByChunk
  <2> QED BY <2>1, <2>2
<1> QED BY <1>7, <1>9, <1>10, <1>11 DEF IInv

(* A chunk is copied, or its partial sums added up: the staging slot, or the
   workspace, still holds the epoch it is from. *)
LEMMA InvMoveChunk ==
  ASSUME IInv, NEW q \in Ranks, NEW d0 \in Ranks, NEW c0 \in Chunk,
         SplitLsa \/ Reducing, MoveChunk(q, d0, c0)
  PROVE  IInv'
<1> DEFINE f == freed[q]
           AllDone == told[q] \cup {<<d0, c0>>} = AllChunks
           Touched(r, d, c) == r = q /\ d = d0 /\ c = c0
<1>0. TypeOK /\ mode \in Modes
  BY DEF IInv, TypeOK
<1>33. /\ told \in [Ranks -> SUBSET AllChunks] /\ freed \in [Ranks -> 0 .. Epochs]
       /\ recv \in [Ranks -> [Ranks -> Slab]] /\ staging \in [Ranks -> [Slots -> [Ranks -> Slab]]]
  BY <1>0 DEF TypeOK
<1>1. /\ mode' = mode /\ f < Staged(q) /\ <<d0, c0>> \notin told[q]
      /\ recv' = [recv EXCEPT ![d0][q][c0] = staging[q][Slot(f)][d0][c0]]
      /\ UNCHANGED <<started, running, stored, staging, queue, ready, pc, cleared>>
  BY DEF MoveChunk, gemm
<1>3. /\ AllDone => told' = [told EXCEPT ![q] = {}] /\ freed' = [freed EXCEPT ![q] = f + 1]
      /\ ~AllDone => told' = [told EXCEPT ![q] = told[q] \cup {<<d0, c0>>}] /\ freed' = freed
  BY DEF MoveChunk
<1>4. /\ AllDone => told'[q] = {} /\ freed'[q] = f + 1
      /\ ~AllDone => told'[q] = told[q] \cup {<<d0, c0>>} /\ freed'[q] = f
      /\ \A r \in Ranks \ {q} : told'[r] = told[r] /\ freed'[r] = freed[r]
  BY <1>3, <1>33
<1>5. /\ ~UsesSdma /\ ~Direct /\ ~Bulk /\ ~Fused /\ StreamOrder(q)
      /\ f \in Nat /\ Staged(q) \in Int /\ f < Epochs /\ Staged(q) <= started[q] /\ started[q] \in Nat
  <2>1. StreamOrder(q)
    BY DEF IInv, ByRank
  <2>2. f \in Nat /\ Staged(q) \in Int /\ Staged(q) <= started[q] /\ started[q] <= Epochs /\ started[q] \in Nat
    BY <1>0, Types
  <2> QED BY <1>0, <1>1, <2>1, <2>2, Sizes, Exclusive
<1>6. staging[q][Slot(f)][d0][c0] = f
  <2>1. Filled(q, d0, c0) \in Int /\ Filled(q, d0, c0) >= Staged(q)
    BY <1>0, Counts
  <2>2. f \in f .. Filled(q, d0, c0) - 1
    BY <1>1, <1>5, <2>1
  <2> QED BY <1>5, <2>2 DEF IInv, ByChunk, Kept
<1> HIDE DEF f, AllDone
<1>7. /\ recv'[d0][q][c0] = f
      /\ \A d, r \in Ranks, c \in Chunk : ~Touched(r, d, c) => recv'[d][r][c] = recv[d][r][c]
      /\ recv' \in [Ranks -> [Ranks -> Slab]]
  <2>1. recv' = [recv EXCEPT ![d0][q][c0] = f]
    BY <1>1, <1>6
  <2>2. f \in Epoch \cup {Empty}
    BY <1>5, Sizes DEF Epoch
  <2> QED BY <1>33, <2>1, <2>2, Update3 DEF Slab
<1>8. TypeOK'
  <2>1. (told \in [Ranks -> SUBSET (IF SplitLsa \/ Reducing THEN AllChunks ELSE Ranks)])'
    <3>1. told' \in [Ranks -> SUBSET AllChunks]
      <4>1. <<d0, c0>> \in AllChunks
        BY DEF AllChunks
      <4>2. told[q] \cup {<<d0, c0>>} \in SUBSET AllChunks
        BY <1>33, <4>1
      <4> QED BY <1>3, <1>33, <4>2
    <3> QED BY <1>1, <3>1, ModeStable DEF AllChunks
  <2>2. freed' \in [Ranks -> 0 .. Epochs]
    <3>1. f + 1 \in 0 .. Epochs
      BY <1>5, Sizes
    <3> QED BY <1>3, <1>33, <3>1
  <2>3. UNCHANGED <<mode, started, running, stored, staging, queue, ready, pc, cleared>>
    BY <1>1
  <2> QED BY <1>0, <1>7, <2>1, <2>2, <2>3 DEF TypeOK
<1>9. ASSUME NEW r \in Ranks, NEW d \in Ranks, NEW c \in Chunk
      PROVE  /\ Filled(r, d, c)' = Filled(r, d, c)
             /\ Copied(r, d, c)' = IF Touched(r, d, c) THEN f + 1 ELSE Copied(r, d, c)
  <2>1. Filled(r, d, c)' = Filled(r, d, c)
    BY <1>1 DEF Filled
  <2>2. CASE r # q
    BY <1>4, <2>1, <2>2 DEF Copied
  <2>3. CASE r = q
    <3>1. <<d, c>> \in AllChunks
      BY DEF AllChunks
    <3>2. CASE Touched(r, d, c)
      BY <1>4, <2>1, <2>3, <3>2 DEF Copied
    <3>3. CASE ~Touched(r, d, c)
      <4>1. <<d, c>> # <<d0, c0>>
        BY <2>3, <3>3
      <4>2. AllDone => <<d, c>> \in told[q]
        BY <3>1, <4>1 DEF AllDone
      <4>3. Copied(r, d, c)' = IF AllDone THEN f + 1 ELSE IF <<d, c>> \in told[q] THEN f + 1 ELSE f
        BY <1>4, <2>3, <4>1 DEF Copied
      <4>4. Copied(r, d, c) = IF <<d, c>> \in told[q] THEN f + 1 ELSE f
        BY <2>3 DEF Copied, f
      <4> QED BY <2>1, <3>3, <4>2, <4>3, <4>4
    <3> QED BY <3>2, <3>3
  <2> QED BY <2>2, <2>3
<1>10. ASSUME NEW r \in Ranks PROVE ByRank(r)'
  <2>0. ByRank(r)
    BY DEF IInv
  <2>1. CASE r = q
    <3>1. Staged(q)' = Staged(q)
      BY <1>1 DEF Staged
    <3>2. freed'[q] <= Staged(q) /\ f <= freed'[q] /\ freed'[q] \in Nat
      BY <1>1, <1>4, <1>5
    <3>3. Rounds(q)'
      <4>1. \A s \in Ranks : cleared[s] \in Nat
        BY <1>0, Types
      <4> QED BY <1>1, <1>5, <2>0, <2>1, <3>2, <4>1, ModeStable DEF ByRank, Rounds, f
    <3>4. told'[q] # AllChunks /\ (told'[q] # {} => freed'[q] < Staged(q))
      <4>1. <<d0, c0>> \in AllChunks
        BY DEF AllChunks
      <4> QED BY <1>1, <1>4, <4>1 DEF AllDone
    <3>5. pc[q] = "idle"
      BY <1>5 DEF StreamOrder
    <3>7. started[q] <= (IF Overlapped THEN freed'[q] + 2 ELSE freed'[q] + 1)
      BY <1>5, <3>2 DEF StreamOrder, f
    <3>8. StreamOrder(q)'
      BY <1>1, <1>5, <3>1, <3>2, <3>4, <3>5, <3>7, <1>33, ModeStable DEF StreamOrder, AllChunks
    <3> QED BY <2>1, <3>3, <3>8 DEF ByRank
  <2>2. CASE r # q
    <3>1. StreamOrder(r)'
      BY <1>1, <1>4, <2>0, <2>2, Untouched DEF ByRank
    <3> QED BY <1>1, <1>4, <2>0, <2>2, <3>1, ModeStable DEF ByRank, Rounds
  <2> QED BY <2>1, <2>2
<1>11. ASSUME NEW r \in Ranks, NEW d \in Ranks PROVE ByPeer(r, d)'
  <2>1. ByPeer(r, d)
    BY DEF IInv
  <2>2. queue'[r][d] = <<>> /\ ready'[d][r] = 0
    BY <1>1, <1>5, <2>1 DEF ByPeer, QueueOrder, Signals
  <2> QED BY <1>1, <1>5, <2>2, ModeStable DEF ByPeer, QueueOrder, Signals
<1>12. ASSUME NEW r \in Ranks, NEW d \in Ranks, NEW c \in Chunk PROVE ByChunk(r, d, c)'
  <2>0. ByChunk(r, d, c) /\ freed[r] \in Int /\ Filled(r, d, c) \in Int
    BY <1>0, Counts DEF IInv
  <2>1. Kept(r, d, c)'
    <3> SUFFICES ASSUME ~Direct, NEW e \in freed'[r] .. Filled(r, d, c) - 1
                 PROVE  staging[r][Slot(e)][d][c] = e
      BY <1>1, <1>9, ModeStable DEF Kept
    <3>1. freed'[r] = freed[r] \/ freed'[r] = freed[r] + 1
      BY <1>4 DEF f
    <3>2. e \in freed[r] .. Filled(r, d, c) - 1
      BY <2>0, <3>1
    <3> QED BY <2>0, <3>2 DEF ByChunk, Kept
  <2>2. Window(r, d, c)'
    <3>1. CASE Touched(r, d, c)
      <4>1. Copied(r, d, c)' = f + 1 /\ recv'[d][r][c] = f
        BY <1>7, <1>9, <3>1
      <4>2. Reducing => cleared[d] = f + 1
        <5>1. Reducing => started[q] <= cleared[d] /\ cleared[d] <= f + 1 /\ cleared[d] \in Nat
          BY <1>0, Types DEF IInv, ByRank, Rounds, f
        <5> QED BY <1>1, <1>5, <5>1
      <4> QED BY <1>1, <1>5, <4>1, <4>2, ModeStable DEF Window
    <3>2. CASE ~Touched(r, d, c)
      <4>1. Copied(r, d, c)' = Copied(r, d, c) /\ recv'[d][r][c] = recv[d][r][c]
        BY <1>7, <1>9, <3>2
      <4> QED BY <1>1, <1>5, <2>0, <4>1, ModeStable DEF ByChunk, Window
    <3> QED BY <3>1, <3>2
  <2>3. Unlanded(r, d, c)'
    BY <1>1, <1>5, ModeStable DEF Unlanded
  <2> QED BY <2>1, <2>2, <2>3 DEF ByChunk
<1> QED BY <1>8, <1>10, <1>11, <1>12 DEF IInv

(* The oldest PUT lands: it reads its own epoch, the next one for its chunk. *)
LEMMA LandFacts ==
  ASSUME IInv, NEW q \in Ranks, NEW d0 \in Ranks, queue[q][d0] # <<>>
  PROVE  LET m == Head(queue[q][d0])
         IN  /\ UsesSdma /\ d0 # q /\ m \in Puts /\ m.chunk \in Chunk /\ m.epoch \in Nat
             /\ Source(q, d0, m) = m.epoch
             /\ m.epoch = recv[d0][q][m.chunk] + 1
             /\ 1 \in DOMAIN queue[q][d0] /\ m = queue[q][d0][1]
<1> DEFINE s == queue[q][d0]
           m == Head(s)
<1>0. TypeOK /\ mode \in Modes
  BY DEF IInv, TypeOK
<1>1. /\ s \in Seq(Puts) /\ DOMAIN s = 1 .. Len(s)
      /\ \A i \in DOMAIN s : s[i] \in Puts /\ s[i].epoch \in Nat /\ s[i].chunk \in Chunk
  BY <1>0, PutTypes
<1>2. 1 \in DOMAIN s /\ m = s[1]
  BY <1>1, HeadTailProperties, LenProperties, EmptySeq
<1>3. ByPeer(q, d0) /\ ByChunk(q, d0, m.chunk) /\ m.chunk \in Chunk /\ m \in Puts /\ m.epoch \in Nat
  BY <1>1, <1>2 DEF IInv
<1>4. UsesSdma /\ d0 # q /\ ~Direct
  BY <1>0, <1>3, Exclusive DEF ByPeer, QueueOrder
<1> HIDE DEF m
<1>5. /\ freed[q] <= m.epoch /\ m.epoch < Posted(q, d0, m.chunk) /\ recv[d0][q][m.chunk] < m.epoch
      /\ \A j \in DOMAIN s : 1 < j /\ s[j].chunk = m.chunk => m.epoch < s[j].epoch
  BY <1>2, <1>3 DEF ByPeer, QueueOrder
<1>6. freed[q] \in Nat /\ Filled(q, d0, m.chunk) \in Int /\ Posted(q, d0, m.chunk) \in Int
      /\ Filled(q, d0, m.chunk) >= Staged(q) /\ Staged(q) \in Int
  BY <1>0, <1>3, Counts
<1>7. Posted(q, d0, m.chunk) <= Filled(q, d0, m.chunk)
  <2>1. StreamOrder(q)
    BY DEF IInv, ByRank
  <2>2. pc[q] # "idle" => freed[q] < Staged(q)
    BY <2>1 DEF StreamOrder
  <2>3. freed[q] <= Staged(q)
    BY <2>1 DEF StreamOrder
  <2> QED BY <1>6, <2>2, <2>3 DEF Posted
<1>8. Source(q, d0, m) = m.epoch
  <2>1. m.epoch \in freed[q] .. Filled(q, d0, m.chunk) - 1
    BY <1>3, <1>5, <1>6, <1>7
  <2> QED BY <1>3, <1>4, <2>1 DEF ByChunk, Kept, Source
<1>9. m.epoch = recv[d0][q][m.chunk] + 1
  <2>1. recv[d0][q][m.chunk] \in Int
    <3>1. recv[d0][q] \in Slab
      BY <1>0 DEF TypeOK
    <3> QED BY <1>3, <3>1, Sizes DEF Slab, Epoch, Empty
  <2>2. SUFFICES ASSUME recv[d0][q][m.chunk] + 1 < m.epoch PROVE FALSE
    BY <1>3, <1>5, <2>1
  <2> DEFINE e == recv[d0][q][m.chunk] + 1
  <2>3. e \in recv[d0][q][m.chunk] + 1 .. Posted(q, d0, m.chunk) - 1
    BY <1>3, <1>5, <1>6, <2>1, <2>2
  <2>4. PICK i \in DOMAIN s : s[i] = Put(e, m.chunk)
    BY <1>3, <1>4, <2>3 DEF ByChunk, Unlanded
  <2>5. s[i].epoch = e /\ s[i].chunk = m.chunk
    BY <2>4 DEF Put
  <2>6. CASE i = 1
    BY <1>2, <2>2, <2>5, <2>6, <2>1, <1>3
  <2>7. CASE i # 1
    <3>1. 1 < i
      BY <1>1, <2>7, LenProperties
    <3> QED BY <1>3, <1>5, <2>1, <2>2, <2>5, <3>1
  <2> QED BY <2>6, <2>7
<1> QED BY <1>2, <1>3, <1>4, <1>8, <1>9 DEF m

(* After it has landed the window holds its epoch, and it is queued no more. *)
LEMMA InvLand ==
  ASSUME IInv, NEW q \in Ranks, NEW d0 \in Ranks, Land(q, d0) PROVE IInv'
<1> DEFINE s == queue[q][d0]
           t == Tail(s)
           m == Head(s)
           e0 == m.epoch
           c0 == m.chunk
<1>0. TypeOK /\ mode \in Modes /\ s # <<>>
  BY DEF IInv, TypeOK, Land
<1>33. /\ recv \in [Ranks -> [Ranks -> Slab]] /\ queue \in [Ranks -> [Ranks -> Seq(Puts)]]
  BY <1>0 DEF TypeOK
<1>1. /\ mode' = mode
      /\ UNCHANGED <<started, running, stored, staging, ready, pc, told, freed, cleared>>
      /\ recv' = [recv EXCEPT ![d0][q][c0] = Source(q, d0, m)]
      /\ queue' = [queue EXCEPT ![q][d0] = t]
  BY DEF Land, gemm, transfer
<1>2. /\ UsesSdma /\ d0 # q /\ ~Direct /\ ~SplitLsa /\ ~Reducing
      /\ m \in Puts /\ c0 \in Chunk /\ e0 \in Nat /\ e0 \in Epoch
      /\ Source(q, d0, m) = e0 /\ e0 = recv[d0][q][c0] + 1
      /\ 1 \in DOMAIN s /\ m = s[1]
  <2>1. /\ UsesSdma /\ d0 # q /\ m \in Puts /\ c0 \in Chunk /\ e0 \in Nat
        /\ Source(q, d0, m) = e0 /\ e0 = recv[d0][q][c0] + 1
        /\ 1 \in DOMAIN s /\ m = s[1]
    BY <1>0, LandFacts
  <2>2. \A x \in Puts : x.epoch \in Epoch
    BY DEF Puts
  <2> QED BY <1>0, <2>1, <2>2, Exclusive
<1>3. /\ s \in Seq(Puts) /\ DOMAIN s = 1 .. Len(s) /\ Len(s) \in Nat
      /\ t \in Seq(Puts) /\ DOMAIN t = 1 .. Len(s) - 1
      /\ \A i \in DOMAIN t : i + 1 \in DOMAIN s /\ t[i] = s[i + 1]
      /\ \A i \in DOMAIN s : s[i].epoch \in Nat /\ s[i].chunk \in Chunk
      /\ \A i \in DOMAIN s : i # 1 => i - 1 \in DOMAIN t /\ t[i - 1] = s[i]
  <2>1. s \in Seq(Puts) /\ DOMAIN s = 1 .. Len(s) /\ Len(s) \in Nat
        /\ \A i \in DOMAIN s : s[i].epoch \in Nat /\ s[i].chunk \in Chunk
    BY <1>0, PutTypes, LenProperties
  <2>2. t \in Seq(Puts) /\ Len(t) = Len(s) - 1 /\ \A i \in 1 .. Len(t) : t[i] = s[i + 1]
    BY <1>0, <2>1, HeadTailProperties
  <2> HIDE DEF s, t
  <2>3. DOMAIN t = 1 .. Len(s) - 1
    BY <2>2, LenProperties
  <2> QED BY <2>1, <2>2, <2>3
<1> HIDE DEF m, e0, c0
<1>4. /\ recv'[d0][q][c0] = e0
      /\ \A d, r \in Ranks, c \in Chunk :
            d # d0 \/ r # q \/ c # c0 => recv'[d][r][c] = recv[d][r][c]
      /\ recv' \in [Ranks -> [Ranks -> Slab]]
  <2>1. recv' = [recv EXCEPT ![d0][q][c0] = e0]
    BY <1>1, <1>2
  <2> QED BY <1>2, <1>33, <2>1, Update3 DEF Slab
<1>5. /\ queue'[q][d0] = t
      /\ \A r, d \in Ranks : r # q \/ d # d0 => queue'[r][d] = queue[r][d]
      /\ queue' \in [Ranks -> [Ranks -> Seq(Puts)]]
  <2> HIDE DEF t
  <2> QED BY <1>1, <1>3, <1>33, Update2
<1>6. TypeOK'
  <2>1. UNCHANGED <<mode, started, running, stored, staging, ready, pc, told, freed, cleared>>
    BY <1>1
  <2>2. (told \in [Ranks -> SUBSET (IF SplitLsa \/ Reducing THEN AllChunks ELSE Ranks)])'
    <3>1. told \in [Ranks -> SUBSET Ranks]
      BY <1>0, <1>2 DEF TypeOK
    <3> QED BY <1>1, <1>2, <3>1, ModeStable
  <2> QED BY <1>0, <1>4, <1>5, <2>1, <2>2 DEF TypeOK
<1>7. ASSUME NEW r \in Ranks, NEW d \in Ranks, NEW c \in Chunk
      PROVE  /\ Filled(r, d, c)' = Filled(r, d, c) /\ Posted(r, d, c)' = Posted(r, d, c)
             /\ Copied(r, d, c)' = Copied(r, d, c)
  BY <1>1, Untouched
<1>8. ASSUME NEW r \in Ranks PROVE ByRank(r)'
  <2>1. StreamOrder(r)'
    BY <1>1, Untouched DEF IInv, ByRank
  <2> QED BY <1>1, <2>1, ModeStable DEF IInv, ByRank, Rounds
<1>9. ByPeer(q, d0) /\ \A c \in Chunk : ByChunk(q, d0, c)
  BY DEF IInv
<1>10. QueueOrder(q, d0)'
  <2>1. ASSUME NEW i \in DOMAIN t
        PROVE  /\ freed[q] <= t[i].epoch
               /\ \A c \in Chunk : t[i].chunk = c => t[i].epoch < Posted(q, d0, c)'
               /\ recv'[d0][q][t[i].chunk] < t[i].epoch
               /\ pc[q] = "notify" /\ d0 \in told[q] => t[i].epoch # freed[q]
               /\ \A j \in DOMAIN t : i < j /\ t[j].chunk = t[i].chunk => t[i].epoch < t[j].epoch
    <3> DEFINE k == i + 1
    <3>1. k \in DOMAIN s /\ t[i] = s[k] /\ 1 < k /\ i \in Nat /\ s[k].epoch \in Nat /\ s[k].chunk \in Chunk
      BY <1>3, <2>1
    <3>2. /\ freed[q] <= s[k].epoch /\ s[k].epoch < Posted(q, d0, s[k].chunk)
          /\ recv[d0][q][s[k].chunk] < s[k].epoch
          /\ pc[q] = "notify" /\ d0 \in told[q] => s[k].epoch # freed[q]
          /\ \A j \in DOMAIN s : k < j /\ s[j].chunk = s[k].chunk => s[k].epoch < s[j].epoch
      BY <1>9, <3>1 DEF ByPeer, QueueOrder
    <3>3. s[k].chunk = c0 => e0 < s[k].epoch
      <4>1. \A j \in DOMAIN s : 1 < j /\ s[j].chunk = s[1].chunk => s[1].epoch < s[j].epoch
        BY <1>2, <1>9 DEF ByPeer, QueueOrder
      <4> QED BY <1>2, <3>1, <4>1 DEF e0, c0
    <3>4. recv'[d0][q][s[k].chunk] < s[k].epoch
      <4>1. CASE s[k].chunk = c0
        BY <1>4, <3>3, <4>1
      <4>2. CASE s[k].chunk # c0
        BY <1>4, <3>1, <3>2, <4>2
      <4> QED BY <4>1, <4>2
    <3>5. \A c \in Chunk : s[k].chunk = c => s[k].epoch < Posted(q, d0, c)'
      BY <1>7, <3>2
    <3>6. \A j \in DOMAIN t : i < j /\ t[j].chunk = s[k].chunk => s[k].epoch < t[j].epoch
      BY <1>3, <3>1, <3>2
    <3>7. t[i] = s[k]
      BY <3>1
    <3> HIDE DEF t, s, k
    <3>8. freed[q] <= t[i].epoch /\ (pc[q] = "notify" /\ d0 \in told[q] => t[i].epoch # freed[q])
      BY <3>2, <3>7
    <3>9. recv'[d0][q][t[i].chunk] < t[i].epoch
      BY <3>4, <3>7
    <3>10. \A c \in Chunk : t[i].chunk = c => t[i].epoch < Posted(q, d0, c)'
      BY <3>5, <3>7
    <3>11. \A j \in DOMAIN t : i < j /\ t[j].chunk = t[i].chunk => t[i].epoch < t[j].epoch
      BY <3>6, <3>7
    <3> QED BY <3>8, <3>9, <3>10, <3>11
  <2>2. \A i \in DOMAIN t : t[i].chunk \in Chunk
    BY <1>3
  <2> HIDE DEF t
  <2>3. \A i \in DOMAIN queue'[q][d0] : queue'[q][d0][i].epoch < Posted(q, d0, queue[q][d0][i].chunk)'
    BY <1>5, <2>1, <2>2
  <2>4. \A i \in DOMAIN queue'[q][d0] :
          /\ freed[q] <= queue'[q][d0][i].epoch
          /\ recv'[d0][q][queue'[q][d0][i].chunk] < queue'[q][d0][i].epoch
          /\ pc[q] = "notify" /\ d0 \in told[q] => queue'[q][d0][i].epoch # freed[q]
          /\ \A j \in DOMAIN queue'[q][d0] :
               i < j /\ queue'[q][d0][j].chunk = queue'[q][d0][i].chunk
                 => queue'[q][d0][i].epoch < queue'[q][d0][j].epoch
    BY <1>5, <2>1
  <2>5. UsesSdma' /\ freed'[q] = freed[q] /\ pc'[q] = pc[q] /\ told'[q] = told[q]
    BY <1>1, <1>2, ModeStable
  <2> QED BY <1>2, <2>3, <2>4, <2>5 DEF QueueOrder
<1>11. ASSUME NEW c \in Chunk PROVE Unlanded(q, d0, c)'
  <2>1. recv[d0][q][c] < Posted(q, d0, c)
        /\ \A e \in recv[d0][q][c] + 1 .. Posted(q, d0, c) - 1 : \E i \in DOMAIN s : s[i] = Put(e, c)
    BY <1>2, <1>9 DEF ByChunk, Unlanded
  <2>2. recv[d0][q][c] \in Int /\ recv'[d0][q][c] \in Int /\ Posted(q, d0, c) \in Int
    <3>1. recv[d0][q] \in Slab /\ recv'[d0][q] \in Slab
      BY <1>4, <1>33
    <3>2. \A x \in Slab : x[c] \in Int
      BY Sizes DEF Slab, Epoch, Empty
    <3> QED BY <1>0, <3>1, <3>2, Counts
  <2>3. recv'[d0][q][c] < Posted(q, d0, c) /\ recv'[d0][q][c] >= recv[d0][q][c]
    <3>1. e0 < Posted(q, d0, c0)
      BY <1>2, <1>9 DEF ByPeer, QueueOrder, e0, c0
    <3>2. CASE c = c0
      BY <1>2, <1>4, <2>2, <3>1, <3>2
    <3>3. CASE c # c0
      BY <1>4, <2>1, <2>2, <3>3
    <3> QED BY <3>2, <3>3
  <2>4. ASSUME NEW e \in recv'[d0][q][c] + 1 .. Posted(q, d0, c) - 1
        PROVE  \E i \in DOMAIN t : t[i] = Put(e, c)
    <3>1. e \in recv[d0][q][c] + 1 .. Posted(q, d0, c) - 1
      BY <2>2, <2>3, <2>4
    <3>2. PICK i \in DOMAIN s : s[i] = Put(e, c)
      BY <2>1, <3>1
    <3>3. i # 1
      <4>1. CASE c = c0
        BY <1>2, <1>4, <2>2, <2>4, <3>2, <4>1 DEF Put, e0
      <4>2. CASE c # c0
        BY <1>2, <3>2, <4>2 DEF Put, c0
      <4> QED BY <4>1, <4>2
    <3> QED BY <1>3, <3>2, <3>3
  <2> HIDE DEF t
  <2>5. Posted(q, d0, c)' = Posted(q, d0, c)
    BY <1>7
  <2> QED BY <1>2, <1>5, <2>3, <2>4, <2>5 DEF Unlanded, Put
<1>12. ASSUME NEW r \in Ranks, NEW d \in Ranks PROVE ByPeer(r, d)'
  <2>0. ByPeer(r, d)
    BY DEF IInv
  <2>1. CASE r # q \/ d # d0
    <3>1. queue'[r][d] = queue[r][d] /\ \A c \in Chunk : recv'[d][r][c] = recv[d][r][c]
      BY <1>4, <1>5, <2>1
    <3>2. TypeOK
      BY <1>0
    <3> QED BY <1>1, <1>7, <2>0, <3>1, <3>2, PeerStable
  <2>2. CASE r = q /\ d = d0
    <3>1. Signals(r, d)'
      BY <1>1, <2>0, ModeStable DEF ByPeer, Signals, Signalled
    <3> QED BY <1>10, <2>2, <3>1 DEF ByPeer
  <2> QED BY <2>1, <2>2
<1>13. ASSUME NEW r \in Ranks, NEW d \in Ranks, NEW c \in Chunk PROVE ByChunk(r, d, c)'
  <2>0. ByChunk(r, d, c) /\ freed[r] \in Int /\ Filled(r, d, c) \in Int
    <3>1. TypeOK /\ ByChunk(r, d, c)
      BY DEF IInv
    <3> QED BY <3>1, Counts
  <2>1. CASE r # q \/ d # d0
    BY <1>1, <1>4, <1>5, <1>7, <2>0, <2>1, ChunkStable
  <2>2. CASE r = q /\ d = d0
    <3>1. Kept(r, d, c)'
      BY <1>1, <1>7, <2>0, ModeStable DEF ByChunk, Kept
    <3>2. Window(r, d, c)'
      BY <1>1, <1>2, <2>2, ModeStable DEF Window
    <3> QED BY <1>11, <2>2, <3>1, <3>2 DEF ByChunk
  <2> QED BY <2>1, <2>2
<1> QED BY <1>6, <1>8, <1>12, <1>13 DEF IInv

(* A step in which nothing happens. *)
LEMMA InvStutter == IInv /\ UNCHANGED vars => IInv'
<1> SUFFICES ASSUME IInv, UNCHANGED vars PROVE IInv'
  OBVIOUS
<1>1. UNCHANGED <<mode, started, running, stored, staging, queue, recv, ready, pc, told, freed, cleared>>
  BY DEF vars, gemm, transfer
<1>2. TypeOK
  BY DEF IInv
<1>3. TypeOK'
  BY <1>1, <1>2, ModeStable DEF TypeOK, AllChunks
<1>4. ASSUME NEW r \in Ranks, NEW d \in Ranks, NEW c \in Chunk
      PROVE  /\ Filled(r, d, c)' = Filled(r, d, c) /\ Posted(r, d, c)' = Posted(r, d, c)
             /\ Copied(r, d, c)' = Copied(r, d, c)
  BY <1>1, Untouched
<1>5. ASSUME NEW r \in Ranks PROVE ByRank(r)'
  <2>1. StreamOrder(r)'
    BY <1>1, Untouched DEF IInv, ByRank
  <2> QED BY <1>1, <2>1, ModeStable DEF IInv, ByRank, Rounds
<1>6. ASSUME NEW r \in Ranks, NEW d \in Ranks PROVE ByPeer(r, d)'
  BY <1>1, <1>2, <1>4, PeerStable DEF IInv
<1>7. ASSUME NEW r \in Ranks, NEW d \in Ranks, NEW c \in Chunk PROVE ByChunk(r, d, c)'
  <2>1. ByChunk(r, d, c) /\ freed[r] \in Int /\ Filled(r, d, c) \in Int
    BY <1>2, Counts DEF IInv
  <2> QED BY <1>1, <1>4, <2>1, ChunkStable
<1> QED BY <1>3, <1>5, <1>6, <1>7 DEF IInv

(* Every step keeps the invariant. *)
LEMMA InvNext == IInv /\ [Next]_vars => IInv'
<1> SUFFICES ASSUME IInv, Next PROVE IInv'
  BY InvStutter
<1>1. PICK r \in Ranks : ComputeStream(r) \/ TransferStream(r) \/ \E d \in Ranks : Land(r, d)
  BY DEF Next
<1>2. CASE ComputeStream(r)
  <2>1. CASE Clear(r)
    BY <2>1, InvClear
  <2>2. CASE StartGemm(r)
    BY <2>2, InvStartGemm
  <2>3. CASE \E x \in Pieces(r) : StoreChunk(r, x[1], x[2])
    <3>1. PICK x \in Pieces(r) : StoreChunk(r, x[1], x[2])
      BY <2>3
    <3>2. x[1] \in Ranks /\ x[2] \in Chunk /\ <<x[1], x[2]>> \in Pieces(r)
      BY <3>1, Sizes DEF Pieces, Peers
    <3> QED BY <3>1, <3>2, InvStoreChunk
  <2>4. CASE FinishGemm(r)
    BY <2>4, InvFinishGemm
  <2> QED BY <1>2, <2>1, <2>2, <2>3, <2>4 DEF ComputeStream
<1>3. CASE TransferStream(r)
  <2>1. CASE Post(r)
    BY <2>1, InvPost
  <2>2. CASE SelfCopy(r)
    BY <2>2, InvSelfCopy
  <2>3. CASE \E p \in Ranks : QuietNotify(r, p)
    BY <2>3, InvQuietNotify
  <2>4. CASE \E x \in AllChunks : CopyChunk(r, x[1], x[2]) \/ ReduceChunk(r, x[1], x[2])
    <3>1. PICK x \in AllChunks : CopyChunk(r, x[1], x[2]) \/ ReduceChunk(r, x[1], x[2])
      BY <2>4
    <3>2. x[1] \in Ranks /\ x[2] \in Chunk
      BY <3>1 DEF AllChunks
    <3>3. MoveChunk(r, x[1], x[2]) /\ (SplitLsa \/ Reducing)
      BY <3>1 DEF CopyChunk, ReduceChunk
    <3> QED BY <3>2, <3>3, InvMoveChunk
  <2> QED BY <1>3, <2>1, <2>2, <2>3, <2>4 DEF TransferStream
<1>4. CASE \E d \in Ranks : Land(r, d)
  BY <1>4, InvLand
<1> QED BY <1>1, <1>2, <1>3, <1>4

(* The invariant holds in every reachable state. *)
THEOREM Invariance == Spec => []IInv
<1>1. Init => IInv
  BY InvInit
<1>2. IInv /\ [Next]_vars => IInv'
  BY InvNext
<1> QED BY <1>1, <1>2, PTL DEF Spec

(* The type invariant. *)
THEOREM TypeCorrect == Spec => []TypeOK
BY Invariance, PTL DEF IInv

(* SourceStable: an engine never reads a staging chunk that is being rewritten. *)
THEOREM StableSources == Spec => []SourceStable
<1>1. IInv => SourceStable
  <2> SUFFICES ASSUME IInv, NEW r \in Ranks, NEW d \in Ranks, NEW m \in ToSet(queue[r][d])
               PROVE  /\ Source(r, d, m) = m.epoch
                      /\ running[r] /\ Slot(Computing(r)) = Slot(m.epoch) => <<d, m.chunk>> \in stored[r]
    BY DEF SourceStable
  <2>0. TypeOK /\ mode \in Modes /\ StreamOrder(r)
    BY DEF IInv, TypeOK, ByRank
  <2>1. PICK i \in DOMAIN queue[r][d] : m = queue[r][d][i]
    BY DEF ToSet
  <2>2. m.chunk \in Chunk /\ m.epoch \in Nat
    BY <2>0, <2>1, PutTypes
  <2>3. ByPeer(r, d) /\ ByChunk(r, d, m.chunk)
    BY <2>2 DEF IInv
  <2>4. freed[r] <= m.epoch /\ m.epoch < Posted(r, d, m.chunk) /\ UsesSdma /\ d # r
    BY <2>1, <2>3 DEF ByPeer, QueueOrder
  <2>5. freed[r] \in Nat /\ Filled(r, d, m.chunk) \in Int /\ Posted(r, d, m.chunk) \in Int
        /\ Filled(r, d, m.chunk) >= Staged(r) /\ Staged(r) \in Int /\ started[r] \in Nat
    BY <2>0, <2>2, Counts
  <2>6. Posted(r, d, m.chunk) <= Filled(r, d, m.chunk)
    <3>1. freed[r] <= Staged(r) /\ (pc[r] # "idle" => freed[r] < Staged(r))
      BY <2>0 DEF StreamOrder
    <3> QED BY <2>5, <3>1 DEF Posted
  <2>7. Source(r, d, m) = m.epoch
    <3>1. m.epoch \in freed[r] .. Filled(r, d, m.chunk) - 1
      BY <2>2, <2>4, <2>5, <2>6
    <3>2. ~Direct
      BY <2>0, <2>4, Exclusive
    <3> QED BY <2>3, <3>1, <3>2 DEF ByChunk, Kept, Source
  <2>8. ASSUME running[r], <<d, m.chunk>> \notin stored[r] PROVE Slot(Computing(r)) # Slot(m.epoch)
    <3>1. Filled(r, d, m.chunk) = Computing(r)
      BY <2>4, <2>8 DEF Filled, Computing
    <3>2. m.epoch \in freed[r] .. Computing(r) - 1
      BY <2>2, <2>4, <2>5, <2>6, <3>1
    <3> QED BY <2>0, <2>8, <3>2, OtherSlot
  <2> QED BY <2>7, <2>8
<1> QED BY <1>1, Invariance, PTL

(* FinalOutput: when every rank has stopped, every window holds the last epoch. *)
THEOREM LastEpoch == Spec => []FinalOutput
<1>1. IInv => FinalOutput
  <2> SUFFICES ASSUME IInv, AllStopped, NEW d \in Ranks, NEW p \in Ranks
               PROVE  /\ \A c \in Chunk : recv[d][p][c] = Epochs - 1
                      /\ UsesSdma /\ p # d => ready[d][p] = Epochs
    BY DEF FinalOutput
  <2>0. TypeOK /\ mode \in Modes /\ StreamOrder(p)
    BY DEF IInv, TypeOK, ByRank
  <2>1. freed[p] = Epochs /\ started[p] = Epochs /\ ~running[p] /\ pc[p] = "idle"
    <3>1. /\ started[p] \in Nat /\ started[p] <= Epochs /\ Staged(p) \in Int /\ Staged(p) <= started[p]
          /\ running[p] \in BOOLEAN
      BY <2>0, Types
    <3>2. freed[p] = Epochs /\ freed[p] <= Staged(p)
      BY <2>0 DEF AllStopped, StreamOrder
    <3>3. started[p] = Epochs /\ Staged(p) = Epochs
      BY <3>1, <3>2, Sizes
    <3>4. ~running[p]
      BY <3>3, Sizes DEF Staged
    <3>5. pc[p] = "idle"
      BY <2>0, <3>2, <3>3, Sizes DEF StreamOrder
    <3> QED BY <3>2, <3>3, <3>4, <3>5
  <2>2. UsesSdma /\ p # d => ready[d][p] = Epochs
    BY <2>1 DEF IInv, ByPeer, Signals, Signalled
  <2>3. ASSUME NEW c \in Chunk PROVE recv[d][p][c] = Epochs - 1
    <3>0. ByChunk(p, d, c)
      BY DEF IInv
    <3>1. Filled(p, d, c) = Epochs /\ Posted(p, d, c) = Epochs
      BY <2>1 DEF Filled, Posted
    <3>2. CASE UsesSdma /\ d # p
      <4>1. recv[d][p][c] \in Int
        <5>1. recv[d][p] \in Slab
          BY <2>0 DEF TypeOK
        <5> QED BY <5>1, Sizes DEF Slab, Epoch, Empty
      <4>2. /\ recv[d][p][c] < Epochs
            /\ \A e \in recv[d][p][c] + 1 .. Epochs - 1 :
                 \E i \in DOMAIN queue[p][d] : queue[p][d][i] = Put(e, c)
        BY <3>0, <3>1, <3>2 DEF ByChunk, Unlanded
      <4>3. \A i \in DOMAIN queue[p][d] : queue[p][d][i].epoch >= Epochs
        BY <2>1 DEF IInv, ByPeer, QueueOrder
      <4>4. SUFFICES ASSUME recv[d][p][c] + 1 <= Epochs - 1 PROVE FALSE
        BY <4>1, <4>2, Sizes
      <4>5. Epochs - 1 \in recv[d][p][c] + 1 .. Epochs - 1
        BY <4>1, <4>4, Sizes
      <4>6. PICK i \in DOMAIN queue[p][d] : queue[p][d][i] = Put(Epochs - 1, c)
        BY <4>2, <4>5
      <4>7. queue[p][d][i].epoch = Epochs - 1
        BY <4>6 DEF Put
      <4> QED BY <4>3, <4>7, Sizes
    <3>3. CASE UsesSdma /\ d = p
      BY <2>1, <3>0, <3>3 DEF ByChunk, Window
    <3>4. CASE Direct
      BY <3>0, <3>1, <3>4 DEF ByChunk, Window
    <3>5. CASE SplitLsa \/ Reducing
      <4>1. Staged(p) = Epochs
        BY <2>1 DEF Staged
      <4>2. told[p] = {}
        BY <2>0, <2>1, <3>5, <4>1, Sizes DEF StreamOrder
      <4>3. Copied(p, d, c) = Epochs
        BY <2>1, <4>2 DEF Copied
      <4>4. Reducing => cleared[d] = Epochs
        <5>1. Reducing => started[p] <= cleared[d]
          BY DEF IInv, ByRank, Rounds
        <5> QED BY <2>0, <2>1, <5>1, Types, Sizes
      <4> QED BY <3>0, <3>5, <4>3, <4>4 DEF ByChunk, Window
    <3> QED BY <2>0, <3>2, <3>3, <3>4, <3>5, Exclusive
  <2> QED BY <2>2, <2>3
<1> QED BY <1>1, Invariance, PTL

(***************************************************************************)
(* The epochs a window has received: Held.                                 *)
(***************************************************************************)

(* Held counts what a stream has moved, whether or not the window is cleared. *)
HeldOK ==
  \A d, p \in Ranks : \A c \in Chunk :
    /\ recv[d][p][c] \in Int /\ recv[d][p][c] >= -1
    /\ Held(d, p, c) \in Nat /\ Held(d, p, c) <= Epochs
    /\ ~Reducing => Held(d, p, c) = recv[d][p][c] + 1
    /\ Direct => Held(d, p, c) = Filled(p, d, c)
    /\ SplitLsa \/ Reducing => Held(d, p, c) = Copied(p, d, c)
    /\ UsesSdma /\ d = p => Held(d, p, c) = IF pc[p] = "notify" THEN freed[p] + 1 ELSE freed[p]
    /\ Reducing => /\ recv[d][p][c] = IF Copied(p, d, c) = cleared[d] THEN cleared[d] - 1 ELSE -1
                   /\ Copied(p, d, c) <= cleared[d] /\ cleared[d] \in Nat

(* So it is in every reachable state. *)
LEMMA HeldFacts == IInv => HeldOK
<1> SUFFICES ASSUME IInv, NEW d \in Ranks, NEW p \in Ranks, NEW c \in Chunk
             PROVE  /\ recv[d][p][c] \in Int /\ recv[d][p][c] >= -1
                    /\ Held(d, p, c) \in Nat /\ Held(d, p, c) <= Epochs
                    /\ ~Reducing => Held(d, p, c) = recv[d][p][c] + 1
                    /\ Direct => Held(d, p, c) = Filled(p, d, c)
                    /\ SplitLsa \/ Reducing => Held(d, p, c) = Copied(p, d, c)
                    /\ UsesSdma /\ d = p => Held(d, p, c) = IF pc[p] = "notify" THEN freed[p] + 1 ELSE freed[p]
                    /\ Reducing => /\ recv[d][p][c] = IF Copied(p, d, c) = cleared[d] THEN cleared[d] - 1 ELSE -1
                                   /\ Copied(p, d, c) <= cleared[d] /\ cleared[d] \in Nat
  BY DEF HeldOK
<1>0. TypeOK /\ mode \in Modes /\ StreamOrder(p) /\ Rounds(p) /\ Window(p, d, c)
  BY DEF IInv, TypeOK, ByRank, ByChunk
<1>1. recv[d][p][c] \in Int /\ recv[d][p][c] >= -1 /\ recv[d][p][c] + 1 <= Epochs
  <2>1. recv[d][p] \in Slab
    BY <1>0 DEF TypeOK
  <2> QED BY <2>1, Sizes DEF Slab, Epoch, Empty
<1>2. cleared[d] \in Nat /\ cleared[d] <= Epochs /\ freed[p] \in Nat /\ started[p] \in Nat
      /\ Staged(p) \in Int /\ Staged(p) <= started[p]
  BY <1>0, Types
<1>3. Filled(p, d, c) \in Int /\ Copied(p, d, c) \in Nat
  BY <1>0, Counts
<1>4. CASE ~Reducing
  <2>1. cleared[d] = 0
    BY <1>4 DEF IInv, ByRank, Rounds
  <2>2. Held(d, p, c) = recv[d][p][c] + 1
    BY <2>1 DEF Held
  <2>3. Held(d, p, c) \in Nat /\ Held(d, p, c) <= Epochs
    BY <1>1, <2>2
  <2>4. /\ Direct => Held(d, p, c) = Filled(p, d, c)
        /\ SplitLsa => Held(d, p, c) = Copied(p, d, c)
    BY <1>0, <1>3, <2>2 DEF Window
  <2>5. UsesSdma /\ d = p => Held(d, p, c) = IF pc[p] = "notify" THEN freed[p] + 1 ELSE freed[p]
    BY <1>0, <1>2, <2>2 DEF Window
  <2> QED BY <1>1, <1>4, <2>2, <2>3, <2>4, <2>5
<1>5. CASE Reducing
  <2>1. started[p] <= cleared[d] /\ cleared[d] <= freed[p] + 1
    BY <1>0, <1>5 DEF Rounds
  <2>2. freed[p] <= Copied(p, d, c) /\ Copied(p, d, c) <= Staged(p)
    BY <1>0, <1>2, <1>5, CopiedStaged DEF Copied
  <2>3. recv[d][p][c] = IF Copied(p, d, c) = cleared[d] THEN cleared[d] - 1 ELSE -1
    BY <1>0, <1>5 DEF Window, Empty
  <2>4. Held(d, p, c) = Copied(p, d, c) /\ Copied(p, d, c) <= cleared[d]
    BY <1>2, <1>3, <2>1, <2>2, <2>3 DEF Held, Empty
  <2>5. ~Direct /\ ~UsesSdma
    BY <1>0, <1>5, Exclusive
  <2>6. Held(d, p, c) \in Nat /\ Held(d, p, c) <= Epochs
    BY <1>2, <1>3, <2>4, Sizes
  <2>7. Copied(p, d, c) <= cleared[d] /\ cleared[d] \in Nat
    BY <1>2, <2>4
  <2> QED BY <1>1, <1>5, <2>3, <2>4, <2>5, <2>6, <2>7, Zenon
<1> QED BY <1>4, <1>5

(* A step moves nothing, or the next epoch into chunks of one window. *)
HeldSame == \A d, p \in Ranks : \A c \in Chunk : Held(d, p, c)' = Held(d, p, c)
HeldMoves(d0, p0) ==
  /\ UNCHANGED <<mode, ready, cleared>>
  /\ \A d, p \in Ranks : \A c \in Chunk :
       \/ Held(d, p, c)' = Held(d, p, c)
       \/ d = d0 /\ p = p0 /\ Held(d, p, c)' = Held(d, p, c) + 1

(* A step moves an epoch into chunks of one window only, and the next epoch;
   a step that does so signals nothing, and does not clear a window. *)
LEMMA Advance ==
  ASSUME IInv, IInv', Next
  PROVE  HeldSame \/ \E d0, p0 \in Ranks : HeldMoves(d0, p0)
<1>0. HeldOK /\ HeldOK' /\ TypeOK /\ mode \in Modes /\ TypeOK'
  <2>1. HeldOK'
    BY HeldFacts, PTL
  <2> QED BY <2>1, HeldFacts DEF IInv, TypeOK
<1>33. /\ recv \in [Ranks -> [Ranks -> Slab]] /\ told \in [Ranks -> SUBSET (IF SplitLsa \/ Reducing THEN AllChunks ELSE Ranks)]
  BY <1>0 DEF TypeOK
<1>1. recv' = recv /\ cleared' = cleared => HeldSame
  BY DEF Held, HeldSame
<1>2. ASSUME NEW d0 \in Ranks, NEW p0 \in Ranks, UNCHANGED <<mode, ready, cleared>>,
             \A d, p \in Ranks, c \in Chunk : d # d0 \/ p # p0 => recv'[d][p][c] = recv[d][p][c],
             \A c \in Chunk : Held(d0, p0, c)' \in {Held(d0, p0, c), Held(d0, p0, c) + 1}
      PROVE  HeldMoves(d0, p0)
  <2> SUFFICES ASSUME NEW d \in Ranks, NEW p \in Ranks, NEW c \in Chunk
               PROVE  \/ Held(d, p, c)' = Held(d, p, c)
                      \/ d = d0 /\ p = p0 /\ Held(d, p, c)' = Held(d, p, c) + 1
    BY <1>2 DEF HeldMoves
  <2>1. CASE d = d0 /\ p = p0
    BY <1>2, <2>1
  <2>2. CASE ~(d = d0 /\ p = p0)
    BY <1>2, <2>2 DEF Held
  <2> QED BY <2>1, <2>2
<1>3. PICK q \in Ranks : ComputeStream(q) \/ TransferStream(q) \/ \E d \in Ranks : Land(q, d)
  BY DEF Next
<1>4. CASE Clear(q)
  <2>1. /\ Reducing /\ Reducing'
        /\ UNCHANGED <<mode, started, running, stored, pc, told, freed>>
    BY <1>4, ModeStable DEF Clear, transfer
  <2>2. ASSUME NEW d \in Ranks, NEW p \in Ranks, NEW c \in Chunk
        PROVE  Held(d, p, c)' = Held(d, p, c)
    <3>1. Copied(p, d, c)' = Copied(p, d, c)
      BY <2>1, Untouched
    <3>2. Held(d, p, c) = Copied(p, d, c)
      BY <1>0, <2>1 DEF HeldOK
    <3>3. Held(d, p, c)' = Copied(p, d, c)'
      BY <1>0, <2>1 DEF HeldOK
    <3> QED BY <3>1, <3>2, <3>3
  <2> QED BY <2>2 DEF HeldSame
<1>5. CASE StartGemm(q) \/ FinishGemm(q) \/ Post(q) \/ \E p \in Ranks : QuietNotify(q, p)
  BY <1>1, <1>5 DEF StartGemm, FinishGemm, Post, QuietNotify
<1>6. ASSUME NEW d0 \in Ranks, NEW c0 \in Chunk, StoreChunk(q, d0, c0) PROVE HeldSame \/ HeldMoves(d0, q)
  <2>1. /\ UNCHANGED <<mode, ready, cleared, started, running>>
        /\ stored' = [stored EXCEPT ![q] = stored[q] \cup {<<d0, c0>>}]
        /\ ~Direct => recv' = recv
        /\ Direct => recv' = [recv EXCEPT ![d0][q] = WithChunk(recv[d0][q], d0 = q, c0, Computing(q))]
    BY <1>6 DEF StoreChunk
  <2>2. CASE ~Direct
    BY <1>1, <2>1, <2>2
  <2>3. CASE Direct
    <3>1. \A d, p \in Ranks, c \in Chunk : d # d0 \/ p # q => recv'[d][p][c] = recv[d][p][c]
      <4> DEFINE x == WithChunk(recv[d0][q], d0 = q, c0, Computing(q))
      <4>1. recv' = [recv EXCEPT ![d0][q] = x]
        BY <2>1, <2>3
      <4> HIDE DEF x
      <4> QED BY <1>33, <4>1, Update2
    <3>2. ASSUME NEW c \in Chunk PROVE Held(d0, q, c)' \in {Held(d0, q, c), Held(d0, q, c) + 1}
      <4>1. Held(d0, q, c) = Filled(q, d0, c) /\ Held(d0, q, c)' = Filled(q, d0, c)'
        BY <1>0, <2>1, <2>3, ModeStable DEF HeldOK
      <4>2. Filled(q, d0, c)' \in {Filled(q, d0, c), Filled(q, d0, c) + 1}
        <5>1. started[q] \in Nat /\ stored[q] \subseteq stored'[q]
          BY <1>0, <2>1, Types DEF TypeOK
        <5> QED BY <2>1, <5>1 DEF Filled
      <4> QED BY <4>1, <4>2
    <3> QED BY <1>2, <2>1, <3>1, <3>2
  <2> QED BY <2>2, <2>3
<1>7. CASE SelfCopy(q)
  <2>1. /\ UsesSdma /\ UNCHANGED <<mode, ready, cleared, freed>>
        /\ recv' = [recv EXCEPT ![q][q] = staging[q][Slot(freed[q])][q]]
        /\ pc' = [pc EXCEPT ![q] = "notify"]
        /\ pc[q] # "notify"
    BY <1>7 DEF SelfCopy
  <2>2. pc'[q] = "notify"
    BY <1>0, <2>1 DEF TypeOK
  <2>3. \A d, p \in Ranks, c \in Chunk : d # q \/ p # q => recv'[d][p][c] = recv[d][p][c]
    BY <1>33, <2>1, Update2
  <2>4. ASSUME NEW c \in Chunk PROVE Held(q, q, c)' = Held(q, q, c) + 1
    <3>1. Held(q, q, c) = freed[q]
      BY <1>0, <2>1 DEF HeldOK
    <3>2. Held(q, q, c)' = freed'[q] + 1
      BY <1>0, <2>1, <2>2, ModeStable DEF HeldOK
    <3> QED BY <2>1, <3>1, <3>2
  <2> QED BY <1>2, <2>1, <2>3, <2>4
<1>8. ASSUME NEW d0 \in Ranks, NEW c0 \in Chunk, SplitLsa \/ Reducing, MoveChunk(q, d0, c0)
      PROVE  HeldMoves(d0, q)
  <2>1. /\ UNCHANGED <<mode, ready, cleared>>
        /\ recv' = [recv EXCEPT ![d0][q][c0] = staging[q][Slot(freed[q])][d0][c0]]
    BY <1>8 DEF MoveChunk
  <2>2. \A d, p \in Ranks, c \in Chunk : d # d0 \/ p # q => recv'[d][p][c] = recv[d][p][c]
    BY <1>33, <2>1, Update3 DEF Slab
  <2>3. ASSUME NEW c \in Chunk PROVE Held(d0, q, c)' \in {Held(d0, q, c), Held(d0, q, c) + 1}
    <3>1. Held(d0, q, c) = Copied(q, d0, c) /\ Held(d0, q, c)' = Copied(q, d0, c)'
      <4>1. (SplitLsa \/ Reducing) /\ (SplitLsa \/ Reducing)'
        BY <1>8, <2>1, ModeStable
      <4>2. Held(d0, q, c) = Copied(q, d0, c)
        BY <1>0, <4>1 DEF HeldOK
      <4>3. Held(d0, q, c)' = Copied(q, d0, c)'
        BY <1>0, <4>1 DEF HeldOK
      <4> QED BY <4>2, <4>3
    <3>2. CASE c # c0
      BY <1>33, <2>1, <3>2, Update3 DEF Held, Slab
    <3>3. CASE c = c0
      <4>1. Copied(q, d0, c) = freed[q] /\ freed[q] \in Nat
        BY <1>0, <1>8, <3>3, Types DEF MoveChunk, Copied
      <4>2. Copied(q, d0, c)' \in {freed[q], freed[q] + 1, freed[q] + 2}
        <5>1. freed'[q] \in {freed[q], freed[q] + 1}
          BY <1>0, <1>8 DEF MoveChunk, TypeOK
        <5> QED BY <4>1, <5>1 DEF Copied
      <4>3. Copied(q, d0, c)' # freed[q] + 2
        <5>1. told \in [Ranks -> SUBSET AllChunks] /\ freed \in [Ranks -> 0 .. Epochs]
          BY <1>0, <1>8 DEF TypeOK
        <5>2. CASE told[q] \cup {<<d0, c0>>} = AllChunks
          <6>1. told'[q] = {} /\ freed'[q] = freed[q] + 1
            BY <1>8, <5>1, <5>2 DEF MoveChunk
          <6> QED BY <4>1, <6>1 DEF Copied
        <5>3. CASE told[q] \cup {<<d0, c0>>} # AllChunks
          <6>1. freed'[q] = freed[q]
            BY <1>8, <5>3 DEF MoveChunk
          <6> QED BY <4>1, <6>1 DEF Copied
        <5> QED BY <5>2, <5>3
      <4> QED BY <3>1, <4>1, <4>2, <4>3
    <3> QED BY <3>2, <3>3
  <2> QED BY <1>2, <2>1, <2>2, <2>3
<1>9. ASSUME NEW d0 \in Ranks, Land(q, d0)
      PROVE  HeldMoves(d0, q)
  <2> DEFINE m == Head(queue[q][d0])
  <2>1. /\ UNCHANGED <<mode, ready, cleared>> /\ queue[q][d0] # <<>>
        /\ recv' = [recv EXCEPT ![d0][q][m.chunk] = Source(q, d0, m)]
    BY <1>9 DEF Land, transfer
  <2>2. UsesSdma /\ ~Reducing /\ m.chunk \in Chunk /\ Source(q, d0, m) = recv[d0][q][m.chunk] + 1
    BY <1>0, <2>1, LandFacts, Exclusive
  <2> HIDE DEF m
  <2>3. /\ recv'[d0][q][m.chunk] = recv[d0][q][m.chunk] + 1
        /\ \A d, p \in Ranks, c \in Chunk : d # d0 \/ p # q \/ c # m.chunk => recv'[d][p][c] = recv[d][p][c]
    BY <1>33, <2>1, <2>2, Update3 DEF Slab
  <2>4. ASSUME NEW c \in Chunk PROVE Held(d0, q, c)' \in {Held(d0, q, c), Held(d0, q, c) + 1}
    <3>1. Held(d0, q, c) = recv[d0][q][c] + 1 /\ Held(d0, q, c)' = recv'[d0][q][c] + 1
      <4>1. ~Reducing /\ ~Reducing'
        BY <2>1, <2>2, ModeStable
      <4>2. Held(d0, q, c) = recv[d0][q][c] + 1
        BY <1>0, <4>1 DEF HeldOK
      <4>3. Held(d0, q, c)' = recv'[d0][q][c] + 1
        BY <1>0, <4>1 DEF HeldOK
      <4> QED BY <4>2, <4>3
    <3>2. recv'[d0][q][c] = recv[d0][q][c] \/ recv'[d0][q][c] = recv[d0][q][c] + 1
      BY <2>3
    <3> QED BY <3>1, <3>2
  <2> QED BY <1>2, <2>1, <2>3, <2>4
<1>10. CASE \E x \in Pieces(q) : StoreChunk(q, x[1], x[2])
  <2>1. PICK x \in Pieces(q) : StoreChunk(q, x[1], x[2])
    BY <1>10
  <2>2. x[1] \in Ranks /\ x[2] \in Chunk
    BY <2>1, Sizes DEF Pieces, Peers
  <2> QED BY <1>6, <2>1, <2>2
<1>11. CASE \E x \in AllChunks : CopyChunk(q, x[1], x[2]) \/ ReduceChunk(q, x[1], x[2])
  <2>1. PICK x \in AllChunks : CopyChunk(q, x[1], x[2]) \/ ReduceChunk(q, x[1], x[2])
    BY <1>11
  <2>2. x[1] \in Ranks /\ x[2] \in Chunk
    BY <2>1 DEF AllChunks
  <2>3. MoveChunk(q, x[1], x[2]) /\ (SplitLsa \/ Reducing)
    BY <2>1 DEF CopyChunk, ReduceChunk
  <2> QED BY <1>8, <2>2, <2>3
<1>12. CASE \E d \in Ranks : Land(q, d)
  BY <1>9, <1>12
<1> QED BY <1>3, <1>4, <1>5, <1>7, <1>10, <1>11, <1>12 DEF ComputeStream, TransferStream

(* Only the reduction clears windows, and it moves nothing while it does. *)
LEMMA WhenCleared ==
  ASSUME IInv, Next, cleared' # cleared
  PROVE  Reducing /\ HeldSame
         /\ \E q \in Ranks : /\ cleared' = [cleared EXCEPT ![q] = @ + 1]
                             /\ recv' = [recv EXCEPT ![q] = [p \in Ranks |-> [c \in Chunk |-> Empty]]]
                             /\ \A d, p \in Ranks : \A c \in Chunk : Copied(p, d, c)' = Copied(p, d, c)
<1>0. PICK q \in Ranks : Clear(q)
  BY DEF Next, ComputeStream, TransferStream, StartGemm, StoreChunk, FinishGemm, Post, SelfCopy, QuietNotify,
         CopyChunk, ReduceChunk, MoveChunk, Land
<1>1. /\ Reducing /\ UNCHANGED <<mode, started, running, stored, pc, told, freed>>
      /\ cleared' = [cleared EXCEPT ![q] = @ + 1]
      /\ recv' = [recv EXCEPT ![q] = [p \in Ranks |-> [c \in Chunk |-> Empty]]]
  BY <1>0 DEF Clear, transfer
<1>2. ASSUME NEW d \in Ranks, NEW p \in Ranks, NEW c \in Chunk PROVE Copied(p, d, c)' = Copied(p, d, c)
  BY <1>1, Untouched
<1>3. HeldSame
  <2>1. IInv'
    BY <1>0, InvClear
  <2>2. HeldOK /\ HeldOK'
    <3>1. HeldOK'
      BY <2>1, HeldFacts, PTL
    <3> QED BY <3>1, HeldFacts
  <2>3. Reducing'
    BY <1>1, ModeStable
  <2>4. ASSUME NEW d \in Ranks, NEW p \in Ranks, NEW c \in Chunk PROVE Held(d, p, c)' = Held(d, p, c)
    <3>1. Held(d, p, c) = Copied(p, d, c)
      BY <1>1, <2>2 DEF HeldOK
    <3>2. Held(d, p, c)' = Copied(p, d, c)'
      BY <2>2, <2>3 DEF HeldOK
    <3> QED BY <1>2, <3>1, <3>2
  <2> QED BY <2>4 DEF HeldSame
<1> QED BY <1>1, <1>2, <1>3

(* NeverBackwards: a chunk of a window only gets newer, until it is cleared, and
   then it holds the last epoch of its round. *)
THEOREM NoOlderEpoch == Spec => NeverBackwards
<1> DEFINE Forward == \A d, p \in Ranks : \A c \in Chunk :
             \/ recv'[d][p][c] >= recv[d][p][c]
             \/ cleared'[d] # cleared[d] /\ recv[d][p][c] = cleared[d] - 1
<1>1. IInv /\ [Next]_vars => [Forward]_vars
  <2> SUFFICES ASSUME IInv, Next, NEW d \in Ranks, NEW p \in Ranks, NEW c \in Chunk
               PROVE  \/ recv'[d][p][c] >= recv[d][p][c]
                      \/ cleared'[d] # cleared[d] /\ recv[d][p][c] = cleared[d] - 1
    OBVIOUS
  <2>1. IInv' /\ HeldOK /\ HeldOK' /\ TypeOK
    <3>1. IInv'
      BY InvNext
    <3>2. HeldOK'
      BY <3>1, HeldFacts, PTL
    <3> QED BY <3>1, <3>2, HeldFacts DEF IInv
  <2>2. /\ recv[d][p][c] \in Int /\ recv[d][p][c] >= -1 /\ recv'[d][p][c] \in Int /\ recv'[d][p][c] >= -1
        /\ Held(d, p, c) \in Nat /\ Held(d, p, c)' \in Nat
    BY <2>1 DEF HeldOK
  <2>3. CASE cleared' # cleared
    <3>1. PICK q \in Ranks : cleared' = [cleared EXCEPT ![q] = @ + 1] /\ Reducing
                             /\ recv' = [recv EXCEPT ![q] = [y \in Ranks |-> [z \in Chunk |-> Empty]]]
      BY <2>3, WhenCleared
    <3>2. recv \in [Ranks -> [Ranks -> Slab]] /\ cleared \in [Ranks -> 0 .. Epochs]
      BY <2>1 DEF TypeOK
    <3>3. CASE d = q
      <4>1. cleared'[d] = cleared[d] + 1 /\ cleared[d] \in Nat
        BY <3>1, <3>2, <3>3
      <4>2. recv[d][p][c] = cleared[d] - 1 \/ recv[d][p][c] = -1
        BY <2>1, <3>1 DEF HeldOK
      <4> QED BY <2>2, <4>1, <4>2
    <3>4. CASE d # q
      <4>1. recv'[d] = recv[d]
        BY <3>1, <3>2, <3>4
      <4> QED BY <2>2, <4>1
    <3> QED BY <3>3, <3>4
  <2>4. CASE cleared' = cleared
    <3>1. Held(d, p, c)' >= Held(d, p, c) /\ mode' = mode
      <4>1. mode' = mode
        BY DEF Next, ComputeStream, TransferStream, Clear, StartGemm, StoreChunk, FinishGemm, Post, SelfCopy,
               QuietNotify, CopyChunk, ReduceChunk, MoveChunk, Land
      <4> QED BY <2>1, <2>2, <4>1, Advance DEF HeldSame, HeldMoves
    <3>2. CASE ~Reducing
      <4>1. ~Reducing'
        BY <3>1, <3>2, ModeStable
      <4>2. Held(d, p, c) = recv[d][p][c] + 1
        BY <2>1, <3>2 DEF HeldOK
      <4>3. Held(d, p, c)' = recv'[d][p][c] + 1
        BY <2>1, <4>1 DEF HeldOK
      <4> QED BY <2>2, <3>1, <4>2, <4>3
    <3>3. CASE Reducing
      <4>1. Reducing'
        BY <3>1, <3>3, ModeStable
      <4> DEFINE n == Held(d, p, c)
      <4>2. recv[d][p][c] = (IF n = cleared[d] THEN cleared[d] - 1 ELSE -1) /\ n <= cleared[d] /\ cleared[d] \in Nat
        BY <2>1, <3>3 DEF HeldOK
      <4>3. recv'[d][p][c] = (IF Held(d, p, c)' = cleared[d] THEN cleared[d] - 1 ELSE -1)
            /\ Held(d, p, c)' <= cleared[d]
        BY <2>1, <2>4, <4>1 DEF HeldOK
      <4> HIDE DEF n
      <4>4. Held(d, p, c)' >= n
        BY <3>1 DEF n
      <4>5. n \in Nat
        BY <2>2 DEF n
      <4> QED BY <2>2, <4>2, <4>3, <4>4, <4>5
    <3> QED BY <3>2, <3>3
  <2> QED BY <2>3, <2>4
<1> HIDE DEF Forward
<1>2. Spec => [][Forward]_vars
  BY <1>1, Invariance, PTL DEF Spec
<1> QED BY <1>2 DEF Forward, NeverBackwards

(***************************************************************************)
(* The output is an in-order mailbox.                                      *)
(***************************************************************************)

(* A set of naturals that is not empty has a least one. *)
LEMMA Least ==
  ASSUME NEW S \in SUBSET Nat, S # {}
  PROVE  Min(S) \in S /\ \A y \in S : Min(S) <= y
<1> DEFINE L == OpToRel(<, Nat)
<1>1. PICK x \in S : \A y \in S : ~ (<<y, x>> \in L)
  <2> HIDE DEF L
  <2>1. IsWellFoundedOn(L, Nat)
    BY NatLessThanWellFounded DEF L
  <2> QED BY <2>1, WFMin
<1>2. \A y \in S : ~ (y < x)
  BY <1>1 DEF OpToRel
<1>3. \A y \in S : x <= y
  <2> HIDE DEF L
  <2> QED BY <1>2
<1> QED BY <1>1, <1>3 DEF Min

(* What a slab has received is what its last chunk has. *)
ReceivedOK ==
  \A p, d \in Ranks :
    /\ Received[p][d] \in Nat /\ Received[p][d] <= Epochs
    /\ \E c \in Chunk : Received[p][d] = Held(d, p, c)
    /\ \A c \in Chunk : Received[p][d] <= Held(d, p, c)

(* So it has in every reachable state. *)
LEMMA ReceivedFacts == HeldOK => ReceivedOK
<1> SUFFICES ASSUME HeldOK, NEW p \in Ranks, NEW d \in Ranks
             PROVE  /\ Received[p][d] \in Nat /\ Received[p][d] <= Epochs
                    /\ \E c \in Chunk : Received[p][d] = Held(d, p, c)
                    /\ \A c \in Chunk : Received[p][d] <= Held(d, p, c)
  BY DEF ReceivedOK
<1> DEFINE S == {Held(d, p, c) : c \in Chunk}
<1>1. S \in SUBSET Nat /\ S # {}
  BY Sizes DEF HeldOK
<1>2. Received[p][d] = Min(S)
  BY DEF Received
<1>3. Min(S) \in S /\ \A y \in S : Min(S) <= y
  <2> HIDE DEF S
  <2> QED BY <1>1, Least
<1>4. \A c \in Chunk : Held(d, p, c) \in Nat /\ Held(d, p, c) <= Epochs
  BY DEF HeldOK
<1> HIDE DEF Received
<1>5. PICK c0 \in Chunk : Min(S) = Held(d, p, c0)
  BY <1>3
<1>6. \A c \in Chunk : Min(S) <= Held(d, p, c)
  BY <1>3
<1> HIDE DEF S
<1> QED BY <1>2, <1>4, <1>5, <1>6

(* When a rank signals a peer, the peer has the whole epoch. *)
LEMMA SignalledHeld ==
  ASSUME IInv, NEW q \in Ranks, NEW p \in Ranks, QuietNotify(q, p)
  PROVE  /\ ready[p][q] = freed[q] /\ p # q
         /\ \A c \in Chunk : Held(p, q, c) >= freed[q] + 1
         /\ ready' = [ready EXCEPT ![p][q] = @ + 1] /\ UNCHANGED <<recv, cleared>>
<1> DEFINE f == freed[q]
<1>0. TypeOK /\ mode \in Modes /\ StreamOrder(q) /\ HeldOK
  BY HeldFacts DEF IInv, TypeOK, ByRank
<1>1. /\ pc[q] = "notify" /\ p # q /\ p \notin told[q] /\ Drained(q, p)
      /\ ready' = [ready EXCEPT ![p][q] = @ + 1] /\ UNCHANGED <<recv, cleared>>
  BY DEF QuietNotify, Peers
<1>2. UsesSdma /\ ~Reducing /\ f < Staged(q) /\ f \in Nat /\ Staged(q) \in Int
  BY <1>0, <1>1, Exclusive, Types DEF StreamOrder
<1>3. ready[p][q] = f
  BY <1>1, <1>2 DEF IInv, ByPeer, Signals, Signalled
<1>4. ASSUME NEW c \in Chunk PROVE Held(p, q, c) >= f + 1
  <2>1. ByChunk(q, p, c)
    BY DEF IInv
  <2>2. Held(p, q, c) = recv[p][q][c] + 1 /\ recv[p][q][c] \in Int
    BY <1>0, <1>2 DEF HeldOK
  <2>3. f < Posted(q, p, c) /\ Posted(q, p, c) \in Int
    <3>1. Filled(q, p, c) >= Staged(q) /\ Filled(q, p, c) \in Int /\ Posted(q, p, c) \in Int
      BY <1>0, Counts
    <3> QED BY <1>1, <1>2, <3>1 DEF Posted
  <2>4. SUFFICES ASSUME recv[p][q][c] + 1 <= f PROVE FALSE
    BY <1>2, <2>2
  <2>5. f \in recv[p][q][c] + 1 .. Posted(q, p, c) - 1
    BY <1>2, <2>2, <2>3, <2>4
  <2>6. PICK i \in DOMAIN queue[q][p] : queue[q][p][i] = Put(f, c)
    BY <1>1, <1>2, <2>1, <2>5 DEF ByChunk, Unlanded
  <2>7. queue[q][p][i].epoch = f
    BY <2>6 DEF Put
  <2>8. queue[q][p][i].epoch > f
    BY <1>1 DEF Drained
  <2> HIDE DEF f
  <2> QED BY <1>2, <2>7, <2>8
<1> QED BY <1>1, <1>3, <1>4

(* Where nothing is moved, nothing is received. *)
LEMMA ReceivedSame == HeldSame => Received' = Received
<1> SUFFICES ASSUME HeldSame PROVE Received' = Received
  OBVIOUS
<1>1. ASSUME NEW p \in Ranks, NEW d \in Ranks
      PROVE  {Held(d, p, c) : c \in Chunk}' = {Held(d, p, c) : c \in Chunk}
  BY DEF HeldSame
<1> QED BY <1>1 DEF Received

(* Where chunks of one window move on by an epoch, the slab does, or none. *)
LEMMA ReceivedMoves ==
  ASSUME HeldOK, HeldOK', NEW d0 \in Ranks, NEW p0 \in Ranks, HeldMoves(d0, p0)
  PROVE  \/ Received' = Received
         \/ Received[p0][d0] < Epochs /\ Received' = [Received EXCEPT ![p0][d0] = @ + 1]
<1>1. \A p, d \in Ranks : /\ Received[p][d] \in Nat /\ Received[p][d] <= Epochs
                          /\ \E c \in Chunk : Received[p][d] = Held(d, p, c)
                          /\ \A c \in Chunk : Received[p][d] <= Held(d, p, c)
  BY ReceivedFacts DEF ReceivedOK
<1>2. \A p, d \in Ranks : /\ Received'[p][d] \in Nat /\ Received'[p][d] <= Epochs
                          /\ \E c \in Chunk : Received'[p][d] = Held(d, p, c)'
                          /\ \A c \in Chunk : Received'[p][d] <= Held(d, p, c)'
  <2>1. ReceivedOK'
    BY ReceivedFacts, PTL
  <2> HIDE DEF Received
  <2> QED BY <2>1 DEF ReceivedOK
<1>3. ASSUME NEW p \in Ranks, NEW d \in Ranks, p # p0 \/ d # d0
      PROVE  Received'[p][d] = Received[p][d]
  <2>1. {Held(d, p, c) : c \in Chunk}' = {Held(d, p, c) : c \in Chunk}
    BY <1>3 DEF HeldMoves
  <2> QED BY <2>1 DEF Received
<1>4. Received'[p0][d0] = Received[p0][d0] \/ Received'[p0][d0] = Received[p0][d0] + 1
  <2>1. \A c \in Chunk : /\ Held(d0, p0, c) \in Nat
                         /\ Held(d0, p0, c)' = Held(d0, p0, c) \/ Held(d0, p0, c)' = Held(d0, p0, c) + 1
    BY DEF HeldMoves, HeldOK
  <2>2. PICK a \in Chunk : Received[p0][d0] = Held(d0, p0, a)
    BY <1>1
  <2>3. PICK b \in Chunk : Received'[p0][d0] = Held(d0, p0, b)'
    BY <1>2
  <2>4. Received'[p0][d0] <= Held(d0, p0, a)' /\ Received[p0][d0] <= Held(d0, p0, b)
    BY <1>1, <1>2
  <2> QED BY <1>1, <1>2, <2>1, <2>2, <2>3, <2>4
<1>5. Received \in [Ranks -> [Ranks -> Nat]] /\ Received' \in [Ranks -> [Ranks -> Nat]]
  <2>1. Received = [p \in Ranks |-> [d \in Ranks |-> Received[p][d]]]
    BY DEF Received
  <2>2. Received' = [p \in Ranks |-> [d \in Ranks |-> Received'[p][d]]]
    BY DEF Received
  <2> HIDE DEF Received
  <2> QED BY <1>1, <1>2, <2>1, <2>2
<1> HIDE DEF Received
<1>6. CASE Received'[p0][d0] = Received[p0][d0]
  BY <1>3, <1>5, <1>6
<1>7. CASE Received'[p0][d0] = Received[p0][d0] + 1
  <2>1. Received[p0][d0] < Epochs
    BY <1>1, <1>2, <1>7, Sizes
  <2>2. Received' = [Received EXCEPT ![p0][d0] = @ + 1]
    BY <1>3, <1>5, <1>7
  <2> QED BY <2>1, <2>2
<1> QED BY <1>4, <1>6, <1>7

(* ImplementsMailbox: every mode implements a mailbox that is written epoch by
   epoch, in order, and announces an epoch only when it is there. *)
THEOREM OutputIsMailbox == Spec => ImplementsMailbox
<1>1. Init => Box!Init
  <2> SUFFICES ASSUME Init PROVE Box!Init
    OBVIOUS
  <2>1. IInv /\ HeldOK
    BY InvInit, HeldFacts
  <2>2. ASSUME NEW p \in Ranks, NEW d \in Ranks PROVE Received[p][d] = 0
    <3>1. PICK c \in Chunk : Received[p][d] = Held(d, p, c)
      BY <2>1, ReceivedFacts DEF ReceivedOK
    <3>2. Held(d, p, c) = 0
      BY DEF Init, Held, Empty
    <3> QED BY <3>1, <3>2
  <2>3. Received = [p \in Ranks |-> [d \in Ranks |-> Received[p][d]]]
    BY DEF Received
  <2>4. Announced = [p \in Ranks |-> [d \in Ranks |-> 0]]
    BY DEF Announced, Init
  <2> HIDE DEF Received
  <2> QED BY <2>2, <2>3, <2>4 DEF Box!Init
<1>2. IInv /\ [Next]_vars => [Box!Next]_<<Received, Announced>>
  <2> SUFFICES ASSUME IInv, [Next]_vars
               PROVE  Box!Next \/ UNCHANGED <<Received, Announced>>
    OBVIOUS
  <2>1. IInv' /\ HeldOK /\ HeldOK'
    <3>1. IInv'
      BY InvNext
    <3>2. HeldOK'
      BY <3>1, HeldFacts, PTL
    <3> QED BY <3>1, <3>2, HeldFacts
  <2>2. CASE UNCHANGED vars
    <3>1. recv' = recv /\ cleared' = cleared /\ ready' = ready
      BY <2>2 DEF vars
    <3>2. HeldSame
      BY <3>1 DEF HeldSame, Held
    <3> QED BY <3>1, <3>2, ReceivedSame DEF Announced
  <2>3. ASSUME NEW q \in Ranks, NEW p \in Ranks, QuietNotify(q, p) PROVE Box!Next
    <3>1. /\ ready[p][q] = freed[q] /\ p # q
          /\ \A c \in Chunk : Held(p, q, c) >= freed[q] + 1
          /\ ready' = [ready EXCEPT ![p][q] = @ + 1] /\ UNCHANGED <<recv, cleared>>
      BY <2>3, SignalledHeld
    <3>2. Received' = Received
      BY <3>1, ReceivedSame DEF HeldSame, Held
    <3>3. Announced' = [Announced EXCEPT ![q][p] = @ + 1]
      <4>1. ready \in [Ranks -> [Ranks -> 0 .. Epochs]]
        BY DEF IInv, TypeOK
      <4> QED BY <3>1, <4>1 DEF Announced
    <3>4. Announced[q][p] < Received[q][p]
      <4>1. PICK c \in Chunk : Received[q][p] = Held(p, q, c)
        BY <2>1, ReceivedFacts DEF ReceivedOK
      <4>2. Held(p, q, c) \in Nat /\ Held(p, q, c) >= freed[q] + 1 /\ freed[q] \in Nat
        BY <2>1, <3>1, Types DEF HeldOK, IInv
      <4>3. Announced[q][p] = freed[q]
        BY <3>1 DEF Announced
      <4> HIDE DEF Received
      <4> QED BY <4>1, <4>2, <4>3
    <3> HIDE DEF Received, Announced
    <3>5. Box!Announce(q, p)
      BY <3>2, <3>3, <3>4 DEF Box!Announce
    <3> QED BY <3>5 DEF Box!Next
  <2>4. ASSUME Next, ready' = ready PROVE Box!Next \/ UNCHANGED <<Received, Announced>>
    <3>1. Announced' = Announced
      BY <2>4 DEF Announced
    <3>2. CASE HeldSame
      BY <3>1, <3>2, ReceivedSame
    <3>3. CASE \E d0, p0 \in Ranks : HeldMoves(d0, p0)
      <4>1. PICK d0 \in Ranks, p0 \in Ranks : HeldMoves(d0, p0)
        BY <3>3
      <4>2. \/ Received' = Received
            \/ Received[p0][d0] < Epochs /\ Received' = [Received EXCEPT ![p0][d0] = @ + 1]
        BY <2>1, <4>1, ReceivedMoves
      <4> HIDE DEF Received, Announced
      <4> QED BY <3>1, <4>2 DEF Box!Next, Box!Deliver
    <3> QED BY <2>1, <2>4, <3>2, <3>3, Advance
  <2>5. Next => ready' = ready \/ \E q, p \in Ranks : QuietNotify(q, p)
    BY DEF Next, ComputeStream, TransferStream, Clear, StartGemm, StoreChunk, FinishGemm, Post, SelfCopy,
           CopyChunk, ReduceChunk, MoveChunk, Land
  <2> QED BY <2>2, <2>3, <2>4, <2>5
<1>3. QED
  BY <1>1, <1>2, Invariance, PTL DEF Spec, ImplementsMailbox, Box!Spec, Box!vars

=============================================================================
