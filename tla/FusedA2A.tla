------------------------------ MODULE FusedA2A ------------------------------
(***************************************************************************)
(* Mode 4 of opus_a2a_gemm_lsa under the literal fused schedule: one kernel*)
(* per epoch whose block 0 posts the PUTs at entry and, between the K      *)
(* shards of its own tile, drains and signals one peer at a time, while    *)
(* every block polls for the shard it needs next.                          *)
(*                                                                         *)
(* Launches of one rank follow each other in one stream.  Blocks are       *)
(* dispatched in index order as far as Resident of them fit the device;    *)
(* a resident block spins, it is never preempted, so a block that waits    *)
(* for one that is not resident would wait for ever.                       *)
(***************************************************************************)
EXTENDS SdmaFabric, FiniteSets

CONSTANTS
  Blocks,     (* grid size of the kernel                                   *)
  Resident    (* how many blocks the device runs at a time                 *)

ASSUME BlocksAssumption == Blocks \in Nat /\ Blocks >= 1
ASSUME ResidentAssumption == Resident \in Nat /\ Resident >= 1

VARIABLES
  posted,     (* posted[r]: launches of rank r whose block 0 has entered   *)
  copied,     (* epochs whose self copy has completed                      *)
  told,       (* how many peers block 0 has signalled in this launch       *)
  at,         (* at[r][b]: the shard block b of rank r has reached         *)
  done        (* launches that have finished                               *)

kernel == <<posted, copied, told, at, done>>
vars == <<fabric, kernel>>

Block == 0 .. Blocks - 1

(* The block that communicates. *)
Leader_Last == Blocks - 1
Leader == 0

(* A block counts its shards 0 .. R-1.  It is taken to read a shard until it
   is past the poll for the next one. *)
Pending == -1
Ended == R
Busy(r) == {b \in Block : at[r][b] \notin {Pending, Ended}}

Init ==
  /\ FabricInit
  /\ posted = [r \in Ranks |-> 0]
  /\ copied = [r \in Ranks |-> 0]
  /\ told = [r \in Ranks |-> 0]
  /\ at = [r \in Ranks |-> [b \in Block |-> Ended]]
  /\ done = [r \in Ranks |-> 0]

(* The epoch a rank is at, and whether its kernel has been launched. *)
Epoch(r) == done[r]
Launched(r) == copied[r] = done[r] + 1

(* K shards in rank-rotated order, the local one first. *)
Part(r, k) == (r + k) % R

(* The peer block 0 serves after its shard i: the one whose next shard, in its
   own rotation, comes from rank r. *)
Served(r, i) == (r - 1 - i + R) % R

(* The stream copies the local chunk, then launches the kernel. *)
Prepare(r) ==
  /\ ~Launched(r)
  /\ done[r] < Epochs
  /\ CopySelf(r, Epoch(r))
  /\ copied' = [copied EXCEPT ![r] = @ + 1]
  /\ told' = [told EXCEPT ![r] = 0]
  /\ at' = [at EXCEPT ![r] = [b \in Block |-> Pending]]
  /\ UNCHANGED <<flight, ready, posted, done>>

(* Blocks are dispatched in index order while one fits. *)
Precedes(b, c) == b < c

(* Block 0 posts every PUT on entry; all blocks start on the local shard. *)
Dispatch(r, b) ==
  /\ Launched(r)
  /\ at[r][b] = Pending
  /\ \A c \in Block : Precedes(c, b) => at[r][c] # Pending
  /\ Cardinality(Busy(r)) < Resident
  /\ at' = [at EXCEPT ![r][b] = 0]
  /\ IF b = Leader
     THEN PostAll(r, Epoch(r)) /\ posted' = [posted EXCEPT ![r] = @ + 1]
     ELSE UNCHANGED <<flight, posted>>
  /\ UNCHANGED <<recv, ready, copied, told, done>>

(* Block 0 is through with shard i = told[r]: it drains the queue to one peer
   and signals it, after every shard but the last. *)
QuietAndSignal(r) ==
  /\ Launched(r)
  /\ at[r][Leader] = told[r]
  /\ told[r] < R - 1
  /\ Drained(r, Served(r, told[r]))
  /\ Signal(r, Served(r, told[r]), Epoch(r))
  /\ told' = [told EXCEPT ![r] = @ + 1]
  /\ UNCHANGED <<flight, recv, posted, copied, at, done>>

(* A block gets past the poll for its next shard. *)
Advance(r, b) ==
  /\ b \in Busy(r)
  /\ at[r][b] < R - 1
  /\ b = Leader => told[r] = at[r][b] + 1
  /\ Arrived(r, Part(r, at[r][b] + 1), Epoch(r))
  /\ at' = [at EXCEPT ![r][b] = @ + 1]
  /\ UNCHANGED <<fabric, posted, copied, told, done>>

Retire(r, b) ==
  /\ at[r][b] = R - 1
  /\ at' = [at EXCEPT ![r][b] = Ended]
  /\ UNCHANGED <<fabric, posted, copied, told, done>>

FinishKernel(r) ==
  /\ Launched(r)
  /\ \A b \in Block : at[r][b] = Ended
  /\ done' = [done EXCEPT ![r] = @ + 1]
  /\ UNCHANGED <<fabric, posted, copied, told, at>>

SdmaStep == \E m \in flight : Land(m) /\ UNCHANGED kernel

Stream(r) == Prepare(r) \/ FinishKernel(r)

BlockStep(r, b) ==
  \/ Dispatch(r, b)
  \/ b = Leader /\ QuietAndSignal(r)
  \/ Advance(r, b)
  \/ Retire(r, b)

Next ==
  \/ \E r \in Ranks : Stream(r) \/ \E b \in Block : BlockStep(r, b)
  \/ SdmaStep

(* Resident blocks run, the dispatcher fills free places, the stream goes on
   to its next operation and the SDMA engines complete what was posted. *)
Fairness ==
  /\ \A r \in Ranks : WF_vars(Stream(r)) /\ \A b \in Block : WF_vars(BlockStep(r, b))
  /\ WF_vars(SdmaStep)

Spec == Init /\ [][Next]_vars
FairSpec == Spec /\ Fairness

-----------------------------------------------------------------------------

TypeOK ==
  /\ FabricType
  /\ posted \in [Ranks -> Nat]
  /\ copied \in [Ranks -> Nat]
  /\ told \in [Ranks -> 0 .. R - 1]
  /\ at \in [Ranks -> [Block -> Pending .. Ended]]
  /\ done \in [Ranks -> Nat]

(* A block never reads a chunk that is not its launch's epoch or that a PUT may
   be changing, although ranks are a launch apart and no barrier separates
   launches. *)
ReadsCurrent ==
  \A r \in Ranks : \A b \in Busy(r) : Holds(r, Part(r, at[r][b]), Epoch(r))

(* A rank that has finished its last launch finds every counter at the number
   of launches that used the slot (validate_sdma_ready_counts). *)
FinalCounts ==
  \A r \in Ranks : done[r] = Epochs =>
    \A s \in Slots : \A p \in Ranks :
      ready[r][s][p] = IF p = r THEN 0 ELSE (Epochs + 1 - s) \div 2

(* Every launch of every rank ends, however few blocks are resident: the block
   others wait for is the first one dispatched. *)
Completes == <>(\A r \in Ranks : done[r] = Epochs)

Exchange == INSTANCE SlotExchange
  WITH NumSlots <- 2, sent <- posted, used <- done

(* The fused kernel implements the two-slot exchange as the serial one does. *)
ImplementsExchange == Exchange!Spec

=============================================================================
