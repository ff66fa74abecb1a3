------------------------------ MODULE GemmA2A ------------------------------
(***************************************************************************)
(* The output modes of opus_gemm_a2a_lsa.                                  *)
(*                                                                         *)
(* In the SDMA modes a GEMM writes its result into a staging slot, and     *)
(* SDMA engines copy each peer's slab from there into the peer's only      *)
(* receive buffer.  In the LSA modes the workgroups store into the peers'  *)
(* buffers themselves: those of the GEMM (--output-mode direct), or those  *)
(* of a copy kernel behind it (split-lsa).  Nothing is signalled then.     *)
(* So it is in opus_gemm_mem_gemm_a2a (reduce), where the GEMM leaves      *)
(* partial sums and the kernel that adds them up stores into the peers'    *)
(* buffers; there every rank clears its buffers before each round, and all *)
(* ranks meet before and after the kernels.                                *)
(*                                                                         *)
(* A slab is moved as Chunks PUTs.  In the bulk modes (--output-mode sdma, *)
(* one PUT per slab or several with --sdma-post-m-tiles) a kernel posts    *)
(* them all after the GEMM.  In the chunk-fused mode (chunk-sdma) the GEMM *)
(* posts a chunk itself as soon as the chunk's tiles are stored.           *)
(* Overlapped is the parallel schedule: two streams, two staging slots.    *)
(* A chunk is abstracted to the epoch whose result it holds; how the last  *)
(* tile of a chunk is found is the subject of ChunkSubmit.  A definition   *)
(* with a suffix after an underscore is a faulty variant of its namesake.  *)
(***************************************************************************)
EXTENDS Integers, Sequences, FiniteSetsExt, SequencesExt

CONSTANTS
  R,          (* number of ranks                                           *)
  Epochs,     (* epochs one run executes                                   *)
  Chunks,     (* PUTs a slab is moved with                                 *)
  Modes       (* modes a run may be started in                             *)

ASSUME RAssumption == R \in Nat /\ R >= 2
ASSUME EpochsAssumption == Epochs \in Nat
ASSUME ChunksAssumption == Chunks \in Nat /\ Chunks >= 1
ASSUME ModeAssumption ==
  Modes \subseteq {"bulk", "chunk"} \X {"serial", "parallel"} \cup {"direct", "split", "reduce"} \X {"serial"}

Ranks == 0 .. R-1
Chunk == 0 .. Chunks-1
Slots == 0 .. 1

VARIABLES
  mode,       (* output mode and schedule of this run                      *)
  started,    (* started[r]: epochs whose GEMM has started                 *)
  running,    (* TRUE while the GEMM of epoch started[r]-1 executes        *)
  stored,     (* the chunks <<destination, chunk>> it has stored           *)
  staging,    (* staging[r][s][d][c]: epoch held by that chunk of slot s   *)
  queue,      (* queue[r][d]: PUTs posted to d and not landed, in order    *)
  recv,       (* recv[d][p][c]: epoch held by that chunk of rank d's window*)
  ready,      (* ready[d][p]: epochs p has signalled to d                  *)
  pc,         (* position of the transfer stream in epoch freed[r]         *)
  told,       (* peers that epoch has been signalled to; or, if split, the *)
              (* chunks the copy kernel has copied                         *)
  freed,      (* epochs transferred (slot_free recorded)                   *)
  cleared     (* epochs the buffers have been cleared for (reduce only)    *)

gemm == <<started, running, stored, staging>>
transfer == <<pc, told, freed>>
vars == <<mode, gemm, queue, recv, ready, transfer, cleared>>

Empty == -1
Peers(r) == Ranks \ {r}

Bulk == mode[1] = "bulk"
Fused == mode[1] = "chunk"
Direct == mode[1] = "direct"
SplitLsa == mode[1] = "split"
Reducing == mode[1] = "reduce"
UsesSdma == Bulk \/ Fused
Overlapped == mode[2] = "parallel"

(* Two slots, alternating by epoch; a serial chunk-fused run keeps to one, and
   the split LSA mode has only one, as the reduction has one workspace. *)
Slot(e) == IF Overlapped \/ Bulk THEN e % 2 ELSE 0

Init ==
  /\ mode \in Modes
  /\ started = [r \in Ranks |-> 0]
  /\ running = [r \in Ranks |-> FALSE]
  /\ stored = [r \in Ranks |-> {}]
  /\ staging = [r \in Ranks |-> [s \in Slots |-> [d \in Ranks |-> [c \in Chunk |-> Empty]]]]
  /\ queue = [r \in Ranks |-> [d \in Ranks |-> <<>>]]
  /\ recv = [d \in Ranks |-> [p \in Ranks |-> [c \in Chunk |-> Empty]]]
  /\ ready = [d \in Ranks |-> [p \in Ranks |-> 0]]
  /\ pc = [r \in Ranks |-> "idle"]
  /\ told = [r \in Ranks |-> {}]
  /\ freed = [r \in Ranks |-> 0]
  /\ cleared = [r \in Ranks |-> 0]

(* The epoch being computed, and how many have been staged (stage_ready). *)
Computing_Previous(r) == started[r] - 2
Computing(r) == started[r] - 1
Staged(r) == IF running[r] THEN started[r] - 1 ELSE started[r]

(***************************************************************************)
(* The compute stream.                                                     *)
(***************************************************************************)

(* What orders the GEMM of epoch started[r] after the transfer that last used
   its slot: the slot_free event, or the shared stream. *)
MayStart_NoWait(r) == Overlapped \/ freed[r] = started[r]
MayStart_OwnEpoch(r) ==
  IF Overlapped
  THEN started[r] >= 2 => freed[r] >= started[r] + 1
  ELSE freed[r] > started[r]
MayStart(r) ==
  IF Overlapped
  THEN started[r] >= 2 => freed[r] >= started[r] - 1
  ELSE freed[r] = started[r]

(* clear_buffers, once all ranks have met behind the kernels of the last round. *)
Met(r) == \A p \in Ranks : freed[p] >= cleared[r]

Clear(r) ==
  /\ Reducing
  /\ cleared[r] = freed[r]
  /\ cleared[r] < Epochs
  /\ Met(r)
  /\ cleared' = [cleared EXCEPT ![r] = @ + 1]
  /\ recv' = [recv EXCEPT ![r] = [p \in Ranks |-> [c \in Chunk |-> Empty]]]
  /\ staging' = [staging EXCEPT ![r] = [s \in Slots |-> [d \in Ranks |-> [c \in Chunk |-> Empty]]]]
  /\ UNCHANGED <<mode, started, running, stored, queue, ready, transfer>>

(* The kernels of a round follow when all have cleared. *)
AllCleared_Own(r) == Reducing => cleared[r] > started[r]
AllCleared(r) == Reducing => \A p \in Ranks : cleared[p] > started[r]

StartGemm(r) ==
  /\ ~running[r]
  /\ started[r] < Epochs
  /\ MayStart(r)
  /\ AllCleared(r)
  /\ started' = [started EXCEPT ![r] = @ + 1]
  /\ running' = [running EXCEPT ![r] = TRUE]
  /\ stored' = [stored EXCEPT ![r] = {}]
  /\ UNCHANGED <<mode, staging, queue, recv, ready, transfer, cleared>>

(* The PUT of chunk c, first in first out on the queue to its destination. *)
Put(e, c) == [epoch |-> e, chunk |-> c]

(* The chunks a GEMM stores.  The local slab is not put, so it counts as one. *)
Pieces(r) == (Peers(r) \X Chunk) \cup {<<r, 0>>}

(* A slab with chunk c of it, or all of the local one, from epoch e. *)
WithChunk(slab, local, c, e) == [x \in Chunk |-> IF x = c \/ local THEN e ELSE slab[x]]

(* The last tile of a chunk is stored; in the fused mode the workgroup that
   stored it posts the PUT of a remote chunk. *)
StoreChunk(r, d, c) ==
  /\ running[r]
  /\ <<d, c>> \notin stored[r]
  /\ stored' = [stored EXCEPT ![r] = @ \cup {<<d, c>>}]
  /\ IF Direct
     THEN /\ recv' = [recv EXCEPT ![d][r] = WithChunk(@, d = r, c, Computing(r))]
          /\ UNCHANGED staging
     ELSE /\ staging' = [staging EXCEPT ![r][Slot(Computing(r))][d] =
                           WithChunk(@, d = r, c, Computing(r))]
          /\ UNCHANGED recv
  /\ queue' = IF Fused /\ d # r
              THEN [queue EXCEPT ![r][d] = Append(@, Put(Computing(r), c))]
              ELSE queue
  /\ UNCHANGED <<mode, started, running, ready, transfer, cleared>>

FinishGemm(r) ==
  /\ running[r]
  /\ stored[r] = Pieces(r)
  /\ running' = [running EXCEPT ![r] = FALSE]
  /\ freed' = IF Direct THEN [freed EXCEPT ![r] = @ + 1] ELSE freed
  /\ UNCHANGED <<mode, started, stored, staging, queue, recv, ready, pc, told, cleared>>

(***************************************************************************)
(* The transfer stream: post (bulk modes), self copy, quiet and notify; or *)
(* the copy kernel of the split LSA mode.                                  *)
(***************************************************************************)

(* One wave per peer posts the chunks of the peer's slab, first to last. *)
Posts_FirstOnly(e) == <<Put(e, 0)>>
Posts(e) == [i \in 1 .. Chunks |-> Put(e, i - 1)]

Post(r) ==
  /\ Bulk
  /\ pc[r] = "idle"
  /\ freed[r] < Staged(r)
  /\ queue' = [queue EXCEPT ![r] = [d \in Ranks |->
                 IF d = r THEN @[d] ELSE @[d] \o Posts(freed[r])]]
  /\ pc' = [pc EXCEPT ![r] = "copy"]
  /\ UNCHANGED <<mode, gemm, recv, ready, told, freed, cleared>>

SelfCopy(r) ==
  /\ UsesSdma
  /\ IF Fused THEN pc[r] = "idle" /\ freed[r] < Staged(r) ELSE pc[r] = "copy"
  /\ recv' = [recv EXCEPT ![r][r] = staging[r][Slot(freed[r])][r]]
  /\ pc' = [pc EXCEPT ![r] = "notify"]
  /\ told' = [told EXCEPT ![r] = {}]
  /\ UNCHANGED <<mode, gemm, queue, ready, freed, cleared>>

(* quietQueue(p) returns: what was in the queue when it was called has landed.
   PUTs of a later epoch may have been posted meanwhile. *)
Drained_Skipped(r, p) == TRUE
Drained(r, p) == \A i \in DOMAIN queue[r][p] : queue[r][p][i].epoch > freed[r]

QuietNotify(r, p) ==
  /\ pc[r] = "notify"
  /\ p \in Peers(r) \ told[r]
  /\ Drained(r, p)
  /\ ready' = [ready EXCEPT ![p][r] = @ + 1]
  /\ told' = [told EXCEPT ![r] = @ \cup {p}]
  /\ IF told'[r] = Peers(r)
     THEN /\ pc' = [pc EXCEPT ![r] = "idle"]
          /\ freed' = [freed EXCEPT ![r] = @ + 1]
     ELSE UNCHANGED <<pc, freed>>
  /\ UNCHANGED <<mode, gemm, queue, recv, cleared>>

(* Workgroups of the copy kernel have copied a chunk, or those of the reduction
   have added its partial sums up; the local slab is included. *)
AllChunks == Ranks \X Chunk

MoveChunk(r, d, c) ==
  /\ freed[r] < Staged(r)
  /\ <<d, c>> \notin told[r]
  /\ recv' = [recv EXCEPT ![d][r][c] = staging[r][Slot(freed[r])][d][c]]
  /\ IF told[r] \cup {<<d, c>>} = AllChunks
     THEN /\ told' = [told EXCEPT ![r] = {}]
          /\ freed' = [freed EXCEPT ![r] = @ + 1]
     ELSE /\ told' = [told EXCEPT ![r] = @ \cup {<<d, c>>}]
          /\ UNCHANGED freed
  /\ UNCHANGED <<mode, gemm, queue, ready, pc, cleared>>

CopyChunk(r, d, c) == SplitLsa /\ MoveChunk(r, d, c)
ReduceChunk(r, d, c) == Reducing /\ MoveChunk(r, d, c)

(* The SDMA engine completes the oldest PUT from r to d: it copies what the
   staging slot holds at that moment. *)
Source(r, d, m) == staging[r][Slot(m.epoch)][d][m.chunk]

Land(r, d) ==
  /\ queue[r][d] # <<>>
  /\ LET m == Head(queue[r][d])
     IN recv' = [recv EXCEPT ![d][r][m.chunk] = Source(r, d, m)]
  /\ queue' = [queue EXCEPT ![r][d] = Tail(@)]
  /\ UNCHANGED <<mode, gemm, ready, transfer, cleared>>

ComputeStream(r) ==
  \/ Clear(r)
  \/ StartGemm(r)
  \/ \E x \in Pieces(r) : StoreChunk(r, x[1], x[2])
  \/ FinishGemm(r)

TransferStream(r) ==
  \/ Post(r)
  \/ SelfCopy(r)
  \/ \E p \in Ranks : QuietNotify(r, p)
  \/ \E x \in AllChunks : CopyChunk(r, x[1], x[2]) \/ ReduceChunk(r, x[1], x[2])

Next ==
  \E r \in Ranks :
    \/ ComputeStream(r)
    \/ TransferStream(r)
    \/ \E d \in Ranks : Land(r, d)

Spec == Init /\ [][Next]_vars

(* The heads of the streams run when they can, and every SDMA queue moves. *)
Fairness ==
  \A r \in Ranks :
    /\ WF_vars(ComputeStream(r))
    /\ WF_vars(TransferStream(r))
    /\ \A d \in Ranks : WF_vars(Land(r, d))

FairSpec == Spec /\ Fairness

-----------------------------------------------------------------------------

Epoch == 0 .. Epochs - 1
Puts == [epoch : Epoch, chunk : Chunk]
Slab == [Chunk -> Epoch \cup {Empty}]

TypeOK ==
  /\ mode \in Modes
  /\ started \in [Ranks -> 0 .. Epochs]
  /\ running \in [Ranks -> BOOLEAN]
  /\ stored \in [Ranks -> SUBSET AllChunks]
  /\ staging \in [Ranks -> [Slots -> [Ranks -> Slab]]]
  /\ queue \in [Ranks -> [Ranks -> Seq(Puts)]]
  /\ recv \in [Ranks -> [Ranks -> Slab]]
  /\ ready \in [Ranks -> [Ranks -> 0 .. Epochs]]
  /\ pc \in [Ranks -> {"idle", "copy", "notify"}]
  /\ told \in [Ranks -> SUBSET (IF SplitLsa \/ Reducing THEN AllChunks ELSE Ranks)]
  /\ freed \in [Ranks -> 0 .. Epochs]
  /\ cleared \in [Ranks -> 0 .. Epochs]

(* A PUT that has not landed always reads the result of its own epoch from the
   staging slot, and no GEMM is rewriting the chunk: slot_free is recorded
   behind the quiet of the epoch that used the slot. *)
SourceStable ==
  \A r, d \in Ranks : \A m \in ToSet(queue[r][d]) :
    /\ Source(r, d, m) = m.epoch
    /\ running[r] /\ Slot(Computing(r)) = Slot(m.epoch) => <<d, m.chunk>> \in stored[r]

(* The host stops, meets the others at MPI_Barrier and then validates.  When
   every rank has come that far, every window holds the last epoch throughout
   and, where epochs are signalled, every remote counter equals their number. *)
AllStopped == \A r \in Ranks : freed[r] = Epochs

FinalOutput ==
  AllStopped =>
    \A d, p \in Ranks :
      /\ \A c \in Chunk : recv[d][p][c] = Epochs - 1
      /\ UsesSdma /\ p # d => ready[d][p] = Epochs

(* A chunk of a receive window never goes back to an older epoch, although in
   the overlapped fused mode the PUTs of two epochs share a queue; and it is only
   cleared when it holds the last epoch the window was cleared for. *)
NeverBackwards ==
  [][\A d, p \in Ranks : \A c \in Chunk :
       \/ recv'[d][p][c] >= recv[d][p][c]
       \/ cleared'[d] # cleared[d] /\ recv[d][p][c] = cleared[d] - 1]_vars

(* Every rank transfers every epoch. *)
Completes == <>AllStopped

(* The in-order mailbox this is meant to implement: a slab counts as delivered
   when its last chunk is, and stays so when the window is cleared. *)
Held(d, p, c) == IF recv[d][p][c] = Empty /\ cleared[d] > 0 THEN cleared[d] - 1 ELSE recv[d][p][c] + 1
Received == [p \in Ranks |-> [d \in Ranks |-> Min({Held(d, p, c) : c \in Chunk})]]
Announced == [p \in Ranks |-> [d \in Ranks |-> ready[d][p]]]

Box == INSTANCE Mailbox WITH delivered <- Received, announced <- Announced
ImplementsMailbox == Box!Spec

=============================================================================
