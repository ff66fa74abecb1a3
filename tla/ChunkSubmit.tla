---------------------------- MODULE ChunkSubmit ----------------------------
(***************************************************************************)
(* How the chunk-fused GEMM of opus_gemm_a2a_lsa finds the last tile of a  *)
(* chunk and posts its PUT: persistent workgroups draw tiles from a        *)
(* counter, count the stored tiles of every (peer, chunk) in chunk_done,   *)
(* and the one that completes a remote chunk submits it to the peer's SDMA *)
(* queue under a spin lock.                                                *)
(*                                                                         *)
(* The build without OPUS_PERSISTENT hands tile ids to workgroups in the   *)
(* same order through the dispatcher.  A definition with a suffix after an *)
(* underscore is a faulty variant of its namesake.                         *)
(***************************************************************************)
EXTENDS Integers, FiniteSets

CONSTANTS
  Workgroups,     (* the persistent workgroups of a launch                 *)
  Launches,       (* epochs the run executes                               *)
  P,              (* peers, this rank included (num_peer_tiles)            *)
  Me,             (* this rank                                             *)
  TilesPerPeer,   (* tile columns of one peer                              *)
  ChunkTiles,     (* tile rows of one chunk (chunk_m_tiles_per_put)        *)
  Groups,         (* chunks per peer (chunk_num_m_tiles)                   *)
  TailColumns     (* tile columns that stay local                          *)

ASSUME ShapeAssumption ==
  /\ {P, TilesPerPeer, ChunkTiles, Groups} \subseteq Nat \ {0}
  /\ {Launches, TailColumns} \subseteq Nat
  /\ Me \in 0 .. P-1

(* The grid has a workgroup for every tile, or for every compute unit. *)
ASSUME WorkgroupsAssumption == IsFiniteSet(Workgroups) /\ Workgroups # {}

VARIABLES
  launched,       (* launches so far                                       *)
  counter,        (* tile_counter                                          *)
  pc, tile,       (* position and tile of every workgroup                  *)
  stored,         (* tiles <<m, n>> of C this launch has stored            *)
  chunkDone,      (* chunk_done[dst][group]                                *)
  lock,           (* chunk_peer_lock[dst]                                  *)
  submitted       (* submitted[dst][group]: PUTs posted since the start    *)

vars == <<launched, counter, pc, tile, stored, chunkDone, lock, submitted>>

Peer == 0 .. P-1
Group == 0 .. Groups-1
TilesM == ChunkTiles * Groups
TilesN == TilesPerPeer * P + TailColumns
ScatterTiles == TilesPerPeer * P * TilesM
TotalTiles == TilesM * TilesN

(***************************************************************************)
(* The tile order: the tiles of a chunk's column are neighbours, chunks of *)
(* different peers alternate, starting with this rank.                     *)
(***************************************************************************)
PeerOf(t) == (((t \div ChunkTiles) % P) + Me) % P
Sequence(t) == (t \div ChunkTiles) \div P
Inner(t) == Sequence(t) % TilesPerPeer
GroupOf_NoInner(t) == Sequence(t) % Groups
GroupOf(t) == Sequence(t) \div TilesPerPeer

Tile(t) ==
  IF t < ScatterTiles
  THEN <<GroupOf(t) * ChunkTiles + (t % ChunkTiles), PeerOf(t) * TilesPerPeer + Inner(t)>>
  ELSE <<(t - ScatterTiles) % TilesM, TilesPerPeer * P + ((t - ScatterTiles) \div TilesM)>>

(* What the PUT of a chunk copies, by its place in the staging slab. *)
ChunkArea(d, g) ==
  {<<m, n>> : m \in g * ChunkTiles .. (g + 1) * ChunkTiles - 1,
              n \in d * TilesPerPeer .. (d + 1) * TilesPerPeer - 1}

(* The peer and the chunk a workgroup counts, from the tile it has stored. *)
Dst(w) == Tile(tile[w])[2] \div TilesPerPeer
Grp(w) == Tile(tile[w])[1] \div ChunkTiles

Zero == [d \in Peer |-> [g \in Group |-> 0]]
Free == [d \in Peer |-> 0]

Init ==
  /\ launched = 0
  /\ counter = 0
  /\ pc = [w \in Workgroups |-> "returned"]
  /\ tile = [w \in Workgroups |-> 0]
  /\ stored = {}
  /\ chunkDone = Zero
  /\ lock = Free
  /\ submitted = Zero

(* The memsets and the launch, once the previous kernel has ended. *)
Cleared_Kept == chunkDone
Cleared == Zero

Launch ==
  /\ launched < Launches
  /\ \A w \in Workgroups : pc[w] = "returned"
  /\ launched' = launched + 1
  /\ counter' = 0
  /\ chunkDone' = Cleared
  /\ lock' = Free
  /\ stored' = {}
  /\ pc' = [w \in Workgroups |-> "fetch"]
  /\ UNCHANGED <<tile, submitted>>

Goto(w, l) == pc' = [pc EXCEPT ![w] = l]

Fetch(w) ==
  /\ pc[w] = "fetch"
  /\ tile' = [tile EXCEPT ![w] = counter]
  /\ counter' = counter + 1
  /\ Goto(w, IF counter < TotalTiles THEN "compute" ELSE "returned")
  /\ UNCHANGED <<launched, stored, chunkDone, lock, submitted>>

(* The tile is computed, its stores are drained and the waves have met. *)
Store(w) ==
  /\ pc[w] = "compute"
  /\ stored' = stored \cup {Tile(tile[w])}
  /\ Goto(w, IF Dst(w) < P THEN "count" ELSE "fetch")
  /\ UNCHANGED <<launched, counter, tile, chunkDone, lock, submitted>>

(* fetch_add on chunk_done; the workgroup that reaches the number of tiles of
   a chunk goes on to submit it, unless the chunk stays on this rank. *)
Required_OneShort == TilesPerPeer * ChunkTiles - 1
Required == TilesPerPeer * ChunkTiles

Count(w) ==
  /\ pc[w] = "count"
  /\ chunkDone' = [chunkDone EXCEPT ![Dst(w)][Grp(w)] = @ + 1]
  /\ Goto(w, IF chunkDone'[Dst(w)][Grp(w)] = Required /\ Dst(w) # Me
             THEN "acquire" ELSE "fetch")
  /\ UNCHANGED <<launched, counter, tile, stored, lock, submitted>>

(* The atomic exchange that finds the lock free; a failed one changes nothing. *)
FoundFree_Ignored(d) == TRUE
FoundFree(d) == lock[d] = 0

Acquire(w) ==
  /\ pc[w] = "acquire"
  /\ FoundFree(Dst(w))
  /\ lock' = [lock EXCEPT ![Dst(w)] = 1]
  /\ Goto(w, "put")
  /\ UNCHANGED <<launched, counter, tile, stored, chunkDone, submitted>>

Submit(w) ==
  /\ pc[w] = "put"
  /\ submitted' = [submitted EXCEPT ![Dst(w)][Grp(w)] = @ + 1]
  /\ Goto(w, "release")
  /\ UNCHANGED <<launched, counter, tile, stored, chunkDone, lock>>

(* The release store that frees the lock. *)
Unlocked_Kept == 1
Unlocked == 0

Release(w) ==
  /\ pc[w] = "release"
  /\ lock' = [lock EXCEPT ![Dst(w)] = Unlocked]
  /\ Goto(w, "fetch")
  /\ UNCHANGED <<launched, counter, tile, stored, chunkDone, submitted>>

Work(w) ==
  \/ Fetch(w)
  \/ Store(w)
  \/ Count(w)
  \/ Acquire(w)
  \/ Submit(w)
  \/ Release(w)

Next == Launch \/ \E w \in Workgroups : Work(w)

Spec == Init /\ [][Next]_vars

(* The stream launches and every resident workgroup runs.  The spin lock needs
   no more than that: its holder releases it without waiting for anybody. *)
FairSpec == Spec /\ WF_vars(Launch) /\ \A w \in Workgroups : WF_vars(Work(w))

-----------------------------------------------------------------------------

TypeOK ==
  /\ launched \in 0 .. Launches
  /\ counter \in 0 .. TotalTiles + Cardinality(Workgroups)
  /\ pc \in [Workgroups -> {"returned", "fetch", "compute", "count", "acquire", "put", "release"}]
  /\ tile \in [Workgroups -> 0 .. TotalTiles + Cardinality(Workgroups)]
  /\ stored \subseteq (0 .. TilesM-1) \X (0 .. TilesN-1)
  /\ chunkDone \in [Peer -> [Group -> 0 .. Required]]
  /\ lock \in [Peer -> 0 .. 1]
  /\ submitted \in [Peer -> [Group -> 0 .. Launches]]

(* The queue of a peer is filled by one workgroup at a time. *)
Submitting(d) == {w \in Workgroups : pc[w] \in {"put", "release"} /\ Dst(w) = d}
QueueExclusive == \A d \in Peer : Cardinality(Submitting(d)) <= 1

(* A chunk is submitted only when every tile inside the area its PUT copies has
   been stored by this launch. *)
SubmitsWhole ==
  \A w \in Workgroups :
    pc[w] \in {"acquire", "put"} => ChunkArea(Dst(w), Grp(w)) \subseteq stored

(* When a launch has ended it has stored the whole of C and submitted every
   chunk of every peer but itself exactly once. *)
LaunchComplete ==
  (\A w \in Workgroups : pc[w] = "returned") /\ launched > 0 =>
    /\ stored = (0 .. TilesM-1) \X (0 .. TilesN-1)
    /\ \A d \in Peer, g \in Group : submitted[d][g] = IF d = Me THEN 0 ELSE launched

(* Every launch ends: nobody spins for ever on a peer's lock. *)
Completes == <>(launched = Launches /\ \A w \in Workgroups : pc[w] = "returned")

=============================================================================
