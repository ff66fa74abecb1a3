------------------------------ MODULE LsaFused ------------------------------
(***************************************************************************)
(* Modes 0 and 3 of opus_a2a_gemm_lsa: the communication that mode 0 does  *)
(* in one launch with the GEMM and mode 3 in a launch before it.           *)
(*                                                                         *)
(* The first CommWGs workgroups of a launch copy the local shard to every  *)
(* peer, each its share of it, and count themselves in the peer's ready    *)
(* counter; the other workgroups compute output tiles and poll, before     *)
(* each remote K shard, until all CommWGs shares have been counted.  Split *)
(* off, the GEMM does not poll: the hosts meet between the two launches.   *)
(* Between launches every rank clears its windows and meets the others,    *)
(* once before and once after the launch.  The code has four or eight      *)
(* ranks, for which its & (rank_count - 1) is the % R used here.           *)
(* A definition with a suffix after an underscore is a faulty variant of   *)
(* its namesake.                                                           *)
(***************************************************************************)
EXTENDS Integers, FiniteSets

CONSTANTS
  R,            (* number of ranks                                         *)
  CommWGs,      (* communication workgroups of a launch (--comm-wgs)       *)
  Tasks,        (* output tiles                                            *)
  Persistent,   (* compute workgroups of a launch that draw their tiles    *)
  Policies,     (* how a run may be started: mode 0 with static or with    *)
                (* persistent tiles, or mode 3, "split"                    *)
  Resident,     (* workgroups the device runs at a time                    *)
  Launches      (* launches of the run                                     *)

ASSUME SizeAssumption ==
  /\ {R, CommWGs, Tasks, Persistent, Resident} \subseteq Nat \ {0}
  /\ R >= 2 /\ Launches \in Nat
ASSUME GridAssumption ==
  /\ Persistent <= Tasks
  /\ Policies \subseteq {"static", "persistent", "split"}

Ranks == 0 .. R-1
Comm == 0 .. CommWGs-1
VARIABLES
  policy,       (* how this run was started                                *)
  host,         (* host[r]: "clear", "meet", "run", then, if split,        *)
                (* "exchanged" and "compute", then "leave"                 *)
  launches,     (* launches rank r has finished                            *)
  recv,         (* recv[d][p][c]: launch whose share c of p's shard d holds *)
  ready,        (* ready[d][p]: the shares p has counted at d              *)
  comm,         (* progress of a communication workgroup: two steps a peer *)
  task, shard,  (* tile and K shard of a compute workgroup                 *)
  counter,      (* tile_counter                                            *)
  computed      (* computed[r][t]: times this launch has computed tile t   *)

device == <<comm, task, shard, counter, computed>>
vars == <<policy, host, launches, recv, ready, device>>

(* A launch has one compute workgroup for every tile, or fewer that draw
   further tiles from tile_counter. *)
Drawing == policy = "persistent"
Split == policy = "split"
Workers == IF Drawing THEN Persistent ELSE Tasks
Worker == 0 .. Tasks-1

Pending == -1
CommEnd == 2 * (R - 1)
ShardEnd == R

(* The peer of a workgroup's i-th step, i counted from 0: workgroups start at
   different peers. *)
Peer(r, c, i) == (r - (1 + ((i + c) % (R - 1))) + R) % R

(* K shards in rank-rotated order, the local one first. *)
Part(r, k) == (r + k) % R

Init ==
  /\ policy \in Policies
  /\ host = [r \in Ranks |-> "clear"]
  /\ launches = [r \in Ranks |-> 0]
  /\ recv = [d \in Ranks |-> [p \in Ranks |-> [c \in Comm |-> 0]]]
  /\ ready = [d \in Ranks |-> [p \in Ranks |-> 0]]
  /\ comm = [r \in Ranks |-> [c \in Comm |-> CommEnd]]
  /\ task = [r \in Ranks |-> [w \in Worker |-> w]]
  /\ shard = [r \in Ranks |-> [w \in Worker |-> ShardEnd]]
  /\ counter = [r \in Ranks |-> 0]
  /\ computed = [r \in Ranks |-> [t \in 0 .. Tasks-1 |-> 0]]

(***************************************************************************)
(* The host of a rank.                                                     *)
(***************************************************************************)

(* clear_for_launch up to its barrier: the windows are zeroed, the local shard
   is copied in, tile_counter starts behind the tiles handed out statically. *)
FirstDrawn_Zero == 0
FirstDrawn == Workers

Clear(r) ==
  /\ host[r] = "clear"
  /\ launches[r] < Launches
  /\ recv' = [recv EXCEPT ![r] = [p \in Ranks |->
                 [c \in Comm |-> IF p = r THEN launches[r] + 1 ELSE 0]]]
  /\ ready' = [ready EXCEPT ![r] = [p \in Ranks |-> 0]]
  /\ counter' = [counter EXCEPT ![r] = FirstDrawn]
  /\ computed' = [computed EXCEPT ![r] = [t \in 0 .. Tasks-1 |-> 0]]
  /\ host' = [host EXCEPT ![r] = "meet"]
  /\ UNCHANGED <<policy, launches, comm, task, shard>>

(* ccoBarrierAll: rank r leaves its n-th barrier when all have entered theirs. *)
Meetings == IF Split THEN 3 ELSE 2
Entered(r) ==
  Meetings * launches[r] + CASE host[r] = "clear" -> 0
                             [] host[r] \in {"meet", "run"} -> 1
                             [] host[r] \in {"exchanged", "compute"} -> 2
                             [] host[r] = "leave" -> Meetings
AllMet_Skipped(r) == TRUE
AllMet(r) == \A p \in Ranks : Entered(p) >= Entered(r)

LaunchGemm(r) ==
  /\ task' = [task EXCEPT ![r] = [w \in Worker |-> w]]
  /\ shard' = [shard EXCEPT ![r] =
                [w \in Worker |-> IF w < Workers THEN Pending ELSE ShardEnd]]

Launch(r) ==
  /\ host[r] = "meet"
  /\ AllMet(r)
  /\ comm' = [comm EXCEPT ![r] = [c \in Comm |-> Pending]]
  /\ IF Split THEN UNCHANGED <<task, shard>> ELSE LaunchGemm(r)
  /\ host' = [host EXCEPT ![r] = "run"]
  /\ UNCHANGED <<policy, launches, recv, ready, counter, computed>>

(* Mode 3: between the two launches the device has drained and the hosts meet. *)
LaunchCompute(r) ==
  /\ host[r] = "exchanged"
  /\ AllMet(r)
  /\ LaunchGemm(r)
  /\ host' = [host EXCEPT ![r] = "compute"]
  /\ UNCHANGED <<policy, launches, recv, ready, comm, counter, computed>>

Synchronize(r) ==
  /\ host[r] \in {"run", "compute"}
  /\ \A c \in Comm : comm[r][c] = CommEnd
  /\ \A w \in Worker : shard[r][w] = ShardEnd
  /\ host' = [host EXCEPT ![r] = IF Split /\ @ = "run" THEN "exchanged" ELSE "leave"]
  /\ UNCHANGED <<policy, launches, recv, ready, device>>

Leave(r) ==
  /\ host[r] = "leave"
  /\ AllMet(r)
  /\ launches' = [launches EXCEPT ![r] = @ + 1]
  /\ host' = [host EXCEPT ![r] = "clear"]
  /\ UNCHANGED <<policy, recv, ready, device>>

(***************************************************************************)
(* Workgroups, dispatched in index order while they fit the device.        *)
(***************************************************************************)

Busy(r) ==
  Cardinality({c \in Comm : comm[r][c] \notin {Pending, CommEnd}})
  + Cardinality({w \in Worker : shard[r][w] \notin {Pending, ShardEnd}})

CommFirst_Reversed(r) == TRUE
CommFirst(r) == \A c \in Comm : comm[r][c] # Pending

DispatchComm(r, c) ==
  /\ comm[r][c] = Pending
  /\ \A b \in Comm : b < c => comm[r][b] # Pending
  /\ Busy(r) < Resident
  /\ comm' = [comm EXCEPT ![r][c] = 0]
  /\ UNCHANGED <<policy, host, launches, recv, ready, task, shard, counter, computed>>

DispatchWorker(r, w) ==
  /\ shard[r][w] = Pending
  /\ CommFirst(r)
  /\ \A v \in Worker : v < w => shard[r][v] # Pending
  /\ Busy(r) < Resident
  /\ shard' = [shard EXCEPT ![r][w] = 0]
  /\ UNCHANGED <<policy, host, launches, recv, ready, comm, task, counter, computed>>

(* A communication workgroup stores its share at the peer, waits for the
   stores, and then counts itself there. *)
Target(r, c) == Peer(r, c, comm[r][c] \div 2)
Storing(r, c) == comm[r][c] \in 0 .. CommEnd-1 /\ comm[r][c] % 2 = 0
Counting(r, c) == comm[r][c] \in 0 .. CommEnd-1 /\ comm[r][c] % 2 = 1

CopyShare(r, c) ==
  /\ Storing(r, c)
  /\ recv' = [recv EXCEPT ![Target(r, c)][r][c] = launches[r] + 1]
  /\ comm' = [comm EXCEPT ![r][c] = @ + 1]
  /\ UNCHANGED <<policy, host, launches, ready, task, shard, counter, computed>>

CountShare(r, c) ==
  /\ Counting(r, c)
  /\ ready' = [ready EXCEPT ![Target(r, c)][r] = @ + 1]
  /\ comm' = [comm EXCEPT ![r][c] = @ + 1]
  /\ UNCHANGED <<policy, host, launches, recv, task, shard, counter, computed>>

(* A compute workgroup gets past the poll for its next shard; split off, it
   does not poll. *)
InputReady_AnyShare(r, p) == Split \/ ready[r][p] >= 1
InputReady(r, p) == Split \/ ready[r][p] >= CommWGs

NextShard(r, w) ==
  /\ shard[r][w] \in 0 .. R-2
  /\ InputReady(r, Part(r, shard[r][w] + 1))
  /\ shard' = [shard EXCEPT ![r][w] = @ + 1]
  /\ UNCHANGED <<policy, host, launches, recv, ready, comm, task, counter, computed>>

(* The tile is stored.  A persistent workgroup draws the next one. *)
FinishTask(r, w) ==
  /\ shard[r][w] = R - 1
  /\ computed' = [computed EXCEPT ![r][task[r][w]] = @ + 1]
  /\ IF Drawing
     THEN /\ counter' = [counter EXCEPT ![r] = @ + 1]
          /\ task' = [task EXCEPT ![r][w] = counter[r]]
          /\ shard' = [shard EXCEPT ![r][w] = IF counter[r] < Tasks THEN 0 ELSE ShardEnd]
     ELSE /\ shard' = [shard EXCEPT ![r][w] = ShardEnd]
          /\ UNCHANGED <<task, counter>>
  /\ UNCHANGED <<policy, host, launches, recv, ready, comm>>

Host(r) == Clear(r) \/ Launch(r) \/ LaunchCompute(r) \/ Synchronize(r) \/ Leave(r)
CommWG(r, c) == DispatchComm(r, c) \/ CopyShare(r, c) \/ CountShare(r, c)
ComputeWG(r, w) == DispatchWorker(r, w) \/ NextShard(r, w) \/ FinishTask(r, w)

Next ==
  \E r \in Ranks :
    \/ Host(r)
    \/ \E c \in Comm : CommWG(r, c)
    \/ \E w \in Worker : ComputeWG(r, w)

Spec == Init /\ [][Next]_vars

(* The hosts go on, the dispatcher fills free places, resident workgroups run. *)
Fairness ==
  \A r \in Ranks :
    /\ WF_vars(Host(r))
    /\ \A c \in Comm : WF_vars(CommWG(r, c))
    /\ \A w \in Worker : WF_vars(ComputeWG(r, w))

FairSpec == Spec /\ Fairness

-----------------------------------------------------------------------------

TypeOK ==
  /\ policy \in Policies
  /\ host \in [Ranks -> {"clear", "meet", "run", "exchanged", "compute", "leave"}]
  /\ launches \in [Ranks -> 0 .. Launches]
  /\ recv \in [Ranks -> [Ranks -> [Comm -> 0 .. Launches]]]
  /\ ready \in [Ranks -> [Ranks -> 0 .. CommWGs]]
  /\ comm \in [Ranks -> [Comm -> Pending .. CommEnd]]
  /\ task \in [Ranks -> [Worker -> 0 .. Tasks + Workers]]
  /\ shard \in [Ranks -> [Worker -> Pending .. ShardEnd]]
  /\ counter \in [Ranks -> 0 .. Tasks + Workers]
  /\ computed \in [Ranks -> [0 .. Tasks-1 -> 0 .. 1]]

(* A workgroup that is past the poll for a shard finds every share of it in the
   window, stored by its own launch: a count left over from another launch, or
   one that overtakes its data, would let it through too early. *)
ReadsWhole ==
  \A r \in Ranks, w \in Worker :
    shard[r][w] \in 0 .. R-1 =>
      \A k \in 0 .. shard[r][w], c \in Comm :
        recv[r][Part(r, k)][c] = launches[r] + 1

(* A finished launch has computed every tile exactly once, and every peer has
   counted each of its shares exactly once. *)
LaunchComplete ==
  \A r \in Ranks : host[r] = "leave" =>
    /\ \A t \in 0 .. Tasks-1 : computed[r][t] = 1
    /\ \A p \in Ranks \ {r} : ready[r][p] = CommWGs

(* Every launch of every rank ends, however few workgroups are resident. *)
Completes == <>(\A r \in Ranks : launches[r] = Launches)

=============================================================================
