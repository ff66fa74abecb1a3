------------------------------ MODULE StreamA2A ------------------------------
(***************************************************************************)
(* Mode 4 of opus_a2a_gemm_lsa under the three stream schedules.           *)
(*                                                                         *)
(* The host of every rank enqueues, epoch after epoch, the communication   *)
(* kernels on one stream and the GEMM on another (the same stream in the   *)
(* serial schedule), tied together by events.  A stream is an in-order     *)
(* queue, so a program counter and an epoch count describe its state.      *)
(*                                                                         *)
(*   serial    one stream: the GEMM of epoch e ends before e+1 is posted   *)
(*   parallel  two streams: GEMM e overlaps the communication of e+1       *)
(*   intra     as parallel, and the GEMM starts once its local shard is    *)
(*             there and polls for every remote shard by itself            *)
(***************************************************************************)
EXTENDS SdmaFabric, FiniteSets

CONSTANT Schedule   (* "serial", "parallel" or "intra"                     *)

ASSUME ScheduleAssumption == Schedule \in {"serial", "parallel", "intra"}

VARIABLES
  posted,     (* posted[r]: epochs whose PUTs rank r has posted            *)
  cpc,        (* position of the communication stream in epoch posted[r]-1 *)
  told,       (* peers that epoch has been signalled to                    *)
  stage,      (* epochs whose compute-gating event has been recorded       *)
  running,    (* TRUE while the GEMM kernel of epoch done[r] executes      *)
  open,       (* shards at least one workgroup of that GEMM may be reading *)
  done        (* epochs whose GEMM has finished (recv_free recorded)       *)

streams == <<posted, cpc, told, stage, running, open, done>>
vars == <<fabric, streams>>

Init ==
  /\ FabricInit
  /\ posted = [r \in Ranks |-> 0]
  /\ cpc = [r \in Ranks |-> "idle"]
  /\ told = [r \in Ranks |-> {}]
  /\ stage = [r \in Ranks |-> 0]
  /\ running = [r \in Ranks |-> FALSE]
  /\ open = [r \in Ranks |-> {}]
  /\ done = [r \in Ranks |-> 0]

(* The epoch the communication stream of rank r is working on. *)
Current(r) == posted[r] - 1

(***************************************************************************)
(* The communication stream.                                               *)
(***************************************************************************)

(* What orders the post of epoch posted[r] after this rank's earlier work:
   the shared stream in the serial schedule, the recv_free event of the
   epoch that used the slot before in the other two. *)
MayPost_OwnSlotOnly(r) == posted[r] >= 2 => done[r] >= posted[r] - 1
MayPost(r) ==
  IF Schedule = "serial"
  THEN done[r] = posted[r]
  ELSE posted[r] >= 2 => done[r] >= posted[r] - 1

Post(r) ==
  /\ cpc[r] = "idle"
  /\ posted[r] < Epochs
  /\ MayPost(r)
  /\ PostAll(r, posted[r])
  /\ posted' = [posted EXCEPT ![r] = @ + 1]
  /\ cpc' = [cpc EXCEPT ![r] = "copy"]
  /\ told' = [told EXCEPT ![r] = {}]
  /\ UNCHANGED <<recv, ready, stage, running, open, done>>

(* The self copy; the intra schedule records stage_ready right behind it. *)
SelfCopy(r) ==
  /\ cpc[r] = "copy"
  /\ CopySelf(r, Current(r))
  /\ cpc' = [cpc EXCEPT ![r] = "notify"]
  /\ stage' = IF Schedule = "intra" THEN [stage EXCEPT ![r] = @ + 1] ELSE stage
  /\ UNCHANGED <<flight, ready, posted, told, running, open, done>>

(* One wave of the quiet/notify kernel: drain the queue to p, then signal p.
   The last wave ends the kernel. *)
QuietNotify(r, p) ==
  /\ cpc[r] = "notify"
  /\ p \notin told[r]
  /\ Drained(r, p)
  /\ Signal(r, p, Current(r))
  /\ told' = [told EXCEPT ![r] = @ \cup {p}]
  /\ cpc' = IF told'[r] = Peers(r)
            THEN [cpc EXCEPT ![r] = IF Schedule = "intra" THEN "idle" ELSE "await"]
            ELSE cpc
  /\ UNCHANGED <<flight, recv, posted, stage, running, open, done>>

(* The wait-ready kernel has seen every remote source; comm_ready follows. *)
WaitReady(r) ==
  /\ cpc[r] = "await"
  /\ \A p \in Peers(r) : Arrived(r, p, Current(r))
  /\ cpc' = [cpc EXCEPT ![r] = "idle"]
  /\ stage' = [stage EXCEPT ![r] = @ + 1]
  /\ UNCHANGED <<fabric, posted, told, running, open, done>>

(***************************************************************************)
(* The compute stream.                                                     *)
(***************************************************************************)

(* The GEMM starts once the event of its epoch is recorded.  It reads every
   shard without polling, except in the intra schedule, where it starts on
   its local shard. *)
StartGemm(r) ==
  /\ ~running[r]
  /\ done[r] < stage[r]
  /\ running' = [running EXCEPT ![r] = TRUE]
  /\ open' = [open EXCEPT ![r] = IF Schedule = "intra" THEN {r} ELSE Ranks]
  /\ UNCHANGED <<fabric, posted, cpc, told, stage, done>>

(* The first workgroup of an intra GEMM gets past the poll for its next shard;
   shards are taken in rank-rotated order. *)
NextPart(r) == (r + Cardinality(open[r])) % R

OpenShard(r) ==
  /\ running[r]
  /\ open[r] # Ranks
  /\ NextPart(r) # r => Arrived(r, NextPart(r), done[r])
  /\ open' = [open EXCEPT ![r] = @ \cup {NextPart(r)}]
  /\ UNCHANGED <<fabric, posted, cpc, told, stage, running, done>>

(* The last workgroup is through; recv_free is recorded behind the kernel. *)
FinishGemm(r) ==
  /\ running[r]
  /\ open[r] = Ranks
  /\ running' = [running EXCEPT ![r] = FALSE]
  /\ open' = [open EXCEPT ![r] = {}]
  /\ done' = [done EXCEPT ![r] = @ + 1]
  /\ UNCHANGED <<fabric, posted, cpc, told, stage>>

SdmaStep == \E m \in flight : Land(m) /\ UNCHANGED streams

CommStream(r) ==
  \/ Post(r)
  \/ SelfCopy(r)
  \/ \E p \in Peers(r) : QuietNotify(r, p)
  \/ WaitReady(r)

ComputeStream(r) ==
  \/ StartGemm(r)
  \/ OpenShard(r)
  \/ FinishGemm(r)

(* Every epoch of every rank has been computed and every kernel has ended. *)
Finished == \A r \in Ranks : done[r] = Epochs /\ cpc[r] = "idle"

Next ==
  \/ \E r \in Ranks : CommStream(r) \/ ComputeStream(r)
  \/ SdmaStep

Spec == Init /\ [][Next]_vars

(* The hardware queues make progress: a stream whose head can run runs it, and
   the SDMA engines complete what was posted. *)
Fairness ==
  /\ \A r \in Ranks : WF_vars(CommStream(r)) /\ WF_vars(ComputeStream(r))
  /\ WF_vars(SdmaStep)

FairSpec == Spec /\ Fairness

-----------------------------------------------------------------------------

TypeOK ==
  /\ FabricType
  /\ posted \in [Ranks -> Nat]
  /\ cpc \in [Ranks -> {"idle", "copy", "notify", "await"}]
  /\ told \in [Ranks -> SUBSET Ranks]
  /\ stage \in [Ranks -> Nat]
  /\ running \in [Ranks -> BOOLEAN]
  /\ open \in [Ranks -> SUBSET Ranks]
  /\ done \in [Ranks -> Nat]

(* How many of the epochs 0 .. n-1 use slot s. *)
Count(n, s) == (n + 1 - s) \div 2

(* While a GEMM may read a shard, the chunk holds exactly the data of the
   GEMM's epoch and no PUT that could change it is under way.  This is what
   README.md:104-107 asks of recv_free and of the serial stream order. *)
ReadsCurrent ==
  \A r \in Ranks : running[r] =>
    \A p \in open[r] : Holds(r, p, done[r])

(* Under every schedule a GEMM reads its own epoch or, when a source has run
   ahead, the epoch two later: never an older one, never an empty chunk, and
   never anything further ahead. *)
NeverStale ==
  \A r \in Ranks : running[r] =>
    \A p \in open[r] : recv[r][Slot(done[r])][p] \in {done[r], done[r] + 2}

(* A ready counter never runs ahead of the data: when source p has signalled r
   n times on a slot, the slot's chunk holds the n-th epoch of that slot or a
   later one.  The release increment after quietQueue is there for this. *)
SignalAfterData ==
  \A r \in Ranks : \A s \in Slots : \A p \in Peers(r) :
    ready[r][s][p] > 0 =>
      recv[r][s][p] >= 2 * (ready[r][s][p] - 1) + s

(* Once a rank has computed its last epoch, each of its per-slot, per-source
   counters is the number of epochs that used the slot, and its own entry is
   untouched: what validate_sdma_ready_counts then compares with. *)
FinalCounts ==
  \A r \in Ranks : done[r] = Epochs =>
    \A s \in Slots : \A p \in Ranks :
      ready[r][s][p] = IF p = r THEN 0 ELSE Count(Epochs, s)

(* Every rank computes every epoch. *)
Completes == <>Finished

(* The two-slot exchange this is meant to implement. *)
Exchange == INSTANCE SlotExchange
  WITH NumSlots <- 2, sent <- posted, used <- done

ImplementsExchange == Exchange!Spec

(***************************************************************************)
(* The inductive invariant behind ReadsCurrent, NeverStale,                *)
(* SignalAfterData and FinalCounts.  The two counts below are determined   *)
(* by the positions of the streams and by what is in flight; the           *)
(* invariant says what counters and chunks owe to them, and how far one    *)
(* rank's streams can be ahead of another's.                               *)
(***************************************************************************)

(* The epochs rank p has signalled to rank r. *)
Signalled(p, r) ==
  IF cpc[p] = "copy" \/ (cpc[p] = "notify" /\ r \notin told[p])
  THEN posted[p] - 1
  ELSE posted[p]

(* The epochs of rank p whose data has reached rank r. *)
Delivered(p, r) ==
  IF \/ p = r /\ cpc[p] = "copy"
     \/ \E m \in flight : m.src = p /\ m.dst = r
  THEN posted[p] - 1
  ELSE posted[p]

(* The two streams of a rank relative to each other. *)
StreamOrder(r) ==
  /\ posted[r] <= Epochs
  /\ posted[r] <= done[r] + 2
  /\ done[r] <= stage[r]
  /\ running[r] => done[r] < stage[r]
  /\ stage[r] <= posted[r]
  /\ cpc[r] # "idle" => posted[r] >= 1
  /\ cpc[r] = "copy" => told[r] = {} /\ stage[r] = posted[r] - 1
  /\ cpc[r] = "notify" => told[r] # Peers(r)
  /\ told[r] \subseteq Peers(r)
  /\ IF Schedule = "intra"
     THEN cpc[r] # "await" /\ (cpc[r] # "copy" => stage[r] = posted[r])
     ELSE /\ stage[r] = IF cpc[r] = "idle" THEN posted[r] ELSE posted[r] - 1
          /\ running[r] => open[r] = Ranks
  /\ Schedule = "serial" =>
       /\ posted[r] <= done[r] + 1
       /\ cpc[r] # "idle" => ~running[r] /\ posted[r] = done[r] + 1

(* A PUT in flight belongs to its source's current epoch, which the source
   has not signalled yet to that peer. *)
FlightOrder ==
  \A m \in flight :
    /\ m.src # m.dst
    /\ posted[m.src] >= 1
    /\ m.epoch = posted[m.src] - 1
    /\ Signalled(m.src, m.dst) = posted[m.src] - 1

(* A counter is the number of signalled epochs that use its slot. *)
ReadyCounts ==
  \A r \in Ranks : \A s \in Slots :
    /\ ready[r][s][r] = 0
    /\ \A p \in Peers(r) : ready[r][s][p] = Count(Signalled(p, r), s)

(* The two slots hold the last two epochs delivered. *)
RecvHistory ==
  \A r, p \in Ranks : \A k \in {1, 2} :
    Delivered(p, r) >= k =>
      recv[r][Slot(Delivered(p, r) - k)][p] = Delivered(p, r) - k

(* What a rank has seen signalled before it computes. *)
Gated ==
  \A r \in Ranks : \A p \in Peers(r) :
    /\ Signalled(p, r) >= done[r]
    /\ running[r] /\ p \in open[r] => Signalled(p, r) >= done[r] + 1
    /\ Schedule # "intra" => Signalled(p, r) >= stage[r]

IInv ==
  /\ TypeOK
  /\ \A r \in Ranks : StreamOrder(r)
  /\ FlightOrder
  /\ ReadyCounts
  /\ RecvHistory
  /\ Gated

=============================================================================
