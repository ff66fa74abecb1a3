----------------------------- MODULE SdmaFabric -----------------------------
(***************************************************************************)
(* The SDMA transport under the A2A of opus_a2a_gemm_lsa: bulk PUTs that   *)
(* complete asynchronously, the receive window with two slots of one chunk *)
(* per source, and the ready counters a source bumps in its peers' memory. *)
(*                                                                         *)
(* A chunk is abstracted to the epoch whose data it holds.  Epoch e uses   *)
(* slot e & 1.  PUT, quiet and the ready window belong to the mori CCO     *)
(* library; they are modelled from the calls the kernels make.             *)
(* The host accepts four or eight ranks, for which the code's              *)
(* & (rank_count - 1) is % R; nothing here depends on that, and instances  *)
(* with two or three ranks are enough for every interaction of a source, a *)
(* destination and a third rank.                                           *)
(***************************************************************************)
EXTENDS Integers

CONSTANTS
  R,          (* number of ranks                                           *)
  Epochs      (* epochs one run executes (warmup + iters of the host)      *)

ASSUME RAssumption == R \in Nat /\ R >= 2
ASSUME EpochsAssumption == Epochs \in Nat

VARIABLES
  flight,     (* the PUTs posted and not yet landed                        *)
  recv,       (* recv[d][s][p]: epoch held by chunk p of slot s at rank d  *)
  ready       (* ready[d][s][p]: epochs rank p has signalled to d on s     *)

fabric == <<flight, recv, ready>>

Ranks == 0 .. R-1
Slots == 0 .. 1
(* Definitions whose name carries a suffix after an underscore are faulty
   variants of the definition that follows them; the runs use them to see that
   a property notices the fault. *)

(* Every rank but r. *)
Peers(r) == Ranks \ {r}

(* The slot an epoch uses. *)
Slot(e) == e % 2

(* The value of sdma_ready_target[Slot(e)] after epoch e incremented it: the
   number of epochs 0..e that use the slot of e. *)
Target_Early(e) == e \div 2
Target_Late(e) == (e \div 2) + 2
Target(e) == (e \div 2) + 1

(* A chunk nobody has written yet: the window is zeroed at start-up. *)
Empty == -1

Put == [src : Ranks, dst : Ranks, epoch : Nat]

FabricInit ==
  /\ flight = {}
  /\ recv = [d \in Ranks |-> [s \in Slots |-> [p \in Ranks |-> Empty]]]
  /\ ready = [d \in Ranks |-> [s \in Slots |-> [p \in Ranks |-> 0]]]

(* Rank r posts one no-signal PUT per remote peer. *)
PostAll_Before(r, e) ==
  flight' = flight \cup {[src |-> r, dst |-> p, epoch |-> e - 1] : p \in Peers(r)}
PostAll(r, e) ==
  flight' = flight \cup {[src |-> r, dst |-> p, epoch |-> e] : p \in Peers(r)}

(* The device-to-device copy of rank r's own chunk. *)
CopySelf(r, e) ==
  recv' = [recv EXCEPT ![r][Slot(e)][r] = e]

(* quietQueue(p) returns at rank r: nothing r posted to p is in flight. *)
Drained_Skipped(r, p) == TRUE
Drained(r, p) == \A m \in flight : ~(m.src = r /\ m.dst = p)

(* Rank r increments its ready counter in the memory of rank p. *)
Signal_EveryWave(r, p, e) ==
  ready' = [ready EXCEPT ![p][Slot(e)][r] = @ + 2]
Signal(r, p, e) ==
  ready' = [ready EXCEPT ![p][Slot(e)][r] = @ + 1]

(* What a poll of rank r sees once source p has delivered epoch e. *)
Arrived(r, p, e) == ready[r][Slot(e)][p] >= Target(e)

(* An SDMA engine completes PUT m. *)
Land(m) ==
  /\ flight' = flight \ {m}
  /\ recv' = [recv EXCEPT ![m.dst][Slot(m.epoch)][m.src] = m.epoch]
  /\ UNCHANGED ready

(* Chunk p of rank d holds exactly epoch e, and nothing is about to change it. *)
Holds(d, p, e) ==
  /\ recv[d][Slot(e)][p] = e
  /\ \A m \in flight :
       ~(m.dst = d /\ m.src = p /\ Slot(m.epoch) = Slot(e))

FabricType ==
  /\ flight \subseteq Put
  /\ recv \in [Ranks -> [Slots -> [Ranks -> Nat \cup {Empty}]]]
  /\ ready \in [Ranks -> [Slots -> [Ranks -> Nat]]]

=============================================================================
