---------------------------- MODULE SlotExchange ----------------------------
(***************************************************************************)
(* What a double-buffered all-to-all promises to the GEMM that consumes it.*)
(*                                                                         *)
(* Every rank produces one shard per epoch for every other rank and every  *)
(* rank consumes one shard of each producer per epoch.  Between a producer *)
(* and a consumer there are NumSlots slots: a producer may start writing   *)
(* an epoch only when every consumer is through with the epoch that last   *)
(* used the slot, and a consumer uses an epoch only when every producer    *)
(* has produced it.                                                        *)
(***************************************************************************)
EXTENDS Integers

CONSTANTS
  Ranks,      (* the ranks of the exchange                                 *)
  Epochs,     (* how many epochs the run executes                          *)
  NumSlots    (* the depth of each producer-consumer buffer                *)

VARIABLES
  sent,       (* sent[r]: the epochs rank r has started to write           *)
  used        (* used[r]: the epochs rank r has finished consuming         *)

vars == <<sent, used>>

Init ==
  /\ sent = [r \in Ranks |-> 0]
  /\ used = [r \in Ranks |-> 0]

Publish(r) ==
  /\ sent[r] < Epochs
  /\ \A p \in Ranks \ {r} : sent[r] < used[p] + NumSlots
  /\ sent' = [sent EXCEPT ![r] = @ + 1]
  /\ UNCHANGED used

Consume(r) ==
  /\ \A p \in Ranks : used[r] < sent[p]
  /\ used' = [used EXCEPT ![r] = @ + 1]
  /\ UNCHANGED sent

Next == \E r \in Ranks : Publish(r) \/ Consume(r)

Spec == Init /\ [][Next]_vars

=============================================================================
