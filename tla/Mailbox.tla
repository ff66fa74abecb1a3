------------------------------ MODULE Mailbox ------------------------------
(***************************************************************************)
(* What an all-to-all into a single receive window promises.               *)
(*                                                                         *)
(* Every source owns one chunk of every destination's window.  It replaces *)
(* the chunk's contents epoch by epoch, in order and without skipping one, *)
(* and announces an epoch only after the chunk holds it.  Nothing stops it *)
(* from replacing what nobody has looked at: a destination may use a chunk *)
(* only when it knows that its source has stopped.                         *)
(***************************************************************************)
EXTENDS Integers

CONSTANTS
  Ranks,        (* the ranks of the exchange                               *)
  Epochs        (* how many epochs the run executes                        *)

VARIABLES
  delivered,    (* delivered[p][d]: epochs of p that rank d has received   *)
  announced     (* announced[p][d]: epochs p has told d of                 *)

vars == <<delivered, announced>>

Init ==
  /\ delivered = [p \in Ranks |-> [d \in Ranks |-> 0]]
  /\ announced = [p \in Ranks |-> [d \in Ranks |-> 0]]

Deliver(p, d) ==
  /\ delivered[p][d] < Epochs
  /\ delivered' = [delivered EXCEPT ![p][d] = @ + 1]
  /\ UNCHANGED announced

Announce(p, d) ==
  /\ announced[p][d] < delivered[p][d]
  /\ announced' = [announced EXCEPT ![p][d] = @ + 1]
  /\ UNCHANGED delivered

Next == \E p, d \in Ranks : Deliver(p, d) \/ Announce(p, d)

Spec == Init /\ [][Next]_vars

=============================================================================
