---------------------------- MODULE CrossWgSync ----------------------------
(***************************************************************************)
(* cross-wg-sync: workgroups add their rows into one output row by load,   *)
(* add and store, ordered by a counter in global memory (serialized) or by *)
(* a lock in the same word (out of order).                                 *)
(*                                                                         *)
(* A workgroup is Waves waves that run independently between two hardware  *)
(* barriers; wave 0 holds thread 0, which alone touches the word.  Wave v  *)
(* owns part v of the output row.  A floating-point sum is abstracted to   *)
(* the sequence of the rows added, since its value depends on their order. *)
(* Workgroups are dispatched in index order while they fit the device and  *)
(* are never preempted.  A definition with a suffix after an underscore is *)
(* a faulty variant of its namesake.                                       *)
(***************************************************************************)
EXTENDS Integers, FiniteSets, SequencesExt

CONSTANTS
  Groups,       (* workgroups that add a row (reduce_groups)               *)
  Waves,        (* waves of a workgroup (BLOCK_SIZE / WARP_SIZE)           *)
  Resident,     (* workgroups the device runs at a time                    *)
  Modes         (* values of the template parameter serialized_reduce      *)

ASSUME SizeAssumption ==
  /\ {Groups, Waves, Resident} \subseteq Nat \ {0}
  /\ Modes \subseteq BOOLEAN

VARIABLES
  serialized,   (* serialized_reduce of this launch                        *)
  pc,           (* pc[g][v]: position of wave v of workgroup g             *)
  word,         (* *p_cnt                                                  *)
  sum,          (* sum[g][v]: what the wave has loaded and added to        *)
  out, aux      (* the parts of p_out and p_out_aux                        *)

vars == <<serialized, pc, word, sum, out, aux>>

(* The serialized launch has one workgroup more, which copies the result; in
   the other it counts as one that has ended. *)
Row == 0 .. Groups-1
Copier == Groups
WG == 0 .. Groups
Wave == 0 .. Waves-1
Leader == 0

Init ==
  /\ serialized \in Modes
  /\ pc = [g \in WG |-> [v \in Wave |->
             IF g = Copier /\ ~serialized THEN "done" ELSE "pending"]]
  /\ word = 0
  /\ sum = [g \in WG |-> [v \in Wave |-> <<>>]]
  /\ out = [v \in Wave |-> <<>>]
  /\ aux = [v \in Wave |-> <<>>]

All(g, l) == \A v \in Wave : pc[g][v] = l
Goto(g, v, l) == pc' = [pc EXCEPT ![g][v] = l]
GotoAll(g, l) == pc' = [pc EXCEPT ![g] = [v \in Wave |-> l]]

Busy == {g \in WG : ~All(g, "pending") /\ ~All(g, "done")}

Precedes(f, g) == f < g

(* Every wave but the leader goes straight to the barrier of wait_eq or
   wait_set. *)
Dispatch(g) ==
  /\ All(g, "pending")
  /\ Cardinality(Busy) < Resident
  /\ \A f \in WG : Precedes(f, g) => ~All(f, "pending")
  /\ pc' = [pc EXCEPT ![g] = [v \in Wave |-> IF v = Leader THEN "poll" ELSE "gate"]]
  /\ UNCHANGED <<serialized, word, sum, out, aux>>

(***************************************************************************)
(* The leader's poll: wait_eq of the own index (of the last index for the  *)
(* copier), or aquire, the exchange of 0 for 1.                            *)
(***************************************************************************)

Turn_LastSkipped(g) == IF g = Copier THEN Groups - 1 ELSE g
Turn_Late(g) == g + 1
Turn(g) == g

WaitEq(g) ==
  /\ serialized
  /\ pc[g][Leader] = "poll"
  /\ word = Turn(g)
  /\ Goto(g, Leader, "gate")
  /\ UNCHANGED <<serialized, word, sum, out, aux>>

FoundFree_Ignored == TRUE
FoundFree == word = 0

Aquire(g) ==
  /\ ~serialized
  /\ pc[g][Leader] = "poll"
  /\ FoundFree
  /\ word' = 1
  /\ Goto(g, Leader, "gate")
  /\ UNCHANGED <<serialized, sum, out, aux>>

(* The barrier behind the poll. *)
Enter(g) ==
  /\ All(g, "gate")
  /\ GotoAll(g, "load")
  /\ UNCHANGED <<serialized, word, sum, out, aux>>

(***************************************************************************)
(* The critical area, wave by wave.                                        *)
(***************************************************************************)

Load(g, v) ==
  /\ g # Copier
  /\ pc[g][v] = "load"
  /\ sum' = [sum EXCEPT ![g][v] = Append(out[v], g)]
  /\ Goto(g, v, "store")
  /\ UNCHANGED <<serialized, word, out, aux>>

(* The store waits for its own completion (vmcnt(0)). *)
Store(g, v) ==
  /\ pc[g][v] = "store"
  /\ out' = [out EXCEPT ![v] = sum[g][v]]
  /\ Goto(g, v, "stored")
  /\ UNCHANGED <<serialized, word, sum, aux>>

Copy(g, v) ==
  /\ g = Copier
  /\ pc[g][v] = "load"
  /\ aux' = [aux EXCEPT ![v] = out[v]]
  /\ Goto(g, v, "done")
  /\ UNCHANGED <<serialized, word, sum, out>>

(***************************************************************************)
(* Leaving: inc has a barrier before the increment; release frees the lock *)
(* first and has its barrier, which nothing follows, behind that.          *)
(***************************************************************************)

IncMayStart_NoBarrier(g) == pc[g][Leader] = "stored"
IncMayStart(g) == All(g, "stored")

After_EveryWave == word + Waves
After == word + 1

Inc(g) ==
  /\ serialized
  /\ IncMayStart(g)
  /\ word' = After
  /\ pc' = [pc EXCEPT ![g] = [v \in Wave |-> IF @[v] = "stored" THEN "done" ELSE @[v]]]
  /\ UNCHANGED <<serialized, sum, out, aux>>

Unlocked_Kept == 1
Unlocked == 0

Release(g) ==
  /\ ~serialized
  /\ pc[g][Leader] = "stored"
  /\ word = 1
  /\ word' = Unlocked
  /\ Goto(g, Leader, "released")
  /\ UNCHANGED <<serialized, sum, out, aux>>

(* The barrier behind the release. *)
Leave(g) ==
  /\ ~serialized
  /\ \A v \in Wave : pc[g][v] = IF v = Leader THEN "released" ELSE "stored"
  /\ GotoAll(g, "done")
  /\ UNCHANGED <<serialized, word, sum, out, aux>>

WaveStep(g, v) == Load(g, v) \/ Store(g, v) \/ Copy(g, v)

GroupStep(g) ==
  \/ Dispatch(g)
  \/ WaitEq(g)
  \/ Aquire(g)
  \/ Enter(g)
  \/ Inc(g)
  \/ Release(g)
  \/ Leave(g)

Next ==
  \E g \in WG : GroupStep(g) \/ \E v \in Wave : WaveStep(g, v)

Spec == Init /\ [][Next]_vars

(* Resident waves run and the dispatcher fills free places. *)
FairSpec ==
  /\ Spec
  /\ \A g \in WG : WF_vars(GroupStep(g)) /\ \A v \in Wave : WF_vars(WaveStep(g, v))

-----------------------------------------------------------------------------

TypeOK ==
  /\ serialized \in Modes
  /\ pc \in [WG -> [Wave -> {"pending", "poll", "gate", "load", "store",
                             "stored", "released", "done"}]]
  /\ word \in 0 .. (IF serialized THEN Groups ELSE 1)
  /\ sum \in [WG -> [Wave -> Seq(Row)]]
  /\ out \in [Wave -> Seq(Row)]
  /\ aux \in [Wave -> Seq(Row)]

Finished == \A g \in WG : All(g, "done")

(* Serialized: at every moment every part of the output holds the rows
   0 .. n-1, added in that order, so the result is the same in every run; and
   the rows below the counter are in all parts. *)
InOrder == serialized =>
  \A v \in Wave :
    /\ out[v] = [i \in 1 .. Len(out[v]) |-> i - 1]
    /\ Len(out[v]) >= word

(* Serialized: when the kernel has ended, p_out_aux is the complete sum. *)
AuxIsFinal == serialized /\ Finished => \A v \in Wave : aux[v] = out[v] /\ Len(aux[v]) = Groups

(* Out of order: when the kernel has ended, every row is in the sum exactly
   once, "the same except some numeric difference" as the serialized one
   (cross-wg-sync.hip.cpp:157-158). *)
EachRowOnce ==
  Finished => \A v \in Wave : Len(out[v]) = Groups /\ ToSet(out[v]) = Row

(* Out of order: the leaders of two workgroups are never between aquire and
   release at the same time, and the word says whether one is. *)
Holding == {g \in WG : pc[g][Leader] \in {"gate", "load", "store", "stored"}}
LeaderExclusive == ~serialized => Cardinality(Holding) = word

(* The kernel ends, with however few workgroups resident. *)
Completes == <>Finished

=============================================================================
