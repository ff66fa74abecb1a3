------------------------------ MODULE CmpSwap ------------------------------
(***************************************************************************)
(* The compare-and-swap loop by which cmpswap_atomic (and the benchmark    *)
(* with half-precision pairs) adds into a shared word, thread by thread.   *)
(* A definition with a suffix after an underscore is a faulty variant.     *)
(*                                                                         *)
(* The first read of the word is a plain load: it may return whatever the  *)
(* word has held since the kernel started.  The exchange compares values,  *)
(* so it also succeeds when the word has changed and changed back.         *)
(***************************************************************************)
EXTENDS Integers, SequencesExt, FiniteSetsExt

CONSTANT Builds                   (* as in PackedAdd                       *)

ASSUME BuildsAssumption ==
  \A b \in Builds :
    /\ b.asU16 \in BOOLEAN
    /\ b.bits \in Nat /\ b.bits >= 2
    /\ b.inputs \in Seq(Int \X Int)

VARIABLES
  build,      (* the build that runs                                       *)
  word,       (* the output word                                           *)
  held,       (* the values it has held                                    *)
  pc,         (* position of every thread                                  *)
  old, new    (* old_v and new_v of every thread                           *)

vars == <<build, word, held, pc, old, new>>

Thread == UNION {DOMAIN b.inputs : b \in Builds}

(* Threads that have not added their pair. *)
Left == [v \in ToSet(build.inputs) |->
          Cardinality({t \in DOMAIN build.inputs : build.inputs[t] = v /\ pc[t] # "done"})]

Atomic == INSTANCE PackedAdd WITH left <- Left

Init ==
  /\ build \in Builds
  /\ word = Atomic!Zero
  /\ held = {Atomic!Zero}
  /\ pc = [t \in Thread |-> IF t \in DOMAIN build.inputs THEN "load" ELSE "done"]
  /\ old = [t \in Thread |-> Atomic!Zero]
  /\ new = [t \in Thread |-> Atomic!Zero]

(* old_v = cur_v; new_v = cur_v + value *)
Attempt(t, cur) ==
  /\ old' = [old EXCEPT ![t] = cur]
  /\ new' = [new EXCEPT ![t] = Atomic!Plus(cur, build.inputs[t])]

Load(t) ==
  /\ pc[t] = "load"
  /\ \E cur \in held : Attempt(t, cur)
  /\ pc' = [pc EXCEPT ![t] = "swap"]
  /\ UNCHANGED <<build, word, held>>

(* atomicCAS; a thread whose word is not the expected one tries again with the
   one it found. *)
Expected_Always(t) == TRUE
Expected(t) == word = old[t]

Swap(t) ==
  /\ pc[t] = "swap"
  /\ Expected(t)
  /\ word' = new[t]
  /\ held' = held \cup {new[t]}
  /\ pc' = [pc EXCEPT ![t] = "done"]
  /\ UNCHANGED <<build, old, new>>

Retry_Stale(t) == old[t]
Retry(t) == word

Retreat(t) ==
  /\ pc[t] = "swap"
  /\ ~Expected(t)
  /\ Attempt(t, Retry(t))
  /\ UNCHANGED <<build, word, held, pc>>

Step(t) == Load(t) \/ Swap(t) \/ Retreat(t)

Next == \E t \in Thread : Step(t)

Spec == Init /\ [][Next]_vars

FairSpec == Spec /\ \A t \in Thread : WF_vars(Step(t))

-----------------------------------------------------------------------------

(* Every thread's addition takes effect exactly once and as one atomic step,
   on whatever the word holds at that moment. *)
ImplementsAtomicAdd == Atomic!Spec

(* Where no addition can round the order does not matter: the word ends as
   the sequential sum, half by half.  Unsigned halves never round, they wrap;
   bf16 halves do not while every partial sum is an integer that fits the
   significand. *)
Finished == \A t \in Thread : pc[t] = "done"
Magnitude(h) ==
  FoldLeft(LAMBDA s, v : s + (IF v[h] < 0 THEN -v[h] ELSE v[h]), 0, build.inputs)
NeverRounds == build.asU16 \/ \A h \in 1 .. 2 : Magnitude(h) < 2^build.bits

ExactSum == Finished /\ NeverRounds => word = Atomic!Sequential

(* A thread may lose against others again and again, but not for ever. *)
Completes == <>Finished

=============================================================================
