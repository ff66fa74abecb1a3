--------------------------- MODULE CmpSwap_proofs --------------------------
(***************************************************************************)
(* Proofs about CmpSwap, for every number of threads, any inputs and words *)
(* of every width: the compare-and-swap loop implements the additions of   *)
(* PackedAdd, each taking effect as one atomic step, and ends with the     *)
(* sequential sum where no addition rounds.                                *)
(***************************************************************************)
EXTENDS CmpSwap, FiniteSetTheorems, WellFoundedInduction, TLAPS

Typed ==
  /\ build \in Builds
  /\ pc \in [Thread -> {"load", "swap", "done"}]
  /\ DOMAIN old = Thread
  /\ DOMAIN new = Thread

(* Only threads that have a pair to add take steps. *)
Active == \A t \in Thread : pc[t] # "done" => t \in DOMAIN build.inputs

(* What a thread is about to exchange is its pair added to what it expects, so
   an exchange that succeeds adds to what the word holds, no matter what it has
   held in between. *)
Prepared ==
  \A t \in Thread : pc[t] = "swap" => new[t] = Atomic!Plus(old[t], build.inputs[t])

IInv == Typed /\ Active /\ Prepared

(* The arithmetic depends on the build alone, which does not change. *)
LEMMA SamePlus ==
  ASSUME build' = build, NEW w, NEW v
  PROVE  Atomic!Plus(w, v)' = Atomic!Plus(w, v)
BY DEF Atomic!Plus, Atomic!AddHalf, Atomic!Round, Atomic!RoundUp, Atomic!Dropped

(* The threads with one input are finitely many. *)
Waiting(v) == {t \in DOMAIN build.inputs : build.inputs[t] = v /\ pc[t] # "done"}

LEMMA FinitelyMany ==
  ASSUME build \in Builds, NEW v
  PROVE  IsFiniteSet(Waiting(v))
<1>1. build.inputs \in Seq(Int \X Int)
  BY BuildsAssumption
<1>2. DOMAIN build.inputs = 1 .. Len(build.inputs) /\ Len(build.inputs) \in Nat
  BY <1>1
<1>3. IsFiniteSet(DOMAIN build.inputs)
  BY <1>2, FS_Interval
<1> QED BY <1>3, FS_Subset DEF Waiting

(* The inductive invariant. *)
LEMMA InvInit == Init => IInv
BY DEF Init, IInv, Typed, Active, Prepared

LEMMA InvNext == IInv /\ [Next]_vars => IInv'
<1> SUFFICES ASSUME IInv, [Next]_vars PROVE IInv'
  OBVIOUS
<1>1. CASE UNCHANGED vars
  <2>1. build' = build /\ pc' = pc /\ old' = old /\ new' = new
    BY <1>1 DEF vars
  <2>2. Typed' /\ Active'
    BY <2>1 DEF IInv, Typed, Active
  <2>3. Prepared'
    BY <2>1, SamePlus DEF IInv, Prepared
  <2> QED BY <2>2, <2>3 DEF IInv
<1>2. ASSUME NEW t \in Thread, Step(t) PROVE IInv'
  <2>1. build' = build
    BY <1>2 DEF Step, Load, Swap, Retreat
  <2>2. ASSUME NEW cur, Attempt(t, cur), pc' = [pc EXCEPT ![t] = "swap"], pc[t] # "done" PROVE IInv'
    <3>1. Typed' /\ Active'
      BY <2>1, <2>2 DEF IInv, Typed, Active, Attempt
    <3>2. SUFFICES ASSUME NEW s \in Thread, pc'[s] = "swap"
                   PROVE  new'[s] = Atomic!Plus(old'[s], build.inputs[s])
      BY <2>1, <3>1, SamePlus DEF IInv, Prepared
    <3>3. CASE s = t
      BY <2>2, <3>3 DEF Attempt, IInv, Typed
    <3>4. CASE s # t
      BY <2>2, <3>2, <3>4 DEF Attempt, IInv, Typed, Prepared
    <3> QED BY <3>3, <3>4
  <2>3. CASE Load(t)
    BY <2>2, <2>3 DEF Load
  <2>4. CASE Retreat(t)
    <3>1. pc' = [pc EXCEPT ![t] = "swap"]
      BY <2>4 DEF Retreat, IInv, Typed
    <3> QED BY <2>2, <2>4, <3>1 DEF Retreat
  <2>5. CASE Swap(t)
    <3>1. pc' = [pc EXCEPT ![t] = "done"] /\ old' = old /\ new' = new
      BY <2>5 DEF Swap
    <3>2. Typed' /\ Active'
      BY <2>1, <3>1 DEF IInv, Typed, Active
    <3>3. \A s \in Thread : pc'[s] = "swap" => pc[s] = "swap"
      BY <3>1 DEF IInv, Typed
    <3>4. Prepared'
      BY <2>1, <3>1, <3>3, SamePlus DEF IInv, Prepared
    <3> QED BY <3>2, <3>4 DEF IInv
  <2> QED BY <1>2, <2>3, <2>4, <2>5 DEF Step
<1> QED BY <1>1, <1>2 DEF Next

(* Type correctness, and what a thread is about to exchange is its pair added to
   the word it has read (Load, Retreat). *)
THEOREM Invariance == Spec => []IInv
BY InvInit, InvNext, PTL DEF Spec

-----------------------------------------------------------------------------

(* The two modules mean the same by a set of elements and by its size. *)
LEMMA SameSets == \A s : Atomic!ToSet(s) = ToSet(s)
BY DEF Atomic!ToSet, ToSet

LEMMA SameSize == \A S : Atomic!Cardinality(S) = Cardinality(S)
BY DEF Atomic!Cardinality, Cardinality, Atomic!IsFiniteSet, IsFiniteSet

(* The initial states of the loop are those of the atomic additions. *)
LEMMA RefinesInit == Init => Atomic!Init
<1> SUFFICES ASSUME Init PROVE Atomic!Init
  OBVIOUS
<1>1. ASSUME NEW t \in DOMAIN build.inputs PROVE pc[t] = "load"
  BY <1>1 DEF Init, Thread
<1>2. ASSUME NEW v PROVE Waiting(v) = Atomic!Threads(v)
  BY <1>1 DEF Waiting, Atomic!Threads
<1>3. Left = [v \in Atomic!Values |-> Cardinality(Atomic!Threads(v))]
  BY <1>2, SameSets DEF Left, Waiting, Atomic!Values
<1> QED BY <1>3, SameSize DEF Init, Atomic!Init

(* Nothing is added while no thread gets done. *)
LEMMA Stutter ==
  ASSUME IInv, build' = build, \A t \in Thread : (pc'[t] = "done") = (pc[t] = "done")
  PROVE  Left' = Left
<1>1. \A t \in DOMAIN build.inputs : t \in Thread
  BY DEF Thread, IInv, Typed
<1>2. \A v : Waiting(v)' = Waiting(v)
  BY <1>1 DEF Waiting
<1> QED BY <1>2 DEF Left, Waiting

(* An exchange that succeeds is one addition: the word is what the thread
   expects, and the thread is one fewer to come with its pair. *)
LEMMA RefinesSwap ==
  ASSUME IInv, NEW t \in Thread, Swap(t)
  PROVE  Atomic!Next
<1>0. SUFFICES ASSUME NEW CONSTANT u, u = build.inputs[t]
               PROVE  Atomic!Next
  OBVIOUS
<1>1. t \in DOMAIN build.inputs /\ build \in Builds /\ pc \in [Thread -> {"load", "swap", "done"}]
  BY DEF IInv, Typed, Active, Swap
<1>2. build' = build /\ word' = Atomic!Plus(word, u)
  BY <1>0 DEF IInv, Prepared, Swap, Expected
<1>3. u \in Atomic!Values
  BY <1>0, <1>1, SameSets DEF Atomic!Values, ToSet
<1>4. t \in Waiting(u) /\ IsFiniteSet(Waiting(u))
  BY <1>0, <1>1, FinitelyMany DEF Waiting, Swap
<1>5. Waiting(u)' = Waiting(u) \ {t}
  BY <1>0, <1>1, <1>2 DEF Waiting, Swap, Thread
<1>6. \A v : v # u => Waiting(v)' = Waiting(v)
  BY <1>0, <1>1, <1>2 DEF Waiting, Swap, Thread
<1>7. /\ Cardinality(Waiting(u)) \in Nat
      /\ Cardinality(Waiting(u)) > 0
      /\ Cardinality(Waiting(u) \ {t}) = Cardinality(Waiting(u)) - 1
  <2> DEFINE W == Waiting(u)
  <2>1. t \in W /\ IsFiniteSet(W)
    BY <1>4
  <2> HIDE DEF W
  <2>2. Cardinality(W) \in Nat /\ (Cardinality(W) = 0 <=> W = {})
    BY <2>1, FS_CardinalityType, FS_EmptySet
  <2>3. Cardinality(W \ {t}) = Cardinality(W) - 1
    BY <2>1, FS_RemoveElement
  <2>4. Cardinality(W) > 0
    BY <2>1, <2>2
  <2> QED BY <2>2, <2>3, <2>4 DEF W
<1>8. Left = [v \in Atomic!Values |-> Cardinality(Waiting(v))]
  BY SameSets DEF Left, Waiting, Atomic!Values
<1>9. Left' = [v \in Atomic!Values |-> Cardinality(Waiting(v)')]
  BY <1>2, SameSets DEF Left, Waiting, Atomic!Values
<1>10. Left[u] > 0
  BY <1>3, <1>7, <1>8
<1>11. Left' = [Left EXCEPT ![u] = @ - 1]
  <2>1. Cardinality(Waiting(u)') = Left[u] - 1
    BY <1>3, <1>5, <1>7, <1>8
  <2>2. \A v \in Atomic!Values : v # u => Cardinality(Waiting(v)') = Left[v]
    BY <1>6, <1>8
  <2>3. [Left EXCEPT ![u] = @ - 1] = [v \in Atomic!Values |-> IF v = u THEN Left[u] - 1 ELSE Left[v]]
    BY <1>8
  <2>4. \A v \in Atomic!Values : Cardinality(Waiting(v)') = IF v = u THEN Left[u] - 1 ELSE Left[v]
    BY <2>1, <2>2
  <2> QED BY <1>9, <2>3, <2>4, Zenon
<1>12. Atomic!AtomicAdd(u)
  BY <1>2, <1>10, <1>11 DEF Atomic!AtomicAdd
<1> QED BY <1>3, <1>12 DEF Atomic!Next

(* Reading the word and trying again are no additions. *)
LEMMA RefinesNext == IInv /\ [Next]_vars => [Atomic!Next]_(Atomic!vars)
<1> SUFFICES ASSUME IInv, [Next]_vars PROVE [Atomic!Next]_(Atomic!vars)
  OBVIOUS
<1>1. CASE UNCHANGED vars
  <2>1. Left' = Left
    BY <1>1, Stutter DEF vars
  <2> QED BY <1>1, <2>1 DEF vars, Atomic!vars
<1>2. ASSUME NEW t \in Thread, Load(t) \/ Retreat(t) PROVE UNCHANGED Atomic!vars
  <2>1. build' = build /\ word' = word
    BY <1>2 DEF Load, Retreat
  <2>2. pc[t] # "done" /\ (pc' = [pc EXCEPT ![t] = "swap"] \/ pc' = pc)
    BY <1>2 DEF Load, Retreat
  <2>3. \A s \in Thread : (pc'[s] = "done") = (pc[s] = "done")
    BY <2>2 DEF IInv, Typed
  <2>4. Left' = Left
    BY <2>1, <2>3, Stutter
  <2> QED BY <2>1, <2>4 DEF Atomic!vars
<1> QED BY <1>1, <1>2, RefinesSwap DEF Next, Step

(* Every thread's addition takes effect exactly once and as one atomic step, on
   whatever the word holds at that moment (Swap), although the expected value may
   be stale when it was read and the word may have changed and changed back. *)
THEOREM LoopImplementsAdd == Spec => ImplementsAtomicAdd
<1>1. Init => Atomic!Init
  BY RefinesInit
<1>2. IInv /\ [Next]_vars => [Atomic!Next]_(Atomic!vars)
  BY RefinesNext
<1>3. Spec => []IInv
  BY Invariance
<1> QED BY <1>1, <1>2, <1>3, PTL DEF Spec, ImplementsAtomicAdd, Atomic!Spec

-----------------------------------------------------------------------------

(* What the provers are not told about powers of two. *)
Powers ==
  /\ 2^0 = 1
  /\ \A s \in Nat : 2^s \in Nat \ {0} /\ 2^(s + 1) = 2 * 2^s

(* A set of natural numbers has a smallest one, which is how the inductions below
   are done: the smallest number a statement fails for is neither zero nor
   behind one it holds for. *)
LEMMA Smallest ==
  ASSUME NEW T, T \subseteq Nat, T # {}
  PROVE  \E s \in T : \A r \in T : s <= r
<1> DEFINE L == OpToRel(<, Nat)
<1> HIDE DEF L
<1>1. IsWellFoundedOn(L, Nat)
  BY NatLessThanWellFounded DEF L
<1>2. PICK s \in T : \A r \in T : ~ (<<r, s>> \in L)
  BY <1>1, WFMin
<1>3. \A r \in T : ~ (r < s)
  BY <1>2 DEF L, OpToRel
<1> QED BY <1>3

(* The library's folds are recursive functions of the set of indices that are left,
   the largest one last.  Added(h, w, v) is what the two folds of the module do
   with a value w and the next input v. *)
Added(h, w, v) ==
  IF h = 0 THEN Atomic!Plus(w, v) ELSE w + (IF v[h] < 0 THEN -v[h] ELSE v[h])

IsFold(g, h, D) ==
  g = [s \in SUBSET D |->
        IF s = {} THEN IF h = 0 THEN <<0, 0>> ELSE 0
        ELSE Added(h, g[s \ {Max(s)}], build.inputs[Max(s)])]

(* The index that comes last. *)
LEMMA MaxIs ==
  ASSUME NEW k \in Nat, NEW s \in SUBSET (1 .. k), k \in s
  PROVE  Max(s) = k
<1>1. \A y \in s : k >= y
  OBVIOUS
<1>2. \A x \in s : (\A y \in s : x >= y) => x = k
  OBVIOUS
<1> QED BY <1>1, <1>2 DEF Max

(* There is such a function, for inputs of every length. *)
LEMMA FoldExists ==
  ASSUME NEW h, NEW n \in Nat
  PROVE  \E g : IsFold(g, h, 1 .. n)
<1> DEFINE T == {k \in Nat : ~ \E g : IsFold(g, h, 1 .. k)}
<1>1. SUFFICES ASSUME T # {} PROVE FALSE
  OBVIOUS
<1>2. PICK k \in T : \A r \in T : k <= r
  <2> HIDE DEF T
  <2>1. T \subseteq Nat
    BY DEF T
  <2> QED BY <1>1, <2>1, Smallest
<1>3. k \in Nat /\ ~ \E g : IsFold(g, h, 1 .. k)
  OBVIOUS
<1>4. CASE k = 0
  <2> DEFINE g == [s \in SUBSET (1 .. 0) |-> IF h = 0 THEN <<0, 0>> ELSE 0]
  <2>1. \A s \in SUBSET (1 .. 0) : s = {}
    OBVIOUS
  <2>2. IsFold(g, h, 1 .. 0)
    BY <2>1 DEF IsFold
  <2> QED BY <1>3, <1>4, <2>2
<1>5. CASE k # 0
  <2>1. k - 1 \in Nat /\ k - 1 \notin T
    BY <1>2, <1>3, <1>5
  <2>2. PICK g : IsFold(g, h, 1 .. k - 1)
    BY <2>1
  <2> DEFINE In == SUBSET (1 .. k - 1)
             b == IF h = 0 THEN <<0, 0>> ELSE 0
             G == [s \in SUBSET (1 .. k) |->
                    IF k \in s THEN Added(h, g[s \ {k}], build.inputs[k]) ELSE g[s]]
  <2>3. \A s \in In : g[s] = IF s = {} THEN b ELSE Added(h, g[s \ {Max(s)}], build.inputs[Max(s)])
    BY <2>2 DEF IsFold
  <2>4. ASSUME NEW s \in SUBSET (1 .. k), NEW x, k \notin s \ {x} PROVE s \ {x} \in In
    <3>1. \A y \in s \ {x} : y \in 1 .. k /\ y # k
      BY <2>4
    <3>2. \A y \in s \ {x} : y \in 1 .. k - 1
      BY <1>3, <3>1
    <3> QED BY <3>2
  <2>5. \A s \in In : s \in SUBSET (1 .. k) /\ k \notin s
    BY <1>3, <1>5
  <2>6. \A s \in In : G[s] = g[s]
    BY <2>5, Zenon
  <2> HIDE DEF In, b
  <2>7. ASSUME NEW s \in SUBSET (1 .. k)
        PROVE  G[s] = IF s = {} THEN b ELSE Added(h, G[s \ {Max(s)}], build.inputs[Max(s)])
    <3>1. CASE k \in s
      <4>1. Max(s) = k /\ s # {}
        BY <1>3, <3>1, MaxIs
      <4>2. G[s] = Added(h, g[s \ {k}], build.inputs[k])
        BY <3>1, Zenon
      <4>3. G[s \ {k}] = g[s \ {k}]
        BY <2>4, <2>6
      <4> HIDE DEF G
      <4> QED BY <4>1, <4>2, <4>3
    <3>2. CASE k \notin s
      <4>1. s \in In /\ \A x : s \ {x} \in In
        <5>1. \A x : k \notin s \ {x}
          BY <3>2
        <5>2. \A x : s \ {x} \in In
          BY <2>4, <5>1
        <5>3. s \ {k} = s
          BY <3>2
        <5> QED BY <5>2, <5>3
      <4>2. \A x : G[s \ {x}] = g[s \ {x}]
        BY <2>6, <4>1
      <4>3. G[s] = g[s]
        BY <2>6, <4>1
      <4> HIDE DEF G
      <4> QED BY <2>3, <4>1, <4>2, <4>3, Zenon
    <3> QED BY <3>1, <3>2
  <2>8. G = [s \in SUBSET (1 .. k) |-> G[s]]
    OBVIOUS
  <2> HIDE DEF G
  <2>9. IsFold(G, h, 1 .. k)
    BY <2>7, <2>8, Zenon DEF IsFold, b
  <2> QED BY <1>3, <2>9
<1> QED BY <1>4, <1>5

(* The values a fold goes through, input by input. *)
Through(F, h, n) ==
  /\ F[0] = IF h = 0 THEN <<0, 0>> ELSE 0
  /\ \A i \in 1 .. n : F[i] = Added(h, F[i - 1], build.inputs[i])

(* Index by index, a fold does what Added says. *)
LEMMA FoldSteps ==
  ASSUME NEW h, NEW n \in Nat, NEW g, IsFold(g, h, 1 .. n)
  PROVE  Through([i \in 0 .. n |-> g[1 .. i]], h, n)
<1> DEFINE F == [i \in 0 .. n |-> g[1 .. i]]
<1>1. F[0] = IF h = 0 THEN <<0, 0>> ELSE 0
  <2>1. 1 .. 0 = {} /\ {} \in SUBSET (1 .. n)
    OBVIOUS
  <2>2. F[0] = g[{}]
    <3>1. 0 \in 0 .. n
      OBVIOUS
    <3>2. F[0] = g[1 .. 0]
      BY <3>1, Zenon
    <3> HIDE DEF F
    <3> QED BY <2>1, <3>2
  <2> QED BY <2>1, <2>2 DEF IsFold
<1>2. ASSUME NEW i \in 1 .. n PROVE F[i] = Added(h, F[i - 1], build.inputs[i])
  <2>1. i \in 0 .. n /\ i - 1 \in 0 .. n /\ i \in Nat /\ i \in 1 .. i
    OBVIOUS
  <2>2. F[i] = g[1 .. i] /\ F[i - 1] = g[1 .. i - 1]
    BY <2>1, Zenon
  <2>3. Max(1 .. i) = i
    BY <2>1, MaxIs
  <2>4. (1 .. i) \ {i} = 1 .. i - 1 /\ 1 .. i \in SUBSET (1 .. n) /\ 1 .. i # {}
    <3>1. \A j : j \in (1 .. i) \ {i} <=> j \in 1 .. i - 1
      BY <2>1
    <3>2. \A j \in 1 .. i : j \in 1 .. n
      BY <2>1
    <3> QED BY <2>1, <3>1, <3>2
  <2> HIDE DEF F
  <2>5. g[1 .. i] = Added(h, g[(1 .. i) \ {Max(1 .. i)}], build.inputs[Max(1 .. i)])
    BY <2>4, Zenon DEF IsFold
  <2> QED BY <2>2, <2>3, <2>4, <2>5
<1> QED BY <1>1, <1>2 DEF Through

(* So the library's fold, whichever of these functions it takes, is where that ends. *)
LEMMA LastFold ==
  ASSUME NEW h, NEW n \in Nat
  PROVE  \E F : DOMAIN F = 0 .. n /\ Through(F, h, n) /\ F[n] = (CHOOSE g : IsFold(g, h, 1 .. n))[1 .. n]
<1> DEFINE g == CHOOSE g : IsFold(g, h, 1 .. n)
           F == [i \in 0 .. n |-> g[1 .. i]]
<1>1. IsFold(g, h, 1 .. n)
  BY FoldExists
<1> HIDE DEF g
<1>2. Through(F, h, n)
  BY <1>1, FoldSteps
<1>3. F[n] = g[1 .. n] /\ DOMAIN F = 0 .. n
  OBVIOUS
<1> HIDE DEF F
<1> QED BY <1>2, <1>3 DEF g

(* The sequential sum is where the additions, row after row, end. *)
LEMMA SequentialSteps ==
  ASSUME build \in Builds
  PROVE  \E F : Through(F, 0, Len(build.inputs)) /\ F[Len(build.inputs)] = Atomic!Sequential
<1> DEFINE n == Len(build.inputs)
<1>1. n \in Nat /\ DOMAIN build.inputs = 1 .. n
  BY BuildsAssumption
<1>2. Atomic!Sequential = (CHOOSE g : IsFold(g, 0, DOMAIN build.inputs))[DOMAIN build.inputs]
  BY DEF Atomic!Sequential, Atomic!FoldLeft, Atomic!MapThenFoldSet, Atomic!Max, Max, IsFold, Added, Atomic!Zero
<1>3. \E F : DOMAIN F = 0 .. n /\ Through(F, 0, n) /\ F[n] = Atomic!Sequential
  <2> HIDE DEF n
  <2>1. PICK F : DOMAIN F = 0 .. n /\ Through(F, 0, n) /\ F[n] = (CHOOSE g : IsFold(g, 0, 1 .. n))[1 .. n]
    BY <1>1, LastFold
  <2>2. F[n] = Atomic!Sequential
    BY <1>1, <1>2, <2>1
  <2> QED BY <2>1, <2>2
<1> QED BY <1>3

(* As the magnitudes add up. *)
LEMMA MagnitudeSteps ==
  ASSUME build \in Builds, NEW h \in 1 .. 2
  PROVE  \E M : Through(M, h, Len(build.inputs)) /\ M[Len(build.inputs)] = Magnitude(h)
<1> DEFINE n == Len(build.inputs)
<1>1. n \in Nat /\ DOMAIN build.inputs = 1 .. n /\ h # 0
  BY BuildsAssumption
<1>2. Magnitude(h) = (CHOOSE g : IsFold(g, h, DOMAIN build.inputs))[DOMAIN build.inputs]
  BY <1>1 DEF Magnitude, FoldLeft, MapThenFoldSet, IsFold, Added
<1>3. \E M : DOMAIN M = 0 .. n /\ Through(M, h, n) /\ M[n] = Magnitude(h)
  <2> HIDE DEF n
  <2>1. PICK M : DOMAIN M = 0 .. n /\ Through(M, h, n) /\ M[n] = (CHOOSE g : IsFold(g, h, 1 .. n))[1 .. n]
    BY <1>1, LastFold
  <2>2. M[n] = Magnitude(h)
    BY <1>1, <1>2, <2>1
  <2> QED BY <2>1, <2>2
<1> QED BY <1>3

-----------------------------------------------------------------------------

(* f adds up, input by input, the halves h of those inputs that are in S. *)
Partial(f, h, S) ==
  LET n == Len(build.inputs)
  IN /\ f \in [0 .. n -> Int]
     /\ f[0] = 0
     /\ \A i \in 1 .. n : f[i] = f[i - 1] + (IF i \in S THEN build.inputs[i][h] ELSE 0)

(* A partial sum is no further from zero than the magnitudes of all summands. *)
LEMMA Bounded ==
  ASSUME build \in Builds, NEW h \in 1 .. 2, NEW S, NEW f, Partial(f, h, S)
  PROVE  /\ Magnitude(h) \in Nat
         /\ \A i \in 0 .. Len(build.inputs) : -Magnitude(h) <= f[i] /\ f[i] <= Magnitude(h)
<1> DEFINE n == Len(build.inputs)
<1>1. PICK M : Through(M, h, n) /\ M[n] = Magnitude(h)
  BY MagnitudeSteps
<1>2. n \in Nat /\ \A i \in 1 .. n : build.inputs[i][h] \in Int
  BY BuildsAssumption
<1> DEFINE In(i) == build.inputs[i][h]
<1>3. /\ f \in [0 .. n -> Int] /\ f[0] = 0 /\ M[0] = 0
      /\ \A i \in 1 .. n : f[i] = f[i - 1] + (IF i \in S THEN In(i) ELSE 0)
      /\ \A i \in 1 .. n : M[i] = M[i - 1] + (IF In(i) < 0 THEN -In(i) ELSE In(i))
  BY <1>1 DEF Partial, Through, Added
<1>4. \A i \in 1 .. n : In(i) \in Int
  BY <1>2
<1> HIDE DEF n, In
<1> DEFINE Good(i) == /\ M[i] \in Nat /\ -M[i] <= f[i] /\ f[i] <= M[i]
                      /\ (i > 0 => M[i - 1] <= M[i])
           T == {i \in 0 .. n : ~Good(i)}
<1>5. T = {}
  <2> SUFFICES ASSUME T # {} PROVE FALSE
    OBVIOUS
  <2>1. PICK i \in T : \A r \in T : i <= r
    <3>1. T \subseteq Nat
      BY <1>2
    <3> HIDE DEF T
    <3> QED BY <3>1, Smallest
  <2>2. i \in 0 .. n /\ ~Good(i)
    OBVIOUS
  <2>3. i # 0
    BY <1>3, <2>2
  <2>4. i \in 1 .. n /\ i - 1 \in 0 .. n /\ i - 1 \notin T
    BY <1>2, <2>1, <2>2, <2>3
  <2>5. Good(i - 1)
    BY <2>4
  <2>6. f[i - 1] \in Int /\ M[i - 1] \in Nat /\ In(i) \in Int
    BY <1>3, <1>4, <2>4, <2>5
  <2>7. Good(i)
    BY <1>3, <2>4, <2>5, <2>6
  <2> QED BY <2>2, <2>7
<1>6. \A i \in 0 .. n : Good(i)
  BY <1>5
<1> DEFINE U == {i \in 0 .. n : \E k \in 0 .. i : M[i] < M[k]}
<1>7. U = {}
  <2> SUFFICES ASSUME U # {} PROVE FALSE
    OBVIOUS
  <2>1. PICK i \in U : \A r \in U : i <= r
    <3>1. U \subseteq Nat
      BY <1>2
    <3> HIDE DEF U
    <3> QED BY <3>1, Smallest
  <2>2. i \in 0 .. n
    OBVIOUS
  <2>3. PICK k \in 0 .. i : M[i] < M[k]
    OBVIOUS
  <2>4. M[i] \in Nat /\ M[k] \in Nat
    BY <1>2, <1>6, <2>2
  <2>5. k # i
    BY <2>3, <2>4
  <2>6. i - 1 \in 0 .. n /\ i - 1 \notin U /\ k \in 0 .. i - 1
    BY <1>2, <2>1, <2>2, <2>3, <2>5
  <2>7. ~ (M[i - 1] < M[k]) /\ M[i - 1] <= M[i] /\ M[i - 1] \in Nat
    BY <1>2, <1>6, <2>2, <2>6
  <2> QED BY <2>3, <2>4, <2>7
<1>8. \A i \in 0 .. n : M[i] \in Nat /\ M[n] \in Nat /\ f[i] \in Int /\ -M[i] <= f[i] /\ f[i] <= M[i] /\ M[i] <= M[n]
  <2>1. n \in 0 .. n /\ \A i \in 0 .. n : i \in 0 .. n
    BY <1>2
  <2> HIDE DEF U
  <2>2. \A i \in 0 .. n : ~ (M[n] < M[i])
    <3> USE DEF U
    <3> QED BY <1>7, <2>1
  <2> QED BY <1>3, <1>6, <2>1, <2>2
<1> QED BY <1>1, <1>2, <1>8 DEF n

(* Powers of two grow. *)
LEMMA PowersGrow ==
  ASSUME Powers, NEW b \in Nat, NEW e \in Nat
  PROVE  2^b \in Nat \ {0} /\ 2^(b + e) \in Nat /\ 2^(b + e) >= 2^b
<1> DEFINE P(k) == 2^(b + k)
           T == {k \in Nat : ~ (P(k) >= P(0))}
<1>1. \A k \in Nat : P(k) \in Nat /\ P(k + 1) = 2 * P(k)
  <2> SUFFICES ASSUME NEW k \in Nat PROVE P(k) \in Nat /\ P(k + 1) = 2 * P(k)
    OBVIOUS
  <2>1. b + k \in Nat /\ b + (k + 1) = (b + k) + 1
    OBVIOUS
  <2>2. 2^(b + k) \in Nat /\ 2^((b + k) + 1) = 2 * 2^(b + k)
    BY <2>1 DEF Powers
  <2> QED BY <2>1, <2>2
<1>2. P(0) = 2^b /\ 2^b \in Nat \ {0}
  <2>1. b + 0 = b
    OBVIOUS
  <2> QED BY <2>1 DEF Powers
<1> HIDE DEF P
<1>3. T = {}
  <2> SUFFICES ASSUME T # {} PROVE FALSE
    OBVIOUS
  <2>1. PICK k \in T : \A r \in T : k <= r
    <3>1. T \subseteq Nat
      OBVIOUS
    <3> HIDE DEF T
    <3> QED BY <3>1, Smallest
  <2>2. k \in Nat /\ ~ (P(k) >= P(0))
    OBVIOUS
  <2>3. k # 0
    BY <1>1, <2>2
  <2>4. k - 1 \in Nat /\ k - 1 \notin T
    BY <2>1, <2>2, <2>3
  <2>5. P(k - 1) >= P(0) /\ P(k - 1) \in Nat /\ P(0) \in Nat
    BY <1>1, <2>4
  <2>6. P(k) = 2 * P(k - 1)
    <3>1. P((k - 1) + 1) = 2 * P(k - 1)
      BY <1>1, <2>4
    <3>2. (k - 1) + 1 = k
      BY <2>2
    <3> QED BY <3>1, <3>2
  <2> QED BY <2>2, <2>5, <2>6
<1>4. P(e) \in Nat /\ P(e) >= P(0)
  BY <1>1, <1>3
<1> QED BY <1>2, <1>4 DEF P

(* An integer that fits the significand loses nothing (float_2_bf16). *)
LEMMA RoundsTo ==
  ASSUME Powers, build \in Builds, NEW x \in Int, x < 2^build.bits, -x < 2^build.bits
  PROVE  Atomic!Round(x) = x
<1>1. build.bits \in Nat
  BY BuildsAssumption
<1>2. ASSUME NEW n \in Nat, n < 2^build.bits PROVE Atomic!RoundUp(n) = n
  <2> DEFINE Fits(e) == n < 2^(build.bits + e) /\ (e = 0 \/ n >= 2^(build.bits + e - 1))
  <2>1. Fits(0)
    <3>1. build.bits + 0 = build.bits
      BY <1>1
    <3> QED BY <1>2, <3>1
  <2>2. ASSUME NEW e \in 0 .. 24, Fits(e) PROVE e = 0
    <3> SUFFICES ASSUME e # 0 PROVE FALSE
      OBVIOUS
    <3>1. e - 1 \in Nat /\ build.bits + (e - 1) = build.bits + e - 1
      BY <1>1
    <3>2. /\ 2^build.bits \in Nat /\ 2^(build.bits + (e - 1)) \in Nat
          /\ 2^(build.bits + (e - 1)) >= 2^build.bits
      BY <1>1, <3>1, PowersGrow
    <3>3. n >= 2^(build.bits + (e - 1))
      BY <2>2, <3>1
    <3> QED BY <1>2, <3>2, <3>3
  <2> HIDE DEF Fits
  <2>3. (CHOOSE e \in 0 .. 24 : Fits(e)) = 0
    BY <2>1, <2>2
  <2>4. Atomic!Dropped(n) = 0
    BY <2>3 DEF Atomic!Dropped, Fits
  <2> QED BY <2>4 DEF Atomic!RoundUp
<1>3. CASE x < 0
  <2>1. -x \in Nat /\ -(-x) = x
    BY <1>3
  <2>2. Atomic!RoundUp(-x) = -x
    BY <1>2, <2>1
  <2> QED BY <1>3, <2>1, <2>2 DEF Atomic!Round
<1>4. CASE ~ (x < 0)
  <2>1. x \in Nat
    BY <1>4
  <2> QED BY <1>2, <1>4, <2>1 DEF Atomic!Round
<1> QED BY <1>3, <1>4

(* A quotient is the number between whose multiples the dividend lies. *)
LEMMA QuotientIs ==
  ASSUME NEW a \in Int, NEW b \in Nat \ {0}, NEW q \in Int, b * q <= a, a < b * q + b
  PROVE  a \div b = q /\ a % b = a - b * q
<1> DEFINE r == a \div b
           s == a % b
<1>1. r \in Int /\ s \in 0 .. b - 1 /\ a = b * r + s
  BY SMT
<1>2. r = q
  <2> SUFFICES ASSUME r # q PROVE FALSE
    OBVIOUS
  <2>1. b * (r - q) < b /\ b * (r - q) > -b
    BY <1>1, SMT
  <2>2. CASE r >= q + 1
    <3>1. b * (r - q) >= b
      BY <1>1, <2>2, SMT
    <3> QED BY <2>1, <3>1, <1>1, SMT
  <2>3. CASE r <= q - 1
    <3>1. b * (r - q) <= -b
      BY <1>1, <2>3, SMT
    <3> QED BY <2>1, <3>1, <1>1, SMT
  <2> QED BY <2>2, <2>3, <1>1, SMT
<1> QED BY <1>1, <1>2, SMT

(* A half stands for an integer: for what is left of it in the word, or for itself. *)
StandsFor(x, sum) == x = IF build.asU16 THEN sum % 2^build.bits ELSE sum

(* Adding a number that fits to a half that stands for a sum gives one that stands
   for the sum with it: what wraps around does not matter, and nothing is rounded. *)
LEMMA AddHalfKeeps ==
  ASSUME Powers, build \in Builds, NEW x, NEW sum \in Int, NEW v \in Int, StandsFor(x, sum),
         build.asU16 \/ (sum + v < 2^build.bits /\ -(sum + v) < 2^build.bits)
  PROVE  StandsFor(Atomic!AddHalf(x, v), sum + v)
<1>1. build.bits \in Nat
  BY BuildsAssumption
<1>2. CASE build.asU16
  <2> DEFINE W == 2^build.bits
  <2>1. W \in Nat \ {0}
    BY <1>1 DEF Powers
  <2>2. x = sum % W /\ Atomic!AddHalf(x, v) = (x + v) % W
    BY <1>2 DEF StandsFor, Atomic!AddHalf
  <2>3. ((sum % W) + v) % W = (sum + v) % W
    <3> HIDE DEF W
    <3> DEFINE q == sum \div W
               r == sum % W
    <3>1. q \in Int /\ r \in Int /\ sum = q * W + r
      BY <2>1, SMT
    <3> HIDE DEF q, r
    <3> DEFINE c == (r + v) \div W
               d == (r + v) % W
    <3>2. c \in Int /\ d \in 0 .. W - 1 /\ r + v = c * W + d
      BY <2>1, <3>1, SMT
    <3> HIDE DEF c, d
    <3>3. sum + v = (q + c) * W + d
      BY <2>1, <3>1, <3>2, SMT
    <3>4. (sum + v) % W = d
      <4> DEFINE t == sum + v
                 p == q + c
      <4>1. t \in Int /\ p \in Int /\ W * p <= t /\ t < W * p + W /\ t - W * p = d
        BY <2>1, <3>1, <3>2, <3>3, SMT
      <4> HIDE DEF t, p
      <4>2. t % W = t - W * p
        BY <2>1, <4>1, QuotientIs
      <4> QED BY <4>1, <4>2 DEF t
    <3> QED BY <3>4 DEF r, d
  <2>4. Atomic!AddHalf(x, v) = (sum + v) % W
    <3> HIDE DEF W
    <3> QED BY <2>2, <2>3
  <2> QED BY <1>2, <2>4 DEF StandsFor
<1>3. CASE ~build.asU16
  <2>1. x = sum /\ Atomic!AddHalf(x, v) = Atomic!Round(x + v)
    BY <1>3 DEF StandsFor, Atomic!AddHalf
  <2>2. Atomic!Round(sum + v) = sum + v
    <3>1. sum + v \in Int
      OBVIOUS
    <3> QED BY <1>3, <3>1, RoundsTo
  <2> QED BY <1>3, <2>1, <2>2 DEF StandsFor
<1> QED BY <1>2, <1>3

(* The half of a word to which a pair was added. *)
LEMMA PlusHalves ==
  ASSUME NEW w, NEW v, NEW h \in 1 .. 2
  PROVE  Atomic!Plus(w, v)[h] = Atomic!AddHalf(w[h], v[h])
BY DEF Atomic!Plus

(* A sum has two halves. *)
LEMMA PlusPair ==
  ASSUME NEW w, NEW v
  PROVE  Atomic!Plus(w, v) = <<Atomic!Plus(w, v)[1], Atomic!Plus(w, v)[2]>>
BY DEF Atomic!Plus

(* An empty word stands for the empty sum, in either build. *)
LEMMA ZeroStands == ASSUME Powers, build \in Builds PROVE StandsFor(0, 0)
<1>1. build.bits \in Nat
  BY BuildsAssumption
<1> DEFINE W == 2^build.bits
<1>2. W \in Nat \ {0}
  BY <1>1 DEF Powers
<1>3. 0 % W = 0
  <2> HIDE DEF W
  <2> QED BY <1>2, SMT
<1> QED BY <1>3 DEF StandsFor

(* One more summand, where nothing is rounded. *)
LEMMA OneMore ==
  ASSUME Powers, build \in Builds, NeverRounds, NEW h \in 1 .. 2,
         NEW x, NEW sum \in Int, NEW v \in Int, StandsFor(x, sum),
         -Magnitude(h) <= sum + v, sum + v <= Magnitude(h), Magnitude(h) \in Nat
  PROVE  StandsFor(Atomic!AddHalf(x, v), sum + v)
<1>1. build.bits \in Nat
  BY BuildsAssumption
<1>2. 2^build.bits \in Nat
  BY <1>1 DEF Powers
<1>3. build.asU16 \/ Magnitude(h) < 2^build.bits
  BY DEF NeverRounds
<1>4. build.asU16 \/ (sum + v < 2^build.bits /\ -(sum + v) < 2^build.bits)
  BY <1>2, <1>3
<1> QED BY <1>4, AddHalfKeeps

(* Row after row, both halves stand for the sums of theirs. *)
LEMMA SequentialStands ==
  ASSUME Powers, build \in Builds, NeverRounds, NEW f1, NEW f2,
         Partial(f1, 1, DOMAIN build.inputs), Partial(f2, 2, DOMAIN build.inputs)
  PROVE  \E w1, w2 : /\ Atomic!Sequential = <<w1, w2>>
                     /\ StandsFor(w1, f1[Len(build.inputs)])
                     /\ StandsFor(w2, f2[Len(build.inputs)])
<1> DEFINE n == Len(build.inputs)
           D == DOMAIN build.inputs
           f(h) == IF h = 1 THEN f1 ELSE f2
<1>1. PICK F : Through(F, 0, n) /\ F[n] = Atomic!Sequential
  BY SequentialSteps
<1>2. n \in Nat /\ D = 1 .. n /\ \A i \in 1 .. n, h \in 1 .. 2 : build.inputs[i][h] \in Int
  BY BuildsAssumption
<1>3. F[0] = <<0, 0>> /\ \A i \in 1 .. n : F[i] = Atomic!Plus(F[i - 1], build.inputs[i])
  BY <1>1 DEF Through, Added
<1>4. \A h \in 1 .. 2 : Partial(f(h), h, D)
  OBVIOUS
<1> HIDE DEF f
<1>5. ASSUME NEW h \in 1 .. 2
      PROVE  /\ f(h) \in [0 .. n -> Int] /\ f(h)[0] = 0
             /\ \A i \in 1 .. n : f(h)[i] = f(h)[i - 1] + build.inputs[i][h]
             /\ Magnitude(h) \in Nat
             /\ \A i \in 0 .. n : -Magnitude(h) <= f(h)[i] /\ f(h)[i] <= Magnitude(h)
  <2>1. Partial(f(h), h, D)
    BY <1>4
  <2>2. /\ Magnitude(h) \in Nat
        /\ \A i \in 0 .. n : -Magnitude(h) <= f(h)[i] /\ f(h)[i] <= Magnitude(h)
    BY <2>1, Bounded
  <2> QED BY <1>2, <2>1, <2>2 DEF Partial
<1> HIDE DEF n, D
<1> DEFINE Good(i) == /\ F[i] = <<F[i][1], F[i][2]>>
                      /\ \A h \in 1 .. 2 : StandsFor(F[i][h], f(h)[i])
           T == {i \in 0 .. n : ~Good(i)}
<1>6. T = {}
  <2> SUFFICES ASSUME T # {} PROVE FALSE
    OBVIOUS
  <2>1. PICK i \in T : \A r \in T : i <= r
    <3>1. T \subseteq Nat
      BY <1>2
    <3> HIDE DEF T
    <3> QED BY <3>1, Smallest
  <2>2. i \in 0 .. n /\ ~Good(i)
    OBVIOUS
  <2>3. i # 0
    <3>1. \A h \in 1 .. 2 : F[0][h] = 0 /\ f(h)[0] = 0
      BY <1>3, <1>5
    <3>2. Good(0)
      BY <1>3, <3>1, ZeroStands
    <3> QED BY <2>2, <3>2
  <2>4. i \in 1 .. n /\ i - 1 \in 0 .. n /\ i - 1 \notin T
    BY <1>2, <2>1, <2>2, <2>3
  <2>5. Good(i - 1)
    BY <2>4
  <2>6. F[i] = Atomic!Plus(F[i - 1], build.inputs[i])
    BY <1>3, <2>4
  <2>7. ASSUME NEW h \in 1 .. 2 PROVE StandsFor(F[i][h], f(h)[i])
    <3> DEFINE sum == f(h)[i - 1]
               v == build.inputs[i][h]
    <3>1. StandsFor(F[i - 1][h], sum)
      BY <2>5
    <3>2. sum \in Int /\ v \in Int /\ f(h)[i] = sum + v /\ Magnitude(h) \in Nat
      BY <1>2, <1>5, <2>4
    <3>3. -Magnitude(h) <= f(h)[i] /\ f(h)[i] <= Magnitude(h)
      BY <1>5, <2>2
    <3>4. F[i][h] = Atomic!AddHalf(F[i - 1][h], v)
      BY <2>6, PlusHalves
    <3> HIDE DEF sum, v
    <3>5. StandsFor(Atomic!AddHalf(F[i - 1][h], v), sum + v)
      BY <3>1, <3>2, <3>3, OneMore
    <3> QED BY <3>2, <3>4, <3>5
  <2>8. F[i] = <<F[i][1], F[i][2]>>
    BY <2>6, PlusPair
  <2> QED BY <2>2, <2>7, <2>8
<1>7. Good(n)
  <2>1. n \in 0 .. n
    BY <1>2
  <2> QED BY <1>6, <2>1
<1>8. StandsFor(F[n][1], f1[n]) /\ StandsFor(F[n][2], f2[n]) /\ Atomic!Sequential = <<F[n][1], F[n][2]>>
  BY <1>1, <1>7 DEF f
<1> QED BY <1>8 DEF n

(* A thread that gets done adds its half to the sum of those that are. *)
Joins(f, h, S, t) ==
  LET n == Len(build.inputs)
      v == build.inputs[t][h]
  IN f[n] \in Int /\ v \in Int /\ \E g : Partial(g, h, S \cup {t}) /\ g[n] = f[n] + v

(* The sums over one thread more. *)
LEMMA AddOne ==
  ASSUME build \in Builds, NEW h \in 1 .. 2, NEW S, NEW f, Partial(f, h, S),
         NEW t \in DOMAIN build.inputs, t \notin S
  PROVE  Joins(f, h, S, t)
<1> DEFINE n == Len(build.inputs)
           In(i) == build.inputs[i][h]
           g == [i \in 0 .. n |-> IF i >= t THEN f[i] + In(t) ELSE f[i]]
<1>1. n \in Nat /\ t \in 1 .. n /\ \A i \in 1 .. n : In(i) \in Int
  BY BuildsAssumption
<1>2. /\ f \in [0 .. n -> Int] /\ f[0] = 0
      /\ \A i \in 1 .. n : f[i] = f[i - 1] + (IF i \in S THEN In(i) ELSE 0)
  BY DEF Partial
<1> HIDE DEF n, In
<1>3. g \in [0 .. n -> Int] /\ g[0] = 0
  BY <1>1, <1>2
<1>4. ASSUME NEW i \in 1 .. n
      PROVE  g[i] = g[i - 1] + (IF i \in S \cup {t} THEN In(i) ELSE 0)
  <2>1. i \in 0 .. n /\ i - 1 \in 0 .. n /\ f[i - 1] \in Int /\ f[i] \in Int /\ In(i) \in Int /\ In(t) \in Int
    BY <1>1, <1>2
  <2>2. /\ g[i] = IF i >= t THEN f[i] + In(t) ELSE f[i]
        /\ g[i - 1] = IF i - 1 >= t THEN f[i - 1] + In(t) ELSE f[i - 1]
    BY <2>1, Zenon
  <2>3. f[i] = f[i - 1] + (IF i \in S THEN In(i) ELSE 0)
    BY <1>2
  <2> HIDE DEF g
  <2>4. CASE i < t
    BY <1>1, <2>1, <2>2, <2>3, <2>4
  <2>5. CASE i = t
    BY <1>1, <2>1, <2>2, <2>3, <2>5
  <2>6. CASE i > t
    BY <1>1, <2>1, <2>2, <2>3, <2>6
  <2> QED BY <1>1, <2>4, <2>5, <2>6
<1>5. f[n] \in Int /\ In(t) \in Int /\ g[n] = f[n] + In(t)
  BY <1>1, <1>2
<1>6. Partial(g, h, S \cup {t})
  <2> HIDE DEF g
  <2> QED BY <1>3, <1>4 DEF Partial, n, In
<1> HIDE DEF g
<1> QED BY <1>5, <1>6, Zenon DEF Joins, n, In

-----------------------------------------------------------------------------

(* At any time the halves of the word stand for the sums over the threads that are
   done. *)
Done == {t \in DOMAIN build.inputs : pc[t] = "done"}

Sums ==
  /\ word = <<word[1], word[2]>>
  /\ NeverRounds => \A h \in 1 .. 2 : \E f :
       Partial(f, h, Done) /\ StandsFor(word[h], f[Len(build.inputs)])

(* Nothing is added at first. *)
LEMMA SumsInit == Powers /\ Init => Sums
<1> SUFFICES ASSUME Powers, Init PROVE Sums
  OBVIOUS
<1> DEFINE n == Len(build.inputs)
           f == [i \in 0 .. n |-> 0]
<1>1. build \in Builds /\ word = <<0, 0>>
  BY DEF Init, Atomic!Zero
<1>2. n \in Nat /\ DOMAIN build.inputs = 1 .. n
  BY <1>1, BuildsAssumption
<1>3. Done = {}
  BY <1>1 DEF Init, Done, Thread
<1>4. ASSUME NEW h \in 1 .. 2 PROVE Partial(f, h, Done) /\ StandsFor(word[h], f[n])
  <2>1. f \in [0 .. n -> Int] /\ f[0] = 0 /\ f[n] = 0 /\ \A i \in 1 .. n : f[i] = f[i - 1] + 0
    BY <1>2
  <2>2. word[h] = 0
    BY <1>1
  <2> HIDE DEF f
  <2>3. Partial(f, h, Done)
    BY <1>3, <2>1 DEF Partial
  <2> QED BY <1>1, <2>1, <2>2, <2>3, ZeroStands
<1> HIDE DEF f
<1> QED BY <1>1, <1>4 DEF Sums

(* What does not depend on the threads stays as it is. *)
LEMMA SameSums ==
  ASSUME build' = build
  PROVE  /\ NeverRounds' = NeverRounds
         /\ Len(build.inputs)' = Len(build.inputs)
         /\ \A f, h, S : Partial(f, h, S)' = Partial(f, h, S)
         /\ \A x, s : StandsFor(x, s)' = StandsFor(x, s)
<1>1. NeverRounds' = NeverRounds
  BY DEF NeverRounds, Magnitude, FoldLeft, MapThenFoldSet
<1>2. \A f, h, S : Partial(f, h, S)' = Partial(f, h, S)
  BY DEF Partial
<1>3. \A x, s : StandsFor(x, s)' = StandsFor(x, s)
  BY DEF StandsFor
<1> QED BY <1>1, <1>2, <1>3

(* An exchange that succeeds adds one pair; nothing else touches word or sums. *)
LEMMA SumsNext == Powers /\ IInv /\ Sums /\ [Next]_vars => Sums'
<1> SUFFICES ASSUME Powers, IInv, Sums, [Next]_vars PROVE Sums'
  OBVIOUS
<1>1. build \in Builds /\ pc \in [Thread -> {"load", "swap", "done"}]
  BY DEF IInv, Typed
<1>2. ASSUME build' = build, word' = word, Done' = Done PROVE Sums'
  BY <1>2, SameSums DEF Sums
<1>3. CASE UNCHANGED vars
  BY <1>2, <1>3 DEF vars, Done
<1>4. ASSUME NEW t \in Thread, Load(t) \/ Retreat(t) PROVE Sums'
  <2>1. build' = build /\ word' = word
    BY <1>4 DEF Load, Retreat
  <2>2. pc[t] # "done" /\ (pc' = [pc EXCEPT ![t] = "swap"] \/ pc' = pc)
    BY <1>4 DEF Load, Retreat
  <2>3. \A s \in DOMAIN build.inputs : s \in Thread
    BY <1>1 DEF Thread
  <2>4. Done' = Done
    BY <1>1, <2>1, <2>2, <2>3 DEF Done
  <2> QED BY <1>2, <2>1, <2>4
<1>5. ASSUME NEW t \in Thread, Swap(t) PROVE Sums'
  <2> DEFINE v == build.inputs[t]
             n == Len(build.inputs)
  <2>1. t \in DOMAIN build.inputs /\ pc[t] = "swap"
    BY <1>5 DEF IInv, Active, Swap
  <2>2. build' = build /\ word' = Atomic!Plus(word, v)
    BY <1>5 DEF IInv, Prepared, Swap, Expected
  <2>3. \A s \in DOMAIN build.inputs : s \in Thread
    BY <1>1 DEF Thread
  <2>4. t \notin Done /\ Done' = Done \cup {t}
    BY <1>1, <1>5, <2>1, <2>2, <2>3 DEF Swap, Done
  <2>5. word' = <<word'[1], word'[2]>>
    BY <2>2, PlusPair
  <2>6. ASSUME NeverRounds, NEW h \in 1 .. 2
        PROVE  \E f : Partial(f, h, Done') /\ StandsFor(word'[h], f[n])
    <3>1. PICK f : Partial(f, h, Done) /\ StandsFor(word[h], f[n])
      BY <2>6 DEF Sums
    <3>2. PICK g : /\ Partial(g, h, Done \cup {t}) /\ f[n] \in Int /\ v[h] \in Int
                   /\ g[n] = f[n] + v[h]
      <4>1. Joins(f, h, Done, t)
        BY <1>1, <2>1, <2>4, <3>1, AddOne
      <4> QED BY <4>1 DEF Joins
    <3>3. Magnitude(h) \in Nat /\ -Magnitude(h) <= g[n] /\ g[n] <= Magnitude(h)
      <4>1. n \in 0 .. n
        BY <1>1, BuildsAssumption
      <4> QED BY <1>1, <3>2, <4>1, Bounded
    <3>4. StandsFor(Atomic!AddHalf(word[h], v[h]), f[n] + v[h])
      BY <1>1, <2>6, <3>1, <3>2, <3>3, OneMore
    <3>5. word'[h] = Atomic!AddHalf(word[h], v[h])
      BY <2>2, PlusHalves
    <3> QED BY <2>4, <3>2, <3>4, <3>5
  <2> QED BY <2>2, <2>5, <2>6, SameSums DEF Sums
<1> QED BY <1>3, <1>4, <1>5 DEF Next, Step

(* When all threads are done the sums are those of all inputs. *)
LEMMA SumsImplyExact == Powers /\ IInv /\ Sums => ExactSum
<1> SUFFICES ASSUME Powers, IInv, Sums, Finished, NeverRounds PROVE word = Atomic!Sequential
  BY DEF ExactSum
<1> DEFINE n == Len(build.inputs)
           D == DOMAIN build.inputs
<1>1. build \in Builds /\ n \in Nat /\ D = 1 .. n
  BY BuildsAssumption DEF IInv, Typed
<1>2. Done = D
  BY <1>1 DEF Done, Finished, Thread
<1>3. \A h \in 1 .. 2 : \E f : Partial(f, h, D) /\ StandsFor(word[h], f[n])
  BY <1>2 DEF Sums
<1>4. PICK f1 : Partial(f1, 1, D) /\ StandsFor(word[1], f1[n])
  BY <1>3
<1>5. PICK f2 : Partial(f2, 2, D) /\ StandsFor(word[2], f2[n])
  BY <1>3
<1>6. PICK w1, w2 : /\ Atomic!Sequential = <<w1, w2>>
                    /\ StandsFor(w1, f1[n]) /\ StandsFor(w2, f2[n])
  BY <1>1, <1>4, <1>5, SequentialStands
<1>7. word[1] = w1 /\ word[2] = w2
  BY <1>4, <1>5, <1>6 DEF StandsFor
<1> QED BY <1>6, <1>7 DEF Sums

(* When all threads are done, the word is the sequential sum of the inputs, half by
   half, in whatever order they came, if the build's arithmetic never rounds them:
   unsigned halves always, bf16 halves as long as their magnitudes add up to less
   than the significand holds. *)
THEOREM ExactSums == ASSUME Powers PROVE Spec => []ExactSum
<1>1. Init => Sums
  BY SumsInit
<1>2. IInv /\ Sums /\ [Next]_vars => Sums'
  BY SumsNext
<1>3. IInv /\ Sums => ExactSum
  BY SumsImplyExact
<1>4. Spec => []IInv
  BY Invariance
<1> QED BY <1>1, <1>2, <1>3, <1>4, PTL DEF Spec

=============================================================================
