------------------------------ MODULE WaveLds ------------------------------
(***************************************************************************)
(* The waves of one workgroup running a software-pipelined kernel: loads   *)
(* from global memory that go to LDS behind the wave's back, reads of LDS  *)
(* that are still under way when the next instruction issues, counted      *)
(* waits, and workgroup barriers.                                          *)
(*                                                                         *)
(* Nothing in such a kernel names the load it waits for.  A wave waits     *)
(* until at most n of its own loads are outstanding, a barrier then stands *)
(* for everybody having done so, and a slot of LDS is loaded again as soon *)
(* as the author believes that its last reader is through.  What can go    *)
(* wrong is that a slot is read while a part of it is on its way, or       *)
(* loaded while somebody still reads it: what is read then is Torn.        *)
(*                                                                         *)
(* Two waves are enough to find the pair that clashes: a third one could   *)
(* only make them wait longer at the barriers.  Where waves that load and  *)
(* waves that compute signal each other all eight are there.               *)
(***************************************************************************)
EXTENDS WaveStep, TileOrder

CONSTANT
  Programs    (* what may run: the code of each wave, the contents its     *)
              (* registers start with, what it is to compute, and the      *)
              (* shapes a launch of such workgroups may have               *)

VARIABLES
  kernel,     (* what is to be computed; whether loads land in order; what *)
              (* is assumed of time, if anything: how long a load into     *)
              (* some slots of LDS and an access of LDS take, in barriers, *)
              (* and whether a read is swift, done within the next         *)
              (* product; and shapes                                       *)
  todo,       (* instructions each wave has yet to execute                 *)
  wave,       (* each wave, as WaveStep has it                             *)
  passed,     (* barriers each wave has passed                             *)
  signals,    (* signals each named barrier has been given                 *)
  heard       (* how often each wave has waited for a named barrier        *)

vars == <<kernel, todo, wave, passed, signals, heard>>

Wave == 0 .. 7
NamedBarrier == {1, 2}

(* The waves of the workgroup: the first two, or all. *)
Crew == DOMAIN todo

Ended(w) == todo[w] = <<>>
At(w) == Head(todo[w])
Op(w) == IF Ended(w) THEN "end" ELSE At(w).op

Init ==
  \E p \in Programs :
    /\ kernel = [want |-> p.want, ordered |-> p.ordered, latency |-> p.latency, reads |-> p.reads,
                 swift |-> p.swift, launch |-> p.launch]
    /\ todo = p.code
    /\ wave = [w \in DOMAIN p.code |-> Starting(p.code[w], p.start[w])]
    /\ passed = [w \in DOMAIN p.code |-> 0]
    /\ signals = [b \in NamedBarrier |-> 0]
    /\ heard = [w \in DOMAIN p.code |-> [b \in NamedBarrier |-> 0]]

Advance(w) == todo' = [todo EXCEPT ![w] = Tail(@)] /\ UNCHANGED kernel

(***************************************************************************)
(* The instructions.                                                       *)
(***************************************************************************)

FetchSlot(w) ==
  /\ Op(w) = "fetch"
  /\ LET i == At(w)
     IN wave' = [v \in Crew |-> IF v = w THEN HasFetched(wave[w], i, passed[w], kernel.reads)
                                ELSE Spoilt(wave[v], {i.slot}, passed[w], kernel.reads)]
  /\ Advance(w)
  /\ UNCHANGED <<passed, signals, heard>>

StoreSlot(w) ==
  /\ Op(w) = "store"
  /\ LET i == At(w)
     IN wave' = [v \in Crew |-> IF v = w THEN HasStored(wave[w], i, passed[w])
                                ELSE Overwritten(wave[v], i, passed[w], kernel.reads)]
  /\ Advance(w)
  /\ UNCHANGED <<passed, signals, heard>>

PullRegister(w) ==
  /\ Op(w) = "pull"
  /\ wave' = [wave EXCEPT ![w] = HasPulled(@, At(w), passed[w])]
  /\ Advance(w)
  /\ UNCHANGED <<passed, signals, heard>>

PullScalarRegister(w) ==
  /\ Op(w) = "scalar"
  /\ wave' = [wave EXCEPT ![w] = HasPulledScalar(@, At(w), passed[w])]
  /\ Advance(w)
  /\ UNCHANGED <<passed, signals, heard>>

(* The waves that load or store slot s for a part. *)
Loaders(s) == {v \in Crew : s \in DOMAIN wave[v].lds}

ReadSlot(w) ==
  /\ Op(w) = "read"
  /\ LET i == At(w)
         part(v) == IF v = w THEN wave[w].lds[i.slot] ELSE Shown(wave[v], i.slot, passed[w], kernel.reads)
     IN wave' = [wave EXCEPT ![w] = HasRead(@, i, passed[w], Agreed({part(v) : v \in Loaders(i.slot)}))]
  /\ Advance(w)
  /\ UNCHANGED <<passed, signals, heard>>

WaitLoads(w) ==
  /\ Op(w) = "vm"
  /\ wave' = [wave EXCEPT ![w] = LoadsAwaited(@, At(w).left, kernel.ordered)]
  /\ Advance(w)
  /\ UNCHANGED <<passed, signals, heard>>

WaitReads(w) ==
  /\ Op(w) = "lgkm"
  /\ wave' = [wave EXCEPT ![w] = ReadsAwaited(@, At(w).left)]
  /\ Advance(w)
  /\ UNCHANGED <<passed, signals, heard>>

(* A barrier lets a wave through once every other one has reached it; a wave
   that has ended is not waited for. *)
Released(w) ==
  \A v \in Crew \ {w} :
    \/ Ended(v)
    \/ passed[v] > passed[w]
    \/ passed[v] = passed[w] /\ Op(v) = "bar"

Barrier(w) ==
  /\ Op(w) = "bar"
  /\ Released(w)
  /\ passed' = [passed EXCEPT ![w] = @ + 1]
  /\ wave' = [wave EXCEPT ![w] = PastBarrier(@, passed[w] + 1, kernel.latency)]
  /\ Advance(w)
  /\ UNCHANGED <<signals, heard>>

(* A named barrier is complete whenever another count of its members' signals
   has come in; nobody waits for the same completion twice. *)
Signal(w) ==
  /\ Op(w) = "signal"
  /\ signals' = [signals EXCEPT ![At(w).barrier] = @ + 1]
  /\ Advance(w)
  /\ UNCHANGED <<wave, passed, heard>>

AwaitSignals(w) ==
  /\ Op(w) = "await"
  /\ LET b == At(w).barrier
     IN /\ signals[b] >= (heard[w][b] + 1) * At(w).members
        /\ heard' = [heard EXCEPT ![w][b] = @ + 1]
  /\ Advance(w)
  /\ UNCHANGED <<wave, passed, signals>>

Compute(w) ==
  /\ Op(w) \notin {"fetch", "store", "pull", "scalar", "read", "vm", "lgkm", "bar", "signal", "await", "end"}
  /\ \E m \in Computed(wave[w], At(w), kernel.swift) : wave' = [wave EXCEPT ![w] = m]
  /\ Advance(w)
  /\ UNCHANGED <<passed, signals, heard>>

Step(w) ==
  \/ FetchSlot(w)
  \/ StoreSlot(w)
  \/ PullRegister(w)
  \/ PullScalarRegister(w)
  \/ ReadSlot(w)
  \/ WaitLoads(w)
  \/ WaitReads(w)
  \/ Barrier(w)
  \/ Signal(w)
  \/ AwaitSignals(w)
  \/ Compute(w)

AllEnded == (\A w \in Crew : Ended(w)) /\ UNCHANGED vars

Next == (\E w \in Wave : w \in Crew /\ Step(w)) \/ AllEnded

Spec == Init /\ [][Next]_vars

-----------------------------------------------------------------------------

(* Whatever an accumulator of a wave has been given so far is the beginning of
   what the kernel is to compute there: every tile of the K dimension once, in
   order, against the matching tile of the other operand, nothing Torn.  When
   the wave has ended it is all of it. *)
RightSums ==
  \A w \in Crew : \A r \in DOMAIN kernel.want[w] :
    /\ IsPrefix(wave[w].reg[r].terms, kernel.want[w][r])
    /\ Ended(w) => wave[w].reg[r].terms = kernel.want[w][r]

(* A wave that has ended has no load on its way to LDS, which may belong to
   another workgroup by then; and when all have, the groups that ran a barrier
   apart have passed equally many. *)
EndsClean ==
  /\ \A w \in Crew : Ended(w) => \A e \in ToSet(wave[w].vm) : e.slot = <<>>
  /\ (\A w \in Crew : Ended(w)) => \A v, w \in Crew : passed[v] = passed[w]

(* What a kernel has to be for EndsClean to hold: what it counts with are numbers,
   every wave goes through as many barriers, and waits for all its loads some time
   after the last one into LDS. *)
Executable(code) ==
  /\ code \in Seq(ToSet(code))
  /\ \A i \in DOMAIN code :
       /\ code[i].op \in {"fetch", "pull"} => code[i].count \in Nat \ {0}
       /\ code[i].op = "vm" => code[i].left \in Nat

Bars(code) == Cardinality({i \in DOMAIN code : code[i].op = "bar"})
Balanced(p) == \A v, w \in DOMAIN p.code : Bars(p.code[v]) = Bars(p.code[w])

Drains(code, i) == \E j \in DOMAIN code : j > i /\ code[j].op = "vm" /\ code[j].left = 0
Drained(code) == \A i \in DOMAIN code : code[i].op = "fetch" => Drains(code, i)

(* The workgroups of a launch, each on the tile its number stands for, compute
   every output tile, or walk through every K tile, exactly once. *)
EachTileOnce == (\A w \in Crew : Ended(w)) => \A s \in kernel.launch : Covers(s)

=============================================================================
