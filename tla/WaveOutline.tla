---------------------------- MODULE WaveOutline ----------------------------
(***************************************************************************)
(* Proof outlines of programs for WaveLds, after Owicki and Gries: for     *)
(* each wave and each place in its code the states the wave may be in      *)
(* there, and how many barriers it has passed.  The conditions on an       *)
(* outline look at one instruction of one wave, and at the places where    *)
(* barriers let another one be at the time: no interleaving is gone        *)
(* through, and none need be.                                              *)
(*                                                                         *)
(*   o.at[w][i]      states of wave w before its i-th instruction          *)
(*   o.behind[w][i]  the same, when another wave has passed more barriers  *)
(*   o.epoch[w][i]   barriers wave w has passed by then                    *)
(***************************************************************************)
EXTENDS WaveStep

Places(code) == 1 .. Len(code) + 1

(* Before a barrier, and at its end, a wave may be left behind. *)
Rests(code, i) == i = Len(code) + 1 \/ code[i].op = "bar"

(* Where the other waves may be when wave w executes its i-th instruction, unless
   it is a barrier: between the same two barriers, or about to follow.  None is
   ahead, since then wave w would rest. *)
Meets(o, code, w, i) ==
  {x \in UNION {{v} \X Places(code[v]) : v \in DOMAIN code \ {w}} :
     LET v == x[1] j == x[2]
     IN \/ o.epoch[v][j] = o.epoch[w][i]
        \/ o.epoch[v][j] < o.epoch[w][i] /\ j = Len(code[v]) + 1
        \/ o.epoch[v][j] + 1 = o.epoch[w][i] /\ code[v][j].op = "bar"}

(* The states it finds them in. *)
Found(o, now, v, j) == IF o.epoch[v][j] < now THEN o.behind[v][j] ELSE o.at[v][j]

(* What a read of wave w at place i may bring if the wave is in state m: the parts
   must agree, and may differ if there are different ones to be seen. *)
Visible(o, p, w, i, m) ==
  LET s == p.code[w][i].slot
      now == o.epoch[w][i]
      own == IF s \in DOMAIN m.lds THEN {m.lds[s]} ELSE {}
      shown(v, j) == {Shown(n, s, now, p.reads) : n \in {k \in Found(o, now, v, j) : s \in DOMAIN k.lds}}
      parts == own \cup UNION {shown(x[1], x[2]) : x \in Meets(o, p.code, w, i)}
  IN IF \A x, y \in parts : x = y THEN parts ELSE parts \cup {Torn}

(* The states instruction i takes wave m to; a read brings one of these. *)
Outcomes(m, i, now, p, visible) ==
  CASE i.op = "fetch" -> {HasFetched(m, i, now, p.reads)}
    [] i.op = "store" -> {HasStored(m, i, now)}
    [] i.op = "pull" -> {HasPulled(m, i, now)}
    [] i.op = "scalar" -> {HasPulledScalar(m, i, now)}
    [] i.op = "read" -> {HasRead(m, i, now, x) : x \in visible}
    [] i.op = "vm" -> {LoadsAwaited(m, i.left, p.ordered)}
    [] i.op = "lgkm" -> {ReadsAwaited(m, i.left)}
    [] i.op = "bar" -> {PastBarrier(m, now + 1, p.latency)}
    [] i.op \in {"signal", "await"} -> {m}
    [] OTHER -> Computed(m, i, p.swift)

(* What is left of wave m when another one executes instruction i. *)
Aftermath(m, i, now, p) ==
  IF i.op = "fetch" THEN Spoilt(m, {i.slot}, now, p.reads) ELSE Overwritten(m, i, now, p.reads)

(* Every instruction leads to the states of the next place. *)
Leads(o, p, w, i) ==
  LET now == o.epoch[w][i]
      code == p.code[w]
  IN /\ o.epoch[w][i + 1] = now + IF code[i].op = "bar" THEN 1 ELSE 0
     /\ \A m \in o.at[w][i] \cup IF code[i].op = "bar" THEN o.behind[w][i] ELSE {} :
          Outcomes(m, code[i], now, p, IF code[i].op = "read" THEN Visible(o, p, w, i, m) ELSE {})
            \subseteq o.at[w][i + 1]

(* Wherever the other waves may be meanwhile, loads and stores leave them in the
   states of their places. *)
Spares(o, p, w, i) ==
  p.code[w][i].op \in {"fetch", "store"} =>
    \A x \in Meets(o, p.code, w, i) :
      LET states == Found(o, o.epoch[w][i], x[1], x[2])
      IN \A m \in states : Aftermath(m, p.code[w][i], o.epoch[w][i], p) \in states

(* The sums of a wave at place i are beginnings of what the program wants, and all
   of it at the end. *)
SumsUp(o, p, w, i) ==
  \A m \in o.at[w][i] \cup o.behind[w][i] : \A r \in DOMAIN p.want[w] :
    /\ IsPrefix(m.reg[r].terms, p.want[w][r])
    /\ i = Len(p.code[w]) + 1 => m.reg[r].terms = p.want[w][r]

(* What is read is loaded by somebody. *)
Provided(code) ==
  \A w \in DOMAIN code : \A i \in DOMAIN code[w] :
    code[w][i].op = "read" => \E v \in DOMAIN code : code[w][i].slot \in OwnSlots(code[v])

Proves(o, p) ==
  /\ Provided(p.code)
  /\ \A w \in DOMAIN p.code :
       /\ p.code[w] \in Seq(ToSet(p.code[w]))
       /\ Starting(p.code[w], p.start[w]) \in o.at[w][1] /\ o.epoch[w][1] = 0
       /\ \A i \in DOMAIN p.code[w] : Leads(o, p, w, i) /\ Spares(o, p, w, i)
       /\ \A i \in Places(p.code[w]) :
            /\ Rests(p.code[w], i) => o.at[w][i] \subseteq o.behind[w][i]
            /\ SumsUp(o, p, w, i)
            /\ \A m \in o.at[w][i] \cup o.behind[w][i] : DOMAIN m.lds = OwnSlots(p.code[w])

=============================================================================
