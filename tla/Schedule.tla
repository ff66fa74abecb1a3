------------------------------ MODULE Schedule ------------------------------
(***************************************************************************)
(* One schedule of a program for WaveLds: in an order of preference among  *)
(* its waves, each goes on as far as barriers let it.  That a program ends *)
(* right so says nothing of other schedules; that it ends wrong says it    *)
(* all.  A state t has the instructions a wave has yet to execute (t.todo),*)
(* the wave (t.wave) and the barriers it has passed (t.passed).            *)
(***************************************************************************)
EXTENDS WaveOutline, FiniteSetsExt

Able(t, w) ==
  /\ t.todo[w] # <<>>
  /\ Head(t.todo[w]).op = "bar" =>
       \A v \in DOMAIN t.todo \ {w} :
         \/ t.todo[v] = <<>>
         \/ t.passed[v] > t.passed[w]
         \/ t.passed[v] = t.passed[w] /\ Head(t.todo[v]).op = "bar"

(* What wave w reads in slot s. *)
Seen(t, p, w, s) ==
  LET loaders == {v \in DOMAIN t.wave : s \in DOMAIN t.wave[v].lds}
  IN Agreed({IF v = w THEN t.wave[w].lds[s] ELSE Shown(t.wave[v], s, t.passed[w], p.reads) : v \in loaders})

(* Wave w executes an instruction, with one of its outcomes. *)
Executed(t, p, w) ==
  LET i == Head(t.todo[w])
      now == t.passed[w]
      visible == IF i.op = "read" THEN {Seen(t, p, w, i.slot)} ELSE {}
      after(v) == IF v = w THEN CHOOSE m \in Outcomes(t.wave[w], i, now, p, visible) : TRUE
                  ELSE IF i.op \in {"fetch", "store"} THEN Aftermath(t.wave[v], i, now, p)
                  ELSE t.wave[v]
  IN [todo |-> (w :> Tail(t.todo[w])) @@ t.todo,
      passed |-> (w :> IF i.op = "bar" THEN now + 1 ELSE now) @@ t.passed,
      wave |-> FoldSet(LAMBDA v, u : (v :> after(v)) @@ u, <<>>, DOMAIN t.wave)]

(* So many steps, by halves, unless no wave can go on. *)
RECURSIVE Driven(_, _, _, _)
Driven(t, p, order, steps) ==
  LET able == SelectSeq(order, LAMBDA w : Able(t, w))
  IN CASE able = <<>> -> t
       [] able # <<>> /\ steps = 1 -> Executed(t, p, able[1])
       [] OTHER -> Driven(Driven(t, p, order, steps \div 2), p, order, steps - steps \div 2)

Instructions(code) == FoldSet(LAMBDA w, n : n + Len(code[w]), 0, DOMAIN code)

(* Waves that are in front of others in the order run ahead of them. *)
EndsWrong(p, order) ==
  LET start == [todo |-> p.code, passed |-> [w \in DOMAIN p.code |-> 0],
                wave |-> [w \in DOMAIN p.code |-> Starting(p.code[w], p.start[w])]]
      end == Driven(start, p, order, Instructions(p.code))
  IN \E w \in DOMAIN p.want : \E r \in DOMAIN p.want[w] : end.wave[w].reg[r].terms # p.want[w][r]

GoesWrong(p) ==
  LET upwards == [n \in 1 .. Cardinality(DOMAIN p.code) |-> n - 1]
  IN EndsWrong(p, upwards) \/ EndsWrong(p, Reverse(upwards))

=============================================================================
