----------------------------- MODULE Outlining -----------------------------
(***************************************************************************)
(* An outline for a program, put together from barrier to barrier: between *)
(* two of them each wave goes on alone, with what it may see of the others *)
(* where the barrier found them, and with what their stores may leave of   *)
(* it.  Whether the result is an outline is for Proves to say.             *)
(***************************************************************************)
EXTENDS WaveOutline, FiniteSetsExt

(* Barriers passed at each place. *)
Epochs(code) ==
  LET bars == {i \in DOMAIN code : code[i].op = "bar"}
  IN <<0>> \o [i \in DOMAIN code |-> Cardinality({j \in bars : j <= i})]

(* What the stores that others execute e barriers on may leave of these states of
   wave w. *)
Disturbed(p, epoch, w, e, states) ==
  LET stores == UNION {{x \in {v} \X DOMAIN p.code[v] : p.code[v][x[2]].op = "store" /\ epoch[v][x[2]] = e} :
                         v \in DOMAIN p.code \ {w}}
  IN states \cup {Aftermath(m, p.code[x[1]][x[2]], e, p) : m \in states, x \in stores}

(* And all those from then on. *)
RECURSIVE Later(_, _, _, _, _)
Later(p, epoch, w, e, states) ==
  IF \A v \in DOMAIN p.code : e > epoch[v][Len(epoch[v])] THEN states
  ELSE Later(p, epoch, w, e + 1, Disturbed(p, epoch, w, e, states))

LeftBehind(p, epoch, w, i, states) ==
  IF i = Len(p.code[w]) + 1 THEN Later(p, epoch, w, epoch[w][i] + 1, states)
  ELSE IF p.code[w][i].op = "bar" THEN Disturbed(p, epoch, w, epoch[w][i] + 1, states)
  ELSE {}

(* Wave w, outlined as far as t, executes one more instruction; then has the states
   in which the last barrier found the waves. *)
GoOn(p, epoch, then, w, t) ==
  LET k == Len(t.at)
      i == p.code[w][k]
      now == epoch[w][k]
      shown(v) == {Shown(n, i.slot, now, p.reads) : n \in {m \in then[v] : i.slot \in DOMAIN m.lds}}
      own(m) == IF i.slot \in DOMAIN m.lds THEN {m.lds[i.slot]} ELSE {}
      seen == UNION {shown(v) : v \in DOMAIN p.code \ {w}}
      visible(m) == IF i.op = "read" THEN own(m) \cup seen ELSE {}
      from == IF i.op = "bar" THEN t.behind[k] ELSE t.at[k]
      next == Disturbed(p, epoch, w, epoch[w][k + 1], UNION {Outcomes(m, i, now, p, visible(m)) : m \in from})
  IN [at |-> Append(t.at, next), behind |-> Append(t.behind, LeftBehind(p, epoch, w, k + 1, next))]

(* As far as place k, by halves. *)
RECURSIVE GoTo(_, _, _, _, _, _)
GoTo(p, epoch, then, w, k, t) ==
  CASE Len(t.at) = k -> t
    [] Len(t.at) + 1 = k -> GoOn(p, epoch, then, w, t)
    [] OTHER -> GoTo(p, epoch, then, w, k, GoTo(p, epoch, then, w, (Len(t.at) + k) \div 2, t))

(* All waves that have not ended, through their next barriers. *)
RECURSIVE Grown(_, _, _)
Grown(p, epoch, t) ==
  LET open == {w \in DOMAIN t : Len(t[w].at) <= Len(p.code[w])}
      then == [w \in DOMAIN t |-> t[w].at[Len(t[w].at)]]
      bars(w) == {i \in DOMAIN p.code[w] : i >= Len(t[w].at) /\ p.code[w][i].op = "bar"}
      end(w) == 1 + IF bars(w) = {} THEN Len(p.code[w]) ELSE Min(bars(w))
  IN IF open = {} THEN t
     ELSE Grown(p, epoch, FoldSet(LAMBDA w, u : (w :> GoTo(p, epoch, then, w, end(w), t[w])) @@ u, t, open))

Outline(p) ==
  LET epoch == FoldSet(LAMBDA w, u : (w :> Epochs(p.code[w])) @@ u, <<>>, DOMAIN p.code)
      first(w) == {Starting(p.code[w], p.start[w])}
      t == Grown(p, epoch, [w \in DOMAIN p.code |->
                              [at |-> <<first(w)>>, behind |-> <<LeftBehind(p, epoch, w, 1, first(w))>>]])
  IN [at |-> [w \in DOMAIN t |-> t[w].at], behind |-> [w \in DOMAIN t |-> t[w].behind], epoch |-> epoch]

=============================================================================
