----------------------------- MODULE MlaLoops -----------------------------
(***************************************************************************)
(* Decoding with latent attention as programs for WaveLds.  A tile of      *)
(* sixteen tokens is both keys and values.  In the sparse kernels tokens   *)
(* are what a query's list of indices says, by tile, and Missing where all *)
(* indices of a tile are invalid; the first wave looks them up and leaves  *)
(* their addresses in LDS for all.                                         *)
(*                                                                         *)
(* Of the groups of heads that share a tile one is modelled, and two of    *)
(* the four waves of the split kernel, all of which compute the same.      *)
(***************************************************************************)
EXTENDS AttnLoops

Latent == <<"latent">>       (* sKV_T                                      *)
Addresses == <<"addresses">> (* sTokPtrs                                   *)
Queries == <<"Q">>

TakeLatent(r) == <<Read(<<r>>, Latent, 1)>>

LoadQueries == <<Pull(<<"new">>, Queries, 1), Store(Queries, <<"new">>, {})>> \o Sync
TakeQueries == <<Read(<<"q">>, Queries, 1)>>

(* The scores of a tile; which queries they are of is noted by itself. *)
LatentScores == TakeLatent("k") \o <<Add(<<"queries">>, << <<"q">> >>)>> \o Scores(0)
Asked(n) == <<"queries">> :> [t \in 1 .. n |-> <<Queries>>]

(* The running maximum of these scores, and the output. *)
OnlineSoftmax(raise, finish) ==
  <<raise, ScaleO, ScaleL, finish>> \o TakeLatent("v") \o Values

(***************************************************************************)
(* Dense: every token of a range, of n tiles.                              *)
(***************************************************************************)

flash_mla_decode_kernel(n, ragged) ==
  LoadQueries
  \o Chain(LAMBDA t :
             <<Pull(<<"new">>, V(t), 1), Store(Latent, <<"new">>, {})>> \o Sync
             \o TakeQueries \o LatentScores
             \o Onlyif(ragged /\ t = n - 1, <<Mask(S(0), t)>>)
             \o OnlineSoftmax(Raise(S(0)), Finish(S(0))) \o Sync,
           0, n - 1, 1)
  \o <<Normalize>>

DenseSums(n, ragged) ==
  LET weights(t) == [tile |-> V(t), masks |-> IF ragged /\ t = n - 1 THEN {t} ELSE {}]
  IN <<"l">> :> [t \in 1 .. n |-> weights(t - 1)]
     @@ <<"o">> :> [t \in 1 .. n |-> <<weights(t - 1), V(t - 1)>>] \o <<Normalized>>
     @@ Asked(n)

(***************************************************************************)
(* Sparse.                                                                 *)
(***************************************************************************)

LookUp(w, tokens) ==
  Onlyif(w = 0, <<Pull(<<"mine">>, tokens, 1), Store(Addresses, <<"mine">>, {})>>) \o Sync

LoadLatent ==
  <<Read(<<"at">>, Addresses, 1), Calc(<<"new">>, << <<"at">> >>), Store(Latent, <<"new">>, {})>> \o Sync

SparseTiles(w, tokens, queries) ==
  Chain(LAMBDA t :
          LookUp(w, tokens[t]) \o LoadLatent \o queries \o LatentScores
          \o <<Read(<<"at">>, Addresses, 1), Invalid(S(0), <<"at">>)>>
          \o OnlineSoftmax(Guarded(Raise(S(0))), Guarded(Finish(S(0)))) \o Sync,
        1, Len(tokens), 1)

(* The queries go through the memory of the tiles into registers. *)
StageQueries ==
  <<Pull(<<"new">>, Queries, 1), Store(Latent, <<"new">>, {})>> \o Sync
  \o TakeLatent("q") \o Sync

flash_mla_sparse_decode_kernel(tokens) ==
  StageQueries \o SparseTiles(0, tokens, <<>>) \o <<Normalize, Lse>>

(* One split of the tokens; all waves compute, the first one writes. *)
flash_mla_sparse_decode_splitk_kernel(w, tokens) ==
  LoadQueries \o SparseTiles(w, tokens, TakeQueries) \o Onlyif(w = 0, <<Normalize, Lse>>)

Present(entries) == SelectSeq(entries, LAMBDA x : x # Missing)
Weight(x) == [tile |-> <<x>>, masks |-> {x}]

SparseSums(w, tokens) ==
  LET valid == Present(tokens)
      weights == [t \in DOMAIN valid |-> Weight(valid[t])]
  IN <<"l">> :> weights
     @@ <<"o">> :> [t \in DOMAIN valid |-> <<weights[t], <<valid[t]>> >>] \o Onlyif(w = 0, <<Normalized>>)
     @@ Onlyif(w = 0, <<"lse">> :> weights) @@ Asked(Len(tokens))

(***************************************************************************)
(* The splits' results put together: parts[s] is Missing where no token of *)
(* split s was valid, so that its logarithm is minus infinity.             *)
(***************************************************************************)

PartLse(s, parts) ==
  <<Pull(<<"part">>, parts[s], 1), Score(S(0), << <<"part">> >>), Invalid(S(0), <<"part">>)>>

flash_mla_sparse_combine_kernel(parts) ==
  Chain(LAMBDA s : PartLse(s, parts) \o <<Raise(S(0))>>, 1, Len(parts), 1)
  \o <<ZeroSum(<<"o">>), ZeroSum(<<"l">>)>>
  \o Chain(LAMBDA s : PartLse(s, parts) \o <<Begin(S(0)), Finish(S(0)), Pull(<<"v">>, parts[s], 1)>> \o Values,
           1, Len(parts), 1)
  \o <<Normalize, Lse>>

CombinedSums(parts) ==
  LET valid == Present(parts)
      weights == [s \in DOMAIN valid |-> [tile |-> valid[s], masks |-> {valid[s]}]]
  IN <<"l">> :> weights @@ <<"lse">> :> weights
     @@ <<"o">> :> [s \in DOMAIN valid |-> <<weights[s], valid[s]>>] \o <<Normalized>>

=============================================================================
