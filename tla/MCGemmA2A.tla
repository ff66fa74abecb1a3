----------------------------- MODULE MCGemmA2A -----------------------------
(***************************************************************************)
(* The modes the programs offer: bulk or chunk-fused output, under the     *)
(* serial or the parallel schedule, the two LSA outputs, and the reduction *)
(* of partial sums.                                                        *)
(***************************************************************************)
EXTENDS GemmA2A

AllModes == {"bulk", "chunk"} \X {"serial", "parallel"} \cup {"direct", "split", "reduce"} \X {"serial"}

=============================================================================
