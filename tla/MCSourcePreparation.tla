------------------------- MODULE MCSourcePreparation -------------------------
(***************************************************************************)
(* Small instances of SourcePreparation for TLC.                           *)
(***************************************************************************)
EXTENDS SourcePreparation, TLC

CONSTANTS w1, w2

WorkerSymmetry == Permutations(Workers)

=============================================================================
