------------------------- MODULE MCAnalysisPipeline -------------------------
(***************************************************************************)
(* Small instances of AnalysisPipeline for TLC: a text artifact and an     *)
(* image of one batch each, or an image of two.                            *)
(***************************************************************************)
EXTENDS AnalysisPipeline, TLC

CONSTANTS text, image, w1, w2

ImageLength == image :> 2
BothLength  == text :> 1 @@ image :> 1
OneBatch == {1}
TwoBatches == {1, 2}

\* Worker slots are interchangeable.
WorkerSymmetry == Permutations(Workers)

=============================================================================
