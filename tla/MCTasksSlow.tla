---------------------------- MODULE MCTasksSlow ----------------------------
(***************************************************************************)
(* Workers that are slow, so that recovery demotes them while they run: in *)
(* the pipeline with an image, and with a text artifact; the other one is  *)
(* skipped.  A behaviour is one of a single part.                          *)
(***************************************************************************)
EXTENDS AnalysisPipeline, TLC

CONSTANTS
    Parts,      \* the parts of this run
    text, image, w1, w2

VARIABLE part

TwoLong == text :> 2 @@ image :> 2
TwoBatches == {1, 2}

\* The text meets more faults.
Text == INSTANCE AnalysisPipeline
          WITH Faults <- {"crash", "heartbeat", "exception"}

MCInit == /\ part \in Parts /\ Init
          /\ art[IF part = "text" THEN image ELSE text] = "skipped"

MCNext == /\ UNCHANGED part
          /\ \/ part = "text" /\ Text!Next
             \/ part = "image" /\ Next

MCSpec == MCInit /\ [][MCNext]_<<part, vars>>

\* Worker slots are interchangeable.
WorkerSymmetry == Permutations(Workers)
=============================================================================
