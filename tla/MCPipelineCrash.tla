-------------------------- MODULE MCPipelineCrash --------------------------
(***************************************************************************)
(* Faults that interrupt the tasks of an analysis: of a text artifact and  *)
(* an image, with lost workers, redeliveries and exceptions; and of two    *)
(* text artifacts, with a broker that fails when only a part of the        *)
(* messages is sent.  A behaviour is one of a single part.                 *)
(***************************************************************************)
EXTENDS AnalysisPipeline, TLC

CONSTANTS
    Parts,      \* the parts of this run
    text, image, w1, w2

VARIABLE part

BothLength == text :> 1 @@ image :> 1
OneBatch == {1}

\* Both artifacts are texts.  They are interchangeable here, so that what holds of
\* the one that is a text in both parts holds of the other.
Texts == INSTANCE AnalysisPipeline
           WITH Images <- {}, Captured <- {}, MaxTries <- 0, MaxGen <- 2,
                Faults <- {"publish"}, FaultLimit <- 1

MCInit == part \in Parts /\ Init

MCNext == /\ UNCHANGED part
          /\ \/ part = "image" /\ Next
             \/ part = "texts" /\ Texts!Next

MCSpec == MCInit /\ [][MCNext]_<<part, vars>>

\* Worker slots are interchangeable.
WorkerSymmetry == Permutations(Workers)

=============================================================================
