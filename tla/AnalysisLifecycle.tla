-------------------------- MODULE AnalysisLifecycle -------------------------
(***************************************************************************)
(* What the pipeline promises of one analysis, without its workers,        *)
(* messages, locks and faults: attempts that may be given up and begun     *)
(* again, and one outcome.  A report appears only when the analysis        *)
(* completes, and holds all the evidence of some artifacts, each batch     *)
(* once, and none of the others (they were skipped or could not be read).  *)
(***************************************************************************)
EXTENDS Naturals

CONSTANTS Artifacts, Batches, Length

VARIABLES
    phase,      \* pending, processing, completed, failed or cancelled
    attempt,    \* how many times processing has begun
    report      \* report[a][b]: copies of batch b of a in the published report

vars == <<phase, attempt, report>>

Nothing  == [a \in Artifacts |-> [b \in Batches |-> 0]]
Whole(S) == [a \in Artifacts |-> [b \in Batches |->
               IF a \in S /\ b <= Length[a] THEN 1 ELSE 0]]

Init == phase = "pending" /\ attempt = 0 /\ report = Nothing

Begin ==
    /\ phase = "pending"
    /\ phase' = "processing"
    /\ attempt' = attempt + 1
    /\ UNCHANGED report

GiveUp ==
    /\ phase = "processing"
    /\ phase' = "pending"
    /\ UNCHANGED <<attempt, report>>

Complete ==
    /\ phase = "processing"
    /\ phase' = "completed"
    /\ \E S \in SUBSET Artifacts : report' = Whole(S)
    /\ UNCHANGED attempt

Abandon ==
    /\ phase \in {"pending", "processing"}
    /\ phase' \in {"failed", "cancelled"}
    /\ UNCHANGED <<attempt, report>>

Next == Begin \/ GiveUp \/ Complete \/ Abandon

Spec == Init /\ [][Next]_vars

=============================================================================
