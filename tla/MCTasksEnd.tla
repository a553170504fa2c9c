----------------------------- MODULE MCTasksEnd -----------------------------
(***************************************************************************)
(* Tasks that run to their end unless something fails: the pipeline, and   *)
(* the removal of the files of a source.  A behaviour is one of a single   *)
(* part; the variables of the other stay where they began.                 *)
(***************************************************************************)
EXTENDS AnalysisPipeline, TLC

CONSTANTS
    Parts,      \* the parts of this run
    NoWorker, text, image, w1, w2

VARIABLES
    part,
    state, claims, source, stale, lock, tree, marker, zip, litter, outcome,
    messages, retrying, slots, scan, request, chances       \* SourcePreparation

sourceVars == <<state, claims, source, stale, lock, tree, marker, zip, litter, outcome,
                messages, retrying, slots, scan, request, chances>>

BothLength  == text :> 1 @@ image :> 1
OneBatch == {1}

\* A staged ZIP.  No worker is lost, but recovery may demote one that is at work.
Source == INSTANCE SourcePreparation
            WITH MaxGen <- 2, FaultLimit <- 1, PromptWorkers <- FALSE,
                 Faults <- {"source", "exception", "redeliver"},
                 status <- state, gen <- claims, queue <- messages, wk <- slots,
                 rec <- scan, api <- request, faults <- chances

\* While the source is prepared the pipeline stays at one of its beginnings.
MCInit == /\ part \in Parts
          /\ Init /\ Source!Init /\ zip = "staged"
          /\ part = "source" => queue = {} /\ \A a \in Artifacts : art[a] = "pending"

MCNext == /\ UNCHANGED part
          /\ \/ part = "pipeline" /\ Next /\ UNCHANGED sourceVars
             \/ part = "source" /\ Source!Next /\ UNCHANGED vars

MCSpec == MCInit /\ [][MCNext]_<<part, vars, sourceVars>>

\* The fairness of both specifications: a worker goes on with its task, the
\* request that cancels with its cleanup, and the recovery task runs and time passes.
MCFairSpec ==
    /\ MCSpec
    /\ \A w \in Workers : /\ WF_vars(part = "pipeline" /\ WorkerStep(w))
                          /\ WF_sourceVars(part = "source" /\ Source!WorkerStep(w))
    /\ WF_sourceVars(part = "source" /\ (Source!CancelCleansTree \/ Source!CancelCleansRest))
    /\ WF_vars(part = "pipeline" /\ Recover)
    /\ WF_vars(part = "pipeline" /\ Tick)

-----------------------------------------------------------------------------
(* Properties                                                              *)

\* With finitely many faults every analysis ends: completed, failed or cancelled
\* (recover_stale_analyses).
PipelineEnds == <>(part = "pipeline" => status \in Terminal)

\* Whatever ends an analysis, and whatever was being prepared then, nothing of its
\* source stays on disk (cleanup_prepared_source, cleanup_staged_source).
SourceFilesGo == part = "source" => Source!SourceFilesGo
=============================================================================
