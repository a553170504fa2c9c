------------------------------ MODULE MCSource ------------------------------
(***************************************************************************)
(* Small instances of SourcePreparation for TLC, of a ZIP and of a         *)
(* repository.  A behaviour is one of a single part: recovery demotes only *)
(* what nobody works at, and a worker may be lost, or acquiring, publishing *)
(* or loading the source may fail; or workers are slow, so that recovery   *)
(* demotes them while they run.  The slow part has no failing source: a    *)
(* demotion may then forget a failure whose cleanup is still to come, which *)
(* is what SourceStaleCleanup.cfg shows.                                   *)
(***************************************************************************)
EXTENDS SourcePreparation

CONSTANTS
    Parts,      \* the parts of this run
    w1, w2

VARIABLE part

Slow == INSTANCE SourcePreparation
          WITH PromptWorkers <- FALSE, MaxGen <- 2, FaultLimit <- 1,
               Faults <- {"crash", "redeliver", "exception"}

MCInit == /\ part \in Parts
          /\ IF part = "prompt" THEN Init ELSE Slow!Init

MCNext == /\ UNCHANGED part
          /\ \/ part = "prompt" /\ Next
             \/ part = "slow" /\ Slow!Next

MCSpec == MCInit /\ [][MCNext]_<<part, vars>>

\* A worker that is up goes on with its task.
TaskStep(w) == \/ part = "prompt" /\ WorkerStep(w)
               \/ part = "slow" /\ Slow!WorkerStep(w)

\* So does the request that cancels.  The broker's queue is first in, first out, so
\* that no message waits for ever behind one that is retried; time passes during
\* the countdowns; and the recovery task runs.
MCFairSpec ==
    /\ MCSpec
    /\ \A w \in Workers : WF_vars(TaskStep(w))
    /\ WF_vars(CancelCleansTree \/ CancelCleansRest)
    /\ SF_vars(\E w \in Workers : ProcessAnalysis(w))
    /\ \A g \in Gens : /\ SF_vars(\E w \in Workers : StartPrepare(w, Prepare(g)))
                       /\ SF_vars(\E w \in Workers : StartRest(w, Rest(g)))
    /\ WF_vars(WakeRetry) /\ WF_vars(Recover) /\ SF_vars(Tick)

-----------------------------------------------------------------------------
(* Properties                                                              *)

\* With finitely many faults an analysis with a source ends, although a delivery
\* that finds the preparation owned by nobody retries for ever: recovery has to
\* notice (test_duplicate_source_preparing_waiter_retries_without_heartbeat_or_failure).
SourceEnds == <>(part = "prompt" => status \in Terminal)
=============================================================================
