----------------------- MODULE PipelineEvidenceProofs -----------------------
(***************************************************************************)
(* What the claims of the pipeline are for: one owner per artifact and per *)
(* finalization, each batch of evidence stored once, and a result built    *)
(* from the evidence that is stored.  For every set of artifacts and       *)
(* workers, every bound and every choice of faults.                        *)
(***************************************************************************)
EXTENDS AnalysisPipelineProofs

-----------------------------------------------------------------------------
(* The inductive invariant                                                 *)

\* Worker w works for the generation that is being processed.
Current(w) == status = "processing" /\ wk[w].own = gen

\* Worker w has claimed its artifact and has not let go of it.
Holding(w) == wk[w].pc = "a_claimed" \/ Working(w)

\* Worker w saw all artifacts settled.
Finisher(w) == wk[w].pc = "f_checked" \/ Finalizing(w)

\* No message and no worker is ahead of the row.
GenerationsKnown ==
    /\ \A m \in queue : m.gen <= gen
    /\ \A w \in Workers : wk[w].own <= gen /\ wk[w].msg.gen <= gen

FinalizationOfRow ==
    /\ finGen \in {0, gen}
    /\ status \in {"processing", "completed"} => gen > 0

\* The claim of an artifact is exclusive, and its worker is where the checkpoint is.
ClaimsHold ==
    \A w \in Workers : Current(w) /\ Holding(w) =>
        /\ art[Artifact(w)] = "processing"
        /\ \A v \in Workers \ {w} :
              Current(v) /\ Holding(v) => Artifact(v) # Artifact(w)
        /\ Working(w) /\ Artifact(w) \notin Images => wk[w].pos = done[Artifact(w)]

\* Nothing is read any more when the finalization begins, one worker claims it, and
\* what it read stays what is stored.
FinalizationHolds ==
    /\ status = "processing" /\ finGen # 0 => AllSettled
    /\ \A w \in Workers : Current(w) =>
        /\ Finisher(w) => AllSettled
        /\ Finalizing(w) => finGen = gen
        /\ \A v \in Workers \ {w} : Finalizing(w) => ~(Current(v) /\ Finalizing(v))
        /\ wk[w].pc \in {"f_read", "f_explained"} => wk[w].seen = evid

\* A demotion throws away the evidence of images only.
DemotesImages == \A w \in Workers : wk[w].pc = "p_demoting" => wk[w].names \subseteq Images

\* A checkpoint is within its file, at its end when the artifact is completed, and at
\* its beginning when nothing of it counts.
CheckpointsHold ==
    status \notin {"failed", "cancelled"} =>
        \A a \in Artifacts :
            /\ done[a] <= Length[a]
            /\ art[a] \in {"skipped", "controlled"} => done[a] = 0
            /\ art[a] = "completed" => done[a] = Length[a]

NoResultYet == status \in Active => result = NoResult

OwnerInv == TypeOK /\ GenerationsKnown /\ FinalizationOfRow /\ ClaimsHold /\ FinalizationHolds
EvidenceInv == DemotesImages /\ CheckpointsHold /\ CheckpointMatchesEvidence

-----------------------------------------------------------------------------
(* Generations                                                             *)

\* The generation never falls, and grows only with a claim of the analysis.
LEMMA GenerationGrows ==
    ASSUME TypeOK, [Next]_vars
    PROVE  gen' = gen \/ (\E w \in Workers, m \in queue : ClaimAnalysis(w, m)) 
<1>1. \A w, r, known, dbDown : FailTask(w, r, known, dbDown) => gen' = gen
  BY DEF FailTask, MarkFailed, ClearData, row
<1>2. \A S : Demote(S) => gen' = gen
  BY DEF Demote
<1>3. ASSUME NEW w \in Workers, ProcessStep(w), ~\E m \in queue : ClaimAnalysis(w, m)
      PROVE  gen' = gen
  BY <1>2, <1>3 DEF ProcessStep, RefreshAnalysis, PublishWorkflow,
     ScanAfterPublishFailure, DemoteAfterPublishFailure, RepublishAnalysis, row
<1>4. ASSUME NEW w \in Workers, ArtifactStep(w) PROVE gen' = gen
  BY <1>1, <1>4
     DEF ArtifactStep, ClaimArtifact, LoadArtifact, SetUpArtifact, CaptureFallback,
         PersistArtifactBatch, BumpAfterBatch, CompleteArtifact, RecordControlledFailure,
         DropArtifactFile, MissesFile, ReturnArtifact, row
<1>5. ASSUME NEW w \in Workers, FinalizeStep(w) PROVE gen' = gen
  BY <1>5 DEF FinalizeStep, CheckFinalize, ClaimFinalization, ReadEvidence, ExplainResult,
     CommitResult, CleanFiles, row
<1>6. ASSUME NEW w \in Workers, Failure(w) \/ Loss(w) PROVE gen' = gen
  BY <1>1, <1>6
     DEF Failure, FailsAtStart, ProcessFails, ArtifactFails, FinalizeFails, Loss,
         LoseAfterReturn, LoseWorker, LoseWhilePublishing, PublishFails, Redeliver, row
<1>7. CASE CancelAnalysis \/ CleanAfterCancel \/ Recover \/ Tick
  BY <1>2, <1>7
     DEF CancelAnalysis, ClearData, CleanAfterCancel, Recover, ScanStale, ClaimStale,
         RedispatchStale, Tick, row
<1>8. CASE UNCHANGED vars
  BY <1>8 DEF vars
<1> QED
  BY <1>3, <1>4, <1>5, <1>6, <1>7, <1>8 DEF Next, WorkerStep

LEMMA GenerationStep ==
    ASSUME TypeOK, GenerationsKnown, [Next]_vars
    PROVE  GenerationsKnown'
<1> DEFINE Known(m) == m.gen <= gen
           Slots == \A v \in Workers : wk'[v].own <= gen /\ Known(wk'[v].msg)
           Sent  == \A m \in queue' : Known(m)
<1>0. /\ gen \in Nat /\ wk \in [Workers -> Worker]
      /\ Idle \in Worker /\ Idle.own = 0 /\ Idle.msg.gen = 0
      /\ \A w \in Workers : /\ wk[w].own \in Nat /\ wk[w].own <= gen
                            /\ wk[w].msg.gen \in Nat /\ Known(wk[w].msg)
      /\ \A m \in queue : m.gen \in Nat /\ Known(m)
  BY WorkerTypes, FieldTypes, MessageFields, IdleType
     DEF TypeOK, RowType, WorkType, BrokerType, Idle, NoMsg, GenerationsKnown
<1>1. /\ \A g : ProcessMsg(g).gen = g
      /\ \A a, g, c : ArtifactMsg(a, g, c).gen = g
      /\ \A g, n : FinalizeMsg(g, n).gen = g
  BY DEF ProcessMsg, ArtifactMsg, FinalizeMsg, NoMsg
<1>2. ASSUME NEW w \in Workers, NEW r, wk' = [wk EXCEPT ![w] = r], r.own <= gen, Known(r.msg)
      PROVE  Slots
  BY <1>0, <1>2
<1>3. ASSUME NEW w \in Workers
      PROVE  /\ Stop(w) => Slots
             /\ \A pc : Step(w, pc) => Slots
             /\ UNCHANGED wk => Slots
  <2>1. wk[w] \in Worker
    BY <1>0
  <2>2. \A pc : [wk[w] EXCEPT !.pc = pc].own = wk[w].own /\ [wk[w] EXCEPT !.pc = pc].msg = wk[w].msg
    BY <2>1 DEF Worker
  <2>3. ASSUME NEW pc, Step(w, pc) PROVE Slots
    BY <1>0, <1>2, <2>2, <2>3 DEF Step
  <2> QED
    BY <1>0, <1>2, <2>3 DEF Stop
<1>4. ASSUME NEW w \in Workers, NEW r \in Worker, NEW known, NEW dbDown,
             FailTask(w, r, known, dbDown), r.own <= gen, Known(r.msg)
      PROVE  Slots
  <2> DEFINE q1 == [r EXCEPT !.pc = "clean", !.ret = "error"]
             q2 == [r EXCEPT !.pc = "return", !.ret = "error"]
  <2>1. q1.own = r.own /\ q1.msg = r.msg /\ q2.own = r.own /\ q2.msg = r.msg
    BY DEF Worker
  <2>2. \/ wk' = [wk EXCEPT ![w] = q1]
        \/ wk' = [wk EXCEPT ![w] = q2]
        \/ wk' = [wk EXCEPT ![w] = Idle]
    BY <1>4 DEF FailTask
  <2> HIDE DEF q1, q2
  <2> QED
    BY <1>0, <1>2, <1>4, <2>1, <2>2
<1>5. ASSUME NEW w \in Workers, ProcessStep(w)
      PROVE  GenerationsKnown'
  <2>1. ASSUME NEW m \in queue, ClaimAnalysis(w, m), status = "pending"
        PROVE  GenerationsKnown'
    <3>1. gen' = gen + 1 /\ queue' \subseteq queue
      BY <2>1 DEF ClaimAnalysis
    <3>2. wk' = [wk EXCEPT ![w] = [Idle EXCEPT !.pc = "p_claimed", !.msg = m]]
      BY <2>1 DEF ClaimAnalysis
    <3>3. [Idle EXCEPT !.pc = "p_claimed", !.msg = m].own = 0
          /\ [Idle EXCEPT !.pc = "p_claimed", !.msg = m].msg = m
      BY DEF Idle
    <3>4. Slots
      BY <1>0, <1>2, <3>2, <3>3
    <3>5. \A v \in Workers : wk'[v].own \in Nat /\ wk'[v].msg.gen \in Nat
      BY <1>0, <3>2, <3>3
    <3> QED
      BY <1>0, <3>1, <3>4, <3>5 DEF GenerationsKnown
  <2>2. ASSUME NEW m \in queue, ClaimAnalysis(w, m), status # "pending"
        PROVE  gen' = gen /\ Slots /\ Sent
    BY <2>2, <1>0, <1>3 DEF ClaimAnalysis, row
  <2>3. CASE RefreshAnalysis(w)
    <3>1. gen' = gen /\ Sent
      BY <2>3, <1>0 DEF RefreshAnalysis, row
    <3>2. ASSUME NEW S, wk' = [wk EXCEPT ![w].pc = "p_ready", ![w].own = gen, ![w].names = S]
          PROVE  Slots
      <4> DEFINE q == [wk[w] EXCEPT !.pc = "p_ready", !.own = gen, !.names = S]
      <4>1. wk' = [wk EXCEPT ![w] = q]
        BY <3>2, <1>0
      <4>2. q.own = gen /\ q.msg = wk[w].msg
        BY <1>0 DEF Worker
      <4> QED
        BY <1>0, <1>2, <4>1, <4>2
    <3> QED
      BY <2>3, <1>3, <3>1, <3>2 DEF RefreshAnalysis, GenerationsKnown
  <2>4. CASE PublishWorkflow(w)
    <3>1. gen' = gen /\ Slots
      BY <2>4, <1>3 DEF PublishWorkflow, row
    <3>2. Sent
      BY <2>4, <1>0, <1>1 DEF PublishWorkflow, PublishParts
    <3> QED
      BY <3>1, <3>2 DEF GenerationsKnown
  <2>5. CASE ScanAfterPublishFailure(w)
    <3>1. gen' = gen /\ Sent
      BY <2>5, <1>0 DEF ScanAfterPublishFailure, row
    <3>2. ASSUME NEW S, wk' = [wk EXCEPT ![w].pc = "p_demoting", ![w].names = S]
          PROVE  Slots
      <4> DEFINE q == [wk[w] EXCEPT !.pc = "p_demoting", !.names = S]
      <4>1. wk' = [wk EXCEPT ![w] = q]
        BY <3>2, <1>0
      <4>2. q.own = wk[w].own /\ q.msg = wk[w].msg
        BY <1>0 DEF Worker
      <4> QED
        BY <1>0, <1>2, <4>1, <4>2
    <3> QED
      BY <2>5, <1>3, <3>1, <3>2 DEF ScanAfterPublishFailure, GenerationsKnown
  <2>6. CASE DemoteAfterPublishFailure(w)
    <3>1. gen' = gen /\ Sent
      BY <2>6, <1>0 DEF DemoteAfterPublishFailure, Demote, row
    <3>2. ASSUME wk' = [wk EXCEPT ![w].pc = "p_republish", ![w].names = {}]
          PROVE  Slots
      <4> DEFINE q == [wk[w] EXCEPT !.pc = "p_republish", !.names = {}]
      <4>1. wk' = [wk EXCEPT ![w] = q]
        BY <3>2, <1>0
      <4>2. q.own = wk[w].own /\ q.msg = wk[w].msg
        BY <1>0 DEF Worker
      <4> QED
        BY <1>0, <1>2, <4>1, <4>2
    <3> QED
      BY <2>6, <1>3, <3>1, <3>2 DEF DemoteAfterPublishFailure, GenerationsKnown
  <2>7. CASE RepublishAnalysis(w)
    <3>1. gen' = gen /\ Slots
      BY <2>7, <1>3 DEF RepublishAnalysis, row
    <3>2. Sent
      BY <2>7, <1>0, <1>1 DEF RepublishAnalysis
    <3> QED
      BY <3>1, <3>2 DEF GenerationsKnown
  <2> QED
    BY <1>5, <2>1, <2>2, <2>3, <2>4, <2>5, <2>6, <2>7 DEF ProcessStep, GenerationsKnown
<1>6. ASSUME NEW w \in Workers, ArtifactStep(w)
      PROVE  GenerationsKnown'
  <2>1. \A acked : CountPart(w, acked) => Sent
    BY <1>0, <1>1 DEF CountPart
  <2>2. ASSUME NEW m \in queue, ClaimArtifact(w, m)
        PROVE  GenerationsKnown'
    <3> DEFINE q(pc) == [Idle EXCEPT !.pc = pc, !.msg = m, !.own = m.gen]
    <3>1. \A pc : q(pc).own = m.gen /\ q(pc).msg = m
      BY DEF Idle
    <3>2. \E pc : wk' = [wk EXCEPT ![w] = q(pc)]
      BY <2>2 DEF ClaimArtifact
    <3> HIDE DEF q
    <3>3. Slots
      BY <1>0, <1>2, <3>1, <3>2
    <3> QED
      BY <2>2, <1>0, <3>3 DEF ClaimArtifact, row, GenerationsKnown
  <2>3. CASE LoadArtifact(w)
    <3> DEFINE q(n) == [wk[w] EXCEPT !.pc = "a_setup", !.pos = n]
    <3>1. \A n : q(n).own = wk[w].own /\ q(n).msg = wk[w].msg
      BY <1>0 DEF Worker
    <3>2. (\E n : wk' = [wk EXCEPT ![w] = q(n)]) \/ Step(w, "return")
      BY <2>3, <1>0 DEF LoadArtifact
    <3> HIDE DEF q
    <3>3. Slots
      BY <1>0, <1>2, <1>3, <3>1, <3>2
    <3> QED
      BY <2>3, <1>0, <3>3 DEF LoadArtifact, GenerationsKnown
  <2>4. CASE SetUpArtifact(w) \/ CaptureFallback(w) \/ BumpAfterBatch(w) \/ CompleteArtifact(w)
             \/ DropArtifactFile(w)
    <3>1. gen' = gen /\ Sent
      BY <2>4, <1>0 DEF SetUpArtifact, CaptureFallback, BumpAfterBatch, CompleteArtifact,
         DropArtifactFile, row
    <3>2. \E pc : Step(w, pc)
      BY <2>4 DEF SetUpArtifact, CaptureFallback, BumpAfterBatch, CompleteArtifact,
         DropArtifactFile
    <3> QED
      BY <1>3, <3>1, <3>2 DEF GenerationsKnown
  <2>5. CASE PersistArtifactBatch(w)
    <3> DEFINE q(n) == [wk[w] EXCEPT !.pc = "a_beat", !.pos = n, !.ret = "some"]
    <3>1. \A n : q(n).own = wk[w].own /\ q(n).msg = wk[w].msg
      BY <1>0 DEF Worker
    <3>2. (\E n : wk' = [wk EXCEPT ![w] = q(n)]) \/ Step(w, "return")
      BY <2>5, <1>0 DEF PersistArtifactBatch
    <3> HIDE DEF q
    <3>3. Slots
      BY <1>0, <1>2, <1>3, <3>1, <3>2
    <3> QED
      BY <2>5, <1>0, <3>3 DEF PersistArtifactBatch, row, GenerationsKnown
  <2>6. CASE RecordControlledFailure(w)
    <3> DEFINE q(pc) == [wk[w] EXCEPT !.pc = pc, !.ret = "none"]
    <3>1. \A pc : q(pc).own = wk[w].own /\ q(pc).msg = wk[w].msg
      BY <1>0 DEF Worker
    <3>2. \E pc : wk' = [wk EXCEPT ![w] = q(pc)]
      BY <2>6, <1>0 DEF RecordControlledFailure
    <3> HIDE DEF q
    <3>3. Slots
      BY <1>0, <1>2, <3>1, <3>2
    <3> QED
      BY <2>6, <1>0, <3>3 DEF RecordControlledFailure, row, GenerationsKnown
  <2>7. CASE MissesFile(w)
    BY <2>7, <1>0, <1>4, GenerationGrows DEF MissesFile, FailTask, MarkFailed, ClearData, row,
       GenerationsKnown
  <2>8. CASE ReturnArtifact(w)
    BY <2>8, <1>3, <2>1 DEF ReturnArtifact, row, GenerationsKnown
  <2> QED
    BY <1>6, <2>2, <2>3, <2>4, <2>5, <2>6, <2>7, <2>8 DEF ArtifactStep
<1>7. ASSUME NEW w \in Workers, FinalizeStep(w)
      PROVE  GenerationsKnown'
  <2>1. ASSUME NEW m \in queue, CheckFinalize(w, m)
        PROVE  GenerationsKnown'
    <3> DEFINE q == [Idle EXCEPT !.pc = "f_checked", !.msg = m, !.own = m.gen]
    <3>1. q.own = m.gen /\ q.msg = m
      BY DEF Idle
    <3>2. wk' = [wk EXCEPT ![w] = q] \/ UNCHANGED wk
      BY <2>1 DEF CheckFinalize
    <3> HIDE DEF q
    <3>3. Slots
      BY <1>0, <1>2, <1>3, <3>1, <3>2
    <3>4. gen' = gen /\ Sent
      BY <2>1, <1>0, <1>1 DEF CheckFinalize, row
    <3> QED
      BY <3>3, <3>4 DEF GenerationsKnown
  <2>2. CASE ReadEvidence(w)
    <3> DEFINE q(pc) == [wk[w] EXCEPT !.pc = pc, !.seen = evid]
    <3>1. \A pc : q(pc).own = wk[w].own /\ q(pc).msg = wk[w].msg
      BY <1>0 DEF Worker
    <3>2. (\E pc : wk' = [wk EXCEPT ![w] = q(pc)]) \/ Stop(w)
      BY <2>2, <1>0 DEF ReadEvidence
    <3> HIDE DEF q
    <3>3. Slots
      BY <1>0, <1>2, <1>3, <3>1, <3>2
    <3> QED
      BY <2>2, <1>0, <3>3 DEF ReadEvidence, GenerationsKnown
  <2>3. CASE ClaimFinalization(w) \/ ExplainResult(w) \/ CommitResult(w) \/ CleanFiles(w)
    <3>1. gen' = gen /\ Sent
      BY <2>3, <1>0 DEF ClaimFinalization, ExplainResult, CommitResult, CleanFiles, row
    <3>2. Stop(w) \/ \E pc : Step(w, pc)
      BY <2>3 DEF ClaimFinalization, ExplainResult, CommitResult, CleanFiles
    <3> QED
      BY <1>3, <3>1, <3>2 DEF GenerationsKnown
  <2> QED
    BY <1>7, <2>1, <2>2, <2>3 DEF FinalizeStep
<1>8. ASSUME NEW w \in Workers, Failure(w)
      PROVE  GenerationsKnown'
  <2>1. \A r, known, dbDown : FailTask(w, r, known, dbDown) => gen' = gen
    BY DEF FailTask, MarkFailed, ClearData, row
  <2>2. ASSUME NEW m \in queue, FailsAtStart(w, m) PROVE GenerationsKnown'
    <3> DEFINE q == [Idle EXCEPT !.msg = m, !.own = m.gen]
    <3>1. q \in Worker /\ q.own = m.gen /\ q.msg = m
      BY <1>0, MessageFields DEF TypeOK, BrokerType, Idle, Worker, ArtifactPcs
    <3>2. \E known : FailTask(w, q, known, TRUE)
      BY <2>2 DEF FailsAtStart
    <3> HIDE DEF q
    <3>3. Slots /\ gen' = gen
      BY <1>0, <1>4, <2>1, <3>1, <3>2
    <3> QED
      BY <2>2, <1>0, <3>3 DEF FailsAtStart, GenerationsKnown
  <2>3. CASE ProcessFails(w) \/ ArtifactFails(w) \/ FinalizeFails(w)
    <3>1. UNCHANGED queue /\ \E known, dbDown : FailTask(w, wk[w], known, dbDown)
      BY <2>3 DEF ProcessFails, ArtifactFails, FinalizeFails
    <3>2. Slots /\ gen' = gen
      BY <1>0, <1>4, <2>1, <3>1
    <3> QED
      BY <1>0, <3>1, <3>2 DEF GenerationsKnown
  <2> QED
    BY <1>8, <2>2, <2>3 DEF Failure
<1>9. ASSUME NEW w \in Workers, Loss(w)
      PROVE  GenerationsKnown'
  <2>1. gen' = gen
    BY <1>9 DEF Loss, LoseAfterReturn, LoseWorker, LoseWhilePublishing, PublishFails,
       Redeliver, row
  <2>2. Sent
    BY <1>9, <1>0, <1>1 DEF Loss, LoseAfterReturn, CountPart, LoseWorker,
       LoseWhilePublishing, PublishFails, PublishParts, Redeliver
  <2>3. Slots
    <3> DEFINE q == [wk[w] EXCEPT !.pc = "p_unpublished", !.names = {}]
    <3>1. q.own = wk[w].own /\ q.msg = wk[w].msg
      BY <1>0 DEF Worker
    <3>2. wk' = [wk EXCEPT ![w] = q] \/ Stop(w) \/ UNCHANGED wk
      BY <1>9, <1>0 DEF Loss, LoseAfterReturn, LoseWorker, LoseWhilePublishing,
         PublishFails, Redeliver
    <3> HIDE DEF q
    <3> QED
      BY <1>0, <1>2, <1>3, <3>1, <3>2
  <2> QED
    BY <2>1, <2>2, <2>3 DEF GenerationsKnown
<1>10. CASE CancelAnalysis \/ CleanAfterCancel \/ Recover \/ Tick \/ UNCHANGED vars
  <2>1. gen' = gen /\ UNCHANGED wk
    BY <1>10 DEF CancelAnalysis, ClearData, CleanAfterCancel, Recover, ScanStale, ClaimStale,
       Demote, RedispatchStale, Tick, row, vars
  <2>2. Sent
    BY <1>10, <1>0, <1>1 DEF CancelAnalysis, CleanAfterCancel, Recover, ScanStale,
       ClaimStale, RedispatchStale, Tick, vars
  <2> QED
    BY <1>0, <2>1, <2>2 DEF GenerationsKnown
<1> QED
  BY <1>5, <1>6, <1>7, <1>8, <1>9, <1>10 DEF Next, WorkerStep

-----------------------------------------------------------------------------
(* The steps of a generation that is being processed                       *)

\* Nobody moves, or worker w moves and touches neither artifacts nor their evidence:
\* it lets go of what it had, or goes on with it.
Outside == UNCHANGED <<finGen, art, done, evid, wk>>
Aside(w) ==
    /\ UNCHANGED <<finGen, art, done, evid>>
    /\ \A v \in Workers \ {w} : wk'[v] = wk[v]
    /\ \/ ~Holding(w)' /\ ~Finisher(w)'
       \/ /\ wk'[w].own = wk[w].own /\ wk'[w].msg = wk[w].msg
          /\ wk'[w].pos = wk[w].pos /\ wk'[w].seen = wk[w].seen
          /\ \/ Working(w) /\ Working(w)'
             \/ wk[w].pc = "f_read" /\ wk'[w].pc = "f_explained"

\* The steps of worker w that touch them, or claim or read them.
ClaimsArtifact(w) == \E m \in queue : ClaimArtifact(w, m) /\ Claimable(m)
Loads(w)     == LoadArtifact(w) /\ Authorized(Artifact(w), wk[w].own)
Persists(w)  == PersistArtifactBatch(w) /\ Mine(wk[w].own)
Completes(w) == CompleteArtifact(w) /\ Mine(wk[w].own)
Records(w)   == RecordControlledFailure(w) /\ Authorized(Artifact(w), wk[w].own)
Checks(w)    == \E m \in queue : CheckFinalize(w, m) /\ Mine(m.gen) /\ AllSettled
Finalizes(w) == ClaimFinalization(w) /\ Mine(wk[w].own) /\ finGen = 0
Reads(w)     == ReadEvidence(w) /\ Owns(wk[w].own)

Special(w) ==
    \/ ClaimsArtifact(w) \/ Loads(w) \/ Persists(w) \/ Completes(w) \/ Records(w)
    \/ Checks(w) \/ Finalizes(w) \/ Reads(w)

LEMMA SlotMoves ==
    ASSUME TypeOK, NEW w \in Workers
    PROVE  /\ Stop(w) => (\A v \in Workers \ {w} : wk'[v] = wk[v]) /\ wk'[w] = Idle
           /\ \A r : wk' = [wk EXCEPT ![w] = r] =>
                (\A v \in Workers \ {w} : wk'[v] = wk[v]) /\ wk'[w] = r
           /\ \A pc : Step(w, pc) =>
                /\ \A v \in Workers \ {w} : wk'[v] = wk[v]
                /\ wk'[w].pc = pc /\ wk'[w].own = wk[w].own /\ wk'[w].msg = wk[w].msg
                /\ wk'[w].pos = wk[w].pos /\ wk'[w].seen = wk[w].seen
           /\ wk[w] \in Worker
<1>1. wk \in [Workers -> Worker] /\ wk[w] \in Worker
  BY DEF TypeOK, WorkType
<1>2. \A r : wk' = [wk EXCEPT ![w] = r] =>
        (\A v \in Workers \ {w} : wk'[v] = wk[v]) /\ wk'[w] = r
  BY <1>1
<1>3. ASSUME NEW pc, Step(w, pc)
      PROVE  /\ \A v \in Workers \ {w} : wk'[v] = wk[v]
             /\ wk'[w].pc = pc /\ wk'[w].own = wk[w].own /\ wk'[w].msg = wk[w].msg
             /\ wk'[w].pos = wk[w].pos /\ wk'[w].seen = wk[w].seen
  <2>1. wk' = [wk EXCEPT ![w] = [wk[w] EXCEPT !.pc = pc]]
    BY <1>1, <1>3 DEF Step
  <2>2. wk'[w] = [wk[w] EXCEPT !.pc = pc]
    BY <1>2, <2>1
  <2> QED
    BY <1>1, <1>2, <2>1, <2>2 DEF Worker
<1> QED
  BY <1>1, <1>2, <1>3 DEF Stop

\* What a task that fails leaves, when the analysis goes on.
LEMMA FailAside ==
    ASSUME TypeOK, NEW w \in Workers, NEW r \in Worker, NEW known, NEW dbDown,
           FailTask(w, r, known, dbDown), status' = "processing"
    PROVE  Aside(w)
<1> DEFINE q == [r EXCEPT !.pc = "return", !.ret = "error"]
<1>1. UNCHANGED <<row, arts, result>> /\ (wk' = [wk EXCEPT ![w] = q] \/ wk' = [wk EXCEPT ![w] = Idle])
  BY DEF FailTask, MarkFailed
<1>2. q.pc = "return" /\ Idle.pc = "idle"
  BY DEF Worker, Idle
<1> HIDE DEF q
<1>3. (\A v \in Workers \ {w} : wk'[v] = wk[v]) /\ (wk'[w].pc = "return" \/ wk'[w].pc = "idle")
  BY <1>1, <1>2, SlotMoves
<1> QED
  BY <1>1, <1>3 DEF Aside, row, arts, Holding, Working, Finisher, Finalizing

LEMMA ProcessAside ==
    ASSUME TypeOK, NEW w \in Workers, ProcessStep(w),
           status = "processing", status' = "processing"
    PROVE  Outside \/ Aside(w)
<1> USE SlotMoves DEF Holding, Working, Finisher, Finalizing
<1>1. Idle.pc = "idle"
  BY DEF Idle
<1>2. ASSUME NEW m \in queue, ClaimAnalysis(w, m) PROVE Outside
  BY <1>2 DEF ClaimAnalysis, Outside, row, arts
<1>3. CASE RefreshAnalysis(w)
  <2> DEFINE q(S) == [wk[w] EXCEPT !.pc = "p_ready", !.own = gen, !.names = S]
  <2>1. \A S : q(S).pc = "p_ready"
    BY DEF Worker
  <2>2. \E S : wk' = [wk EXCEPT ![w] = q(S)]
    BY <1>3, WorkerTypes DEF RefreshAnalysis, TypeOK, WorkType
  <2> HIDE DEF q
  <2> QED
    BY <1>3, <2>1, <2>2 DEF RefreshAnalysis, Aside, row, arts
<1>4. CASE PublishWorkflow(w) \/ RepublishAnalysis(w)
  BY <1>1, <1>4 DEF PublishWorkflow, RepublishAnalysis, Aside, row, arts
<1>5. CASE ScanAfterPublishFailure(w)
  <2> DEFINE q == [wk[w] EXCEPT !.pc = "p_demoting", !.names = StuckImages]
  <2>1. q.pc = "p_demoting"
    BY DEF Worker
  <2>2. wk' = [wk EXCEPT ![w] = q] \/ Stop(w)
    BY <1>5, WorkerTypes DEF ScanAfterPublishFailure, TypeOK, WorkType
  <2> HIDE DEF q
  <2> QED
    BY <1>1, <1>5, <2>1, <2>2 DEF ScanAfterPublishFailure, Aside, row, arts
<1>6. CASE DemoteAfterPublishFailure(w)
  BY <1>1, <1>6 DEF DemoteAfterPublishFailure, Demote, Aside, row, arts
<1> QED
  BY <1>2, <1>3, <1>4, <1>5, <1>6 DEF ProcessStep

LEMMA ArtifactAside ==
    ASSUME TypeOK, NEW w \in Workers, ArtifactStep(w),
           status = "processing", status' = "processing"
    PROVE  Aside(w) \/ Special(w)
<1> USE SlotMoves DEF Holding, Working, Finisher, Finalizing
<1>1. Idle.pc = "idle"
  BY DEF Idle
<1>2. ASSUME NEW m \in queue, ClaimArtifact(w, m), ~Claimable(m) PROVE Aside(w)
  <2> DEFINE q == [Idle EXCEPT !.pc = "return", !.msg = m, !.own = m.gen]
  <2>1. q.pc = "return"
    BY DEF Idle
  <2>2. wk' = [wk EXCEPT ![w] = q]
    BY <1>2 DEF ClaimArtifact
  <2> HIDE DEF q
  <2> QED
    BY <1>2, <2>1, <2>2 DEF ClaimArtifact, Aside, row
<1>3. CASE LoadArtifact(w) /\ ~Loads(w)
  BY <1>3 DEF LoadArtifact, Loads, Aside, arts
<1>4. CASE SetUpArtifact(w) \/ CaptureFallback(w) \/ BumpAfterBatch(w) \/ DropArtifactFile(w)
  BY <1>4 DEF SetUpArtifact, CaptureFallback, BumpAfterBatch, DropArtifactFile, Aside, row, arts
<1>5. CASE PersistArtifactBatch(w) /\ ~Persists(w)
  BY <1>5 DEF PersistArtifactBatch, Persists, Aside, row
<1>6. CASE CompleteArtifact(w) /\ ~Completes(w)
  BY <1>6 DEF CompleteArtifact, Completes, Aside, row
<1>7. CASE RecordControlledFailure(w) /\ ~Records(w)
  <2> DEFINE q == [wk[w] EXCEPT !.pc = "return", !.ret = "none"]
  <2>1. q.pc = "return"
    BY DEF Worker
  <2>2. wk' = [wk EXCEPT ![w] = q] /\ UNCHANGED <<row, arts>>
    BY <1>7, WorkerTypes DEF RecordControlledFailure, Records, TypeOK, WorkType
  <2> HIDE DEF q
  <2> QED
    BY <2>1, <2>2 DEF Aside, row, arts
<1>8. CASE MissesFile(w)
  BY <1>8, FailAside DEF MissesFile
<1>9. CASE ReturnArtifact(w)
  BY <1>1, <1>9 DEF ReturnArtifact, Aside, row, arts
<1> QED
  BY <1>2, <1>3, <1>4, <1>5, <1>6, <1>7, <1>8, <1>9 DEF ArtifactStep, Special, ClaimsArtifact

LEMMA FinalizeAside ==
    ASSUME TypeOK, NEW w \in Workers, FinalizeStep(w),
           status = "processing", status' = "processing"
    PROVE  Outside \/ Aside(w) \/ Special(w)
<1> USE SlotMoves DEF Holding, Working, Finisher, Finalizing
<1>1. Idle.pc = "idle"
  BY DEF Idle
<1>2. ASSUME NEW m \in queue, CheckFinalize(w, m), ~(Mine(m.gen) /\ AllSettled) PROVE Outside
  BY <1>2 DEF CheckFinalize, Outside, row, arts
<1>3. CASE ClaimFinalization(w) /\ ~Finalizes(w)
  BY <1>1, <1>3 DEF ClaimFinalization, Finalizes, Aside, arts
<1>4. CASE ReadEvidence(w) /\ ~Reads(w)
  BY <1>1, <1>4 DEF ReadEvidence, Reads, Aside, arts
<1>5. CASE ExplainResult(w)
  BY <1>1, <1>5 DEF ExplainResult, Aside, arts
<1>6. CASE CommitResult(w)
  BY <1>1, <1>6 DEF CommitResult, Aside, arts
<1>7. CASE CleanFiles(w)
  BY <1>1, <1>7 DEF CleanFiles, Aside, row, arts
<1> QED
  BY <1>2, <1>3, <1>4, <1>5, <1>6, <1>7 DEF FinalizeStep, Special, Checks

\* While a generation is processed, each step is one of these.
LEMMA Moves ==
    ASSUME TypeOK, [Next]_vars, status = "processing", status' = "processing"
    PROVE  Outside \/ \E w \in Workers : Aside(w) \/ Special(w)
<1>1. ASSUME NEW w \in Workers, Failure(w) PROVE Aside(w)
  <2>1. wk[w] \in Worker
    BY WorkerTypes DEF TypeOK
  <2>2. \A m \in queue : [Idle EXCEPT !.msg = m, !.own = m.gen] \in Worker
    BY IdleType, MessageFields DEF TypeOK, BrokerType, Idle, Worker, ArtifactPcs
  <2> QED
    BY <1>1, <2>1, <2>2, FailAside
       DEF Failure, FailsAtStart, ProcessFails, ArtifactFails, FinalizeFails
<1>2. ASSUME NEW w \in Workers, Loss(w) PROVE Outside \/ Aside(w)
  <2> DEFINE q == [wk[w] EXCEPT !.pc = "p_unpublished", !.names = {}]
  <2>1. q.pc = "p_unpublished" /\ Idle.pc = "idle"
    BY SlotMoves DEF Worker, Idle
  <2>2. wk' = [wk EXCEPT ![w] = q] \/ Stop(w) \/ UNCHANGED wk
    BY <1>2 DEF TypeOK, WorkType, Loss, LoseAfterReturn, LoseWorker, LoseWhilePublishing,
       PublishFails, Redeliver
  <2>3. UNCHANGED <<finGen, art, done, evid>>
    BY <1>2 DEF Loss, LoseAfterReturn, LoseWorker, LoseWhilePublishing, PublishFails,
       Redeliver, row, arts
  <2> HIDE DEF q
  <2> QED
    BY <2>1, <2>2, <2>3, SlotMoves
       DEF Outside, Aside, Holding, Working, Finisher, Finalizing
<1>3. CASE CancelAnalysis \/ CleanAfterCancel \/ Recover \/ Tick \/ UNCHANGED vars
  BY <1>3 DEF CancelAnalysis, CleanAfterCancel, Recover, ScanStale, ClaimStale, Demote,
     RedispatchStale, Tick, Outside, row, arts, vars
<1> QED
  BY <1>1, <1>2, <1>3, ProcessAside, ArtifactAside, FinalizeAside DEF Next, WorkerStep

-----------------------------------------------------------------------------
(* Claims                                                                  *)

\* A step of worker w keeps the claims when it changes no artifact that is claimed
\* by somebody else, and holds afterwards what it held, or what was free.
LEMMA ClaimsKept ==
    ASSUME TypeOK, TypeOK', ClaimsHold, status = "processing", gen' = gen, NEW w \in Workers,
           \A v \in Workers \ {w} : wk'[v] = wk[v],
           \A a \in Artifacts :
              \/ art'[a] = art[a] /\ done'[a] = done[a]
              \/ art[a] # "processing"
              \/ Current(w) /\ Holding(w) /\ a = Artifact(w),
           (Current(w) /\ Holding(w))' =>
              /\ art'[Artifact(w)'] = "processing"
              /\ \/ Current(w) /\ Holding(w) /\ Artifact(w)' = Artifact(w)
                 \/ art[Artifact(w)'] # "processing"
              /\ Working(w)' /\ Artifact(w)' \notin Images =>
                   wk'[w].pos = done'[Artifact(w)']
    PROVE  ClaimsHold'
<1>1. SUFFICES ASSUME NEW u \in Workers, Current(u)', Holding(u)'
               PROVE  /\ art'[Artifact(u)'] = "processing"
                      /\ \A v \in Workers \ {u} :
                            Current(v)' /\ Holding(v)' => Artifact(v)' # Artifact(u)'
                      /\ Working(u)' /\ Artifact(u)' \notin Images =>
                            wk'[u].pos = done'[Artifact(u)']
  BY DEF ClaimsHold
<1>2. ASSUME NEW v \in Workers \ {w}
      PROVE  /\ Current(v)' => Current(v)
             /\ Holding(v)' <=> Holding(v)
             /\ Working(v)' <=> Working(v)
             /\ Artifact(v)' = Artifact(v) /\ wk'[v].pos = wk[v].pos
  BY <1>2 DEF Current, Holding, Working, Artifact
<1>3. CASE u = w
  <2>1. ASSUME NEW v \in Workers \ {w}, Current(v)', Holding(v)'
        PROVE  Artifact(v)' # Artifact(w)'
    BY <1>1, <1>2, <1>3, <2>1 DEF ClaimsHold
  <2> QED
    BY <1>1, <1>3, <2>1
<1>4. CASE u # w
  <2>1. Current(u) /\ Holding(u) /\ Artifact(u)' = Artifact(u)
    BY <1>1, <1>2, <1>4
  <2>2. Artifact(u) \in Artifacts /\ art[Artifact(u)] = "processing"
    BY <2>1, ArtifactFacts DEF ClaimsHold, Holding, Working, ArtifactPcs
  <2>3. ~(Current(w) /\ Holding(w) /\ Artifact(u) = Artifact(w))
    BY <1>4, <2>1 DEF ClaimsHold
  <2>4. art'[Artifact(u)] = art[Artifact(u)] /\ done'[Artifact(u)] = done[Artifact(u)]
    BY <2>2, <2>3
  <2>5. ASSUME NEW v \in Workers \ {u}, Current(v)', Holding(v)'
        PROVE  Artifact(v)' # Artifact(u)'
    <3>1. CASE v = w
      BY <2>1, <2>2, <2>3, <2>5, <3>1
    <3>2. CASE v # w
      BY <1>2, <2>1, <2>5, <3>2 DEF ClaimsHold
    <3> QED
      BY <3>1, <3>2
  <2> QED
    BY <1>1, <1>2, <1>4, <2>1, <2>2, <2>4, <2>5 DEF ClaimsHold
<1> QED
  BY <1>3, <1>4

LEMMA ClaimsSteady ==
    ASSUME TypeOK, TypeOK', ClaimsHold, [Next]_vars, gen' = gen,
           status = "processing", status' = "processing"
    PROVE  ClaimsHold'
<1> USE DEF Holding, Working, Current, Artifact
<1>1. CASE Outside
  BY <1>1 DEF Outside, ClaimsHold
<1>2. ASSUME NEW w \in Workers, Aside(w) PROVE ClaimsHold'
  <2>1. UNCHANGED <<art, done>> /\ \A v \in Workers \ {w} : wk'[v] = wk[v]
    BY <1>2 DEF Aside
  <2>2. (Current(w) /\ Holding(w))' =>
           /\ Current(w) /\ Working(w) /\ wk'[w].msg = wk[w].msg /\ wk'[w].pos = wk[w].pos
    BY <1>2 DEF Aside
  <2> QED
    BY <2>1, <2>2, ClaimsKept DEF ClaimsHold
<1>3. ASSUME NEW w \in Workers, ClaimsArtifact(w) PROVE ClaimsHold'
  <2>1. PICK m \in queue : ClaimArtifact(w, m) /\ Claimable(m)
    BY <1>3 DEF ClaimsArtifact
  <2>2. m \in Message /\ m.art \in Artifacts
    BY <2>1, MessageFields DEF ClaimArtifact, TypeOK, BrokerType
  <2> DEFINE q == [Idle EXCEPT !.pc = "a_claimed", !.msg = m, !.own = m.gen]
  <2>3. q.pc = "a_claimed" /\ q.msg = m
    BY DEF Idle
  <2>4. wk' = [wk EXCEPT ![w] = q] /\ art' = [art EXCEPT ![m.art] = "processing"] /\ done' = done
    BY <2>1 DEF ClaimArtifact
  <2> HIDE DEF q
  <2>5. (\A v \in Workers \ {w} : wk'[v] = wk[v]) /\ wk'[w] = q
    BY <2>4, SlotMoves
  <2>6. art[m.art] = "pending" /\ art'[m.art] = "processing"
        /\ \A a \in Artifacts \ {m.art} : art'[a] = art[a]
    BY <2>1, <2>2, <2>4 DEF Claimable, TypeOK, ArtifactsType
  <2> QED
    BY <2>3, <2>4, <2>5, <2>6, ClaimsKept
<1>4. ASSUME NEW w \in Workers, Loads(w) PROVE ClaimsHold'
  <2> DEFINE q == [wk[w] EXCEPT !.pc = "a_setup", !.pos = ResumePoint(Artifact(w))]
  <2>1. q.pc = "a_setup" /\ q.msg = wk[w].msg /\ q.pos = ResumePoint(Artifact(w))
        /\ q.own = wk[w].own
    BY SlotMoves DEF Worker
  <2>2. wk' = [wk EXCEPT ![w] = q] /\ UNCHANGED <<art, done>>
    BY <1>4 DEF Loads, LoadArtifact, TypeOK, WorkType, arts
  <2>3. Current(w) /\ Holding(w)
    BY <1>4 DEF Loads, LoadArtifact, Authorized, Mine
  <2> HIDE DEF q
  <2>4. (\A v \in Workers \ {w} : wk'[v] = wk[v]) /\ wk'[w] = q
    BY <2>2, SlotMoves
  <2> QED
    BY <2>1, <2>2, <2>3, <2>4, ClaimsKept DEF ClaimsHold, ResumePoint
<1>5. ASSUME NEW w \in Workers, Persists(w) PROVE ClaimsHold'
  <2> DEFINE a == Artifact(w)
             b == wk[w].pos + 1
             q == [wk[w] EXCEPT !.pc = "a_beat", !.pos = b, !.ret = "some"]
  <2>1. q.pc = "a_beat" /\ q.msg = wk[w].msg /\ q.pos = b /\ q.own = wk[w].own
    BY SlotMoves DEF Worker
  <2>2. wk' = [wk EXCEPT ![w] = q] /\ UNCHANGED art
        /\ done' = IF a \in Images THEN done ELSE [done EXCEPT ![a] = b]
    BY <1>5 DEF Persists, PersistArtifactBatch, TypeOK, WorkType
  <2>3. Current(w) /\ Holding(w) /\ a \in Artifacts
    BY <1>5, ArtifactFacts DEF Persists, PersistArtifactBatch, Mine, ArtifactPcs
  <2> HIDE DEF q, b
  <2>4. (\A v \in Workers \ {w} : wk'[v] = wk[v]) /\ wk'[w] = q
    BY <2>2, SlotMoves
  <2>5. (\A c \in Artifacts \ {a} : done'[c] = done[c]) /\ (a \notin Images => done'[a] = b)
    BY <2>2, <2>3 DEF TypeOK, ArtifactsType
  <2> QED
    BY <2>1, <2>2, <2>3, <2>4, <2>5, ClaimsKept DEF ClaimsHold
<1>6. ASSUME NEW w \in Workers, Completes(w) \/ Records(w) PROVE ClaimsHold'
  <2>1. Current(w) /\ Holding(w) /\ Artifact(w) \in Artifacts
    BY <1>6, ArtifactFacts DEF Completes, CompleteArtifact, Records, RecordControlledFailure,
       Authorized, Mine, ArtifactPcs
  <2>2. \A c \in Artifacts \ {Artifact(w)} : art'[c] = art[c] /\ done'[c] = done[c]
    BY <1>6, <2>1 DEF Completes, CompleteArtifact, Records, RecordControlledFailure, TypeOK,
       ArtifactsType
  <2>3. (\A v \in Workers \ {w} : wk'[v] = wk[v]) /\ wk'[w].pc \in {"return", "a_drop"}
    <3> DEFINE q == [wk[w] EXCEPT !.pc = "a_drop", !.ret = "none"]
    <3>1. q.pc = "a_drop"
      BY SlotMoves DEF Worker
    <3>2. wk' = [wk EXCEPT ![w] = q] \/ Step(w, "return")
      BY <1>6 DEF Completes, CompleteArtifact, Records, RecordControlledFailure, TypeOK, WorkType
    <3> HIDE DEF q
    <3> QED
      BY <3>1, <3>2, SlotMoves
  <2> QED
    BY <2>1, <2>2, <2>3, ClaimsKept
<1>7. ASSUME NEW w \in Workers, Checks(w) \/ Finalizes(w) \/ Reads(w) PROVE ClaimsHold'
  <2>1. UNCHANGED <<art, done>>
    BY <1>7 DEF Checks, CheckFinalize, Finalizes, ClaimFinalization, Reads, ReadEvidence, arts
  <2>2. PICK q : wk' = [wk EXCEPT ![w] = q] /\ q.pc \in {"f_checked", "f_claimed", "f_read", "f_explained"}
    <3>1. ASSUME NEW m \in queue, CheckFinalize(w, m), Mine(m.gen), AllSettled
          PROVE  wk' = [wk EXCEPT ![w] = [Idle EXCEPT !.pc = "f_checked", !.msg = m, !.own = m.gen]]
      BY <3>1 DEF CheckFinalize
    <3>2. \A m : [Idle EXCEPT !.pc = "f_checked", !.msg = m, !.own = m.gen].pc = "f_checked"
      BY DEF Idle
    <3>3. CASE Finalizes(w)
      <4>1. wk' = [wk EXCEPT ![w] = [wk[w] EXCEPT !.pc = "f_claimed"]]
        BY <3>3 DEF Finalizes, ClaimFinalization, Step, TypeOK, WorkType
      <4>2. [wk[w] EXCEPT !.pc = "f_claimed"].pc = "f_claimed"
        BY SlotMoves DEF Worker
      <4> QED
        BY <4>1, <4>2
    <3>4. CASE Reads(w)
      <4> DEFINE r(pc) == [wk[w] EXCEPT !.pc = pc, !.seen = evid]
      <4>1. \E pc \in {"f_read", "f_explained"} : wk' = [wk EXCEPT ![w] = r(pc)]
        BY <3>4 DEF Reads, ReadEvidence, TypeOK, WorkType
      <4>2. \A pc : r(pc).pc = pc
        BY SlotMoves DEF Worker
      <4> HIDE DEF r
      <4> QED
        BY <4>1, <4>2
    <3> QED
      BY <1>7, <3>1, <3>2, <3>3, <3>4 DEF Checks
  <2>3. (\A v \in Workers \ {w} : wk'[v] = wk[v]) /\ ~Holding(w)'
    BY <2>2, SlotMoves
  <2> QED
    BY <2>1, <2>3, ClaimsKept
<1> QED
  BY <1>1, <1>2, <1>3, <1>4, <1>5, <1>6, <1>7, Moves DEF Special

-----------------------------------------------------------------------------
(* Finalization                                                            *)

LEMMA FinalizationSteady ==
    ASSUME TypeOK, ClaimsHold, FinalizationOfRow, FinalizationHolds, [Next]_vars, gen' = gen,
           status = "processing", status' = "processing"
    PROVE  FinalizationHolds'
<1> USE DEF Current, Finisher, Finalizing
<1>0. gen \in Nat /\ gen > 0
  BY DEF TypeOK, RowType, FinalizationOfRow
<1>1. CASE Outside
  BY <1>1 DEF Outside, AllSettled, FinalizationHolds
<1>2. ASSUME NEW w \in Workers, Aside(w) PROVE FinalizationHolds'
  <2>1. AllSettled' = AllSettled /\ finGen' = finGen /\ evid' = evid
    BY <1>2 DEF Aside, AllSettled
  <2>2. \A v \in Workers \ {w} : wk'[v] = wk[v]
    BY <1>2 DEF Aside
  <2>3. Current(w)' /\ Finisher(w)' =>
          /\ Current(w) /\ wk[w].pc = "f_read" /\ wk'[w].pc = "f_explained"
          /\ wk'[w].seen = wk[w].seen
    BY <1>2 DEF Aside, Working
  <2> QED
    BY <2>1, <2>2, <2>3 DEF FinalizationHolds
<1>3. ASSUME NEW w \in Workers, ClaimsArtifact(w) \/ Persists(w) \/ Completes(w) \/ Records(w)
      PROVE  FinalizationHolds'
  <2>1. ~AllSettled /\ finGen' = finGen
    <3>1. CASE ClaimsArtifact(w)
      <4>1. PICK m \in queue : ClaimArtifact(w, m) /\ Claimable(m)
        BY <3>1 DEF ClaimsArtifact
      <4>2. m.art \in Artifacts
        BY <4>1, MessageFields DEF ClaimArtifact, TypeOK, BrokerType
      <4> QED
        BY <4>1, <4>2 DEF ClaimArtifact, Claimable, AllSettled, Settled, row
    <3>2. CASE Persists(w) \/ Completes(w) \/ Records(w)
      <4>1. Current(w) /\ Holding(w) /\ Artifact(w) \in Artifacts
        BY <3>2, ArtifactFacts
           DEF Persists, PersistArtifactBatch, Completes, CompleteArtifact, Records,
               RecordControlledFailure, Authorized, Mine, Holding, Working, ArtifactPcs
      <4>2. art[Artifact(w)] = "processing"
        BY <4>1 DEF ClaimsHold
      <4> QED
        BY <3>2, <4>1, <4>2 DEF AllSettled, Settled, Persists, PersistArtifactBatch, Completes,
           CompleteArtifact, Records, RecordControlledFailure, row
    <3> QED
      BY <1>3, <3>1, <3>2
  <2>2. \A v \in Workers \ {w} : wk'[v] = wk[v]
    BY <1>3, SlotMoves DEF ClaimsArtifact, ClaimArtifact, Persists, PersistArtifactBatch, Completes,
       CompleteArtifact, Records, RecordControlledFailure, Step, TypeOK, WorkType
  <2>3. ~Finisher(w)'
    <3>1. CASE ClaimsArtifact(w)
      <4> DEFINE q(m) == [Idle EXCEPT !.pc = "a_claimed", !.msg = m, !.own = m.gen]
      <4>1. \A m : q(m).pc = "a_claimed"
        BY DEF Idle
      <4>2. PICK m : wk' = [wk EXCEPT ![w] = q(m)]
        BY <3>1 DEF ClaimsArtifact, ClaimArtifact
      <4> HIDE DEF q
      <4>3. wk'[w] = q(m)
        BY <4>2, SlotMoves
      <4> QED
        BY <4>1, <4>3
    <3>2. CASE Persists(w)
      <4> DEFINE q(b) == [wk[w] EXCEPT !.pc = "a_beat", !.pos = b, !.ret = "some"]
      <4>1. \A b : q(b).pc = "a_beat"
        BY SlotMoves DEF Worker
      <4>2. PICK b : wk' = [wk EXCEPT ![w] = q(b)]
        BY <3>2 DEF Persists, PersistArtifactBatch, TypeOK, WorkType
      <4> HIDE DEF q
      <4>3. wk'[w] = q(b)
        BY <4>2, SlotMoves
      <4> QED
        BY <4>1, <4>3
    <3>3. CASE Completes(w)
      BY <3>3, SlotMoves DEF Completes, CompleteArtifact
    <3>4. CASE Records(w)
      <4> DEFINE q == [wk[w] EXCEPT !.pc = "a_drop", !.ret = "none"]
      <4>1. q.pc = "a_drop"
        BY SlotMoves DEF Worker
      <4>2. wk' = [wk EXCEPT ![w] = q]
        BY <3>4 DEF Records, RecordControlledFailure, TypeOK, WorkType
      <4> HIDE DEF q
      <4>3. wk'[w].pc = "a_drop"
        BY <4>1, <4>2, SlotMoves
      <4> QED
        BY <4>3
    <3> QED
      BY <1>3, <3>1, <3>2, <3>3, <3>4
  <2> QED
    BY <2>1, <2>2, <2>3 DEF FinalizationHolds
<1>4. ASSUME NEW w \in Workers, Loads(w) PROVE FinalizationHolds'
  <2> DEFINE q == [wk[w] EXCEPT !.pc = "a_setup", !.pos = ResumePoint(Artifact(w))]
  <2>1. q.pc = "a_setup"
    BY SlotMoves DEF Worker
  <2>2. wk' = [wk EXCEPT ![w] = q] /\ UNCHANGED <<art, evid, finGen>>
    BY <1>4 DEF Loads, LoadArtifact, TypeOK, WorkType, arts
  <2> HIDE DEF q
  <2> QED
    BY <2>1, <2>2, SlotMoves DEF AllSettled, FinalizationHolds
<1>5. ASSUME NEW w \in Workers, Checks(w) PROVE FinalizationHolds'
  <2> DEFINE q(m) == [Idle EXCEPT !.pc = "f_checked", !.msg = m, !.own = m.gen]
  <2>1. \A m : q(m).pc = "f_checked"
    BY DEF Idle
  <2>2. PICK m : wk' = [wk EXCEPT ![w] = q(m)]
    BY <1>5 DEF Checks, CheckFinalize
  <2>3. AllSettled /\ UNCHANGED <<art, evid, finGen>>
    BY <1>5 DEF Checks, CheckFinalize, row, arts
  <2> HIDE DEF q
  <2>4. wk'[w] = q(m) /\ \A v \in Workers \ {w} : wk'[v] = wk[v]
    BY <2>2, SlotMoves
  <2> QED
    BY <2>1, <2>3, <2>4 DEF AllSettled, FinalizationHolds
<1>6. ASSUME NEW w \in Workers, Finalizes(w) PROVE FinalizationHolds'
  <2>1. /\ AllSettled /\ finGen = 0 /\ finGen' = gen
        /\ Step(w, "f_claimed")
        /\ UNCHANGED <<art, evid>>
    BY <1>6 DEF Finalizes, ClaimFinalization, Mine, arts, FinalizationHolds
  <2>2. wk'[w].pc = "f_claimed" /\ \A v \in Workers \ {w} : wk'[v] = wk[v]
    BY <2>1, SlotMoves
  <2>3. \A v \in Workers : ~(Current(v) /\ Finalizing(v))
    BY <1>0, <2>1 DEF FinalizationHolds
  <2> QED
    BY <2>1, <2>2, <2>3 DEF AllSettled, FinalizationHolds
<1>7. ASSUME NEW w \in Workers, Reads(w) PROVE FinalizationHolds'
  <2> DEFINE q(pc) == [wk[w] EXCEPT !.pc = pc, !.seen = evid]
  <2>1. \A pc : q(pc).pc = pc /\ q(pc).seen = evid
    BY SlotMoves DEF Worker
  <2>2. PICK pc \in {"f_read", "f_explained"} : wk' = [wk EXCEPT ![w] = q(pc)]
    BY <1>7 DEF Reads, ReadEvidence, TypeOK, WorkType
  <2>3. Current(w) /\ wk[w].pc = "f_claimed" /\ UNCHANGED <<art, evid, finGen>>
    BY <1>7 DEF Reads, ReadEvidence, Owns, Mine, arts
  <2> HIDE DEF q
  <2>4. wk'[w] = q(pc) /\ \A v \in Workers \ {w} : wk'[v] = wk[v]
    BY <2>2, SlotMoves
  <2> QED
    BY <2>1, <2>2, <2>3, <2>4 DEF AllSettled, FinalizationHolds
<1> QED
  BY <1>1, <1>2, <1>3, <1>4, <1>5, <1>6, <1>7, Moves DEF Special

\* Processing begins with the claim of a pending analysis, by a generation of its own.
LEMMA ProcessingBegins ==
    ASSUME TypeOK, GenerationsKnown, [Next]_vars, status' = "processing",
           ~(status = "processing" /\ gen' = gen)
    PROVE  /\ gen' = gen + 1 /\ finGen' = 0 /\ age' = 0 /\ status = "pending"
           /\ UNCHANGED <<arts, result>>
           /\ \A w \in Workers : wk'[w].own < gen'
<1>1. \E w \in Workers, m \in queue : ClaimAnalysis(w, m) /\ status = "pending"
  <2>1. \A w, r, known, dbDown : FailTask(w, r, known, dbDown) => status' # "processing" \/ UNCHANGED row
    BY DEF FailTask, MarkFailed
  <2>2. \A S : Demote(S) => status' # "processing"
    BY DEF Demote
  <2>3. \E w \in Workers, m \in queue : ClaimAnalysis(w, m)
    <3>1. CASE gen' # gen
      BY <3>1, GenerationGrows
    <3>2. CASE status # "processing"
      <4>1. ASSUME NEW w \in Workers, ProcessStep(w), ~\E m \in queue : ClaimAnalysis(w, m)
            PROVE  FALSE
        BY <2>2, <3>2, <4>1 DEF ProcessStep, RefreshAnalysis, PublishWorkflow,
           ScanAfterPublishFailure, DemoteAfterPublishFailure, RepublishAnalysis, row
      <4>2. ASSUME NEW w \in Workers, ArtifactStep(w) PROVE FALSE
        BY <2>1, <3>2, <4>2
           DEF ArtifactStep, ClaimArtifact, LoadArtifact, SetUpArtifact, CaptureFallback,
               PersistArtifactBatch, BumpAfterBatch, CompleteArtifact, RecordControlledFailure,
               DropArtifactFile, MissesFile, ReturnArtifact, row
      <4>3. ASSUME NEW w \in Workers, FinalizeStep(w) PROVE FALSE
        BY <3>2, <4>3 DEF FinalizeStep, CheckFinalize, ClaimFinalization, ReadEvidence,
           ExplainResult, CommitResult, CleanFiles, row
      <4>4. ASSUME NEW w \in Workers, Failure(w) \/ Loss(w) PROVE FALSE
        BY <2>1, <3>2, <4>4
           DEF Failure, FailsAtStart, ProcessFails, ArtifactFails, FinalizeFails, Loss,
               LoseAfterReturn, LoseWorker, LoseWhilePublishing, PublishFails, Redeliver, row
      <4>5. CASE CancelAnalysis \/ CleanAfterCancel \/ Recover \/ Tick \/ UNCHANGED vars
        BY <2>2, <3>2, <4>5
           DEF CancelAnalysis, CleanAfterCancel, Recover, ScanStale, ClaimStale,
               RedispatchStale, Tick, row, vars
      <4> QED
        BY <4>1, <4>2, <4>3, <4>4, <4>5 DEF Next, WorkerStep
    <3> QED
      BY <3>1, <3>2
  <2>4. \A w, m : ClaimAnalysis(w, m) /\ status # "pending" => UNCHANGED <<status, gen>>
    BY DEF ClaimAnalysis, row
  <2> QED
    BY <2>3, <2>4
<1>2. PICK w \in Workers, m \in queue : ClaimAnalysis(w, m) /\ status = "pending"
  BY <1>1
<1> DEFINE q == [Idle EXCEPT !.pc = "p_claimed", !.msg = m]
<1>3. /\ gen' = gen + 1 /\ finGen' = 0 /\ age' = 0 /\ UNCHANGED <<arts, result>>
      /\ wk' = [wk EXCEPT ![w] = q]
  BY <1>2 DEF ClaimAnalysis
<1>4. q.own = 0
  BY DEF Idle
<1> HIDE DEF q
<1>5. \A v \in Workers : wk'[v].own = 0 \/ wk'[v].own = wk[v].own
  BY <1>3, <1>4, SlotMoves
<1>6. gen \in Nat /\ \A v \in Workers : wk[v].own \in Nat /\ wk[v].own <= gen
  BY WorkerTypes, FieldTypes DEF TypeOK, RowType, GenerationsKnown
<1> QED
  BY <1>2, <1>3, <1>5, <1>6

\* An analysis completes where a finalizer that owns the generation commits.
LEMMA CompletesFromProcessing ==
    ASSUME TypeOK, [Next]_vars, status' = "completed"
    PROVE  \/ status = "completed"
           \/ \E w \in Workers : CommitResult(w) /\ Owns(wk[w].own)
<1>1. CASE status \in Terminal
  BY <1>1, StepKeepsOutcome DEF KeepsOutcome
<1>2. CASE status \in Active
  <2>0. status' # status /\ status' # "failed" /\ status' # "pending" /\ status' # "processing"
    BY <1>2 DEF Active
  <2>1. \A w, r, known, dbDown : ~FailTask(w, r, known, dbDown)
    BY <2>0 DEF FailTask, MarkFailed, row
  <2>2. ASSUME NEW w \in Workers, ProcessStep(w) PROVE FALSE
    BY <2>0, <2>2 DEF ProcessStep, ClaimAnalysis, RefreshAnalysis, PublishWorkflow, Demote,
       ScanAfterPublishFailure, DemoteAfterPublishFailure, RepublishAnalysis, row
  <2>3. ASSUME NEW w \in Workers, ArtifactStep(w) PROVE FALSE
    BY <2>0, <2>1, <2>3
       DEF ArtifactStep, ClaimArtifact, LoadArtifact, SetUpArtifact, CaptureFallback,
           PersistArtifactBatch, BumpAfterBatch, CompleteArtifact, RecordControlledFailure,
           DropArtifactFile, MissesFile, ReturnArtifact, row
  <2>4. ASSUME NEW w \in Workers, FinalizeStep(w) PROVE CommitResult(w) /\ Owns(wk[w].own)
    BY <2>0, <2>4 DEF FinalizeStep, CheckFinalize, ClaimFinalization, ReadEvidence,
       ExplainResult, CommitResult, CleanFiles, row
  <2>5. ASSUME NEW w \in Workers, Failure(w) \/ Loss(w) PROVE FALSE
    BY <2>0, <2>1, <2>5
       DEF Failure, FailsAtStart, ProcessFails, ArtifactFails, FinalizeFails, Loss,
           LoseAfterReturn, LoseWorker, LoseWhilePublishing, PublishFails, Redeliver, row
  <2>6. CASE CancelAnalysis \/ CleanAfterCancel \/ Recover \/ Tick \/ UNCHANGED vars
    BY <2>0, <2>6
       DEF CancelAnalysis, CleanAfterCancel, Recover, ScanStale, ClaimStale, Demote,
           RedispatchStale, Tick, row, vars
  <2> QED
    BY <2>2, <2>3, <2>4, <2>5, <2>6 DEF Next, WorkerStep
<1> QED
  BY <1>1, <1>2 DEF TypeOK, RowType

LEMMA OwnersInit == Init => OwnerInv
<1> SUFFICES ASSUME Init PROVE OwnerInv
    OBVIOUS
<1>1. TypeOK
  BY InitType
<1>2. \A w \in Workers : wk[w] = Idle
  BY DEF Init
<1>3. Idle.pc = "idle" /\ Idle.own = 0 /\ Idle.msg.gen = 0 /\ ProcessMsg(0).gen = 0
  BY DEF Idle, NoMsg, ProcessMsg
<1>4. gen = 0 /\ finGen = 0 /\ status = "pending" /\ queue \subseteq {ProcessMsg(0)}
  BY DEF Init
<1> QED
  BY <1>1, <1>2, <1>3, <1>4
     DEF OwnerInv, GenerationsKnown, FinalizationOfRow, ClaimsHold, FinalizationHolds, Current

\* A finalization claim is one of the current generation.
LEMMA RowFinalization ==
    ASSUME OwnerInv, [Next]_vars
    PROVE  FinalizationOfRow'
<1> USE DEF OwnerInv, FinalizationOfRow
<1>0. gen \in Nat
  BY DEF TypeOK, RowType
<1>1. CASE gen' # gen
  <2>1. PICK w \in Workers, m \in queue : ClaimAnalysis(w, m)
    BY <1>1, GenerationGrows
  <2> QED
    BY <1>0, <1>1, <2>1 DEF ClaimAnalysis, row
<1>2. CASE gen' = gen
  <2>1. finGen' \in {0, gen}
    <3>1. \A w, r, known, dbDown : FailTask(w, r, known, dbDown) => finGen' \in {0, gen}
      BY DEF FailTask, MarkFailed, ClearData, row
    <3>2. \A S : Demote(S) => finGen' = 0
      BY DEF Demote
    <3>3. ASSUME NEW w \in Workers, ProcessStep(w) PROVE finGen' \in {0, gen}
      BY <3>2, <3>3 DEF ProcessStep, ClaimAnalysis, RefreshAnalysis, PublishWorkflow,
         ScanAfterPublishFailure, DemoteAfterPublishFailure, RepublishAnalysis, row
    <3>4. ASSUME NEW w \in Workers, ArtifactStep(w) PROVE finGen' \in {0, gen}
      BY <3>1, <3>4
         DEF ArtifactStep, ClaimArtifact, LoadArtifact, SetUpArtifact, CaptureFallback,
             PersistArtifactBatch, BumpAfterBatch, CompleteArtifact, RecordControlledFailure,
             DropArtifactFile, MissesFile, ReturnArtifact, row
    <3>5. ASSUME NEW w \in Workers, FinalizeStep(w) PROVE finGen' \in {0, gen}
      BY <3>5 DEF FinalizeStep, CheckFinalize, ClaimFinalization, Mine, ReadEvidence,
         ExplainResult, CommitResult, CleanFiles, row
    <3>6. ASSUME NEW w \in Workers, Failure(w) \/ Loss(w) PROVE finGen' \in {0, gen}
      BY <3>1, <3>6
         DEF Failure, FailsAtStart, ProcessFails, ArtifactFails, FinalizeFails, Loss,
             LoseAfterReturn, LoseWorker, LoseWhilePublishing, PublishFails, Redeliver, row
    <3>7. CASE CancelAnalysis \/ CleanAfterCancel \/ Recover \/ Tick \/ UNCHANGED vars
      BY <3>2, <3>7
         DEF CancelAnalysis, ClearData, CleanAfterCancel, Recover, ScanStale, ClaimStale,
             RedispatchStale, Tick, row, vars
    <3> QED
      BY <3>3, <3>4, <3>5, <3>6, <3>7 DEF Next, WorkerStep
  <2>2. CASE status' = "completed"
    BY <1>0, <1>2, <2>1, <2>2, CompletesFromProcessing DEF Owns, Mine
  <2>3. CASE status' = "processing"
    BY <1>0, <1>2, <2>1, <2>3, ProcessingBegins
  <2> QED
    BY <1>2, <2>1, <2>2, <2>3
<1> QED
  BY <1>1, <1>2

LEMMA OwnersStep ==
    ASSUME OwnerInv, [Next]_vars
    PROVE  OwnerInv'
<1> USE DEF OwnerInv
<1>1. TypeOK' /\ GenerationsKnown'
  BY NextTypes, GenerationStep
<1>2. FinalizationOfRow'
  BY RowFinalization
<1>3. CASE status = "processing" /\ status' = "processing" /\ gen' = gen
  BY <1>1, <1>2, <1>3, ClaimsSteady, FinalizationSteady
<1>4. CASE status' = "processing" /\ ~(status = "processing" /\ gen' = gen)
  <2>1. finGen' = 0 /\ \A w \in Workers : ~Current(w)'
    <3>1. gen \in Nat /\ \A w \in Workers : wk'[w].own \in Nat /\ wk'[w].own < gen' /\ gen' \in Nat
      BY <1>1, <1>4, ProcessingBegins, WorkerTypes, FieldTypes DEF TypeOK, RowType, WorkType, Worker
    <3> QED
      BY <1>4, <3>1, ProcessingBegins DEF Current
  <2> QED
    BY <1>1, <1>2, <2>1 DEF ClaimsHold, FinalizationHolds
<1>5. CASE status' # "processing"
  BY <1>1, <1>2, <1>5 DEF ClaimsHold, FinalizationHolds, Current
<1> QED
  BY <1>3, <1>4, <1>5

\* Of the worker slots, at most one works for the current generation on the same
\* artifact, and at most one finalizes it, however the messages are delivered: the
\* claim of process_analysis, of an artifact and of the finalization.
THEOREM OneOwnerEach == Spec => []OneOwner
<1>1. OwnerInv => OneOwner
  <2> SUFFICES ASSUME OwnerInv, NEW v \in Workers, NEW w \in Workers, v # w,
                      Current(v), Current(w)
               PROVE  /\ ~(Finalizing(v) /\ Finalizing(w))
                      /\ ~(Finalizing(v) /\ Working(w) /\ finGen = gen)
                      /\ Working(v) /\ Working(w) => Artifact(v) # Artifact(w)
      BY DEF OneOwner, Current
  <2>1. ~(Finalizing(v) /\ Finalizing(w))
    BY DEF OwnerInv, FinalizationHolds
  <2>2. ASSUME Working(w), finGen = gen PROVE FALSE
    <3>1. art[Artifact(w)] = "processing" /\ Artifact(w) \in Artifacts
      BY <2>2, ArtifactFacts DEF OwnerInv, ClaimsHold, Holding, Working, ArtifactPcs
    <3>2. AllSettled
      BY <2>2 DEF OwnerInv, FinalizationOfRow, FinalizationHolds, Current, TypeOK, RowType
    <3> QED
      BY <3>1, <3>2 DEF AllSettled, Settled
  <2>3. Working(v) /\ Working(w) => Artifact(v) # Artifact(w)
    BY DEF OwnerInv, ClaimsHold, Holding
  <2> QED
    BY <2>1, <2>2, <2>3
<1> QED
  BY <1>1, OwnersInit, OwnersStep, PTL DEF Spec

-----------------------------------------------------------------------------
(* Where a slot goes                                                       *)

\* What a step leaves in the slot it moves.
Goes(w) ==
    \/ wk'[w] = Idle
    \/ wk'[w].pc \in {"p_ready", "p_republish", "f_checked", "f_claimed", "f_read",
                      "f_explained"} \cup (ArtifactPcs \ {"a_drop"})
    \/ wk'[w].pc = "p_claimed" /\ wk'[w].own = 0
    \/ wk'[w].pc = "p_unpublished" /\ "publish" \in Faults
    \/ /\ wk'[w].pc = "p_demoting" /\ wk'[w].names = StuckImages
       /\ wk[w].pc = "p_unpublished"
    \/ /\ wk'[w].pc = "a_drop"
       /\ Artifact(w)' = Artifact(w) /\ Artifact(w) \in Artifacts
       /\ art'[Artifact(w)] = "controlled"
    \/ wk'[w].pc = "clean" /\ status' \in Terminal

Moved(w) == Goes(w) /\ \A v \in Workers \ {w} : wk'[v] = wk[v]

LEMMA FailMoves ==
    ASSUME TypeOK, NEW w \in Workers, NEW r \in Worker, NEW known, NEW dbDown,
           FailTask(w, r, known, dbDown)
    PROVE  Moved(w)
<1> DEFINE q1 == [r EXCEPT !.pc = "clean", !.ret = "error"]
           q2 == [r EXCEPT !.pc = "return", !.ret = "error"]
<1>1. q1.pc = "clean" /\ q2.pc = "return"
  BY DEF Worker
<1>2. \/ wk' = [wk EXCEPT ![w] = q1] /\ status' \in Terminal
      \/ wk' = [wk EXCEPT ![w] = q2]
      \/ wk' = [wk EXCEPT ![w] = Idle]
  BY DEF FailTask, MarkFailed, Terminal
<1> HIDE DEF q1, q2
<1>3. /\ \A v \in Workers \ {w} : wk'[v] = wk[v]
      /\ (wk'[w] = q1 /\ status' \in Terminal) \/ wk'[w] = q2 \/ wk'[w] = Idle
  BY <1>2, SlotMoves
<1> QED
  BY <1>1, <1>3 DEF Moved, Goes, ArtifactPcs

LEMMA ProcessMoves ==
    ASSUME TypeOK, NEW w \in Workers, ProcessStep(w)
    PROVE  UNCHANGED wk \/ Moved(w)
<1>1. ASSUME NEW m \in queue, ClaimAnalysis(w, m) PROVE UNCHANGED wk \/ Moved(w)
  <2> DEFINE q == [Idle EXCEPT !.pc = "p_claimed", !.msg = m]
  <2>1. q.pc = "p_claimed" /\ q.own = 0
    BY DEF Idle
  <2>2. UNCHANGED wk \/ wk' = [wk EXCEPT ![w] = q]
    BY <1>1 DEF ClaimAnalysis
  <2> HIDE DEF q
  <2> QED
    BY <2>1, <2>2, SlotMoves DEF Moved, Goes
<1>2. CASE RefreshAnalysis(w)
  <2> DEFINE q(S) == [wk[w] EXCEPT !.pc = "p_ready", !.own = gen, !.names = S]
  <2>1. \A S : q(S).pc = "p_ready"
    BY SlotMoves DEF Worker
  <2>2. Stop(w) \/ \E S : wk' = [wk EXCEPT ![w] = q(S)]
    BY <1>2, WorkerTypes DEF RefreshAnalysis, TypeOK, WorkType
  <2> HIDE DEF q
  <2>3. (\A v \in Workers \ {w} : wk'[v] = wk[v]) /\ (wk'[w] = Idle \/ \E S : wk'[w] = q(S))
    BY <2>2, SlotMoves
  <2> QED
    BY <2>1, <2>3 DEF Moved, Goes
<1>3. CASE PublishWorkflow(w) \/ RepublishAnalysis(w)
  BY <1>3, SlotMoves DEF PublishWorkflow, RepublishAnalysis, Moved, Goes
<1>4. CASE ScanAfterPublishFailure(w)
  <2> DEFINE q == [wk[w] EXCEPT !.pc = "p_demoting", !.names = StuckImages]
  <2>1. q.pc = "p_demoting" /\ q.names = StuckImages
    BY SlotMoves DEF Worker
  <2>2. wk[w].pc = "p_unpublished" /\ (wk' = [wk EXCEPT ![w] = q] \/ Stop(w))
    BY <1>4, WorkerTypes DEF ScanAfterPublishFailure, TypeOK, WorkType
  <2> HIDE DEF q
  <2> QED
    BY <2>1, <2>2, SlotMoves DEF Moved, Goes
<1>5. CASE DemoteAfterPublishFailure(w)
  <2> DEFINE q == [wk[w] EXCEPT !.pc = "p_republish", !.names = {}]
  <2>1. q.pc = "p_republish"
    BY SlotMoves DEF Worker
  <2>2. wk' = [wk EXCEPT ![w] = q] \/ Stop(w)
    BY <1>5, WorkerTypes DEF DemoteAfterPublishFailure, TypeOK, WorkType
  <2> HIDE DEF q
  <2> QED
    BY <2>1, <2>2, SlotMoves DEF Moved, Goes
<1> QED
  BY <1>1, <1>2, <1>3, <1>4, <1>5 DEF ProcessStep

LEMMA ArtifactMoves ==
    ASSUME TypeOK, NEW w \in Workers, ArtifactStep(w)
    PROVE  Moved(w)
<1>1. ASSUME NEW m \in queue, ClaimArtifact(w, m) PROVE Moved(w)
  <2> DEFINE q(pc) == [Idle EXCEPT !.pc = pc, !.msg = m, !.own = m.gen]
  <2>1. \A pc : q(pc).pc = pc
    BY DEF Idle
  <2>2. PICK pc \in {"a_claimed", "return"} : wk' = [wk EXCEPT ![w] = q(pc)]
    BY <1>1 DEF ClaimArtifact
  <2> HIDE DEF q
  <2>3. (\A v \in Workers \ {w} : wk'[v] = wk[v]) /\ wk'[w] = q(pc)
    BY <2>2, SlotMoves
  <2> QED
    BY <2>1, <2>3 DEF Moved, Goes, ArtifactPcs
<1>2. CASE LoadArtifact(w)
  <2> DEFINE q(n) == [wk[w] EXCEPT !.pc = "a_setup", !.pos = n]
  <2>1. \A n : q(n).pc = "a_setup"
    BY SlotMoves DEF Worker
  <2>2. Step(w, "return") \/ \E n : wk' = [wk EXCEPT ![w] = q(n)]
    BY <1>2 DEF LoadArtifact, TypeOK, WorkType
  <2> HIDE DEF q
  <2>3. (\A v \in Workers \ {w} : wk'[v] = wk[v]) /\ (wk'[w].pc = "return" \/ \E n : wk'[w] = q(n))
    BY <2>2, SlotMoves
  <2> QED
    BY <2>1, <2>3 DEF Moved, Goes, ArtifactPcs
<1>3. CASE SetUpArtifact(w) \/ CaptureFallback(w) \/ BumpAfterBatch(w) \/ CompleteArtifact(w)
           \/ DropArtifactFile(w)
  <2>1. \E pc \in {"return", "a_capture", "a_run"} : Step(w, pc)
    BY <1>3 DEF SetUpArtifact, CaptureFallback, BumpAfterBatch, CompleteArtifact, DropArtifactFile
  <2> QED
    BY <2>1, SlotMoves DEF Moved, Goes, ArtifactPcs
<1>4. CASE PersistArtifactBatch(w)
  <2> DEFINE q(n) == [wk[w] EXCEPT !.pc = "a_beat", !.pos = n, !.ret = "some"]
  <2>1. \A n : q(n).pc = "a_beat"
    BY SlotMoves DEF Worker
  <2>2. Step(w, "return") \/ \E n : wk' = [wk EXCEPT ![w] = q(n)]
    BY <1>4 DEF PersistArtifactBatch, TypeOK, WorkType
  <2> HIDE DEF q
  <2>3. (\A v \in Workers \ {w} : wk'[v] = wk[v]) /\ (wk'[w].pc = "return" \/ \E n : wk'[w] = q(n))
    BY <2>2, SlotMoves
  <2> QED
    BY <2>1, <2>3 DEF Moved, Goes, ArtifactPcs
<1>5. CASE RecordControlledFailure(w)
  <2> DEFINE q(pc) == [wk[w] EXCEPT !.pc = pc, !.ret = "none"]
  <2>1. \A pc : q(pc).pc = pc /\ q(pc).msg = wk[w].msg
    BY SlotMoves DEF Worker
  <2>2. Artifact(w) \in Artifacts
    BY <1>5, ArtifactFacts DEF RecordControlledFailure, ArtifactPcs
  <2>3. \/ wk' = [wk EXCEPT ![w] = q("return")]
        \/ wk' = [wk EXCEPT ![w] = q("a_drop")] /\ art'[Artifact(w)] = "controlled"
    BY <1>5, <2>2 DEF RecordControlledFailure, TypeOK, WorkType, ArtifactsType
  <2> HIDE DEF q
  <2>4. /\ \A v \in Workers \ {w} : wk'[v] = wk[v]
        /\ \/ wk'[w] = q("return")
           \/ wk'[w] = q("a_drop") /\ art'[Artifact(w)] = "controlled"
    BY <2>3, SlotMoves
  <2> QED
    BY <2>1, <2>2, <2>4 DEF Moved, Goes, ArtifactPcs, Artifact
<1>6. CASE MissesFile(w)
  BY <1>6, FailMoves, SlotMoves DEF MissesFile
<1>7. CASE ReturnArtifact(w)
  BY <1>7, SlotMoves DEF ReturnArtifact, Moved, Goes
<1> QED
  BY <1>1, <1>2, <1>3, <1>4, <1>5, <1>6, <1>7 DEF ArtifactStep

LEMMA FinalizeMoves ==
    ASSUME TypeOK, NEW w \in Workers, FinalizeStep(w)
    PROVE  UNCHANGED wk \/ Moved(w)
<1>1. ASSUME NEW m \in queue, CheckFinalize(w, m) PROVE UNCHANGED wk \/ Moved(w)
  <2> DEFINE q == [Idle EXCEPT !.pc = "f_checked", !.msg = m, !.own = m.gen]
  <2>1. q.pc = "f_checked"
    BY DEF Idle
  <2>2. UNCHANGED wk \/ wk' = [wk EXCEPT ![w] = q]
    BY <1>1 DEF CheckFinalize
  <2> HIDE DEF q
  <2> QED
    BY <2>1, <2>2, SlotMoves DEF Moved, Goes
<1>2. CASE ReadEvidence(w)
  <2> DEFINE q(pc) == [wk[w] EXCEPT !.pc = pc, !.seen = evid]
  <2>1. \A pc : q(pc).pc = pc
    BY SlotMoves DEF Worker
  <2>2. Stop(w) \/ \E pc \in {"f_read", "f_explained"} : wk' = [wk EXCEPT ![w] = q(pc)]
    BY <1>2 DEF ReadEvidence, TypeOK, WorkType
  <2> HIDE DEF q
  <2>3. /\ \A v \in Workers \ {w} : wk'[v] = wk[v]
        /\ wk'[w] = Idle \/ \E pc \in {"f_read", "f_explained"} : wk'[w] = q(pc)
    BY <2>2, SlotMoves
  <2> QED
    BY <2>1, <2>3 DEF Moved, Goes
<1>3. CASE ClaimFinalization(w) \/ ExplainResult(w)
  <2>1. Stop(w) \/ \E pc \in {"f_claimed", "f_explained"} : Step(w, pc)
    BY <1>3 DEF ClaimFinalization, ExplainResult
  <2> QED
    BY <2>1, SlotMoves DEF Moved, Goes
<1>4. CASE CommitResult(w)
  <2>1. Stop(w) \/ (Step(w, "clean") /\ status' \in Terminal)
    BY <1>4 DEF CommitResult, Terminal
  <2> QED
    BY <2>1, SlotMoves DEF Moved, Goes
<1>5. CASE CleanFiles(w)
  <2>1. Stop(w) \/ Step(w, "return")
    BY <1>5 DEF CleanFiles
  <2> QED
    BY <2>1, SlotMoves DEF Moved, Goes, ArtifactPcs
<1> QED
  BY <1>1, <1>2, <1>3, <1>4, <1>5 DEF FinalizeStep

LEMMA WorkerMoves ==
    ASSUME TypeOK, NEW w \in Workers, WorkerStep(w) \/ Failure(w) \/ Loss(w)
    PROVE  UNCHANGED wk \/ Moved(w)
<1>1. ASSUME Failure(w) PROVE Moved(w)
  <2>1. wk[w] \in Worker
    BY WorkerTypes DEF TypeOK
  <2>2. \A m \in queue : [Idle EXCEPT !.msg = m, !.own = m.gen] \in Worker
    BY IdleType, MessageFields DEF TypeOK, BrokerType, Idle, Worker, ArtifactPcs
  <2> QED
    BY <1>1, <2>1, <2>2, FailMoves
       DEF Failure, FailsAtStart, ProcessFails, ArtifactFails, FinalizeFails
<1>2. ASSUME Loss(w) PROVE UNCHANGED wk \/ Moved(w)
  <2> DEFINE q == [wk[w] EXCEPT !.pc = "p_unpublished", !.names = {}]
  <2>1. q.pc = "p_unpublished"
    BY SlotMoves DEF Worker
  <2>2. \/ wk' = [wk EXCEPT ![w] = q] /\ "publish" \in Faults
        \/ Stop(w) \/ UNCHANGED wk
    BY <1>2 DEF TypeOK, WorkType, Loss, LoseAfterReturn, LoseWorker, LoseWhilePublishing,
       PublishFails, MayFail, Redeliver
  <2> HIDE DEF q
  <2> QED
    BY <2>1, <2>2, SlotMoves DEF Moved, Goes
<1> QED
  BY <1>1, <1>2, ProcessMoves, ArtifactMoves, FinalizeMoves DEF WorkerStep

LEMMA OthersMoveNobody ==
    ASSUME CancelAnalysis \/ CleanAfterCancel \/ Recover \/ Tick \/ UNCHANGED vars
    PROVE  UNCHANGED wk
BY DEF CancelAnalysis, CleanAfterCancel, Recover, ScanStale, ClaimStale, RedispatchStale, Tick,
   vars

\* A step moves at most one worker slot, and leaves it in one of these places.
LEMMA OneMoves ==
    ASSUME TypeOK, [Next]_vars
    PROVE  UNCHANGED wk \/ \E w \in Workers : Moved(w)
BY WorkerMoves, OthersMoveNobody DEF Next

-----------------------------------------------------------------------------
(* Evidence                                                                *)

LEMMA DemotionStep ==
    ASSUME TypeOK, DemotesImages, [Next]_vars
    PROVE  DemotesImages'
<1>1. StuckImages \subseteq Images
  BY DEF StuckImages
<1>2. ASSUME NEW w \in Workers, wk'[w] = wk[w] \/ Goes(w)
      PROVE  wk'[w].pc = "p_demoting" => wk'[w].names \subseteq Images
  BY <1>1, <1>2 DEF Goes, DemotesImages, ArtifactPcs, Idle
<1> QED
  BY <1>2, OneMoves DEF Moved, DemotesImages

\* A demotion gives the artifacts S back: those of the snapshot that recovery took, or
\* of the one that process_analysis took after it could not publish.
Demotion(S) ==
    /\ Demote(S)
    /\ status = "processing"
    /\ \/ rec.at = "scanned" /\ rec.kind # "pending" /\ age >= 1 /\ S = rec.stuck
       \/ \E w \in Workers : wk[w].pc = "p_demoting" /\ S = wk[w].names

\* Outside a generation that is being processed, artifacts and evidence of a living
\* analysis change only by a demotion.
LEMMA OtherSteps ==
    ASSUME TypeOK, DemotesImages, [Next]_vars,
           ~(status = "processing" /\ status' = "processing"),
           status' \notin {"failed", "cancelled"}
    PROVE  \/ UNCHANGED <<art, done, evid>> /\ (status' = "pending" => status = "pending")
           \/ \E S \in SUBSET Images : Demotion(S)
<1> DEFINE Kept == UNCHANGED <<art, done, evid>> /\ (status' = "pending" => status = "pending")
<1>0. CASE status \in Terminal
  BY <1>0, StepKeepsOutcome DEF KeepsOutcome
<1>1. CASE status = "processing" /\ status' \in {"pending", "completed"}
  <2>1. \A w, r, known, dbDown : FailTask(w, r, known, dbDown) => Kept
    BY <1>1 DEF FailTask, MarkFailed, row, arts
  <2>2. ASSUME NEW w \in Workers, ProcessStep(w)
        PROVE  Kept \/ \E S \in SUBSET Images : Demotion(S)
    <3>1. CASE DemoteAfterPublishFailure(w)
      BY <1>1, <3>1 DEF DemoteAfterPublishFailure, Demotion, DemotesImages, row
    <3> QED
      BY <1>1, <2>2, <3>1 DEF ProcessStep, ClaimAnalysis, RefreshAnalysis, PublishWorkflow,
         ScanAfterPublishFailure, RepublishAnalysis, row, arts
  <2>3. ASSUME NEW w \in Workers, ArtifactStep(w) PROVE Kept
    BY <1>1, <2>1, <2>3
       DEF ArtifactStep, ClaimArtifact, LoadArtifact, SetUpArtifact, CaptureFallback,
           PersistArtifactBatch, BumpAfterBatch, CompleteArtifact, RecordControlledFailure,
           DropArtifactFile, MissesFile, ReturnArtifact, row
  <2>4. ASSUME NEW w \in Workers, FinalizeStep(w) PROVE Kept
    BY <1>1, <2>4 DEF FinalizeStep, CheckFinalize, ClaimFinalization, ReadEvidence,
       ExplainResult, CommitResult, CleanFiles, row, arts
  <2>5. ASSUME NEW w \in Workers, Failure(w) \/ Loss(w) PROVE Kept
    BY <1>1, <2>1, <2>5
       DEF Failure, FailsAtStart, ProcessFails, ArtifactFails, FinalizeFails, Loss,
           LoseAfterReturn, LoseWorker, LoseWhilePublishing, PublishFails, Redeliver, row, arts
  <2>6. ASSUME CancelAnalysis \/ CleanAfterCancel \/ Recover \/ Tick \/ UNCHANGED vars
        PROVE  Kept \/ \E S \in SUBSET Images : Demotion(S)
    <3>1. CASE ClaimStale
      <4>1. rec.stuck \subseteq Images /\ age \in Nat
        BY DEF TypeOK, OtherType, Recovery, RowType
      <4> QED
        BY <1>1, <3>1, <4>1 DEF ClaimStale, Stale, Demotion, row, arts
    <3> QED
      BY <1>1, <2>6, <3>1
         DEF CancelAnalysis, CleanAfterCancel, Recover, ScanStale, RedispatchStale, Tick, row,
             arts, vars
  <2> QED
    BY <2>2, <2>3, <2>4, <2>5, <2>6 DEF Next, WorkerStep
<1>2. CASE status = "pending"
  <2>1. \A w, r, known, dbDown : FailTask(w, r, known, dbDown) => UNCHANGED <<art, done, evid>>
    BY DEF FailTask, MarkFailed, ClearData, arts
  <2>2. ASSUME NEW w \in Workers, ProcessStep(w) PROVE UNCHANGED <<art, done, evid>>
    BY <1>2, <2>2 DEF ProcessStep, ClaimAnalysis, RefreshAnalysis, PublishWorkflow, Mine,
       ScanAfterPublishFailure, DemoteAfterPublishFailure, RepublishAnalysis, arts
  <2>3. ASSUME NEW w \in Workers, ArtifactStep(w) PROVE UNCHANGED <<art, done, evid>>
    BY <1>2, <2>1, <2>3
       DEF ArtifactStep, ClaimArtifact, Claimable, Mine, Authorized, LoadArtifact,
           SetUpArtifact, CaptureFallback, PersistArtifactBatch, BumpAfterBatch,
           CompleteArtifact, RecordControlledFailure, DropArtifactFile, MissesFile,
           ReturnArtifact, arts
  <2>4. ASSUME NEW w \in Workers, FinalizeStep(w) PROVE UNCHANGED <<art, done, evid>>
    BY <2>4 DEF FinalizeStep, CheckFinalize, ClaimFinalization, ReadEvidence, ExplainResult,
       CommitResult, CleanFiles, arts
  <2>5. ASSUME NEW w \in Workers, Failure(w) \/ Loss(w) PROVE UNCHANGED <<art, done, evid>>
    BY <2>1, <2>5
       DEF Failure, FailsAtStart, ProcessFails, ArtifactFails, FinalizeFails, Loss,
           LoseAfterReturn, LoseWorker, LoseWhilePublishing, PublishFails, Redeliver, arts
  <2>6. CASE CancelAnalysis \/ CleanAfterCancel \/ Recover \/ Tick \/ UNCHANGED vars
    BY <1>2, <2>6
       DEF CancelAnalysis, CleanAfterCancel, Recover, ScanStale, ClaimStale, Stale,
           RedispatchStale, Tick, arts, vars, TypeOK, OtherType, Recovery
  <2> QED
    BY <1>2, <2>2, <2>3, <2>4, <2>5, <2>6 DEF Next, WorkerStep
<1>3. CASE status = "processing" /\ status' \notin {"pending", "completed"}
  <2>1. status' \in Active \cup Terminal
    BY NextTypes DEF TypeOK, RowType
  <2> QED
    BY <1>3, <2>1 DEF Active, Terminal
<1> QED
  BY <1>0, <1>1, <1>2, <1>3 DEF TypeOK, RowType, Active, Terminal

\* Evidence and checkpoint of one artifact move together, whoever moves them.
LEMMA EvidenceStep ==
    ASSUME OwnerInv, EvidenceInv, [Next]_vars
    PROVE  EvidenceInv'
<1> USE DEF OwnerInv, EvidenceInv
<1>1. DemotesImages'
  BY DemotionStep
<1> SUFFICES ASSUME status' \notin {"failed", "cancelled"}
             PROVE  (CheckpointsHold /\ CheckpointMatchesEvidence)'
    BY <1>1 DEF CheckpointsHold, CheckpointMatchesEvidence
<1>2. status \notin {"failed", "cancelled"}
  BY StepKeepsOutcome DEF KeepsOutcome, Terminal
<1>3. /\ \A a \in Artifacts : /\ done[a] \in Nat /\ done[a] <= Length[a]
                              /\ art[a] \in {"skipped", "controlled"} => done[a] = 0
                              /\ art[a] = "completed" => done[a] = Length[a]
      /\ \A a \in Artifacts \ Images : \A b \in Batches :
            evid[a][b] = IF b <= done[a] THEN 1 ELSE 0
  BY <1>2 DEF CheckpointsHold, CheckpointMatchesEvidence, TypeOK, ArtifactsType
<1>4. /\ \A a \in Artifacts : Length[a] \in Nat /\ Length[a] > 0
      /\ Batches \subseteq Nat \ {0}
  BY ArtifactsAssumption
<1>5. CASE UNCHANGED <<done, evid>>
           /\ \A a \in Artifacts : art'[a] = art[a] \/ art'[a] = "processing"
  BY <1>3, <1>5 DEF CheckpointsHold, CheckpointMatchesEvidence
<1>6. ASSUME NEW S \in SUBSET Images, Demote(S)
      PROVE  (CheckpointsHold /\ CheckpointMatchesEvidence)'
  <2>1. \A a \in Artifacts :
          /\ art'[a] = IF a \in S \/ art[a] = "processing" THEN "pending" ELSE art[a]
          /\ done'[a] = IF a \in S THEN 0 ELSE done[a]
    BY <1>6 DEF Demote
  <2>2. \A a \in Artifacts \ Images : evid'[a] = evid[a]
    BY <1>6 DEF Demote
  <2> QED
    BY <1>3, <1>4, <2>1, <2>2 DEF CheckpointsHold, CheckpointMatchesEvidence
<1>7. CASE ~(status = "processing" /\ status' = "processing")
  BY <1>5, <1>6, <1>7, OtherSteps DEF Demotion
<1>8. ASSUME NEW w \in Workers, ClaimsArtifact(w) \/ Loads(w) \/ Checks(w) \/ Finalizes(w) \/ Reads(w)
      PROVE  UNCHANGED <<done, evid>>
             /\ \A a \in Artifacts : art'[a] = art[a] \/ art'[a] = "processing"
  BY <1>8 DEF ClaimsArtifact, ClaimArtifact, Loads, LoadArtifact, Checks, CheckFinalize,
     Finalizes, ClaimFinalization, Reads, ReadEvidence, arts, TypeOK, ArtifactsType
<1>9. ASSUME NEW w \in Workers, Persists(w) \/ Completes(w) \/ Records(w)
      PROVE  (CheckpointsHold /\ CheckpointMatchesEvidence)'
  <2> DEFINE a == Artifact(w)
  <2>1. /\ Current(w) /\ Holding(w) /\ Working(w) /\ a \in Artifacts
        /\ wk[w].pos \in Nat
        /\ art[a] = "processing" /\ (a \notin Images => wk[w].pos = done[a])
    BY <1>9, ArtifactFacts
       DEF Persists, PersistArtifactBatch, Completes, CompleteArtifact, Records,
           RecordControlledFailure, Authorized, Mine, Current, Holding, Working, ArtifactPcs,
           ClaimsHold
  <2>2. /\ \A c \in Artifacts \ {a} : /\ art'[c] = art[c] /\ done'[c] = done[c]
                                      /\ evid'[c] = evid[c]
    BY <1>9, <2>1
       DEF Persists, PersistArtifactBatch, Completes, CompleteArtifact, Records,
           RecordControlledFailure, TypeOK, ArtifactsType, Evidence
  <2>3. CASE Persists(w)
    <3> DEFINE n == wk[w].pos + 1
    <3>1. /\ wk[w].pos < Length[a] /\ art' = art
          /\ evid' = [evid EXCEPT ![a][n] = @ + 1]
          /\ done' = IF a \in Images THEN done ELSE [done EXCEPT ![a] = n]
      BY <2>3 DEF Persists, PersistArtifactBatch
    <3>2. n \in Nat /\ n <= Length[a] /\ n \in Batches
      BY <1>4, <2>1, <3>1, ArtifactsAssumption
    <3>3. /\ evid \in [Artifacts -> [Batches -> Nat]] /\ done \in [Artifacts -> Nat]
      BY DEF TypeOK, ArtifactsType, Evidence
    <3> HIDE DEF n
    <3>4. /\ evid'[a][n] = evid[a][n] + 1
          /\ \A b \in Batches \ {n} : evid'[a][b] = evid[a][b]
      BY <2>1, <3>1, <3>2, <3>3
    <3>5. done'[a] = IF a \in Images THEN done[a] ELSE n
      BY <2>1, <3>1, <3>3
    <3>6. a \notin Images => n = done[a] + 1
      BY <2>1 DEF n
    <3>7. \A b \in Batches : a \notin Images => evid'[a][b] = IF b <= done'[a] THEN 1 ELSE 0
      BY <1>3, <1>4, <2>1, <3>2, <3>4, <3>5, <3>6
    <3> QED
      BY <1>3, <2>1, <2>2, <3>1, <3>2, <3>5, <3>7 DEF CheckpointsHold, CheckpointMatchesEvidence
  <2>4. CASE Completes(w)
    <3>1. /\ wk[w].pos >= Length[a] /\ evid' = evid
          /\ art'[a] = "completed" /\ done'[a] = Length[a]
      BY <2>1, <2>4 DEF Completes, CompleteArtifact, TypeOK, ArtifactsType
    <3>2. a \notin Images => done'[a] = done[a]
      BY <1>3, <1>4, <2>1, <3>1
    <3> QED
      BY <1>3, <1>4, <2>1, <2>2, <3>1, <3>2 DEF CheckpointsHold, CheckpointMatchesEvidence
  <2>5. CASE Records(w)
    <3>1. /\ art'[a] = "controlled" /\ done'[a] = 0 /\ evid'[a] = [b \in Batches |-> 0]
      BY <2>1, <2>5 DEF Records, RecordControlledFailure, TypeOK, ArtifactsType, Evidence
    <3> QED
      BY <1>3, <1>4, <2>1, <2>2, <3>1 DEF CheckpointsHold, CheckpointMatchesEvidence
  <2> QED
    BY <1>9, <2>3, <2>4, <2>5
<1>10. CASE status = "processing" /\ status' = "processing"
  <2>1. ASSUME Outside \/ \E w \in Workers : Aside(w)
        PROVE  UNCHANGED <<art, done, evid>>
    BY <2>1 DEF Outside, Aside
  <2> QED
    BY <1>5, <1>8, <1>9, <1>10, <2>1, Moves DEF Special
<1> QED
  BY <1>7, <1>10

LEMMA EvidenceInit == Init => EvidenceInv
<1> SUFFICES ASSUME Init PROVE EvidenceInv
    OBVIOUS
<1>1. /\ \A a \in Artifacts : Length[a] \in Nat /\ Length[a] > 0
      /\ Batches \subseteq Nat \ {0}
  BY ArtifactsAssumption
<1>2. DemotesImages
  BY DEF Init, DemotesImages, Idle
<1>3. CheckpointsHold
  BY <1>1 DEF Init, CheckpointsHold
<1>4. CheckpointMatchesEvidence
  BY <1>1 DEF Init, CheckpointMatchesEvidence, NoEvidence
<1> QED
  BY <1>2, <1>3, <1>4 DEF EvidenceInv

\* While the analysis lives, the evidence of a text artifact is what lies before its
\* checkpoint, each batch once, whatever is lost, redelivered or recovered.
THEOREM EvidenceOnce == Spec => []CheckpointMatchesEvidence
<1>1. Init => OwnerInv /\ EvidenceInv
  BY OwnersInit, EvidenceInit
<1>2. OwnerInv /\ EvidenceInv /\ [Next]_vars => (OwnerInv /\ EvidenceInv)'
  BY OwnersStep, EvidenceStep
<1>3. EvidenceInv => CheckpointMatchesEvidence
  BY DEF EvidenceInv
<1> QED
  BY <1>1, <1>2, <1>3, PTL DEF Spec

-----------------------------------------------------------------------------
(* The result                                                              *)

\* A completed analysis shows all its evidence: what the finalizer read outside any
\* lock is what is stored when it commits, and ever after.
THEOREM ResultCurrent == Spec => []ResultIsCurrent
<1>1. Init => ResultIsCurrent
  BY DEF Init, ResultIsCurrent
<1>2. OwnerInv /\ ResultIsCurrent /\ [Next]_vars => ResultIsCurrent'
  <2> SUFFICES ASSUME OwnerInv, ResultIsCurrent, [Next]_vars, status' = "completed"
               PROVE  ResultIsCurrent'
      BY DEF ResultIsCurrent
  <2>1. CASE status = "completed"
    BY <2>1, StepKeepsOutcome DEF OwnerInv, KeepsOutcome, Terminal, ResultIsCurrent
  <2>2. ASSUME NEW w \in Workers, CommitResult(w), Owns(wk[w].own)
        PROVE  ResultIsCurrent'
    <3>1. Current(w) /\ Finalizing(w) /\ Finisher(w) /\ wk[w].pc = "f_explained"
      BY <2>2 DEF CommitResult, Owns, Mine, Current, Finalizing, Finisher
    <3>2. AllSettled /\ wk[w].seen = evid
      BY <3>1 DEF OwnerInv, FinalizationHolds
    <3>3. /\ result' = [gen |-> gen, view |-> evid]
          /\ UNCHANGED <<gen, art, evid>>
      BY <2>2, <3>2 DEF CommitResult, Owns, Mine, arts
    <3> QED
      BY <3>2, <3>3 DEF ResultIsCurrent, AllSettled
  <2> QED
    BY <2>1, <2>2, CompletesFromProcessing DEF OwnerInv
<1> QED
  BY <1>1, <1>2, OwnersInit, OwnersStep, PTL DEF Spec

\* Nothing is published before the analysis completes.
LEMMA NoResultStep ==
    ASSUME TypeOK, NoResultYet, [Next]_vars
    PROVE  NoResultYet'
<1> SUFFICES ASSUME status' \in Active PROVE result' = NoResult
    BY DEF NoResultYet
<1>1. status' # "completed" /\ status \in Active
  BY StepKeepsOutcome DEF Active, Terminal, KeepsOutcome, TypeOK, RowType
<1>2. \A w, r, known, dbDown : FailTask(w, r, known, dbDown) => result' \in {result, NoResult}
  BY DEF FailTask, MarkFailed, ClearData
<1>3. \A S : Demote(S) => result' = result
  BY DEF Demote
<1>4. ASSUME NEW w \in Workers, ProcessStep(w) PROVE result' \in {result, NoResult}
  BY <1>3, <1>4 DEF ProcessStep, ClaimAnalysis, RefreshAnalysis, PublishWorkflow,
     ScanAfterPublishFailure, DemoteAfterPublishFailure, RepublishAnalysis
<1>5. ASSUME NEW w \in Workers, ArtifactStep(w) PROVE result' \in {result, NoResult}
  BY <1>2, <1>5
     DEF ArtifactStep, ClaimArtifact, LoadArtifact, SetUpArtifact, CaptureFallback,
         PersistArtifactBatch, BumpAfterBatch, CompleteArtifact, RecordControlledFailure,
         DropArtifactFile, MissesFile, ReturnArtifact
<1>6. ASSUME NEW w \in Workers, FinalizeStep(w) PROVE result' \in {result, NoResult}
  BY <1>1, <1>6 DEF FinalizeStep, CheckFinalize, ClaimFinalization, ReadEvidence,
     ExplainResult, CommitResult, CleanFiles
<1>7. ASSUME NEW w \in Workers, Failure(w) \/ Loss(w) PROVE result' \in {result, NoResult}
  BY <1>2, <1>7
     DEF Failure, FailsAtStart, ProcessFails, ArtifactFails, FinalizeFails, Loss,
         LoseAfterReturn, LoseWorker, LoseWhilePublishing, PublishFails, Redeliver
<1>8. ASSUME CancelAnalysis \/ CleanAfterCancel \/ Recover \/ Tick \/ UNCHANGED vars
      PROVE  result' \in {result, NoResult}
  BY <1>3, <1>8
     DEF CancelAnalysis, ClearData, CleanAfterCancel, Recover, ScanStale, ClaimStale,
         RedispatchStale, Tick, vars
<1> QED
  BY <1>1, <1>4, <1>5, <1>6, <1>7, <1>8 DEF Next, WorkerStep, NoResultYet

-----------------------------------------------------------------------------
(* Files                                                                   *)

\* Whoever removes a file does so for an analysis that has ended, or for an artifact
\* that is not read any more.
RemovalsAreLate ==
    /\ \A w \in Workers : wk[w].pc = "clean" => status \in Terminal
    /\ api = "cleaning" => status \in Terminal
    /\ \A w \in Workers : wk[w].pc = "a_drop" /\ Artifact(w) \notin Images =>
          art[Artifact(w)] \in Settled

FilesInv == TypeOK /\ DemotesImages /\ RemovalsAreLate /\ FilesWhileNeeded

\* A text artifact that was settled stays so.
LEMMA SettledStays ==
    ASSUME TypeOK, DemotesImages, [Next]_vars, NEW a \in Artifacts \ Images, art[a] \in Settled
    PROVE  art'[a] \in Settled
<1>1. CASE status' \in {"failed", "cancelled"}
  <2>1. CASE status \in Terminal
    BY <2>1, StepKeepsOutcome DEF KeepsOutcome
  <2>2. CASE status \in Active
    <3>1. Next
      BY <1>1, <2>2 DEF vars, Active
    <3> QED
      BY <1>1, <2>2, <3>1, FailedOrCancelledClears DEF ClearData
  <2> QED
    BY <2>1, <2>2 DEF TypeOK, RowType
<1>2. CASE status = "processing" /\ status' = "processing"
  <2>1. ASSUME Outside \/ \E w \in Workers : Aside(w) PROVE art'[a] \in Settled
    BY <2>1 DEF Outside, Aside
  <2>2. ASSUME NEW w \in Workers, ClaimsArtifact(w) PROVE art'[a] \in Settled
    BY <2>2 DEF ClaimsArtifact, ClaimArtifact, Claimable, Settled, TypeOK, ArtifactsType
  <2>3. ASSUME NEW w \in Workers, Completes(w) \/ Records(w) PROVE art'[a] \in Settled
    BY <2>3 DEF Completes, CompleteArtifact, Records, RecordControlledFailure, Settled, TypeOK,
       ArtifactsType
  <2>4. ASSUME NEW w \in Workers, Loads(w) \/ Persists(w) \/ Checks(w) \/ Finalizes(w) \/ Reads(w)
        PROVE  art'[a] \in Settled
    BY <2>4 DEF Loads, LoadArtifact, Persists, PersistArtifactBatch, Checks, CheckFinalize,
       Finalizes, ClaimFinalization, Reads, ReadEvidence, arts
  <2> QED
    BY <1>2, <2>1, <2>2, <2>3, <2>4, Moves DEF Special
<1>3. CASE status' \notin {"failed", "cancelled"} /\ ~(status = "processing" /\ status' = "processing")
  BY <1>3, OtherSteps DEF Demotion, Demote, Settled
<1> QED
  BY <1>1, <1>2, <1>3

LEMMA FileSteps ==
    ASSUME [Next]_vars
    PROVE  /\ \/ UNCHANGED file
              \/ \E w \in Workers : DropArtifactFile(w) \/ CleanFiles(w)
              \/ CleanAfterCancel
           /\ api' = "cleaning" => api = "cleaning" \/ status' = "cancelled"
<1>1. ASSUME NEW w \in Workers, ProcessStep(w) PROVE UNCHANGED <<file, api>>
  BY <1>1 DEF ProcessStep, ClaimAnalysis, RefreshAnalysis, PublishWorkflow,
     ScanAfterPublishFailure, DemoteAfterPublishFailure, RepublishAnalysis
<1>2. ASSUME NEW w \in Workers, ArtifactStep(w)
      PROVE  UNCHANGED api /\ (UNCHANGED file \/ DropArtifactFile(w))
  BY <1>2
     DEF ArtifactStep, ClaimArtifact, LoadArtifact, SetUpArtifact, CaptureFallback,
         PersistArtifactBatch, BumpAfterBatch, CompleteArtifact, RecordControlledFailure,
         DropArtifactFile, MissesFile, ReturnArtifact
<1>3. ASSUME NEW w \in Workers, FinalizeStep(w)
      PROVE  UNCHANGED api /\ (UNCHANGED file \/ CleanFiles(w))
  BY <1>3 DEF FinalizeStep, CheckFinalize, ClaimFinalization, ReadEvidence, ExplainResult,
     CommitResult, CleanFiles
<1>4. ASSUME NEW w \in Workers, Failure(w) \/ Loss(w) PROVE UNCHANGED <<file, api>>
  BY <1>4
     DEF Failure, FailsAtStart, ProcessFails, ArtifactFails, FinalizeFails, Loss,
         LoseAfterReturn, LoseWorker, LoseWhilePublishing, PublishFails, Redeliver
<1>5. CASE CancelAnalysis \/ CleanAfterCancel \/ Recover \/ Tick \/ UNCHANGED vars
  BY <1>5
     DEF CancelAnalysis, CleanAfterCancel, Recover, ScanStale, ClaimStale, RedispatchStale,
         Tick, vars
<1> QED
  BY <1>1, <1>2, <1>3, <1>4, <1>5 DEF Next, WorkerStep

LEMMA RemovalsStep ==
    ASSUME TypeOK, DemotesImages, RemovalsAreLate, [Next]_vars
    PROVE  RemovalsAreLate'
<1>1. status \in Terminal => status' \in Terminal
  BY StepKeepsOutcome DEF KeepsOutcome
<1>2. api' = "cleaning" => status' \in Terminal
  BY <1>1, FileSteps DEF RemovalsAreLate, Terminal
<1>3. ASSUME NEW w \in Workers, wk'[w] = wk[w] \/ Goes(w)
      PROVE  /\ wk'[w].pc = "clean" => status' \in Terminal
             /\ wk'[w].pc = "a_drop" /\ Artifact(w)' \notin Images => art'[Artifact(w)'] \in Settled
  <2>1. CASE wk'[w] = wk[w]
    <3>1. wk'[w].pc = "clean" => status' \in Terminal
      BY <1>1, <2>1 DEF RemovalsAreLate
    <3>2. ASSUME wk'[w].pc = "a_drop", Artifact(w)' \notin Images
          PROVE  art'[Artifact(w)'] \in Settled
      <4>1. Artifact(w)' = Artifact(w) /\ art[Artifact(w)] \in Settled
            /\ Artifact(w) \in Artifacts \ Images
        BY <2>1, <3>2, ArtifactFacts DEF RemovalsAreLate, Artifact, ArtifactPcs
      <4> QED
        BY <4>1, SettledStays
    <3> QED
      BY <3>1, <3>2
  <2>2. CASE Goes(w)
    BY <2>2 DEF Goes, ArtifactPcs, Idle, Settled
  <2> QED
    BY <1>3, <2>1, <2>2
<1>4. \A w \in Workers : wk'[w] = wk[w] \/ Goes(w)
  BY OneMoves DEF Moved
<1> QED
  BY <1>2, <1>3, <1>4 DEF RemovalsAreLate

\* The file of a text artifact that is still to be read is on disk while the analysis
\* lives: every removal comes after the commit that makes the file useless, however
\* slow its worker is (delete_artifact_file, _mark_analysis_failed, cancellation).
THEOREM FilesKept == Spec => []FilesWhileNeeded
<1>1. Init => FilesInv
  <2> SUFFICES ASSUME Init PROVE FilesInv
      OBVIOUS
  <2>1. DemotesImages /\ RemovalsAreLate /\ FilesWhileNeeded
    BY DEF Init, DemotesImages, RemovalsAreLate, FilesWhileNeeded, Idle
  <2> QED
    BY <2>1, InitType DEF FilesInv
<1>2. FilesInv /\ [Next]_vars => FilesInv'
  <2> SUFFICES ASSUME FilesInv, [Next]_vars PROVE FilesInv'
      OBVIOUS
  <2> USE DEF FilesInv
  <2>1. TypeOK' /\ DemotesImages' /\ RemovalsAreLate'
    BY NextTypes, DemotionStep, RemovalsStep
  <2>2. ASSUME status' \in Active, NEW a \in Artifacts \ Images,
               art'[a] \in {"pending", "processing"}
        PROVE  file'[a]
    <3>1. status \in Active
      BY <2>2, StepKeepsOutcome DEF KeepsOutcome, Active, Terminal, TypeOK, RowType
    <3>2. art[a] \in {"pending", "processing"}
      BY <2>2, SettledStays DEF Settled, TypeOK, ArtifactsType, ArtStatus, Dispatchable
    <3>3. file[a]
      BY <3>1, <3>2 DEF FilesWhileNeeded
    <3>4. ASSUME NEW w \in Workers, DropArtifactFile(w) PROVE file'[a]
      <4>1. a # Artifact(w)
        BY <3>2, <3>4 DEF DropArtifactFile, RemovalsAreLate, Settled
      <4> QED
        BY <3>3, <3>4, <4>1 DEF DropArtifactFile, TypeOK, ArtifactsType
    <3>5. (\A w \in Workers : ~CleanFiles(w)) /\ ~CleanAfterCancel
      BY <3>1 DEF CleanFiles, CleanAfterCancel, RemovalsAreLate, Active, Terminal
    <3> QED
      BY <3>3, <3>4, <3>5, FileSteps
  <2> QED
    BY <2>1, <2>2 DEF FilesWhileNeeded
<1>3. FilesInv => FilesWhileNeeded
  BY DEF FilesInv
<1> QED
  BY <1>1, <1>2, <1>3, PTL DEF Spec

-----------------------------------------------------------------------------
(* Workers that were overtaken                                             *)

\* A slot that is free, or has not read the row yet, works for no generation.
NoGenerationYet == \A w \in Workers : wk[w].pc \in {"idle", "p_claimed"} => wk[w].own = 0

\* What a worker may still do to an analysis that is not its own any more.
Harmless(w) ==
    /\ UNCHANGED <<gen, art, age>>
    /\ status' = status \/ (status' = "failed" /\ wk[w].own = gen)
    /\ status' = status => UNCHANGED <<arts, result, finGen>>

LEMMA OvertakenIsHarmless ==
    ASSUME TypeOK, NoGenerationYet, NEW w \in Workers, ~Mine(wk[w].own), wk[w].own # 0,
           WorkerStep(w) \/ Failure(w) \/ Loss(w)
    PROVE  Harmless(w)
<1> USE DEF Harmless
<1>1. wk[w].pc # "idle" /\ wk[w].pc # "p_claimed"
  BY DEF NoGenerationYet
<1>2. Bump(wk[w].own) => UNCHANGED age
  BY DEF Bump
<1>3. \A dbDown : FailTask(w, wk[w], TRUE, dbDown) => Harmless(w)
  BY DEF FailTask, Failable, Active, MarkFailed, ClearData, row, arts
<1>4. CASE ProcessStep(w)
  BY <1>1, <1>4 DEF ProcessStep, ClaimAnalysis, RefreshAnalysis, PublishWorkflow,
     ScanAfterPublishFailure, DemoteAfterPublishFailure, RepublishAnalysis, row, arts
<1>5. CASE ArtifactStep(w)
  BY <1>1, <1>2, <1>3, <1>5
     DEF ArtifactStep, ClaimArtifact, Authorized, LoadArtifact, SetUpArtifact, CaptureFallback,
         PersistArtifactBatch, BumpAfterBatch, CompleteArtifact, RecordControlledFailure,
         DropArtifactFile, MissesFile, ReturnArtifact, row, arts
<1>6. CASE FinalizeStep(w)
  BY <1>1, <1>2, <1>6
     DEF FinalizeStep, CheckFinalize, ClaimFinalization, Owns, ReadEvidence, ExplainResult,
         CommitResult, CleanFiles, row, arts
<1>7. CASE Failure(w)
  <2>1. CASE ProcessFails(w)
    <3>1. wk[w].pc = "p_ready" /\ FailTask(w, wk[w], TRUE, TRUE)
      BY <1>1, <2>1 DEF ProcessFails
    <3> QED
      BY <1>3, <3>1
  <2> QED
    BY <1>1, <1>3, <1>7, <2>1 DEF Failure, FailsAtStart, ArtifactFails, FinalizeFails
<1>8. CASE Loss(w)
  BY <1>8 DEF Loss, LoseAfterReturn, LoseWorker, LoseWhilePublishing, PublishFails, Redeliver,
     row, arts
<1> QED
  BY <1>4, <1>5, <1>6, <1>7, <1>8 DEF WorkerStep

\* A worker whose generation has been superseded, or whose analysis was demoted or has
\* ended, changes nothing of it any more, except that an exception may still fail a
\* demoted analysis of the same generation (_mark_analysis_failed).
THEOREM OvertakenChangesNothing == Spec => StaleWorkerIsHarmless
<1> DEFINE Act(w) == wk'[w] # wk[w] /\ wk[w].own # 0 /\ (status # "processing" \/ gen # wk[w].own)
                     => Harmless(w)
<1>1. Init => NoGenerationYet
  BY DEF Init, NoGenerationYet, Idle
<1>2. TypeOK /\ NoGenerationYet /\ [Next]_vars => NoGenerationYet'
  <2> SUFFICES ASSUME TypeOK, NoGenerationYet, [Next]_vars PROVE NoGenerationYet'
      OBVIOUS
  <2>1. ASSUME NEW w \in Workers, Goes(w)
        PROVE  wk'[w].pc \in {"idle", "p_claimed"} => wk'[w].own = 0
    BY <2>1 DEF Goes, ArtifactPcs, Idle
  <2>2. \A w \in Workers : wk'[w] = wk[w] \/ Goes(w)
    BY OneMoves DEF Moved
  <2> QED
    BY <2>1, <2>2 DEF NoGenerationYet
<1>3. TypeOK /\ NoGenerationYet /\ [Next]_vars => \A w \in Workers : Act(w)
  <2> SUFFICES ASSUME TypeOK, NoGenerationYet, [Next]_vars, NEW w \in Workers,
                      wk'[w] # wk[w], wk[w].own # 0, ~Mine(wk[w].own)
               PROVE  Harmless(w)
      BY DEF Mine
  <2>1. ~UNCHANGED wk
    OBVIOUS
  <2>2. PICK v \in Workers : WorkerStep(v) \/ Failure(v) \/ Loss(v)
    BY <2>1, OthersMoveNobody DEF Next
  <2>3. v = w
    BY <2>1, <2>2, WorkerMoves DEF Moved
  <2> QED
    BY <2>2, <2>3, OvertakenIsHarmless
<1>4. (\A w \in Workers : Act(w)) =>
        \A w \in Workers :
          /\ wk'[w] # wk[w]
          /\ wk[w].own # 0
          /\ status # "processing" \/ gen # wk[w].own
          => /\ UNCHANGED <<gen, art, age>>
             /\ status' = status \/ (status' = "failed" /\ wk[w].own = gen)
             /\ status' = status => UNCHANGED <<arts, result, finGen>>
  BY DEF Harmless
<1> QED
  BY <1>1, <1>2, <1>3, <1>4, TypeCorrect, PTL DEF Spec, StaleWorkerIsHarmless

-----------------------------------------------------------------------------
(* Images                                                                  *)

\* An image has no checkpoint: what stands for it is how far its worker has read.
Read(w) == IF wk[w].pc = "a_claimed" THEN 0 ELSE wk[w].pos

ImagesHold ==
    \A w \in Workers : Current(w) /\ Holding(w) /\ Artifact(w) \in Images =>
        /\ Read(w) <= Length[Artifact(w)]
        /\ \A b \in Batches : evid[Artifact(w)][b] = IF b <= Read(w) THEN 1 ELSE 0

\* What a scan may find stale although it is not in its snapshot was claimed after it,
\* and nothing of it is stored before a heartbeat.
ScanHolds ==
    rec.at = "scanned" /\ rec.kind # "pending" /\ status = "processing" /\ age >= 1 =>
        \A a \in Images \ rec.stuck : art[a] = "processing" =>
            /\ \A b \in Batches : evid[a][b] = 0
            /\ \A w \in Workers : Current(w) /\ Holding(w) /\ Artifact(w) = a =>
                  wk[w].pc = "a_claimed"

NothingUnpublished == \A w \in Workers : wk[w].pc \notin {"p_unpublished", "p_demoting"}

ImageInv ==
    /\ OwnerInv /\ DemotesImages
    /\ NothingUnpublished /\ ImagesHold /\ ScanHolds /\ ImageEvidenceOnce

\* The heartbeat is only ever set back while a scan is under way.
LEMMA ScanSteps ==
    ASSUME [Next]_vars, rec'.at = "scanned"
    PROVE  (UNCHANGED rec /\ age' \in {0, age}) \/ ScanStale
<1>1. \A w, r, known, dbDown : FailTask(w, r, known, dbDown) => age' = age
  BY DEF FailTask, MarkFailed, ClearData, row
<1>2. (\A S : Demote(S) => age' = 0) /\ (\A g : Bump(g) => age' \in {0, age})
  BY DEF Demote, Bump
<1>3. ASSUME NEW w \in Workers, ProcessStep(w) PROVE UNCHANGED rec /\ age' \in {0, age}
  BY <1>2, <1>3 DEF ProcessStep, ClaimAnalysis, RefreshAnalysis, PublishWorkflow,
     ScanAfterPublishFailure, DemoteAfterPublishFailure, RepublishAnalysis, row
<1>4. ASSUME NEW w \in Workers, ArtifactStep(w) PROVE UNCHANGED rec /\ age' \in {0, age}
  BY <1>1, <1>2, <1>4
     DEF ArtifactStep, ClaimArtifact, LoadArtifact, SetUpArtifact, CaptureFallback,
         PersistArtifactBatch, BumpAfterBatch, CompleteArtifact, RecordControlledFailure,
         DropArtifactFile, MissesFile, ReturnArtifact, row
<1>5. ASSUME NEW w \in Workers, FinalizeStep(w) PROVE UNCHANGED rec /\ age' \in {0, age}
  BY <1>2, <1>5 DEF FinalizeStep, CheckFinalize, ClaimFinalization, ReadEvidence,
     ExplainResult, CommitResult, CleanFiles, row
<1>6. ASSUME NEW w \in Workers, Failure(w) \/ Loss(w) PROVE UNCHANGED rec /\ age' \in {0, age}
  BY <1>1, <1>6
     DEF Failure, FailsAtStart, ProcessFails, ArtifactFails, FinalizeFails, Loss,
         LoseAfterReturn, LoseWorker, LoseWhilePublishing, PublishFails, Redeliver, row
<1>7. ASSUME CancelAnalysis \/ CleanAfterCancel \/ Recover \/ Tick \/ UNCHANGED vars
      PROVE  (UNCHANGED rec /\ age' \in {0, age}) \/ ScanStale
  BY <1>7
     DEF CancelAnalysis, ClearData, CleanAfterCancel, Recover, ClaimStale, NoScan,
         RedispatchStale, Tick, row, vars
<1> QED
  BY <1>3, <1>4, <1>5, <1>6, <1>7 DEF Next, WorkerStep

LEMMA UnpublishedStep ==
    ASSUME TypeOK, NothingUnpublished, [Next]_vars, "publish" \notin Faults
    PROVE  NothingUnpublished'
<1>1. ASSUME NEW w \in Workers, wk'[w] = wk[w] \/ Goes(w)
      PROVE  wk'[w].pc \notin {"p_unpublished", "p_demoting"}
  BY <1>1 DEF Goes, NothingUnpublished, ArtifactPcs, Idle
<1> QED
  BY <1>1, OneMoves DEF Moved, NothingUnpublished

\* A step of worker w keeps what is known of the images that others hold when it stores
\* no evidence but of the artifact it holds.
LEMMA ImagesKept ==
    ASSUME ClaimsHold, ImagesHold, status = "processing", gen' = gen, NEW w \in Workers,
           \A v \in Workers \ {w} : wk'[v] = wk[v],
           \A a \in Images :
              evid'[a] = evid[a] \/ (Current(w) /\ Holding(w) /\ a = Artifact(w)),
           (Current(w) /\ Holding(w) /\ Artifact(w) \in Images)' =>
              /\ Read(w)' <= Length[Artifact(w)']
              /\ \A b \in Batches : evid'[Artifact(w)'][b] = IF b <= Read(w)' THEN 1 ELSE 0
    PROVE  ImagesHold'
<1>1. SUFFICES ASSUME NEW u \in Workers, Current(u)', Holding(u)', Artifact(u)' \in Images
               PROVE  /\ Read(u)' <= Length[Artifact(u)']
                      /\ \A b \in Batches :
                           evid'[Artifact(u)'][b] = IF b <= Read(u)' THEN 1 ELSE 0
  BY DEF ImagesHold
<1>2. CASE u = w
  BY <1>1, <1>2
<1>3. CASE u # w
  <2>1. /\ Current(u) /\ Holding(u) /\ Artifact(u)' = Artifact(u) /\ Read(u)' = Read(u)
        /\ Artifact(u) \in Images
    BY <1>1, <1>3 DEF Current, Holding, Working, Artifact, Read
  <2>2. evid'[Artifact(u)] = evid[Artifact(u)]
    BY <1>3, <2>1 DEF ClaimsHold
  <2> QED
    BY <2>1, <2>2 DEF ImagesHold
<1> QED
  BY <1>2, <1>3

\* What each step of a generation does to the artifact of its worker.
LEMMA ArtifactOf ==
    ASSUME TypeOK, ClaimsHold, NEW w \in Workers
    PROVE  /\ ClaimsArtifact(w) =>
                /\ \A v \in Workers \ {w} : wk'[v] = wk[v]
                /\ wk'[w].pc = "a_claimed" /\ evid' = evid
                /\ Artifact(w)' \in Artifacts /\ art[Artifact(w)'] = "pending"
                /\ \A a \in Artifacts \ {Artifact(w)'} : art'[a] = art[a]
                /\ art'[Artifact(w)'] = "processing"
           /\ Loads(w) =>
                /\ \A v \in Workers \ {w} : wk'[v] = wk[v]
                /\ Current(w) /\ wk[w].pc = "a_claimed" /\ wk'[w].pc = "a_setup"
                /\ Artifact(w)' = Artifact(w) /\ wk'[w].pos = ResumePoint(Artifact(w))
                /\ UNCHANGED <<art, evid>> /\ Bump(wk[w].own)
           /\ Persists(w) =>
                /\ \A v \in Workers \ {w} : wk'[v] = wk[v]
                /\ Current(w) /\ wk[w].pc = "a_run" /\ wk'[w].pc = "a_beat"
                /\ Artifact(w)' = Artifact(w) /\ Artifact(w) \in Artifacts
                /\ wk[w].pos \in Nat /\ wk[w].pos < Length[Artifact(w)]
                /\ wk'[w].pos = wk[w].pos + 1
                /\ art' = art /\ art[Artifact(w)] = "processing"
                /\ \A a \in Artifacts \ {Artifact(w)} : evid'[a] = evid[a]
                /\ \A b \in Batches : evid'[Artifact(w)][b] =
                     IF b = wk[w].pos + 1 THEN evid[Artifact(w)][b] + 1 ELSE evid[Artifact(w)][b]
           /\ Completes(w) \/ Records(w) =>
                /\ \A v \in Workers \ {w} : wk'[v] = wk[v]
                /\ Current(w) /\ Working(w) /\ ~Holding(w)'
                /\ Artifact(w) \in Artifacts
                /\ \A a \in Artifacts \ {Artifact(w)} : art'[a] = art[a] /\ evid'[a] = evid[a]
           /\ Completes(w) => /\ art'[Artifact(w)] = "completed" /\ evid' = evid
                              /\ wk[w].pos \in Nat /\ wk[w].pos >= Length[Artifact(w)]
           /\ Records(w) => /\ art'[Artifact(w)] = "controlled"
                            /\ \A b \in Batches : evid'[Artifact(w)][b] = 0
           /\ Checks(w) \/ Finalizes(w) \/ Reads(w) =>
                /\ \A v \in Workers \ {w} : wk'[v] = wk[v]
                /\ UNCHANGED <<art, evid>> /\ ~Holding(w)'
<1>0. /\ art \in [Artifacts -> ArtStatus] /\ evid \in [Artifacts -> [Batches -> Nat]]
      /\ wk \in [Workers -> Worker] /\ wk[w] \in Worker /\ wk[w].pos \in Nat
  BY ArtifactFacts DEF TypeOK, ArtifactsType, WorkType, Evidence
<1>1. ASSUME ClaimsArtifact(w)
      PROVE  /\ \A v \in Workers \ {w} : wk'[v] = wk[v]
             /\ wk'[w].pc = "a_claimed" /\ evid' = evid
             /\ Artifact(w)' \in Artifacts /\ art[Artifact(w)'] = "pending"
             /\ \A a \in Artifacts \ {Artifact(w)'} : art'[a] = art[a]
             /\ art'[Artifact(w)'] = "processing"
  <2>1. PICK m \in queue : ClaimArtifact(w, m) /\ Claimable(m)
    BY <1>1 DEF ClaimsArtifact
  <2>2. m.art \in Artifacts /\ art[m.art] = "pending"
    BY <2>1, MessageFields DEF ClaimArtifact, Claimable, TypeOK, BrokerType
  <2> DEFINE q == [Idle EXCEPT !.pc = "a_claimed", !.msg = m, !.own = m.gen]
  <2>3. q.pc = "a_claimed" /\ q.msg = m
    BY DEF Idle
  <2>4. wk' = [wk EXCEPT ![w] = q] /\ art' = [art EXCEPT ![m.art] = "processing"] /\ evid' = evid
    BY <2>1 DEF ClaimArtifact
  <2> HIDE DEF q
  <2>5. (\A v \in Workers \ {w} : wk'[v] = wk[v]) /\ wk'[w] = q
    BY <2>4, SlotMoves
  <2> QED
    BY <1>0, <2>2, <2>3, <2>4, <2>5 DEF Artifact
<1>2. ASSUME Loads(w)
      PROVE  /\ \A v \in Workers \ {w} : wk'[v] = wk[v]
             /\ Current(w) /\ wk[w].pc = "a_claimed" /\ wk'[w].pc = "a_setup"
             /\ Artifact(w)' = Artifact(w) /\ wk'[w].pos = ResumePoint(Artifact(w))
             /\ UNCHANGED <<art, evid>> /\ Bump(wk[w].own)
  <2> DEFINE q == [wk[w] EXCEPT !.pc = "a_setup", !.pos = ResumePoint(Artifact(w))]
  <2>1. q.pc = "a_setup" /\ q.msg = wk[w].msg /\ q.pos = ResumePoint(Artifact(w))
    BY <1>0 DEF Worker
  <2>2. wk' = [wk EXCEPT ![w] = q] /\ UNCHANGED <<art, evid>> /\ Bump(wk[w].own)
        /\ Current(w) /\ wk[w].pc = "a_claimed"
    BY <1>0, <1>2 DEF Loads, LoadArtifact, arts, Current, Authorized, Mine
  <2> HIDE DEF q
  <2>3. (\A v \in Workers \ {w} : wk'[v] = wk[v]) /\ wk'[w] = q
    BY <2>2, SlotMoves
  <2> QED
    BY <2>1, <2>2, <2>3 DEF Artifact
<1>3. ASSUME Persists(w)
      PROVE  /\ \A v \in Workers \ {w} : wk'[v] = wk[v]
             /\ Current(w) /\ wk[w].pc = "a_run" /\ wk'[w].pc = "a_beat"
             /\ Artifact(w)' = Artifact(w) /\ Artifact(w) \in Artifacts
             /\ wk[w].pos \in Nat /\ wk[w].pos < Length[Artifact(w)]
             /\ wk'[w].pos = wk[w].pos + 1
             /\ art' = art /\ art[Artifact(w)] = "processing"
             /\ \A a \in Artifacts \ {Artifact(w)} : evid'[a] = evid[a]
             /\ \A b \in Batches : evid'[Artifact(w)][b] =
                  IF b = wk[w].pos + 1 THEN evid[Artifact(w)][b] + 1 ELSE evid[Artifact(w)][b]
  <2> DEFINE n == wk[w].pos + 1
             q == [wk[w] EXCEPT !.pc = "a_beat", !.pos = n, !.ret = "some"]
  <2>1. q.pc = "a_beat" /\ q.msg = wk[w].msg /\ q.pos = n
    BY <1>0 DEF Worker
  <2>2. /\ wk[w].pc = "a_run" /\ wk[w].pos < Length[Artifact(w)] /\ Current(w)
        /\ wk' = [wk EXCEPT ![w] = q] /\ art' = art
        /\ evid' = [evid EXCEPT ![Artifact(w)][n] = @ + 1]
    BY <1>0, <1>3 DEF Persists, PersistArtifactBatch, Mine, Current
  <2>3. Artifact(w) \in Artifacts /\ art[Artifact(w)] = "processing"
    BY <2>2, ArtifactFacts DEF ArtifactPcs, ClaimsHold, Holding, Working
  <2>4. n \in Batches
    <3>1. Length[Artifact(w)] \in Nat /\ 1 .. Length[Artifact(w)] \subseteq Batches
      BY <2>3, ArtifactsAssumption
    <3> QED
      BY <1>0, <2>2, <3>1
  <2> HIDE DEF q, n
  <2>5. (\A v \in Workers \ {w} : wk'[v] = wk[v]) /\ wk'[w] = q
    BY <2>2, SlotMoves
  <2>6. /\ \A a \in Artifacts \ {Artifact(w)} : evid'[a] = evid[a]
        /\ \A b \in Batches : evid'[Artifact(w)][b] =
             IF b = n THEN evid[Artifact(w)][b] + 1 ELSE evid[Artifact(w)][b]
    BY <1>0, <2>2, <2>3, <2>4
  <2>7. Artifact(w)' = Artifact(w)
    BY <2>1, <2>5 DEF Artifact
  <2> QED
    BY <1>0, <2>1, <2>2, <2>3, <2>5, <2>6, <2>7 DEF n
<1>4. ASSUME Completes(w) \/ Records(w)
      PROVE  /\ \A v \in Workers \ {w} : wk'[v] = wk[v]
             /\ Current(w) /\ Working(w) /\ ~Holding(w)'
             /\ Artifact(w) \in Artifacts
             /\ \A a \in Artifacts \ {Artifact(w)} : art'[a] = art[a] /\ evid'[a] = evid[a]
  <2>1. Current(w) /\ Working(w)
    BY <1>4 DEF Completes, CompleteArtifact, Records, RecordControlledFailure, Authorized, Mine,
       Current, Working
  <2>2. Artifact(w) \in Artifacts
    BY <2>1, ArtifactFacts DEF Working, ArtifactPcs
  <2>3. (\A v \in Workers \ {w} : wk'[v] = wk[v]) /\ ~Holding(w)'
    <3> DEFINE q == [wk[w] EXCEPT !.pc = "a_drop", !.ret = "none"]
    <3>1. q.pc = "a_drop"
      BY <1>0 DEF Worker
    <3>2. wk' = [wk EXCEPT ![w] = q] \/ Step(w, "return")
      BY <1>0, <1>4 DEF Completes, CompleteArtifact, Records, RecordControlledFailure
    <3> HIDE DEF q
    <3> QED
      BY <3>1, <3>2, SlotMoves DEF Holding, Working
  <2>4. \A a \in Artifacts \ {Artifact(w)} : art'[a] = art[a] /\ evid'[a] = evid[a]
    BY <1>0, <1>4, <2>2 DEF Completes, CompleteArtifact, Records, RecordControlledFailure
  <2> QED
    BY <2>1, <2>2, <2>3, <2>4
<1>6. ASSUME Completes(w)
      PROVE  /\ art'[Artifact(w)] = "completed" /\ evid' = evid
             /\ wk[w].pos >= Length[Artifact(w)]
  BY <1>0, <1>4, <1>6 DEF Completes, CompleteArtifact
<1>7. ASSUME Records(w)
      PROVE  /\ art'[Artifact(w)] = "controlled"
             /\ \A b \in Batches : evid'[Artifact(w)][b] = 0
  BY <1>0, <1>4, <1>7 DEF Records, RecordControlledFailure
<1>5. ASSUME Checks(w) \/ Finalizes(w) \/ Reads(w)
      PROVE  /\ \A v \in Workers \ {w} : wk'[v] = wk[v]
             /\ UNCHANGED <<art, evid>> /\ ~Holding(w)'
  <2>1. UNCHANGED <<art, evid>>
    BY <1>5 DEF Checks, CheckFinalize, Finalizes, ClaimFinalization, Reads, ReadEvidence, arts
  <2>2. (\A v \in Workers \ {w} : wk'[v] = wk[v]) /\ ~Holding(w)'
    <3>1. CASE Checks(w)
      <4> DEFINE q(m) == [Idle EXCEPT !.pc = "f_checked", !.msg = m, !.own = m.gen]
      <4>1. \A m : q(m).pc = "f_checked"
        BY DEF Idle
      <4>2. PICK m : wk' = [wk EXCEPT ![w] = q(m)]
        BY <3>1 DEF Checks, CheckFinalize
      <4> HIDE DEF q
      <4>3. wk'[w] = q(m) /\ \A v \in Workers \ {w} : wk'[v] = wk[v]
        BY <4>2, SlotMoves
      <4> QED
        BY <4>1, <4>3 DEF Holding, Working
    <3>2. CASE Finalizes(w)
      BY <3>2, SlotMoves DEF Finalizes, ClaimFinalization, Holding, Working
    <3>3. CASE Reads(w)
      <4> DEFINE q(pc) == [wk[w] EXCEPT !.pc = pc, !.seen = evid]
      <4>1. \A pc : q(pc).pc = pc
        BY <1>0 DEF Worker
      <4>2. PICK pc \in {"f_read", "f_explained"} : wk' = [wk EXCEPT ![w] = q(pc)]
        BY <1>0, <3>3 DEF Reads, ReadEvidence
      <4> HIDE DEF q
      <4>3. wk'[w] = q(pc) /\ \A v \in Workers \ {w} : wk'[v] = wk[v]
        BY <4>2, SlotMoves
      <4> QED
        BY <4>1, <4>2, <4>3 DEF Holding, Working
    <3> QED
      BY <1>5, <3>1, <3>2, <3>3
  <2> QED
    BY <2>1, <2>2
<1> QED
  BY <1>0, <1>1, <1>2, <1>3, <1>4, <1>5, <1>6, <1>7

\* While a generation is processed, a step leaves artifacts, evidence and the images in
\* hand as they are, or is one of these.
LEMMA ImageMoves ==
    ASSUME TypeOK, ClaimsHold, [Next]_vars, status = "processing", status' = "processing"
    PROVE  \/ UNCHANGED <<art, evid, wk>>
           \/ \E w \in Workers :
                \/ Loads(w) \/ ClaimsArtifact(w) \/ Persists(w) \/ Completes(w) \/ Records(w)
                \/ /\ UNCHANGED <<art, evid>>
                   /\ \A v \in Workers \ {w} : wk'[v] = wk[v]
                   /\ Holding(w)' =>
                        /\ Working(w) /\ wk'[w].own = wk[w].own /\ Artifact(w)' = Artifact(w)
                        /\ Read(w)' = Read(w)
<1>1. ASSUME NEW w \in Workers, Aside(w)
      PROVE  /\ UNCHANGED <<art, evid>>
             /\ \A v \in Workers \ {w} : wk'[v] = wk[v]
             /\ Holding(w)' =>
                  /\ Working(w) /\ wk'[w].own = wk[w].own /\ Artifact(w)' = Artifact(w)
                  /\ Read(w)' = Read(w)
  BY <1>1 DEF Aside, Holding, Working, Artifact, Read
<1> QED
  BY <1>1, Moves, ArtifactOf DEF Special, Outside

LEMMA ImagesStep ==
    ASSUME TypeOK, ClaimsHold, ImagesHold, ImageEvidenceOnce, [Next]_vars, gen' = gen,
           status = "processing", status' = "processing"
    PROVE  ImagesHold'
<1>0. \A a \in Artifacts : Length[a] \in Nat
  BY ArtifactsAssumption
<1>0a. \A b \in Batches : b \in Nat /\ b > 0
  BY ArtifactsAssumption
<1>1. ASSUME NEW w \in Workers, Loads(w) PROVE ImagesHold'
  <2>1. Current(w) /\ Holding(w) /\ evid' = evid /\ Artifact(w)' = Artifact(w)
        /\ \A v \in Workers \ {w} : wk'[v] = wk[v]
    BY <1>1, ArtifactOf DEF Holding
  <2>2. Artifact(w) \in Images => Read(w) = 0 /\ Read(w)' = 0
    BY <1>1, ArtifactOf DEF Read, ResumePoint
  <2> QED
    BY <2>1, <2>2, ImagesKept DEF ImagesHold
<1>2. ASSUME NEW w \in Workers, ClaimsArtifact(w) PROVE ImagesHold'
  <2>1. /\ Read(w)' = 0 /\ evid' = evid /\ \A v \in Workers \ {w} : wk'[v] = wk[v]
        /\ Artifact(w)' \in Artifacts /\ art[Artifact(w)'] = "pending"
    BY <1>2, ArtifactOf DEF Read
  <2>2. Artifact(w)' \in Images => \A b \in Batches : evid[Artifact(w)'][b] = 0
    BY <2>1 DEF ImageEvidenceOnce
  <2> QED
    BY <1>0, <1>0a, <2>1, <2>2, ImagesKept
<1>3. ASSUME NEW w \in Workers, Persists(w) PROVE ImagesHold'
  <2>1. /\ Current(w) /\ Holding(w) /\ Artifact(w)' = Artifact(w) /\ Artifact(w) \in Artifacts
        /\ \A v \in Workers \ {w} : wk'[v] = wk[v]
        /\ Read(w) \in Nat /\ Read(w) < Length[Artifact(w)] /\ Read(w)' = Read(w) + 1
        /\ \A a \in Artifacts \ {Artifact(w)} : evid'[a] = evid[a]
        /\ \A b \in Batches : evid'[Artifact(w)][b] =
             IF b = Read(w) + 1 THEN evid[Artifact(w)][b] + 1 ELSE evid[Artifact(w)][b]
    BY <1>3, ArtifactOf DEF Read, Holding, Working
  <2>2. \A a \in Images : evid'[a] = evid[a] \/ a = Artifact(w)
    BY <2>1, ArtifactsAssumption
  <2>3. Artifact(w) \in Images =>
          \A b \in Batches : evid[Artifact(w)][b] = IF b <= Read(w) THEN 1 ELSE 0
    BY <2>1 DEF ImagesHold
  <2>4. Artifact(w) \in Images =>
          \A b \in Batches : evid'[Artifact(w)][b] = IF b <= Read(w) + 1 THEN 1 ELSE 0
    BY <1>0a, <2>1, <2>3
  <2>5. Read(w)' <= Length[Artifact(w)']
    BY <1>0, <2>1
  <2> QED
    BY <2>1, <2>2, <2>4, <2>5, ImagesKept
<1>4. ASSUME NEW w \in Workers, Completes(w) \/ Records(w) PROVE ImagesHold'
  <2>1. /\ Current(w) /\ Holding(w) /\ ~Holding(w)' /\ \A v \in Workers \ {w} : wk'[v] = wk[v]
        /\ \A a \in Artifacts \ {Artifact(w)} : evid'[a] = evid[a]
    BY <1>4, ArtifactOf DEF Holding
  <2>2. \A a \in Images : evid'[a] = evid[a] \/ a = Artifact(w)
    BY <2>1, ArtifactsAssumption
  <2> QED
    BY <2>1, <2>2, ImagesKept
<1>5. ASSUME NEW w \in Workers, UNCHANGED <<art, evid>>,
             \A v \in Workers \ {w} : wk'[v] = wk[v],
             Holding(w)' =>
               /\ Working(w) /\ wk'[w].own = wk[w].own /\ Artifact(w)' = Artifact(w)
               /\ Read(w)' = Read(w)
      PROVE  ImagesHold'
  <2>1. Current(w)' /\ Holding(w)' => Current(w) /\ Holding(w)
    BY <1>5 DEF Current, Holding
  <2> QED
    BY <1>5, <2>1, ImagesKept DEF ImagesHold
<1>6. CASE UNCHANGED <<art, evid, wk>>
  BY <1>6 DEF ImagesHold, Current, Holding, Working, Artifact, Read
<1> QED
  BY <1>1, <1>2, <1>3, <1>4, <1>5, <1>6, ImageMoves

LEMMA ScanStep ==
    ASSUME TypeOK, GenerationsKnown, ClaimsHold, ImageEvidenceOnce, ScanHolds, [Next]_vars,
           "heartbeat" \notin Faults
    PROVE  ScanHolds'
<1>0. age \in Nat
  BY DEF TypeOK, RowType
<1> SUFFICES ASSUME rec'.at = "scanned", rec'.kind # "pending", status' = "processing", age' >= 1,
                    NEW a \in Images, a \notin rec'.stuck, art'[a] = "processing"
             PROVE  /\ \A b \in Batches : evid'[a][b] = 0
                    /\ \A w \in Workers : (Current(w) /\ Holding(w) /\ Artifact(w) = a)' =>
                          wk'[w].pc = "a_claimed"
    BY DEF ScanHolds
<1>1. CASE ScanStale
  BY <1>1 DEF ScanStale, StuckImages, arts
<1>2. CASE UNCHANGED rec /\ age' \in {0, age}
  <2>0. age' # 0 /\ age' = age /\ age >= 1
    BY <1>0, <1>2
  <2>1. status = "processing" /\ gen' = gen
    BY <2>0, ProcessingBegins
  <2>2. a \in Artifacts
    BY ArtifactsAssumption
  <2>3. art[a] = "processing" =>
          /\ \A b \in Batches : evid[a][b] = 0
          /\ \A w \in Workers : Current(w) /\ Holding(w) /\ Artifact(w) = a => wk[w].pc = "a_claimed"
    BY <1>2, <2>0, <2>1 DEF ScanHolds
  <2>4. ASSUME NEW w \in Workers, NEW v \in Workers \ {w}, wk'[v] = wk[v]
        PROVE  (Current(v) /\ Holding(v) /\ Artifact(v) = a)' =>
                  Current(v) /\ Holding(v) /\ Artifact(v) = a
    BY <2>1, <2>4 DEF Current, Holding, Working, Artifact
  <2>5. ASSUME NEW w \in Workers, Loads(w) PROVE FALSE
    BY <2>0, <2>5, ArtifactOf DEF Bump, MayFail, Loads, Authorized
  <2>6. ASSUME NEW w \in Workers, ClaimsArtifact(w)
        PROVE  /\ \A b \in Batches : evid'[a][b] = 0
               /\ \A v \in Workers : (Current(v) /\ Holding(v) /\ Artifact(v) = a)' =>
                     wk'[v].pc = "a_claimed"
    <3>1. /\ \A v \in Workers \ {w} : wk'[v] = wk[v]
          /\ wk'[w].pc = "a_claimed" /\ evid' = evid
          /\ Artifact(w)' \in Artifacts /\ art[Artifact(w)'] = "pending"
          /\ \A c \in Artifacts \ {Artifact(w)'} : art'[c] = art[c]
      BY <2>6, ArtifactOf
    <3>2. CASE a = Artifact(w)'
      <4>1. \A b \in Batches : evid[a][b] = 0
        BY <2>1, <3>1, <3>2 DEF ImageEvidenceOnce
      <4>2. \A v \in Workers \ {w} : ~(Current(v) /\ Holding(v) /\ Artifact(v) = a)
        BY <3>1, <3>2 DEF ClaimsHold
      <4> QED
        BY <2>4, <3>1, <4>1, <4>2
    <3>3. CASE a # Artifact(w)'
      BY <2>2, <2>3, <2>4, <3>1, <3>3
    <3> QED
      BY <3>2, <3>3
  <2>7. ASSUME NEW w \in Workers, Persists(w)
        PROVE  /\ \A b \in Batches : evid'[a][b] = 0
               /\ \A v \in Workers : (Current(v) /\ Holding(v) /\ Artifact(v) = a)' =>
                     wk'[v].pc = "a_claimed"
    <3>1. /\ \A v \in Workers \ {w} : wk'[v] = wk[v]
          /\ Current(w) /\ Holding(w) /\ wk[w].pc = "a_run" /\ Artifact(w)' = Artifact(w)
          /\ art' = art /\ \A c \in Artifacts \ {Artifact(w)} : evid'[c] = evid[c]
      BY <2>7, ArtifactOf DEF Holding, Working
    <3>2. a # Artifact(w)
      BY <2>3, <3>1
    <3> QED
      BY <2>2, <2>3, <2>4, <3>1, <3>2
  <2>8. ASSUME NEW w \in Workers, Completes(w) \/ Records(w)
        PROVE  /\ \A b \in Batches : evid'[a][b] = 0
               /\ \A v \in Workers : (Current(v) /\ Holding(v) /\ Artifact(v) = a)' =>
                     wk'[v].pc = "a_claimed"
    <3>1. /\ \A v \in Workers \ {w} : wk'[v] = wk[v]
          /\ ~Holding(w)' /\ art'[Artifact(w)] \in {"completed", "controlled"}
          /\ \A c \in Artifacts \ {Artifact(w)} : art'[c] = art[c] /\ evid'[c] = evid[c]
      BY <2>8, ArtifactOf
    <3>2. a # Artifact(w)
      BY <3>1
    <3> QED
      BY <2>2, <2>3, <2>4, <3>1, <3>2
  <2>9. ASSUME NEW w \in Workers, UNCHANGED <<art, evid>>,
               \A v \in Workers \ {w} : wk'[v] = wk[v],
               Holding(w)' =>
                 /\ Working(w) /\ wk'[w].own = wk[w].own /\ Artifact(w)' = Artifact(w)
                 /\ Read(w)' = Read(w)
        PROVE  /\ \A b \in Batches : evid'[a][b] = 0
               /\ \A v \in Workers : (Current(v) /\ Holding(v) /\ Artifact(v) = a)' =>
                     wk'[v].pc = "a_claimed"
    <3>1. ~(Current(w) /\ Holding(w) /\ Artifact(w) = a)'
      BY <2>1, <2>3, <2>9 DEF Current, Holding, Working
    <3> QED
      BY <2>3, <2>4, <2>9, <3>1
  <2>10. ASSUME UNCHANGED <<art, evid, wk>>
         PROVE  /\ \A b \in Batches : evid'[a][b] = 0
                /\ \A v \in Workers : (Current(v) /\ Holding(v) /\ Artifact(v) = a)' =>
                      wk'[v].pc = "a_claimed"
    BY <2>1, <2>3, <2>10 DEF Current, Holding, Working, Artifact
  <2> QED
    BY <2>1, <2>5, <2>6, <2>7, <2>8, <2>9, <2>10, ImageMoves
<1> QED
  BY <1>1, <1>2, ScanSteps

LEMMA ImageOnceStep ==
    ASSUME ImageInv, [Next]_vars
    PROVE  ImageEvidenceOnce'
<1> USE DEF ImageInv
<1> SUFFICES ASSUME status' \notin {"failed", "cancelled"}, NEW a \in Images, NEW b \in Batches
             PROVE  /\ evid'[a][b] <= 1
                    /\ art'[a] \in {"pending", "controlled", "skipped"} => evid'[a][b] = 0
                    /\ art'[a] = "completed" => evid'[a][b] = IF b <= Length[a] THEN 1 ELSE 0
    BY DEF ImageEvidenceOnce
<1>0. /\ status \notin {"failed", "cancelled"} /\ TypeOK
      /\ a \in Artifacts /\ Length[a] \in Nat /\ b \in Nat /\ b > 0
  BY StepKeepsOutcome, ArtifactsAssumption DEF KeepsOutcome, Terminal, OwnerInv
<1>1. /\ evid[a][b] <= 1
      /\ art[a] \in {"pending", "controlled", "skipped"} => evid[a][b] = 0
      /\ art[a] = "completed" => evid[a][b] = IF b <= Length[a] THEN 1 ELSE 0
  BY <1>0 DEF ImageEvidenceOnce
<1>2. CASE ~(status = "processing" /\ status' = "processing")
  <2>1. ASSUME NEW S \in SUBSET Images, Demotion(S)
        PROVE  /\ evid'[a][b] <= 1
               /\ art'[a] \in {"pending", "controlled", "skipped"} => evid'[a][b] = 0
               /\ art'[a] = "completed" => evid'[a][b] = IF b <= Length[a] THEN 1 ELSE 0
    <3>1. rec.at = "scanned" /\ rec.kind # "pending" /\ age >= 1 /\ S = rec.stuck
          /\ status = "processing"
      BY <2>1 DEF Demotion, NothingUnpublished
    <3>2. /\ art'[a] = IF a \in S \/ art[a] = "processing" THEN "pending" ELSE art[a]
          /\ evid'[a][b] = IF a \in S THEN 0 ELSE evid[a][b]
      BY <1>0, <2>1 DEF Demotion, Demote
    <3>3. a \notin S /\ art[a] = "processing" => evid[a][b] = 0
      BY <3>1 DEF ScanHolds
    <3> QED
      BY <1>1, <3>2, <3>3
  <2> QED
    BY <1>0, <1>1, <1>2, <2>1, OtherSteps
<1>3. CASE status = "processing" /\ status' = "processing"
  <2>1. CASE art'[a] = art[a] /\ evid'[a] = evid[a]
    BY <1>1, <2>1
  <2>2. ASSUME NEW w \in Workers, ClaimsArtifact(w)
        PROVE  evid'[a] = evid[a] /\ (art'[a] = art[a] \/ art'[a] = "processing")
    BY <1>0, <2>2, ArtifactOf DEF OwnerInv
  <2>3. ASSUME NEW w \in Workers, Persists(w), a = Artifact(w)
        PROVE  art'[a] = "processing" /\ evid'[a][b] <= 1
    <3>1. /\ Current(w) /\ Holding(w) /\ Read(w) \in Nat
          /\ art'[a] = "processing"
          /\ evid'[a][b] = IF b = Read(w) + 1 THEN evid[a][b] + 1 ELSE evid[a][b]
      BY <2>3, ArtifactOf DEF OwnerInv, Read, Holding, Working
    <3>2. evid[a][b] = IF b <= Read(w) THEN 1 ELSE 0
      BY <2>3, <3>1 DEF ImagesHold
    <3> QED
      BY <1>0, <3>1, <3>2
  <2>4. ASSUME NEW w \in Workers, Completes(w), a = Artifact(w)
        PROVE  art'[a] = "completed" /\ evid'[a][b] = IF b <= Length[a] THEN 1 ELSE 0
    <3>1. /\ Current(w) /\ Holding(w) /\ Read(w) \in Nat /\ Read(w) >= Length[a]
          /\ art'[a] = "completed" /\ evid' = evid
      BY <2>4, ArtifactOf DEF OwnerInv, Read, Holding, Working
    <3>2. Read(w) <= Length[a] /\ evid[a][b] = IF b <= Read(w) THEN 1 ELSE 0
      BY <2>4, <3>1 DEF ImagesHold
    <3> QED
      BY <1>0, <3>1, <3>2
  <2>5. ASSUME NEW w \in Workers, Records(w), a = Artifact(w)
        PROVE  art'[a] = "controlled" /\ evid'[a][b] = 0
    BY <2>5, ArtifactOf DEF OwnerInv
  <2>6. ASSUME NEW w \in Workers, Persists(w) \/ Completes(w) \/ Records(w), a # Artifact(w)
        PROVE  art'[a] = art[a] /\ evid'[a] = evid[a]
    BY <1>0, <2>6, ArtifactOf DEF OwnerInv
  <2>7. ASSUME NEW w \in Workers, Loads(w) PROVE art'[a] = art[a] /\ evid'[a] = evid[a]
    BY <2>7, ArtifactOf DEF OwnerInv
  <2> QED
    BY <1>0, <1>1, <1>3, <2>1, <2>2, <2>3, <2>4, <2>5, <2>6, <2>7, ImageMoves DEF OwnerInv
<1> QED
  BY <1>2, <1>3

LEMMA ImageInit == Init => ImageInv
<1> SUFFICES ASSUME Init PROVE ImageInv
    OBVIOUS
<1>1. /\ \A w \in Workers : wk[w] = Idle
      /\ status = "pending" /\ rec.at = "idle"
      /\ \A a \in Artifacts : art[a] \in {"pending", "skipped"} /\ \A b \in Batches : evid[a][b] = 0
  BY DEF Init, NoScan, NoEvidence
<1>2. Idle.pc = "idle"
  BY DEF Idle
<1>3. Images \subseteq Artifacts
  BY ArtifactsAssumption
<1> QED
  BY <1>1, <1>2, <1>3, OwnersInit
     DEF ImageInv, DemotesImages, NothingUnpublished, ImagesHold, ScanHolds, ImageEvidenceOnce,
         Current

LEMMA ImageStep ==
    ASSUME ImageInv, [Next]_vars, Faults \cap {"publish", "heartbeat"} = {}
    PROVE  ImageInv'
<1> USE DEF ImageInv
<1>1. OwnerInv' /\ DemotesImages' /\ NothingUnpublished' /\ ScanHolds' /\ ImageEvidenceOnce'
  BY OwnersStep, DemotionStep, UnpublishedStep, ScanStep, ImageOnceStep DEF OwnerInv
<1>2. ImagesHold'
  <2>1. CASE status = "processing" /\ status' = "processing" /\ gen' = gen
    BY <2>1, ImagesStep DEF OwnerInv
  <2>2. CASE status' = "processing" /\ ~(status = "processing" /\ gen' = gen)
    <3>1. gen' \in Nat /\ \A w \in Workers : wk'[w].own \in Nat /\ wk'[w].own < gen'
      BY <1>1, <2>2, ProcessingBegins, WorkerTypes, FieldTypes
         DEF OwnerInv, TypeOK, RowType, WorkType, Worker
    <3> QED
      BY <3>1 DEF ImagesHold, Current
  <2>3. CASE status' # "processing"
    BY <2>3 DEF ImagesHold, Current
  <2> QED
    BY <2>1, <2>2, <2>3
<1> QED
  BY <1>1, <1>2

\* The evidence of an image is stored once although it has no checkpoint, as long as the
\* broker takes every message of a publication and no heartbeat is lost: otherwise a
\* demotion may use a snapshot that misses an image claimed since.
THEOREM ImagesOnce ==
    ASSUME Faults \cap {"publish", "heartbeat"} = {}
    PROVE  Spec => []ImageEvidenceOnce
<1>1. ImageInv /\ [Next]_vars => ImageInv'
  BY ImageStep
<1>2. ImageInv => ImageEvidenceOnce
  BY DEF ImageInv
<1> QED
  BY <1>1, <1>2, ImageInit, PTL DEF Spec

-----------------------------------------------------------------------------
(* The abstract lifecycle                                                  *)

\* What the refinement needs of the state: nothing but this is known of the workers.
ReportInv == OwnerInv /\ EvidenceInv /\ NoResultYet /\ ImageEvidenceOnce

\* When everything is settled, the evidence is that of the completed artifacts.
LEMMA SettledIsWhole ==
    ASSUME ReportInv, status = "processing", AllSettled
    PROVE  evid = Lifecycle!Whole({a \in Artifacts : art[a] = "completed"})
<1> DEFINE S == {a \in Artifacts : art[a] = "completed"}
<1>0. evid \in [Artifacts -> [Batches -> Nat]]
  BY DEF ReportInv, OwnerInv, TypeOK, ArtifactsType, Evidence
<1>1. ASSUME NEW a \in Artifacts, NEW b \in Batches
      PROVE  evid[a][b] = IF a \in S /\ b <= Length[a] THEN 1 ELSE 0
  <2>1. Length[a] \in Nat /\ b \in Nat /\ b > 0
    BY ArtifactsAssumption
  <2>2. art[a] \in {"completed", "skipped", "controlled"}
    BY DEF AllSettled, Settled
  <2>3. CASE a \in Images
    BY <2>2, <2>3 DEF ReportInv, ImageEvidenceOnce
  <2>4. CASE a \notin Images
    <3>1. evid[a][b] = IF b <= done[a] THEN 1 ELSE 0
      BY <2>4 DEF ReportInv, EvidenceInv, CheckpointMatchesEvidence
    <3>2. done[a] = IF art[a] = "completed" THEN Length[a] ELSE 0
      BY <2>2 DEF ReportInv, EvidenceInv, CheckpointsHold
    <3> QED
      BY <2>1, <3>1, <3>2
  <2> QED
    BY <2>3, <2>4
<1> HIDE DEF S
<1>2. evid = [a \in Artifacts |-> [b \in Batches |-> IF a \in S /\ b <= Length[a] THEN 1 ELSE 0]]
  <2>1. \A a \in Artifacts :
          evid[a] = [b \in Batches |-> IF a \in S /\ b <= Length[a] THEN 1 ELSE 0]
    BY <1>0, <1>1
  <2> QED
    BY <1>0, <2>1
<1> QED
  BY <1>2 DEF S, Lifecycle!Whole

\* Whoever ends an analysis or gives it up leaves its generation, and publishes nothing.
LEMMA AbandonStep ==
    ASSUME TypeOK, [Next]_vars, status \in Active, status' \notin {"processing", "completed"}
    PROVE  gen' = gen
<1>1. \A w, m : ClaimAnalysis(w, m) => gen' = gen
  BY DEF ClaimAnalysis, Active, row
<1> QED
  BY <1>1, GenerationGrows

LEMMA LifecycleStep ==
    ASSUME ReportInv, ReportInv', [Next]_vars
    PROVE  [Lifecycle!Next]_<<status, gen, result.view>>
<1>0. TypeOK /\ GenerationsKnown /\ NoResult.view = NoEvidence
  BY DEF ReportInv, OwnerInv, NoResult
<1>1. CASE status \in Terminal
  BY <1>0, <1>1, StepKeepsOutcome DEF KeepsOutcome
<1>2. CASE status \in Active /\ status' \in {"failed", "cancelled"}
  <2>1. ClearData
    BY <1>0, <1>2, FailedOrCancelledClears DEF Active, vars
  <2>2. result = NoResult /\ result' = NoResult /\ gen' = gen
    BY <1>2, <2>1 DEF ReportInv, NoResultYet, ClearData
  <2>3. Lifecycle!Abandon
    BY <1>2, <2>2 DEF Lifecycle!Abandon, Active
  <2> QED
    BY <2>3 DEF Lifecycle!Next
<1>3. CASE status \in Active /\ status' = "completed"
  <2>1. PICK w \in Workers : CommitResult(w) /\ Owns(wk[w].own)
    BY <1>0, <1>3, CompletesFromProcessing DEF Active
  <2>2. Current(w) /\ Finalizing(w) /\ Finisher(w) /\ wk[w].pc = "f_explained"
    BY <2>1 DEF CommitResult, Owns, Mine, Current, Finalizing, Finisher
  <2>3. AllSettled /\ wk[w].seen = evid
    BY <2>2 DEF ReportInv, OwnerInv, FinalizationHolds
  <2>4. status = "processing" /\ gen' = gen /\ result'.view = evid
    BY <2>1, <2>3 DEF CommitResult, Owns, Mine
  <2>5. \E S \in SUBSET Artifacts : result'.view = Lifecycle!Whole(S)
    <3>1. {a \in Artifacts : art[a] = "completed"} \in SUBSET Artifacts
      OBVIOUS
    <3> QED
      BY <2>3, <2>4, <3>1, SettledIsWhole
  <2>6. Lifecycle!Complete
    BY <1>3, <2>4, <2>5 DEF Lifecycle!Complete
  <2> QED
    BY <2>6 DEF Lifecycle!Next
<1>4. CASE status \in Active /\ status' \in Active
  <2>1. result = NoResult /\ result' = NoResult
    BY <1>4 DEF ReportInv, NoResultYet
  <2>2. CASE status' = "processing" /\ ~(status = "processing" /\ gen' = gen)
    <3>1. Lifecycle!Begin
      BY <1>0, <2>1, <2>2, ProcessingBegins DEF Lifecycle!Begin
    <3> QED
      BY <3>1 DEF Lifecycle!Next
  <2>3. CASE status' = "processing" /\ status = "processing" /\ gen' = gen
    BY <2>1, <2>3
  <2>4. CASE status' = "pending"
    <3>1. gen' = gen
      BY <1>0, <1>4, <2>4, AbandonStep
    <3>2. CASE status = "processing"
      <4>1. Lifecycle!GiveUp
        BY <2>1, <2>4, <3>1, <3>2 DEF Lifecycle!GiveUp
      <4> QED
        BY <4>1 DEF Lifecycle!Next
    <3>3. CASE status = "pending"
      BY <2>1, <2>4, <3>1, <3>3
    <3> QED
      BY <1>4, <3>2, <3>3 DEF Active
  <2> QED
    BY <1>4, <2>2, <2>3, <2>4 DEF Active
<1>5. status' \in Active \cup Terminal /\ status \in Active \cup Terminal
  BY <1>0, NextTypes DEF TypeOK, RowType
<1> QED
  BY <1>1, <1>2, <1>3, <1>4, <1>5 DEF Terminal

\* The pipeline implements the abstract lifecycle: an analysis completes at most once, and
\* what it publishes holds the evidence of an artifact whole or not at all, however many
\* workers, redeliveries and recoveries it took.  With images, the broker takes every
\* message of a publication and no heartbeat is lost.
THEOREM PipelineImplementsLifecycle ==
    ASSUME Images = {} \/ Faults \cap {"publish", "heartbeat"} = {}
    PROVE  Spec => ImplementsLifecycle
<1>1. Spec => []ImageEvidenceOnce
  <2>1. CASE Images = {}
    <3>1. ImageEvidenceOnce
      BY <2>1 DEF ImageEvidenceOnce
    <3> QED
      BY <3>1, PTL
  <2>2. CASE Faults \cap {"publish", "heartbeat"} = {}
    BY <2>2, ImagesOnce
  <2> QED
    BY <2>1, <2>2
<1>2. Init => OwnerInv /\ EvidenceInv /\ NoResultYet
  BY OwnersInit, EvidenceInit DEF Init, NoResultYet
<1>3. OwnerInv /\ EvidenceInv /\ NoResultYet /\ [Next]_vars =>
        (OwnerInv /\ EvidenceInv /\ NoResultYet)'
  BY OwnersStep, EvidenceStep, NoResultStep DEF OwnerInv
<1>4. OwnerInv /\ EvidenceInv /\ NoResultYet /\ ImageEvidenceOnce <=> ReportInv
  BY DEF ReportInv
<1>5. Init => Lifecycle!Init
  BY DEF Init, Lifecycle!Init, Lifecycle!Nothing, NoResult, NoEvidence
<1>6. ReportInv /\ ReportInv' /\ [Next]_vars => [Lifecycle!Next]_<<status, gen, result.view>>
  BY LifecycleStep
<1>7. Lifecycle!vars = <<status, gen, result.view>>
  BY DEF Lifecycle!vars
<1> QED
  BY <1>1, <1>2, <1>3, <1>4, <1>5, <1>6, PTL DEF Spec, ImplementsLifecycle, Lifecycle!Spec, Lifecycle!vars

=============================================================================
