-------------------------- MODULE AnalysisPipeline --------------------------
(***************************************************************************)
(* The Celery pipeline of one analysis that has no attached source code:   *)
(* process_analysis claims the row and publishes a chord of artifact       *)
(* tasks, the artifact tasks persist evidence batch by batch, the finalize *)
(* task writes the result, the API cancels, and recover_stale_analyses     *)
(* returns a stalled analysis to "pending" and republishes it              *)
(* (backend/app/tasks/analysis.py).                                        *)
(*                                                                         *)
(* A database transaction that locks the analysis row is one step.  Where  *)
(* the code reads in one transaction and writes in another, or touches a   *)
(* file after a commit, the two are two steps, and everything else may run *)
(* in between.                                                             *)
(***************************************************************************)
EXTENDS Naturals, FiniteSets, Sequences

CONSTANTS
    Artifacts,      \* the diagnostic files of the analysis
    Images,         \* those read by OCR: no resume, they restart from scratch
    Captured,       \* those small enough (or legible enough) for a fallback context
    Batches,        \* the batch numbers 1..n, n the most batches a file has
    Length,         \* Length[a]: how many batches artifact a parses into
    NoArtifact,     \* the artifact field of a message that names none
    Workers,        \* Celery worker slots (worker_concurrency)
    MaxTries,       \* _FINALIZE_RETRY_MAX
    MaxGen,         \* bound of the model: claims by process_analysis
    Faults,         \* the kinds of fault that may happen
    FaultLimit,     \* bound of the model: how many of them
    PromptWorkers   \* TRUE: a heartbeat ages only while nothing runs or waits

ASSUME ArtifactsAssumption ==
    /\ IsFiniteSet(Artifacts)
    /\ Images \subseteq Artifacts
    /\ Captured \subseteq Artifacts
    /\ NoArtifact \notin Artifacts
    /\ Batches \subseteq Nat \ {0}
    /\ Length \in [Artifacts -> Nat \ {0}]
    /\ \A a \in Artifacts : 1 .. Length[a] \subseteq Batches

ASSUME BoundsAssumption ==
    /\ MaxTries \in Nat
    /\ MaxGen \in Nat
    /\ FaultLimit \in Nat
    /\ PromptWorkers \in BOOLEAN

VARIABLES
    status,     \* Analysis.status
    gen,        \* Analysis.processing_generation
    finGen,     \* Analysis.finalization_generation, 0 for NULL
    age,        \* age of processing_heartbeat_at: 0 fresh, 1 over 300 s, 2 over 30 min
    art,        \* art[a]: AnalysisArtifact.status
    done,       \* done[a]: checkpoint (processed_bytes), in batches
    fallback,   \* fallback[a]: AnalysisArtifact.fallback_context is set
    evid,       \* evid[a][b]: how many times batch b of a is in the evidence table
    result,     \* Analysis.result_snapshot
    file,       \* file[a]: the uploaded file is on disk
    queue,      \* messages the broker holds
    chords,     \* one entry per published chord
    wk,         \* wk[w]: what worker slot w is doing
    rec,        \* the recovery scan in progress
    api,        \* the cancel request in progress
    faults      \* faults that may still happen

row   == <<status, gen, finGen, age>>
arts  == <<art, done, fallback, evid>>
vars  == <<status, gen, finGen, age, art, done, fallback, evid, result, file,
           queue, chords, wk, rec, api, faults>>

-----------------------------------------------------------------------------
(* Values                                                                  *)

Active    == {"pending", "processing"}
Terminal  == {"completed", "failed", "cancelled"}

\* "skipped" stands for unsupported and duplicate, "controlled" for
\* resource_limited and processing_error: the pipeline treats each pair alike.
Dispatchable == {"pending", "processing", "completed"}
Settled      == {"completed", "skipped", "controlled"}
ArtStatus    == Dispatchable \cup Settled

NoEvidence == [a \in Artifacts |-> [b \in Batches |-> 0]]
NoResult   == [gen |-> 0, view |-> NoEvidence]

Evidence == [Artifacts -> [Batches -> Nat]]
Results  == [gen : Nat, view : Evidence]

\* An artifact message names an artifact.
Message == {m \in [task  : {"none", "process", "artifact", "finalize"},
                   gen   : Nat,
                   art   : Artifacts \cup {NoArtifact},
                   chord : Nat,
                   tries : Nat] : m.task = "artifact" => m.art \in Artifacts}

NoMsg == [task |-> "none", gen |-> 0, art |-> NoArtifact, chord |-> 0, tries |-> 0]

\* process_analysis(analysis_id) has no generation argument: gen only tells
\* apart the messages published after different claims.
ProcessMsg(g) == [NoMsg EXCEPT !.task = "process", !.gen = g]

ArtifactMsg(a, g, c) ==
    [task |-> "artifact", gen |-> g, art |-> a, chord |-> c, tries |-> 0]

FinalizeMsg(g, n) == [NoMsg EXCEPT !.task = "finalize", !.gen = g, !.tries = n]

Returns == {"none", "some", "error"}

Pcs == {"idle", "p_claimed", "p_ready", "p_unpublished", "p_demoting",
        "p_republish", "a_claimed", "a_setup", "a_capture", "a_run", "a_beat",
        "a_drop", "return", "f_checked", "f_claimed", "f_read", "f_explained",
        "clean"}

ArtifactPcs == {"a_claimed", "a_setup", "a_capture", "a_run", "a_beat", "a_drop", "return"}

\* own: the generation the task works for, pos: batches read so far, seen: the
\* evidence a finalizer read, ret: what an artifact task returns (0 events,
\* some, or an exception), names: the artifacts process_analysis dispatches ({}:
\* it only finalizes), or the images its demotion found in "processing"
Worker == {r \in [pc : Pcs, msg : Message, own : Nat, pos : Nat, seen : Evidence,
                  ret : Returns, names : SUBSET Artifacts] :
             r.pc \in ArtifactPcs => r.msg.task = "artifact"}

Idle == [pc |-> "idle", msg |-> NoMsg, own |-> 0, pos |-> 0,
         seen |-> NoEvidence, ret |-> "none", names |-> {}]

Chord   == [size : Nat,
            back : SUBSET ((Artifacts \cup {NoArtifact}) \X Returns)]

Recovery == [at : {"idle", "scanned", "claimed"},
             kind : {"none", "fast", "queue", "pending"},
             stuck : SUBSET Images]

NoScan == [at |-> "idle", kind |-> "none", stuck |-> {}]

-----------------------------------------------------------------------------
(* Shared pieces                                                           *)

\* Definitions called Mut... are mutations of the one below them, the kind of slip
\* that a property has to notice; no action uses them.
MutMineAnyStatus(g)     == gen = g
MutMineAnyGeneration(g) == status = "processing"

\* The fence of every commit: status and processing_generation, rows locked.
Mine(g)  == status = "processing" /\ gen = g
Owns(g)  == Mine(g) /\ finGen = g                   \* _finalizer_owns_generation
\* Mutant: an artifact that is being read counts as settled.
MutSettledOrStarted == \A a \in Artifacts : art[a] \in Settled \cup {"processing"}
AllSettled == \A a \in Artifacts : art[a] \in Settled

\* _artifact_mutation_authorized
Authorized(a, g) == Mine(g) /\ art[a] = "processing"

MayFail(kind) == kind \in Faults /\ faults > 0
Spend == faults' = faults - 1

Step(w, pc) == wk' = [wk EXCEPT ![w].pc = pc]
Stop(w)     == wk' = [wk EXCEPT ![w] = Idle]       \* return and acknowledge

\* _bump_processing_heartbeat: a session of its own, fenced by status and
\* generation.  The write may fail; the throttle then swallows the next ones.
Bump(g) == \/ /\ age' = (IF Mine(g) THEN 0 ELSE age)
              /\ UNCHANGED faults
           \/ MayFail("heartbeat") /\ Spend /\ UNCHANGED age

\* What cancel_analysis_and_cleanup and _mark_analysis_failed both clear in the
\* transaction that sets the terminal status.
ClearData ==
    /\ evid' = NoEvidence
    /\ fallback' = [a \in Artifacts |-> FALSE]
    /\ result' = NoResult
    /\ finGen' = 0
    /\ done' = [a \in Artifacts |->
                  IF art[a] \in {"pending", "processing"} THEN 0 ELSE done[a]]
    /\ UNCHANGED <<gen, age, art>>

\* Mutant: an ended analysis may be marked failed.
MutFailableAnyStatus(g, known) == known => gen = g

\* The UPDATE of _mark_analysis_failed; known is FALSE for generation=None.
Failable(g, known) == status \in Active /\ (known => gen = g)

MarkFailed == status' = "failed" /\ ClearData

\* Mutant: the files go although the row was not marked.
MutFailTaskAlwaysCleans(w, r, known, dbDown) ==
    /\ IF Failable(r.own, known) THEN MarkFailed ELSE UNCHANGED <<row, arts, result>>
    /\ wk' = [wk EXCEPT ![w] = [r EXCEPT !.pc = "clean", !.ret = "error"]]

\* The except clause of a task whose worker record is r: mark the analysis failed
\* and remove its files, unless the UPDATE matches nothing, or fails as well (dbDown).
FailTask(w, r, known, dbDown) ==
    \/ /\ Failable(r.own, known)
       /\ MarkFailed
       /\ wk' = [wk EXCEPT ![w] = [r EXCEPT !.pc = "clean", !.ret = "error"]]
    \/ /\ dbDown \/ ~Failable(r.own, known)
       /\ wk' = [wk EXCEPT ![w] = IF r.msg.task = "artifact"
                                  THEN [r EXCEPT !.pc = "return", !.ret = "error"]
                                  ELSE Idle]
       /\ UNCHANGED <<row, arts, result>>

\* The body of _claim_and_demote_stale_processing once its UPDATE matched.  The
\* images come from the snapshot of the candidates query, as they were then.
Demote(stuck) ==
    /\ status' = "pending"
    /\ age' = 0
    /\ finGen' = 0
    /\ art' = [a \in Artifacts |->
                 IF a \in stuck \/ art[a] = "processing" THEN "pending" ELSE art[a]]
    /\ evid' = [a \in Artifacts |->
                  IF a \in stuck THEN [b \in Batches |-> 0] ELSE evid[a]]
    /\ done' = [a \in Artifacts |-> IF a \in stuck THEN 0 ELSE done[a]]
    /\ fallback' = [a \in Artifacts |-> fallback[a] /\ a \notin stuck]
    /\ UNCHANGED <<gen, result>>

\* Mutant: artifacts of every format are reset, or none.
MutStuckAnyFormat == {a \in Artifacts : art[a] = "processing"}
MutStuckNone      == {}

\* stuck_artifacts of _claim_and_demote_stale_processing whose format is image
StuckImages == {a \in Images : art[a] = "processing"}

-----------------------------------------------------------------------------
(* process_analysis                                                        *)

\* UPDATE ... WHERE status = 'pending'; a message that loses is acknowledged.
ClaimAnalysis(w, m) ==
    /\ wk[w].pc = "idle"
    /\ m \in queue /\ m.task = "process"
    /\ gen < MaxGen
    /\ queue' = queue \ {m}
    /\ IF status = "pending"
       THEN /\ status' = "processing"
            /\ gen' = gen + 1
            /\ age' = 0
            /\ finGen' = 0
            /\ wk' = [wk EXCEPT ![w] = [Idle EXCEPT !.pc = "p_claimed", !.msg = m]]
       ELSE UNCHANGED <<row, wk>>
    /\ UNCHANGED <<arts, result, file, chords, rec, api, faults>>

\* db.refresh and the reads after it share one snapshot: the generation the task
\* works for is the one the row has now.
RefreshAnalysis(w) ==
    /\ wk[w].pc = "p_claimed"
    /\ IF status = "cancelled"
       THEN Stop(w)
       ELSE wk' = [wk EXCEPT
              ![w].pc = "p_ready",
              ![w].own = gen,
              ![w].names = IF AllSettled THEN {}
                           ELSE {a \in Artifacts : art[a] \in Dispatchable}]
    /\ UNCHANGED <<row, arts, result, file, queue, chords, rec, api, faults>>

PublishParts(w, sent, size) ==
    /\ queue' = queue \cup {ArtifactMsg(a, wk[w].own, Len(chords) + 1) : a \in sent}
    /\ chords' = Append(chords, [size |-> size, back |-> {}])

PublishWorkflow(w) ==
    /\ wk[w].pc = "p_ready"
    /\ IF wk[w].names = {}
       THEN queue' = queue \cup {FinalizeMsg(wk[w].own, 0)} /\ UNCHANGED chords
       ELSE PublishParts(w, wk[w].names, Cardinality(wk[w].names))
    /\ Stop(w)
    /\ UNCHANGED <<row, arts, result, file, rec, api, faults>>

\* The broker fails after it took some of the messages.  The chord learns its
\* size with the last one, so a cut chord (size 0) never calls back.
PublishFails(w) ==
    /\ wk[w].pc = "p_ready"
    /\ MayFail("publish") /\ Spend
    /\ IF wk[w].names = {}
       THEN UNCHANGED <<queue, chords>>
       ELSE \E sent \in SUBSET wk[w].names \ {wk[w].names} : PublishParts(w, sent, 0)
    /\ wk' = [wk EXCEPT ![w].pc = "p_unpublished", ![w].names = {}]
    /\ UNCHANGED <<row, arts, result, file, rec, api>>

\* _return_analysis_to_pending_after_publish_failure: the candidates query, then
\* the UPDATE that evaluates the same condition again.
ScanAfterPublishFailure(w) ==
    /\ wk[w].pc = "p_unpublished"
    /\ IF Mine(wk[w].own)
       THEN wk' = [wk EXCEPT ![w].pc = "p_demoting", ![w].names = StuckImages]
       ELSE Stop(w)
    /\ UNCHANGED <<row, arts, result, file, queue, chords, rec, api, faults>>

DemoteAfterPublishFailure(w) ==
    /\ wk[w].pc = "p_demoting"
    /\ IF Mine(wk[w].own)
       THEN /\ Demote(wk[w].names)
            /\ wk' = [wk EXCEPT ![w].pc = "p_republish", ![w].names = {}]
       ELSE Stop(w) /\ UNCHANGED <<row, arts, result>>
    /\ UNCHANGED <<file, queue, chords, rec, api, faults>>

\* process_analysis.delay; its failure is logged, recovery finds the row later
RepublishAnalysis(w) ==
    /\ wk[w].pc = "p_republish"
    /\ \/ queue' = queue \cup {ProcessMsg(wk[w].own)} /\ UNCHANGED faults
       \/ MayFail("publish") /\ Spend /\ UNCHANGED queue
    /\ Stop(w)
    /\ UNCHANGED <<row, arts, result, file, chords, rec, api>>

\* An exception before the publication: generation is None until the refresh, and
\* _mark_analysis_failed then fails the row whatever its generation.
ProcessFails(w) ==
    /\ wk[w].pc \in {"p_claimed", "p_ready"}
    /\ MayFail("exception") /\ Spend
    /\ FailTask(w, wk[w], wk[w].pc = "p_ready", TRUE)
    /\ UNCHANGED <<file, queue, chords, rec, api>>

\* An exception in the first queries of any task, before it claimed anything.
\* Only process_analysis does not say which generation it is about.
FailsAtStart(w, m) ==
    /\ wk[w].pc = "idle"
    /\ m \in queue
    /\ MayFail("exception") /\ Spend
    /\ queue' = queue \ {m}
    /\ FailTask(w, [Idle EXCEPT !.msg = m, !.own = m.gen], m.task # "process", TRUE)
    /\ UNCHANGED <<file, chords, rec, api>>

-----------------------------------------------------------------------------
(* _process_artifact_task                                                  *)

\* Mutant: an artifact that is being read may be claimed again.
MutClaimableTwice(m) == Mine(m.gen) /\ art[m.art] \in {"pending", "processing"}
Claimable(m) == Mine(m.gen) /\ art[m.art] = "pending"

\* The claim: analysis row locked, artifact row locked, "pending" to
\* "processing".  A task that loses returns 0.
ClaimArtifact(w, m) ==
    /\ wk[w].pc = "idle"
    /\ m \in queue /\ m.task = "artifact"
    /\ queue' = queue \ {m}
    /\ LET won == Claimable(m) IN
       /\ art' = IF won THEN [art EXCEPT ![m.art] = "processing"] ELSE art
       /\ wk' = [wk EXCEPT ![w] = [Idle EXCEPT !.pc = IF won THEN "a_claimed" ELSE "return",
                                               !.msg = m, !.own = m.gen]]
    /\ UNCHANGED <<row, done, fallback, evid, result, file, chords, rec, api, faults>>

Artifact(w) == wk[w].msg.art

\* Mutant: the checkpoint is not looked at.
MutResumeFromStart(a) == 0

\* stream_artifact_events starts at the checkpoint, an image at its first record
ResumePoint(a) == IF a \in Images THEN 0 ELSE done[a]

\* The rows are read again without a lock (the checkpoint to resume from is the
\* one read here), and the heartbeat is written.
LoadArtifact(w) ==
    /\ wk[w].pc = "a_claimed"
    /\ IF Authorized(Artifact(w), wk[w].own)
       THEN /\ Bump(wk[w].own)
            /\ wk' = [wk EXCEPT ![w].pc = "a_setup",
                                ![w].pos = ResumePoint(Artifact(w))]
       ELSE Step(w, "return") /\ UNCHANGED <<age, faults>>
    /\ UNCHANGED <<status, gen, finGen, arts, result, file, queue, chords, rec, api>>

\* The setup commit: size and format only, once ownership is confirmed.
SetUpArtifact(w) ==
    /\ wk[w].pc = "a_setup"
    /\ file[Artifact(w)]
    /\ Step(w, IF ~Authorized(Artifact(w), wk[w].own) THEN "return"
               ELSE IF Artifact(w) \in Captured THEN "a_capture" ELSE "a_run")
    /\ UNCHANGED <<row, arts, result, file, queue, chords, rec, api, faults>>

CaptureFallback(w) ==
    /\ wk[w].pc = "a_capture"
    /\ IF Authorized(Artifact(w), wk[w].own)
       THEN fallback' = [fallback EXCEPT ![Artifact(w)] = TRUE] /\ Step(w, "a_run")
       ELSE Step(w, "return") /\ UNCHANGED fallback
    /\ UNCHANGED <<row, art, done, evid, result, file, queue, chords, rec, api, faults>>

\* _persist_artifact_batch: evidence and checkpoint in one transaction, under
\* the row lock.  An image leaves the checkpoint alone.
PersistArtifactBatch(w) ==
    /\ wk[w].pc = "a_run"
    /\ wk[w].pos < Length[Artifact(w)]
    /\ LET a == Artifact(w)
           b == wk[w].pos + 1
       IN IF Mine(wk[w].own)
          THEN /\ evid' = [evid EXCEPT ![a][b] = @ + 1]
               /\ done' = IF a \in Images THEN done ELSE [done EXCEPT ![a] = b]
               /\ wk' = [wk EXCEPT ![w].pc = "a_beat", ![w].pos = b, ![w].ret = "some"]
          ELSE Step(w, "return") /\ UNCHANGED <<evid, done>>
    /\ UNCHANGED <<row, art, fallback, result, file, queue, chords, rec, api, faults>>

BumpAfterBatch(w) ==
    /\ wk[w].pc = "a_beat"
    /\ Bump(wk[w].own)
    /\ Step(w, "a_run")
    /\ UNCHANGED <<status, gen, finGen, arts, result, file, queue, chords, rec, api>>

\* The terminal commit checks the analysis row; the checkpoint becomes the size.
CompleteArtifact(w) ==
    /\ wk[w].pc = "a_run"
    /\ wk[w].pos >= Length[Artifact(w)]
    /\ file[Artifact(w)]
    /\ IF Mine(wk[w].own)
       THEN /\ art' = [art EXCEPT ![Artifact(w)] = "completed"]
            /\ done' = [done EXCEPT ![Artifact(w)] = Length[Artifact(w)]]
       ELSE UNCHANGED <<art, done>>
    /\ Step(w, "return")
    /\ UNCHANGED <<row, fallback, evid, result, file, queue, chords, rec, api, faults>>

\* _record_controlled_artifact_failure: the file cannot be parsed or read by OCR
\* (or one JSON value is too large).  What it gave so far is deleted.
RecordControlledFailure(w) ==
    /\ wk[w].pc \in {"a_capture", "a_run"}
    /\ LET a == Artifact(w) IN
       IF Authorized(a, wk[w].own)
       THEN /\ evid' = [evid EXCEPT ![a] = [b \in Batches |-> 0]]
            /\ art' = [art EXCEPT ![a] = "controlled"]
            /\ done' = [done EXCEPT ![a] = 0]
            /\ fallback' = [fallback EXCEPT ![a] = FALSE]
            /\ wk' = [wk EXCEPT ![w].pc = "a_drop", ![w].ret = "none"]
       ELSE /\ wk' = [wk EXCEPT ![w].pc = "return", ![w].ret = "none"]
            /\ UNCHANGED arts
    /\ UNCHANGED <<row, result, file, queue, chords, rec, api, faults>>

DropArtifactFile(w) ==
    /\ wk[w].pc = "a_drop"
    /\ file' = [file EXCEPT ![Artifact(w)] = FALSE]
    /\ Step(w, "return")
    /\ UNCHANGED <<row, arts, result, queue, chords, rec, api, faults>>

\* Any other exception: the database or a defect, and getsize on a file that is
\* gone, which takes no fault.
ArtifactFails(w) ==
    /\ wk[w].pc \in {"a_claimed", "a_setup", "a_capture", "a_run", "a_beat"}
    /\ MayFail("exception") /\ Spend
    /\ FailTask(w, wk[w], TRUE, TRUE)
    /\ UNCHANGED <<file, queue, chords, rec, api>>

MissesFile(w) ==
    /\ wk[w].pc \in {"a_setup", "a_run"}
    /\ ~file[Artifact(w)]
    /\ FailTask(w, wk[w], TRUE, FALSE)
    /\ UNCHANGED <<file, queue, chords, rec, api, faults>>

\* The result backend counts the part in its chord: a part counts again when a
\* second run returns something else.  The last one publishes the finalizer,
\* unless a part failed.  A worker lost before the acknowledgement (~acked) leaves
\* the message to be delivered again.
CountPart(w, acked) ==
    LET m == wk[w].msg
        back == chords[m.chord].back \cup {<<m.art, wk[w].ret>>}
        full == Cardinality(back) = chords[m.chord].size
        failed == \E p \in back : p[2] = "error"
    IN /\ chords' = [chords EXCEPT ![m.chord] =
                       [size |-> IF full THEN 0 ELSE @.size, back |-> back]]
       /\ queue' = queue \cup (IF full /\ ~failed THEN {FinalizeMsg(m.gen, 0)} ELSE {})
                         \cup (IF acked THEN {} ELSE {m})

ReturnArtifact(w) ==
    /\ wk[w].pc = "return"
    /\ CountPart(w, TRUE)
    /\ Stop(w)
    /\ UNCHANGED <<row, arts, result, file, rec, api, faults>>

LoseAfterReturn(w) ==
    /\ wk[w].pc = "return"
    /\ MayFail("crash") /\ Spend
    /\ CountPart(w, FALSE)
    /\ Stop(w)
    /\ UNCHANGED <<row, arts, result, file, rec, api>>

-----------------------------------------------------------------------------
(* _finalize_analysis_task                                                 *)

\* Ownership and completeness are read in one snapshot.  An incomplete analysis
\* is retried later, at most MaxTries times.
CheckFinalize(w, m) ==
    /\ wk[w].pc = "idle"
    /\ m \in queue /\ m.task = "finalize"
    /\ IF Mine(m.gen) /\ AllSettled
       THEN /\ wk' = [wk EXCEPT ![w] = [Idle EXCEPT !.pc = "f_checked", !.msg = m,
                                                   !.own = m.gen]]
            /\ queue' = queue \ {m}
       ELSE /\ queue' = (queue \ {m}) \cup
                        (IF Mine(m.gen) /\ m.tries < MaxTries
                         THEN {FinalizeMsg(m.gen, m.tries + 1)} ELSE {})
            /\ UNCHANGED wk
    /\ UNCHANGED <<row, arts, result, file, chords, rec, api, faults>>

\* UPDATE ... WHERE finalization_generation IS NULL
ClaimFinalization(w) ==
    /\ wk[w].pc = "f_checked"
    /\ IF Mine(wk[w].own) /\ finGen = 0
       THEN finGen' = wk[w].own /\ Step(w, "f_claimed")
       ELSE Stop(w) /\ UNCHANGED finGen
    /\ UNCHANGED <<status, gen, age, arts, result, file, queue, chords, rec, api, faults>>

\* Neither evidence nor a fallback context: the result needs no explanation.
NothingFound == evid = NoEvidence /\ \A a \in Artifacts : ~fallback[a]

\* The heartbeat, then the evidence the result is built from, read outside the
\* row lock that _finalizer_owns_generation took and released.
ReadEvidence(w) ==
    /\ wk[w].pc = "f_claimed"
    /\ Bump(wk[w].own)
    /\ IF Owns(wk[w].own)
       THEN wk' = [wk EXCEPT ![w].pc = IF NothingFound THEN "f_explained" ELSE "f_read",
                             ![w].seen = evid]
       ELSE Stop(w)
    /\ UNCHANGED <<status, gen, finGen, arts, result, file, queue, chords, rec, api>>

\* Gemini between two ownership checks; its absence leaves no explanation and
\* changes nothing else.
ExplainResult(w) ==
    /\ wk[w].pc = "f_read"
    /\ IF Owns(wk[w].own)
       THEN Bump(wk[w].own) /\ Step(w, "f_explained")
       ELSE Stop(w) /\ UNCHANGED <<age, faults>>
    /\ UNCHANGED <<status, gen, finGen, arts, result, file, queue, chords, rec, api>>

\* _finalize_commit_if_processing
CommitResult(w) ==
    /\ wk[w].pc = "f_explained"
    /\ IF Owns(wk[w].own)
       THEN /\ status' = "completed"
            /\ result' = [gen |-> wk[w].own, view |-> wk[w].seen]
            /\ Step(w, "clean")
       ELSE Stop(w) /\ UNCHANGED <<status, result>>
    /\ UNCHANGED <<gen, finGen, age, arts, file, queue, chords, rec, api, faults>>

FinalizeFails(w) ==
    /\ wk[w].pc \in {"f_checked", "f_claimed", "f_read", "f_explained"}
    /\ MayFail("exception") /\ Spend
    /\ FailTask(w, wk[w], TRUE, TRUE)
    /\ UNCHANGED <<file, queue, chords, rec, api>>

\* _cleanup_completed_diagnostic_files, _cleanup_files_after_terminal_failure
CleanFiles(w) ==
    /\ wk[w].pc = "clean"
    /\ file' = [a \in Artifacts |-> FALSE]
    /\ IF wk[w].msg.task = "artifact" THEN Step(w, "return") ELSE Stop(w)
    /\ UNCHANGED <<row, arts, result, queue, chords, rec, api, faults>>

-----------------------------------------------------------------------------
(* Worker loss and redelivery: acks_late, reject_on_worker_lost            *)

LoseWorker(w) ==
    /\ wk[w].pc # "idle"
    /\ MayFail("crash") /\ Spend
    /\ queue' = queue \cup {wk[w].msg}
    /\ Stop(w)
    /\ UNCHANGED <<row, arts, result, file, chords, rec, api>>

\* The publication itself is cut by the loss of the worker.
LoseWhilePublishing(w) ==
    /\ wk[w].pc = "p_ready" /\ wk[w].names # {}
    /\ MayFail("crash") /\ Spend
    /\ \E sent \in SUBSET wk[w].names \ {{}, wk[w].names} :
         /\ chords' = Append(chords, [size |-> 0, back |-> {}])
         /\ queue' = queue \cup {wk[w].msg} \cup
                     {ArtifactMsg(a, wk[w].own, Len(chords) + 1) : a \in sent}
    /\ Stop(w)
    /\ UNCHANGED <<row, arts, result, file, rec, api>>

\* The broker's visibility timeout passes while the task still runs.
Redeliver(w) ==
    /\ wk[w].pc # "idle"
    /\ wk[w].msg \notin queue
    /\ MayFail("redeliver") /\ Spend
    /\ queue' = queue \cup {wk[w].msg}
    /\ UNCHANGED <<row, arts, result, file, chords, wk, rec, api>>

-----------------------------------------------------------------------------
(* Cancellation by the API                                                 *)

CancelAnalysis ==
    /\ api = "idle"
    /\ status \in Active
    /\ status' = "cancelled"
    /\ ClearData
    /\ api' = "cleaning"
    /\ UNCHANGED <<file, queue, chords, wk, rec, faults>>

CleanAfterCancel ==
    /\ api = "cleaning"
    /\ file' = [a \in Artifacts |-> FALSE]
    /\ api' = "idle"
    /\ UNCHANGED <<row, arts, result, queue, chords, wk, rec, faults>>

-----------------------------------------------------------------------------
(* recover_stale_analyses                                                  *)

ActiveWork == (\E a \in Artifacts : art[a] = "processing") \/ (finGen # 0 /\ finGen = gen)

\* Mutant: the filter for a workflow that stopped is missing.
MutStaleActiveOnly(kind) ==
    \/ kind = "fast"    /\ status = "processing" /\ ActiveWork /\ age >= 1
    \/ kind = "pending" /\ status = "pending" /\ age >= 2

\* the three filters; the cutoffs are instants fixed when the scan starts
Stale(kind) ==
    \/ kind = "fast"    /\ status = "processing" /\ ActiveWork /\ age >= 1
    \/ kind = "queue"   /\ status = "processing" /\ ~ActiveWork /\ age >= 2
    \/ kind = "pending" /\ status = "pending" /\ age >= 2

ScanStale ==
    /\ rec.at = "idle"
    /\ \E kind \in {"fast", "queue", "pending"} :
         /\ Stale(kind)
         /\ rec' = [at |-> "scanned", kind |-> kind,
                    stuck |-> IF kind = "pending" THEN {} ELSE StuckImages]
    /\ UNCHANGED <<row, arts, result, file, queue, chords, wk, api, faults>>

ClaimStale ==
    /\ rec.at = "scanned"
    /\ IF ~Stale(rec.kind)
       THEN rec' = NoScan /\ UNCHANGED <<row, arts, result>>
       ELSE /\ rec' = [at |-> "claimed", kind |-> "none", stuck |-> {}]
            /\ IF rec.kind = "pending"
               THEN age' = 0 /\ UNCHANGED <<status, gen, finGen, arts, result>>
               ELSE Demote(rec.stuck)
    /\ UNCHANGED <<file, queue, chords, wk, api, faults>>

\* process_analysis.delay may fail, or the scan's worker be lost before it.
RedispatchStale ==
    /\ rec.at = "claimed"
    /\ rec' = NoScan
    /\ \/ queue' = queue \cup {ProcessMsg(gen)} /\ UNCHANGED faults
       \/ MayFail("publish") /\ Spend /\ UNCHANGED queue
    /\ UNCHANGED <<row, arts, result, file, chords, wk, api>>

\* Time passes.  The cutoffs of a scan in progress do not move with it.
Tick ==
    /\ status \in Active
    /\ age < 2
    /\ rec.at # "scanned"
    /\ PromptWorkers => queue = {} /\ \A w \in Workers : wk[w].pc = "idle"
    /\ age' = age + 1
    /\ UNCHANGED <<status, gen, finGen, arts, result, file, queue, chords, wk, rec, api, faults>>

-----------------------------------------------------------------------------
(* The specification                                                       *)

\* create_analysis committed the row; its process message may not have reached
\* the broker.  Some files were found unsupported or duplicate at upload.
Init ==
    /\ status = "pending" /\ gen = 0 /\ finGen = 0 /\ age = 0
    /\ art \in [Artifacts -> {"pending", "skipped"}]
    /\ done = [a \in Artifacts |-> 0]
    /\ fallback = [a \in Artifacts |-> FALSE]
    /\ evid = NoEvidence
    /\ result = NoResult
    /\ file = [a \in Artifacts |-> TRUE]
    /\ queue \in {{}, {ProcessMsg(0)}}
    /\ chords = <<>>
    /\ wk = [w \in Workers |-> Idle]
    /\ rec = NoScan
    /\ api = "idle"
    /\ faults = FaultLimit

ProcessStep(w) ==
    \/ \E m \in queue : ClaimAnalysis(w, m)
    \/ RefreshAnalysis(w) \/ PublishWorkflow(w)
    \/ ScanAfterPublishFailure(w) \/ DemoteAfterPublishFailure(w)
    \/ RepublishAnalysis(w)

ArtifactStep(w) ==
    \/ \E m \in queue : ClaimArtifact(w, m)
    \/ LoadArtifact(w) \/ SetUpArtifact(w) \/ CaptureFallback(w)
    \/ PersistArtifactBatch(w) \/ BumpAfterBatch(w) \/ CompleteArtifact(w)
    \/ RecordControlledFailure(w) \/ DropArtifactFile(w)
    \/ MissesFile(w) \/ ReturnArtifact(w)

FinalizeStep(w) ==
    \/ \E m \in queue : CheckFinalize(w, m)
    \/ ClaimFinalization(w) \/ ReadEvidence(w) \/ ExplainResult(w)
    \/ CommitResult(w) \/ CleanFiles(w)

Failure(w) ==
    \/ \E m \in queue : FailsAtStart(w, m)
    \/ ProcessFails(w) \/ ArtifactFails(w) \/ FinalizeFails(w)

Loss(w) ==
    \/ LoseAfterReturn(w) \/ LoseWorker(w) \/ LoseWhilePublishing(w)
    \/ PublishFails(w) \/ Redeliver(w)

WorkerStep(w) == ProcessStep(w) \/ ArtifactStep(w) \/ FinalizeStep(w)

Recover == ScanStale \/ ClaimStale \/ RedispatchStale

Next ==
    \/ \E w \in Workers : WorkerStep(w) \/ Failure(w) \/ Loss(w)
    \/ CancelAnalysis \/ CleanAfterCancel
    \/ Recover
    \/ Tick

Spec == Init /\ [][Next]_vars

-----------------------------------------------------------------------------
(* Properties                                                              *)

RowType ==
    /\ status \in Active \cup Terminal
    /\ gen \in Nat /\ finGen \in Nat /\ age \in 0 .. 2
    /\ result \in Results
ArtifactsType ==
    /\ art \in [Artifacts -> ArtStatus]
    /\ done \in [Artifacts -> Nat]
    /\ fallback \in [Artifacts -> BOOLEAN]
    /\ evid \in Evidence
    /\ file \in [Artifacts -> BOOLEAN]
BrokerType == queue \subseteq Message /\ chords \in Seq(Chord)
WorkType   == wk \in [Workers -> Worker]
OtherType  == rec \in Recovery /\ api \in {"idle", "cleaning"} /\ faults \in Nat

\* The shape of every variable; only images are ever in a demotion's snapshot.
TypeOK == RowType /\ ArtifactsType /\ BrokerType /\ WorkType /\ OtherType

\* An analysis that failed or was cancelled keeps no evidence, no fallback
\* context and no result, whatever the workers that had not noticed still do
\* (cancel_analysis_and_cleanup, _mark_analysis_failed against every late commit).
NoResidue ==
    status \in {"failed", "cancelled"} =>
        /\ evid = NoEvidence
        /\ \A a \in Artifacts : ~fallback[a]
        /\ result = NoResult

\* While the analysis lives, the evidence of a text artifact is exactly what lies
\* before its checkpoint, each batch once: no crash, redelivery or recovery makes
\* a batch count twice or get lost (_persist_artifact_batch).
CheckpointMatchesEvidence ==
    status \notin {"failed", "cancelled"} =>
        \A a \in Artifacts \ Images : \A b \in Batches :
            evid[a][b] = IF b <= done[a] THEN 1 ELSE 0

\* The evidence of an image starts from nothing whenever its task starts: a
\* pending image has none, a completed one has each batch once, although an
\* image has no checkpoint to resume from (_claim_and_demote_stale_processing).  Its
\* run and its theorem leave out failed heartbeats and failed publications: with
\* them a demotion may use a snapshot that misses a claim (ImageRestartsClean).
ImageEvidenceOnce ==
    status \notin {"failed", "cancelled"} =>
        \A a \in Images : \A b \in Batches :
            /\ evid[a][b] <= 1
            /\ art[a] \in {"pending", "controlled", "skipped"} => evid[a][b] = 0
            /\ art[a] = "completed" => evid[a][b] = IF b <= Length[a] THEN 1 ELSE 0

\* A completed analysis shows all its evidence: no artifact was still to be read,
\* the result was written by the current generation, and it was built from the
\* evidence that is stored now (the finalizer reads it outside any lock).
ResultIsCurrent ==
    status = "completed" =>
        /\ \A a \in Artifacts : art[a] \in Settled
        /\ result.gen = gen
        /\ result.view = evid

\* Of the worker slots, at most one works for the current generation on the same
\* artifact, and at most one finalizes it, however often the messages are
\* delivered (the two claims).
Working(w) == wk[w].pc \in {"a_setup", "a_capture", "a_run", "a_beat"}
Finalizing(w) == wk[w].pc \in {"f_claimed", "f_read", "f_explained"}
OneOwner ==
    \A v, w \in Workers :
        v # w /\ status = "processing" /\ wk[v].own = gen /\ wk[w].own = gen =>
            /\ ~(Finalizing(v) /\ Finalizing(w))
            /\ ~(Finalizing(v) /\ Working(w) /\ finGen = gen)
            /\ Working(v) /\ Working(w) => Artifact(v) # Artifact(w)

\* The file of a text artifact that is still to be read is on disk while the
\* analysis lives: every removal comes after the commit that makes it useless.
FilesWhileNeeded ==
    status \in Active =>
        \A a \in Artifacts \ Images : art[a] \in {"pending", "processing"} => file[a]

\* What test_stale_recovery_resets_a_stuck_image_artifact_for_a_clean_restart
\* asserts of an image that recovery returned to "pending": no checkpoint, no
\* fallback context, no evidence, and its file still there to be read again.
ImageRestartsClean ==
    status \in Active =>
        \A a \in Images : art[a] = "pending" =>
            /\ done[a] = 0
            /\ ~fallback[a]
            /\ \A b \in Batches : evid[a][b] = 0
            /\ file[a]

\* A terminal status is final, and so is what was stored with it
\* (test_complete_then_fail_terminal_winner_is_immutable and its siblings).
KeepsOutcome ==
    status \in Terminal => UNCHANGED <<status, gen, evid, done, art, fallback, result>>
TerminalIsFinal == [][KeepsOutcome]_vars

\* A worker whose generation has been superseded, or whose analysis was demoted,
\* changes nothing of it any more, except that an exception may still fail a
\* demoted analysis of the same generation (_mark_analysis_failed).
StaleWorkerIsHarmless ==
    [][\A w \in Workers :
        /\ wk'[w] # wk[w]
        /\ wk[w].own # 0
        /\ status # "processing" \/ gen # wk[w].own
        => /\ UNCHANGED <<gen, art, age>>
           /\ status' = status \/ (status' = "failed" /\ wk[w].own = gen)
           /\ status' = status => UNCHANGED <<arts, result, finGen>> ]_vars

\* The pipeline implements the abstract lifecycle: an analysis completes at most
\* once, and what it then publishes holds the evidence of an artifact whole or not
\* at all, however many workers, crashes and recoveries it took.
Lifecycle == INSTANCE AnalysisLifecycle
                 WITH phase <- status, attempt <- gen, report <- result.view
ImplementsLifecycle == Lifecycle!Spec

=============================================================================
