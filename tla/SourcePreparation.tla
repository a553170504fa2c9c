-------------------------- MODULE SourcePreparation --------------------------
(***************************************************************************)
(* The optional source code of an analysis: _prepare_source_task clones or *)
(* unpacks it into a private directory, publishes the tree and its .ready  *)
(* marker while it holds the row lock, or records that it is unavailable   *)
(* (backend/app/tasks/analysis.py, services/source_archive.py).            *)
(*                                                                         *)
(* The diagnostics that follow are one task here ("rest"): it reads        *)
(* source_status, loads the index, and completes.  AnalysisPipeline has    *)
(* their detail.                                                           *)
(***************************************************************************)
EXTENDS Naturals, FiniteSets

CONSTANTS
    Workers,        \* Celery worker slots
    NoWorker,       \* nobody holds the row lock
    MaxGen,         \* bound of the model: claims by process_analysis
    Faults,         \* the kinds of fault that may happen
    FaultLimit,     \* bound of the model: how many of them
    PromptWorkers   \* TRUE: a heartbeat ages only while nothing runs or waits

ASSUME SourceAssumption ==
    /\ NoWorker \notin Workers
    /\ MaxGen \in Nat /\ FaultLimit \in Nat
    /\ PromptWorkers \in BOOLEAN

VARIABLES
    status,     \* Analysis.status
    gen,        \* Analysis.processing_generation
    source,     \* Analysis.source_status, "none" for NULL
    stale,      \* the heartbeat is older than the cutoff that applies
    lock,       \* the worker whose transaction holds the row, between its steps
    tree,       \* the generation whose tree stands at <root>/<id>, 0 for none
    marker,     \* <id>.ready exists
    zip,        \* the staged ZIP: "none" for a repository, "staged", "removed"
    litter,     \* generations of which a lost worker left a private directory
    outcome,    \* the source the stored result was matched against
    queue, retrying,    \* messages, and those that wait for a countdown
    wk,         \* wk[w]: what worker slot w is doing
    rec, api,   \* the recovery scan and the cancel request in progress
    faults      \* faults that may still happen

row   == <<status, gen, source, stale>>
files == <<tree, marker, zip, litter>>
msgs  == <<queue, retrying>>
vars  == <<status, gen, source, stale, lock, tree, marker, zip, litter, outcome,
           queue, retrying, wk, rec, api, faults>>

-----------------------------------------------------------------------------
(* Values                                                                  *)

Active   == {"pending", "processing"}
Terminal == {"completed", "failed", "cancelled"}
Sources  == {"none", "preparing", "ready", "unavailable"}
Zips     == {"none", "staged", "removed"}
Gens     == 1 .. MaxGen

Message    == [task : {"process", "prepare", "rest"}, gen : 0 .. MaxGen]
ProcessMsg == [task |-> "process", gen |-> 0]
Prepare(g) == [task |-> "prepare", gen |-> g]
Rest(g)    == [task |-> "rest", gen |-> g]

PreparePcs == {"claim", "recheck", "load", "adopt", "readopt", "beat", "acquire",
               "fetch", "lock_fresh", "lock_ready", "p_move", "p_mark", "p_adopt",
               "p_commit", "unavailable", "dropzip", "return"}

\* temp: the private directory of this attempt is on disk, saw: the source_status
\* or the index this task read, next: where it goes once the files are cleaned
Worker == [pc : {"idle", "r_load", "r_lost", "r_dropzip", "r_commit",
                 "clean_tree", "clean_rest"} \cup PreparePcs,
           msg : Message, temp : BOOLEAN,
           saw : Sources \cup {"whole", "hollow"}, next : {"idle", "return"}]
Idle == [pc |-> "idle", msg |-> ProcessMsg, temp |-> FALSE, saw |-> "none", next |-> "idle"]
NoScan == [at |-> "idle", gen |-> 0, source |-> "none"]

Own(w) == wk[w].msg.gen

-----------------------------------------------------------------------------
(* Shared pieces                                                           *)

Mine(g) == status = "processing" /\ gen = g

\* A writer of the row waits for the transaction that holds it.
\* (Definitions called Mut... are mutations of the one that follows: slips that a
\* property has to notice.  No action uses them.)
MutUnlocked == TRUE
Unlocked    == lock = NoWorker

MayFail(kind) == kind \in Faults /\ faults > 0 /\ faults' = faults - 1

Step(w, pc) == wk' = [wk EXCEPT ![w].pc = pc]
Stop(w)     == wk' = [wk EXCEPT ![w] = Idle]

\* _remove_staged_source_archive; a repository has no archive.
RemoveZip == zip' = IF zip = "none" THEN "none" ELSE "removed"

\* cleanup_generation_source_temp: the private directories of one generation
DropTemps(W, g) == [w \in Workers |->
    IF W[w].msg.gen = g THEN [W[w] EXCEPT !.temp = FALSE] ELSE W[w]]

-----------------------------------------------------------------------------
(* process_analysis                                                        *)

\* The claim and the publication of chain(prepare, chord); with a "publish" fault
\* the worker is lost in between and nothing is published.
ProcessAnalysis(w) ==
    /\ ProcessMsg \in queue /\ wk[w].pc = "idle" /\ Unlocked
    /\ gen < MaxGen
    /\ IF status = "pending"
       THEN /\ status' = "processing" /\ gen' = gen + 1 /\ stale' = FALSE
            /\ \/ /\ queue' = (queue \ {ProcessMsg}) \cup {Prepare(gen + 1)}
                  /\ UNCHANGED faults
               \/ queue' = queue \ {ProcessMsg} /\ MayFail("publish")
       ELSE queue' = queue \ {ProcessMsg} /\ UNCHANGED <<status, gen, stale, faults>>
    /\ UNCHANGED <<source, lock, files, outcome, retrying, wk, rec, api>>

-----------------------------------------------------------------------------
(* _prepare_source_task                                                    *)

\* The row as the first query sees it.
StartPrepare(w, m) ==
    /\ wk[w].pc = "idle"
    /\ m \in queue /\ m.task = "prepare"
    /\ queue' = queue \ {m}
    /\ wk' = [wk EXCEPT ![w] = [Idle EXCEPT !.msg = m, !.pc =
                IF ~Mine(m.gen) \/ source = "unavailable" THEN "return"
                ELSE IF source = "ready" THEN "dropzip" ELSE "claim"]]
    /\ UNCHANGED <<row, lock, files, outcome, retrying, rec, api, faults>>

\* UPDATE ... WHERE source_status IS NULL
ClaimPreparing(w) ==
    /\ wk[w].pc = "claim" /\ Unlocked
    /\ IF Mine(Own(w)) /\ source = "none"
       THEN source' = "preparing" /\ Step(w, "beat")
       ELSE Step(w, "recheck") /\ UNCHANGED source
    /\ UNCHANGED <<status, gen, stale, lock, files, outcome, msgs, rec, api, faults>>

\* Why the claim, or the adoption, did not match: somebody owns the preparation,
\* or it is over.
Recheck(w) ==
    /\ wk[w].pc \in {"recheck", "readopt"}
    /\ IF ~Mine(Own(w)) \/ source = "unavailable" THEN Step(w, "return")
       ELSE IF source = "ready" THEN Step(w, "dropzip")
       ELSE wk[w].pc = "recheck" /\ Step(w, "load")
    /\ UNCHANGED <<row, lock, files, outcome, msgs, rec, api, faults>>

\* self.retry: the message comes back after a countdown.  No heartbeat.  An index
\* that cannot be loaded is waited for like one that is not there yet.
RetryPrepare(w) ==
    /\ \/ /\ wk[w].pc = "readopt" /\ Mine(Own(w)) /\ source \notin {"ready", "unavailable"}
          /\ UNCHANGED faults
       \/ wk[w].pc = "load" /\ ~marker /\ UNCHANGED faults
       \/ wk[w].pc = "load" /\ marker /\ MayFail("source")
    /\ retrying' = retrying \cup {wk[w].msg}
    /\ Stop(w)
    /\ UNCHANGED <<row, lock, files, outcome, queue, rec, api>>

\* load_ready_source_index, for a delivery that found the preparation owned
LoadReady(w) ==
    /\ wk[w].pc = "load" /\ marker
    /\ Step(w, "adopt")
    /\ UNCHANGED <<row, lock, files, outcome, msgs, rec, api, faults>>

\* What an interrupted preparation published is adopted as it stands.
AdoptReady(w) ==
    /\ wk[w].pc = "adopt" /\ Unlocked
    /\ IF Mine(Own(w)) /\ source = "preparing"
       THEN source' = "ready" /\ Step(w, "dropzip")
       ELSE Step(w, "readopt") /\ UNCHANGED source
    /\ UNCHANGED <<status, gen, stale, lock, files, outcome, msgs, rec, api, faults>>

Beat(w) ==
    /\ wk[w].pc = "beat" /\ Unlocked
    /\ stale' = (stale /\ ~Mine(Own(w)))
    /\ Step(w, "acquire")
    /\ UNCHANGED <<status, gen, source, lock, files, outcome, msgs, rec, api, faults>>

\* prepare_source: a marker is adopted, otherwise a private directory is begun
Acquire(w) ==
    /\ wk[w].pc = "acquire"
    /\ wk' = [wk EXCEPT ![w].pc = IF marker THEN "lock_ready" ELSE "fetch",
                        ![w].temp = ~marker]
    /\ UNCHANGED <<row, lock, files, outcome, msgs, rec, api, faults>>

\* _clone_github or _extract_zip, build_index, the private manifest.  A ZIP or a
\* private directory that is gone fails like a source that cannot be used, unless
\* the extraction makes the directory again for the members that are left.
Fetch(w) ==
    /\ wk[w].pc = "fetch"
    /\ \/ /\ zip # "removed"
          /\ wk[w].temp \/ zip = "staged"
          /\ wk' = [wk EXCEPT ![w].pc = "lock_fresh", ![w].temp = TRUE]
       \/ /\ ~wk[w].temp \/ zip = "removed"
          /\ wk' = [wk EXCEPT ![w].pc = "unavailable", ![w].temp = FALSE]
    /\ UNCHANGED <<row, lock, files, outcome, msgs, rec, api, faults>>

\* _publish_source_for_current_generation: SELECT ... FOR UPDATE and its checks.
\* Ownership that is lost discards the private directory.
LockRow(w) ==
    /\ wk[w].pc \in {"lock_fresh", "lock_ready"} /\ Unlocked
    /\ IF Mine(Own(w)) /\ source = "preparing"
       THEN /\ lock' = w
            /\ Step(w, IF wk[w].pc = "lock_fresh" THEN "p_move" ELSE "p_adopt")
       ELSE /\ wk' = [wk EXCEPT ![w].pc = "return", ![w].temp = FALSE]
            /\ UNCHANGED lock
    /\ UNCHANGED <<row, files, outcome, msgs, rec, api, faults>>

\* Mutant: the marker is touched before the tree is moved.
MutMarkerBeforeTree(w) ==
    /\ wk[w].pc = "p_move" /\ wk[w].temp
    /\ marker' = TRUE
    /\ Step(w, "p_mark")
    /\ UNCHANGED <<row, lock, tree, zip, litter, outcome, msgs, rec, api, faults>>

\* _publish_prepared: an older tree is set aside and the new one takes its place.
\* When that one is gone the transaction rolls back, and the older tree is lost.
MoveTree(w) ==
    /\ wk[w].pc = "p_move"
    /\ IF marker THEN Step(w, "p_commit") /\ UNCHANGED <<tree, lock>>
       ELSE IF wk[w].temp
       THEN /\ tree' = Own(w)
            /\ wk' = [wk EXCEPT ![w].pc = "p_mark", ![w].temp = FALSE]
            /\ UNCHANGED lock
       ELSE tree' = 0 /\ lock' = NoWorker /\ Step(w, "unavailable")
    /\ UNCHANGED <<row, marker, zip, litter, outcome, msgs, rec, api, faults>>

TouchMarker(w) ==
    /\ wk[w].pc = "p_mark"
    /\ marker' = TRUE
    /\ Step(w, "p_commit")
    /\ UNCHANGED <<row, lock, tree, zip, litter, outcome, msgs, rec, api, faults>>

\* _adopt_ready
AdoptMarker(w) ==
    /\ wk[w].pc = "p_adopt"
    /\ IF marker THEN Step(w, "p_commit") /\ UNCHANGED lock
                 ELSE lock' = NoWorker /\ Step(w, "return")
    /\ UNCHANGED <<row, files, outcome, msgs, rec, api, faults>>

CommitReady(w) ==
    /\ wk[w].pc = "p_commit"
    /\ source' = "ready"
    /\ lock' = NoWorker
    /\ wk' = [wk EXCEPT ![w].pc = "dropzip", ![w].temp = FALSE]
    /\ UNCHANGED <<status, gen, stale, files, outcome, msgs, rec, api, faults>>

\* Where a worker runs _acquire_source_index.
Preparing == {"acquire", "fetch", "lock_fresh", "lock_ready",
              "p_move", "p_mark", "p_adopt", "p_commit"}

\* Any exception of the acquisition, of the row lock or of the publication and its
\* commit is a source failure: the transaction is rolled back, the private
\* directory removed, and the analysis goes on without its source.  What was moved
\* or touched by then stays, and a rename may fail after the older tree was set
\* aside.
PreparationFails(w) ==
    /\ wk[w].pc \in Preparing
    /\ MayFail("source")
    /\ tree' \in {tree} \cup (IF wk[w].pc = "p_move" /\ ~marker THEN {0} ELSE {})
    /\ lock' = IF lock = w THEN NoWorker ELSE lock
    /\ wk' = [wk EXCEPT ![w].pc = "unavailable", ![w].temp = FALSE]
    /\ UNCHANGED <<row, marker, zip, litter, outcome, msgs, rec, api>>

\* _remove_staged_zip_after_ready, and the removal of the archive of a source that
\* turned out unavailable
RemoveStagedZip(w) ==
    /\ wk[w].pc \in {"dropzip", "r_dropzip"}
    /\ RemoveZip
    /\ Step(w, IF wk[w].pc = "dropzip" THEN "return" ELSE "r_commit")
    /\ UNCHANGED <<row, lock, tree, marker, litter, outcome, msgs, rec, api, faults>>

\* _record_optional_source_failure: the UPDATE, fenced, then the files
RecordUnavailable(w) ==
    /\ wk[w].pc = "unavailable" /\ Unlocked
    /\ IF Mine(Own(w))
       THEN /\ source' = "unavailable"
            /\ wk' = [wk EXCEPT ![w].pc = "clean_tree", ![w].temp = FALSE, ![w].next = "return"]
       ELSE wk' = [wk EXCEPT ![w].pc = "return", ![w].temp = FALSE] /\ UNCHANGED source
    /\ UNCHANGED <<status, gen, stale, lock, files, outcome, msgs, rec, api, faults>>

\* The chain goes on to the chord whatever a preparation that returned found.
FinishPrepare(w) ==
    /\ wk[w].pc = "return"
    /\ queue' = queue \cup {Rest(Own(w))}
    /\ Stop(w)
    /\ UNCHANGED <<row, lock, files, outcome, retrying, rec, api, faults>>

-----------------------------------------------------------------------------
(* The diagnostics                                                         *)

\* _process_artifact_task reads the row and writes the heartbeat.
StartRest(w, m) ==
    /\ wk[w].pc = "idle" /\ Unlocked
    /\ m \in queue /\ m.task = "rest"
    /\ queue' = queue \ {m}
    /\ IF Mine(m.gen)
       THEN /\ stale' = FALSE
            /\ wk' = [wk EXCEPT ![w] = [Idle EXCEPT !.msg = m, !.pc = "r_load", !.saw = source]]
       ELSE UNCHANGED <<stale, wk>>
    /\ UNCHANGED <<status, gen, source, lock, files, outcome, retrying, rec, api, faults>>

\* _load_ready_source_index_for_artifact: a marker without a tree gives the index
\* of a directory that is empty; an exception gives no index.
LoadIndex(w) ==
    /\ wk[w].pc = "r_load"
    /\ \/ wk[w].saw # "ready" /\ Step(w, "r_commit") /\ UNCHANGED faults
       \/ /\ wk[w].saw = "ready" /\ marker
          /\ wk' = [wk EXCEPT ![w].pc = "r_commit",
                              ![w].saw = IF tree # 0 THEN "whole" ELSE "hollow"]
          /\ UNCHANGED faults
       \/ /\ wk[w].saw = "ready"
          /\ wk' = [wk EXCEPT ![w].pc = "r_lost", ![w].saw = "none"]
          /\ IF marker THEN MayFail("source") ELSE UNCHANGED faults
    /\ UNCHANGED <<row, lock, files, outcome, msgs, rec, api>>

\* A published tree that cannot be loaded: the source is unavailable.  The tree and
\* the marker are kept, the staged ZIP goes.
RecordUnloadable(w) ==
    /\ wk[w].pc = "r_lost" /\ Unlocked
    /\ IF Mine(Own(w)) THEN source' = "unavailable" /\ Step(w, "r_dropzip")
                       ELSE Step(w, "r_commit") /\ UNCHANGED source
    /\ UNCHANGED <<status, gen, stale, lock, files, outcome, msgs, rec, api, faults>>

\* The finalizer's commit; the result was matched against what was loaded.
Complete(w) ==
    /\ wk[w].pc = "r_commit" /\ Unlocked
    /\ IF Mine(Own(w))
       THEN status' = "completed" /\ outcome' = wk[w].saw /\ Step(w, "clean_tree")
       ELSE Stop(w) /\ UNCHANGED <<status, outcome>>
    /\ UNCHANGED <<gen, source, stale, lock, files, msgs, rec, api, faults>>

-----------------------------------------------------------------------------
(* Failure, cleanup, loss                                                  *)

\* An exception outside the acquisition, the loading and the cleanups, which handle
\* their own: the transaction is rolled back and the analysis marked failed.  The
\* chain stops.
TaskFails(w) ==
    /\ wk[w].pc \in {"claim", "recheck", "adopt", "readopt", "beat", "unavailable",
                    "r_lost", "r_commit"}
    /\ Unlocked
    /\ MayFail("exception")
    /\ IF status \in Active /\ gen = Own(w)
       THEN status' = "failed" /\ Step(w, "clean_tree")
       ELSE Stop(w) /\ UNCHANGED status
    /\ UNCHANGED <<gen, source, stale, lock, files, outcome, msgs, rec, api>>

\* cleanup_prepared_source removes the tree first,
CleanTree(w) ==
    /\ wk[w].pc = "clean_tree"
    /\ tree' = 0
    /\ Step(w, "clean_rest")
    /\ UNCHANGED <<row, lock, marker, zip, litter, outcome, msgs, rec, api, faults>>

\* then the marker and every private directory; the staged ZIP goes last.
CleanRest(w) ==
    /\ wk[w].pc = "clean_rest"
    /\ marker' = FALSE /\ RemoveZip /\ litter' = {}
    /\ wk' = [v \in Workers |->
                IF v # w THEN [wk[v] EXCEPT !.temp = FALSE]
                ELSE IF wk[w].next = "return" THEN [wk[w] EXCEPT !.pc = "return"] ELSE Idle]
    /\ UNCHANGED <<row, lock, tree, outcome, msgs, rec, api, faults>>

\* A lost worker leaves its private directory, and its transaction is rolled back.
LoseWorker(w) ==
    /\ wk[w].pc # "idle"
    /\ MayFail("crash")
    /\ lock' = IF lock = w THEN NoWorker ELSE lock
    /\ litter' = IF wk[w].temp THEN litter \cup {Own(w)} ELSE litter
    /\ queue' = queue \cup {wk[w].msg}
    /\ Stop(w)
    /\ UNCHANGED <<row, tree, marker, zip, outcome, retrying, rec, api>>

Redeliver(w) ==
    /\ wk[w].pc # "idle" /\ wk[w].msg \notin queue
    /\ MayFail("redeliver")
    /\ queue' = queue \cup {wk[w].msg}
    /\ UNCHANGED <<row, lock, files, outcome, retrying, wk, rec, api>>

WakeRetry ==
    /\ \E m \in retrying : queue' = queue \cup {m} /\ retrying' = retrying \ {m}
    /\ UNCHANGED <<row, lock, files, outcome, wk, rec, api, faults>>

-----------------------------------------------------------------------------
(* Cancellation and recovery                                               *)

CancelAnalysis ==
    /\ api = "idle" /\ status \in Active /\ Unlocked
    /\ status' = "cancelled"
    /\ api' = "clean_tree"
    /\ UNCHANGED <<gen, source, stale, lock, files, outcome, msgs, wk, rec, faults>>

CancelCleansTree ==
    /\ api = "clean_tree"
    /\ tree' = 0
    /\ api' = "clean_rest"
    /\ UNCHANGED <<row, lock, marker, zip, litter, outcome, msgs, wk, rec, faults>>

CancelCleansRest ==
    /\ api = "clean_rest"
    /\ marker' = FALSE /\ RemoveZip /\ litter' = {}
    /\ wk' = [v \in Workers |-> [wk[v] EXCEPT !.temp = FALSE]]
    /\ api' = "idle"
    /\ UNCHANGED <<row, lock, tree, outcome, msgs, rec, faults>>

\* The candidates query reads the generation and the source status.
ScanStale ==
    /\ rec.at = "idle" /\ status = "processing" /\ stale
    /\ rec' = [at |-> "scanned", gen |-> gen, source |-> source]
    /\ UNCHANGED <<row, lock, files, outcome, msgs, wk, api, faults>>

\* Mutant: the demotion does not reset the source.
MutSourceKept(seen) == source

\* What the demotion sets source_status to, from what the scan saw of it.
DemotedSource(seen) == IF seen = "preparing" THEN "none" ELSE source

DemoteStale ==
    /\ rec.at = "scanned" /\ Unlocked
    /\ IF status = "processing" /\ stale
       THEN /\ status' = "pending" /\ stale' = FALSE
            /\ source' = DemotedSource(rec.source)
            /\ rec' = [rec EXCEPT !.at = "demoted"]
       ELSE rec' = NoScan /\ UNCHANGED <<status, source, stale>>
    /\ UNCHANGED <<gen, lock, files, outcome, msgs, wk, api, faults>>

\* After the commit: the private directories of the demoted generation, then
\* process_analysis.delay.
RedispatchDemoted ==
    /\ rec.at = "demoted"
    /\ IF rec.source = "preparing"
       THEN litter' = litter \ {rec.gen} /\ wk' = DropTemps(wk, rec.gen)
       ELSE UNCHANGED <<litter, wk>>
    /\ queue' = queue \cup {ProcessMsg}
    /\ rec' = NoScan
    /\ UNCHANGED <<row, lock, tree, marker, zip, outcome, retrying, api, faults>>

\* _claim_stale_pending and its redispatch
RedispatchPending ==
    /\ rec.at = "idle" /\ status = "pending" /\ stale
    /\ stale' = FALSE
    /\ queue' = queue \cup {ProcessMsg}
    /\ UNCHANGED <<status, gen, source, lock, files, outcome, retrying, wk, rec, api, faults>>

Tick ==
    /\ status \in Active /\ ~stale /\ rec.at = "idle"
    /\ PromptWorkers => queue = {} /\ \A w \in Workers : wk[w].pc = "idle"
    /\ stale' = TRUE
    /\ UNCHANGED <<status, gen, source, lock, files, outcome, msgs, wk, rec, api, faults>>

-----------------------------------------------------------------------------
(* The specification                                                       *)

Init ==
    /\ status = "pending" /\ gen = 0 /\ source = "none" /\ stale = FALSE
    /\ lock = NoWorker
    /\ tree = 0 /\ marker = FALSE /\ zip \in {"none", "staged"} /\ litter = {}
    /\ outcome = "none"
    /\ queue = {ProcessMsg} /\ retrying = {}
    /\ wk = [w \in Workers |-> Idle]
    /\ rec = NoScan /\ api = "idle"
    /\ faults = FaultLimit

PrepareStep(w) ==
    \/ \E m \in queue : StartPrepare(w, m)
    \/ ClaimPreparing(w) \/ Recheck(w) \/ RetryPrepare(w) \/ LoadReady(w) \/ AdoptReady(w)
    \/ Beat(w) \/ Acquire(w) \/ Fetch(w) \/ LockRow(w) \/ MoveTree(w) \/ TouchMarker(w)
    \/ AdoptMarker(w) \/ CommitReady(w) \/ RemoveStagedZip(w) \/ RecordUnavailable(w)
    \/ FinishPrepare(w)

WorkerStep(w) ==
    \/ ProcessAnalysis(w) \/ PrepareStep(w)
    \/ \E m \in queue : StartRest(w, m)
    \/ LoadIndex(w) \/ RecordUnloadable(w) \/ Complete(w)
    \/ CleanTree(w) \/ CleanRest(w)

Recover == ScanStale \/ DemoteStale \/ RedispatchDemoted \/ RedispatchPending

Next ==
    \/ \E w \in Workers : WorkerStep(w)
    \/ \E w \in Workers : PreparationFails(w) \/ TaskFails(w) \/ LoseWorker(w) \/ Redeliver(w)
    \/ CancelAnalysis \/ CancelCleansTree \/ CancelCleansRest
    \/ WakeRetry \/ Recover \/ Tick

Spec == Init /\ [][Next]_vars

-----------------------------------------------------------------------------
(* Properties                                                              *)

\* The shape of every variable; the row is locked only by a worker that publishes.
TypeOK ==
    /\ status \in Active \cup Terminal /\ gen \in 0 .. MaxGen /\ source \in Sources
    /\ stale \in BOOLEAN /\ lock \in Workers \cup {NoWorker}
    /\ tree \in 0 .. MaxGen /\ marker \in BOOLEAN /\ zip \in Zips /\ litter \subseteq Gens
    /\ outcome \in Sources \cup {"whole", "hollow"}
    /\ queue \subseteq Message /\ retrying \subseteq Message
    /\ wk \in [Workers -> Worker]
    /\ lock # NoWorker => wk[lock].pc \in {"p_move", "p_mark", "p_adopt", "p_commit"}
    /\ rec \in [at : {"idle", "scanned", "demoted"}, gen : 0 .. MaxGen, source : Sources]
    /\ api \in {"idle", "clean_tree", "clean_rest"} /\ faults \in 0 .. FaultLimit

\* While the analysis lives and its source has not failed, a marker stands beside
\* a whole tree, and a source that is "ready" has both: an interrupted
\* publication never passes for a complete one (_publish_prepared).
ReadyIsWhole ==
    status \in Active =>
        /\ marker /\ source # "unavailable" => tree # 0
        /\ source = "ready" => marker

\* The staged ZIP is there as long as the tree may have to be unpacked from it:
\* it goes only after a durable "ready" (_remove_staged_zip_after_ready).
ZipWhileNeeded ==
    status \in Active /\ source \in {"none", "preparing"} /\ ~marker => zip # "removed"

\* A completed analysis that reports its source "ready" was matched against the
\* whole tree, not against nothing (_load_ready_source_index_for_artifact).
OutcomeIsTrue ==
    status = "completed" /\ source = "ready" => outcome = "whole"

\* What is left of a source can be used, wherever its preparation was interrupted:
\* the three together (source_archive.py:262, tasks/analysis.py:603).
SourceIsReadable == TypeOK /\ ReadyIsWhole /\ ZipWhileNeeded /\ OutcomeIsTrue

\* A tree is published only by the current generation of an analysis that is
\* processing, however long ago the worker checked (test_source_publication_guard_
\* rejects_superseded_generation).
SourceOfOwner ==
    [][tree' \notin {0, tree} => tree' = gen /\ Mine(gen) /\ source = "preparing"]_vars

\* Whatever ends an analysis, and whatever was being prepared then, its tree,
\* marker, private directories and staged ZIP are all removed
\* (cleanup_prepared_source, cleanup_staged_source).
SourceFilesGo ==
    status \in Terminal ~>
        (tree = 0 /\ ~marker /\ zip # "staged" /\ litter = {} /\ \A w \in Workers : ~wk[w].temp)

\* A worker of a superseded generation removes nothing the current one has
\* published (test_g2_published_without_ready_marker_cannot_be_touched_by_stale_g1).
StaleTouchesNothing ==
    [][\A w \in Workers :
        wk'[w] # wk[w] /\ status \in Active /\ Own(w) # gen /\ Own(w) # 0 /\ tree = gen
        => UNCHANGED <<tree, marker>>]_vars

=============================================================================
