# Devflo in TLA+

Devflo takes diagnostic files (logs, traces, screenshots) and, optionally, the
source code they belong to, extracts evidence from them in Celery workers,
correlates it, has Gemini explain it, and shows the result. This directory holds
TLA+ models of the parts of it in which the order of events matters and of the
algorithms in between, the TLC configurations that check them, and proofs of the
theorems that matter most.

Line numbers below are those of `backend/app/tasks/analysis.py` unless another
file is named.

## 1. Inventory

| component | state | operations | what makes it hard | correct when |
|---|---|---|---|---|
| Analysis pipeline (`tasks/analysis.py`) | `Analysis` row (status, generation, heartbeat, finalization claim, result), `AnalysisArtifact` rows (status, checkpoint, fallback), evidence table, uploaded files, broker messages | `process_analysis`, `_process_artifact_task`, `_finalize_analysis_task`, cancel, fail, `recover_stale_analyses` | several workers per analysis, `acks_late` redelivery, lost workers, cancellation at any moment, recovery that demotes workers which are only slow | each batch is stored once, claims exclude each other, the result holds all the evidence, an outcome is final and leaves no residue |
| Source preparation (`tasks/analysis.py`, `services/source_archive.py`) | `source_status`, a directory tree, a `.ready` marker, private directories, the staged ZIP | claim, fetch, publish under the row lock, adopt, record as unavailable, clean | the file system and the database change in turn; duplicates wait for an owner that may be gone | what is published is whole and of the current generation, and goes with the analysis |
| Admission (`crud/analysis.py`, `api/analysis.py`) | active analyses per user, staged uploads | upload, create, enqueue | a limit counted under a row lock, cleanup on every failure before the commit and none after it | the limit holds; files are kept for what was admitted and nothing else |
| Live page (`analysis_stream.py`, `analysis_events.py`, `AnalysisPage.jsx`) | Redis channel, one event stream, the page's timers and requests | subscribe, snapshot, forward, reconnect, poll, cancel | lossy events, snapshots older than events, callbacks after unmount | what is shown is true, does not go back, and comes in the end |
| Accounts (`api/auth.py`, `core/security.py`) | `token_version`, `is_verified`, issued tokens | register, verify, log in, refresh, reset, delete stale users | two requests with the same link, a token checked before and used after a reset | a token belongs to its account and password; a verified account stays |
| Browser session (`client.js`, `AuthContext.jsx`) | refresh in flight, session epoch, pending logout | request, refresh, log in, log out | responses of an old session that arrive in a new one | the tab shows whose session it has; a logout holds |
| Upload lock and router (`useRouter.js`, `App.jsx`) | the browser's history, critical operation, a correction under way | navigate, block, hand off | navigation while an upload runs | the upload's page stays; nothing is written over in the history |
| History list (`AppShell.jsx`, `api/analysis.py`) | pages of the list, live statuses, cancelled ids | load, refresh, load more, settle, cancel | answers that overtake each other | the list is whole, and an ended analysis stays ended |
| Request body limit (`request_body_limit.py`) | bytes counted, response started | receive, send | rejecting after the answer began | one response; what is accepted was counted |
| Batching and evidence store (`batch_processor.py`, `identity_persister.py`, `evidence_store.py`) | batch, identity cache, evidence rows | cut, resolve identities, merge | the same identity in two batches | where the batches are cut changes nothing |
| Correlation engine (`correlation_engine.py`) | relations, a causal graph, groups | relate, break cycles, group, rank | rules that overlap, orders that must not matter | one relation per pair, no cycle, nothing dropped in vain |
| Investigation context (`investigation_context.py`, `fallback_context.py`, `investigation_router.py`) | rows selected under limits, a context cut to its budget | select, choose the group, cut | budgets at their boundary | the best is kept, and what was cut is told |
| Source index (`source_index.py`) | an index built once | look up | a sequential lookup | not modelled |
| Gemini client (`gemini_service.py`) | attempts | retry, parse | the answers of a service | not modelled |
| Artifact detection, parsers, adapters, OCR | none that outlives a call | text in, events out | | not modelled |
| Database access and migrations, e-mail, views, scripts | configuration, an external service, layout, tools | | | not modelled |

Interactions: the API commits a `pending` row and sends `process_analysis`; that
task claims the row with the next *generation* and publishes
`chain(prepare source, chord(artifact tasks, finalizer))`; every later commit is
fenced by `status = 'processing'` and that generation. Cancellation and failure
end the analysis in one transaction that also clears its data, then delete
files. Every minute `recover_stale_analyses` returns analyses whose heartbeat is
old to `pending` and sends `process_analysis` again. Events are published after
commits and may be lost; the page polls. An artifact task cuts its events into
batches and merges each into the evidence table; the finalizer selects rows,
correlates them, cuts a context for Gemini, and commits what it explains.

`PROJECT.json` lists what can go wrong and no test reaches ("hazards"), each with
its line and the properties that would show it.

## 2. Modules

| module | models |
|---|---|
| `AnalysisLifecycle` | what an analysis promises: begin, give up, complete at most once with the evidence of each artifact whole or not at all, abandon |
| `AnalysisPipeline` | the tasks of one analysis without source, with the broker, lost and slow workers, cancellation, recovery |
| `SourcePreparation` | the source of one analysis, its files, and the demotion that resets it |
| `Admission` | the uploads of one user, up to the committed analysis and what is done after the commit |
| `LivePage` | one mount of the investigation page, its requests and event stream, and the row it watches |
| `Accounts` | the requests of registration, verification, login, refresh, reset and cleanup |
| `BrowserSession` | one browser tab: its calls, cookies, the shared refresh, login and logout |
| `UploadNavigation` | the browser's history, the router and the lock of an upload |
| `HistoryList` | the list of analyses beside every page |
| `RequestBodyLimit` | one body that passes the limit, or does not |
| `ServerRequests` | `Admission`, `Accounts` and `RequestBodyLimit`: what requests do at the same time |
| `BrowserTab` | `BrowserSession` and `HistoryList`: what a tab keeps of the server |
| `EvidenceStore` | events cut into batches and merged into rows (`EvidenceEvents`: the events of its instance) |
| `EvidenceSelection` | the choice of rows under limits (`SelectionRows`: the rows of its instance) |
| `Correlation` | relations, groups and ranking of rows (`CorrelationRows`: the families of its instance) |
| `DagSelection`, `CausalGraph` | the choice of an acyclic set of edges, and the walk of `would_create_cycle` that implements it |
| `LlmContext` | the group that is told, and the cut to the budget (`ContextShapes`: the shapes of its instance) |
| `PrefixSearch` | the search for the longest prefix that fits |
| `AnalysisPipelineProofs`, `PipelineEvidenceProofs` | theorems about `AnalysisPipeline` |
| `SourcePreparationProofs`, `ServerRequestsProofs`, `BrowserTabProofs`, `LivePageProofs`, `UploadNavigationProofs` | theorems about the module of that name |
| `Investigation` | `EvidenceSelection`, `CausalGraph`, `LlmContext` and `PrefixSearch`: algorithms that are proved about |
| `InvestigationProofs` | theorems about `Investigation` |
| `MCPipelineCrash`, `MCTasksSlow`, `MCTasksEnd`, `MCSource`, `MCRequests`, `MCBrowserTab`, `MCLivePage`, `MCPages`, `MCInvestigation` | small instances for TLC of what should hold |
| `MCAnalysisPipeline`, `MCSourcePreparation`, `MCUploadNavigation` | instances that reach the findings |

How they join: `Admission` ends with a committed `pending` row, which is where
`AnalysisPipeline` and `SourcePreparation` begin; `AnalysisPipeline` implements
`AnalysisLifecycle`; `LivePage` and `HistoryList` take from that abstract
specification what may happen to the rows they watch; and the walk of `CausalGraph`
implements `DagSelection`, which is how `Correlation` takes it.

`ServerRequests`, `BrowserTab`, `Investigation` and several MC modules hold more than
one specification. Each behaviour is one of a single `part`: the specifications share no
variable, so interleaving them would only multiply states. The module extends one
of them and instantiates the others, whose variables rest at their beginning or at
0. `ServerRequests`, `BrowserTab` and `Investigation` do so for all values of their
constants, which is what their theorems are about; their MC modules add small values,
and `MCInvestigation` the other algorithms.

## 3. The pipeline

A database transaction that locks the analysis row is one action. A read in one
transaction followed by a write in another, or a file touched after a commit, are
two actions, with everything else possible in between. Every action names the
function it translates; `PROJECT.json` gives its lines.

* `queue` is a set of messages: a message that is redelivered while an equal one
  waits is delivered once. The `gen` of a `process` message exists only in the
  model (the task has no such argument); it keeps apart messages that were sent
  after different claims.
* `chords` counts the parts of a chord that came back, which is how Celery's Redis
  back end decides to send the callback; a part that is redelivered may count
  twice. A part that raises makes the callback fail.
* `age` has three classes: fresh, older than 300 s, older than 30 min. `Tick` is
  time; a scan fixes its cutoffs when it starts, so `Tick` waits for it.
* `evid[a][b]` counts how often batch `b` of artifact `a` is stored. `done` is the
  checkpoint, in batches. Images have none (1944).
* "skipped" stands for unsupported and duplicate artifacts, "controlled" for
  resource limits and processing errors.
* Two reads of one transaction see one snapshot (MySQL, REPEATABLE READ, the
  default of the engine in `db/database.py`). `StuckImages` is therefore evaluated
  in `ScanStale`, and used in `ClaimStale`.
* Faults are bounded by `FaultLimit`: `crash` (a worker is lost, its message comes
  back), `redeliver` (visibility timeout), `exception`, `publish` (broker),
  `heartbeat` (a write that fails and is then throttled).
* Abstracted: the identity rows, telemetry, percentages, the content of the
  result; the tree and the ZIP of an attached source (next section); the files of
  an analysis are removed in one action.

## 4. Source preparation

One analysis with a staged ZIP or a repository URL (`zip = "none"` is a repository). The diagnostics after it are
one task, which reads `source_status`, loads the index and completes. A worker
that publishes holds the row lock over several actions (`lock`): the tree is
moved, the marker touched, `ready` committed, and a worker may be lost, or files
removed by somebody who needs no lock, in between. Claim and publication of
`process_analysis` are one action here; its races are in the pipeline.

An exception anywhere between the acquisition and the commit of the publication is
a failure of the source (`PreparationFails`): the transaction is rolled back, what
was renamed or touched by then stays, and the worker goes on to record "unavailable"
and to clean up, with no lock held in between. Loading a tree that is marked ready
may fail too: the waiting delivery retries (`RetryPrepare`), the diagnostics record
the source as unavailable and keep its tree (`LoadIndex`, `RecordUnloadable`).

A private directory is either there or not. When it is removed under an
extraction, the extraction fails or makes it again (`Fetch`); that the tree is
then incomplete is not distinguished, because it needs the same late cleanup as
the finding below.

## 5. Admission

The requests of one user run side by side in server threads. A handler's local
variables are `req[r]`; its `pc` is the step it is about to take.

* Every request reads the number of active analyses before it stages anything
  (`CheckCapacity`), and that read opens its transaction. Under REPEATABLE READ a
  later plain read would see the same snapshot (`seen`); the code counts again
  with `FOR UPDATE`, which reads what is committed (`Counted`), after it has
  locked the row of the user (`LockUser`). The lock is held up to the commit or
  the rollback.
* A file is `<<request, position>>`, position 0 being the source ZIP. A path enters
  `staged_paths` before its copy begins, so a copy that breaks off is removed.
  A copy, its inspection, and the removal of an unsupported file are one action:
  only this request knows the name.
* Contents are model values. Two files with one content may be of different
  kinds, as names may differ. Everything that may refuse a file (its size, the
  number of images, an image that cannot be read, a failing disk) is one
  nondeterministic branch.
* `Conclude` stands for the end of an analysis and the removal of its files,
  whoever causes it; `Enqueue` for the message that starts the pipeline, which may
  be lost and is then sent by recovery.

## 6. The live page

Five variables: the row; the workers' events; two event sources; the effect of
`AnalysisPage.jsx` with its view; the cancel request.

* `page.calls` holds the three kinds of detail request, each idle, a timer, sent,
  answered or failed. An answer carries the state read when it was served (`Serve`),
  which may be old when it arrives. `page.inFlight` is `requestInFlight`.
* Each closure of the effect (`finishWithResult`, `applyDurableState`,
  `scheduleReconnect`, ...) is an operator from page to page, so that an action is
  their composition in the order of the code. `Follow` then opens and closes the
  event sources the new page no longer has, or has now.
* A stream is subscribed, then reads the row (`Snapshot`), then forwards the
  events Redis gave it since the subscription, dropping a progress below the one
  it last sent. Two event sources exist so that one which is not closed would be
  seen beside the next.
* Lost: an event (workers die between commit and publication, Redis is down), a
  stream with or without what was on its way, a detail or cancel request before
  or after it was served.
* Abstracted: artifact outcomes, texts and the label of the connection, which are
  only displayed; progress is 0..`Top` where `Top` is 99.
* `Unmount` ends a mount. `TryAgain` is the button of the error view; it starts
  the effect anew.

## 7. Requests, the browser, and the algorithms

**Accounts.** Each request is a sequence of reads and transactions with the
variables of its handler in `req[r]`, so what it read may be stale. Of a token the
model keeps what the code signs; the account and the password it was issued for
are written beside it for the properties only.

**Browser session.** One tab. The epoch and the request counters of the code are
compared for equality only, and are the flags `cur` and `latest` of a call. The
login page waits for the answer of its login and for the end of a logout, and the
pages call only while the session is authenticated, as in the code. Two gaps are
recorded in history variables and excluded from the properties they would break:
`overtaken` (a verification poll whose page was left, or a refresh sent before a
login, replaces newer cookies with its own) and a poll that crosses a logout
(`loggedOut` is not set then).

**Upload navigation.** The browser performs traversals one after another, relative
to the entry it is on, as the HTML standard says, and tells the page afterwards.
All entries carry the router's index: the tab has none before the app's first. The
effect of a lock that is taken runs with the click, that of one that is released
later. `home` and `checked` are history variables. Signing in again after an
expiry, and buttons with a router instance of their own, are left out. A check of
the session whose answer is dropped because of an expiry counts as a check in
`NoStaleTakeover`.

**History list.** Analyses are created in the order of their ids. The open page has
heard of one status at a time (reordering is the subject of `LivePage`). Rows put in
order (`Newest`) and lists filtered (`Among`) are said to be numbers in their order
(`Sorted`), without a recursion, so that they can be proved about.

**Request body limit.** A body is the sequence of the offsets at which its messages
end, so that the length of a message is a difference. The application may read, answer, fail or finish in any
order; an exception of the middleware inside it is answered by its own handler
when no answer has begun.

**Evidence store.** Of events merged in one row, severity, type and sample line stay
those of the first batch; severity depends on where the batches are cut, and
`SplitIrrelevant` does not claim otherwise. `service` stands for all columns merged
by COALESCE, a tuple for the hash of a correlation key. Losing the analysis to a
newer generation is `current` becoming false.

**Evidence selection.** Scores are in fixed point. The
penalty for an artifact that has rows already may outweigh any priority when there
are thousands of rows; that is the code's choice. Keysets are unique
(`SelectionAssumption`): the lines of an artifact begin at its position times 10^9
(`_GLOBAL_LINE_NUMBER_STRIDE`, `tasks/analysis.py:82`), and a line has one event. The
bytes of some rows are counted, which is the sum of their sizes and can be reasoned
about without recursion. An order is given by a function from rows to keys.

**Correlation.** One action per function that `run_correlation` calls; the loop of
`enforce_dag` is one action per edge, in the code's order. Weights are abstracted
to the order they give.

**Causal graph.** `CausalGraph` walks the graph node by node as
`would_create_cycle` does, from any set of edges and any times.

**Context and prefix search.** A list is the sequence of the sizes of its prefixes,
commas included, so that the size of a cut is looked up and no sum is taken. Texts
that no parser could structure are taken one by one (`TakeText`, `SkipText`), in the
order they have. Of groups that tie in everything any may be told. The budget does not count the causal instruction that the last step may
add, nor does the code. `PrefixSearch` is the search by itself, one probe per
action.

## 8. Runs

| run | what it asks | bounds |
|---|---|---|
| `pipeline_crash` | exactly-once evidence, exclusive claims, a current result, files that are needed, refinement of the lifecycle | part `image`: a text and an image, 2 workers, 3 claims, one retry, any 2 of lost worker, redelivery, exception. Part `texts`: two texts, 2 claims, one failed publication |
| `tasks_slow` | what demoted but living workers may do, and what a terminal outcome leaves | a text of 2 batches and an image, one of which is skipped in each part, 2 workers, 2 claims, time passes while workers run; the text with 1 fault (lost worker, heartbeat, exception), the image with 1 lost worker |
| `tasks_end` | every analysis ends, and nothing of its source stays on disk | a text and an image, 4 claims, 1 fault (lost worker, exception, publication); a source, 2 claims, 1 fault (failing source, redelivery, exception), slow workers |
| `source` | what is published is whole and current; a delivery that waits for nobody does not keep the analysis for ever | ZIP and repository; part `prompt`: 3 claims, 2 faults (lost worker, failing source, publication, exception); part `slow`: 2 claims, 1 fault (lost worker, redelivery, exception), time passes while workers run |
| `requests` | the limit, the files and the tokens of requests that run together; one judgement of a body | uploads: 2 requests, 1 place, 2 files and a source each, 1 image, 2 contents. Accounts: 2 requests, 1 address, 2 passwords, 2 accounts ever, 2 resets, clock to 3. Body: up to 3 messages of 1–3 bytes around a limit of 4, declared as 0, 3, 4, 5 or not at all |
| `browser_tab` | whose session is shown, that a logout holds, that the list is true | session: 2 accounts, 2 calls. List: 2 analyses, 1 per page, 1 opened, 3 requests |
| `page_safety` | what the page shows is true and does not go back; it neither stops watching too early nor keeps anything too late | progress 0..2, 2 progress events, 1 demotion |
| `pages` | the page of an upload stays and the history is not cut; a live page comes to show the outcome | part `upload`: entries a, b, New, a on the third; 2 gestures, 1 click, 2 uploads. Part `watch`: progress 0..1, no event, 1 demotion |
| `investigation` | each algorithm against what it should give | graph: 3 nodes, 2 times or none. Store: 3 events of 8 kinds, batches of 2 or 4 bytes and 1 or 2 items, a second artifact with at most one event. Selection: tables of six rows, 1, 4 or 6 records, 3, 6 or 20 bytes, batches of 3. Correlation: families of 3 and 4 rows, about 3,900 sets. Context: five nodes in up to three groups, budget 5, fallback 3. Search: 7 items of size 0..4, budget 2 |
| `pipeline_image_file` | finding | |
| `source_stale_cleanup` | finding | |
| `upload_chase` | finding | entries a, b, New, a, b on the third; 2 gestures, 1 upload |

Why these bounds. Two workers suffice for every pair of a stale and a current one;
two claims give a superseded generation, three one that is superseded by a
superseded one. Two requests compete for the one place left, which is all a limit
can be wrong about, and two files give a pair of equal contents of any two kinds.
Two accounts and two calls give a call of one session that is answered in the
other. For the page, progress 0..2 gives an event between two others; its requests
and reconnections are not bounded. Two entries on one side of the upload's let a
second gesture meet a correction under way. Three events are the least in which
two batches meet a row that a third event has made. Where a theorem states the
property (section 9) the bounds matter only for the mutual check of model and
proof.

Two combinations are left out because of the findings, and only those. `pipeline_crash`
has no failed publication together with an image: when half of the messages are
sent, a demotion meanwhile may use a snapshot that misses an image claimed since,
and store its evidence twice (the window of `pipeline_image_file`, 2797). The part
`slow` of `source` has no failing source. Whatever goes wrong in acquiring,
publishing or loading the source (`prepare_source`, its rename, its marker, the
commit of the publication) is recorded as "unavailable", and with a demotion in
progress any such record reaches `source_stale_cleanup`, after which what is
published may be removed. The theorems name the same hypotheses. An exception that
fails the analysis (`TaskFails`) can happen only outside these steps, where the
code has no handler of its own (894).

With `PromptWorkers` a heartbeat ages only while nothing runs or waits, which is
how liveness is asked: the code lets a task be demoted again and again when each
attempt is slower than the cutoff, and no bound of the model would end that.

Deadlock checking is off where a system that has ended, with nothing queued, stops.

### Findings

* `pipeline_image_file`: an image whose OCR fails between the recovery scan's
  first query and its UPDATE is put back to `pending` although its file is gone
  (2797). The next attempt fails the analysis.
* `source_stale_cleanup`: a source failure recorded in the same window is
  forgotten by the demotion (2784); the worker that recorded it then removes the
  tree which the next generation has published (2157).
* `upload_chase`: Back and Forward are "bounced back to the history entry where the
  lock began" (`useRouter.js:46`), but each popstate asks for a relative traversal
  although an earlier one is still to be performed (191). With two entries on both
  sides two gestures leave two corrections that overshoot in turn for ever, and a
  queued navigation is never performed.

### What is stated and does not hold

These definitions state what a comment of the code promises, or what one would
like; TLC refutes each when it is added to a configuration of its module. They are
kept as the record of a disagreement, and no run lists them.

* `EvidenceStore.SourceMatchesKept`: the first source match is kept. A row without
  one holds JSON `null`, which COALESCE takes for a value (`evidence_store.py:231`).
* `BrowserSession.ResolvedMeansAvailable`: a check that was overtaken by its own
  expiry leaves the unavailable flag as it was (`AuthContext.jsx:35`).
* `UploadNavigation.HandoffWithRelease`: with a correction under way the lock is
  released before the queued handoff (`NewInvestigationPage.jsx:229`).
* `HistoryList.ShownNotBehindLive`: a page of the list may show less than the page
  of the analysis has reported (`AppShell.jsx:104`).

### Fairness

`tasks_end` assumes weak fairness of each worker's ordinary steps (a Celery worker
that is up takes and runs tasks), of the request that cancels, of recovery (celery
beat runs it every minute) and of time. Faults and cancellations are never owed.
`source` adds that no message is overtaken for ever (strong fairness of taking a
message: the broker's lists are first in, first out, and a retried message goes to
the back), that a countdown ends, and that time passes.

Part `watch` of `pages` assumes weak fairness of the browser's timers and of the arrival of an
answer or a failure, and strong fairness of the server's answer and of its
arrival: a request which is made again for ever does not always fail. It assumes
nothing of the event stream, of Redis, or of the workers: what brings the outcome
to the page is the check every fifteen seconds.

`upload_chase` assumes that the browser performs what it was asked and that React
runs the effect of a lock that was released; part `upload` of `pages` checks safety
only and assumes nothing.

## 9. Proofs

Every theorem is proved for all values of the constants: any number of artifacts,
batches, workers, claims, retries, requests, files, accounts, calls, bodies, gestures
and events, and every fault unless a hypothesis names one. What is assumed is what
the modules state of their constants: `ArtifactsAssumption`, `BoundsAssumption`,
`SourceAssumption`, `AdmissionAssumption`, `RequestsAssumption` (`AccountsAssumption`
and `BodyAssumption`), `TabAssumption` (`BrowserAssumption` and
`HistoryAssumption`), `LivePageAssumption`, `StartAssumption`, `ResultsAssumption`,
`NoneIsNoEdge` and `InvestigationAssumption` (`SelectionAssumption`,
`ContextAssumption` and `SearchAssumption`). TLC evaluates them.

**Pipeline** (`AnalysisPipelineProofs`).

* `TypeCorrect`: `Spec => []TypeOK`. `TypeOK` is inductive as it stands because it
  also says that a message of an artifact task names an artifact, that a worker
  inside an artifact task holds such a message, and that only images are in the
  snapshot of a demotion; without these `done[a]` and `evid[a]` could be updated
  outside their domain.
* `OutcomeIsFinal`: `Spec => TerminalIsFinal`. Each action that changes the row, the
  evidence or an artifact has a fence that implies an active status.
* `NothingRemains`: `Spec => []NoResidue`. An analysis becomes failed or cancelled
  only through `ClearData`, and from then on `OutcomeIsFinal`'s step applies.

**Pipeline, its evidence** (`PipelineEvidenceProofs`).

* `OneOwnerEach`: `Spec => []OneOwner`. `OwnerInv` adds to `TypeOK` that no worker
  and no message knows a generation that was not claimed yet (`GenerationsKnown`),
  that a finalization claim is of the row's generation (`FinalizationOfRow`), that a
  current worker inside an artifact task is alone with an artifact which is
  `processing`, and stands where its checkpoint is (`ClaimsHold`), and that all
  artifacts have settled when a finalization begins (`FinalizationHolds`). Claims
  exclude each other because the claim changes a status which the next claim
  demands, and what changes it back also makes its worker one of the past.
* `EvidenceOnce`: `Spec => []CheckpointMatchesEvidence`. `EvidenceInv` adds that a
  checkpoint is within its file and at its end when the artifact is completed
  (`CheckpointsHold`), and that a demotion resets images only (`DemotesImages`).
* `ResultCurrent`: `Spec => []ResultIsCurrent`. What the finalizer read outside any
  lock is still what is stored when it commits, because nobody of its generation
  writes any more (`FinalizationHolds`).
* `FilesKept`: `Spec => []FilesWhileNeeded`. `FilesInv` adds that a worker about to
  remove a file does so after the commit that made it useless (`RemovalsAreLate`),
  and that a text which has settled stays settled.
* `OvertakenChangesNothing`: `Spec => StaleWorkerIsHarmless`, by going through what a
  step of one worker may be (`Moves`, `Goes`).
* `ImagesOnce`: `[]ImageEvidenceOnce` when `Faults` has neither `publish` nor
  `heartbeat`. An image has no checkpoint; its evidence is stored once because a
  demotion that resets it has seen it claimed. `ImageInv` says that nothing is ever
  left half published (`NothingUnpublished`), that of a claimed image what its
  worker has read is stored, once (`ImagesHold`), and that of an image claimed since
  the scan nothing is stored as long as the heartbeat is old (`ScanHolds`). A
  publication that fails half way, or a lost heartbeat, opens the window of
  `pipeline_image_file`.
* `PipelineImplementsLifecycle`: `Spec => ImplementsLifecycle`, under the hypothesis
  of `ImagesOnce` unless there are no images. Each step maps to one of
  `AnalysisLifecycle` or to a stutter (`LifecycleStep`).

**Source preparation** (`SourcePreparationProofs`).

* `SourceTypeCorrect`: `Spec => []TypeOK`, with `GenerationsKnown`, and with the fact
  that only a publisher holds the lock.
* `PublishedByOwner`: `Spec => SourceOfOwner`. Between its lock and its commit a
  publisher is of the current generation, and the source is being prepared
  (`PublicationHolds`): nobody else can change the row meanwhile.
* `SourceReadable`: `[]SourceIsReadable` when the source never fails or workers are
  prompt (`"source" \notin Faults \/ PromptWorkers`; with both a failing source and
  slow workers it is false: see `source_stale_cleanup`). `ReadInv` speaks of a source
  that can be used, of an analysis that is alive and has not given it up (`Usable`).
  One delivery owns a preparation (`ClaimHolds`); what recovery demotes is a
  generation of the past when the next one works (`DemotionHolds`); nobody cleans
  what can be used (`CleanHolds`); the tree comes before the marker and the marker
  before all that relies on it (`TreeHolds`); and diagnostics begin when the source
  is ready or given up, and see it so (`DiagnosticsHold`, `ResultHolds`). The two
  hypotheses give one part each. Without failures the owner has its private
  directory until it is published, and nothing is ever given up (`NothingFails`).
  With prompt workers nobody who might give up a source is at work when recovery
  takes its generation for dead, so no failure falls between the scan and the
  demotion (`NothingRaces`). Lemmas say once which action changes what (`FilesMove`,
  `SourceMoves`, `StatusMoves`, `MessagesMove`, `StaleMoves`), that a source given up
  stays so but for a demotion (`GivenUpStays`), and how a task comes to where it is
  (`OneActs`, `Goings`, `Moves`).

**Admission** (`ServerRequestsProofs`).

* `AdmissionTypeCorrect`, and `AdmissionLimit`: `Spec => []LimitHolds`. `LimitHolds` is
  not inductive: a request about to insert could stand where the limit is reached.
  `Guarded` adds that only the holder of the lock is between counting and inserting,
  and that while somebody is about to insert there is room.
* `FilesAreKept`: `Spec => []FilesFollowOutcome`. `FilesInv` says that what a request
  staged is there until its commit, and that after it a file is kept for every
  content. That a content with several files has one which is no duplicate is the
  choice of a least position.

**Accounts** (`ServerRequestsProofs`).

* `TokensStayTrue`: `RequestsSpec => []TokensAreTrue`, and `VerifiedAccountsStay`:
  `RequestsSpec => VerifiedStays`, from `AccountInv`. Rows have numbers of their own,
  given out in order, and a row's version counts its resets (`Numbered`). A token
  (`TokenHolds`), and a handler between two of its steps (`HandlerHolds`), whose local
  variables may be stale, may rely on this much: its account is there and verified
  and once had this version (`Signed`), with this password if the version is still
  the same (`Knows`); or, before the address is verified, the cleanup does not take
  the account until a given time (`SafeUntil`), before which the registration is
  answered (`InTime`) or the hand-off expires. The lock of a row has one holder.

**Request body limit** (`ServerRequestsProofs`). `BodiesAreJudgedOnce`:
`RequestsSpec => []JudgedOnce`. `BodyInv` says that the application is outside, with
nothing counted and no answer begun, or has received what is counted, at most the
limit while it reads.

**Browser session** (`BrowserTabProofs`).

* `LogoutIsLastWord`: `TabSpec => []LogoutHolds`. `LogoutInv` adds that a login and a
  logout exclude each other, and that a refresh ends before the cookies are
  cleared.
* `LateAnswersEndNothing`: `TabSpec => OnlyDeadExpire`. `ExpiryInv` says what a call
  that resumes after the shared refresh may conclude: after a 401 the cookies are
  dead, after a 200 they are good, and a call of this session that was repeated was
  sent with them.
* `OwnerIsAlwaysShown`: `TabSpec => []OwnerIsShown`. `OwnerInv` says that whoever is
  about to be shown (the answer of a latest check, the user that a login or a refresh
  will bring, the user on the screen) agrees with the owner of the cookies, unless
  `overtaken`; `LeavingInv` that during a logout no call disagrees with what the end
  of it will show. `CallsInv` gives the owners of cookies and one latest check.

**History list** (`BrowserTabProofs`).

* `ListStaysTrue`: `TabSpec => []ListIsTrue`, and `EndsAreNotTakenBack`:
  `TabSpec => EndedStaysEnded`, from `ListInv`. Analyses are created in order
  (`InOrder`), and what the tab has heard of an end is true (`HeardIsTrue`). The list
  is in order, shows the ends that were heard of, and misses nothing between what it
  shows and its cursor (`Listing`). A request for the next page is, as long as it is
  the latest, for the page after what is shown; its answer misses nothing that it
  could have held, but what is newer than all of it (`PageHolds`); and what was heard
  of an end since it was asked for makes another request the latest (`Asked`). That
  numbers have an order, and only one, is proved by counting those below each
  (`Ordered`).

**Live page** (`LivePageProofs`).

* `PageTypeCorrect`, by a lemma for each closure of the page.
* `ShownOutcomeIsTrue`: `Spec => []ShownIsTrue`. The inductive invariant `Informed`
  says that whatever speaks of an outcome speaks of the row's, wherever it is:
  unsent at a worker, queued or on the wire of a stream, in an answer, in the
  result of the cancel request, or shown. It is kept because an outcome is the
  last thing that happens to a row.
* `NothingLeftBehind` and `NeverDeaf` (`LeavesNothing`, `StaysWatching`) from
  `PageTidy`: between two callbacks there is at most one request with its flag, one
  event source, a periodic check as long as the page watches, and none of them
  after an outcome. `PageNeverGoesBack`: no closure takes back what is shown.

**Upload navigation** (`UploadNavigationProofs`).

* `NavigationTypeCorrect`, `UploadIsNotTakenOver` (`TakeoversWait`) and `HistoryIsKept`
  (`CommitsAtHome`). The inductive invariant says what the router knows
  (`Protected`): the entry that a lock protects, or a correction aims at, exists,
  is the one on screen and the one of the last navigation; without either, the
  screen shows the entry the browser is on. An index left in `lockedIndexRef`
  after a handoff may name an entry that is gone, and is never used: the proof
  needs that, the small runs do not reach it. `OnScreen` adds that the page of an
  upload is the frozen one, and that an outage which may take over was checked.

**Causal graph** (`InvestigationProofs`). The invariant `Inv` says of the walk of
`would_create_cycle` that it holds all successors of what it has left behind, and
nothing but what the target leads to (`WalkCorrect`). So an edge is kept only when
it closes no cycle; the edges that follow time close none among themselves
(`KeptAcyclic`), and one that is dropped closes a cycle with what is kept for ever
(`DroppedNeedsCycle`). `WalkSelects`: the walk implements `DagSelection`.

**Prefix search** (`InvestigationProofs`). A prefix of the lower bound fits and none
above the upper bound does (`PrefixTyped`, `PrefixIsLongest`).

**Context** (`InvestigationProofs`). `ContextStaysTrue`: `InvestigationSpec =>
[]ContextIsTrue`, from `ContextInv`. The group chosen is one that no other comes before
(`PrimaryHolds`; that finitely many groups have such a one is `LeastElement`, by
counting those below each). While lists are cut, those not yet cut are whole, and
unless the context fits those that were are empty (`Cutting`); the last list that was
cut could not have kept one item more (`NothingWasted`), since `Longest` is a maximum.
The flags agree with the lists before the cuts and after the conclusion (`Flags`).

**Evidence selection** (`InvestigationProofs`). `BestRowsStay`: `InvestigationSpec =>
[]BestRowsKept`, for every table of finitely many rows, all limits and all sizes of a
batch, from `SelectionInv`:

* `Scanned`: what was fetched or scored lies under the cursor, and under the cursor
  every row outside the reserve is fetched or was scored. A batch is empty only when
  nothing lies beyond the cursor, and leaves nothing between itself and its last row
  (`BatchHolds`, `CursorMoves`); the order of keysets is total because they are
  unique. So every row was scored once when the scan ends.
* `Heaped`: the heap holds everything scored until it is full, then nothing left out
  has a higher score than anything in it, and the counts are those of the heap; a
  replacement keeps this also when both rows are of one artifact (`HeapReplaces`).
* `Picking`: a row of the reserve or the heap is selected, still a candidate, or too
  large for the bytes that are left, which only shrink.
* `Round`: there is one `n` such that artifacts whose turn is to come have given `n`
  rows and those that had it `n + 1`; an artifact that is out has given no more than
  that, and has no row left or a next one that does not fit.

`SortedBy` chooses the element with `i - 1` before it. That there is one for every
`i`, and that the result has each element once, is counted in `Ranks` and
`SortedByHolds`.

Only model-checked:

* all liveness: `PipelineEnds`, `SourceFilesGo`, `SourceEnds`, `EventuallyShown`
  (fairness and ENABLED are beyond the prover);
* `EvidenceIsWhole`, `RelationsAreSound` and `GroupsAreSound`: what recursive
  definitions compute is an induction over data. Of the correlation, the walk in the
  graph is proved.

## 10. Not modelled

The components marked so in section 1, for the reason given in `PROJECT.json`. Four
things deserve a word.

* A worker that is lost after it committed a terminal status, and before it deleted
  the files, leaves them for ever: the code has no sweeper, and `SourceFilesGo` is
  asked without lost workers. A server that is lost while it stages an upload leaves
  its files for the same reason.
* A task slower than the heartbeat cutoff in every attempt is demoted in every
  attempt: the code bounds neither.
* A commit is taken to have happened or not, and the server to know which. After a
  commit that succeeds in the database and raises in the server, `upload_file`
  removes the files of an analysis that exists (`crud/analysis.py:142`).
* Percentages, telemetry, texts and formats are left out everywhere; no property is
  about them.
