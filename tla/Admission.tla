------------------------------ MODULE Admission -----------------------------
(***************************************************************************)
(* How one user's investigations are admitted: the capacity check, the     *)
(* staging of the source and the diagnostic files, the transaction that    *)
(* counts again under the lock of the user's row and creates the analysis, *)
(* and what is done after its commit (backend/app/api/analysis.py,         *)
(* crud/analysis.py, services/upload_staging.py).  Several requests of the *)
(* user run at the same time.                                              *)
(*                                                                         *)
(* A file is <<request, position>>; position 0 is the source ZIP.          *)
(***************************************************************************)
EXTENDS Naturals, FiniteSets

CONSTANTS
    Requests,       \* upload requests of the user
    MaxFiles,       \* bound: diagnostic files in a request
    Digests,        \* contents that can be told apart
    Limit,          \* MAX_ACTIVE_ANALYSES_PER_USER
    MaxImages,      \* MAX_OCR_IMAGES_PER_INVESTIGATION
    Nobody, NoDigest

ASSUME AdmissionAssumption ==
    /\ IsFiniteSet(Requests) /\ Nobody \notin Requests /\ NoDigest \notin Digests
    /\ MaxFiles \in Nat \ {0} /\ MaxImages \in Nat /\ Limit \in Nat \ {0}

VARIABLES
    req,        \* req[r]: what the handler of request r holds
    analysis,   \* analysis[r]: none, active or ended, as committed
    lock,       \* the request that holds the row of the user
    disk        \* the files in the upload directory

vars == <<req, analysis, lock, disk>>

Positions == 1..MaxFiles
\* A row has no kind until its file is staged; "foreign" is unsupported.
NoRow     == [kind |-> "none", digest |-> NoDigest, status |-> "none"]

Active == {r \in Requests : analysis[r] = "active"}

FilesOf(r) == {r} \X (0..MaxFiles)

-----------------------------------------------------------------------------
(* The artifact rows of an analysis.                                       *)

Supported(row) == row.kind \in {"text", "image"}
Staged(rows)   == {p \in Positions : rows[p].kind # "none"}

\* canonical_by_digest, and the order in which it is filled: the positions
\* that compete for a digest, of which the first is kept.
Canonical(rows) ==
    [d \in Digests |-> {p \in Staged(rows) : Supported(rows[p]) /\ rows[p].digest = d}]

Duplicates(rows) ==
    {p \in Staged(rows) : /\ Supported(rows[p])
                          /\ \E q \in Canonical(rows)[rows[p].digest] : q < p}

-----------------------------------------------------------------------------
Init ==
    /\ req = [r \in Requests |->
                [pc |-> "new", seen |-> 0, files |-> 0, staged |-> {},
                 source |-> "none", rows |-> [p \in Positions |-> NoRow]]]
    /\ analysis = [r \in Requests |-> "none"]
    /\ lock = Nobody
    /\ disk = {}

Goto(r, pc) == req' = [req EXCEPT ![r].pc = pc]

\* At least one file, and not too many.
Accepted == 1..MaxFiles

\* _require_analysis_capacity, and the checks of the form.  The read opens the
\* transaction of the request, whose snapshot it is from now on.
CheckCapacity(r) ==
    /\ req[r].pc = "new"
    /\ IF Cardinality(Active) < Limit
       THEN \E n \in Accepted :
              req' = [req EXCEPT ![r].pc = "source", ![r].files = n,
                                 ![r].seen = Cardinality(Active)]
       ELSE Goto(r, "refused")
    /\ UNCHANGED <<analysis, lock, disk>>

\* The source: none, a repository whose URL may be wrong, or a ZIP that is
\* copied and may then be refused.  A bad source does not refuse the request.
StageSource(r) ==
    LET zip == <<r, 0>> IN
    /\ req[r].pc = "source"
    /\ \/ \E s \in {"none", "github", "unavailable"} :
            /\ req' = [req EXCEPT ![r].pc = "files", ![r].source = s]
            /\ UNCHANGED disk
       \/ /\ req' = [req EXCEPT ![r].pc = "files", ![r].source = "zip", ![r].staged = {zip}]
          /\ disk' = disk \cup {zip}
       \/ /\ req' = [req EXCEPT ![r].pc = "files", ![r].source = "unavailable",
                                ![r].staged = {zip}]
          /\ disk' = disk \ {zip}
       \/ /\ req' = [req EXCEPT ![r].pc = "reject", ![r].staged = {zip}]
          /\ disk' = disk \cup {zip}
    /\ UNCHANGED <<analysis, lock>>

\* Mutant: a path is remembered once its copy has succeeded.
MutRemember(r, p, copied) == IF copied THEN {<<r, p>>} ELSE {}

\* staged_paths.append, before the copy begins.
Remember(r, p, copied) == {<<r, p>>}

Images(r) == Cardinality({q \in Positions : req[r].rows[q].kind = "image"})

\* One turn of the loop over the uploaded files.  The copy may pass the size
\* limit or fail; an unsupported file is removed and keeps its row; an image
\* too many, or one that cannot be read, refuses the request.
StageFile(r) ==
    LET p    == Cardinality(Staged(req[r].rows)) + 1
        path == <<r, p>>
    IN  /\ req[r].pc = "files" /\ p <= req[r].files
        /\ \/ \E kind \in {"text", "image", "foreign"}, d \in Digests :
                /\ kind = "image" => Images(r) < MaxImages
                /\ req' = [req EXCEPT
                     ![r].staged = @ \cup Remember(r, p, TRUE),
                     ![r].rows[p] = [kind |-> kind, digest |-> d, status |->
                        IF kind = "foreign" THEN "unsupported" ELSE "pending"]]
                /\ disk' = IF kind = "foreign" THEN disk \ {path} ELSE disk \cup {path}
           \/ \E copied \in BOOLEAN :
                /\ req' = [req EXCEPT ![r].pc = "reject",
                                      ![r].staged = @ \cup Remember(r, p, copied)]
                /\ disk' = disk \cup {path}
        /\ UNCHANGED <<analysis, lock>>

\* All files are staged; at least one must be supported.
FinishStaging(r) ==
    /\ req[r].pc = "files"
    /\ Cardinality(Staged(req[r].rows)) = req[r].files
    /\ Goto(r, IF \E p \in Positions : Supported(req[r].rows[p]) THEN "lock" ELSE "reject")
    /\ UNCHANGED <<analysis, lock, disk>>

\* _remove_staged_uploads, on every way out before the commit.
Reject(r) ==
    /\ req[r].pc = "reject"
    /\ disk' = disk \ req[r].staged
    /\ Goto(r, "refused")
    /\ UNCHANGED <<analysis, lock>>

\* _ensure_user_analysis_capacity: the row of the user is locked first.
LockUser(r) ==
    /\ req[r].pc = "lock" /\ lock = Nobody
    /\ lock' = r
    /\ Goto(r, "count")
    /\ UNCHANGED <<analysis, disk>>

\* Mutant: the count reads the snapshot of the transaction, as a read that
\* does not lock would.
MutCounted(r) == req[r].seen

\* A locking read sees what is committed, not the snapshot.
Counted(r) == Cardinality(Active)

Count(r) ==
    /\ req[r].pc = "count"
    /\ IF Counted(r) >= Limit THEN lock' = Nobody /\ Goto(r, "reject")
                              ELSE UNCHANGED lock /\ Goto(r, "insert")
    /\ UNCHANGED <<analysis, disk>>

\* The rows are inserted, duplicates marked, and all of it committed; or the
\* transaction fails and is rolled back.
Commit(r) ==
    /\ req[r].pc = "insert"
    /\ lock' = Nobody
    /\ \/ /\ analysis' = [analysis EXCEPT ![r] = "active"]
          /\ req' = [req EXCEPT ![r].pc = "tidy", ![r].rows =
               [p \in Positions |-> IF p \in Duplicates(@)
                                    THEN [@[p] EXCEPT !.status = "duplicate"] ELSE @[p]]]
       \/ Goto(r, "reject") /\ UNCHANGED analysis
    /\ UNCHANGED disk

\* _delete_staged_upload of each duplicate; one that fails is logged.
DeleteDuplicates(r) ==
    /\ req[r].pc = "tidy"
    /\ \E failed \in SUBSET Duplicates(req[r].rows) :
         disk' = disk \ ({r} \X (Duplicates(req[r].rows) \ failed))
    /\ Goto(r, "enqueue")
    /\ UNCHANGED <<analysis, lock>>

\* process_analysis.delay, which may fail: recovery sends it then.
Enqueue(r) ==
    /\ req[r].pc = "enqueue"
    /\ Goto(r, "done")
    /\ UNCHANGED <<analysis, lock, disk>>

\* The analysis ends, in whatever way, and its files go.
Conclude(r) ==
    /\ analysis[r] = "active"
    /\ analysis' = [analysis EXCEPT ![r] = "ended"]
    /\ disk' = disk \ FilesOf(r)
    /\ UNCHANGED <<req, lock>>

\* The server process is lost; the database rolls back what it had not
\* committed.
LoseServer(r) ==
    /\ req[r].pc \notin {"new", "refused", "done", "lost"}
    /\ lock' = IF lock = r THEN Nobody ELSE lock
    /\ Goto(r, "lost")
    /\ UNCHANGED <<analysis, disk>>

Next ==
    \E r \in Requests :
      \/ CheckCapacity(r) \/ StageSource(r) \/ StageFile(r) \/ FinishStaging(r)
      \/ Reject(r) \/ LockUser(r) \/ Count(r) \/ Commit(r)
      \/ DeleteDuplicates(r) \/ Enqueue(r) \/ Conclude(r) \/ LoseServer(r)

Spec == Init /\ [][Next]_vars

-----------------------------------------------------------------------------
(* Properties.                                                             *)

Rows == [kind : {"none", "text", "image", "foreign"}, digest : Digests \cup {NoDigest},
         status : {"none", "pending", "unsupported", "duplicate"}]
Handlers ==
    [pc : {"new", "source", "files", "lock", "count", "insert", "tidy", "enqueue",
           "reject", "refused", "done", "lost"},
     seen : 0..Limit, files : 0..MaxFiles, staged : SUBSET (Requests \X (0..MaxFiles)),
     source : {"none", "github", "zip", "unavailable"}, rows : [Positions -> Rows]]

\* Every variable has its type.
TypeOK ==
    /\ req \in [Requests -> Handlers]
    /\ analysis \in [Requests -> {"none", "active", "ended"}]
    /\ lock \in Requests \cup {Nobody}
    /\ disk \subseteq Requests \X (0..MaxFiles)

\* However many uploads of a user pass the capacity check together, no more
\* than Limit of his analyses are active.
LimitHolds == Cardinality(Active) <= Limit

\* A request that was refused leaves no file behind, however far it had come.
RefusedLeavesNothing ==
    \A r \in Requests : req[r].pc = "refused" => disk \cap FilesOf(r) = {}

\* Every supported file of an admitted analysis can be read: itself, or the
\* one file with the same content that is kept for it.  So can its source.
AdmittedIsReadable ==
    \A r \in Active :
      /\ \A p \in Staged(req[r].rows) : Supported(req[r].rows[p]) =>
           \E q \in Positions :
             /\ req[r].rows[q].status = "pending"
             /\ req[r].rows[q].digest = req[r].rows[p].digest
             /\ <<r, q>> \in disk
      /\ req[r].source = "zip" => <<r, 0>> \in disk

\* Files are kept exactly for what was admitted: none of a refused request, and
\* for every supported file of an admitted analysis one with its content
\* (crud/analysis.py:147, api/analysis.py:259).
FilesFollowOutcome == TypeOK /\ RefusedLeavesNothing /\ AdmittedIsReadable

=============================================================================
