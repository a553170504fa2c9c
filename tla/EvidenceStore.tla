--------------------------- MODULE EvidenceStore ---------------------------
(***************************************************************************)
(* From parsed events to evidence rows (services/batch_processor.py,       *)
(* services/evidence_store.py, services/identity_persister.py, and the     *)
(* batch loop of tasks/analysis.py that drives them).                      *)
(*                                                                         *)
(* Every artifact of an analysis is a sequence of events.  Its ingestion   *)
(* cuts the sequence into batches, keeps the events worth keeping, gives   *)
(* them a fingerprint, matches them with the source index while there is   *)
(* one, groups them by artifact, fingerprint, trace, request and span, and *)
(* upserts one row per group: a row that exists already is merged, in SQL, *)
(* with the new one.  When every artifact is done, finalization gives the  *)
(* rows without an identity one.                                           *)
(*                                                                         *)
(* Where the batches are cut depends on sizes, on limits and on where an   *)
(* earlier worker stopped, so the table must not depend on it.             *)
(*                                                                         *)
(* The events carry one field, service, for the columns merged like it     *)
(* (parent span, module, host, container, pod, endpoint, HTTP status,      *)
(* source file and format, OCR confidence).                                *)
(***************************************************************************)
EXTENDS Integers, Sequences, FiniteSets, FiniteSetsExt

CONSTANTS
    None,             \* an absent value: SQL NULL
    JsonNull,         \* the JSON literal null, which SQL does not count as NULL
    Artifacts,        \* the analysis' artifacts
    Logs,             \* the event sequences an artifact may hold
    MaxBatchBytes,    \* the byte limits to try (INGESTION_RAW_BATCH_BYTES)
    MaxBatchItems,    \* the item limits to try (INGESTION_RAW_BATCH_ITEMS)
    ImportantLevels   \* the levels that make an event worth keeping

VARIABLES
    log,         \* artifact -> its events, in the file's order
    limits,      \* [bytes, items] of a batch
    done,        \* artifact -> events behind its checkpoint
    marking,     \* artifacts whose source failure is not yet recorded
    source,      \* the analysis' source status: "ready" or "unavailable"
    matched,     \* artifact -> positions of the events matched with the source
    current,     \* the analysis is processing and this generation owns it
    table        \* the evidence rows, by key

vars == <<log, limits, done, marking, source, matched, current, table>>

-----------------------------------------------------------------------------
(* Events and fingerprints.                                                 *)

Worthy(e) == e.level \in ImportantLevels \/ e.type # None \/ e.failed

\* An event without an exception type is known by its level and its line.
Fingerprint(e) ==
    IF e.type # None THEN <<e.type, e.message>>
    ELSE <<IF e.level # None THEN e.level ELSE "event", e.message>>

\* No identifier counts as one value ("__none__"), so such events group too.
KeyOf(a, e) == [artifact |-> a, fingerprint |-> Fingerprint(e),
                trace |-> e.trace, request |-> e.request, span |-> e.span]

-----------------------------------------------------------------------------
(* Batches.                                                                 *)

Bytes(a, from, to) == MapThenSumSet(LAMBDA i : log[a][i].size, from .. to)

\* The first event of a batch is always taken; another is while it fits.
Fits(a, from, to) ==
    \A n \in from + 1 .. to : /\ Bytes(a, from, n) <= limits.bytes
                              /\ n - from < limits.items

BatchEnd(a) == Max({n \in done[a] + 1 .. Len(log[a]) : Fits(a, done[a] + 1, n)})

-----------------------------------------------------------------------------
(* Rows.                                                                    *)

\* The first value that is not None, in the order of positions.
FirstPresent(value) ==
    LET present == {i \in DOMAIN value : value[i] # None}
    IN IF present = {} THEN None ELSE value[Min(present)]

Times(a, positions) == {log[a][i].time : i \in positions} \ {None}

Identity(key) ==
    IF key.trace # None THEN <<"trace", key.trace>>
    ELSE IF key.request # None THEN <<"request", key.request>>
    ELSE None

\* The row of a group of events.  A group without a match has the list's
\* Python None, which the JSON column stores as the literal null.
Row(a, key, positions, matchedPositions, id) ==
    LET times == Times(a, positions)
        found == positions \cap matchedPositions
    IN [ id       |-> id,
         count    |-> Cardinality(positions),
         first    |-> IF times = {} THEN None ELSE Min(times),
         last     |-> IF times = {} THEN None ELSE Max(times),
         line     |-> Min(positions),
         lastLine |-> Max(positions),
         sample   |-> Min(positions),
         severity |-> FirstPresent([i \in positions |-> log[a][i].level]),
         service  |-> FirstPresent([i \in positions |-> log[a][i].service]),
         matches  |-> IF found = {} THEN JsonNull ELSE Min(found),
         identity |-> Identity(key) ]

\* CASE WHEN one is NULL THEN the other, ELSE LEAST or GREATEST.
Either(x, y, both) == IF x = None THEN y ELSE IF y = None THEN x ELSE both
Coalesce(x, y) == IF x = None THEN y ELSE x

\* Mutant: the first time is the first batch's, not the least.
MutUpsert(old, new) ==
    [old EXCEPT
        !.count    = @ + new.count,
        !.first    = Coalesce(@, new.first),
        !.last     = Either(@, new.last, Max({@, new.last})),
        !.line     = Min({@, new.line}),
        !.lastLine = Max({@, new.lastLine}),
        !.service  = Coalesce(@, new.service),
        !.matches  = Coalesce(@, new.matches)]

\* ON DUPLICATE KEY UPDATE: the type, the severity, the sample line and the
\* identity stay those of the first batch that had the key.
Upsert(old, new) ==
    [old EXCEPT
        !.count    = @ + new.count,
        !.first    = Either(@, new.first, Min({@, new.first})),
        !.last     = Either(@, new.last, Max({@, new.last})),
        !.line     = Min({@, new.line}),
        !.lastLine = Max({@, new.lastLine}),
        !.service  = Coalesce(@, new.service),
        !.matches  = Coalesce(@, new.matches)]

Grouped(a, positions) ==
    LET kept == {i \in positions : Worthy(log[a][i])}
        keys == {KeyOf(a, log[a][i]) : i \in kept}
    IN [key \in keys |-> {i \in kept : KeyOf(a, log[a][i]) = key}]

\* A new key gets the next id, in the order of the groups' first events.
NewId(groups, key) ==
    Cardinality(DOMAIN table)
      + Cardinality({k \in DOMAIN groups \ DOMAIN table :
                        Min(groups[k]) <= Min(groups[key])})

Persisted(a, groups, matchedPositions) ==
    [key \in DOMAIN table \cup DOMAIN groups |->
        IF key \notin DOMAIN groups THEN table[key]
        ELSE IF key \in DOMAIN table
             THEN Upsert(table[key],
                         Row(a, key, groups[key], matchedPositions, 0))
             ELSE Row(a, key, groups[key], matchedPositions, NewId(groups, key))]

-----------------------------------------------------------------------------

Init == /\ log \in [Artifacts -> Logs]
        /\ limits \in [bytes : MaxBatchBytes, items : MaxBatchItems]
        /\ done = [a \in Artifacts |-> 0]
        /\ marking = {}
        /\ source \in {"ready", "unavailable"}
        /\ matched = [a \in Artifacts |-> {}]
        /\ current = TRUE
        /\ table = <<>>

\* _persist_artifact_batch: rows and checkpoint in one transaction.  Matching
\* the batch may raise: then none of its events has a match, and the failure
\* is recorded in a transaction of its own.
PersistBatch(a) ==
    /\ current
    /\ a \notin marking
    /\ done[a] < Len(log[a])
    /\ \E matching \in {"succeeds", "fails"} :
          /\ matching = "fails" => source = "ready"
          /\ LET batch == done[a] + 1 .. BatchEnd(a)
                 hits == IF source = "ready" /\ matching = "succeeds"
                         THEN {i \in batch : log[a][i].hit}
                         ELSE {}
             IN /\ table' = Persisted(a, Grouped(a, batch), hits)
                /\ matched' = [matched EXCEPT ![a] = @ \cup hits]
          /\ marking' = IF matching = "fails" THEN marking \cup {a} ELSE marking
    /\ done' = [done EXCEPT ![a] = BatchEnd(a)]
    /\ UNCHANGED <<log, limits, source, current>>

MarkUnavailable(a) ==
    /\ a \in marking
    /\ marking' = marking \ {a}
    /\ source' = IF current THEN "unavailable" ELSE source
    /\ UNCHANGED <<log, limits, done, matched, current, table>>

\* What the UPDATE computes for a row whose identity is NULL.
Resolved(key) ==
    IF Identity(key) # None THEN Identity(key) ELSE <<"unresolved", table[key].id>>

\* persist_resolved_identities, once the artifacts are done; a redelivered
\* finalization runs it again.
ResolveIdentities ==
    /\ current
    /\ marking = {}
    /\ \A a \in Artifacts : done[a] = Len(log[a])
    /\ table' = [key \in DOMAIN table |->
                    IF table[key].identity # None THEN table[key]
                    ELSE [table[key] EXCEPT !.identity = Resolved(key)]]
    /\ UNCHANGED <<log, limits, done, marking, source, matched, current>>

\* The analysis is cancelled or taken over; every later write is rolled back.
Superseded ==
    /\ current
    /\ current' = FALSE
    /\ UNCHANGED <<log, limits, done, marking, source, matched, table>>

Next == \/ \E a \in Artifacts : PersistBatch(a) \/ MarkUnavailable(a)
        \/ ResolveIdentities
        \/ Superseded

Spec == Init /\ [][Next]_vars

-----------------------------------------------------------------------------
(* Properties.                                                              *)

\* The rows' columns and the checkpoints have their types.
TypeOK ==
    /\ done \in [Artifacts -> Nat]
    /\ \A a \in Artifacts : done[a] <= Len(log[a])
    /\ marking \subseteq Artifacts
    /\ source \in {"ready", "unavailable"}
    /\ current \in BOOLEAN
    /\ \A key \in DOMAIN table :
          LET row == table[key] IN
          /\ row.id \in 1 .. Cardinality(DOMAIN table)
          /\ row.count \in Nat \ {0}
          /\ row.line \in Nat \ {0} /\ row.lastLine \in Nat \ {0}

\* The merged columns, which the place of the cuts must not change.
Merged(row) == [count |-> row.count, first |-> row.first, last |-> row.last,
                line |-> row.line, lastLine |-> row.lastLine,
                sample |-> row.sample, service |-> row.service]

\* The table is the one that a single batch of all the persisted events would
\* have given: the rows merged by SQL, batch after batch, lose, repeat and
\* reorder nothing, wherever the batches were cut
\* (create_batches and ON DUPLICATE KEY UPDATE against the grouping in Python).
SplitIrrelevant ==
    \A a \in Artifacts :
        LET whole == Grouped(a, 1 .. done[a]) IN
        /\ {key \in DOMAIN table : key.artifact = a} = DOMAIN whole
        /\ \A key \in DOMAIN whole :
              Merged(table[key]) = Merged(Row(a, key, whole[key], {}, 0))

\* Every event worth keeping is counted in exactly one row, whose key is made
\* of the event's own trace, request and span: rows never mix requests.
CountedOnce ==
    \A a \in Artifacts :
        \A e \in {log[a][i] : i \in 1 .. done[a]} :
            Worthy(e) =>
                Cardinality({key \in DOMAIN table :
                    /\ key.artifact = a
                    /\ key.fingerprint = Fingerprint(e)
                    /\ key.trace = e.trace
                    /\ key.request = e.request
                    /\ key.span = e.span}) = 1

\* Two rows have one identity exactly when they have the same trace, or no
\* trace and the same request: a row with neither is never taken for another,
\* in the same artifact or not, also when finalization runs twice.
SameRequest(k, l) ==
    \/ k.trace # None /\ k.trace = l.trace
    \/ k.trace = None /\ l.trace = None /\ k.request # None /\ k.request = l.request

IdentityIsRequest ==
    \A k, l \in DOMAIN table :
        /\ k # l
        /\ table[k].identity # None
        /\ table[l].identity # None
        => (table[k].identity = table[l].identity <=> SameRequest(k, l))

\* The row of a group has source matches when one of its events had, whichever
\* batch the event was in.
SourceMatchesKept ==
    \A a \in Artifacts :
        LET whole == Grouped(a, 1 .. done[a]) IN
        \A key \in DOMAIN whole :
            whole[key] \cap matched[a] # {} => table[key].matches # JsonNull
=============================================================================
