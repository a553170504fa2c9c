------------------------- MODULE EvidenceSelection -------------------------
(***************************************************************************)
(* Which evidence rows an investigation works on                           *)
(* (services/investigation_context.py, the selection of bounded evidence). *)
(*                                                                         *)
(* An analysis may have far more rows than a correlation or a prompt can   *)
(* hold.  Finalization reads them from the database in batches, keyset     *)
(* after keyset, and keeps in a heap the ones with the best scores, beside *)
(* a reserve of the earliest and the latest; the score of a row falls with *)
(* the rows its artifact has in the heap already.  What is kept is cut to  *)
(* a byte budget.  When the rows are few, or for the prompt of the simple  *)
(* path, the artifacts take turns instead, each giving its best row left.  *)
(*                                                                         *)
(* Both are one run of one process over rows that do not change: the       *)
(* hazards are the order of the steps and the limits.  Scores are in       *)
(* fixed point, Unit to one.                                               *)
(***************************************************************************)
EXTENDS Integers, Sequences, FiniteSets, SequencesExt

CONSTANTS
    None,              \* an absent value
    RowSets,           \* the tables of evidence rows to try
    MaxRecords,        \* the record limits to try
    MaxContextBytes,   \* the byte limits to try
    BatchSizes,        \* the sizes of a batch of the scan to try
    MaxGroups          \* BOUNDED_SELECTION_MAX_AGGREGATE_GROUPS

\* What is read from a row and compared.  No two rows have one line and
\* fingerprint: the lines of an artifact begin at a multiple of a stride of its
\* position, and a line has one event (_process_artifact_task).
SelectionAssumption ==
    /\ MaxRecords \subseteq Nat /\ MaxContextBytes \subseteq Nat
    /\ BatchSizes \subseteq Nat \ {0}
    /\ \A table \in RowSets :
         /\ IsFiniteSet(table)
         /\ \A r \in table :
              /\ r.artifact \in Int /\ r.line \in Nat /\ r.fingerprint \in Int
              /\ r.time = None \/ r.time \in Nat
              /\ r.count \in Nat /\ r.size \in Nat
         /\ \A r, q \in table :
              r.line = q.line /\ r.fingerprint = q.fingerprint => r = q

VARIABLES
    rows,       \* the analysis' rows
    limits,     \* [records, bytes, batch]
    caller,     \* "finalize": the rows of the database; "prompt": rows in memory
    phase,      \* "start", "rounds", "scan", "pick" or "done"
    queue,      \* rounds: rows no artifact has given yet
    active,     \* rounds: artifacts still to give a row in this round
    next,       \* rounds: artifacts of the next round
    reserved,   \* scan: the earliest and the latest rows
    cursor,     \* scan: the keyset of the last row read
    fetched,    \* scan: rows of the batch still to consider
    full,       \* scan: the batch had as many rows as asked for
    heap,       \* scan: [score, tie, row], tie counting the scored rows
    counts,     \* scan: artifact -> rows of it in the heap
    scored,     \* rows given a score, with it (history of the run)
    candidates, \* pick: rows still to take or skip, best first
    selected    \* the rows kept

vars == <<rows, limits, caller, phase, queue, active, next, reserved, cursor,
          fetched, full, heap, counts, scored, candidates, selected>>

roundVars == <<queue, active, next>>
scanVars  == <<reserved, cursor, fetched, full, heap, counts, scored>>

Unit == 300
Penalty == 6      \* 0.02
Artifacts == {r.artifact : r \in rows}

-----------------------------------------------------------------------------
(* Orders.                                                                  *)

Before(a, b) == \E i \in 1 .. Len(a) : /\ a[i] < b[i]
                                       /\ \A j \in 1 .. i - 1 : a[j] = b[j]

StableKey == [r \in rows |-> <<r.line, r.fingerprint>>]
Time(r) == IF r.time = None THEN -1 ELSE r.time
ChronologicalKey == [r \in rows |-> <<Time(r), r.line, r.fingerprint>>]

SimpleRank(severity) == IF severity = "CRITICAL" THEN 3
                        ELSE IF severity = "ERROR" THEN 2
                        ELSE IF severity = "WARN" THEN 1
                        ELSE 0

\* _simple_llm_priority_key: the least comes first.
PriorityKey ==
    [r \in rows |-> <<IF r.matches THEN 0 ELSE 1, -SimpleRank(r.severity), -r.count,
                     Time(r), r.line, r.fingerprint>>]

\* The elements of s whose key comes before r's, and s in the order of the keys.
Ahead(s, r, key) == {q \in s : Before(key[q], key[r])}
SortedBy(s, key) ==
    [i \in 1 .. Cardinality(s) |->
        CHOOSE r \in s : Cardinality(Ahead(s, r, key)) = i - 1]

Least(s, key) == CHOOSE r \in s : \A q \in s \ {r} : Before(key[r], key[q])

-----------------------------------------------------------------------------
(* The score of a row.                                                      *)

SeverityRank(severity) == IF severity \in {"CRITICAL", "FATAL"} THEN 4
                          ELSE IF severity = "ERROR" THEN 3
                          ELSE IF severity = "WARN" THEN 2
                          ELSE 0

\* GROUP BY value HAVING weight > 1, the heaviest MaxGroups of them.
Heaviest(weight) ==
    LET heavy == {v \in DOMAIN weight : v # None /\ weight[v] > 1}
    IN {v \in heavy : Cardinality({w \in heavy :
            Before(<<-weight[w], w>>, <<-weight[v], v>>)}) < MaxGroups}

FingerprintCount == [v \in {r.fingerprint : r \in rows} |->
                        Cardinality({r \in rows : r.fingerprint = v})]
Fingerprints == Heaviest(FingerprintCount)

TraceSpread == [v \in {q.trace : q \in rows} |->
                   Cardinality({r.artifact : r \in {q \in rows : q.trace = v}})]
RequestSpread == [v \in {q.request : q \in rows} |->
                     Cardinality({r.artifact : r \in {q \in rows : q.request = v}})]
Bridging(r) == r.trace \in Heaviest(TraceSpread) \/ r.request \in Heaviest(RequestSpread)

\* _bounded_evidence_priority.
Priority(r) ==
    (IF r.span THEN 5 * Unit ELSE 0)
    + (IF Bridging(r) THEN 4 * Unit
       ELSE IF r.trace # None \/ r.request # None \/ r.identified THEN 3 * Unit
       ELSE 0)
    + SeverityRank(r.severity) * Unit
    + (IF r.matches THEN 2 * Unit ELSE 0)
    + Unit \div (IF r.fingerprint \in Fingerprints
                 THEN FingerprintCount[r.fingerprint] ELSE 1)

-----------------------------------------------------------------------------

\* The bytes of the rows of s, counted.
Total(s) == Cardinality(UNION {{r} \X (1 .. r.size) : r \in s})
Bytes == Total(ToSet(selected))
Fits(r) == selected = <<>> \/ Bytes + r.size <= limits.bytes

Init ==
    /\ rows \in RowSets
    /\ limits \in [records : MaxRecords, bytes : MaxContextBytes, batch : BatchSizes]
    /\ caller \in {"finalize", "prompt"}
    /\ phase = "start"
    /\ queue = {} /\ active = <<>> /\ next = <<>>
    /\ reserved = {} /\ cursor = <<-1, -1>> /\ fetched = {} /\ full = TRUE
    /\ heap = {} /\ counts = [a \in Artifacts |-> 0] /\ scored = {}
    /\ candidates = <<>>
    /\ selected = <<>>

\* select_bounded_evidence: everything, when everything is within the limits.
Everything ==
    /\ phase = "start"
    /\ Cardinality(rows) <= limits.records /\ Total(rows) <= limits.bytes
    /\ selected' = SortedBy(rows, ChronologicalKey)
    /\ phase' = "done"
    /\ UNCHANGED <<rows, limits, caller, roundVars, scanVars, candidates>>

StartRounds ==
    /\ phase = "start"
    /\ caller = "finalize" => Cardinality(rows) <= limits.records
    /\ \/ Cardinality(rows) > limits.records
       \/ Total(rows) > limits.bytes
    /\ queue' = rows
    /\ active' = SortedBy(Artifacts, [a \in Artifacts |-> <<a>>])
    /\ phase' = "rounds"
    /\ UNCHANGED <<rows, limits, caller, next, scanVars, candidates, selected>>

BudgetReached ==
    Len(selected) >= limits.records \/ Bytes >= limits.bytes

Left(a) == {r \in queue : r.artifact = a}

\* The turn of an artifact: it gives its best row, and leaves the rounds when
\* it has none left or the row does not fit.
Turn ==
    /\ phase = "rounds"
    /\ active # <<>>
    /\ ~BudgetReached
    /\ LET a == Head(active)
           best == Least(Left(a), PriorityKey)
       IN IF Left(a) = {}
          THEN UNCHANGED <<queue, next, selected>>
          ELSE /\ queue' = queue \ {best}
               /\ IF Fits(best)
                  THEN /\ selected' = Append(selected, best)
                       /\ next' = Append(next, a)
                  ELSE UNCHANGED <<next, selected>>
    /\ active' = Tail(active)
    /\ UNCHANGED <<rows, limits, caller, phase, scanVars, candidates>>

NextRound ==
    /\ phase = "rounds"
    /\ active = <<>> /\ next # <<>>
    /\ active' = next
    /\ next' = <<>>
    /\ UNCHANGED <<rows, limits, caller, phase, queue, scanVars, candidates, selected>>

EndRounds ==
    /\ phase = "rounds"
    /\ \/ active = <<>> /\ next = <<>>
       \/ active # <<>> /\ BudgetReached
    /\ selected' = IF caller = "finalize"
                   THEN SortedBy(ToSet(selected), ChronologicalKey)
                   ELSE selected
    /\ phase' = "done"
    /\ UNCHANGED <<rows, limits, caller, roundVars, scanVars, candidates>>

\* The reserve: the first and the last rows with a time.
Reserve == Min({50, Max({limits.records \div 20, 1})})
Earliest(s) == {r \in s : Cardinality(Ahead(s, r, ChronologicalKey)) < Reserve}
Latest(s) == {r \in s :
    Cardinality(s \ Ahead(s, r, ChronologicalKey)) - 1 < Reserve}

StartScan ==
    /\ phase = "start"
    /\ caller = "finalize"
    /\ Cardinality(rows) > limits.records
    /\ LET timed == {r \in rows : r.time # None}
       IN reserved' = Earliest(timed) \cup Latest(timed)
    /\ phase' = "scan"
    /\ UNCHANGED <<rows, limits, caller, roundVars, cursor, fetched, full, heap,
                   counts, scored, candidates, selected>>

Remaining == Max({limits.records - Cardinality(reserved), 0})

\* Mutant: the cursor does not look at the rest of the key.
MutAfterCursor(r) == r.line > cursor[1]

AfterCursor(r) == Before(cursor, StableKey[r])

\* The next batch: the first rows after the cursor, which moves to the last.
Fetch ==
    /\ phase = "scan"
    /\ fetched = {} /\ full
    /\ LET after == {r \in rows : AfterCursor(r)}
           batch == {r \in after : Cardinality(Ahead(after, r, StableKey)) < limits.batch}
           last == {r \in batch : batch = Ahead(batch, r, StableKey) \cup {r}}
       IN /\ fetched' = batch
          /\ full' = (Cardinality(batch) = limits.batch)
          /\ cursor' = IF batch = {} THEN cursor ELSE StableKey[CHOOSE r \in last : TRUE]
    /\ UNCHANGED <<rows, limits, caller, phase, roundVars, reserved, heap, counts,
                   scored, candidates, selected>>

\* The heap's least entry: the least score, then the first scored.
Lowest == Least(heap, [h \in heap |-> <<h.score, h.tie>>])

Score(r) == Priority(r) - Penalty * counts[r.artifact]

\* The counts after a row of artifact in replaced one of artifact out.
Replaced(out, in) == [[counts EXCEPT ![out] = @ - 1] EXCEPT ![in] = @ + 1]

\* The next row of the batch: it is scored, enters the heap while there is room
\* and takes the place of the lowest when its score is higher.
Consider ==
    /\ phase = "scan"
    /\ fetched # {}
    /\ LET r == Least(fetched, StableKey)
           entry == [score |-> Score(r), tie |-> Cardinality(scored) + 1, row |-> r]
       IN /\ fetched' = fetched \ {r}
          /\ IF r \in reserved \/ Remaining = 0
             THEN UNCHANGED <<heap, counts, scored>>
             ELSE /\ scored' = scored \cup {entry}
                  /\ IF Cardinality(heap) < Remaining
                     THEN /\ heap' = heap \cup {entry}
                          /\ counts' = [counts EXCEPT ![r.artifact] = @ + 1]
                     ELSE IF entry.score > Lowest.score
                     THEN /\ heap' = (heap \ {Lowest}) \cup {entry}
                          /\ counts' = Replaced(Lowest.row.artifact, r.artifact)
                     ELSE UNCHANGED <<heap, counts>>
    /\ UNCHANGED <<rows, limits, caller, phase, roundVars, reserved, cursor, full,
                   candidates, selected>>

\* The candidates, best first: the reserve, then the heap by score; equal
\* scores by the reversed stable key.
Rank ==
    /\ phase = "scan"
    /\ fetched = {} /\ ~full
    /\ LET byScore == SortedBy(heap, [h \in heap |-> <<h.score, h.row.line, h.row.fingerprint>>])
       IN candidates' = Reverse(SortedBy(reserved, StableKey))
                          \o Reverse([i \in 1 .. Len(byScore) |-> byScore[i].row])
    /\ phase' = "pick"
    /\ UNCHANGED <<rows, limits, caller, roundVars, scanVars, selected>>

Pick ==
    /\ phase = "pick"
    /\ candidates # <<>> /\ Len(selected) < limits.records
    /\ selected' = IF Fits(Head(candidates)) THEN Append(selected, Head(candidates))
                   ELSE selected
    /\ candidates' = Tail(candidates)
    /\ UNCHANGED <<rows, limits, caller, phase, roundVars, scanVars>>

EndPick ==
    /\ phase = "pick"
    /\ candidates = <<>> \/ Len(selected) >= limits.records
    /\ selected' = SortedBy(ToSet(selected), ChronologicalKey)
    /\ phase' = "done"
    /\ UNCHANGED <<rows, limits, caller, roundVars, scanVars, candidates>>

Next == \/ Everything \/ StartRounds \/ Turn \/ NextRound \/ EndRounds
        \/ StartScan \/ Fetch \/ Consider \/ Rank \/ Pick \/ EndPick

Spec == Init /\ [][Next]_vars

-----------------------------------------------------------------------------
(* Properties.                                                              *)

\* The heap, the rounds and the selection are made of the analysis' rows, and
\* no row is selected twice.
TypeOK ==
    /\ phase \in {"start", "rounds", "scan", "pick", "done"}
    /\ queue \subseteq rows /\ reserved \subseteq rows /\ fetched \subseteq rows
    /\ ToSet(active) \cup ToSet(next) \subseteq Artifacts
    /\ heap \subseteq scored
    /\ counts \in [Artifacts -> Nat]
    /\ ToSet(selected) \subseteq rows
    /\ Cardinality(ToSet(selected)) = Len(selected)

\* What is selected is within both limits, unless it is a single row larger
\* than the byte limit (select_bounded_evidence, select_bounded_evidence_from_db).
WithinLimits ==
    /\ Len(selected) <= limits.records
    /\ Len(selected) > 1 => Bytes <= limits.bytes

\* The number that lowers the score of an artifact's next row is the number of
\* its rows in the heap, through every replacement.
CountsMatchHeap ==
    \A a \in Artifacts :
        counts[a] = Cardinality({h \in heap : h.row.artifact = a})

\* The batches of the scan leave no row out and read none twice: at its end
\* every row is in the reserve or has had its score, once.
EveryRowConsidered ==
    phase = "pick" /\ Remaining > 0 =>
        /\ {e.row : e \in scored} = rows \ reserved
        /\ Cardinality(scored) = Cardinality(rows \ reserved)

\* No row was left out, when it was read or later, for one with a lower score.
LeftOutIsWeaker ==
    \A e \in scored \ heap : \A h \in heap : e.score <= h.score

\* At the end of a scan, a candidate that is missing would break a limit: the
\* byte budget is not wasted (the rows after a row too large are still tried).
NothingElseFits ==
    phase = "done" /\ scored \cup reserved # {} =>
        \A r \in (reserved \cup {h.row : h \in heap}) \ ToSet(selected) :
            \/ Len(selected) = limits.records
            \/ Bytes + r.size > limits.bytes

\* When artifacts take turns, one with rows left has given at most one row
\* fewer than any other, unless its next row did not fit: a noisy artifact does
\* not crowd out a quiet one.
Given(a) == Cardinality({r \in ToSet(selected) : r.artifact = a})

FairShares ==
    phase = "rounds" \/ queue # {} =>
        \A a, b \in Artifacts :
            LET left == {r \in rows : r.artifact = a} \ ToSet(selected)
            IN \/ left = {}
               \/ Given(a) + 1 >= Given(b)
               \/ Bytes + Least(left, PriorityKey).size > limits.bytes

=============================================================================
