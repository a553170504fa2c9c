--------------------------- MODULE Investigation ---------------------------
(***************************************************************************)
(* Algorithms between the rows of evidence and the explanation: choosing   *)
(* the rows, the walk through the causal graph, the cut of the context to  *)
(* its budget, and the search for a prefix.  Each has data of its own, so  *)
(* a behaviour is one of a single part; the variables of the others stay   *)
(* where they began, or 0.                                                 *)
(***************************************************************************)
EXTENDS CausalGraph

CONSTANTS
    Parts,                                              \* the parts that are looked at
    RowTables, RecordLimits, ByteLimits, ScanBatches, MaxGroups, \* EvidenceSelection
    Groupings, Contexts, ContextBudget, FallbackBudget, \* LlmContext
    SearchItems, SearchBudget, SizeValues               \* PrefixSearch

VARIABLES
    part,
    table, limits, caller, phase, queue, active, next, reserved, cursor, fetched,
    full, heap, counts, scored, candidates, selected,       \* EvidenceSelection
    components, given, primary, statuses, entries, read, shown, directional, told,
    instructed, pc,                                     \* LlmContext
    size, assigned, low, high, step                     \* PrefixSearch

selectionVars == <<table, limits, caller, phase, queue, active, next, reserved, cursor,
                   fetched, full, heap, counts, scored, candidates, selected>>
contextVars == <<components, given, primary, statuses, entries, read, shown,
                 directional, told, instructed, pc>>
searchVars == <<size, assigned, low, high, step>>

Selecting == INSTANCE EvidenceSelection
               WITH RowSets <- RowTables, MaxRecords <- RecordLimits,
                    MaxContextBytes <- ByteLimits, BatchSizes <- ScanBatches,
                    rows <- table

Telling == INSTANCE LlmContext
             WITH Budget <- ContextBudget, groups <- components, status <- statuses,
                  kept <- shown, directed <- directional

Search == INSTANCE PrefixSearch WITH Items <- SearchItems, Budget <- SearchBudget,
                                      phase <- step

\* What the constants must satisfy.
ASSUME InvestigationAssumption ==
    Selecting!SelectionAssumption /\ Telling!ContextAssumption /\ Search!SearchAssumption

GraphRests == edges = {} /\ time = [n \in Nodes |-> 0]
SelectionRests ==
    /\ table = 0 /\ limits = 0 /\ caller = 0 /\ phase = 0 /\ queue = 0 /\ active = 0
    /\ next = 0 /\ reserved = 0 /\ cursor = 0 /\ fetched = 0 /\ full = 0 /\ heap = 0
    /\ counts = 0 /\ scored = 0 /\ candidates = 0 /\ selected = 0
ContextRests ==
    /\ components = 0 /\ given = 0 /\ primary = 0 /\ statuses = 0 /\ entries = 0
    /\ read = 0 /\ shown = 0 /\ directional = 0 /\ told = 0 /\ instructed = 0 /\ pc = 0
SearchRests == size = 0 /\ assigned = 0 /\ low = 0 /\ high = 0 /\ step = 0

InvestigationInit ==
    /\ part \in Parts /\ Init
    /\ part # "graph" => GraphRests
    /\ IF part = "selection" THEN Selecting!Init ELSE SelectionRests
    /\ IF part = "context" THEN Telling!Init ELSE ContextRests
    /\ IF part = "search" THEN Search!Init ELSE SearchRests

InvestigationNext ==
    /\ UNCHANGED part
    /\ \/ part = "graph" /\ Next /\ UNCHANGED <<selectionVars, contextVars, searchVars>>
       \/ part = "selection" /\ Selecting!Next /\ UNCHANGED <<vars, contextVars, searchVars>>
       \/ part = "context" /\ Telling!Next /\ UNCHANGED <<vars, selectionVars, searchVars>>
       \/ part = "search" /\ Search!Next /\ UNCHANGED <<vars, selectionVars, contextVars>>

InvestigationSpec ==
    InvestigationInit
      /\ [][InvestigationNext]_<<part, vars, selectionVars, contextVars, searchVars>>

-----------------------------------------------------------------------------
(* Properties                                                              *)

\* Within the limits the best rows are kept and shares are fair: the scan misses
\* none and repeats none, the counts its scores use are true, nothing better is
\* left out, and no room is wasted (select_bounded_evidence_from_db).
BestRowsKept ==
    part = "selection" =>
      /\ Selecting!TypeOK /\ Selecting!WithinLimits /\ Selecting!CountsMatchHeap
      /\ Selecting!EveryRowConsidered /\ Selecting!LeftOutIsWeaker
      /\ Selecting!NothingElseFits /\ Selecting!FairShares

\* The model is told a group whenever rows are related, within the budget, with
\* the least important items cut first and no more than needed, and is told the
\* truth about what was cut and about which relations are left; and the search
\* for what a list may keep finds the longest prefix that fits
\* (_enforce_correlated_context_byte_budget, _largest_prefix_that_fits).
ContextIsTrue ==
    /\ part = "context" =>
         /\ Telling!TypeOK /\ Telling!PrimaryWhenRelated /\ Telling!WithinBudget
         /\ Telling!CutInOrder /\ Telling!NoItemWasted /\ Telling!TruncationTold
         /\ Telling!DirectedTold /\ Telling!FallbackWithinBudget
    /\ part = "search" => Search!TypeOK /\ Search!LongestThatFits
=============================================================================
