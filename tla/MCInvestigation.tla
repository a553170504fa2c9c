-------------------------- MODULE MCInvestigation --------------------------
(***************************************************************************)
(* The algorithms between the parsed events and the explanation: merging   *)
(* the events in rows of evidence, choosing rows, correlating them with a  *)
(* walk through the causal graph, and cutting the context with a search    *)
(* for a prefix.  Each has data of its own, so a behaviour is one of a     *)
(* single part; the variables of the others stay 0.                        *)
(***************************************************************************)
EXTENDS Investigation, Sequences

CONSTANTS JsonNull, n1, n2, n3

VARIABLES
    log, batch, done, marking, source, matched, current, store, \* EvidenceStore
    rows, stage, path, directed, associations, dag, remaining, groups, ranking  \* Correlation

storeVars == <<log, batch, done, marking, source, matched, current, store>>
correlationVars == <<rows, stage, path, directed, associations, dag, remaining,
                     groups, ranking>>
Parsed == INSTANCE EvidenceEvents
Storing == INSTANCE EvidenceStore
             WITH Artifacts <- {1, 2}, Logs <- Parsed!Logs, MaxBatchBytes <- {2, 4},
                  MaxBatchItems <- {1, 2}, ImportantLevels <- {"ERROR"},
                  limits <- batch, table <- store

ChosenFrom == INSTANCE SelectionRows
Families == INSTANCE CorrelationRows
Relating == INSTANCE Correlation
              WITH Analyses <- Families!Analyses, TemporalNeighbors <- 1,
                   FullPairwise <- 3, IdentityNeighbors <- 1, kept <- dag

Shapes == INSTANCE ContextShapes
MCRowTables == ChosenFrom!RowSets
MCRecordLimits == {1, 4, 6}
MCByteLimits == {3, 6, 20}
MCScanBatches == {3}
MCGroupings == Shapes!SomeGroupings
MCContexts == Shapes!SomeContexts
MCSizes == 0 .. 4

ASSUME Relating!RowsDiffer /\ Relating!LimitsArePositive

StoreRests ==
    /\ log = 0 /\ batch = 0 /\ done = 0 /\ marking = 0 /\ source = 0 /\ matched = 0
    /\ current = 0 /\ store = 0
CorrelationRests ==
    /\ rows = 0 /\ stage = 0 /\ path = 0 /\ directed = 0 /\ associations = 0 /\ dag = 0
    /\ remaining = 0 /\ groups = 0 /\ ranking = 0
\* The second artifact has at most one event, and batches of one event need no
\* second limit of bytes.  The context is tried with every
\* grouping for one content, and with every content for one grouping and none.
MCInit ==
    /\ InvestigationInit
    /\ part = "context" => given = Shapes!Small \/ components \in {Shapes!Pairs, {}}
    /\ IF part = "store"
       THEN Storing!Init /\ Len(log[2]) <= 1 /\ (batch.items = 1 => batch.bytes = 4)
       ELSE StoreRests
    /\ IF part = "correlation" THEN Relating!Init ELSE CorrelationRests

MCNext ==
    \/ InvestigationNext /\ UNCHANGED <<storeVars, correlationVars>>
    \/ /\ UNCHANGED <<part, vars, selectionVars, contextVars, searchVars>>
       /\ \/ /\ part = "store" /\ Storing!Next
             /\ UNCHANGED correlationVars
          \/ /\ part = "correlation" /\ Relating!Next
             /\ UNCHANGED storeVars

MCSpec == MCInit /\ [][MCNext]_<<part, vars, selectionVars, contextVars, searchVars,
                                 storeVars, correlationVars>>

-----------------------------------------------------------------------------
(* Properties                                                              *)

\* Wherever the batches are cut the rows are those of a single batch; an event is
\* counted in one row, of its own trace, request and span; and two rows have one
\* identity exactly when they are of one request (create_batches,
\* persist_evidence_batch, persist_resolved_identities).
EvidenceIsWhole ==
    part = "store" => /\ Storing!TypeOK /\ Storing!SplitIrrelevant
                      /\ Storing!CountedOnce /\ Storing!IdentityIsRequest

\* Two rows are related once, whichever rules propose it and in whatever order
\* the rows are read, and the router's two tests of whether there is anything to
\* relate agree (build_correlation_edges, has_genuine_correlatable_structure).
RelationsAreSound ==
    part = "correlation" =>
      /\ Relating!TypeOK /\ Relating!OneRelationPerPair /\ Relating!SameVerdict
      /\ Relating!RowOrderIrrelevant

\* The directed relations that are kept have no cycle and drop nothing in vain;
\* groups are what the relations connect, with a trace never parted; each has a
\* root, ranked by rows that can be reached and above any bystander
\* (enforce_dag, build_correlation_components, rank_root_causes).
GroupsAreSound ==
    part = "correlation" =>
      /\ Relating!KeptIsGreatestDag /\ Relating!RelatedTogether
      /\ Relating!IdentityStaysWhole /\ Relating!EveryGroupHasRoot
      /\ Relating!DownstreamIsReachable /\ Relating!RootAboveUncorrelated
=============================================================================
