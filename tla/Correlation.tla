---------------------------- MODULE Correlation ----------------------------
(***************************************************************************)
(* The correlation engine (services/correlation_engine.py) and the choice  *)
(* it feeds (services/investigation_router.py): the rows of one analysis   *)
(* are related in pairs, the graph is made acyclic, cut into groups, and   *)
(* each group's rows are ranked as root causes.  One step stands for one   *)
(* function that run_correlation calls; the loop of enforce_dag takes one  *)
(* step per edge.                                                          *)
(*                                                                         *)
(* Values are abstract: an identifier, a path or a text is a small number. *)
(* Times are milliseconds.  Scores are integers in units of 1/Unit.        *)
(***************************************************************************)
EXTENDS Integers, Sequences, FiniteSets, SequencesExt, FiniteSetsExt, TLC

CONSTANTS
  None,                \* a missing value
  Analyses,            \* the row sequences an analysis may hold
  TemporalNeighbors,   \* TEMPORAL_CANDIDATE_MAX_NEIGHBORS
  FullPairwise,        \* IDENTITY_FULL_PAIRWISE_MAX_GROUP_SIZE
  IdentityNeighbors    \* IDENTITY_CANDIDATE_MAX_NEIGHBORS

\* The database keeps ids unique, and no two rows agree on the whole stable
\* key (line, fingerprint, correlation key, file).
StableKey(row) == <<row.line, row.fingerprint, row.key, row.file>>

RowsDiffer ==
  \A rows \in Analyses : \A i, j \in DOMAIN rows :
    i # j => rows[i].id # rows[j].id /\ StableKey(rows[i]) # StableKey(rows[j])

LimitsArePositive ==
  TemporalNeighbors > 0 /\ FullPairwise > 0 /\ IdentityNeighbors > 0

VARIABLES
  rows,          \* the evidence rows, in the order they were read
  stage,         \* the last function of the pipeline that has returned
  path,          \* the investigation path, once chosen
  directed,      \* the directed edges of build_correlation_edges
  associations,  \* its undirected relations
  kept,          \* dag_edges
  remaining,     \* the edges enforce_dag has still to consider
  groups,        \* the components, in order
  ranking        \* root_causes: for each component its ranked candidates

vars == <<rows, stage, path, directed, associations, kept, remaining, groups,
          ranking>>

-----------------------------------------------------------------------------
(* Signals and their strengths.                                            *)

Unit == 10000

VeryHigh == 100
High == 85
Medium == 60
Low == 30

Always == [trace_id |-> VeryHigh, request_id |-> VeryHigh]
Spans == [span_id |-> VeryHigh, parent_span |-> VeryHigh]
Identity == [resolved_identity |-> High]
Names(service, module, exception) ==
  [service |-> service, module |-> module, exception |-> exception]
Log == Always @@ Spans @@ Identity @@ Names(Medium, Medium, Medium)

\* FORMAT_SIGNAL_PRIORITY without its temporal entries, which nothing reads.
Priority ==
  [opentelemetry |-> Spans @@ Identity @@ [trace_id |-> VeryHigh,
                        request_id |-> High, service |-> Medium],
   json |-> Log,
   web_server |-> Always @@ [endpoint |-> Medium, host |-> Medium, http_status |-> Medium],
   container |-> Always @@ Spans @@ Names(Medium, Medium, Medium)
                   @@ [pod |-> High, container |-> High],
   database |-> Always @@ [service |-> High, exception |-> High, fingerprint |-> Medium],
   cloud_gateway |-> Always @@ [endpoint |-> High, http_status |-> Medium, host |-> Medium],
   serverless |-> Always @@ [service |-> High, exception |-> Medium],
   syslog |-> Always @@ [host |-> High, service |-> Medium, exception |-> Medium],
   message_broker |-> Always @@ [service |-> High, fingerprint |-> Medium],
   browser |-> Always @@ [endpoint |-> High, http_status |-> Medium, exception |-> Medium],
   ci_cd |-> Always @@ [service |-> Medium, exception |-> Medium, source |-> Medium],
   stack_trace |-> Always @@ [exception |-> High, source |-> High,
                              fingerprint |-> High, module |-> High],
   generic |-> Log @@ [fingerprint |-> Medium],
   image |-> Log @@ [fingerprint |-> Medium]]

Rates(format, signal) ==
  /\ format \in DOMAIN Priority
  /\ signal \in DOMAIN Priority[format]

\* Both formats must rate the signal; the weaker rating counts.
PairStrength(left, right, signal) ==
  Min({Priority[left.format][signal], Priority[right.format][signal]})

Rated(left, right, signal) ==
  Rates(left.format, signal) /\ Rates(right.format, signal)

SharedValue(left, right, field) == left[field] # None /\ left[field] = right[field]

\* The row's field bears the name of the signal (event_type is "exception").
SharedSignals ==
  {"trace_id", "request_id", "span_id", "service", "module", "host", "container",
   "pod", "endpoint", "exception", "fingerprint"}

MatchSignals(left, right) ==
  LET shared == {s \in SharedSignals : SharedValue(left, right, s)}
      identity == {s \in {"resolved_identity"} :
                     /\ SharedValue(left, right, s)
                     /\ ~SharedValue(left, right, "trace_id")
                     /\ ~SharedValue(left, right, "request_id")}
      source == {s \in {"source"} : left.locations \cap right.locations # {}}
      status == {s \in {"http_status"} :
                   SharedValue(left, right, s) /\ left[s] >= 400}
  IN {s \in shared \cup identity \cup source \cup status : Rated(left, right, s)}

ParentSpan(parent, child) ==
  /\ parent.span_id # None
  /\ parent.span_id = child.parent_span_id
  /\ None \in {parent.trace_id, child.trace_id} \/ parent.trace_id = child.trace_id
  /\ Rated(parent, child, "parent_span")

\* 1 / (1 + delta / decay), with decay = 1000 ms.
TemporalScore(delta) == (Unit * 1000) \div (1000 + delta)

Delta(source, target) ==
  IF None \in {source.time, target.time} THEN None ELSE target.time - source.time

Both(one, other) == Unit - ((Unit - one) * (Unit - other)) \div Unit

\* score_candidate_pair: the score and the signals behind it.
Candidate(source, target) ==
  LET matches == MatchSignals(source, target)
                   \cup {s \in {"parent_span"} : ParentSpan(source, target)}
      score == FoldSet(LAMBDA s, acc : Both(acc, PairStrength(source, target, s) * (Unit \div 100)),
                       0, matches)
      delta == Delta(source, target)
      support == IF delta # None /\ delta >= 0
                 THEN (TemporalScore(delta) * Low) \div 100 ELSE 0
  IN [score |-> Both(score, support),
      delta |-> delta,
      signals |-> matches \cup {s \in {"temporal"} : support > 0}]

Related(candidate) == candidate.signals # {} /\ candidate.score > 0

-----------------------------------------------------------------------------
(* Which pairs are looked at.                                              *)

\* Python compares tuples from the left.
Before(key, other) ==
  \E i \in DOMAIN key :
    key[i] < other[i] /\ \A j \in 1..(i - 1) : key[j] = other[j]

SortedBy(seq, Key(_)) == SortSeq(seq, LAMBDA x, y : Before(Key(x), Key(y)))

TimeOr(row, none) == IF row.time = None THEN none ELSE row.time

IdentityKey(row) == <<TimeOr(row, -1)>> \o StableKey(row)

Identities == {"trace_id", "request_id", "resolved_identity", "span_id"}

\* One entry of an index: the rows that share a value, if there are two.
IdentityGroups(all) ==
  {SelectSeq(all, LAMBDA r : r[field] # None /\ r[field] = row[field]) :
     <<field, row>> \in Identities \X ToSet(all)} 

IdentityPairs(all) ==
  UNION {LET ordered == SortedBy(group, IdentityKey)
             span == IF Len(group) <= FullPairwise THEN Len(group) ELSE IdentityNeighbors
         IN {<<ordered[i], ordered[j]>> :
               <<i, j>> \in {p \in (DOMAIN ordered) \X (DOMAIN ordered) :
                               p[1] < p[2] /\ p[2] <= p[1] + span}} :
         group \in IdentityGroups(all)}

Structural ==
  {"service", "module", "host", "container", "pod", "endpoint", "exception",
   "fingerprint", "source"}

TemporalWindow == 5000

AdaptiveWindow(candidate, row) ==
  LET strengths == {PairStrength(candidate, row, s) :
                      s \in MatchSignals(candidate, row) \cap Structural}
  IN IF strengths = {} THEN 0
     ELSE IF Max(strengths) >= High THEN 5000
     ELSE IF Max(strengths) >= Medium THEN 2500
     ELSE 1000

\* The rows of a sliding window that share no identity, by how alike they are.
TemporalPairs(all) ==
  LET timed == SortedBy(SelectSeq(all, LAMBDA r : r.time # None),
                        LAMBDA r : <<r.time>> \o StableKey(r))
      Gap(i, j) == timed[j].time - timed[i].time
  IN {<<timed[i], timed[j]>> : <<i, j>> \in
        {p \in (DOMAIN timed) \X (DOMAIN timed) :
           /\ p[1] < p[2] /\ p[1] >= p[2] - TemporalNeighbors
           /\ Gap(p[1], p[2]) <= TemporalWindow
           /\ \A field \in Identities : ~SharedValue(timed[p[1]], timed[p[2]], field)
           /\ Gap(p[1], p[2]) <= AdaptiveWindow(timed[p[1]], timed[p[2]])}}

StructuralMatch(left, right) ==
  LET found == Cardinality(MatchSignals(left, right) \cap Structural)
  IN IF left.artifact = right.artifact THEN found >= 1 ELSE found >= 2

ValidTemporalPairs(all) == {p \in TemporalPairs(all) : StructuralMatch(p[1], p[2])}

-----------------------------------------------------------------------------
(* The edges.                                                              *)

Edge(source, target, candidate, kind) ==
  [source |-> source.id, target |-> target.id, score |-> candidate.score,
   delta |-> candidate.delta, signals |-> candidate.signals, kind |-> kind]

\* find_parent_span_candidate: the compatible span with the least stable key.
Parents(child, all) ==
  {p \in ToSet(all) : p.id # child.id /\ ParentSpan(p, child)}

FirstParent(child, all) ==
  CHOOSE p \in Parents(child, all) : \A q \in Parents(child, all) :
    p = q \/ Before(StableKey(p), StableKey(q))

PairOf(edge) == {edge.source, edge.target}
PairsOf(edges) == {PairOf(e) : e \in edges}

\* Every child in turn; a pair is taken once.
ExplicitEdges(all) ==
  LET Take(edges, child) ==
        IF Parents(child, all) = {} THEN edges
        ELSE LET parent == FirstParent(child, all)
                 candidate == Candidate(parent, child)
             IN IF {parent.id, child.id} \in PairsOf(edges) \/ ~Related(candidate)
                THEN edges
                ELSE edges \cup {Edge(parent, child, candidate, "explicit_parent_child")}
  IN FoldLeft(Take, {}, all)

\* _canonical_pair_order: the earlier row first, else the lesser key.
Canonical(left, right) ==
  LET known == None \notin {left.time, right.time}
      swap == IF known /\ left.time # right.time
              THEN right.time < left.time
              ELSE Before(StableKey(right), StableKey(left))
  IN IF swap THEN <<right, left>> ELSE <<left, right>>

\* Mutant: pairs that a parent span relates are related again.
MutInferredEdges(all) ==
  LET explicit == {}
      pairs == {p \in IdentityPairs(all) \cup ValidTemporalPairs(all) :
                  {p[1].id, p[2].id} \notin explicit}
      Resolve(p) ==
        LET c == Canonical(p[1], p[2])
            candidate == Candidate(c[1], c[2])
            ordered == candidate.delta # None /\ candidate.delta > 0
        IN Edge(c[1], c[2], candidate, IF ordered THEN "inferred_propagation" ELSE None)
  IN {e \in {Resolve(p) : p \in pairs} : e.signals # {} /\ e.score > 0}

\* resolve_pair, for every pair that no parent span has related.
InferredEdges(all) ==
  LET explicit == PairsOf(ExplicitEdges(all))
      pairs == {p \in IdentityPairs(all) \cup ValidTemporalPairs(all) :
                  {p[1].id, p[2].id} \notin explicit}
      Resolve(p) ==
        LET c == Canonical(p[1], p[2])
            candidate == Candidate(c[1], c[2])
            ordered == candidate.delta # None /\ candidate.delta > 0
        IN Edge(c[1], c[2], candidate, IF ordered THEN "inferred_propagation" ELSE None)
  IN {e \in {Resolve(p) : p \in pairs} : e.signals # {} /\ e.score > 0}

Directed(all) ==
  ExplicitEdges(all) \cup {e \in InferredEdges(all) : e.kind = "inferred_propagation"}
Associations(all) == {e \in InferredEdges(all) : e.kind = None}

\* has_genuine_correlatable_structure: the router's test without a preparation.
GenuineStructure(all) ==
  /\ Len(all) > 1
  /\ \/ \E child \in ToSet(all) : Parents(child, all) # {}
     \/ \E p \in IdentityPairs(all) \cup ValidTemporalPairs(all) :
          Related(Candidate(p[1], p[2]))

HasRelationships == directed \cup associations # {}

RowOf(id) == CHOOSE r \in ToSet(rows) : r.id = id
Ids == {r.id : r \in ToSet(rows)}

-----------------------------------------------------------------------------
(* Making the graph acyclic.                                               *)

Grow(start, Next(_), size) ==
  FoldLeft(LAMBDA seen, i : seen \cup UNION {Next(n) : n \in seen}, start,
           [i \in 1..size |-> i])

Targets(edges, id) == {e.target : e \in {f \in edges : f.source = id}}

\* Mutant: the walk ends after one step.
MutWouldCreateCycle(edges, source, target) == source \in Targets(edges, target)

\* would_create_cycle: the source is met on a walk from the target.
WouldCreateCycle(edges, source, target) ==
  source \in Grow({target}, LAMBDA n : Targets(edges, n), Len(rows))

TimeOrdered(edge) == edge.delta # None /\ edge.delta > 0

\* The strongest edge first; a relation's signals and kind never decide, as
\* two edges differ in an endpoint.
EdgeKey(edge) ==
  <<-edge.score>> \o StableKey(RowOf(edge.source)) \o StableKey(RowOf(edge.target))

-----------------------------------------------------------------------------
(* Components.                                                             *)

Neighbors(id) ==
  {n \in Ids : \E e \in kept \cup associations : PairOf(e) = {n, id}} \ {id}

Group(members) ==
  [nodes |-> SortedBy(SelectSeq(rows, LAMBDA r : r.id \in members), StableKey),
   edges |-> {e \in kept : PairOf(e) \subseteq members},
   associations |-> {e \in associations : PairOf(e) \subseteq members}]

\* The groups, each from its least row, in the order of these rows.
Components ==
  LET Take(found, row) ==
        IF \E g \in ToSet(found) : row \in ToSet(g.nodes) THEN found
        ELSE Append(found, Group(Grow({row.id}, Neighbors, Len(rows))))
  IN FoldLeft(Take, <<>>, SortedBy(rows, StableKey))

-----------------------------------------------------------------------------
(* Ranking.                                                                *)

NodeIds(group) == {r.id : r \in ToSet(group.nodes)}
Incoming(group, id) == {e \in group.edges : e.target = id}
Outgoing(group, id) == {e \in group.edges : e.source = id}
Strength(edges) == FoldSet(LAMBDA e, acc : acc + e.score, 0, edges)

\* _topological_order: pop a node without open predecessors, close its edges.
TopologicalOrder(group) ==
  LET open0 == [id \in NodeIds(group) |-> Cardinality({e.source : e \in Incoming(group, id)})]
      Pop(s, i) ==
        IF s.queue = <<>> THEN s
        ELSE LET id == Last(s.queue)
                 open == [n \in DOMAIN s.open |->
                            s.open[n] - (IF n \in Targets(group.edges, id) THEN 1 ELSE 0)]
                 free == {n \in Targets(group.edges, id) : open[n] = 0}
             IN [open |-> open, order |-> Append(s.order, id),
                 queue |-> Front(s.queue) \o SetToSeq(free)]
      start == [open |-> open0, order |-> <<>>,
                queue |-> SetToSeq({id \in NodeIds(group) : open0[id] = 0})]
  IN FoldLeftDomain(Pop, start, group.nodes).order

\* build_graph_stats: what lies downstream, from the last node to the first.
Downstream(group) ==
  LET Visit(cache, id) ==
        LET below == Targets(group.edges, id)
        IN cache @@ (id :> below \cup UNION {cache[n] : n \in below \cap DOMAIN cache})
  IN FoldLeft(Visit, <<>>, Reverse(TopologicalOrder(group)))

FailureStrength(row) ==
  Max({0} \cup {100 : x \in {row.severity} \cap {"critical"}}
          \cup {85 : x \in {row.severity} \cap {"error"}}
          \cup {60 : x \in {row.severity} \cap {"warning"}}
          \cup {85 : x \in {row.exception} \ {None}}
          \cup {85 : x \in {s \in {row.http_status} \ {None} : s >= 500}})

\* The share of the group's time span that is still to come.
TemporalOrigin(group, row) ==
  LET times == {r.time : r \in ToSet(group.nodes)} \ {None}
  IN IF row.time = None THEN 0
     ELSE IF Max(times) = Min(times) THEN Unit
     ELSE Unit - (Unit * (row.time - Min(times))) \div (Max(times) - Min(times))

SourceStrength(row) ==
  Max({0} \cup {CASE c = "high" -> VeryHigh [] c = "medium" -> Medium [] c = "low" -> Low :
                  c \in row.confidences})

RootPosition(group, id) ==
  IF Incoming(group, id) \cup Outgoing(group, id) = {} THEN 0
  ELSE Unit \div (1 + Cardinality(Incoming(group, id)))

RootCauseScore(group, row, downstream) ==
  IF Len(group.nodes) <= 1 THEN Unit
  ELSE LET out == Outgoing(group, row.id)
           propagation == (Unit * Cardinality(downstream)) \div (Len(group.nodes) - 1)
           support == Strength(out) \div Max({Cardinality(out), 1})
           failure == (Unit \div 100) * Max({FailureStrength(row), SourceStrength(row)})
       IN (30 * RootPosition(group, row.id) + 25 * propagation
           + 15 * Min({support, Unit}) + 20 * failure
           + 10 * TemporalOrigin(group, row)) \div 100

Role(group, id) ==
  LET in == Incoming(group, id) # {}
      out == Outgoing(group, id) # {}
  IN IF Len(group.nodes) <= 1 \/ (~in /\ ~out) THEN "uncorrelated"
     ELSE IF ~in THEN "root" ELSE IF ~out THEN "victim" ELSE "propagation"

Rank(group) ==
  LET below == Downstream(group)
      CandidateOf(row) ==
        LET downstream == IF row.id \in DOMAIN below THEN below[row.id] ELSE {}
        IN [id |-> row.id, key |-> StableKey(row), role |-> Role(group, row.id),
            downstream |-> Cardinality(downstream),
            score |-> RootCauseScore(group, row, downstream)]
  IN SortedBy([i \in DOMAIN group.nodes |-> CandidateOf(group.nodes[i])],
              LAMBDA c : <<-c.score>> \o c.key)

-----------------------------------------------------------------------------
(* The pipeline.                                                           *)

Init ==
  /\ rows \in Analyses
  /\ stage = "read" /\ path = None
  /\ directed = {} /\ associations = {} /\ kept = {} /\ remaining = <<>>
  /\ groups = <<>> /\ ranking = <<>>

\* prepare_correlation, then choose_investigation_path on what it prepared.
Prepare ==
  /\ stage = "read"
  /\ directed' = Directed(rows)
  /\ associations' = Associations(rows)
  /\ path' = IF HasRelationships' THEN "correlated" ELSE "simple"
  /\ stage' = "prepared"
  /\ UNCHANGED <<rows, kept, remaining, groups, ranking>>

\* The first loop of enforce_dag: an edge that follows time closes no cycle.
KeepTimeOrdered ==
  /\ stage = "prepared" /\ path = "correlated"
  /\ kept' = {e \in directed : TimeOrdered(e)}
  /\ remaining' = SortedBy(SetToSeq({e \in directed : ~TimeOrdered(e)}), EdgeKey)
  /\ stage' = "ordering"
  /\ UNCHANGED <<rows, path, directed, associations, groups, ranking>>

\* The second loop, one edge: skipped when it would close a cycle.
ConsiderEdge ==
  /\ stage = "ordering" /\ remaining # <<>>
  /\ LET edge == Head(remaining)
     IN kept' = IF WouldCreateCycle(kept, edge.source, edge.target)
                THEN kept ELSE kept \cup {edge}
  /\ remaining' = Tail(remaining)
  /\ UNCHANGED <<rows, stage, path, directed, associations, groups, ranking>>

BuildComponents ==
  /\ stage = "ordering" /\ remaining = <<>>
  /\ groups' = Components
  /\ stage' = "grouped"
  /\ UNCHANGED <<rows, path, directed, associations, kept, remaining, ranking>>

RankRootCauses ==
  /\ stage = "grouped"
  /\ ranking' = [i \in DOMAIN groups |-> Rank(groups[i])]
  /\ stage' = "ranked"
  /\ UNCHANGED <<rows, path, directed, associations, kept, remaining, groups>>

Next ==
  \/ Prepare \/ KeepTimeOrdered \/ ConsiderEdge \/ BuildComponents \/ RankRootCauses

Spec == Init /\ [][Next]_vars

-----------------------------------------------------------------------------
(* Properties.                                                             *)

Signals ==
  SharedSignals \cup Structural \cup {"resolved_identity", "http_status", "parent_span", "temporal"}

IsEdge(e) ==
  /\ DOMAIN e = {"source", "target", "score", "delta", "signals", "kind"}
  /\ e.source \in Ids /\ e.target \in Ids \ {e.source}
  /\ e.score \in 1..Unit
  /\ e.signals # {} /\ e.signals \subseteq Signals
  /\ e.kind \in {None, "explicit_parent_child", "inferred_propagation"}

\* Types: every relation joins two different rows, for a reason and with a
\* positive score; every ranked score lies in the unit interval and every
\* group ranks its own rows.
TypeOK ==
  /\ stage \in {"read", "prepared", "ordering", "grouped", "ranked"}
  /\ path \in {None, "simple", "correlated"}
  /\ \A e \in directed \cup associations \cup kept : IsEdge(e)
  /\ kept \cup ToSet(remaining) \subseteq directed
  /\ \A i \in DOMAIN ranking :
       /\ {c.id : c \in ToSet(ranking[i])} = NodeIds(groups[i])
       /\ \A c \in ToSet(ranking[i]) : c.score \in 0..Unit

\* Two rows are related once: a pair that a parent span, an identity and the
\* clock all propose is neither counted twice nor drawn both ways.
OneRelationPerPair ==
  \A e, f \in directed \cup associations : PairOf(e) = PairOf(f) => e = f

\* The router's two tests agree: the rows take the correlated path on what was
\* prepared exactly when has_genuine_correlatable_structure would say so.
SameVerdict ==
  stage = "prepared" => (path = "correlated" <=> GenuineStructure(rows))

\* The relations do not depend on the order in which the rows were read,
\* except where two rows name each other as parent.
RowOrderIrrelevant ==
  LET Mutual == \E a, b \in ToSet(rows) :
                  a \in Parents(b, rows) /\ b \in Parents(a, rows)
  IN stage = "prepared" /\ ~Mutual =>
       \A order \in SetToSeqs(ToSet(rows)) :
         Directed(order) = directed /\ Associations(order) = associations

\* Reachability, said without a walk: no set closed under the edges holds the
\* one and misses the other.
Reaches(edges, from, to) ==
  \A S \in SUBSET Ids :
    from \in S /\ (\A e \in edges : e.source \in S => e.target \in S) => to \in S

\* What enforce_dag keeps has no cycle, although the edges that follow time are
\* kept unseen, and it drops no edge that a cycle did not forbid.
KeptIsGreatestDag ==
  stage \in {"grouped", "ranked"} =>
    /\ \A e \in kept : ~Reaches(kept, e.target, e.source)
    /\ \A e \in directed \ kept : Reaches(kept, e.target, e.source)

\* A dropped edge parts nothing: two rows share a group exactly when the
\* relations found before the graph was made acyclic connect them.
RelatedTogether ==
  LET Together(a, b) == \E g \in ToSet(groups) : {a, b} \subseteq NodeIds(g)
      Touches(S) == \E e \in directed \cup associations :
                      PairOf(e) \cap S # {} /\ ~(PairOf(e) \subseteq S)
  IN stage = "grouped" =>
       \A a, b \in Ids :
         Together(a, b) <=> \A S \in SUBSET Ids : a \in S /\ ~Touches(S) => b \in S

\* A trace or a request stays whole however large it is: the windows that
\* bound the pairs of a large group leave no row of it behind.
IdentityStaysWhole ==
  stage = "grouped" =>
    \A a, b \in ToSet(rows) : \A field \in {"trace_id", "request_id"} :
      SharedValue(a, b, field) /\ None \notin {r.format : r \in ToSet(rows)} =>
        \E g \in ToSet(groups) : {a.id, b.id} \subseteq NodeIds(g)

\* A group with a directed relation has a root and a victim to show.
EveryGroupHasRoot ==
  stage = "ranked" =>
    \A i \in DOMAIN groups : groups[i].edges # {} =>
      {"root", "victim"} \subseteq {c.role : c \in ToSet(ranking[i])}

\* A row that only associations tie to its group never outranks a root of it,
\* however severe and early it is: the weights leave it too little.
RootAboveUncorrelated ==
  \A i \in DOMAIN ranking : \A j, k \in DOMAIN ranking[i] :
    Len(ranking[i]) > 1 /\ ranking[i][j].role = "uncorrelated"
        /\ ranking[i][k].role = "root" => k < j

\* The downstream count, summed up along the topological order, is the number
\* of rows that can be reached.
DownstreamIsReachable ==
  \A i \in DOMAIN ranking : \A c \in ToSet(ranking[i]) :
    c.downstream = Cardinality({id \in Ids \ {c.id} : Reaches(kept, c.id, id)})

=============================================================================
