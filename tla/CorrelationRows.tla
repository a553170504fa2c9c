-------------------------- MODULE CorrelationRows --------------------------
(***************************************************************************)
(* Rows for the runs of Correlation: families of three or four rows, each  *)
(* varying the fields that one part of the engine looks at.                *)
(***************************************************************************)
EXTENDS Naturals

CONSTANT None

Blank(i) ==
  [id |-> i, line |-> 5 - i, fingerprint |-> i, key |-> 1, file |-> 1, artifact |-> 1,
   format |-> "generic", time |-> None, trace_id |-> None, request_id |-> None,
   span_id |-> None, parent_span_id |-> None, resolved_identity |-> None,
   service |-> None, module |-> None, host |-> None, container |-> None, pod |-> None,
   endpoint |-> None, exception |-> None, http_status |-> None, locations |-> {},
   confidences |-> {}, severity |-> None]

\* Sequences of n rows: every choice of times and of one change per row.
Family(n, times, Changes(_), Row(_, _)) ==
  {[i \in 1..n |-> [Row(Blank(i), c[i]) EXCEPT !.time = t[i]]] :
     t \in times,
     c \in {d \in [1..n -> UNION {Changes(i) : i \in 1..n}] :
              \A i \in 1..n : d[i] \in Changes(i)}}

MaybeOne == {None, 1}
MaybeTwo == {None, 1, 2}

\* Parent spans: chains, forks, loops and spans that clash with the clock.
SpanChanges(i) == [span_id : MaybeTwo, parent_span_id : MaybeTwo]
SpanRow(row, c) == [row EXCEPT !.span_id = c.span_id, !.parent_span_id = c.parent_span_id]

\* Traces and identities shared by up to four rows of unequal formats.
IdentityChanges(i) ==
  [trace_id : MaybeOne, resolved_identity : IF i = 4 THEN {1} ELSE MaybeOne,
   format : IF i \in {2, 3} THEN {"json", "web_server"} ELSE {"json"}]
IdentityRow(row, c) ==
  [row EXCEPT !.trace_id = c.trace_id, !.resolved_identity = c.resolved_identity,
              !.format = c.format]

\* Rows without an identity: services, exceptions and two artifacts.
ClockChanges(i) ==
  [service : IF i = 1 THEN {1} ELSE MaybeOne, exception : MaybeOne,
   artifact : {1, IF i = 3 THEN 2 ELSE 1},
   format : {"stack_trace", "database"}]
ClockRow(row, c) ==
  [row EXCEPT !.service = c.service, !.exception = c.exception,
              !.artifact = c.artifact, !.format = c.format]

\* The web's signals, a shared place in the source, and what failed.
WebChanges(i) ==
  [format : {"web_server", "browser"}, confidences : {{}},
   http_status : {IF i = 3 THEN 502 ELSE 200, 502},
   severity : {None}]
  \cup [format : {"stack_trace", "ci_cd"}, http_status : {None},
        confidences : {{"low"}, {"high", "medium"}},
        severity : {"critical", IF i = 3 THEN "critical" ELSE "warning"}]
WebRow(row, c) ==
  [row EXCEPT !.format = c.format, !.http_status = c.http_status,
              !.confidences = c.confidences, !.severity = c.severity,
              !.endpoint = 1, !.exception = 1,
              !.locations = IF c.confidences = {} THEN {} ELSE {1}]

\* A severe bystander, tied to a mild root by an association only.
BystanderRow(row, severity) ==
  [row EXCEPT !.format = "json", !.severity = severity,
              !.module = IF row.id <= 2 THEN 1 ELSE None,
              !.service = IF row.id \in {1, 3} THEN 1 ELSE None,
              !.trace_id = IF row.id \in {1, 4} THEN 1 ELSE None]
BystanderChanges(i) == {None, "critical"}

Analyses ==
  Family(3, {<<10, 0, 0>>, <<0, None, 20>>}, SpanChanges, SpanRow)
  \cup Family(4, {<<0, 10, 20, None>>}, IdentityChanges, IdentityRow)
  \cup Family(3, {<<0, 900, 2600>>, <<4800, 0, 0>>}, ClockChanges, ClockRow)
  \cup Family(3, {<<0, 1500, 1500>>}, WebChanges, WebRow)
  \cup Family(4, {<<0, 0, 900, None>>}, BystanderChanges, BystanderRow)
=============================================================================
