--------------------------- MODULE EvidenceEvents ---------------------------
(***************************************************************************)
(* The events of artifacts for the runs of EvidenceStore.                  *)
(***************************************************************************)
CONSTANT None

\* An exception of a traced request, and what may differ between its events.
Base == [type |-> "E", level |-> "ERROR", message |-> "m", trace |-> "t",
         request |-> None, span |-> None, time |-> 2, service |-> None,
         failed |-> FALSE, hit |-> FALSE, size |-> 1]

Events ==
    { Base,
      [Base EXCEPT !.time = 1, !.service = "s"],
      [Base EXCEPT !.time = None, !.level = None, !.service = "r", !.hit = TRUE],
      [Base EXCEPT !.time = 3, !.size = 2, !.span = "p"],
      [Base EXCEPT !.trace = None, !.request = "q", !.size = 2],
      [Base EXCEPT !.trace = None, !.request = "t", !.time = None],
      [Base EXCEPT !.trace = None, !.type = None, !.hit = TRUE],
      [Base EXCEPT !.trace = None, !.type = None, !.level = "INFO", !.size = 3] }

\* No event, one, or three of them.
Logs == {<<>>, <<[Base EXCEPT !.trace = None, !.request = "q"]>>}
          \cup {<<e, f, g>> : e \in Events, f \in Events, g \in Events}
=============================================================================
