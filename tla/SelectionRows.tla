--------------------------- MODULE SelectionRows ---------------------------
(***************************************************************************)
(* Tables of evidence rows for the runs of EvidenceSelection.              *)
(***************************************************************************)
CONSTANT None

Base == [artifact |-> 1, line |-> 1, fingerprint |-> 1, trace |-> None, request |-> None,
         identified |-> FALSE, span |-> FALSE, severity |-> "ERROR", matches |-> FALSE,
         time |-> None, count |-> 1, size |-> 1]

\* What a row of the first artifact, and one of the second, may be.
First == { Base,
           [Base EXCEPT !.span = TRUE, !.trace = 1, !.time = 2, !.size = 2],
           [Base EXCEPT !.fingerprint = 2, !.trace = 1, !.matches = TRUE, !.size = 4],
           [Base EXCEPT !.fingerprint = 3, !.severity = "WARN", !.time = 1, !.count = 2] }
Second == { Base,
            [Base EXCEPT !.trace = 1, !.time = 3],
            [Base EXCEPT !.request = 1, !.severity = None, !.size = 3, !.fingerprint = 3],
            [Base EXCEPT !.fingerprint = 4, !.identified = TRUE, !.severity = "FATAL", !.time = 1] }

At(r, a, n) == [r EXCEPT !.artifact = a, !.line = n]

\* Tables of five rows, the fourth on the line of the third, one of a third artifact.
RowSets ==
    { {At(p, 1, 1), At(q, 1, 2), At(r, 1, 3),
       [At(r, 1, 3) EXCEPT !.fingerprint = 5, !.size = 1],
       At(s, 2, 11), At(t, 3, 21)} :
      p \in First, q \in First, r \in First, s \in Second, t \in Second }
=============================================================================
