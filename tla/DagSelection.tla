--------------------------- MODULE DagSelection ---------------------------
(***************************************************************************)
(* What enforce_dag (services/correlation_engine.py) promises, whatever    *)
(* walk decides it: every edge that follows time is kept, and the others   *)
(* are taken one by one, each unless what is kept already leads from its   *)
(* target back to its source.  The order in which they come is left open:  *)
(* the promise holds for every one.                                        *)
(***************************************************************************)
EXTENDS Integers

CONSTANTS
  Nodes,     \* the ids of the evidence nodes
  Horizon,   \* a bound of the times, in milliseconds from the earliest
  None       \* the time of a row without a timestamp

VARIABLES
  edges,     \* the directed edges, as <<source, target>>
  time,      \* first_seen of each node
  kept,      \* dag_edges
  todo       \* the edges still to be considered

vars == <<edges, time, kept, todo>>

TimeOrdered(e) ==
  /\ time[e[1]] # None /\ time[e[2]] # None
  /\ time[e[1]] < time[e[2]]

\* Every set that is closed under the edges and holds a holds b.
Closed(S, E) == \A e \in E : e[1] \in S => e[2] \in S
Reaches(E, a, b) == \A S \in SUBSET Nodes : a \in S /\ Closed(S, E) => b \in S

Init ==
  /\ edges \in SUBSET {e \in Nodes \X Nodes : e[1] # e[2]}
  /\ time \in [Nodes -> 0..Horizon \cup {None}]
  /\ kept = {e \in edges : TimeOrdered(e)}
  /\ todo = edges \ kept

Consider(e) ==
  /\ e \in todo
  /\ todo' = todo \ {e}
  /\ kept' = IF Reaches(kept, e[2], e[1]) THEN kept ELSE kept \cup {e}
  /\ UNCHANGED <<edges, time>>

Next == \E e \in todo : Consider(e)

Spec == Init /\ [][Next]_vars

\* No set of nodes each of which has a successor in the set: no cycle, and for
\* finitely many nodes nothing less.  rank_root_causes relies on it: its
\* topological order would stop at a cycle.
Acyclic(E) ==
  ~ \E S \in SUBSET Nodes :
      S # {} /\ \A a \in S : \E b \in S : <<a, b>> \in E

KeptIsAcyclic == Acyclic(kept)

\* Nothing is dropped that could have stayed: an edge that is gone would close
\* a cycle with what is kept now, although more was kept after it went.
DroppedClosesCycle ==
  \A e \in edges \ (kept \cup todo) : Reaches(kept, e[2], e[1])
=============================================================================
