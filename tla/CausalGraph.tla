---------------------------- MODULE CausalGraph ----------------------------
(***************************************************************************)
(* enforce_dag with the walk of would_create_cycle, one popped node a step *)
(* (services/correlation_engine.py).  The walk's stack is a set: a list    *)
(* may hold a node more than once, and every pop of it but the first finds *)
(* it visited and does nothing.                                            *)
(***************************************************************************)
EXTENDS Integers

CONSTANTS Nodes, Horizon, None

VARIABLES
  edges, time, kept, todo,
  edge,      \* the edge whose cycle is looked for, or None
  stack,     \* the nodes still to be popped
  visited    \* the nodes whose successors have been pushed

vars == <<edges, time, kept, todo, edge, stack, visited>>

\* What the walk promises: the edges are selected as DagSelection says, an
\* edge under examination counting as not considered yet.
Selection == INSTANCE DagSelection
               WITH todo <- todo \cup (IF edge = None THEN {} ELSE {edge})

ASSUME NoneIsNoEdge == Horizon \in Nat /\ None \notin 0..Horizon /\ None \notin Nodes \X Nodes

Successors(n) == {m \in Nodes : <<n, m>> \in kept}

\* No row is its own parent, and no pair holds a row twice.
Init ==
  /\ edges \in SUBSET {e \in Nodes \X Nodes : e[1] # e[2]}
  /\ time \in [Nodes -> 0..Horizon \cup {None}]
  /\ kept = {e \in edges : Selection!TimeOrdered(e)}
  /\ todo = edges \ kept
  /\ edge = None /\ stack = {} /\ visited = {}

\* The next edge of the remaining ones; the walk starts from its target.
Start(e) ==
  /\ edge = None
  /\ e \in todo
  /\ todo' = todo \ {e}
  /\ edge' = e
  /\ stack' = {e[2]} /\ visited' = {}
  /\ UNCHANGED <<edges, time, kept>>

\* Mutant: the edge is kept although its source is met.
MutMeetSource ==
  /\ edge # None
  /\ edge[1] \in stack
  /\ kept' = kept \cup {edge}
  /\ edge' = None /\ stack' = {} /\ visited' = {}
  /\ UNCHANGED <<edges, time, todo>>

\* The source is popped: the edge is passed over.  The comparison of the two
\* ends before the walk never succeeds, as they differ.
MeetSource ==
  /\ edge # None
  /\ edge[1] \in stack
  /\ edge' = None /\ stack' = {} /\ visited' = {}
  /\ UNCHANGED <<edges, time, kept, todo>>

\* Another node is popped, and on its first pop its successors are pushed.
Pop(n) ==
  /\ edge # None
  /\ n \in stack \ {edge[1]}
  /\ visited' = visited \cup {n}
  /\ stack' = (stack \ {n}) \cup (IF n \in visited THEN {} ELSE Successors(n))
  /\ UNCHANGED <<edges, time, kept, todo, edge>>

\* The stack is empty: the edge closes no cycle and is kept.
Keep ==
  /\ edge # None
  /\ stack = {}
  /\ kept' = kept \cup {edge}
  /\ edge' = None /\ visited' = {}
  /\ UNCHANGED <<edges, time, todo, stack>>

Next ==
  \/ \E e \in todo : Start(e)
  \/ MeetSource
  \/ \E n \in stack : Pop(n)
  \/ Keep

Spec == Init /\ [][Next]_vars

-----------------------------------------------------------------------------
TypeOK ==
  /\ edges \subseteq Nodes \X Nodes
  /\ time \in [Nodes -> 0..Horizon \cup {None}]
  /\ kept \subseteq edges /\ todo \subseteq edges
  /\ edge \in edges \cup {None}
  /\ stack \subseteq Nodes /\ visited \subseteq Nodes

\* The walk so far: it holds the target and, of every node it has left behind,
\* all successors; it holds nothing the target does not lead to, and it has
\* not left the source behind.
WalkIsSound ==
  edge # None =>
    /\ edge[2] \in visited \cup stack
    /\ edge[1] \notin visited
    /\ \A n \in visited : Successors(n) \subseteq visited \cup stack
    /\ \A n \in visited \cup stack : Selection!Reaches(kept, edge[2], n)

\* The walk implements the selection.
SelectsDag == Selection!Spec

\* What is kept has no cycle at any time.
KeptIsAcyclic == Selection!KeptIsAcyclic

\* What is dropped would close one.
DroppedClosesCycle == Selection!DroppedClosesCycle

=============================================================================
