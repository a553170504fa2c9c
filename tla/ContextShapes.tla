--------------------------- MODULE ContextShapes ---------------------------
(***************************************************************************)
(* Groupings of nodes, and lists with the sizes of their items, for the    *)
(* runs of LlmContext.                                                     *)
(***************************************************************************)
EXTENDS Naturals

\* The ways to put five nodes of up to three artifacts in three groups.
Node(a, k) == [artifact |-> a, key |-> k]
NodeSets == {{Node(1, 1), Node(b, 2), Node(c, 3), Node(d, 4), Node(1, 5)} :
                b \in {1, 2}, c \in {1, 2, 3}, d \in {1, 2}}

\* The nodes by the group they are placed in.
Grouped(nodes, place) ==
    {{n \in nodes : place[n.key] = p} : p \in {place[n.key] : n \in nodes}}

Pairs == {{Node(1, 1), Node(2, 2)}, {Node(2, 3)}}

SomeGroupings == {{}, Pairs} \cup {Grouped(nodes, place) :
                    nodes \in NodeSets, place \in [1 .. 5 -> 1 .. 3]}

\* The sizes of the prefixes of a list.
Sized == {<<>>, <<1>>, <<2, 3>>, <<1, 4>>}

Small == [associations |-> <<1>>, propagation |-> <<1>>, artifacts |-> <<1>>,
          rootEvidence |-> <<1>>, texts |-> <<>>, rest |-> 1, instruction |-> 1]

Varied ==
    { [associations |-> a, propagation |-> p, artifacts |-> r, rootEvidence |-> e,
       texts |-> t, rest |-> s, instruction |-> 1] :
      a \in Sized, p \in Sized, r \in Sized, e \in Sized,
      t \in {<<>>, <<1>>, <<4>>, <<2, 3, 1>>}, s \in {0, 3, 6} }

SomeContexts == Varied \cup {Small}
=============================================================================
