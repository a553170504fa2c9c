------------------------ MODULE InvestigationProofs ------------------------
(***************************************************************************)
(* Proofs about four algorithms of an investigation.                       *)
(*                                                                         *)
(* CausalGraph, for every set of nodes, every graph on it and every choice *)
(* of times: the walk decides reachability, what is kept has no cycle,     *)
(* what is dropped would close one, and the walk implements the selection  *)
(* of DagSelection.                                                        *)
(*                                                                         *)
(* PrefixSearch, for every list, every budget and every context that does  *)
(* not shrink when an item is added: the bisection leaves the longest      *)
(* prefix that fits.                                                       *)
(*                                                                         *)
(* LlmContext, for all groups, lists, texts and budgets: the group that is *)
(* told, the order of the cuts, their extent, and what the context says of *)
(* itself.                                                                 *)
(*                                                                         *)
(* EvidenceSelection, for all tables of finitely many rows, all limits and *)
(* all sizes of a batch: the scan, the heap and its counts, the pick and   *)
(* the rounds.                                                             *)
(***************************************************************************)
EXTENDS Investigation, Sequences, FiniteSetTheorems, WellFoundedInduction, TLAPS

-----------------------------------------------------------------------------
(* Graphs.                                                                 *)

\* Edges that follow a bounded time close no cycle: some node of every set is
\* among the latest, and has no successor in the set.
LEMMA TimeClosesNoCycle ==
  ASSUME time \in [Nodes -> 0..Horizon \cup {None}]
  PROVE  Selection!Acyclic({e \in edges : Selection!TimeOrdered(e)})
<1> SUFFICES ASSUME NEW S \in SUBSET Nodes, S # {},
                    \A a \in S : \E b \in S :
                      <<a, b>> \in {e \in edges : Selection!TimeOrdered(e)}
             PROVE  FALSE
  BY DEF Selection!Acyclic
<1> DEFINE T == {Horizon - time[n] : n \in S}
<1>1. \A n \in S : time[n] \in 0..Horizon /\ \E m \in S : time[m] \in 0..Horizon /\ time[n] < time[m]
  BY DEF Selection!TimeOrdered
<1>2. T \subseteq Nat /\ T # {}
  BY <1>1, NoneIsNoEdge
<1> HIDE DEF T
<1>3. PICK x \in T : \A y \in T : ~ (<<y, x>> \in OpToRel(<, Nat))
  BY <1>2, WFMin, NatLessThanWellFounded
<1>4. \A y \in T : ~ (y < x)
  BY <1>2, <1>3 DEF OpToRel
<1>5. PICK n \in S : x = Horizon - time[n]
  BY DEF T
<1>6. PICK m \in S : time[m] \in 0..Horizon /\ time[n] < time[m]
  BY <1>1
<1>7. Horizon - time[m] \in T
  BY DEF T
<1>8. Horizon - time[m] < x
  BY <1>1, <1>5, <1>6, NoneIsNoEdge
<1> QED BY <1>4, <1>7, <1>8

\* An edge whose target does not lead back to its source closes no cycle: a
\* cycle would pass the edge, lie on the far side of it, and so avoid it.
LEMMA AddEdge ==
  ASSUME NEW E, NEW e \in Nodes \X Nodes,
         Selection!Acyclic(E), ~Selection!Reaches(E, e[2], e[1])
  PROVE  Selection!Acyclic(E \cup {e})
<1> SUFFICES ASSUME NEW S \in SUBSET Nodes, S # {},
                    \A a \in S : \E b \in S : <<a, b>> \in E \cup {e}
             PROVE  FALSE
  BY DEF Selection!Acyclic
<1>1. PICK C \in SUBSET Nodes : e[2] \in C /\ Selection!Closed(C, E) /\ e[1] \notin C
  BY DEF Selection!Reaches
<1>2. CASE S \cap C = {}
  <2>1. \A a \in S : \E b \in S : <<a, b>> \in E
    BY <1>1, <1>2
  <2> QED BY <2>1 DEF Selection!Acyclic
<1>3. CASE S \cap C # {}
  <2>1. ASSUME NEW a \in S \cap C
        PROVE  \E b \in S \cap C : <<a, b>> \in E
    <3>1. PICK b \in S : <<a, b>> \in E \cup {e}
      OBVIOUS
    <3>2. <<a, b>> # e
      BY <1>1
    <3>3. <<a, b>> \in E
      BY <3>1, <3>2
    <3>4. b \in C
      BY <1>1, <3>3 DEF Selection!Closed
    <3> QED BY <3>1, <3>3, <3>4
  <2> QED BY <1>3, <2>1 DEF Selection!Acyclic
<1> QED BY <1>2, <1>3

\* More edges reach no less.
LEMMA MoreReaches ==
  ASSUME NEW E, NEW e, NEW a, NEW b, Selection!Reaches(E, a, b)
  PROVE  Selection!Reaches(E \cup {e}, a, b)
BY DEF Selection!Reaches, Selection!Closed

-----------------------------------------------------------------------------
(* The walk.                                                               *)

Inv == TypeOK /\ edge \notin todo /\ WalkIsSound /\ KeptIsAcyclic /\ DroppedClosesCycle

\* When the stack is empty, what the walk has visited is closed, holds the
\* target and misses the source.
LEMMA EmptyStackMeansFree ==
  ASSUME Inv, edge # None, stack = {}
  PROVE  ~Selection!Reaches(kept, edge[2], edge[1])
<1>1. visited \in SUBSET Nodes /\ edge[2] \in visited /\ edge[1] \notin visited
  BY DEF Inv, TypeOK, WalkIsSound
<1>2. Selection!Closed(visited, kept)
  <2> SUFFICES ASSUME NEW f \in kept, f[1] \in visited
               PROVE  f[2] \in visited
    BY DEF Selection!Closed
  <2>1. f = <<f[1], f[2]>> /\ f[2] \in Nodes
    BY DEF Inv, TypeOK
  <2>2. f[2] \in Successors(f[1])
    BY <2>1 DEF Successors
  <2> QED BY <2>2 DEF Inv, WalkIsSound
<1> QED BY <1>1, <1>2 DEF Selection!Reaches

\* When the source is on the stack, the target leads to it.
LEMMA SourceMeansCycle ==
  ASSUME Inv, edge # None, edge[1] \in stack
  PROVE  Selection!Reaches(kept, edge[2], edge[1])
BY DEF Inv, WalkIsSound

LEMMA InitInv == Init => Inv
<1> SUFFICES ASSUME Init PROVE Inv
  OBVIOUS
<1>1. TypeOK /\ edge \notin todo
  BY NoneIsNoEdge DEF Init, TypeOK
<1>2. WalkIsSound
  BY DEF Init, WalkIsSound
<1>3. KeptIsAcyclic
  BY TimeClosesNoCycle DEF Init, KeptIsAcyclic, Selection!KeptIsAcyclic
<1>4. DroppedClosesCycle
  BY DEF Init, DroppedClosesCycle, Selection!DroppedClosesCycle
<1> QED BY <1>1, <1>2, <1>3, <1>4 DEF Inv

\* One step, action by action; the walk changes what is kept only at its end.
LEMMA NextInv ==
  ASSUME Inv, [Next]_vars
  PROVE  Inv'
<1> USE DEF Inv
<1>1. ASSUME NEW e \in todo, Start(e)
      PROVE  Inv'
  <2>1. e \in edges /\ e[1] \in Nodes /\ e[2] \in Nodes /\ edge' = e
    BY <1>1 DEF Start, TypeOK
  <2>2. TypeOK' /\ edge' \notin todo'
    BY <1>1, <2>1 DEF Start, TypeOK
  <2>3. WalkIsSound'
    BY <1>1, <2>1 DEF Start, WalkIsSound, Selection!Reaches
  <2>4. KeptIsAcyclic'
    BY <1>1 DEF Start, KeptIsAcyclic, Selection!KeptIsAcyclic, Selection!Acyclic
  <2>5. DroppedClosesCycle'
    BY <1>1, NoneIsNoEdge DEF Start, TypeOK, DroppedClosesCycle,
         Selection!DroppedClosesCycle, Selection!Reaches, Selection!Closed
  <2> QED BY <2>2, <2>3, <2>4, <2>5
<1>2. ASSUME MeetSource
      PROVE  Inv'
  <2>1. TypeOK' /\ edge' \notin todo'
    BY <1>2, NoneIsNoEdge DEF MeetSource, TypeOK
  <2>2. WalkIsSound'
    BY <1>2 DEF MeetSource, WalkIsSound
  <2>3. KeptIsAcyclic'
    BY <1>2 DEF MeetSource, KeptIsAcyclic, Selection!KeptIsAcyclic, Selection!Acyclic
  <2>4. Selection!Reaches(kept, edge[2], edge[1])
    BY <1>2, SourceMeansCycle DEF MeetSource
  <2>5. DroppedClosesCycle'
    BY <1>2, <2>4 DEF MeetSource, TypeOK, DroppedClosesCycle,
         Selection!DroppedClosesCycle, Selection!Reaches, Selection!Closed
  <2> QED BY <2>1, <2>2, <2>3, <2>5
<1>3. ASSUME NEW n \in stack, Pop(n)
      PROVE  Inv'
  <2>1. TypeOK' /\ edge' \notin todo'
    BY <1>3 DEF Pop, TypeOK, Successors
  <2>2. Successors(n)' = Successors(n) /\ \A m : Successors(m)' = Successors(m)
    BY <1>3 DEF Pop, Successors
  <2>3. \A m \in Successors(n) : Selection!Reaches(kept, edge[2], m)
    <3> SUFFICES ASSUME NEW m \in Successors(n), NEW S \in SUBSET Nodes,
                        edge[2] \in S, Selection!Closed(S, kept)
                 PROVE  m \in S
      BY DEF Selection!Reaches
    <3>1. n \in S
      BY <1>3 DEF Pop, WalkIsSound, Selection!Reaches
    <3> QED BY <3>1 DEF Successors, Selection!Closed
  <2>4. WalkIsSound'
    <3> SUFFICES ASSUME edge' # None
                 PROVE  /\ edge'[2] \in visited' \cup stack'
                        /\ edge'[1] \notin visited'
                        /\ \A m \in visited' : Successors(m)' \subseteq visited' \cup stack'
                        /\ \A m \in visited' \cup stack' : Selection!Reaches(kept, edge[2], m)'
      BY <1>3 DEF Pop, WalkIsSound
    <3>1. edge'[2] \in visited' \cup stack' /\ edge'[1] \notin visited'
      BY <1>3 DEF Pop, WalkIsSound
    <3>2. \A m \in visited' : Successors(m)' \subseteq visited' \cup stack'
      BY <1>3, <2>2 DEF Pop, WalkIsSound
    <3>3. \A m \in visited' \cup stack' : Selection!Reaches(kept, edge[2], m)
      BY <1>3, <2>3 DEF Pop, WalkIsSound
    <3> QED BY <1>3, <3>1, <3>2, <3>3 DEF Pop, Selection!Reaches, Selection!Closed
  <2>5. KeptIsAcyclic'
    BY <1>3 DEF Pop, KeptIsAcyclic, Selection!KeptIsAcyclic, Selection!Acyclic
  <2>6. DroppedClosesCycle'
    BY <1>3 DEF Pop, DroppedClosesCycle, Selection!DroppedClosesCycle,
         Selection!Reaches, Selection!Closed
  <2> QED BY <2>1, <2>4, <2>5, <2>6
<1>4. ASSUME Keep
      PROVE  Inv'
  <2>1. edge \in edges /\ edge \in Nodes \X Nodes
    BY <1>4 DEF Keep, TypeOK
  <2>2. TypeOK' /\ edge' \notin todo'
    BY <1>4, <2>1, NoneIsNoEdge DEF Keep, TypeOK
  <2>3. WalkIsSound'
    BY <1>4 DEF Keep, WalkIsSound
  <2>4. ~Selection!Reaches(kept, edge[2], edge[1])
    BY <1>4, EmptyStackMeansFree DEF Keep
  <2>5. Selection!Acyclic(kept \cup {edge})
    BY <2>1, <2>4, AddEdge DEF KeptIsAcyclic, Selection!KeptIsAcyclic
  <2>6. KeptIsAcyclic'
    BY <1>4, <2>5 DEF Keep, KeptIsAcyclic, Selection!KeptIsAcyclic, Selection!Acyclic
  <2>7. ASSUME NEW f \in edges \ (kept \cup {edge} \cup todo)
        PROVE  Selection!Reaches(kept \cup {edge}, f[2], f[1])
    <3>1. Selection!Reaches(kept, f[2], f[1])
      BY <2>7 DEF DroppedClosesCycle, Selection!DroppedClosesCycle
    <3> QED BY <3>1, MoreReaches
  <2>8. DroppedClosesCycle'
    BY <1>4, <2>7 DEF Keep, DroppedClosesCycle, Selection!DroppedClosesCycle,
         Selection!Reaches, Selection!Closed
  <2> QED BY <2>2, <2>3, <2>6, <2>8
<1>5. ASSUME UNCHANGED vars
      PROVE  Inv'
  BY <1>5 DEF vars, TypeOK, WalkIsSound, Successors, KeptIsAcyclic, DroppedClosesCycle,
       Selection!KeptIsAcyclic, Selection!Acyclic, Selection!DroppedClosesCycle,
       Selection!Reaches, Selection!Closed
<1> QED BY <1>1, <1>2, <1>3, <1>4, <1>5 DEF Next

\* The four facts hold in every reachable state.
THEOREM Invariance == Spec => []Inv
<1>1. Inv /\ [Next]_vars => Inv'
  BY NextInv
<1> QED BY <1>1, InitInv, PTL DEF Spec

\* The walk of would_create_cycle is sound and complete so far.
THEOREM WalkCorrect == Spec => []WalkIsSound
<1>1. Inv => WalkIsSound
  BY DEF Inv
<1> QED BY <1>1, Invariance, PTL

\* enforce_dag keeps no cycle.
THEOREM KeptAcyclic == Spec => []KeptIsAcyclic
<1>1. Inv => KeptIsAcyclic
  BY DEF Inv
<1> QED BY <1>1, Invariance, PTL

\* enforce_dag drops no edge without need.
THEOREM DroppedNeedsCycle == Spec => []DroppedClosesCycle
<1>1. Inv => DroppedClosesCycle
  BY DEF Inv
<1> QED BY <1>1, Invariance, PTL

-----------------------------------------------------------------------------
(* The walk implements the selection.                                      *)

LEMMA InitSelects == Init => Selection!Init
BY DEF Init, Selection!Init, Selection!TimeOrdered

\* The edge is decided at the end of its walk, as reachability says; until
\* then it counts as one that is still to come.
LEMMA NextSelects ==
  ASSUME Inv, [Next]_vars
  PROVE  [Selection!Next]_(Selection!vars)
<1> USE DEF Selection!vars
<1>1. ASSUME NEW e \in todo, Start(e)
      PROVE  UNCHANGED Selection!vars
  <2>1. edge = None /\ edge' = e /\ e # None
    BY <1>1, NoneIsNoEdge DEF Start, Inv, TypeOK
  <2> QED BY <1>1, <2>1 DEF Start
<1>2. ASSUME MeetSource
      PROVE  Selection!Next
  <2>1. Selection!Consider(edge)
    BY <1>2, SourceMeansCycle DEF MeetSource, Inv, Selection!Consider
  <2> QED BY <1>2, <2>1 DEF MeetSource, Selection!Next
<1>3. ASSUME NEW n \in stack, Pop(n)
      PROVE  UNCHANGED Selection!vars
  BY <1>3 DEF Pop
<1>4. ASSUME Keep
      PROVE  Selection!Next
  <2>1. Selection!Consider(edge)
    BY <1>4, EmptyStackMeansFree DEF Keep, Inv, Selection!Consider
  <2> QED BY <1>4, <2>1 DEF Keep, Selection!Next
<1>5. ASSUME UNCHANGED vars
      PROVE  UNCHANGED Selection!vars
  BY <1>5 DEF vars
<1> QED BY <1>1, <1>2, <1>3, <1>4, <1>5 DEF Next

\* enforce_dag with its walk is the selection that DagSelection states.
THEOREM WalkSelects == Spec => SelectsDag
<1>1. Inv /\ [Next]_vars => [Selection!Next]_(Selection!vars)
  BY NextSelects
<1> QED BY <1>1, InitSelects, Invariance, PTL DEF Spec, SelectsDag, Selection!Spec

-----------------------------------------------------------------------------
(* The search for a prefix.  The prefix at the lower bound fits and none   *)
(* above the upper bound does.                                             *)

Between == /\ step = "start" => low = 0 /\ high = SearchItems
           /\ step = "search" =>
                 /\ Search!Fits(low)
                 /\ \A n \in high + 1 .. SearchItems : ~Search!Fits(n)

SearchInv == Search!TypeOK /\ Search!Growing(size) /\ Between /\ Search!LongestThatFits

USE DEF Search!SearchAssumption

\* The middle of two bounds lies above the lower and not above the upper.
LEMMA MiddleBetween ==
    ASSUME Search!SearchAssumption, low \in 0 .. SearchItems, high \in 0 .. SearchItems,
           low < high
    PROVE  Search!Middle \in low + 1 .. high /\ Search!Middle \in 0 .. SearchItems
BY DEF Search!Middle

\* A size is a number: the comparisons with the budget are arithmetic.
LEMMA SizeIsNat ==
    ASSUME Search!SearchAssumption, Search!TypeOK, NEW n \in 0 .. SearchItems
    PROVE  size[n] \in Nat
BY DEF Search!TypeOK

\* A prefix that does not fit has no longer one that does.
LEMMA LongerDoesNotFit ==
    ASSUME Search!SearchAssumption, Search!TypeOK, Search!Growing(size),
           NEW m \in 0 .. SearchItems, ~Search!Fits(m), NEW n \in m .. SearchItems
    PROVE  ~Search!Fits(n)
<1>1. size[m] <= size[n]
  BY DEF Search!Growing
<1>2. size[m] \in Nat /\ size[n] \in Nat
  BY SizeIsNat
<1> QED
  BY <1>1, <1>2 DEF Search!Fits

LEMMA SearchInit == Search!SearchAssumption /\ Search!Init => SearchInv
BY DEF Search!Init, SearchInv, Search!TypeOK, Between, Search!LongestThatFits

LEMMA SearchStep == Search!SearchAssumption /\ SearchInv /\ [Search!Next]_Search!vars => SearchInv'
<1> SUFFICES ASSUME Search!SearchAssumption, SearchInv, [Search!Next]_Search!vars PROVE SearchInv'
  OBVIOUS
<1> USE DEF SearchInv
<1>1. CASE Search!NothingFits
  <2>1. Search!TypeOK' /\ Search!Growing(size)' /\ Between'
    BY <1>1 DEF Search!NothingFits, Search!TypeOK, Search!Growing, Between
  <2>2. Search!LongestThatFits'
    <3>1. \A n \in 1 .. SearchItems : ~Search!Fits(n)
      BY <1>1, LongerDoesNotFit DEF Search!NothingFits
    <3> QED
      BY <1>1, <3>1 DEF Search!NothingFits, Search!LongestThatFits, Search!Fits
  <2> QED
    BY <2>1, <2>2
<1>2. CASE Search!Start
  <2>1. Between'
    BY <1>2 DEF Search!Start, Between, Search!Fits, Search!TypeOK
  <2> QED
    BY <1>2, <2>1 DEF Search!Start, Search!TypeOK, Search!Growing, Between, Search!LongestThatFits
<1>3. CASE Search!Halve
  <2>1. Search!Middle \in low + 1 .. high /\ Search!Middle \in 0 .. SearchItems
    BY <1>3, MiddleBetween DEF Search!Halve, Search!TypeOK
  <2>2. Search!TypeOK' /\ Search!Growing(size)' /\ Search!LongestThatFits'
    BY <1>3, <2>1 DEF Search!Halve, Search!TypeOK, Search!Growing, Search!LongestThatFits
  <2>3. Between'
    <3>1. CASE Search!Fits(Search!Middle)
      BY <1>3, <2>1, <3>1 DEF Search!Halve, Between, Search!Fits, Search!TypeOK
    <3>2. CASE ~Search!Fits(Search!Middle)
      <4>1. \A n \in Search!Middle .. SearchItems : ~Search!Fits(n)
        BY <2>1, <3>2, LongerDoesNotFit
      <4>2. Search!Fits(low)
        BY <1>3 DEF Search!Halve, Between
      <4>3. high' = Search!Middle - 1 /\ low' = low /\ size' = size /\ step' = "search"
        BY <1>3, <3>2 DEF Search!Halve
      <4> QED
        BY <2>1, <4>1, <4>2, <4>3 DEF Between, Search!Fits, Search!TypeOK
    <3> QED
      BY <3>1, <3>2
  <2> QED
    BY <2>2, <2>3
<1>4. CASE Search!Finish
  <2>1. low = high
    BY <1>4 DEF Search!Finish, Search!TypeOK
  <2>2. Search!TypeOK' /\ Search!Growing(size)' /\ Between'
    BY <1>4 DEF Search!Finish, Search!TypeOK, Search!Growing, Between
  <2>3. Search!LongestThatFits'
    BY <1>4, <2>1 DEF Search!Finish, Between, Search!LongestThatFits, Search!Fits
  <2> QED
    BY <2>2, <2>3
<1>5. CASE UNCHANGED Search!vars
  BY <1>5 DEF Search!vars, Search!TypeOK, Search!Growing, Between, Search!LongestThatFits, Search!Fits
<1> QED
  BY <1>1, <1>2, <1>3, <1>4, <1>5 DEF Search!Next

\* The bounds stay in the list and in order, whatever the list and the sizes.
THEOREM PrefixTyped == Search!Spec => []Search!TypeOK
<1>1. SearchInv => Search!TypeOK
  BY DEF SearchInv
<1> QED
  BY SearchInit, SearchStep, <1>1, InvestigationAssumption, PTL DEF Search!Spec

\* The prefix the search leaves in the context is the longest that fits
\* (_largest_prefix_that_fits), for every list and budget.
THEOREM PrefixIsLongest == Search!Spec => []Search!LongestThatFits
<1>1. SearchInv => Search!LongestThatFits
  BY DEF SearchInv
<1> QED
  BY SearchInit, SearchStep, <1>1, InvestigationAssumption, PTL DEF Search!Spec

-----------------------------------------------------------------------------
(* The group that is told.                                                 *)

LEMMA SameCardinality ==
  ASSUME NEW S
  PROVE  Telling!Cardinality(S) = Cardinality(S) /\ (Telling!IsFiniteSet(S) <=> IsFiniteSet(S))
BY DEF Telling!Cardinality, Cardinality, Telling!IsFiniteSet, IsFiniteSet

LEMMA ContextConstants ==
  /\ ContextBudget \in Nat /\ FallbackBudget \in Nat
  /\ \A all \in Groupings :
       /\ IsFiniteSet(all) /\ None \notin all
       /\ \A g \in all : IsFiniteSet(g) /\ g # {} /\ \A n \in g : n.key \in Int
  /\ \A c \in Contexts :
       /\ c.rest \in Nat /\ c.instruction \in Nat /\ c.texts \in Seq(Nat)
       /\ \A l \in {"associations", "propagation", "artifacts", "rootEvidence"} :
             c[l] \in Seq(Nat)
BY InvestigationAssumption, SameCardinality DEF Telling!ContextAssumption

\* A set of numbers up to some number has a greatest one, and a set of natural
\* numbers a least.
LEMMA LeastNumber ==
  ASSUME NEW S \in SUBSET Nat, S # {}
  PROVE  \E x \in S : \A y \in S : x <= y
<1>1. PICK x \in S : \A y \in S : ~ (<<y, x>> \in OpToRel(<, Nat))
  BY WFMin, NatLessThanWellFounded
<1>2. \A y \in S : ~ (y < x)
  BY <1>1 DEF OpToRel
<1>3. \A y \in S : y \in Nat
  OBVIOUS
<1> QED
  BY <1>2, <1>3

LEMMA GreatestNumber ==
  ASSUME NEW k \in Nat, NEW S \in SUBSET (0 .. k), S # {}
  PROVE  \E x \in S : \A y \in S : x >= y
<1> DEFINE T == {k - n : n \in S}
<1>1. T \in SUBSET Nat /\ T # {}
  <2>1. \A n \in S : n \in 0 .. k /\ k - n \in Nat
    OBVIOUS
  <2>2. T \in SUBSET Nat
    BY <2>1
  <2>3. PICK n \in S : TRUE
    OBVIOUS
  <2>4. k - n \in T
    BY <2>3
  <2> QED
    BY <2>2, <2>4
<1> HIDE DEF T
<1>2. PICK t \in T : \A y \in T : t <= y
  BY <1>1, LeastNumber
<1>3. PICK x \in S : t = k - x
  BY DEF T
<1>4. ASSUME NEW y \in S PROVE x >= y
  <2>1. k - y \in T
    BY DEF T
  <2> QED
    BY <1>2, <1>3, <2>1
<1> QED
  BY <1>4

LEMMA ImageIsFinite ==
  ASSUME NEW S, IsFiniteSet(S), NEW T, NEW f \in [S -> T], \A t \in T : \E s \in S : f[s] = t
  PROVE  IsFiniteSet(T) /\ Cardinality(T) <= Cardinality(S)
<1>1. f \in Surjection(S, T)
  BY DEF Surjection
<1> QED
  BY <1>1, FS_Surjection

\* A finite set has a least element in every strict order: one that has the
\* fewest below it.
LEMMA LeastElement ==
  ASSUME NEW S, IsFiniteSet(S), S # {}, NEW R,
         \A x \in S : <<x, x>> \notin R,
         \A x, y, z \in S : <<x, y>> \in R /\ <<y, z>> \in R => <<x, z>> \in R
  PROVE  \E x \in S : \A y \in S : <<y, x>> \notin R
<1> DEFINE Below(x) == {y \in S : <<y, x>> \in R}
<1> DEFINE T == {n \in Nat : \E x \in S : n = Cardinality(Below(x))}
<1>1. \A x \in S : IsFiniteSet(Below(x)) /\ Cardinality(Below(x)) \in Nat
  BY FS_Subset, FS_CardinalityType
<1>2. T \in SUBSET Nat /\ T # {}
  <2> HIDE DEF Below
  <2> QED
    BY <1>1
<1> HIDE DEF T
<1>3. PICK t \in T : \A u \in T : t <= u
  BY <1>2, LeastNumber
<1>4. PICK x \in S : t = Cardinality(Below(x))
  <2> HIDE DEF Below
  <2> QED
    BY DEF T
<1>5. ASSUME NEW y \in S, <<y, x>> \in R PROVE FALSE
  <2>1. Below(y) \in SUBSET Below(x) /\ y \in Below(x) /\ y \notin Below(y)
    BY <1>5
  <2>2. Cardinality(Below(y)) <= Cardinality(Below(x))
        /\ Cardinality(Below(y)) # Cardinality(Below(x))
    <3> HIDE DEF Below
    <3> QED
      BY <1>1, <1>4, <2>1, FS_Subset
  <2> HIDE DEF Below
  <2>3. Cardinality(Below(y)) \in T
    BY <1>1 DEF T
  <2> QED
    BY <1>1, <1>3, <1>4, <2>2, <2>3
<1> QED
  BY <1>5

Keys == Int \X Int \X Int

\* The order of the keys, written out.
LEMMA BeforeMeans ==
  ASSUME NEW a \in Keys, NEW b \in Keys
  PROVE  Telling!Before(a, b) <=> \/ a[1] < b[1]
                                  \/ a[1] = b[1] /\ a[2] < b[2]
                                  \/ a[1] = b[1] /\ a[2] = b[2] /\ a[3] < b[3]
<1>1. Len(a) = 3 /\ a[1] \in Int /\ a[2] \in Int /\ a[3] \in Int
  BY DEF Keys
<1>2. Len(b) = 3 /\ b[1] \in Int /\ b[2] \in Int /\ b[3] \in Int
  BY DEF Keys
<1>3. 1 .. Len(a) = {1, 2, 3}
  BY <1>1
<1>4. 1 .. (1 - 1) = {} /\ 1 .. (2 - 1) = {1} /\ 1 .. (3 - 1) = {1, 2}
  OBVIOUS
<1>5. Telling!Before(a, b) <=> \E i \in {1, 2, 3} : a[i] < b[i] /\ \A j \in 1 .. i - 1 : a[j] = b[j]
  BY <1>3 DEF Telling!Before
<1> QED
  BY <1>4, <1>5

LEMMA BeforeIsTransitive ==
  ASSUME NEW a \in Keys, NEW b \in Keys, NEW c \in Keys,
         Telling!Before(a, b), Telling!Before(b, c)
  PROVE  Telling!Before(a, c)
<1>1. /\ a[1] \in Int /\ a[2] \in Int /\ a[3] \in Int
      /\ b[1] \in Int /\ b[2] \in Int /\ b[3] \in Int
      /\ c[1] \in Int /\ c[2] \in Int /\ c[3] \in Int
  BY DEF Keys
<1> QED
  BY <1>1, BeforeMeans

LEMMA BeforeIsStrict ==
  ASSUME NEW a \in Keys
  PROVE  ~Telling!Before(a, a)
<1>1. a[1] \in Int /\ a[2] \in Int /\ a[3] \in Int
  BY DEF Keys
<1> QED
  BY <1>1, BeforeMeans

\* A group's key is one: it has finitely many nodes, one at least.
LEMMA GroupKeyType ==
  ASSUME NEW all \in Groupings, NEW g \in all
  PROVE  /\ Telling!GroupKey(g) \in Keys
         /\ Telling!GroupKey(g)[1] = -Cardinality(Telling!ArtifactsOf(g))
         /\ Telling!GroupKey(g)[2] = -Cardinality(g)
         /\ Cardinality(g) \in Nat \ {0}
         /\ Cardinality(Telling!ArtifactsOf(g)) \in 1 .. Cardinality(g)
<1>1. IsFiniteSet(g) /\ g # {} /\ \A n \in g : n.key \in Int
  BY ContextConstants
<1>2. Cardinality(g) \in Nat \ {0}
  BY <1>1, FS_CardinalityType, FS_EmptySet
<1> DEFINE K == {n.key : n \in g}
<1> DEFINE A == {n.artifact : n \in g}
<1>3. IsFiniteSet(K) /\ K # {} /\ K \in SUBSET Int
  <2>1. [n \in g |-> n.key] \in [g -> K]
    OBVIOUS
  <2>2. \A t \in K : \E s \in g : [n \in g |-> n.key][s] = t
    OBVIOUS
  <2> HIDE DEF K
  <2>3. IsFiniteSet(K)
    BY <1>1, <2>1, <2>2, ImageIsFinite
  <2> USE DEF K
  <2> QED
    BY <1>1, <2>3
<1>4. IsFiniteSet(A) /\ Cardinality(A) <= Cardinality(g) /\ A # {}
  <2>1. [n \in g |-> n.artifact] \in [g -> A]
    OBVIOUS
  <2>2. \A t \in A : \E s \in g : [n \in g |-> n.artifact][s] = t
    OBVIOUS
  <2>3. A # {}
    BY <1>1
  <2> HIDE DEF A
  <2> QED
    BY <1>1, <2>1, <2>2, <2>3, ImageIsFinite
<1>5. Cardinality(A) \in 1 .. Cardinality(g)
  <2>1. Cardinality(A) \in Nat /\ Cardinality(A) # 0
    BY <1>4, FS_CardinalityType, FS_EmptySet
  <2> QED
    BY <1>2, <1>4, <2>1
<1>6. \E x \in K : \A y \in K : x <= y
  <2> DEFINE R == {p \in Int \X Int : p[1] < p[2]}
  <2>1. \A x, y \in Int : <<x, y>> \in R <=> x < y
    OBVIOUS
  <2> HIDE DEF R, K
  <2>2. /\ \A x \in K : <<x, x>> \notin R
        /\ \A x, y, z \in K : <<x, y>> \in R /\ <<y, z>> \in R => <<x, z>> \in R
    BY <1>3, <2>1
  <2>3. \E x \in K : \A y \in K : <<y, x>> \notin R
    BY <1>3, <2>2, LeastElement
  <2>4. PICK x \in K : \A y \in K : <<y, x>> \notin R
    BY <2>3
  <2>5. \A y \in K : y \in Int /\ x \in Int /\ ~(y < x)
    BY <1>3, <2>1, <2>4
  <2> QED
    BY <2>5
<1>7. Telling!Min(K) \in Int
  <2>1. Telling!Min(K) \in K
    BY <1>6 DEF Telling!Min
  <2> QED
    BY <1>3, <2>1
<1>8. Telling!ArtifactsOf(g) = A
  BY DEF Telling!ArtifactsOf
<1>9. Telling!GroupKey(g) = <<-Cardinality(A), -Cardinality(g), Telling!Min(K)>>
  BY <1>8, SameCardinality DEF Telling!GroupKey
<1> HIDE DEF A, K
<1> QED
  BY <1>2, <1>5, <1>7, <1>8, <1>9 DEF Keys

\* The group chosen is one that none comes before: one of most artifacts.
LEMMA BestHolds ==
  ASSUME NEW all \in Groupings, all # {}, NEW b, b = Telling!Best(all)
  PROVE  /\ b \in all
         /\ \A g \in all : ~Telling!Before(Telling!GroupKey(g), Telling!GroupKey(b))
<1> DEFINE R == {p \in all \X all : Telling!Before(Telling!GroupKey(p[1]), Telling!GroupKey(p[2]))}
<1>1. \A g, h \in all : <<g, h>> \in R <=> Telling!Before(Telling!GroupKey(g), Telling!GroupKey(h))
  OBVIOUS
<1> HIDE DEF R
<1>2. \A g \in all : Telling!GroupKey(g) \in Keys
  BY GroupKeyType
<1>3. \A x \in all : <<x, x>> \notin R
  BY <1>1, <1>2, BeforeIsStrict
<1>4. ASSUME NEW x \in all, NEW y \in all, NEW z \in all, <<x, y>> \in R, <<y, z>> \in R
      PROVE  <<x, z>> \in R
  BY <1>1, <1>2, <1>4, BeforeIsTransitive
<1>5. \E x \in all : \A y \in all : <<y, x>> \notin R
  BY <1>3, <1>4, ContextConstants, LeastElement
<1>6. \E x \in all : \A y \in all : ~Telling!Before(Telling!GroupKey(y), Telling!GroupKey(x))
  BY <1>1, <1>5
<1> QED
  BY <1>6 DEF Telling!Best

LEMMA PrimaryHolds ==
  ASSUME NEW all \in Groupings, NEW p, p = Telling!SelectPrimary(all)
  PROVE  /\ p \in all \cup {None}
         /\ p = None <=> \A g \in all : Cardinality(g) <= 1
         /\ p # None => \A g \in all :
              Cardinality(Telling!ArtifactsOf(g)) <= Cardinality(Telling!ArtifactsOf(p))
<1>1. None \notin all
  BY ContextConstants
<1>2. CASE all = {}
  BY <1>2 DEF Telling!SelectPrimary
<1>3. CASE all # {}
  <2> DEFINE b == Telling!Best(all)
  <2>1. /\ b \in all
        /\ \A g \in all : ~Telling!Before(Telling!GroupKey(g), Telling!GroupKey(b))
    BY <1>3, BestHolds
  <2>2. p = IF Cardinality(b) <= 1 THEN None ELSE b
    BY <1>3, SameCardinality DEF Telling!SelectPrimary
  <2> HIDE DEF b
  <2>3. ASSUME NEW g \in all
        PROVE  /\ Cardinality(Telling!ArtifactsOf(g)) <= Cardinality(Telling!ArtifactsOf(b))
               /\ Cardinality(b) <= 1 => Cardinality(g) <= 1
    <3> DEFINE x == Telling!GroupKey(g)
    <3> DEFINE y == Telling!GroupKey(b)
    <3>1. /\ x \in Keys /\ x[1] = -Cardinality(Telling!ArtifactsOf(g)) /\ x[2] = -Cardinality(g)
          /\ Cardinality(g) \in Nat \ {0}
          /\ Cardinality(Telling!ArtifactsOf(g)) \in 1 .. Cardinality(g)
      BY GroupKeyType
    <3>2. /\ y \in Keys /\ y[1] = -Cardinality(Telling!ArtifactsOf(b)) /\ y[2] = -Cardinality(b)
          /\ Cardinality(b) \in Nat \ {0}
          /\ Cardinality(Telling!ArtifactsOf(b)) \in 1 .. Cardinality(b)
      BY <2>1, GroupKeyType
    <3>3. ~Telling!Before(x, y)
      BY <2>1
    <3> HIDE DEF x, y
    <3>4. ~(x[1] < y[1]) /\ ~(x[1] = y[1] /\ x[2] < y[2])
      BY <3>1, <3>2, <3>3, BeforeMeans
    <3> QED
      BY <3>1, <3>2, <3>4
  <2>4. Cardinality(b) \in Nat /\ \A g \in all : Cardinality(g) \in Nat
    BY <2>1, GroupKeyType
  <2> QED
    BY <1>1, <2>1, <2>2, <2>3, <2>4
<1> QED
  BY <1>2, <1>3

-----------------------------------------------------------------------------
(* The cut of the context.  The lists are cut from the least important on; *)
(* as long as the context does not fit, those that were cut are empty.     *)

Entry == [text : Nat, upto : Nat]

Room(lengths) == Telling!SizeForCuts(lengths) <= ContextBudget

Rank == [associations |-> 1, propagation |-> 2, supplemental |-> 3, artifacts |-> 4,
         rootEvidence |-> 5, conclude |-> 6]

CutsInOrder(lengths) ==
    \A l, m \in Telling!Lists :
       Rank[m] < Rank[l] /\ lengths[l] < Telling!Whole(l) => lengths[m] = 0

NothingWasted(lengths) ==
    \A l \in Telling!Lists :
       /\ lengths[l] < Telling!Whole(l)
       /\ \A m \in Telling!Lists : Rank[m] > Rank[l] => ~(lengths[m] < Telling!Whole(m))
       => ~Room([lengths EXCEPT ![l] = lengths[l] + 1])

Begun == pc \notin {"select", "build"}

Beginning == pc \in {"select", "build"} =>
                /\ shown = [l \in Telling!Lists |-> 0] /\ entries = <<>> /\ read = 0
                /\ ~told

Flags == pc \in {"texts"} \cup DOMAIN Rank =>
            /\ directional <=> Telling!Items("propagation") # <<>>
            /\ instructed <=> ~directional

Cutting == pc \in DOMAIN Rank =>
              /\ told
              /\ \A l \in Telling!Lists : Rank[l] >= Rank[pc] => shown[l] = Telling!Whole(l)
              /\ \/ Room(shown)
                 \/ \A l \in Telling!Lists : Rank[l] < Rank[pc] => shown[l] = 0
              /\ pc \in {"associations", "propagation"} => ~Room(shown)

CutsHold ==
    /\ Begun => CutsInOrder(shown) /\ NothingWasted(shown)
    /\ Begun => told \/ \A l \in Telling!Lists : shown[l] = Telling!Whole(l)
    /\ pc = "texts" => \A l \in Telling!Lists : shown[l] = Telling!Whole(l)
    /\ pc = "done" => Room(shown) \/ \A l \in Telling!Lists : shown[l] = 0

Chosen == /\ components \in Groupings /\ given \in Contexts
          /\ Telling!PrimaryWhenRelated

ContextInv == Telling!TypeOK /\ Chosen /\ Beginning /\ Flags /\ Cutting /\ CutsHold
              /\ Telling!DirectedTold /\ Telling!FallbackWithinBudget

LEMMA ListNames ==
  /\ Telling!Lists = {"associations", "propagation", "supplemental", "artifacts", "rootEvidence"}
  /\ DOMAIN Rank = Telling!Lists \cup {"conclude"}
  /\ Rank["associations"] = 1 /\ Rank["propagation"] = 2 /\ Rank["supplemental"] = 3
  /\ Rank["artifacts"] = 4 /\ Rank["rootEvidence"] = 5 /\ Rank["conclude"] = 6
  /\ \A l \in DOMAIN Rank : Rank[l] \in 1 .. 6
  /\ \A l, m \in DOMAIN Rank : Rank[l] = Rank[m] => l = m
BY DEF Telling!Lists, Rank

LEMMA ItemsType ==
  ASSUME given \in Contexts, entries \in Seq(Entry)
  PROVE  \A l \in Telling!Lists : Telling!Items(l) \in Seq(Nat) /\ Telling!Whole(l) \in Nat
<1>1. ASSUME NEW l \in Telling!Lists PROVE Telling!Items(l) \in Seq(Nat)
  <2>1. CASE l = "supplemental"
    <3>1. Len(entries) \in Nat /\ \A i \in 1 .. Len(entries) : entries[i].upto \in Nat
      <4>1. \A i \in 1 .. Len(entries) : entries[i] \in Entry
        OBVIOUS
      <4>2. \A e \in Entry : e.upto \in Nat
        BY DEF Entry
      <4> QED
        BY <4>1, <4>2
    <3>2. [i \in 1 .. Len(entries) |-> entries[i].upto] \in Seq(Nat)
      BY <3>1
    <3> QED
      BY <2>1, <3>2 DEF Telling!Items, Telling!OfComponent
  <2>2. CASE l # "supplemental"
    <3>1. given[l] \in Seq(Nat)
      BY <2>2, ListNames, ContextConstants
    <3> QED
      BY <2>2, <3>1 DEF Telling!Items
  <2> QED
    BY <2>1, <2>2
<1> QED
  BY <1>1 DEF Telling!Whole

LEMMA UpToType ==
  ASSUME given \in Contexts, entries \in Seq(Entry),
         NEW l \in Telling!Lists, NEW n \in 0 .. Telling!Whole(l)
  PROVE  Telling!UpTo(l, n) \in Nat
<1>1. Telling!Items(l) \in Seq(Nat)
  BY ItemsType
<1> QED
  BY <1>1 DEF Telling!UpTo, Telling!Whole

LEMMA SizeType ==
  ASSUME given \in Contexts, entries \in Seq(Entry),
         NEW c \in [Telling!Lists -> Nat], \A l \in Telling!Lists : c[l] <= Telling!Whole(l)
  PROVE  Telling!SizeForCuts(c) \in Nat
<1>1. \A l \in Telling!Lists : Telling!UpTo(l, c[l]) \in Nat
  BY UpToType, ItemsType
<1>2. given.rest \in Nat /\ given.instruction \in Nat
  BY ContextConstants
<1>3. Telling!Size(c) \in Nat
  <2>1. /\ Telling!UpTo("associations", c["associations"]) \in Nat
        /\ Telling!UpTo("propagation", c["propagation"]) \in Nat
        /\ Telling!UpTo("supplemental", c["supplemental"]) \in Nat
        /\ Telling!UpTo("artifacts", c["artifacts"]) \in Nat
        /\ Telling!UpTo("rootEvidence", c["rootEvidence"]) \in Nat
    BY <1>1 DEF Telling!Lists
  <2> QED
    BY <1>2, <2>1 DEF Telling!Size
<1> QED
  BY <1>2, <1>3 DEF Telling!SizeForCuts

\* As long as the instruction is in the context only from the beginning, what is
\* measured is the size that counts.
LEMMA FitsIsRoom ==
  ASSUME instructed <=> Telling!Items("propagation") = <<>>
  PROVE  \A c : Telling!Fits(c) <=> Room(c)
BY DEF Telling!Fits, Telling!Measured, Room, Telling!SizeForCuts

LEMMA LongestHolds ==
  ASSUME shown \in [Telling!Lists -> Nat], NEW l \in Telling!Lists, NEW n, n = Telling!Longest(l)
  PROVE  /\ n \in 0 .. shown[l]
         /\ n = 0 \/ Telling!Fits([shown EXCEPT ![l] = n])
         /\ \A m \in 0 .. shown[l] : m > n => ~Telling!Fits([shown EXCEPT ![l] = m])
<1> DEFINE S == {0} \cup {m \in 0 .. shown[l] : Telling!Fits([shown EXCEPT ![l] = m])}
<1>1. shown[l] \in Nat
  OBVIOUS
<1>2. S \in SUBSET (0 .. shown[l]) /\ S # {}
  BY <1>1
<1>3. n = Telling!Max(S)
  BY DEF Telling!Longest
<1>4. \A m \in 0 .. shown[l] : Telling!Fits([shown EXCEPT ![l] = m]) => m \in S
  OBVIOUS
<1>5. \A m \in S : m = 0 \/ Telling!Fits([shown EXCEPT ![l] = m])
  OBVIOUS
<1> HIDE DEF S
<1>6. PICK k \in Nat : k = shown[l]
  BY <1>1
<1>7. \E x \in S : \A y \in S : x >= y
  BY <1>2, <1>6, GreatestNumber
<1>8. n \in S /\ \A y \in S : n >= y
  BY <1>3, <1>7 DEF Telling!Max
<1>9. \A m \in S : m \in Int
  BY <1>1, <1>2
<1>10. \A m \in 0 .. shown[l] : m > n => m \notin S
  BY <1>6, <1>8, <1>9
<1>11. n \in 0 .. shown[l]
  BY <1>2, <1>8
<1> QED
  BY <1>4, <1>5, <1>8, <1>10, <1>11

\* A cut of the list whose turn it is keeps what was said of the cuts.
LEMMA CutHolds ==
  ASSUME Telling!TypeOK, Chosen, Cutting, CutsHold, Flags, pc \in Telling!Lists, ~Room(shown),
         NEW c, c = [shown EXCEPT ![pc] = Telling!Longest(pc)]
  PROVE  /\ c \in [Telling!Lists -> Nat]
         /\ \A l \in Telling!Lists : c[l] <= Telling!Whole(l) /\ (l # pc => c[l] = shown[l])
         /\ CutsInOrder(c) /\ NothingWasted(c)
         /\ Room(c) \/ \A l \in Telling!Lists : Rank[l] <= Rank[pc] => c[l] = 0
<1> PICK p \in Telling!Lists : p = pc
  OBVIOUS
<1> PICK n : n = Telling!Longest(p)
  OBVIOUS
<1>1. shown \in [Telling!Lists -> Nat] /\ \A l \in Telling!Lists : shown[l] <= Telling!Whole(l)
  BY DEF Telling!TypeOK, Telling!Whole
<1>2. \A l \in Telling!Lists : Telling!Whole(l) \in Nat
  BY ItemsType DEF Telling!TypeOK, Chosen, Entry
<1>3. /\ \A l \in Telling!Lists : Rank[l] >= Rank[p] => shown[l] = Telling!Whole(l)
      /\ \A l \in Telling!Lists : Rank[l] < Rank[p] => shown[l] = 0
  BY ListNames DEF Cutting
<1>4. CutsInOrder(shown) /\ NothingWasted(shown)
  BY ListNames DEF CutsHold, Begun
<1>5. \A d : Telling!Fits(d) <=> Room(d)
  BY FitsIsRoom, ListNames DEF Flags
<1>6. /\ n \in 0 .. shown[p]
      /\ n = 0 \/ Room([shown EXCEPT ![p] = n])
      /\ \A m \in 0 .. shown[p] : m > n => ~Room([shown EXCEPT ![p] = m])
  BY <1>1, <1>5, LongestHolds
<1>7. c = [shown EXCEPT ![p] = n]
  OBVIOUS
<1>8. /\ c \in [Telling!Lists -> Nat] /\ c[p] = n
      /\ \A l \in Telling!Lists : l # p => c[l] = shown[l]
  BY <1>1, <1>6, <1>7
<1>9. \A l \in Telling!Lists : c[l] <= Telling!Whole(l)
  BY <1>1, <1>2, <1>6, <1>8
<1>10. \A l \in Telling!Lists : Rank[l] \in Int /\ (Rank[l] = Rank[p] => l = p)
  <2>1. \A l \in Telling!Lists : l \in DOMAIN Rank
    BY ListNames
  <2>2. \A l \in DOMAIN Rank : Rank[l] \in Int
    BY ListNames
  <2> QED
    BY <2>1, <2>2, ListNames
<1>11. \A l \in Telling!Lists : Rank[l] < Rank[p] => c[l] = 0
  BY <1>3, <1>8, <1>10
<1>12. \A l \in Telling!Lists : Rank[l] > Rank[p] => c[l] = Telling!Whole(l)
  BY <1>3, <1>8, <1>10
<1>13. CutsInOrder(c)
  <2> SUFFICES ASSUME NEW l \in Telling!Lists, NEW m \in Telling!Lists, Rank[m] < Rank[l],
                      c[l] < Telling!Whole(l)
               PROVE  c[m] = 0
    BY DEF CutsInOrder
  <2>1. ~(Rank[l] > Rank[p])
    BY <1>2, <1>12
  <2>2. Rank[m] < Rank[p]
    BY <1>10, <2>1
  <2> QED
    BY <1>11, <2>2
<1>14. NothingWasted(c)
  <2> SUFFICES ASSUME NEW l \in Telling!Lists, c[l] < Telling!Whole(l),
                      \A m \in Telling!Lists : Rank[m] > Rank[l] => ~(c[m] < Telling!Whole(m))
               PROVE  ~Room([c EXCEPT ![l] = c[l] + 1])
    BY DEF NothingWasted
  <2>1. ~(Rank[l] > Rank[p])
    BY <1>2, <1>12
  <2>2. CASE l = p
    <3>1. [c EXCEPT ![l] = c[l] + 1] = [shown EXCEPT ![p] = n + 1]
      BY <1>1, <1>7, <1>8, <2>2
    <3>2. n + 1 \in 0 .. shown[p] /\ n + 1 > n
      BY <1>1, <1>2, <1>3, <1>6, <1>8, <1>10, <2>2
    <3> QED
      BY <1>6, <3>1, <3>2
  <2>3. CASE l # p
    <3>1. Rank[p] > Rank[l]
      BY <1>10, <2>1, <2>3
    <3>2. n = shown[p]
      BY <1>1, <1>2, <1>3, <1>6, <1>8, <1>10, <3>1
    <3>3. c = shown
      BY <1>1, <1>7, <3>2
    <3> QED
      BY <1>4, <3>3 DEF NothingWasted
  <2> QED
    BY <2>2, <2>3
<1>15. Room(c) \/ \A l \in Telling!Lists : Rank[l] <= Rank[p] => c[l] = 0
  <2>1. CASE n = 0
    BY <1>8, <1>10, <1>11, <2>1
  <2>2. CASE n # 0
    BY <1>6, <1>7, <2>2
  <2> QED
    BY <2>1, <2>2
<1> QED
  BY <1>8, <1>9, <1>13, <1>14, <1>15

LEMMA SameItems ==
  ASSUME UNCHANGED <<given, primary, entries>>
  PROVE  \A l : Telling!Items(l)' = Telling!Items(l) /\ Telling!Whole(l)' = Telling!Whole(l)
BY DEF Telling!Items, Telling!Whole

LEMMA SameSizes ==
  ASSUME UNCHANGED <<given, primary, entries>>
  PROVE  \A c : Telling!SizeForCuts(c)' = Telling!SizeForCuts(c) /\ (Room(c)' <=> Room(c))
BY SameItems DEF Room, Telling!SizeForCuts, Telling!Size, Telling!UpTo

\* What is said of the cuts depends on the counts, the items and nothing else.
LEMMA SameCuts ==
  ASSUME UNCHANGED <<given, primary, entries>>, NEW CONSTANT c, shown' = c
  PROVE  /\ Room(shown)' <=> Room(c)
         /\ CutsInOrder(shown)' <=> CutsInOrder(c)
         /\ NothingWasted(shown)' <=> NothingWasted(c)
<1>1. Room(shown)' <=> Room(c)
  BY SameItems DEF Room, Telling!SizeForCuts, Telling!Size, Telling!UpTo
<1>2. CutsInOrder(shown)' <=> CutsInOrder(c)
  BY SameItems DEF CutsInOrder
<1>3. \A l \in Telling!Lists :
         Room([shown EXCEPT ![l] = shown[l] + 1])' <=> Room([c EXCEPT ![l] = c[l] + 1])
  BY SameItems DEF Room, Telling!SizeForCuts, Telling!Size, Telling!UpTo
<1>4. NothingWasted(shown)' <=> NothingWasted(c)
  BY <1>3, SameItems DEF NothingWasted
<1> QED
  BY <1>1, <1>2, <1>4

\* A step that reads no text and chooses no group.
LEMMA SameChoice ==
  ASSUME Telling!TypeOK, Chosen, Telling!FallbackWithinBudget, pc # "select",
         UNCHANGED <<components, given, primary, entries, read>>
  PROVE  Chosen' /\ Telling!FallbackWithinBudget'
<1>1. Chosen'
  BY DEF Chosen, Telling!PrimaryWhenRelated
<1>2. Telling!FallbackWithinBudget'
  BY DEF Telling!FallbackWithinBudget, Telling!Collected, Telling!UpTo, Telling!Items
<1> QED
  BY <1>1, <1>2

\* The lists beside one another in the order of cutting.
LEMMA Advance ==
  ASSUME ContextInv, pc \in Telling!Lists,
         UNCHANGED <<components, given, primary, entries, read, directional, told, instructed>>,
         \/ Room(shown) /\ shown' = shown
         \/ ~Room(shown) /\ shown' = [shown EXCEPT ![pc] = Telling!Longest(pc)],
         NEW CONSTANT q \in DOMAIN Rank, pc' = q, Rank[q] = Rank[pc] + 1,
         q \in {"associations", "propagation"} => ~Room(shown')
  PROVE  ContextInv'
<1> PICK c : c = shown'
  OBVIOUS
<1>1. shown \in [Telling!Lists -> Nat] /\ \A l \in Telling!Lists : shown[l] <= Telling!Whole(l)
  BY DEF ContextInv, Telling!TypeOK, Telling!Whole
<1>2. /\ CutsInOrder(shown) /\ NothingWasted(shown) /\ told
      /\ \A l \in Telling!Lists : Rank[l] >= Rank[pc] => shown[l] = Telling!Whole(l)
  BY ListNames DEF ContextInv, CutsHold, Begun, Cutting
<1>3. \A l \in Telling!Lists : Rank[l] \in Int /\ (Rank[l] = Rank[pc] => l = pc)
  <2>1. \A l \in Telling!Lists : l \in DOMAIN Rank
    BY ListNames
  <2>2. \A l \in DOMAIN Rank : Rank[l] \in Int
    BY ListNames
  <2> QED
    BY <2>1, <2>2, ListNames
<1>4. /\ c \in [Telling!Lists -> Nat]
      /\ \A l \in Telling!Lists : c[l] <= Telling!Whole(l) /\ (l # pc => c[l] = shown[l])
      /\ CutsInOrder(c) /\ NothingWasted(c)
      /\ Room(c) \/ \A l \in Telling!Lists : Rank[l] <= Rank[pc] => c[l] = 0
  <2>1. CASE Room(shown)
    BY <1>1, <1>2, <2>1
  <2>2. CASE ~Room(shown)
    BY <2>2, CutHolds DEF ContextInv
  <2> QED
    BY <2>1, <2>2
<1>5. /\ Room(shown)' <=> Room(c)
      /\ CutsInOrder(shown)' /\ NothingWasted(shown)'
  BY <1>4, SameCuts
<1>6. \A l \in Telling!Lists : Telling!Whole(l)' = Telling!Whole(l)
  BY SameItems
<1>7. q \in Telling!Lists \cup {"conclude"} /\ q \notin {"select", "build", "texts", "done"}
  BY ListNames
<1>8. Telling!TypeOK'
  <2>1. (\A l \in Telling!Lists : shown[l] <= Len(Telling!Items(l)))'
    BY <1>4, SameItems DEF Telling!Whole
  <2> QED
    BY <1>4, <1>7, <2>1 DEF ContextInv, Telling!TypeOK
<1>9. Chosen' /\ Telling!FallbackWithinBudget'
  BY SameChoice, ListNames DEF ContextInv
<1>10. Beginning' /\ Telling!DirectedTold'
  BY <1>7 DEF Beginning, Telling!DirectedTold
<1>11. Flags'
  BY SameItems, ListNames DEF ContextInv, Flags
<1>12. Cutting'
  <2>1. \A l \in Telling!Lists : Rank[l] >= Rank[q] => c[l] = Telling!Whole(l)
    BY <1>2, <1>3, <1>4
  <2>2. \A l \in Telling!Lists : Rank[l] < Rank[q] => Rank[l] <= Rank[pc]
    BY <1>3, ListNames
  <2>3. Room(c) \/ \A l \in Telling!Lists : Rank[l] < Rank[q] => c[l] = 0
    BY <1>4, <2>2
  <2>4. q \in {"associations", "propagation"} => ~Room(c)
    OBVIOUS
  <2> QED
    BY <1>2, <1>5, <1>6, <2>1, <2>3, <2>4 DEF Cutting
<1>13. CutsHold'
  BY <1>2, <1>5, <1>7 DEF CutsHold
<1> QED
  BY <1>8, <1>9, <1>10, <1>11, <1>12, <1>13 DEF ContextInv

LEMMA ContextBegins ==
  ASSUME Telling!Init
  PROVE  ContextInv
<1>1. Telling!TypeOK
  <2>1. entries \in Seq([text : Nat, upto : Nat]) /\ read \in 0 .. Len(given.texts)
    <3>1. given.texts \in Seq(Nat)
      BY ContextConstants DEF Telling!Init
    <3> QED
      BY <3>1 DEF Telling!Init
  <2>2. \A l \in Telling!Lists : Telling!Whole(l) \in Nat
    BY <2>1, ItemsType DEF Telling!Init, Entry
  <2>3. \A l \in Telling!Lists : shown[l] <= Len(Telling!Items(l))
    BY <2>2 DEF Telling!Init, Telling!Whole
  <2> QED
    BY <2>1, <2>3 DEF Telling!Init, Telling!TypeOK
<1>2. Chosen
  BY DEF Telling!Init, Chosen, Telling!PrimaryWhenRelated
<1>3. Beginning /\ Flags /\ Cutting /\ Telling!DirectedTold
  BY ListNames DEF Telling!Init, Beginning, Flags, Cutting, Telling!DirectedTold, Telling!Lists
<1>4. CutsHold
  BY DEF Telling!Init, CutsHold, Begun
<1>5. Telling!FallbackWithinBudget
  BY DEF Telling!Init, Telling!FallbackWithinBudget
<1> QED
  BY <1>1, <1>2, <1>3, <1>4, <1>5 DEF ContextInv

LEMMA SelectHolds ==
  ASSUME ContextInv, Telling!Select
  PROVE  ContextInv'
<1>1. /\ pc = "select" /\ pc' = "build" /\ primary' = Telling!SelectPrimary(components)
      /\ UNCHANGED <<components, given, entries, read, shown, directional, told, instructed>>
  BY DEF Telling!Select, Telling!texts, Telling!context
<1>2. entries = <<>> /\ read = 0 /\ shown = [l \in Telling!Lists |-> 0] /\ ~told
  BY <1>1 DEF ContextInv, Beginning
<1>3. Chosen'
  <2>1. /\ primary' \in components \cup {None}
        /\ primary' = None <=> \A g \in components : Cardinality(g) <= 1
        /\ primary' # None => \A g \in components :
             Cardinality(Telling!ArtifactsOf(g)) <= Cardinality(Telling!ArtifactsOf(primary'))
    <3> PICK p : p = Telling!SelectPrimary(components)
      OBVIOUS
    <3>1. primary' = p
      BY <1>1
    <3> QED
      BY <3>1, PrimaryHolds DEF ContextInv, Chosen
  <2> QED
    BY <1>1, <2>1, SameCardinality DEF ContextInv, Chosen, Telling!PrimaryWhenRelated
<1>4. \A l \in Telling!Lists : (Telling!Items(l) \in Seq(Nat))'
  <2>1. \A l \in Telling!Lists \ {"supplemental"} : given[l] \in Seq(Nat)
    BY ListNames, ContextConstants DEF ContextInv, Chosen
  <2>2. \A l \in Telling!Lists : l # "supplemental" => (Telling!Items(l) \in Seq(Nat))'
    BY <1>1, <2>1 DEF Telling!Items
  <2>3. (Telling!Items("supplemental") \in Seq(Nat))'
    BY <1>1, <1>2 DEF Telling!Items, Telling!OfComponent
  <2> QED
    BY <2>2, <2>3
<1>5. Telling!TypeOK'
  <2>1. \A l \in Telling!Lists : (Len(Telling!Items(l)) \in Nat)'
    BY <1>4
  <2>2. (\A l \in Telling!Lists : shown[l] <= Len(Telling!Items(l)))'
    BY <1>1, <1>2, <2>1
  <2>3. primary' \in components' \cup {None}
    <3> PICK p : p = Telling!SelectPrimary(components)
      OBVIOUS
    <3>1. primary' = p
      BY <1>1
    <3> QED
      BY <1>1, <3>1, PrimaryHolds DEF ContextInv, Chosen
  <2> QED
    BY <1>1, <2>2, <2>3 DEF ContextInv, Telling!TypeOK
<1>6. Beginning' /\ Flags' /\ Cutting' /\ Telling!DirectedTold' /\ CutsHold'
  BY <1>1, <1>2, ListNames DEF Beginning, Flags, Cutting, Telling!DirectedTold, CutsHold, Begun,
     Telling!Lists
<1>7. Telling!FallbackWithinBudget'
  BY <1>1, <1>2 DEF Telling!FallbackWithinBudget
<1> QED
  BY <1>3, <1>5, <1>6, <1>7 DEF ContextInv

\* When nothing is cut nothing is out of order, and nothing wasted.
LEMMA WholeIsUncut ==
  ASSUME NEW c, \A l \in Telling!Lists : c[l] = Telling!Whole(l) /\ Telling!Whole(l) \in Nat
  PROVE  CutsInOrder(c) /\ NothingWasted(c)
BY DEF CutsInOrder, NothingWasted

LEMMA BuildHolds ==
  ASSUME ContextInv, Telling!Build
  PROVE  ContextInv'
<1>1. /\ pc = "build" /\ pc' = "texts" /\ shown' = [l \in Telling!Lists |-> Telling!Whole(l)]
      /\ directional' = (Telling!Items("propagation") # <<>>) /\ instructed' = ~directional'
      /\ UNCHANGED <<components, given, primary, entries, read, told>>
  BY DEF Telling!Build, Telling!texts
<1>2. \A l \in Telling!Lists : Telling!Whole(l) \in Nat
  BY ItemsType DEF ContextInv, Chosen, Telling!TypeOK, Entry
<1>3. PICK c : c = shown'
  OBVIOUS
<1>4. CutsInOrder(c) /\ NothingWasted(c)
  BY <1>1, <1>2, <1>3, WholeIsUncut
<1>5. CutsHold'
  BY <1>1, <1>3, <1>4, SameCuts, SameItems DEF CutsHold
<1>6. Telling!TypeOK'
  <2>1. (\A l \in Telling!Lists : shown[l] <= Len(Telling!Items(l)))'
    BY <1>1, <1>2, SameItems DEF Telling!Whole
  <2>2. shown' \in [Telling!Lists -> Nat]
    BY <1>1, <1>2
  <2> QED
    BY <1>1, <2>1, <2>2 DEF ContextInv, Telling!TypeOK
<1>7. Chosen' /\ Telling!FallbackWithinBudget'
  BY <1>1, SameChoice DEF ContextInv
<1>8. Flags'
  BY <1>1, SameItems DEF Flags
<1>9. Beginning' /\ Cutting' /\ Telling!DirectedTold'
  BY <1>1, ListNames DEF Beginning, Cutting, Telling!DirectedTold, Telling!Lists
<1> QED
  BY <1>5, <1>6, <1>7, <1>8, <1>9 DEF ContextInv

LEMMA SkipTextHolds ==
  ASSUME ContextInv, Telling!SkipText
  PROVE  ContextInv'
<1>1. /\ pc = "texts" /\ pc' = "texts" /\ read < Len(given.texts) /\ read' = read + 1
      /\ ~(entries = <<>> \/ Telling!Collected + given.texts[read + 1] <= FallbackBudget)
      /\ UNCHANGED <<components, given, primary, entries, shown, directional, told, instructed>>
  BY DEF Telling!SkipText, Telling!context, Telling!HasRoom
<1>2. given.texts \in Seq(Nat) /\ read \in 0 .. Len(given.texts) /\ entries \in Seq(Entry)
  BY ContextConstants DEF ContextInv, Chosen, Telling!TypeOK, Entry
<1>3. Telling!Collected \in Nat /\ Telling!Collected' = Telling!Collected
  <2>1. Len(entries) \in 0 .. Telling!Whole("supplemental")
    BY <1>2 DEF Telling!Whole, Telling!Items, Telling!OfComponent
  <2>2. Telling!Collected \in Nat
    BY <1>2, <2>1, UpToType, ListNames DEF Telling!Collected, ContextInv, Chosen
  <2> QED
    BY <1>1, <2>2 DEF Telling!Collected, Telling!UpTo, Telling!Items
<1>4. Telling!FallbackWithinBudget'
  <2>1. given.texts[read + 1] \in Nat /\ FallbackBudget \in Nat
    BY <1>1, <1>2, ContextConstants
  <2>2. 1 .. read + 1 = (1 .. read) \cup {read + 1}
    BY <1>2
  <2>3. Telling!Collected + given.texts[read + 1] > FallbackBudget
    BY <1>1, <1>3, <2>1
  <2> QED
    BY <1>1, <1>3, <2>2, <2>3 DEF ContextInv, Telling!FallbackWithinBudget
<1>5. Telling!TypeOK'
  BY <1>1, <1>2, SameItems DEF ContextInv, Telling!TypeOK
<1>6. Chosen'
  BY <1>1 DEF ContextInv, Chosen, Telling!PrimaryWhenRelated
<1>7. CutsHold'
  <2> PICK c : c = shown
    OBVIOUS
  <2> QED
    BY <1>1, SameCuts, SameItems DEF ContextInv, CutsHold, Begun
<1>8. Flags' /\ Beginning' /\ Cutting' /\ Telling!DirectedTold'
  BY <1>1, ListNames, SameItems
     DEF ContextInv, Flags, Beginning, Cutting, Telling!DirectedTold, Telling!Lists
<1> QED
  BY <1>4, <1>5, <1>6, <1>7, <1>8 DEF ContextInv

LEMMA TakeTextHolds ==
  ASSUME ContextInv, Telling!TakeText
  PROVE  ContextInv'
<1>1. /\ pc = "texts" /\ pc' = "texts" /\ read < Len(given.texts) /\ read' = read + 1
      /\ entries = <<>> \/ Telling!Collected + given.texts[read + 1] <= FallbackBudget
      /\ entries' = Append(entries, [text |-> read + 1,
                                     upto |-> Telling!Collected + given.texts[read + 1]])
      /\ shown' = [shown EXCEPT !["supplemental"] = shown["supplemental"] + 1]
      /\ UNCHANGED <<components, given, primary, directional, told, instructed>>
  BY DEF Telling!TakeText, Telling!HasRoom
<1>2. given.texts \in Seq(Nat) /\ read \in 0 .. Len(given.texts) /\ entries \in Seq(Entry)
  BY ContextConstants DEF ContextInv, Chosen, Telling!TypeOK, Entry
<1>3. Telling!Collected \in Nat
  <2>1. Len(entries) \in 0 .. Telling!Whole("supplemental")
    BY <1>2 DEF Telling!Whole, Telling!Items, Telling!OfComponent
  <2> QED
    BY <1>2, <2>1, UpToType, ListNames DEF Telling!Collected, ContextInv, Chosen
<1> DEFINE t == given.texts[read + 1]
<1>4. t \in Nat /\ FallbackBudget \in Nat
  BY <1>1, <1>2, ContextConstants
<1>5. /\ entries' \in Seq(Entry) /\ Len(entries') = Len(entries) + 1
      /\ \A i \in 1 .. Len(entries) : entries'[i] = entries[i]
      /\ entries'[Len(entries) + 1] = [text |-> read + 1, upto |-> Telling!Collected + t]
  <2>1. [text |-> read + 1, upto |-> Telling!Collected + t] \in Entry
    BY <1>2, <1>3, <1>4 DEF Entry
  <2> HIDE DEF t
  <2> QED
    BY <1>1, <1>2, <2>1 DEF t
<1>6. Telling!Collected' = Telling!Collected + t
  <2>1. Len(entries') # 0 /\ Len(entries') \in 1 .. Len(entries')
    BY <1>2, <1>5
  <2>2. Telling!Collected' = entries'[Len(entries')].upto
    BY <2>1 DEF Telling!Collected, Telling!UpTo, Telling!Items, Telling!OfComponent
  <2> QED
    BY <1>5, <2>2
<1>7. Telling!FallbackWithinBudget'
  <2>1. Len(entries') > 1 => Telling!Collected' <= FallbackBudget
    <3>1. Len(entries') > 1 => entries # <<>>
      BY <1>2, <1>5
    <3> QED
      BY <1>1, <1>6, <3>1
  <2>2. ASSUME NEW u \in 1 .. read'
        PROVE  \/ \E i \in DOMAIN entries' : entries'[i].text = u
               \/ Telling!Collected' + given'.texts[u] > FallbackBudget
    <3>1. CASE u = read + 1
      <4>1. Len(entries) + 1 \in DOMAIN entries' /\ entries'[Len(entries) + 1].text = u
        BY <1>2, <1>5, <3>1
      <4> QED
        BY <4>1
    <3>2. CASE u # read + 1
      <4>1. u \in 1 .. read
        BY <1>1, <1>2, <3>2
      <4>2. CASE \E i \in DOMAIN entries : entries[i].text = u
        <5>1. PICK i \in DOMAIN entries : entries[i].text = u
          BY <4>2
        <5>2. i \in 1 .. Len(entries) /\ DOMAIN entries' = 1 .. Len(entries')
          BY <1>2, <1>5
        <5>3. i \in DOMAIN entries' /\ entries'[i] = entries[i]
          BY <1>2, <1>5, <5>2
        <5> QED
          BY <5>1, <5>3
      <4>3. CASE Telling!Collected + given.texts[u] > FallbackBudget
        <5>1. given.texts[u] \in Nat
          BY <1>2, <4>1
        <5>2. given'.texts[u] = given.texts[u]
          BY <1>1
        <5> HIDE DEF t
        <5>3. Telling!Collected + t + given.texts[u] > FallbackBudget
          BY <1>3, <1>4, <4>3, <5>1
        <5> QED
          BY <1>6, <5>2, <5>3
      <4> QED
        BY <4>1, <4>2, <4>3 DEF ContextInv, Telling!FallbackWithinBudget
    <3> QED
      BY <3>1, <3>2
  <2> QED
    BY <2>1, <2>2 DEF Telling!FallbackWithinBudget
<1>8. /\ \A l \in Telling!Lists : l # "supplemental" => Telling!Whole(l)' = Telling!Whole(l)
      /\ Telling!Items("propagation")' = Telling!Items("propagation")
      /\ Telling!Whole("supplemental")' = Telling!Whole("supplemental") + 1
  <2>1. \A l \in Telling!Lists : l # "supplemental" => Telling!Items(l)' = Telling!Items(l)
    BY <1>1 DEF Telling!Items
  <2>2. Telling!Whole("supplemental") = Len(entries)
    BY <1>2 DEF Telling!Whole, Telling!Items, Telling!OfComponent
  <2>3. Telling!Whole("supplemental")' = Len(entries')
    BY <1>5 DEF Telling!Whole, Telling!Items, Telling!OfComponent
  <2> QED
    BY <1>5, <2>1, <2>2, <2>3, ListNames DEF Telling!Whole
<1>9. \A l \in Telling!Lists : shown[l] = Telling!Whole(l) /\ Telling!Whole(l) \in Nat
  BY <1>1, <1>2, ItemsType DEF ContextInv, Chosen, CutsHold
<1>10. /\ shown' \in [Telling!Lists -> Nat]
       /\ \A l \in Telling!Lists : shown'[l] = Telling!Whole(l)' /\ Telling!Whole(l)' \in Nat
  <2>1. shown \in [Telling!Lists -> Nat] /\ "supplemental" \in Telling!Lists
    BY ListNames DEF ContextInv, Telling!TypeOK
  <2>2. /\ shown' \in [Telling!Lists -> Nat] /\ shown'["supplemental"] = shown["supplemental"] + 1
        /\ \A l \in Telling!Lists : l # "supplemental" => shown'[l] = shown[l]
    BY <1>1, <2>1
  <2>3. shown["supplemental"] = Telling!Whole("supplemental")
        /\ Telling!Whole("supplemental") \in Nat
    BY <1>9, <2>1
  <2>4. shown'["supplemental"] = Telling!Whole("supplemental")'
        /\ Telling!Whole("supplemental")' \in Nat
    BY <1>8, <2>2, <2>3
  <2>5. \A l \in Telling!Lists : l # "supplemental" =>
           shown'[l] = Telling!Whole(l)' /\ Telling!Whole(l)' \in Nat
    BY <1>8, <1>9, <2>2
  <2> QED
    BY <2>2, <2>4, <2>5
<1>11. Telling!TypeOK'
  <2>1. (\A l \in Telling!Lists : shown[l] <= Len(Telling!Items(l)))'
    BY <1>10 DEF Telling!Whole
  <2>2. read' \in 0 .. Len(given.texts)
    BY <1>1, <1>2
  <2> QED
    BY <1>1, <1>5, <1>10, <2>1, <2>2 DEF ContextInv, Telling!TypeOK, Entry
<1>12. Chosen'
  BY <1>1 DEF ContextInv, Chosen, Telling!PrimaryWhenRelated
<1>13. CutsHold'
  <2>1. (CutsInOrder(shown) /\ NothingWasted(shown))'
    BY <1>10 DEF CutsInOrder, NothingWasted
  <2> QED
    BY <1>1, <1>10, <2>1 DEF CutsHold
<1>14. Flags' /\ Beginning' /\ Cutting' /\ Telling!DirectedTold'
  BY <1>1, <1>8, ListNames
     DEF ContextInv, Flags, Beginning, Cutting, Telling!DirectedTold, Telling!Lists
<1> QED
  BY <1>7, <1>11, <1>12, <1>13, <1>14 DEF ContextInv

\* What fits has room, while the cuts are made and before.
LEMMA FitsNow ==
  ASSUME ContextInv, pc \in {"texts"} \cup DOMAIN Rank
  PROVE  \A c : Telling!Fits(c) <=> Room(c)
<1>1. instructed <=> Telling!Items("propagation") = <<>>
  BY DEF ContextInv, Flags
<1> QED
  BY <1>1, FitsIsRoom

LEMMA WithinAlreadyHolds ==
  ASSUME ContextInv, Telling!WithinAlready
  PROVE  ContextInv'
<1>1. /\ pc = "texts" /\ pc' = "done" /\ Telling!Fits(shown)
      /\ UNCHANGED <<components, given, primary, entries, read, shown, directional, told, instructed>>
  BY DEF Telling!WithinAlready, Telling!TextsRead, Telling!texts, Telling!context
<1>2. PICK c : c = shown
  OBVIOUS
<1>3. Room(c) /\ CutsInOrder(c) /\ NothingWasted(c)
  BY <1>1, <1>2, FitsNow DEF ContextInv, CutsHold, Begun
<1>4. CutsHold'
  BY <1>1, <1>2, <1>3, SameCuts, SameItems DEF ContextInv, CutsHold, Begun
<1>5. Telling!TypeOK'
  BY <1>1, SameItems DEF ContextInv, Telling!TypeOK
<1>6. Chosen' /\ Telling!FallbackWithinBudget'
  BY <1>1, SameChoice DEF ContextInv
<1>7. Telling!DirectedTold'
  <2>1. shown["propagation"] = Telling!Whole("propagation")
    BY <1>1, ListNames DEF ContextInv, CutsHold
  <2>2. Telling!Items("propagation") \in Seq(Nat)
    BY ItemsType, ListNames DEF ContextInv, Chosen, Telling!TypeOK, Entry
  <2>3. shown["propagation"] > 0 <=> Telling!Items("propagation") # <<>>
    BY <2>1, <2>2 DEF Telling!Whole
  <2>4. (directional <=> Telling!Items("propagation") # <<>>) /\ (instructed <=> ~directional)
    BY <1>1 DEF ContextInv, Flags
  <2>5. (directional <=> shown["propagation"] > 0) /\ (instructed <=> ~directional)
    BY <2>3, <2>4
  <2> QED
    BY <1>1, <2>5 DEF Telling!DirectedTold
<1>8. Flags' /\ Beginning' /\ Cutting'
  BY <1>1, ListNames DEF Flags, Beginning, Cutting, Telling!Lists
<1> QED
  BY <1>4, <1>5, <1>6, <1>7, <1>8 DEF ContextInv

LEMMA StartCuttingHolds ==
  ASSUME ContextInv, Telling!StartCutting
  PROVE  ContextInv'
<1>1. /\ pc = "texts" /\ pc' = Telling!FirstCut /\ ~Telling!Fits(shown) /\ told'
      /\ UNCHANGED <<components, given, primary, entries, read, shown, directional, instructed>>
  BY DEF Telling!StartCutting, Telling!TextsRead, Telling!texts
<1>2. PICK c : c = shown
  OBVIOUS
<1>3. ~Room(c) /\ CutsInOrder(c) /\ NothingWasted(c)
  BY <1>1, <1>2, FitsNow DEF ContextInv, CutsHold, Begun
<1>4. pc' = IF primary # None THEN "associations" ELSE "supplemental"
  BY <1>1 DEF Telling!FirstCut
<1>5. CutsHold'
  BY <1>1, <1>2, <1>3, <1>4, SameCuts, SameItems DEF ContextInv, CutsHold, Begun
<1>6. Telling!TypeOK'
  BY <1>1, <1>4, SameItems, ListNames DEF ContextInv, Telling!TypeOK
<1>7. Chosen' /\ Telling!FallbackWithinBudget'
  BY <1>1, SameChoice DEF ContextInv
<1>8. \A l \in Telling!Lists : c[l] = Telling!Whole(l)
  BY <1>1, <1>2 DEF ContextInv, CutsHold
<1>9. Cutting'
  <2>1. \A l \in Telling!Lists : Rank[l] < Rank[pc'] => c[l] = 0
    <3>1. CASE primary # None
      BY <1>4, <3>1, ListNames
    <3>2. CASE primary = None
      <4>1. Telling!Whole("associations") = 0 /\ Telling!Whole("propagation") = 0
        BY <3>2 DEF Telling!Whole, Telling!Items, Telling!OfComponent
      <4>2. \A l \in Telling!Lists : Rank[l] < 3 => l \in {"associations", "propagation"}
        BY ListNames
      <4> QED
        BY <1>4, <1>8, <3>2, <4>1, <4>2, ListNames
    <3> QED
      BY <3>1, <3>2
  <2> QED
    BY <1>1, <1>2, <1>3, <1>8, <2>1, SameCuts, SameItems DEF Cutting
<1>10. Flags'
  BY <1>1, SameItems DEF ContextInv, Flags
<1>11. Beginning' /\ Telling!DirectedTold'
  BY <1>4 DEF Beginning, Telling!DirectedTold
<1> QED
  BY <1>5, <1>6, <1>7, <1>9, <1>10, <1>11 DEF ContextInv

LEMMA CutAssociationsHolds ==
  ASSUME ContextInv, Telling!CutAssociations
  PROVE  ContextInv'
<1>1. PICK c : c = [shown EXCEPT !["associations"] = Telling!Longest("associations")]
  OBVIOUS
<1>2. /\ pc = "associations" /\ shown' = c
      /\ pc' = IF Telling!Fits(c) THEN "done" ELSE "propagation"
      /\ UNCHANGED <<components, given, primary, entries, read, directional, told, instructed>>
  BY <1>1 DEF Telling!CutAssociations, Telling!texts
<1>3. ~Room(shown) /\ told
  BY <1>2, ListNames DEF ContextInv, Cutting
<1>4. Telling!Fits(c) <=> Room(c)
  BY <1>2, FitsNow, ListNames
<1>5. CASE ~Room(c)
  <2>1. pc' = "propagation" /\ Rank["propagation"] = Rank[pc] + 1 /\ "propagation" \in DOMAIN Rank
    BY <1>2, <1>4, <1>5, ListNames
  <2> QED
    BY <1>1, <1>2, <1>3, <1>5, <2>1, Advance, ListNames
<1>6. CASE Room(c)
  <2>1. pc' = "done"
    BY <1>2, <1>4, <1>6
  <2>2. /\ c \in [Telling!Lists -> Nat]
        /\ \A l \in Telling!Lists : c[l] <= Telling!Whole(l) /\ (l # pc => c[l] = shown[l])
        /\ CutsInOrder(c) /\ NothingWasted(c)
    BY <1>1, <1>2, <1>3, CutHolds, ListNames DEF ContextInv
  <2>3. CutsHold'
    BY <1>2, <1>3, <1>6, <2>1, <2>2, SameCuts, SameItems DEF ContextInv, CutsHold, Begun
  <2>4. Telling!TypeOK'
    <3>1. (\A l \in Telling!Lists : shown[l] <= Len(Telling!Items(l)))'
      BY <1>2, <2>2, SameItems DEF Telling!Whole
    <3> QED
      BY <1>2, <2>1, <2>2, <3>1, SameItems DEF ContextInv, Telling!TypeOK
  <2>5. Chosen' /\ Telling!FallbackWithinBudget'
    BY <1>2, SameChoice DEF ContextInv
  <2>6. Telling!DirectedTold'
    <3>1. c["propagation"] = Telling!Whole("propagation")
      <4>1. shown["propagation"] = Telling!Whole("propagation")
        BY <1>2, ListNames DEF ContextInv, Cutting
      <4> QED
        BY <1>2, <2>2, <4>1, ListNames
    <3>2. Telling!Items("propagation") \in Seq(Nat)
      BY ItemsType, ListNames DEF ContextInv, Chosen, Telling!TypeOK, Entry
    <3>3. c["propagation"] > 0 <=> Telling!Items("propagation") # <<>>
      BY <3>1, <3>2 DEF Telling!Whole
    <3>4. (directional <=> Telling!Items("propagation") # <<>>) /\ (instructed <=> ~directional)
      BY <1>2, ListNames DEF ContextInv, Flags
    <3>5. (directional <=> c["propagation"] > 0) /\ (instructed <=> ~directional)
      BY <3>3, <3>4
    <3> QED
      BY <1>2, <3>5 DEF Telling!DirectedTold
  <2>7. Flags' /\ Beginning' /\ Cutting'
    BY <2>1, ListNames DEF Flags, Beginning, Cutting, Telling!Lists
  <2> QED
    BY <2>3, <2>4, <2>5, <2>6, <2>7 DEF ContextInv
<1> QED
  BY <1>5, <1>6

LEMMA CutPropagationHolds ==
  ASSUME ContextInv, Telling!CutPropagation
  PROVE  ContextInv'
<1>1. /\ pc = "propagation" /\ pc' = "supplemental"
      /\ shown' = [shown EXCEPT ![pc] = Telling!Longest(pc)]
      /\ UNCHANGED <<components, given, primary, entries, read, directional, told, instructed>>
  BY DEF Telling!CutPropagation, Telling!texts
<1>2. ~Room(shown)
  BY <1>1, ListNames DEF ContextInv, Cutting
<1> QED
  BY <1>1, <1>2, Advance, ListNames

LEMMA CutTopListHolds ==
  ASSUME ContextInv, Telling!CutTopList
  PROVE  ContextInv'
<1>1. /\ pc \in {"supplemental", "artifacts"} /\ pc' = Telling!After[pc]
      /\ shown' = IF Telling!Fits(shown) THEN shown ELSE [shown EXCEPT ![pc] = Telling!Longest(pc)]
      /\ UNCHANGED <<components, given, primary, entries, read, directional, told, instructed>>
  BY DEF Telling!CutTopList, Telling!texts
<1>2. Telling!Fits(shown) <=> Room(shown)
  BY <1>1, FitsNow, ListNames
<1>3. /\ pc' \in {"artifacts", "rootEvidence"} /\ Rank[pc'] = Rank[pc] + 1
      /\ pc \in Telling!Lists
  BY <1>1, ListNames DEF Telling!After
<1>4. PICK q \in {"artifacts", "rootEvidence"} : pc' = q
  BY <1>3
<1> QED
  BY <1>1, <1>2, <1>3, <1>4, Advance, ListNames

LEMMA CutRootEvidenceHolds ==
  ASSUME ContextInv, Telling!CutRootEvidence
  PROVE  ContextInv'
<1>1. /\ pc = "rootEvidence" /\ pc' = "conclude"
      /\ shown' = IF Telling!Fits(shown) THEN shown ELSE [shown EXCEPT ![pc] = Telling!Longest(pc)]
      /\ UNCHANGED <<components, given, primary, entries, read, directional, told, instructed>>
  BY DEF Telling!CutRootEvidence, Telling!texts
<1>2. Telling!Fits(shown) <=> Room(shown)
  BY <1>1, FitsNow, ListNames
<1> QED
  BY <1>1, <1>2, Advance, ListNames

LEMMA ConcludeHolds ==
  ASSUME ContextInv, Telling!Conclude
  PROVE  ContextInv'
<1>1. /\ pc = "conclude" /\ pc' = "done"
      /\ directional' = (shown["propagation"] > 0)
      /\ instructed' = (instructed \/ ~directional')
      /\ UNCHANGED <<components, given, primary, entries, read, shown, told>>
  BY DEF Telling!Conclude, Telling!texts
<1>2. PICK c : c = shown
  OBVIOUS
<1>3. /\ CutsInOrder(c) /\ NothingWasted(c)
      /\ Room(c) \/ \A l \in Telling!Lists : c[l] = 0
  <2>1. \A l \in Telling!Lists : Rank[l] < 6
    BY ListNames
  <2> QED
    BY <1>1, <1>2, <2>1, ListNames DEF ContextInv, CutsHold, Begun, Cutting
<1>4. told
  BY <1>1, ListNames DEF ContextInv, Cutting
<1>5. CutsHold'
  BY <1>1, <1>2, <1>3, <1>4, SameCuts, SameItems DEF CutsHold
<1>6. Telling!TypeOK'
  BY <1>1, SameItems DEF ContextInv, Telling!TypeOK
<1>7. Chosen' /\ Telling!FallbackWithinBudget'
  BY <1>1, SameChoice DEF ContextInv
<1>8. Telling!DirectedTold'
  <2>1. Telling!Items("propagation") \in Seq(Nat)
    BY ItemsType, ListNames DEF ContextInv, Chosen, Telling!TypeOK, Entry
  <2>2. shown["propagation"] \in Nat /\ shown["propagation"] <= Len(Telling!Items("propagation"))
    BY ListNames DEF ContextInv, Telling!TypeOK
  <2>3. shown["propagation"] > 0 => Telling!Items("propagation") # <<>>
    BY <2>1, <2>2
  <2>4. (directional <=> Telling!Items("propagation") # <<>>) /\ (instructed <=> ~directional)
    BY <1>1, ListNames DEF ContextInv, Flags
  <2>5. instructed' <=> ~directional'
    BY <1>1, <2>3, <2>4
  <2>6. directional' <=> shown["propagation"] > 0
    BY <1>1
  <2> QED
    BY <1>1, <2>5, <2>6 DEF Telling!DirectedTold
<1>9. Flags' /\ Beginning' /\ Cutting'
  BY <1>1, ListNames DEF Flags, Beginning, Cutting, Telling!Lists
<1> QED
  BY <1>5, <1>6, <1>7, <1>8, <1>9 DEF ContextInv

LEMMA ContextStep ==
  ASSUME ContextInv, [Telling!Next]_(Telling!vars)
  PROVE  ContextInv'
<1>1. CASE UNCHANGED Telling!vars
  <2>1. UNCHANGED <<components, given, primary, entries, read, shown, directional, told,
                    instructed, pc>>
    BY <1>1 DEF Telling!vars
  <2>2. PICK c : c = shown
    OBVIOUS
  <2>3. CutsHold' /\ Cutting' /\ Flags'
    BY <2>1, <2>2, SameCuts, SameItems DEF ContextInv, CutsHold, Begun, Cutting, Flags
  <2>4. Telling!TypeOK' /\ Telling!DirectedTold' /\ Beginning'
    BY <2>1, SameItems DEF ContextInv, Telling!TypeOK, Telling!DirectedTold, Beginning
  <2>5. Chosen' /\ Telling!FallbackWithinBudget'
    BY <2>1 DEF ContextInv, Chosen, Telling!PrimaryWhenRelated, Telling!FallbackWithinBudget,
       Telling!Collected, Telling!UpTo, Telling!Items
  <2> QED
    BY <2>3, <2>4, <2>5 DEF ContextInv
<1> QED
  BY <1>1, SelectHolds, BuildHolds, TakeTextHolds, SkipTextHolds, WithinAlreadyHolds,
     StartCuttingHolds, CutAssociationsHolds, CutPropagationHolds, CutTopListHolds,
     CutRootEvidenceHolds, ConcludeHolds DEF Telling!Next

LEMMA ContextInvMeans ==
  ASSUME ContextInv
  PROVE  /\ Telling!TypeOK /\ Telling!PrimaryWhenRelated /\ Telling!WithinBudget
         /\ Telling!CutInOrder /\ Telling!NoItemWasted /\ Telling!TruncationTold
         /\ Telling!DirectedTold /\ Telling!FallbackWithinBudget
<1> DEFINE I == Telling!Importance
<1>1. /\ I[1] = "associations" /\ I[2] = "propagation" /\ I[3] = "supplemental"
      /\ I[4] = "artifacts" /\ I[5] = "rootEvidence"
  BY DEF Telling!Importance
<1>2. \A i \in 1 .. 5 : I[i] \in Telling!Lists /\ Rank[I[i]] = i
  <2>1. 1 .. 5 = {1, 2, 3, 4, 5}
    OBVIOUS
  <2> HIDE DEF I
  <2> QED
    BY <1>1, <2>1, ListNames
<1>3. \A l \in Telling!Lists : Rank[l] \in 1 .. 5 /\ I[Rank[l]] = l
  <2> HIDE DEF I
  <2> QED
    BY <1>1, ListNames
<1> HIDE DEF I
<1>4. ASSUME pc = "done" PROVE CutsInOrder(shown) /\ NothingWasted(shown)
  BY <1>4 DEF ContextInv, CutsHold, Begun
<1>5. Telling!CutInOrder
  <2> SUFFICES ASSUME pc = "done", NEW i \in 1 .. 5, shown[I[i]] < Telling!Whole(I[i]),
                      NEW j \in 1 .. i - 1
               PROVE  shown[I[j]] = 0
    BY DEF Telling!CutInOrder, I
  <2>1. j \in 1 .. 5 /\ j < i
    OBVIOUS
  <2> QED
    BY <1>2, <1>4, <2>1 DEF CutsInOrder
<1>6. Telling!NoItemWasted
  <2> SUFFICES ASSUME pc = "done", NEW i \in 1 .. 5, shown[I[i]] < Telling!Whole(I[i]),
                      \A j \in i + 1 .. 5 : ~(shown[I[j]] < Telling!Whole(I[j]))
               PROVE  Telling!SizeForCuts([shown EXCEPT ![I[i]] = shown[I[i]] + 1]) > ContextBudget
    BY DEF Telling!NoItemWasted, Telling!Shortened, I
  <2> DEFINE c == [shown EXCEPT ![I[i]] = shown[I[i]] + 1]
  <2>1. ASSUME NEW m \in Telling!Lists, Rank[m] > Rank[I[i]]
        PROVE  ~(shown[m] < Telling!Whole(m))
    <3>1. Rank[m] \in i + 1 .. 5 /\ I[Rank[m]] = m
      BY <1>2, <1>3, <2>1
    <3> QED
      BY <3>1
  <2>2. ~Room(c)
    BY <1>2, <1>4, <2>1 DEF NothingWasted
  <2>3. shown \in [Telling!Lists -> Nat] /\ \A l \in Telling!Lists : shown[l] <= Telling!Whole(l)
    BY DEF ContextInv, Telling!TypeOK, Telling!Whole
  <2>4. \A l \in Telling!Lists : Telling!Whole(l) \in Nat
    BY ItemsType DEF ContextInv, Chosen, Telling!TypeOK, Entry
  <2>5. c \in [Telling!Lists -> Nat] /\ \A l \in Telling!Lists : c[l] <= Telling!Whole(l)
    BY <1>2, <2>3, <2>4
  <2> HIDE DEF c
  <2>6. Telling!SizeForCuts(c) \in Nat
    BY <2>5, SizeType DEF ContextInv, Chosen, Telling!TypeOK, Entry
  <2>7. Telling!SizeForCuts(c) > ContextBudget
    BY <2>2, <2>6, ContextConstants DEF Room
  <2> QED
    BY <2>7 DEF c
<1>7. Telling!WithinBudget
  BY DEF ContextInv, CutsHold, Room, Telling!WithinBudget
<1>8. Telling!TruncationTold
  <2>1. pc = "done" => told \/ \A l \in Telling!Lists : shown[l] = Telling!Whole(l)
    BY DEF ContextInv, CutsHold, Begun
  <2>2. \A l \in Telling!Lists : Telling!Whole(l) \in Nat
    BY ItemsType DEF ContextInv, Chosen, Telling!TypeOK, Entry
  <2> QED
    BY <2>1, <2>2 DEF Telling!TruncationTold
<1> QED
  BY <1>5, <1>6, <1>7, <1>8 DEF ContextInv, Chosen

\* Whatever the correlation found and however large the lists and texts are, the
\* group that is told is a widest one, the context is cut within its budget, in
\* the order of importance and no further than needed, and says of itself what
\* is true; and the search for a prefix leaves the longest that fits
\* (build_llm_context, _enforce_correlated_context_byte_budget,
\* _largest_prefix_that_fits).
THEOREM ContextStaysTrue ==
  InvestigationSpec => []ContextIsTrue
<1> DEFINE I == /\ part = "context" => ContextInv
                /\ part = "search" => SearchInv
<1>1. InvestigationInit => I
  BY ContextBegins, SearchInit, InvestigationAssumption DEF InvestigationInit
<1>2. I /\ [InvestigationNext]_<<part, vars, selectionVars, contextVars, searchVars>> => I'
  <2> SUFFICES ASSUME I, [InvestigationNext]_<<part, vars, selectionVars, contextVars, searchVars>>
               PROVE  I'
    OBVIOUS
  <2>1. part' = part
    BY DEF InvestigationNext
  <2>2. part = "context" => [Telling!Next]_(Telling!vars)
    BY DEF InvestigationNext, contextVars, Telling!vars
  <2>3. part = "search" => [Search!Next]_(Search!vars)
    BY DEF InvestigationNext, searchVars, Search!vars
  <2>4. part = "context" => ContextInv'
    BY <2>2, ContextStep
  <2>5. part = "search" => SearchInv'
    BY <2>3, SearchStep, InvestigationAssumption
  <2> QED
    BY <2>1, <2>4, <2>5
<1>3. I => ContextIsTrue
  BY ContextInvMeans DEF ContextIsTrue, SearchInv
<1> HIDE DEF I
<1> QED
  BY <1>1, <1>2, <1>3, PTL DEF InvestigationSpec

-----------------------------------------------------------------------------
(* Orders by a key.                                                        *)

\* The modules of the parts have finite sets of their own: the same ones.
LEMMA SameFinite ==
  ASSUME NEW S
  PROVE  Selecting!Cardinality(S) = Cardinality(S) /\ (Selecting!IsFiniteSet(S) <=> IsFiniteSet(S))
BY DEF Selecting!Cardinality, Cardinality, Selecting!IsFiniteSet, IsFiniteSet

\* The lexical order of sequences of one length is a strict total order.
LEMMA LexicalOrder ==
  ASSUME NEW n \in Nat, NEW a \in [1 .. n -> Int], NEW b \in [1 .. n -> Int]
  PROVE  /\ ~Selecting!Before(a, a)
         /\ a # b => Selecting!Before(a, b) \/ Selecting!Before(b, a)
<1>1. Len(a) = n /\ Len(b) = n
  OBVIOUS
<1>2. ~Selecting!Before(a, a)
  BY <1>1 DEF Selecting!Before
<1>3. ASSUME a # b PROVE Selecting!Before(a, b) \/ Selecting!Before(b, a)
  <2> DEFINE D == {i \in 1 .. n : a[i] # b[i]}
  <2>1. D \in SUBSET Nat /\ D # {}
    BY <1>3
  <2>2. PICK i \in D : \A j \in D : i <= j
    BY <2>1, LeastNumber
  <2>3. i \in 1 .. n /\ a[i] \in Int /\ b[i] \in Int /\ a[i] # b[i]
    OBVIOUS
  <2>4. \A j \in 1 .. i - 1 : a[j] = b[j]
    <3> SUFFICES ASSUME NEW j \in 1 .. i - 1, a[j] # b[j] PROVE FALSE
      OBVIOUS
    <3>1. j \in D /\ j < i
      BY <2>3
    <3> HIDE DEF D
    <3> QED
      BY <2>2, <2>3, <3>1
  <2> HIDE DEF D
  <2>5. a[i] < b[i] \/ b[i] < a[i]
    BY <2>3
  <2> QED
    BY <1>1, <2>3, <2>4, <2>5 DEF Selecting!Before
<1> QED
  BY <1>2, <1>3

\* The lexical order is transitive.
LEMMA LexicalTransitive ==
  ASSUME NEW n \in Nat, NEW a \in [1 .. n -> Int], NEW b \in [1 .. n -> Int],
         NEW c \in [1 .. n -> Int], Selecting!Before(a, b), Selecting!Before(b, c)
  PROVE  Selecting!Before(a, c)
<1>1. Len(a) = n /\ Len(b) = n
  OBVIOUS
<1>2. PICK i \in 1 .. n : a[i] < b[i] /\ \A j \in 1 .. i - 1 : a[j] = b[j]
  BY <1>1 DEF Selecting!Before
<1>3. PICK k \in 1 .. n : b[k] < c[k] /\ \A j \in 1 .. k - 1 : b[j] = c[j]
  BY <1>1 DEF Selecting!Before
<1>4. /\ a[i] \in Int /\ b[i] \in Int /\ c[i] \in Int
      /\ a[k] \in Int /\ b[k] \in Int /\ c[k] \in Int
  OBVIOUS
<1>5. CASE i < k
  <2>1. a[i] < c[i]
    BY <1>2, <1>3, <1>5
  <2>2. \A j \in 1 .. i - 1 : a[j] = c[j]
    BY <1>2, <1>3, <1>5
  <2> QED
    BY <1>1, <2>1, <2>2 DEF Selecting!Before
<1>6. CASE i = k
  <2>1. a[i] < c[i] /\ \A j \in 1 .. i - 1 : a[j] = c[j]
    BY <1>2, <1>3, <1>4, <1>6
  <2> QED
    BY <1>1, <2>1 DEF Selecting!Before
<1>7. CASE k < i
  <2>1. a[k] < c[k] /\ \A j \in 1 .. k - 1 : a[j] = c[j]
    BY <1>2, <1>3, <1>4, <1>7
  <2> QED
    BY <1>1, <2>1 DEF Selecting!Before
<1> QED
  BY <1>5, <1>6, <1>7

\* A finite set whose elements have keys of one length, no two the same.
Keyed(s, key) ==
    /\ IsFiniteSet(s)
    /\ \E n \in Nat : \A r \in s : key[r] \in [1 .. n -> Int]
    /\ \A q, r \in s : key[q] = key[r] => q = r

\* Keys order the elements of a set that has them.
LEMMA KeyedOrder ==
  ASSUME NEW s, NEW key, Keyed(s, key)
  PROVE  /\ \A r \in s : ~Selecting!Before(key[r], key[r])
         /\ \A q, r \in s : q # r => \/ Selecting!Before(key[q], key[r])
                                     \/ Selecting!Before(key[r], key[q])
         /\ \A q, r, t \in s :
               Selecting!Before(key[q], key[r]) /\ Selecting!Before(key[r], key[t])
               => Selecting!Before(key[q], key[t])
<1>1. PICK n \in Nat : \A r \in s : key[r] \in [1 .. n -> Int]
  BY DEF Keyed
<1>2. \A q, r \in s : q # r => key[q] # key[r]
  BY DEF Keyed
<1>3. \A r \in s : ~Selecting!Before(key[r], key[r])
  BY <1>1, LexicalOrder
<1>4. \A q, r \in s : q # r => \/ Selecting!Before(key[q], key[r])
                               \/ Selecting!Before(key[r], key[q])
  BY <1>1, <1>2, LexicalOrder
<1>5. \A q, r, t \in s :
         Selecting!Before(key[q], key[r]) /\ Selecting!Before(key[r], key[t])
         => Selecting!Before(key[q], key[t])
  BY <1>1, LexicalTransitive
<1> QED
  BY <1>3, <1>4, <1>5

\* A part of a set with keys has keys.
LEMMA KeyedSubset ==
  ASSUME NEW s, NEW key, Keyed(s, key), NEW t \in SUBSET s
  PROVE  Keyed(t, key)
<1>1. IsFiniteSet(t)
  BY FS_Subset DEF Keyed
<1> QED
  BY <1>1 DEF Keyed

\* A set with keys has a least element.
LEMMA LeastHolds ==
  ASSUME NEW s, NEW key, Keyed(s, key), s # {}
  PROVE  /\ Selecting!Least(s, key) \in s
         /\ \A q \in s \ {Selecting!Least(s, key)} :
               Selecting!Before(key[Selecting!Least(s, key)], key[q])
<1> DEFINE R == {p \in s \X s : Selecting!Before(key[p[1]], key[p[2]])}
<1>1. \A q, r \in s : <<q, r>> \in R <=> Selecting!Before(key[q], key[r])
  OBVIOUS
<1> HIDE DEF R
<1>2. \E x \in s : \A y \in s : <<y, x>> \notin R
  <2>1. \A x \in s : <<x, x>> \notin R
    BY <1>1, KeyedOrder
  <2>2. \A x, y, z \in s : <<x, y>> \in R /\ <<y, z>> \in R => <<x, z>> \in R
    BY <1>1, KeyedOrder
  <2>3. IsFiniteSet(s)
    BY DEF Keyed
  <2> QED
    BY <2>1, <2>2, <2>3, LeastElement
<1>3. \E x \in s : \A q \in s \ {x} : Selecting!Before(key[x], key[q])
  <2>1. PICK x \in s : \A y \in s : <<y, x>> \notin R
    BY <1>2
  <2>2. \A q \in s \ {x} : Selecting!Before(key[x], key[q])
    BY <1>1, <2>1, KeyedOrder
  <2> QED
    BY <2>2
<1> QED
  BY <1>3 DEF Selecting!Least

Position(s, r, key) == Cardinality(Selecting!Ahead(s, r, key))

\* An element's rank is the number of those ahead of it.
LEMMA RankGrows ==
  ASSUME NEW s, NEW key, Keyed(s, key), NEW q \in s, NEW r \in s,
         Selecting!Before(key[q], key[r])
  PROVE  Position(s, q, key) < Position(s, r, key)
<1> DEFINE Q == Selecting!Ahead(s, q, key)
           R == Selecting!Ahead(s, r, key)
<1>1. Q \in SUBSET R /\ q \in R /\ q \notin Q
  BY KeyedOrder DEF Selecting!Ahead
<1>2. IsFiniteSet(R)
  BY FS_Subset DEF Selecting!Ahead, Keyed
<1> HIDE DEF Q, R
<1>3. /\ Cardinality(Q) <= Cardinality(R) /\ Cardinality(Q) # Cardinality(R)
      /\ Cardinality(Q) \in Nat /\ Cardinality(R) \in Nat
  BY <1>1, <1>2, FS_Subset, FS_CardinalityType
<1> QED
  BY <1>3 DEF Position, Q, R

\* Positions are below the number of elements.
LEMMA RankInRange ==
  ASSUME NEW s, NEW key, Keyed(s, key), NEW r \in s
  PROVE  Position(s, r, key) \in 0 .. Cardinality(s) - 1
<1> DEFINE R == Selecting!Ahead(s, r, key)
<1>1. R \in SUBSET s /\ r \notin R
  BY KeyedOrder DEF Selecting!Ahead
<1>2. IsFiniteSet(s)
  BY DEF Keyed
<1> HIDE DEF R
<1>3. /\ Cardinality(R) <= Cardinality(s) /\ Cardinality(R) # Cardinality(s)
      /\ Cardinality(R) \in Nat /\ Cardinality(s) \in Nat
  BY <1>1, <1>2, FS_Subset, FS_CardinalityType
<1> QED
  BY <1>3 DEF Position, R

\* Every position is held by one element.
LEMMA Ranks ==
  ASSUME NEW s, NEW key, Keyed(s, key)
  PROVE  /\ \A q, r \in s : Position(s, q, key) = Position(s, r, key) => q = r
         /\ \A i \in 0 .. Cardinality(s) - 1 : \E r \in s : Position(s, r, key) = i
<1> DEFINE f == [r \in s |-> Position(s, r, key)]
           T == 0 .. Cardinality(s) - 1
<1>1. IsFiniteSet(s) /\ Cardinality(s) \in Nat
  BY FS_CardinalityType DEF Keyed
<1>2. \A q, r \in s : Position(s, q, key) = Position(s, r, key) => q = r
  <2> SUFFICES ASSUME NEW q \in s, NEW r \in s, Position(s, q, key) = Position(s, r, key), q # r
               PROVE  FALSE
    OBVIOUS
  <2>1. Position(s, q, key) < Position(s, r, key) \/ Position(s, r, key) < Position(s, q, key)
    BY KeyedOrder, RankGrows
  <2>2. Position(s, q, key) \in Nat /\ Position(s, r, key) \in Nat
    BY <1>1, RankInRange
  <2> QED
    BY <2>1, <2>2
<1>3. f \in [s -> T]
  BY RankInRange
<1>4. f \in Injection(s, T)
  BY <1>2, <1>3 DEF Injection, IsInjective
<1>5. IsFiniteSet(T) /\ Cardinality(T) = Cardinality(s)
  BY <1>1, FS_Interval
<1> HIDE DEF T
<1>6. f \in Surjection(s, T)
  <2> HIDE DEF f
  <2> QED
    BY <1>4, <1>5, FS_Injection
<1>7. \A i \in T : \E r \in s : f[r] = i
  BY <1>6 DEF Surjection
<1>8. \A i \in T : \E r \in s : Position(s, r, key) = i
  BY <1>7
<1> QED
  BY <1>2, <1>8 DEF T

\* Sorting puts every element once.
LEMMA SortedByHolds ==
  ASSUME NEW s, NEW key, Keyed(s, key), NEW t, t = Selecting!SortedBy(s, key)
  PROVE  /\ t \in [1 .. Cardinality(s) -> s]
         /\ \A i, j \in 1 .. Cardinality(s) : t[i] = t[j] => i = j
         /\ \A r \in s : \E i \in 1 .. Cardinality(s) : t[i] = r
<1> DEFINE n == Cardinality(s)
<1>1. n \in Nat
  BY FS_CardinalityType DEF Keyed
<1>2. t = [i \in 1 .. n |-> CHOOSE r \in s : Position(s, r, key) = i - 1]
  BY SameFinite DEF Selecting!SortedBy, Position
<1> HIDE DEF n
<1>3. ASSUME NEW i \in 1 .. n
      PROVE  t[i] \in s /\ Position(s, t[i], key) = i - 1
  <2>1. i - 1 \in 0 .. n - 1
    BY <1>1
  <2>2. \E r \in s : Position(s, r, key) = i - 1
    BY <2>1, Ranks DEF n
  <2>3. t[i] = CHOOSE r \in s : Position(s, r, key) = i - 1
    BY <1>2
  <2> QED
    BY <2>2, <2>3
<1>4. t \in [1 .. n -> s]
  BY <1>2, <1>3
<1>5. ASSUME NEW i \in 1 .. n, NEW j \in 1 .. n, t[i] = t[j] PROVE i = j
  <2>1. i - 1 = j - 1
    BY <1>3, <1>5
  <2> QED
    BY <2>1
<1>6. ASSUME NEW r \in s PROVE \E i \in 1 .. n : t[i] = r
  <2>1. Position(s, r, key) \in 0 .. n - 1
    BY RankInRange DEF n
  <2>2. PICK i \in 1 .. n : i = Position(s, r, key) + 1
    BY <1>1, <2>1
  <2>3. Position(s, t[i], key) = Position(s, r, key) /\ t[i] \in s
    BY <1>3, <2>1, <2>2
  <2> QED
    BY <2>3, Ranks
<1> QED
  BY <1>4, <1>5, <1>6 DEF n

\* The first k elements of a set.
Batch(s, k, key) == {r \in s : Position(s, r, key) < k}

\* A batch is closed downwards, and is all there is when it is short.
LEMMA BatchHolds ==
  ASSUME NEW s, NEW key, Keyed(s, key), NEW k \in Nat, k # 0, NEW t, t = Batch(s, k, key)
  PROVE  /\ t \subseteq s /\ Keyed(t, key)
         /\ \A q \in s, r \in t : Selecting!Before(key[q], key[r]) => q \in t
         /\ Cardinality(t) # k => t = s
         /\ t = {} => s = {}
<1> DEFINE n == Cardinality(s)
<1>1. n \in Nat /\ IsFiniteSet(s)
  BY FS_CardinalityType DEF Keyed
<1>2. t \in SUBSET s
  BY DEF Batch
<1>3. Keyed(t, key)
  BY <1>2, KeyedSubset
<1> HIDE DEF n
<1>4. ASSUME NEW r \in s PROVE Position(s, r, key) \in 0 .. n - 1
  BY RankInRange DEF n
<1>5. \A q \in s, r \in t : Selecting!Before(key[q], key[r]) => q \in t
  <2> SUFFICES ASSUME NEW q \in s, NEW r \in t, Selecting!Before(key[q], key[r])
               PROVE  q \in t
    OBVIOUS
  <2>1. r \in s /\ Position(s, r, key) < k
    BY DEF Batch
  <2>2. Position(s, q, key) < Position(s, r, key)
    BY <2>1, RankGrows
  <2>3. Position(s, q, key) \in Nat /\ Position(s, r, key) \in Nat
    BY <1>1, <1>4, <2>1
  <2>4. Position(s, q, key) < k
    BY <2>1, <2>2, <2>3
  <2> QED
    BY <2>4 DEF Batch
<1>6. ASSUME t # s PROVE Cardinality(t) = k
  <2>1. PICK x \in s : ~(Position(s, x, key) < k)
    BY <1>2, <1>6 DEF Batch
  <2>2. k <= n - 1
    BY <1>1, <1>4, <2>1
  <2> DEFINE U == 0 .. k - 1
             f == [r \in t |-> Position(s, r, key)]
  <2>3. f \in [t -> U]
    <3> SUFFICES ASSUME NEW r \in t PROVE Position(s, r, key) \in U
      OBVIOUS
    <3>1. r \in s /\ Position(s, r, key) < k
      BY DEF Batch
    <3> QED
      BY <1>1, <1>4, <3>1
  <2>4. f \in Injection(t, U)
    <3>1. \A q, r \in t : Position(s, q, key) = Position(s, r, key) => q = r
      BY <1>2, Ranks
    <3> QED
      BY <2>3, <3>1 DEF Injection, IsInjective
  <2>5. \A i \in U : \E r \in t : f[r] = i
    <3> SUFFICES ASSUME NEW i \in U PROVE \E r \in t : Position(s, r, key) = i
      OBVIOUS
    <3>1. i \in 0 .. n - 1 /\ i < k
      BY <1>1, <2>2
    <3>2. PICK r \in s : Position(s, r, key) = i
      BY <3>1, Ranks DEF n
    <3>3. r \in t
      BY <3>1, <3>2 DEF Batch
    <3> QED
      BY <3>2, <3>3
  <2>6. f \in Surjection(t, U)
    BY <2>3, <2>5 DEF Surjection
  <2>7. IsFiniteSet(U) /\ Cardinality(U) = k
    BY FS_Interval
  <2> HIDE DEF f, U
  <2> QED
    BY <2>4, <2>6, <2>7, FS_Injection
<1>7. ASSUME t = {}, s # {} PROVE FALSE
  <2>1. PICK x \in s : TRUE
    BY <1>7
  <2>2. 0 \in 0 .. n - 1
    BY <1>1, <1>4
  <2>3. PICK r \in s : Position(s, r, key) = 0
    BY <2>2, Ranks DEF n
  <2>4. r \in t
    BY <2>3 DEF Batch
  <2> QED
    BY <1>7, <2>4
<1> QED
  BY <1>2, <1>3, <1>5, <1>6, <1>7

\* A set that is not empty has a last element, and just one.
LEMMA LastHolds ==
  ASSUME NEW s, NEW key, Keyed(s, key), s # {}
  PROVE  \E m \in s : /\ {r \in s : s = Selecting!Ahead(s, r, key) \cup {r}} = {m}
                      /\ \A q \in s \ {m} : Selecting!Before(key[q], key[m])
<1> DEFINE R == {p \in s \X s : Selecting!Before(key[p[2]], key[p[1]])}
<1>1. \A q, r \in s : <<q, r>> \in R <=> Selecting!Before(key[r], key[q])
  OBVIOUS
<1> HIDE DEF R
<1>2. \E x \in s : \A y \in s : <<y, x>> \notin R
  <2>1. \A x \in s : <<x, x>> \notin R
    BY <1>1, KeyedOrder
  <2>2. \A x, y, z \in s : <<x, y>> \in R /\ <<y, z>> \in R => <<x, z>> \in R
    BY <1>1, KeyedOrder
  <2>3. IsFiniteSet(s)
    BY DEF Keyed
  <2> QED
    BY <2>1, <2>2, <2>3, LeastElement
<1>3. PICK m \in s : \A y \in s : <<y, m>> \notin R
  BY <1>2
<1>4. \A q \in s \ {m} : Selecting!Before(key[q], key[m])
  BY <1>1, <1>3, KeyedOrder
<1>5. s = Selecting!Ahead(s, m, key) \cup {m}
  BY <1>4 DEF Selecting!Ahead
<1>6. ASSUME NEW r \in s, s = Selecting!Ahead(s, r, key) \cup {r} PROVE r = m
  <2> SUFFICES ASSUME r # m PROVE FALSE
    OBVIOUS
  <2>1. Selecting!Before(key[r], key[m])
    BY <1>4
  <2>2. m \in Selecting!Ahead(s, r, key)
    BY <1>6
  <2>3. Selecting!Before(key[m], key[r])
    BY <2>2 DEF Selecting!Ahead
  <2>4. Selecting!Before(key[m], key[m])
    BY <2>1, <2>3, KeyedOrder
  <2> QED
    BY <2>4, KeyedOrder
<1>7. {r \in s : s = Selecting!Ahead(s, r, key) \cup {r}} = {m}
  BY <1>5, <1>6
<1> QED
  BY <1>4, <1>7

-----------------------------------------------------------------------------
(* The rows.                                                               *)

\* What the assumption says of a table.
Table(t) ==
    /\ IsFiniteSet(t)
    /\ \A r \in t : /\ r.artifact \in Int /\ r.line \in Nat /\ r.fingerprint \in Int
                    /\ r.time = None \/ r.time \in Nat
                    /\ r.count \in Nat /\ r.size \in Nat
    /\ \A r, q \in t : r.line = q.line /\ r.fingerprint = q.fingerprint => r = q

\* What the assumption says of the constants.
LEMMA SelectionConstants ==
  /\ RecordLimits \subseteq Nat /\ ByteLimits \subseteq Nat
  /\ ScanBatches \subseteq Nat \ {0}
  /\ \A t \in RowTables : Table(t)
BY InvestigationAssumption, SameFinite DEF Selecting!SelectionAssumption, Table

\* The three keys tell the rows of a table apart.
LEMMA KeysDiffer ==
  ASSUME Table(table)
  PROVE  /\ Keyed(table, Selecting!StableKey)
         /\ Keyed(table, Selecting!ChronologicalKey)
         /\ Keyed(table, Selecting!PriorityKey)
<1>1. IsFiniteSet(table)
  BY DEF Table
<1>2. \A r \in table : r.artifact \in Int /\ r.line \in Int /\ r.fingerprint \in Int /\ Selecting!Time(r) \in Int
                       /\ -r.count \in Int
  BY DEF Table, Selecting!Time
<1>3. Keyed(table, Selecting!StableKey)
  <2> DEFINE k == Selecting!StableKey
  <2>1. \A r \in table : k[r] = <<r.line, r.fingerprint>>
    BY DEF Selecting!StableKey
  <2>2. \A r \in table : k[r] \in [1 .. 2 -> Int] /\ k[r][1] = r.line /\ k[r][2] = r.fingerprint
    BY <1>2, <2>1
  <2> HIDE DEF k
  <2>3. \A q, r \in table : k[q] = k[r] => q = r
    BY <2>2 DEF Table
  <2> QED
    BY <1>1, <2>2, <2>3 DEF Keyed, k
<1>4. Keyed(table, Selecting!ChronologicalKey)
  <2> DEFINE k == Selecting!ChronologicalKey
  <2>1. \A r \in table : k[r] = <<Selecting!Time(r), r.line, r.fingerprint>>
    BY DEF Selecting!ChronologicalKey
  <2>2. \A r \in table : k[r] \in [1 .. 3 -> Int] /\ k[r][2] = r.line /\ k[r][3] = r.fingerprint
    BY <1>2, <2>1
  <2> HIDE DEF k
  <2>3. \A q, r \in table : k[q] = k[r] => q = r
    BY <2>2 DEF Table
  <2> QED
    BY <1>1, <2>2, <2>3 DEF Keyed, k
<1>5. Keyed(table, Selecting!PriorityKey)
  <2> DEFINE k == Selecting!PriorityKey
  <2>1. ASSUME NEW r \in table
        PROVE  k[r] \in [1 .. 6 -> Int] /\ k[r][5] = r.line /\ k[r][6] = r.fingerprint
    <3>1. PICK a, b, c \in Int :
            /\ a = (IF r.matches THEN 0 ELSE 1) /\ b = -Selecting!SimpleRank(r.severity)
            /\ c = -r.count
      BY <1>2 DEF Selecting!SimpleRank
    <3>2. k[r] = <<a, b, c, Selecting!Time(r), r.line, r.fingerprint>>
      BY <3>1 DEF Selecting!PriorityKey
    <3> HIDE DEF k
    <3> QED
      BY <1>2, <3>1, <3>2
  <2> HIDE DEF k
  <2>3. \A q, r \in table : k[q] = k[r] => q = r
    BY <2>1 DEF Table
  <2> QED
    BY <1>1, <2>1, <2>3 DEF Keyed, k
<1> QED
  BY <1>3, <1>4, <1>5

\* The bytes of some rows.
BytesOf(s) == UNION {{r} \X (1 .. r.size) : r \in s}

\* A row has as many bytes as its size.
LEMMA BytesOfOne ==
  ASSUME NEW r, NEW n \in Nat, r.size = n
  PROVE  IsFiniteSet({r} \X (1 .. r.size)) /\ Cardinality({r} \X (1 .. r.size)) = n
<1> DEFINE R == {r}
           S == 1 .. n
<1>1. IsFiniteSet(R) /\ Cardinality(R) = 1 /\ IsFiniteSet(S) /\ Cardinality(S) = n
  <2>1. IsFiniteSet({r}) /\ Cardinality({r}) = 1
    BY FS_Singleton
  <2>2. IsFiniteSet(1 .. n) /\ Cardinality(1 .. n) = n
    BY FS_Interval
  <2> QED
    BY <2>1, <2>2
<1>2. {r} \X (1 .. r.size) = R \X S
  OBVIOUS
<1> HIDE DEF R, S
<1>3. IsFiniteSet(R \X S) /\ Cardinality(R \X S) = 1 * n
  BY <1>1, FS_Product
<1> QED
  BY <1>2, <1>3

\* The bytes of finitely many rows are finite.
LEMMA BytesAreFinite ==
  ASSUME NEW s, IsFiniteSet(s), \A r \in s : r.size \in Nat
  PROVE  IsFiniteSet(BytesOf(s))
<1> DEFINE B(r) == {r} \X (1 .. r.size)
           T == {B(r) : r \in s}
           f == [r \in s |-> B(r)]
<1>1. \A r \in s : IsFiniteSet(B(r))
  BY BytesOfOne
<1>2. BytesOf(s) = UNION T
  BY DEF BytesOf
<1> HIDE DEF B
<1>3. f \in [s -> T] /\ \A t \in T : \E r \in s : f[r] = t
  OBVIOUS
<1>4. \A t \in T : IsFiniteSet(t)
  BY <1>1
<1> HIDE DEF T, f
<1>5. IsFiniteSet(T)
  BY <1>3, ImageIsFinite
<1> QED
  BY <1>2, <1>4, <1>5, FS_UNION

\* A row adds its size to the bytes of a selection.
LEMMA TotalAdds ==
  ASSUME NEW s, IsFiniteSet(s), \A r \in s : r.size \in Nat,
         NEW x, x.size \in Nat, x \notin s
  PROVE  /\ Selecting!Total(s) \in Nat
         /\ Selecting!Total(s \cup {x}) = Selecting!Total(s) + x.size
<1> DEFINE S == BytesOf(s)
           T == {x} \X (1 .. x.size)
<1>1. BytesOf(s \cup {x}) = S \cup T /\ S \cap T = {}
  BY DEF BytesOf
<1>2. IsFiniteSet(S) /\ IsFiniteSet(T) /\ Cardinality(T) = x.size
  BY BytesAreFinite, BytesOfOne
<1>3. Selecting!Total(s) = Cardinality(S)
  BY SameFinite DEF Selecting!Total, BytesOf
<1>4. Selecting!Total(s \cup {x}) = Cardinality(BytesOf(s \cup {x}))
  BY SameFinite DEF Selecting!Total, BytesOf
<1> HIDE DEF S, T
<1>5. Cardinality(S) \in Nat
  BY <1>2, FS_CardinalityType
<1>6. Cardinality(S \cup T) = Cardinality(S) + Cardinality(T) - Cardinality(S \cap T)
  BY <1>2, FS_Union
<1>7. Cardinality({}) = 0
  BY FS_EmptySet
<1>8. Cardinality(S \cap T) = 0
  BY <1>1, <1>7, Zenon
<1>9. Cardinality(S \cup T) = Cardinality(S) + x.size
  BY <1>2, <1>5, <1>6, <1>8
<1> QED
  BY <1>1, <1>3, <1>4, <1>5, <1>9

\* A fingerprint that weighs is one of at least two rows.
LEMMA CountIsPositive ==
  ASSUME Table(table), NEW v \in Selecting!Fingerprints
  PROVE  Selecting!FingerprintCount[v] \in Nat /\ Selecting!FingerprintCount[v] > 1
<1>1. v \in DOMAIN Selecting!FingerprintCount /\ Selecting!FingerprintCount[v] > 1
  BY DEF Selecting!Fingerprints, Selecting!Heaviest
<1>2. Selecting!FingerprintCount[v] = Cardinality({r \in table : r.fingerprint = v})
  BY <1>1, SameFinite DEF Selecting!FingerprintCount
<1>3. IsFiniteSet({r \in table : r.fingerprint = v})
  BY FS_Subset DEF Table
<1> QED
  BY <1>1, <1>2, <1>3, FS_CardinalityType

\* A score is a number: it divides by no zero.
LEMMA ScoreIsInt ==
  ASSUME Table(table), NEW r \in table, NEW c \in Int, counts[r.artifact] = c
  PROVE  Selecting!Score(r) \in Int
<1> DEFINE n == IF r.fingerprint \in Selecting!Fingerprints
                THEN Selecting!FingerprintCount[r.fingerprint] ELSE 1
<1>1. n \in Nat /\ n > 0
  BY CountIsPositive
<1> HIDE DEF n
<1>2. 300 \div n \in Int
  BY <1>1
<1>3. Selecting!SeverityRank(r.severity) \in Int
  BY DEF Selecting!SeverityRank
<1>4. PICK a \in Int : a = IF r.span THEN 5 * 300 ELSE 0
  OBVIOUS
<1>5. PICK b \in Int : b = IF Selecting!Bridging(r) THEN 4 * 300
                           ELSE IF r.trace # None \/ r.request # None \/ r.identified THEN 3 * 300
                           ELSE 0
  OBVIOUS
<1>6. PICK d \in Int : d = IF r.matches THEN 2 * 300 ELSE 0
  OBVIOUS
<1>7. Selecting!Priority(r) = a + b + Selecting!SeverityRank(r.severity) * 300 + d + (300 \div n)
  BY <1>4, <1>5, <1>6 DEF Selecting!Priority, Selecting!Unit, n
<1>8. Selecting!Priority(r) \in Int
  BY <1>2, <1>3, <1>7
<1> QED
  BY <1>8 DEF Selecting!Score, Selecting!Penalty

-----------------------------------------------------------------------------
(* What holds between the steps of a selection.                            *)

Framed ==
    /\ table \in RowTables
    /\ limits \in [records : RecordLimits, bytes : ByteLimits, batch : ScanBatches]
    /\ caller \in {"finalize", "prompt"}
    /\ phase \in {"start", "rounds", "scan", "pick", "done"}

\* Rows come under the cursor, are fetched, and are scored one by one.
Scanned ==
    /\ reserved \subseteq table /\ fetched \subseteq table
    /\ cursor \in [1 .. 2 -> Int]
    /\ \A r \in fetched : ~Selecting!AfterCursor(r)
    /\ full \/ \A r \in table : ~Selecting!AfterCursor(r)
    /\ IsFiniteSet(scored)
    /\ \A e \in scored : /\ e.row \in table \ (reserved \cup fetched)
                         /\ ~Selecting!AfterCursor(e.row)
                         /\ e.score \in Int /\ e.tie \in 1 .. Cardinality(scored)
    /\ \A e, f \in scored : e.row = f.row \/ e.tie = f.tie => e = f
    /\ Selecting!Remaining > 0 =>
         \A r \in table \ (reserved \cup fetched) :
            ~Selecting!AfterCursor(r) => \E e \in scored : e.row = r

\* The heap has what was scored as long as there is room, and its best after.
Heaped ==
    /\ heap \subseteq scored
    /\ Cardinality(heap) <= Selecting!Remaining
    /\ heap # scored => Cardinality(heap) = Selecting!Remaining
    /\ Selecting!LeftOutIsWeaker
    /\ counts \in [Selecting!Artifacts -> Nat]
    /\ Selecting!CountsMatchHeap

Distinct(t) == \A i, j \in 1 .. Len(t) : t[i] = t[j] => i = j

Kept ==
    /\ selected \in Seq(table) /\ Distinct(selected)
    /\ Selecting!WithinLimits

\* What has not begun.
Waiting ==
    /\ phase \in {"start", "rounds"} =>
         /\ reserved = {} /\ heap = {} /\ scored = {}
         /\ cursor = <<-1, -1>> /\ fetched = {} /\ full
    /\ phase \in {"start", "scan", "pick"} => queue = {} /\ active = <<>> /\ next = <<>>
    /\ phase \in {"start", "scan"} => selected = <<>>
    /\ phase = "pick" => fetched = {} /\ ~full

FromScan == reserved \cup {h.row : h \in heap}

Picking ==
    phase = "pick" =>
      /\ candidates \in Seq(FromScan) /\ Distinct(candidates)
      /\ \A r \in Selecting!ToSet(candidates) : r \notin Selecting!ToSet(selected)
      /\ \A r \in FromScan \ Selecting!ToSet(selected) :
            r \in Selecting!ToSet(candidates) \/ Selecting!Bytes + r.size > limits.bytes

\* In a round artifacts have given n rows before their turn and one more after
\* it.  Those that are out have no more, and none left that fits.
LeftOf(a) == {r \in table : r.artifact = a} \ Selecting!ToSet(selected)

Round(n) ==
    /\ active \in Seq(Selecting!Artifacts) /\ next \in Seq(Selecting!Artifacts)
    /\ queue \subseteq table
    /\ Distinct(active) /\ Distinct(next)
    /\ \A a \in Selecting!ToSet(active) :
         a \notin Selecting!ToSet(next) /\ Selecting!Given(a) = n
    /\ \A a \in Selecting!ToSet(next) : Selecting!Given(a) = n + 1
    /\ \A a \in Selecting!ToSet(active) \cup Selecting!ToSet(next) :
         Selecting!Left(a) = LeftOf(a)
    /\ \A a \in Selecting!Artifacts \ (Selecting!ToSet(active) \cup Selecting!ToSet(next)) :
         /\ Selecting!Given(a) <= n + 1
         /\ \/ LeftOf(a) = {}
            \/ Selecting!Bytes
                 + Selecting!Least(LeftOf(a), Selecting!PriorityKey).size > limits.bytes

Rounds == phase = "rounds" => \E n \in Nat : Round(n)

Ended ==
    phase = "done" =>
      /\ queue \subseteq table
      /\ Selecting!ToSet(active) \cup Selecting!ToSet(next) \subseteq Selecting!Artifacts
      /\ Selecting!FairShares /\ Selecting!NothingElseFits

SelectionInv ==
    /\ Framed /\ Scanned /\ Heaped /\ Kept /\ Waiting /\ Picking /\ Rounds /\ Ended

-----------------------------------------------------------------------------
(* Sequences without repetition.                                           *)

\* The empty sequence.
LEMMA NoneTaken ==
  Selecting!ToSet(<<>>) = {} /\ Distinct(<<>>)
BY DEF Selecting!ToSet, Distinct

\* A sequence with one element more.
LEMMA OneMore ==
  ASSUME NEW S, NEW t \in Seq(S), NEW x \in S
  PROVE  /\ Append(t, x) \in Seq(S) /\ Len(Append(t, x)) = Len(t) + 1
         /\ Selecting!ToSet(Append(t, x)) = Selecting!ToSet(t) \cup {x}
         /\ Distinct(t) /\ x \notin Selecting!ToSet(t) => Distinct(Append(t, x))
<1> DEFINE u == Append(t, x)
<1>1. /\ u \in Seq(S) /\ Len(u) = Len(t) + 1 /\ Len(t) \in Nat
      /\ \A i \in 1 .. Len(t) : u[i] = t[i]
      /\ u[Len(t) + 1] = x
  OBVIOUS
<1>2. DOMAIN t = 1 .. Len(t) /\ DOMAIN u = 1 .. Len(u)
  BY <1>1
<1> HIDE DEF u
<1>3. Selecting!ToSet(u) = Selecting!ToSet(t) \cup {x}
  <2>1. ASSUME NEW y \in Selecting!ToSet(u) PROVE y \in Selecting!ToSet(t) \cup {x}
    <3>1. PICK i \in 1 .. Len(u) : y = u[i]
      BY <1>2 DEF Selecting!ToSet
    <3> QED
      BY <1>1, <1>2, <3>1 DEF Selecting!ToSet
  <2>2. ASSUME NEW y \in Selecting!ToSet(t) PROVE y \in Selecting!ToSet(u)
    <3>1. PICK i \in 1 .. Len(t) : y = t[i]
      BY <1>2 DEF Selecting!ToSet
    <3>2. i \in 1 .. Len(u) /\ u[i] = y
      BY <1>1, <3>1
    <3> QED
      BY <1>2, <3>2 DEF Selecting!ToSet
  <2>3. x \in Selecting!ToSet(u)
    <3>1. Len(t) + 1 \in 1 .. Len(u)
      BY <1>1
    <3> QED
      BY <1>1, <1>2, <3>1 DEF Selecting!ToSet
  <2> QED
    BY <2>1, <2>2, <2>3
<1>4. ASSUME Distinct(t), x \notin Selecting!ToSet(t), NEW i \in 1 .. Len(u), NEW j \in 1 .. Len(u),
             u[i] = u[j]
      PROVE  i = j
  <2>1. \A k \in 1 .. Len(t) : u[k] # x
    BY <1>1, <1>2, <1>4 DEF Selecting!ToSet
  <2>2. CASE i \in 1 .. Len(t) /\ j \in 1 .. Len(t)
    BY <1>1, <1>4, <2>2 DEF Distinct
  <2>3. CASE i = Len(t) + 1 \/ j = Len(t) + 1
    BY <1>1, <1>4, <2>1, <2>3
  <2>4. i \in 1 .. Len(t) \/ i = Len(t) + 1
    BY <1>1
  <2>5. j \in 1 .. Len(t) \/ j = Len(t) + 1
    BY <1>1
  <2> QED
    BY <2>2, <2>3, <2>4, <2>5
<1>5. Distinct(t) /\ x \notin Selecting!ToSet(t) => Distinct(u)
  BY <1>4 DEF Distinct
<1> QED
  BY <1>1, <1>3, <1>5 DEF u

\* A sequence without its first element.
LEMMA FirstTaken ==
  ASSUME NEW S, NEW t \in Seq(S), t # <<>>
  PROVE  /\ Head(t) \in S /\ Tail(t) \in Seq(S)
         /\ Selecting!ToSet(t) = {Head(t)} \cup Selecting!ToSet(Tail(t))
         /\ Distinct(t) => Distinct(Tail(t)) /\ Head(t) \notin Selecting!ToSet(Tail(t))
<1> DEFINE u == Tail(t)
<1>1. /\ u \in Seq(S) /\ Len(u) = Len(t) - 1 /\ Len(t) \in Nat /\ Len(t) > 0
      /\ \A i \in 1 .. Len(u) : u[i] = t[i + 1]
      /\ Head(t) = t[1] /\ Head(t) \in S
  OBVIOUS
<1>2. DOMAIN t = 1 .. Len(t) /\ DOMAIN u = 1 .. Len(u)
  BY <1>1
<1> HIDE DEF u
<1>3. \A i \in 1 .. Len(u) : i + 1 \in 1 .. Len(t)
  BY <1>1
<1>4. \A i \in 1 .. Len(t) : i = 1 \/ (i - 1 \in 1 .. Len(u) /\ u[i - 1] = t[i])
  BY <1>1
<1>5. Selecting!ToSet(t) = {Head(t)} \cup Selecting!ToSet(u)
  <2>1. ASSUME NEW y \in Selecting!ToSet(t) PROVE y \in {Head(t)} \cup Selecting!ToSet(u)
    <3>1. PICK i \in 1 .. Len(t) : y = t[i]
      BY <1>2 DEF Selecting!ToSet
    <3> QED
      BY <1>1, <1>2, <1>4, <3>1 DEF Selecting!ToSet
  <2>2. ASSUME NEW y \in Selecting!ToSet(u) PROVE y \in Selecting!ToSet(t)
    <3>1. PICK i \in 1 .. Len(u) : y = u[i]
      BY <1>2 DEF Selecting!ToSet
    <3>2. i + 1 \in 1 .. Len(t) /\ t[i + 1] = y
      BY <1>1, <1>3, <3>1
    <3> QED
      BY <1>2, <3>2 DEF Selecting!ToSet
  <2>3. Head(t) \in Selecting!ToSet(t)
    <3>1. 1 \in 1 .. Len(t)
      BY <1>1
    <3> QED
      BY <1>1, <1>2, <3>1 DEF Selecting!ToSet
  <2> QED
    BY <2>1, <2>2, <2>3
<1>6. ASSUME Distinct(t) PROVE Distinct(u) /\ Head(t) \notin Selecting!ToSet(u)
  <2>1. \A i, j \in 1 .. Len(u) : u[i] = u[j] => i = j
    <3> SUFFICES ASSUME NEW i \in 1 .. Len(u), NEW j \in 1 .. Len(u), u[i] = u[j]
                 PROVE  i = j
      OBVIOUS
    <3>1. t[i + 1] = t[j + 1] /\ i + 1 \in 1 .. Len(t) /\ j + 1 \in 1 .. Len(t)
      BY <1>1, <1>3
    <3>2. i + 1 = j + 1
      BY <1>6, <3>1 DEF Distinct
    <3> QED
      BY <3>2
  <2>2. ASSUME Head(t) \in Selecting!ToSet(u) PROVE FALSE
    <3>1. PICK i \in 1 .. Len(u) : Head(t) = u[i]
      BY <1>2, <2>2 DEF Selecting!ToSet
    <3>2. t[1] = t[i + 1] /\ 1 \in 1 .. Len(t) /\ i + 1 \in 1 .. Len(t)
      BY <1>1, <1>3, <3>1
    <3>3. 1 = i + 1
      BY <1>6, <3>2 DEF Distinct
    <3> QED
      BY <3>3
  <2> QED
    BY <2>1, <2>2 DEF Distinct
<1> QED
  BY <1>1, <1>5, <1>6 DEF u

\* A sequence without repetition has as many elements as its set.
LEMMA SizeOfDistinct ==
  ASSUME NEW S, NEW t \in Seq(S), Distinct(t)
  PROVE  /\ IsFiniteSet(Selecting!ToSet(t)) /\ Cardinality(Selecting!ToSet(t)) = Len(t)
         /\ Selecting!ToSet(t) \subseteq S
<1> DEFINE D == 1 .. Len(t)
           T == Selecting!ToSet(t)
<1>1. Len(t) \in Nat /\ DOMAIN t = D /\ t \in [D -> S]
  OBVIOUS
<1>2. T = {t[i] : i \in D} /\ T \subseteq S
  BY <1>1 DEF Selecting!ToSet
<1>3. IsFiniteSet(D) /\ Cardinality(D) = Len(t)
  BY <1>1, FS_Interval
<1>4. \A i, j \in D : t[i] = t[j] => i = j
  BY DEF Distinct
<1> DEFINE f == [i \in D |-> t[i]]
<1> HIDE DEF D, T
<1>5. f \in [D -> T]
  BY <1>2
<1>6. f \in Surjection(D, T) /\ f \in Injection(D, T)
  BY <1>2, <1>4, <1>5 DEF Surjection, Injection, IsInjective
<1> HIDE DEF f
<1>7. IsFiniteSet(T) /\ Cardinality(T) = Cardinality(D)
  BY <1>3, <1>6, FS_Surjection
<1> QED
  BY <1>2, <1>3, <1>7 DEF T

\* A sorted set is a sequence of its elements, each once.
LEMMA SortedIsDistinct ==
  ASSUME NEW s, NEW key, Keyed(s, key), NEW t, t = Selecting!SortedBy(s, key)
  PROVE  t \in Seq(s) /\ Distinct(t) /\ Selecting!ToSet(t) = s /\ Len(t) = Cardinality(s)
<1> DEFINE n == Cardinality(s)
<1>1. n \in Nat
  BY FS_CardinalityType DEF Keyed
<1>2. /\ t \in [1 .. n -> s]
      /\ \A i, j \in 1 .. n : t[i] = t[j] => i = j
      /\ \A r \in s : \E i \in 1 .. n : t[i] = r
  BY SortedByHolds
<1> HIDE DEF n
<1>3. t \in Seq(s) /\ Len(t) = n /\ DOMAIN t = 1 .. n
  BY <1>1, <1>2
<1>4. Selecting!ToSet(t) = s
  <2>1. \A y \in Selecting!ToSet(t) : y \in s
    BY <1>2, <1>3 DEF Selecting!ToSet
  <2>2. \A y \in s : y \in Selecting!ToSet(t)
    BY <1>2, <1>3 DEF Selecting!ToSet
  <2> QED
    BY <2>1, <2>2
<1> QED
  BY <1>2, <1>3, <1>4 DEF n, Distinct

\* Reversing keeps the elements.
LEMMA ReverseHolds ==
  ASSUME NEW S, NEW t \in Seq(S)
  PROVE  /\ Selecting!Reverse(t) \in Seq(S)
         /\ Selecting!ToSet(Selecting!Reverse(t)) = Selecting!ToSet(t)
         /\ Distinct(t) => Distinct(Selecting!Reverse(t))
<1> DEFINE n == Len(t)
           u == Selecting!Reverse(t)
<1>1. n \in Nat /\ DOMAIN t = 1 .. n /\ \A i \in 1 .. n : t[i] \in S
  OBVIOUS
<1>2. u = [i \in 1 .. n |-> t[(n - i) + 1]]
  BY DEF Selecting!Reverse
<1> HIDE DEF n, u
<1>3. \A i \in 1 .. n : (n - i) + 1 \in 1 .. n /\ u[i] = t[(n - i) + 1]
  BY <1>1, <1>2
<1>4. u \in Seq(S) /\ Len(u) = n /\ DOMAIN u = 1 .. n
  <2>1. u \in [1 .. n -> S]
    BY <1>1, <1>2, <1>3
  <2> QED
    BY <1>1, <2>1
<1>5. \A i \in 1 .. n : \E j \in 1 .. n : u[j] = t[i]
  <2> SUFFICES ASSUME NEW i \in 1 .. n PROVE \E j \in 1 .. n : u[j] = t[i]
    OBVIOUS
  <2>1. PICK j \in 1 .. n : j = (n - i) + 1
    BY <1>1
  <2>2. (n - j) + 1 = i
    BY <1>1, <2>1
  <2> QED
    BY <1>3, <2>2
<1>6. Selecting!ToSet(u) = Selecting!ToSet(t)
  <2>1. \A y \in Selecting!ToSet(u) : y \in Selecting!ToSet(t)
    BY <1>1, <1>3, <1>4 DEF Selecting!ToSet
  <2>2. ASSUME NEW y \in Selecting!ToSet(t) PROVE y \in Selecting!ToSet(u)
    <3>1. PICK i \in 1 .. n : y = t[i]
      BY <1>1 DEF Selecting!ToSet
    <3>2. PICK j \in 1 .. n : u[j] = y
      BY <1>5, <3>1
    <3> QED
      BY <1>4, <3>2 DEF Selecting!ToSet
  <2> QED
    BY <2>1, <2>2
<1>7. ASSUME Distinct(t), NEW i \in 1 .. n, NEW j \in 1 .. n, u[i] = u[j] PROVE i = j
  <2>1. (n - i) + 1 = (n - j) + 1
    BY <1>3, <1>7 DEF Distinct, n
  <2> QED
    BY <1>1, <2>1
<1>8. Distinct(t) => Distinct(u)
  BY <1>4, <1>7 DEF Distinct
<1> QED
  BY <1>4, <1>6, <1>8 DEF u

\* One sequence after another.
LEMMA ConcatHolds ==
  ASSUME NEW S, NEW t \in Seq(S), NEW u \in Seq(S)
  PROVE  /\ t \o u \in Seq(S)
         /\ Selecting!ToSet(t \o u) = Selecting!ToSet(t) \cup Selecting!ToSet(u)
         /\ Distinct(t) /\ Distinct(u) /\ Selecting!ToSet(t) \cap Selecting!ToSet(u) = {}
            => Distinct(t \o u)
<1> DEFINE v == t \o u
           n == Len(t)
           m == Len(u)
<1>1. /\ n \in Nat /\ m \in Nat /\ v \in Seq(S) /\ Len(v) = n + m
      /\ DOMAIN t = 1 .. n /\ DOMAIN u = 1 .. m /\ DOMAIN v = 1 .. n + m
      /\ \A i \in 1 .. n + m : v[i] = IF i <= n THEN t[i] ELSE u[i - n]
  OBVIOUS
<1> HIDE DEF v, n, m
<1>2. \A i \in 1 .. n : i \in 1 .. n + m /\ v[i] = t[i]
  BY <1>1
<1>3. \A j \in 1 .. m : n + j \in 1 .. n + m /\ v[n + j] = u[j]
  BY <1>1
<1>4. \A i \in 1 .. n + m : i \in 1 .. n \/ (i - n \in 1 .. m /\ v[i] = u[i - n])
  BY <1>1
<1>5. Selecting!ToSet(v) = Selecting!ToSet(t) \cup Selecting!ToSet(u)
  <2>1. ASSUME NEW y \in Selecting!ToSet(v)
        PROVE  y \in Selecting!ToSet(t) \/ y \in Selecting!ToSet(u)
    <3>1. PICK i \in 1 .. n + m : y = v[i]
      BY <1>1 DEF Selecting!ToSet
    <3>2. CASE i \in 1 .. n
      BY <1>1, <1>2, <3>1, <3>2 DEF Selecting!ToSet
    <3>3. CASE i - n \in 1 .. m /\ v[i] = u[i - n]
      BY <1>1, <3>1, <3>3 DEF Selecting!ToSet
    <3> QED
      BY <1>4, <3>2, <3>3
  <2>2. \A y \in Selecting!ToSet(t) : y \in Selecting!ToSet(v)
    BY <1>1, <1>2 DEF Selecting!ToSet
  <2>3. \A y \in Selecting!ToSet(u) : y \in Selecting!ToSet(v)
    BY <1>1, <1>3 DEF Selecting!ToSet
  <2> QED
    BY <2>1, <2>2, <2>3
<1>6. ASSUME Distinct(t), Distinct(u), Selecting!ToSet(t) \cap Selecting!ToSet(u) = {},
             NEW i \in 1 .. n + m, NEW j \in 1 .. n + m, v[i] = v[j]
      PROVE  i = j
  <2>1. \A k \in 1 .. n, l \in 1 .. m : t[k] # u[l]
    BY <1>1, <1>6 DEF Selecting!ToSet
  <2>2. CASE i \in 1 .. n /\ j \in 1 .. n
    BY <1>2, <1>6, <2>2 DEF Distinct, n
  <2>3. CASE i \in 1 .. n /\ j \notin 1 .. n
    BY <1>2, <1>4, <1>6, <2>1, <2>3
  <2>4. CASE i \notin 1 .. n /\ j \in 1 .. n
    BY <1>2, <1>4, <1>6, <2>1, <2>4
  <2>5. CASE i \notin 1 .. n /\ j \notin 1 .. n
    <3>1. i - n \in 1 .. m /\ j - n \in 1 .. m /\ u[i - n] = u[j - n]
      BY <1>4, <1>6, <2>5
    <3>2. i - n = j - n
      BY <1>6, <3>1 DEF Distinct, m
    <3> QED
      BY <1>1, <3>2
  <2> QED
    BY <2>2, <2>3, <2>4, <2>5
<1> QED
  BY <1>1, <1>5, <1>6 DEF v, Distinct

-----------------------------------------------------------------------------
(* The scan.                                                               *)

scanned == <<reserved, cursor, fetched, full, heap, counts, scored>>

\* A difference, or zero when it is negative.
LEMMA MaxWithZero ==
  ASSUME NEW d \in Int
  PROVE  Selecting!Max({d, 0}) \in Nat /\ (Selecting!Max({d, 0}) > 0 => Selecting!Max({d, 0}) = d)
<1>1. Selecting!Max({d, 0}) = CHOOSE x \in {d, 0} : \A y \in {d, 0} : x >= y
  BY DEF Selecting!Max
<1>2. \E x \in {d, 0} : \A y \in {d, 0} : x >= y
  <2>1. d >= 0 \/ 0 >= d
    OBVIOUS
  <2> QED
    BY <2>1
<1> QED
  BY <1>1, <1>2

\* Rows of the table are finitely many.
LEMMA ReserveIsFinite ==
  ASSUME Framed, NEW s \in SUBSET table
  PROVE  IsFiniteSet(s) /\ Cardinality(s) \in Nat /\ limits.records \in Nat
BY FS_Subset, FS_CardinalityType, SelectionConstants DEF Framed, Table

\* The room of the heap is what the reserve leaves.
LEMMA RoomIs ==
  ASSUME Framed, reserved \subseteq table
  PROVE  /\ Selecting!Remaining \in Nat
         /\ Cardinality(reserved) \in Nat
         /\ Selecting!Remaining > 0 =>
              Selecting!Remaining = limits.records - Cardinality(reserved)
<1>1. Cardinality(reserved) \in Nat /\ limits.records \in Nat
  BY ReserveIsFinite
<1> QED
  BY <1>1, MaxWithZero, SameFinite DEF Selecting!Remaining

\* Every row is after the first cursor.
LEMMA CursorBegins ==
  ASSUME Framed, cursor = <<-1, -1>>, NEW r \in table
  PROVE  Selecting!AfterCursor(r)
<1>1. r.line \in Nat /\ Selecting!StableKey[r] = <<r.line, r.fingerprint>>
  BY SelectionConstants DEF Framed, Table, Selecting!StableKey
<1>2. cursor[1] = -1 /\ Len(cursor) = 2
  OBVIOUS
<1>3. Selecting!StableKey[r][1] = r.line
  BY <1>1
<1>4. 1 \in 1 .. Len(cursor) /\ cursor[1] < Selecting!StableKey[r][1] /\ 1 .. 1 - 1 = {}
  BY <1>1, <1>2, <1>3
<1> QED
  BY <1>4 DEF Selecting!AfterCursor, Selecting!Before

\* The invariant holds at the start.
LEMMA SelectionBegins ==
  ASSUME Selecting!Init
  PROVE  SelectionInv
<1> USE DEF Selecting!Init
<1>1. Framed
  BY DEF Framed
<1>2. Scanned
  <2>1. cursor \in [1 .. 2 -> Int]
    OBVIOUS
  <2>2. \A r \in table : Selecting!AfterCursor(r)
    BY <1>1, CursorBegins
  <2>3. IsFiniteSet(scored) /\ scored = {} /\ fetched = {} /\ reserved = {} /\ full
    BY FS_EmptySet
  <2> QED
    BY <2>1, <2>2, <2>3 DEF Scanned
<1>3. Heaped
  <2>1. Cardinality({}) = 0
    BY FS_EmptySet
  <2>2. Selecting!Remaining \in Nat
    BY <1>1, RoomIs
  <2>3. Selecting!CountsMatchHeap
    <3> SUFFICES ASSUME NEW a \in Selecting!Artifacts
                 PROVE  counts[a] = Cardinality({h \in heap : h.row.artifact = a})
      BY SameFinite DEF Selecting!CountsMatchHeap
    <3>1. {h \in heap : h.row.artifact = a} = {}
      OBVIOUS
    <3> QED
      BY <2>1, <3>1
  <2>4. heap = {} /\ scored = {} /\ Cardinality(heap) <= Selecting!Remaining
    BY <2>1, <2>2
  <2>5. counts \in [Selecting!Artifacts -> Nat]
    OBVIOUS
  <2> QED
    BY <2>3, <2>4, <2>5 DEF Heaped, Selecting!LeftOutIsWeaker
<1>4. Kept
  <2>1. limits.records \in Nat
    BY <1>1, SelectionConstants DEF Framed
  <2> QED
    BY <2>1, NoneTaken DEF Kept, Selecting!WithinLimits
<1> QED
  BY <1>1, <1>2, <1>3, <1>4 DEF SelectionInv, Waiting, Picking, Rounds, Ended

\* Nothing of the scan is touched by the other steps.
LEMMA ScanStays ==
  ASSUME Scanned, Heaped, UNCHANGED <<table, limits, scanned>>
  PROVE  Scanned' /\ Heaped'
<1>1. /\ reserved' = reserved /\ cursor' = cursor /\ fetched' = fetched /\ full' = full
      /\ heap' = heap /\ counts' = counts /\ scored' = scored /\ table' = table /\ limits' = limits
  BY DEF scanned
<1>2. \A r : Selecting!AfterCursor(r)' <=> Selecting!AfterCursor(r)
  BY <1>1 DEF Selecting!AfterCursor, Selecting!StableKey
<1>3. Selecting!Remaining' = Selecting!Remaining /\ Selecting!Artifacts' = Selecting!Artifacts
  BY <1>1 DEF Selecting!Remaining, Selecting!Artifacts
<1>4. Scanned'
  BY <1>1, <1>2, <1>3 DEF Scanned
<1>5. Selecting!LeftOutIsWeaker' /\ Selecting!CountsMatchHeap'
  BY <1>1, <1>3 DEF Heaped, Selecting!LeftOutIsWeaker, Selecting!CountsMatchHeap
<1> QED
  BY <1>1, <1>3, <1>4, <1>5 DEF Heaped

\* The scan begins with an empty heap and every row ahead.
LEMMA StartScanHolds ==
  ASSUME Framed, Scanned, Heaped, Waiting, Selecting!StartScan
  PROVE  Scanned' /\ Heaped'
<1>1. /\ cursor' = cursor /\ fetched' = {} /\ full' /\ cursor = <<-1, -1>>
      /\ heap' = {} /\ counts' = counts /\ scored' = {} /\ table' = table /\ limits' = limits
      /\ heap = {}
  BY DEF Selecting!StartScan, Waiting
<1>2. \A r \in table : Selecting!AfterCursor(r)'
  <2>1. \A r \in table : Selecting!AfterCursor(r)
    BY <1>1, CursorBegins
  <2> QED
    BY <1>1, <2>1 DEF Selecting!AfterCursor, Selecting!StableKey
<1>3. reserved' \subseteq table
  BY DEF Selecting!StartScan, Selecting!Earliest, Selecting!Latest
<1>4. Scanned'
  <2>1. IsFiniteSet({})
    BY FS_EmptySet
  <2>2. (cursor \in [1 .. 2 -> Int])'
    BY <1>1 DEF Scanned
  <2> QED
    BY <1>1, <1>2, <1>3, <2>1, <2>2 DEF Scanned
<1>5. Selecting!Remaining' \in Nat
  <2>1. PICK c : c = reserved'
    OBVIOUS
  <2>2. Cardinality(c) \in Nat /\ limits.records \in Nat
    BY <1>3, <2>1, ReserveIsFinite
  <2>3. Selecting!Remaining' = Selecting!Max({limits.records - Cardinality(c), 0})
    BY <1>1, <2>1, SameFinite DEF Selecting!Remaining
  <2> QED
    BY <2>2, <2>3, MaxWithZero
<1>6. Selecting!Artifacts' = Selecting!Artifacts
  BY <1>1 DEF Selecting!Artifacts
<1>7. Selecting!CountsMatchHeap' /\ Selecting!LeftOutIsWeaker'
  BY <1>1, <1>6 DEF Heaped, Selecting!CountsMatchHeap, Selecting!LeftOutIsWeaker
<1>8. Cardinality({}) = 0
  BY FS_EmptySet
<1>9. Cardinality(heap') <= Selecting!Remaining'
  BY <1>1, <1>5, <1>8
<1> QED
  BY <1>1, <1>4, <1>6, <1>7, <1>9 DEF Heaped

\* A batch holds the first rows after the cursor, which moves to its last.
LEMMA CursorMoves ==
  ASSUME Framed, Scanned, Selecting!Fetch
  PROVE  /\ fetched' \subseteq table
         /\ \A r \in table : Selecting!AfterCursor(r)' <=> Selecting!AfterCursor(r) /\ r \notin fetched'
         /\ \A r \in fetched' : Selecting!AfterCursor(r)
         /\ (cursor \in [1 .. 2 -> Int])'
         /\ full' \/ \A r \in table : ~Selecting!AfterCursor(r)'
<1> DEFINE key == Selecting!StableKey
           after == {r \in table : Selecting!AfterCursor(r)}
           batch == {r \in after :
                       Selecting!Cardinality(Selecting!Ahead(after, r, key)) < limits.batch}
           last == {r \in batch : batch = Selecting!Ahead(batch, r, key) \cup {r}}
<1>1. /\ fetched' = batch
      /\ full' = (Selecting!Cardinality(batch) = limits.batch)
      /\ cursor' = IF batch = {} THEN cursor ELSE key[CHOOSE r \in last : TRUE]
      /\ table' = table
  BY DEF Selecting!Fetch
<1>2. Keyed(table, key)
  BY KeysDiffer, SelectionConstants DEF Framed
<1>3. \A r \in table : key[r] \in [1 .. 2 -> Int]
  <2>1. \A r \in table : key[r] = <<r.line, r.fingerprint>> /\ r.line \in Int /\ r.fingerprint \in Int
    BY SelectionConstants DEF Framed, Table, Selecting!StableKey
  <2> HIDE DEF key
  <2> QED
    BY <2>1
<1>4. \A r : Selecting!AfterCursor(r) <=> Selecting!Before(cursor, key[r])
  BY DEF Selecting!AfterCursor
<1>5. key' = key
  BY <1>1 DEF Selecting!StableKey
<1>6. \A r : Selecting!AfterCursor(r)' <=> Selecting!Before(cursor', key[r])
  BY <1>5 DEF Selecting!AfterCursor
<1>7. batch = Batch(after, limits.batch, key)
  BY SameFinite DEF Batch, Position
<1>8. after \subseteq table /\ \A r \in table : r \in after <=> Selecting!AfterCursor(r)
  OBVIOUS
<1>9. last = {r \in batch : batch = Selecting!Ahead(batch, r, key) \cup {r}}
  OBVIOUS
<1> HIDE DEF key, after, batch, last
<1>10. Keyed(after, key)
  BY <1>2, <1>8, KeyedSubset
<1>11. limits.batch \in Nat /\ limits.batch # 0
  BY SelectionConstants DEF Framed
<1>12. /\ batch \subseteq after /\ Keyed(batch, key)
       /\ \A q \in after, r \in batch : Selecting!Before(key[q], key[r]) => q \in batch
       /\ Cardinality(batch) # limits.batch => batch = after
       /\ batch = {} => after = {}
  BY <1>7, <1>10, <1>11, BatchHolds
<1>13. cursor \in [1 .. 2 -> Int]
  BY DEF Scanned
<1>14. /\ cursor' \in [1 .. 2 -> Int]
       /\ \A r \in table : Selecting!Before(cursor', key[r]) <=> r \in after /\ r \notin batch
  <2>1. CASE batch = {}
    BY <1>1, <1>4, <1>8, <1>12, <1>13, <2>1
  <2>2. CASE batch # {}
    <3>1. PICK m \in batch : last = {m} /\ \A q \in batch \ {m} : Selecting!Before(key[q], key[m])
      BY <1>9, <1>12, <2>2, LastHolds
    <3>2. (CHOOSE r \in last : TRUE) = m
      BY <3>1
    <3>3. cursor' = key[m] /\ m \in table /\ m \in after
      BY <1>1, <1>8, <1>12, <2>2, <3>2
    <3>4. ASSUME NEW r \in table, Selecting!Before(key[m], key[r])
          PROVE  r \in after /\ r \notin batch
      <4>1. Selecting!Before(cursor, key[m])
        BY <1>4, <1>8, <3>3
      <4>2. Selecting!Before(cursor, key[r])
        BY <1>3, <1>13, <3>3, <3>4, <4>1, LexicalTransitive
      <4>3. ASSUME r \in batch PROVE FALSE
        <5>1. r = m \/ Selecting!Before(key[r], key[m])
          BY <3>1, <4>3
        <5>2. Selecting!Before(key[m], key[m])
          BY <1>2, <3>3, <3>4, <5>1, KeyedOrder
        <5> QED
          BY <1>2, <3>3, <5>2, KeyedOrder
      <4> QED
        BY <1>4, <1>8, <4>2, <4>3
    <3>5. ASSUME NEW r \in table, r \in after, r \notin batch
          PROVE  Selecting!Before(key[m], key[r])
      <4>1. r # m
        BY <3>5
      <4>2. Selecting!Before(key[m], key[r]) \/ Selecting!Before(key[r], key[m])
        BY <1>2, <3>3, <4>1, KeyedOrder
      <4> QED
        BY <1>12, <3>5, <4>2
    <3> QED
      BY <1>3, <3>3, <3>4, <3>5
  <2> QED
    BY <2>1, <2>2
<1>15. full' \/ batch = after
  BY <1>1, <1>12, SameFinite
<1>16. \A r \in table : Selecting!AfterCursor(r)' <=> Selecting!AfterCursor(r) /\ r \notin fetched'
  BY <1>1, <1>6, <1>8, <1>14
<1>17. full' \/ \A r \in table : ~Selecting!AfterCursor(r)'
  BY <1>6, <1>14, <1>15
<1>18. fetched' \subseteq table /\ \A r \in fetched' : Selecting!AfterCursor(r)
  BY <1>1, <1>8, <1>12
<1> QED
  BY <1>14, <1>16, <1>17, <1>18

\* A batch that is fetched changes no score and no heap.
LEMMA FetchHolds ==
  ASSUME Framed, Scanned, Heaped, Selecting!Fetch
  PROVE  Scanned' /\ Heaped'
<1>1. /\ fetched = {} /\ reserved' = reserved /\ heap' = heap /\ counts' = counts
      /\ scored' = scored /\ table' = table /\ limits' = limits
  BY DEF Selecting!Fetch
<1>2. Selecting!Remaining' = Selecting!Remaining /\ Selecting!Artifacts' = Selecting!Artifacts
  BY <1>1 DEF Selecting!Remaining, Selecting!Artifacts
<1>3. Heaped'
  BY <1>1, <1>2 DEF Heaped, Selecting!LeftOutIsWeaker, Selecting!CountsMatchHeap
<1>4. Scanned'
  BY <1>1, <1>2, CursorMoves DEF Scanned
<1> QED
  BY <1>3, <1>4

-----------------------------------------------------------------------------
(* A row is scored.                                                        *)

\* The number of the entries of an artifact, when one comes and one goes.
EntriesOf(h, a) == {x \in h : x.row.artifact = a}

\* An entry that comes counts for its artifact alone.
LEMMA OneMoreOf ==
  ASSUME NEW h, IsFiniteSet(h), NEW e, e \notin h, NEW a
  PROVE  /\ Cardinality(EntriesOf(h, a)) \in Nat
         /\ Cardinality(EntriesOf(h \cup {e}, a)) =
              IF a = e.row.artifact THEN Cardinality(EntriesOf(h, a)) + 1
              ELSE Cardinality(EntriesOf(h, a))
<1> DEFINE O == EntriesOf(h, a)
<1>1. O \in SUBSET h /\ e \notin O
  BY DEF EntriesOf
<1>2. CASE a = e.row.artifact
  <2>1. EntriesOf(h \cup {e}, a) = O \cup {e}
    BY <1>2 DEF EntriesOf
  <2> HIDE DEF O
  <2>2. IsFiniteSet(O)
    BY <1>1, FS_Subset
  <2> QED
    BY <1>1, <1>2, <2>1, <2>2, FS_AddElement, FS_CardinalityType DEF O
<1>3. CASE a # e.row.artifact
  <2>1. EntriesOf(h \cup {e}, a) = O
    BY <1>3 DEF EntriesOf
  <2> HIDE DEF O
  <2>2. IsFiniteSet(O)
    BY <1>1, FS_Subset
  <2> QED
    BY <1>3, <2>1, <2>2, FS_CardinalityType DEF O
<1> QED
  BY <1>2, <1>3

\* An entry that goes counts for its artifact alone.
LEMMA OneLessOf ==
  ASSUME NEW h, IsFiniteSet(h), NEW e \in h, NEW a
  PROVE  Cardinality(EntriesOf(h \ {e}, a)) =
           IF a = e.row.artifact THEN Cardinality(EntriesOf(h, a)) - 1
           ELSE Cardinality(EntriesOf(h, a))
<1>1. IsFiniteSet(h \ {e}) /\ e \notin h \ {e} /\ (h \ {e}) \cup {e} = h
  BY FS_RemoveElement
<1>2. PICK g : g = h \ {e}
  OBVIOUS
<1>3. IsFiniteSet(g) /\ e \notin g /\ g \cup {e} = h
  BY <1>1, <1>2
<1>4. /\ Cardinality(EntriesOf(g, a)) \in Nat
      /\ Cardinality(EntriesOf(g \cup {e}, a)) =
           IF a = e.row.artifact THEN Cardinality(EntriesOf(g, a)) + 1
           ELSE Cardinality(EntriesOf(g, a))
  BY <1>3, OneMoreOf
<1>5. Cardinality(EntriesOf(g, a)) =
        IF a = e.row.artifact THEN Cardinality(EntriesOf(h, a)) - 1
        ELSE Cardinality(EntriesOf(h, a))
  <2>1. PICK m, n : m = Cardinality(EntriesOf(g, a)) /\ n = Cardinality(EntriesOf(h, a))
    OBVIOUS
  <2>2. m \in Nat /\ n = IF a = e.row.artifact THEN m + 1 ELSE m
    BY <1>3, <1>4, <2>1
  <2> QED
    BY <2>1, <2>2
<1> QED
  BY <1>2, <1>5

\* The lowest entry has the least score.
LEMMA LowestHolds ==
  ASSUME Scanned, Heaped, heap # {}
  PROVE  Selecting!Lowest \in heap /\ \A h \in heap : Selecting!Lowest.score <= h.score
<1> DEFINE key == [h \in heap |-> <<h.score, h.tie>>]
           least == Selecting!Least(heap, key)
<1>1. \A h \in heap : h \in scored /\ h.score \in Int /\ h.tie \in Int
  BY DEF Heaped, Scanned
<1>2. \A h \in heap : key[h] = <<h.score, h.tie>>
  OBVIOUS
<1>3. Selecting!Lowest = least
  BY DEF Selecting!Lowest
<1> HIDE DEF key
<1>4. ASSUME NEW h \in heap
      PROVE  key[h] \in [1 .. 2 -> Int] /\ key[h][1] = h.score /\ key[h][2] = h.tie
  <2>1. PICK a \in Int, b \in Int : a = h.score /\ b = h.tie
    BY <1>1
  <2>2. key[h] = <<a, b>>
    BY <1>2, <2>1
  <2> QED
    BY <2>1, <2>2
<1>5. Keyed(heap, key)
  <2>1. IsFiniteSet(heap)
    BY FS_Subset DEF Heaped, Scanned
  <2>2. \A q, r \in heap : key[q] = key[r] => q = r
    BY <1>1, <1>4 DEF Scanned
  <2> QED
    BY <1>4, <2>1, <2>2 DEF Keyed
<1>6. least \in heap /\ \A h \in heap \ {least} : Selecting!Before(key[least], key[h])
  BY <1>5, LeastHolds
<1> HIDE DEF least
<1>7. ASSUME NEW h \in heap PROVE least.score <= h.score
  <2>1. CASE h = least
    BY <1>1, <2>1
  <2>2. CASE h # least
    <3>1. Len(key[least]) = 2
      BY <1>4, <1>6
    <3>2. PICK i \in 1 .. 2 : key[least][i] < key[h][i] /\ \A j \in 1 .. i - 1 : key[least][j] = key[h][j]
      BY <1>6, <2>2, <3>1 DEF Selecting!Before
    <3>3. CASE i = 1
      BY <1>1, <1>4, <1>6, <3>2, <3>3
    <3>4. CASE i = 2
      <4>1. 1 \in 1 .. i - 1
        BY <3>4
      <4>2. key[least][1] = key[h][1]
        BY <3>2, <4>1
      <4> QED
        BY <1>1, <1>4, <1>6, <4>2
    <3> QED
      BY <3>3, <3>4
  <2> QED
    BY <2>1, <2>2
<1> QED
  BY <1>3, <1>6, <1>7

\* The entry of a row that is considered now is new.
LEMMA EntryIsNew ==
  ASSUME Framed, Scanned, Heaped, NEW r \in fetched
  PROVE  /\ r \in table /\ r.artifact \in Selecting!Artifacts
         /\ Selecting!Score(r) \in Int
         /\ Cardinality(scored) \in Nat
         /\ \A e \in scored : e.row # r
<1>1. r \in table /\ r.artifact \in Selecting!Artifacts
  BY DEF Scanned, Selecting!Artifacts
<1>2. PICK c \in Nat : counts[r.artifact] = c
  BY <1>1 DEF Heaped
<1>3. Selecting!Score(r) \in Int
  BY <1>1, <1>2, ScoreIsInt, SelectionConstants DEF Framed
<1> QED
  BY <1>1, <1>3, FS_CardinalityType DEF Scanned

\* A row that is considered is scored once, or has no place in the heap.
LEMMA ScanAdvances ==
  ASSUME Framed, Scanned, Heaped, NEW r \in fetched, NEW e,
         e = [score |-> Selecting!Score(r), tie |-> Cardinality(scored) + 1, row |-> r],
         UNCHANGED <<table, limits, reserved, cursor, full>>,
         fetched' = fetched \ {r},
         IF r \in reserved \/ Selecting!Remaining = 0
           THEN scored' = scored ELSE scored' = scored \cup {e}
  PROVE  Scanned'
<1>1. /\ r \in table /\ Selecting!Score(r) \in Int /\ Cardinality(scored) \in Nat
      /\ \A f \in scored : f.row # r
  BY EntryIsNew
<1>2. e.row = r /\ e.score \in Int /\ e.tie = Cardinality(scored) + 1
  BY <1>1
<1>3. \A q : Selecting!AfterCursor(q)' <=> Selecting!AfterCursor(q)
  BY DEF Selecting!AfterCursor, Selecting!StableKey
<1>4. Selecting!Remaining' = Selecting!Remaining
  BY DEF Selecting!Remaining
<1>5. e \notin scored
  BY <1>1, <1>2
<1>6. ~Selecting!AfterCursor(r)
  BY DEF Scanned
<1>7. CASE r \in reserved \/ Selecting!Remaining = 0
  <2>1. Selecting!Remaining > 0 =>
           \A q \in table \ (reserved \cup (fetched \ {r})) :
              ~Selecting!AfterCursor(q) => \E f \in scored : f.row = q
    BY <1>7 DEF Scanned
  <2> QED
    BY <1>3, <1>4, <1>7, <2>1 DEF Scanned
<1>8. CASE ~(r \in reserved \/ Selecting!Remaining = 0)
  <2>1. scored' = scored \cup {e}
    BY <1>8
  <2> DEFINE n == Cardinality(scored)
             S == scored \cup {e}
  <2>2. IsFiniteSet(S) /\ Cardinality(S) = n + 1
    BY <1>5, FS_AddElement DEF Scanned
  <2>3. n \in Nat /\ e.tie = n + 1 /\ \A f \in scored : f.tie \in 1 .. n
    BY <1>1, <1>2 DEF Scanned
  <2> HIDE DEF n
  <2>4. \A f \in S : /\ f.row \in table \ (reserved \cup (fetched \ {r}))
                     /\ ~Selecting!AfterCursor(f.row)
                     /\ f.score \in Int /\ f.tie \in 1 .. n + 1
    <3>1. ASSUME NEW f \in scored
          PROVE  /\ f.row \in table \ (reserved \cup (fetched \ {r}))
                 /\ ~Selecting!AfterCursor(f.row)
                 /\ f.score \in Int /\ f.tie \in 1 .. n + 1
      BY <2>3 DEF Scanned
    <3>2. /\ e.row \in table \ (reserved \cup (fetched \ {r}))
          /\ ~Selecting!AfterCursor(e.row)
          /\ e.score \in Int /\ e.tie \in 1 .. n + 1
      BY <1>1, <1>2, <1>6, <1>8, <2>3
    <3> QED
      BY <3>1, <3>2
  <2>5. \A f, g \in S : f.row = g.row \/ f.tie = g.tie => f = g
    <3>1. \A f \in scored : f.row # e.row /\ f.tie # e.tie
      BY <1>1, <1>2, <2>3
    <3>2. \A f, g \in scored : f.row = g.row \/ f.tie = g.tie => f = g
      BY DEF Scanned
    <3> QED
      BY <3>1, <3>2
  <2>6. Selecting!Remaining > 0 =>
           \A q \in table \ (reserved \cup (fetched \ {r})) :
              ~Selecting!AfterCursor(q) => \E f \in S : f.row = q
    <3> SUFFICES ASSUME Selecting!Remaining > 0,
                        NEW q \in table \ (reserved \cup (fetched \ {r})),
                        ~Selecting!AfterCursor(q)
                 PROVE  \E f \in S : f.row = q
      OBVIOUS
    <3>1. CASE q = r
      BY <1>2, <3>1
    <3>2. CASE q # r
      <4>1. \E f \in scored : f.row = q
        BY <3>2 DEF Scanned
      <4> QED
        BY <4>1
    <3> QED
      BY <3>1, <3>2
  <2> HIDE DEF S
  <2>7. scored' = S /\ Cardinality(scored') = n + 1
    BY <2>1, <2>2 DEF S
  <2>8. reserved' \subseteq table' /\ fetched' \subseteq table' /\ cursor' \in [1 .. 2 -> Int]
        /\ (\A q \in fetched' : ~Selecting!AfterCursor(q)')
        /\ (full' \/ \A q \in table' : ~Selecting!AfterCursor(q)')
    BY <1>3 DEF Scanned
  <2> QED
    BY <1>3, <1>4, <2>2, <2>4, <2>5, <2>6, <2>7, <2>8 DEF Scanned
<1> QED
  BY <1>7, <1>8

\* The heap after a row was scored.
LEMMA HeapGrows ==
  ASSUME Framed, Scanned, Heaped, NEW r \in fetched, r \notin reserved, NEW e,
         e = [score |-> Selecting!Score(r), tie |-> Cardinality(scored) + 1, row |-> r],
         UNCHANGED <<table, limits, reserved>>, scored' = scored \cup {e},
         Cardinality(heap) < Selecting!Remaining,
         heap' = heap \cup {e}, counts' = [counts EXCEPT ![r.artifact] = @ + 1]
  PROVE  Heaped'
<1>1. heap = scored
  <2>1. IsFiniteSet(heap) /\ Selecting!Remaining \in Nat
    BY FS_Subset, RoomIs DEF Heaped, Scanned
  <2>2. Cardinality(heap) # Selecting!Remaining
    BY <2>1, FS_CardinalityType
  <2> QED
    BY <2>2 DEF Heaped
<1>2. /\ e.row = r /\ e \notin heap /\ IsFiniteSet(heap) /\ Cardinality(heap) \in Nat
      /\ Selecting!Remaining \in Nat
  BY <1>1, EntryIsNew, RoomIs DEF Scanned
<1>3. Selecting!Remaining' = Selecting!Remaining /\ Selecting!Artifacts' = Selecting!Artifacts
  BY DEF Selecting!Remaining, Selecting!Artifacts
<1> DEFINE H == heap \cup {e}
<1>4. Cardinality(H) = Cardinality(heap) + 1
  BY <1>2, FS_AddElement
<1>5. ASSUME NEW a \in Selecting!Artifacts
      PROVE  Cardinality(EntriesOf(H, a)) = IF a = r.artifact THEN counts[a] + 1 ELSE counts[a]
  <2>1. counts[a] = Cardinality(EntriesOf(heap, a))
    BY SameFinite DEF Heaped, Selecting!CountsMatchHeap, EntriesOf
  <2> QED
    BY <1>2, <2>1, OneMoreOf
<1> HIDE DEF H
<1>6. heap' = H
  BY DEF H
<1>7. counts' \in [Selecting!Artifacts -> Nat]
  <2>1. PICK A : A = Selecting!Artifacts
    OBVIOUS
  <2>2. counts \in [A -> Nat] /\ r.artifact \in A
    BY <2>1, EntryIsNew DEF Heaped
  <2>3. counts' \in [A -> Nat]
    BY <2>2
  <2> QED
    BY <2>1, <2>3
<1>8. Selecting!CountsMatchHeap'
  <2> SUFFICES ASSUME NEW a \in Selecting!Artifacts
               PROVE  counts'[a] = Cardinality(EntriesOf(H, a))
    BY <1>3, <1>6, SameFinite DEF Selecting!CountsMatchHeap, EntriesOf
  <2>1. counts'[a] = IF a = r.artifact THEN counts[a] + 1 ELSE counts[a]
    BY DEF Heaped
  <2> QED
    BY <1>5, <2>1
<1>9. heap' = scored'
  BY <1>1
<1>10. Selecting!LeftOutIsWeaker'
  BY <1>9 DEF Selecting!LeftOutIsWeaker
<1>11. Cardinality(heap') <= Selecting!Remaining'
  BY <1>2, <1>3, <1>4, <1>6
<1> QED
  BY <1>3, <1>7, <1>8, <1>9, <1>10, <1>11 DEF Heaped

\* A full heap that is not empty is as large as its room.
LEMMA FullHeap ==
  ASSUME Framed, Scanned, Heaped, Selecting!Remaining # 0,
         ~(Cardinality(heap) < Selecting!Remaining)
  PROVE  /\ Cardinality(heap) = Selecting!Remaining /\ heap # {}
         /\ IsFiniteSet(heap) /\ Selecting!Remaining \in Nat
<1>1. IsFiniteSet(heap) /\ Selecting!Remaining \in Nat
  BY FS_Subset, RoomIs DEF Heaped, Scanned
<1>2. Cardinality(heap) \in Nat /\ Cardinality(heap) <= Selecting!Remaining
  BY <1>1, FS_CardinalityType DEF Heaped
<1>3. Cardinality(heap) = Selecting!Remaining
  BY <1>1, <1>2
<1>4. heap # {}
  BY <1>1, <1>3, FS_EmptySet
<1> QED
  BY <1>1, <1>3, <1>4

\* A row whose score is no higher than the lowest leaves a full heap as it is.
LEMMA HeapKeeps ==
  ASSUME Framed, Scanned, Heaped, NEW r \in fetched, NEW e,
         e = [score |-> Selecting!Score(r), tie |-> Cardinality(scored) + 1, row |-> r],
         UNCHANGED <<table, limits, reserved, heap, counts>>, scored' = scored \cup {e},
         Selecting!Remaining # 0, ~(Cardinality(heap) < Selecting!Remaining),
         ~(e.score > Selecting!Lowest.score)
  PROVE  Heaped'
<1>1. Cardinality(heap) = Selecting!Remaining /\ heap # {}
  BY FullHeap
<1>2. Selecting!Remaining' = Selecting!Remaining /\ Selecting!Artifacts' = Selecting!Artifacts
  BY DEF Selecting!Remaining, Selecting!Artifacts
<1>3. Selecting!Lowest \in heap /\ \A h \in heap : Selecting!Lowest.score <= h.score
  BY <1>1, LowestHolds
<1>4. e.score \in Int /\ \A h \in heap : h.score \in Int
  BY EntryIsNew DEF Heaped, Scanned
<1>5. \A h \in heap : e.score <= h.score
  BY <1>3, <1>4
<1>6. Selecting!LeftOutIsWeaker'
  BY <1>5 DEF Heaped, Selecting!LeftOutIsWeaker
<1>7. Selecting!CountsMatchHeap'
  BY <1>2 DEF Heaped, Selecting!CountsMatchHeap
<1> QED
  BY <1>1, <1>2, <1>6, <1>7 DEF Heaped

\* A row with a higher score takes the place of the lowest: none that was left out
\* is better, and the counts follow.
LEMMA HeapReplaces ==
  ASSUME Framed, Scanned, Heaped, NEW r \in fetched, NEW e, NEW out,
         e = [score |-> Selecting!Score(r), tie |-> Cardinality(scored) + 1, row |-> r],
         out = Selecting!Lowest,
         UNCHANGED <<table, limits, reserved>>, scored' = scored \cup {e},
         Selecting!Remaining # 0, ~(Cardinality(heap) < Selecting!Remaining),
         e.score > out.score,
         heap' = (heap \ {out}) \cup {e},
         counts' = Selecting!Replaced(out.row.artifact, r.artifact)
  PROVE  Heaped'
<1>1. /\ Cardinality(heap) = Selecting!Remaining /\ heap # {} /\ IsFiniteSet(heap)
      /\ Selecting!Remaining \in Nat
  BY FullHeap
<1>2. Selecting!Remaining' = Selecting!Remaining /\ Selecting!Artifacts' = Selecting!Artifacts
  BY DEF Selecting!Remaining, Selecting!Artifacts
<1>3. out \in heap /\ \A h \in heap : out.score <= h.score
  BY <1>1, LowestHolds
<1>4. /\ e.row = r /\ e.score \in Int /\ e \notin scored /\ r.artifact \in Selecting!Artifacts
      /\ \A h \in scored : h.score \in Int
  BY EntryIsNew DEF Scanned
<1>5. heap \subseteq scored /\ e \notin heap
  BY <1>4 DEF Heaped
<1> DEFINE G == heap \ {out}
           H == G \cup {e}
<1>6. IsFiniteSet(G) /\ Cardinality(G) = Cardinality(heap) - 1 /\ e \notin G
  BY <1>1, <1>3, <1>5, FS_RemoveElement
<1>7. Cardinality(H) = Cardinality(heap)
  <2>1. PICK g : g = G
    OBVIOUS
  <2>2. IsFiniteSet(g) /\ Cardinality(g) = Cardinality(heap) - 1 /\ e \notin g /\ H = g \cup {e}
    BY <1>6, <2>1
  <2>3. Cardinality(g \cup {e}) = Cardinality(g) + 1
    BY <2>2, FS_AddElement
  <2>4. Cardinality(heap) \in Nat
    BY <1>1
  <2> HIDE DEF G, H
  <2> QED
    BY <2>2, <2>3, <2>4
<1>8. out.row.artifact \in Selecting!Artifacts
  BY <1>3, <1>5 DEF Scanned, Selecting!Artifacts
<1>9. ASSUME NEW a \in Selecting!Artifacts
      PROVE  /\ counts'[a] = Cardinality(EntriesOf(H, a))
             /\ Cardinality(EntriesOf(H, a)) \in Nat
  <2>1. counts[a] = Cardinality(EntriesOf(heap, a)) /\ counts[a] \in Nat
    BY SameFinite DEF Heaped, Selecting!CountsMatchHeap, EntriesOf
  <2>2. Cardinality(EntriesOf(G, a)) = IF a = out.row.artifact THEN counts[a] - 1 ELSE counts[a]
    BY <1>1, <1>3, <2>1, OneLessOf
  <2>3. /\ Cardinality(EntriesOf(G, a)) \in Nat
        /\ Cardinality(EntriesOf(H, a)) =
             IF a = r.artifact THEN Cardinality(EntriesOf(G, a)) + 1 ELSE Cardinality(EntriesOf(G, a))
    <3> HIDE DEF G
    <3> QED
      BY <1>4, <1>6, OneMoreOf
  <2>4. counts'[a] = (IF a = out.row.artifact THEN counts[a] - 1 ELSE counts[a])
                       + (IF a = r.artifact THEN 1 ELSE 0)
    BY <1>4, <1>8, <2>1 DEF Selecting!Replaced, Heaped
  <2> HIDE DEF G, H
  <2> QED
    BY <2>2, <2>3, <2>4
<1> HIDE DEF H
<1>10. heap' = H
  BY DEF H
<1>11. Selecting!CountsMatchHeap'
  BY <1>2, <1>9, <1>10, SameFinite DEF Selecting!CountsMatchHeap, EntriesOf
<1>12. counts' \in [Selecting!Artifacts -> Nat]
  <2>1. DOMAIN counts' = Selecting!Artifacts
    BY DEF Selecting!Replaced, Heaped
  <2>2. counts' = [a \in Selecting!Artifacts |-> counts'[a]]
    BY <1>8, <2>1 DEF Selecting!Replaced, Heaped
  <2> QED
    BY <1>9, <2>2
<1>13. Selecting!LeftOutIsWeaker'
  <2> SUFFICES ASSUME NEW x \in (scored \cup {e}) \ ((heap \ {out}) \cup {e}),
                      NEW h \in (heap \ {out}) \cup {e}
               PROVE  x.score <= h.score
    BY DEF Selecting!LeftOutIsWeaker
  <2>1. x \in scored /\ (x = out \/ x \notin heap)
    OBVIOUS
  <2>2. x.score <= out.score
    BY <1>3, <1>4, <1>5, <2>1 DEF Heaped, Selecting!LeftOutIsWeaker
  <2>3. x.score \in Int /\ out.score \in Int /\ h.score \in Int
    BY <1>3, <1>4, <1>5, <2>1
  <2>4. out.score <= h.score
    BY <1>3, <1>4, <2>3
  <2> QED
    BY <2>2, <2>3, <2>4
<1>14. heap' \subseteq scored' /\ Cardinality(heap') = Selecting!Remaining'
  BY <1>1, <1>2, <1>5, <1>7, <1>10
<1>15. Cardinality(heap') <= Selecting!Remaining'
  BY <1>1, <1>2, <1>14
<1>16. (counts \in [Selecting!Artifacts -> Nat])'
  BY <1>2, <1>12
<1> QED
  BY <1>11, <1>13, <1>14, <1>15, <1>16 DEF Heaped

\* A row is considered.
LEMMA ConsiderHolds ==
  ASSUME Framed, Scanned, Heaped, Selecting!Consider
  PROVE  Scanned' /\ Heaped'
<1> DEFINE n == Selecting!Least(fetched, Selecting!StableKey)
           e == [score |-> Selecting!Score(n), tie |-> Cardinality(scored) + 1, row |-> n]
<1>1. n \in fetched
  <2>1. Keyed(table, Selecting!StableKey)
    BY KeysDiffer, SelectionConstants DEF Framed
  <2>2. Keyed(fetched, Selecting!StableKey)
    BY <2>1, KeyedSubset DEF Scanned
  <2>3. fetched # {}
    BY DEF Selecting!Consider
  <2> QED
    BY <2>2, <2>3, LeastHolds
<1>2. /\ UNCHANGED <<table, limits, reserved, cursor, full>>
      /\ fetched' = fetched \ {n}
      /\ IF n \in reserved \/ Selecting!Remaining = 0
         THEN UNCHANGED <<heap, counts, scored>>
         ELSE /\ scored' = scored \cup {e}
              /\ IF Cardinality(heap) < Selecting!Remaining
                 THEN /\ heap' = heap \cup {e}
                      /\ counts' = [counts EXCEPT ![n.artifact] = @ + 1]
                 ELSE IF e.score > Selecting!Lowest.score
                 THEN /\ heap' = (heap \ {Selecting!Lowest}) \cup {e}
                      /\ counts' = Selecting!Replaced(Selecting!Lowest.row.artifact, n.artifact)
                 ELSE UNCHANGED <<heap, counts>>
  BY SameFinite DEF Selecting!Consider
<1> HIDE DEF n
<1>3. PICK x : x = e
  OBVIOUS
<1>4. Scanned'
  BY <1>1, <1>2, <1>3, ScanAdvances
<1>5. CASE n \in reserved \/ Selecting!Remaining = 0
  <2>1. UNCHANGED <<heap, counts, scored, table, limits, reserved>>
    BY <1>2, <1>5
  <2>2. Selecting!Remaining' = Selecting!Remaining /\ Selecting!Artifacts' = Selecting!Artifacts
    BY <2>1 DEF Selecting!Remaining, Selecting!Artifacts
  <2>3. Selecting!LeftOutIsWeaker' /\ Selecting!CountsMatchHeap'
    BY <2>1, <2>2 DEF Heaped, Selecting!LeftOutIsWeaker, Selecting!CountsMatchHeap
  <2> QED
    BY <1>4, <2>1, <2>2, <2>3 DEF Heaped
<1>6. CASE ~(n \in reserved \/ Selecting!Remaining = 0)
  <2>1. scored' = scored \cup {x}
    BY <1>2, <1>3, <1>6
  <2>2. CASE Cardinality(heap) < Selecting!Remaining
    <3>1. heap' = heap \cup {x} /\ counts' = [counts EXCEPT ![n.artifact] = @ + 1]
      BY <1>2, <1>3, <1>6, <2>2
    <3> QED
      BY <1>1, <1>2, <1>3, <1>4, <1>6, <2>1, <2>2, <3>1, HeapGrows
  <2>3. CASE ~(Cardinality(heap) < Selecting!Remaining) /\ x.score > Selecting!Lowest.score
    <3>1. PICK out : out = Selecting!Lowest
      OBVIOUS
    <3>2. /\ heap' = (heap \ {out}) \cup {x}
          /\ counts' = Selecting!Replaced(out.row.artifact, n.artifact)
      BY <1>2, <1>3, <1>6, <2>3, <3>1
    <3> QED
      BY <1>1, <1>2, <1>3, <1>4, <1>6, <2>1, <2>3, <3>1, <3>2, HeapReplaces
  <2>4. CASE ~(Cardinality(heap) < Selecting!Remaining) /\ ~(x.score > Selecting!Lowest.score)
    <3>1. UNCHANGED <<heap, counts>>
      BY <1>2, <1>3, <1>6, <2>4
    <3> QED
      BY <1>1, <1>2, <1>3, <1>4, <1>6, <2>1, <2>4, <3>1, HeapKeeps
  <2> QED
    BY <1>4, <2>2, <2>3, <2>4
<1> QED
  BY <1>4, <1>5, <1>6

-----------------------------------------------------------------------------
(* What is selected.                                                       *)

\* A row that is taken adds its size.
LEMMA SizeGrows ==
  ASSUME Table(table), NEW t \in Seq(table), Distinct(t)
  PROVE  /\ Selecting!Total(Selecting!ToSet(t)) \in Nat
         /\ \A r \in table \ Selecting!ToSet(t) :
              /\ r.size \in Nat
              /\ Selecting!Total(Selecting!ToSet(Append(t, r)))
                   = Selecting!Total(Selecting!ToSet(t)) + r.size
<1> DEFINE s == Selecting!ToSet(t)
<1>1. IsFiniteSet(s) /\ s \subseteq table
  BY SizeOfDistinct
<1> HIDE DEF s
<1>2. \A r \in s : r.size \in Nat
  BY <1>1 DEF Table
<1>3. ASSUME NEW r \in table, r \notin s
      PROVE  /\ r.size \in Nat /\ Selecting!Total(s) \in Nat
             /\ Selecting!Total(s \cup {r}) = Selecting!Total(s) + r.size
  <2>1. r.size \in Nat
    BY DEF Table
  <2> QED
    BY <1>1, <1>2, <1>3, <2>1, TotalAdds
<1>4. Selecting!Total(s) \in Nat
  <2>1. IsFiniteSet(BytesOf(s))
    BY <1>1, <1>2, BytesAreFinite
  <2> QED
    BY <2>1, SameFinite, FS_CardinalityType DEF Selecting!Total, BytesOf
<1>5. ASSUME NEW r \in table, r \notin s
      PROVE  Selecting!ToSet(Append(t, r)) = s \cup {r}
  BY <1>5, OneMore DEF s
<1> QED
  BY <1>3, <1>4, <1>5 DEF s

\* A row that fits is taken.
LEMMA TakesOne ==
  ASSUME Framed, Kept, NEW r \in table, r \notin Selecting!ToSet(selected),
         Selecting!Fits(r), Len(selected) < limits.records,
         UNCHANGED <<table, limits>>, selected' = Append(selected, r)
  PROVE  /\ Kept'
         /\ Selecting!Bytes \in Nat /\ r.size \in Nat
         /\ Selecting!Bytes' = Selecting!Bytes + r.size
         /\ Selecting!ToSet(selected)' = Selecting!ToSet(selected) \cup {r}
<1>1. limits.records \in Nat /\ limits.bytes \in Nat
  BY SelectionConstants DEF Framed
<1>2. PICK t : t = selected
  OBVIOUS
<1>3. t \in Seq(table) /\ Distinct(t) /\ Len(t) \in Nat
  BY <1>2 DEF Kept
<1>4. /\ Append(t, r) \in Seq(table) /\ Len(Append(t, r)) = Len(t) + 1
      /\ Selecting!ToSet(Append(t, r)) = Selecting!ToSet(t) \cup {r}
      /\ Distinct(Append(t, r))
  BY <1>2, <1>3, OneMore
<1>5. /\ Selecting!Total(Selecting!ToSet(t)) \in Nat /\ r.size \in Nat
      /\ Selecting!Total(Selecting!ToSet(Append(t, r)))
           = Selecting!Total(Selecting!ToSet(t)) + r.size
  BY <1>2, <1>3, SizeGrows, SelectionConstants DEF Framed
<1>6. Len(t) < limits.records
  BY <1>2
<1>7. selected' = Append(t, r)
  BY <1>2
<1>8. Selecting!Bytes = Selecting!Total(Selecting!ToSet(t))
  BY <1>2 DEF Selecting!Bytes
<1>9. Selecting!Bytes' = Selecting!Total(Selecting!ToSet(Append(t, r)))
  BY <1>7 DEF Selecting!Bytes
<1>10. Len(selected') <= limits.records
  BY <1>1, <1>3, <1>4, <1>6, <1>7
<1>11. ASSUME Len(selected') > 1 PROVE Selecting!Bytes' <= limits.bytes
  <2>1. t # <<>>
    BY <1>3, <1>4, <1>7, <1>11
  <2> QED
    BY <1>2, <1>5, <1>8, <1>9, <2>1 DEF Selecting!Fits
<1>12. Selecting!WithinLimits'
  BY <1>10, <1>11 DEF Selecting!WithinLimits
<1>13. Kept'
  BY <1>4, <1>7, <1>12 DEF Kept
<1> QED
  BY <1>2, <1>4, <1>5, <1>7, <1>8, <1>9, <1>13

\* Nothing is selected.
LEMMA NothingTaken ==
  ASSUME Kept, UNCHANGED <<table, limits, selected>>
  PROVE  Kept' /\ Selecting!Bytes' = Selecting!Bytes
BY DEF Kept, Selecting!WithinLimits, Selecting!Bytes

\* Sorting the selection keeps it.
LEMMA SortsTheKept ==
  ASSUME Framed, Kept, UNCHANGED <<table, limits>>,
         selected' = Selecting!SortedBy(Selecting!ToSet(selected), Selecting!ChronologicalKey)
  PROVE  /\ Kept'
         /\ Len(selected') = Len(selected)
         /\ Selecting!Bytes' = Selecting!Bytes
         /\ Selecting!ToSet(selected)' = Selecting!ToSet(selected)
<1> DEFINE s == Selecting!ToSet(selected)
           k == Selecting!ChronologicalKey
<1>1. IsFiniteSet(s) /\ Cardinality(s) = Len(selected) /\ s \subseteq table
  BY SizeOfDistinct DEF Kept
<1>2. Keyed(table, k)
  BY KeysDiffer, SelectionConstants DEF Framed
<1>3. PICK t : t = Selecting!SortedBy(s, k)
  OBVIOUS
<1>4. selected' = t
  BY <1>3
<1> HIDE DEF s, k
<1>5. t \in Seq(s) /\ Distinct(t) /\ Selecting!ToSet(t) = s /\ Len(t) = Cardinality(s)
  BY <1>1, <1>2, <1>3, KeyedSubset, SortedIsDistinct
<1>6. t \in Seq(table)
  BY <1>1, <1>5
<1>7. Selecting!Bytes' = Selecting!Bytes
  BY <1>4, <1>5 DEF Selecting!Bytes, s
<1>8. Selecting!WithinLimits'
  BY <1>1, <1>4, <1>5, <1>7 DEF Kept, Selecting!WithinLimits
<1> QED
  BY <1>1, <1>4, <1>5, <1>6, <1>7, <1>8 DEF Kept, s

\* Everything is selected when everything is within the limits.
LEMMA TakesEverything ==
  ASSUME Framed, Selecting!Everything
  PROVE  Kept'
<1> DEFINE k == Selecting!ChronologicalKey
<1>1. Keyed(table, k)
  BY KeysDiffer, SelectionConstants DEF Framed
<1>2. /\ Cardinality(table) <= limits.records /\ Selecting!Total(table) <= limits.bytes
      /\ selected' = Selecting!SortedBy(table, k)
      /\ table' = table /\ limits' = limits
  BY SameFinite DEF Selecting!Everything
<1> HIDE DEF k
<1>3. PICK t : t = Selecting!SortedBy(table, k)
  OBVIOUS
<1>4. t \in Seq(table) /\ Distinct(t) /\ Selecting!ToSet(t) = table /\ Len(t) = Cardinality(table)
  BY <1>1, <1>3, SortedIsDistinct
<1>5. Selecting!Bytes' = Selecting!Total(table)
  BY <1>2, <1>3, <1>4 DEF Selecting!Bytes
<1>6. Selecting!WithinLimits'
  BY <1>2, <1>3, <1>4, <1>5 DEF Selecting!WithinLimits
<1> QED
  BY <1>2, <1>3, <1>4, <1>6 DEF Kept

-----------------------------------------------------------------------------
(* The candidates.                                                         *)

\* The order of the candidates tells the heap's entries apart.
LEMMA HeapIsKeyed ==
  ASSUME Framed, Scanned, Heaped,
         NEW key, key = [h \in heap |-> <<h.score, h.row.line, h.row.fingerprint>>]
  PROVE  Keyed(heap, key)
<1>1. IsFiniteSet(heap) /\ heap \subseteq scored
  BY FS_Subset DEF Heaped, Scanned
<1>2. Table(table)
  BY SelectionConstants DEF Framed
<1>3. ASSUME NEW h \in heap
      PROVE  /\ h.row \in table
             /\ key[h] \in [1 .. 3 -> Int]
             /\ key[h][2] = h.row.line /\ key[h][3] = h.row.fingerprint
  <2>1. h.row \in table /\ h.score \in Int
    BY <1>1 DEF Scanned
  <2>2. PICK a \in Int, b \in Int, c \in Int :
          a = h.score /\ b = h.row.line /\ c = h.row.fingerprint
    BY <1>2, <2>1 DEF Table
  <2>3. key[h] = <<a, b, c>>
    BY <2>2
  <2> QED
    BY <2>1, <2>2, <2>3
<1>4. ASSUME NEW g \in heap, NEW h \in heap, key[g] = key[h] PROVE g = h
  <2>1. g.row = h.row
    BY <1>2, <1>3, <1>4 DEF Table
  <2> QED
    BY <1>1, <2>1 DEF Scanned
<1> QED
  BY <1>1, <1>3, <1>4 DEF Keyed

\* The rows of entries, in the entries' order.
LEMMA RowsOfEntries ==
  ASSUME NEW S, NEW b \in Seq(heap), Distinct(b), \A h \in heap : h.row \in S,
         \A g, h \in heap : g.row = h.row => g = h,
         Selecting!ToSet(b) = heap,
         NEW c \in Seq(S), Len(c) = Len(b), \A i \in 1 .. Len(b) : c[i] = b[i].row
  PROVE  /\ Distinct(c)
         /\ \A y : y \in Selecting!ToSet(c) <=> \E h \in heap : y = h.row
<1> DEFINE n == Len(b)
<1>1. n \in Nat /\ DOMAIN b = 1 .. n /\ \A i \in 1 .. n : b[i] \in heap
  OBVIOUS
<1>2. \A i \in 1 .. n : c[i] = b[i].row
  OBVIOUS
<1>3. \A i, j \in 1 .. n : b[i] = b[j] => i = j
  BY DEF Distinct
<1>5. Len(c) = n /\ DOMAIN c = 1 .. n
  OBVIOUS
<1> HIDE DEF n
<1>6. \A i, j \in 1 .. n : c[i] = c[j] => i = j
  BY <1>1, <1>2, <1>3
<1>7. \A y : y \in Selecting!ToSet(c) <=> \E h \in heap : y = h.row
  <2>1. \A y : y \in Selecting!ToSet(c) <=> \E i \in 1 .. n : y = b[i].row
    BY <1>2, <1>5 DEF Selecting!ToSet
  <2>2. \A h : h \in heap <=> \E i \in 1 .. n : h = b[i]
    BY <1>1 DEF Selecting!ToSet
  <2> QED
    BY <2>1, <2>2
<1> QED
  BY <1>5, <1>6, <1>7 DEF Distinct

\* The candidates are the reserve and the heap, each row once.
LEMMA RankHolds ==
  ASSUME Framed, Scanned, Heaped, Waiting, Selecting!Rank
  PROVE  Picking'
<1> DEFINE key == [h \in heap |-> <<h.score, h.row.line, h.row.fingerprint>>]
<1>1. PICK k : k = key
  OBVIOUS
<1>2. PICK a, b : a = Selecting!SortedBy(reserved, Selecting!StableKey) /\ b = Selecting!SortedBy(heap, k)
  OBVIOUS
<1>3. PICK c : c = [i \in 1 .. Len(b) |-> b[i].row]
  OBVIOUS
<1>4. candidates' = Selecting!Reverse(a) \o Selecting!Reverse(c)
  BY <1>1, <1>2, <1>3 DEF Selecting!Rank
<1>5. /\ reserved' = reserved /\ heap' = heap /\ selected' = selected /\ selected = <<>>
      /\ table' = table
  BY DEF Selecting!Rank, Waiting, Selecting!scanVars
<1>6. Keyed(heap, k)
  BY <1>1, HeapIsKeyed
<1> HIDE DEF key
<1>7. Keyed(reserved, Selecting!StableKey)
  BY KeysDiffer, KeyedSubset, SelectionConstants DEF Framed, Scanned
<1>8. a \in Seq(reserved) /\ Distinct(a) /\ Selecting!ToSet(a) = reserved
  BY <1>2, <1>7, SortedIsDistinct
<1>9. b \in Seq(heap) /\ Distinct(b) /\ Selecting!ToSet(b) = heap
  BY <1>2, <1>6, SortedIsDistinct
<1> DEFINE S == FromScan
<1>10. /\ S = reserved \cup {h.row : h \in heap}
       /\ \A h \in heap : h.row \in S /\ h.row \notin reserved
       /\ \A g, h \in heap : g.row = h.row => g = h
  BY DEF FromScan, Heaped, Scanned
<1> HIDE DEF S
<1>11. /\ c \in Seq(S) /\ Distinct(c)
       /\ Selecting!ToSet(c) = {h.row : h \in heap}
  <2>1. Len(b) \in Nat /\ \A i \in 1 .. Len(b) : b[i] \in heap
    BY <1>9
  <2>2. c \in Seq(S) /\ Len(c) = Len(b) /\ \A i \in 1 .. Len(b) : c[i] = b[i].row
    <3>1. c \in [1 .. Len(b) -> S] /\ \A i \in 1 .. Len(b) : c[i] = b[i].row
      BY <1>3, <1>10, <2>1
    <3> QED
      BY <2>1, <3>1
  <2>3. Distinct(c) /\ \A y : y \in Selecting!ToSet(c) <=> \E h \in heap : y = h.row
    BY <1>9, <1>10, <2>2, RowsOfEntries
  <2> QED
    BY <2>2, <2>3
<1>12. a \in Seq(S)
  BY <1>8, <1>10
<1> DEFINE u == Selecting!Reverse(a)
           v == Selecting!Reverse(c)
<1>13. u \in Seq(S) /\ Selecting!ToSet(u) = reserved /\ Distinct(u)
  BY <1>8, <1>12, ReverseHolds
<1>14. v \in Seq(S) /\ Selecting!ToSet(v) = {h.row : h \in heap} /\ Distinct(v)
  BY <1>11, ReverseHolds
<1>15. candidates' = u \o v
  BY <1>4
<1> HIDE DEF u, v
<1>16. Selecting!ToSet(u) \cap Selecting!ToSet(v) = {}
  BY <1>10, <1>13, <1>14
<1>17. /\ candidates' \in Seq(S) /\ Distinct(candidates')
       /\ Selecting!ToSet(candidates') = S
  BY <1>10, <1>13, <1>14, <1>15, <1>16, ConcatHolds
<1>18. Selecting!ToSet(selected') = {}
  BY <1>5, NoneTaken
<1>19. FromScan' = S
  BY <1>5 DEF FromScan, S
<1> QED
  BY <1>17, <1>18, <1>19 DEF Picking

\* A candidate is taken, or would break the byte limit then and later.
LEMMA PickHolds ==
  ASSUME Framed, Scanned, Heaped, Kept, Picking, Selecting!Pick
  PROVE  Kept' /\ Picking'
<1> DEFINE c == Head(candidates)
           d == Tail(candidates)
           taken == Selecting!ToSet(selected)
<1>1. /\ candidates # <<>> /\ Len(selected) < limits.records
      /\ selected' = IF Selecting!Fits(c) THEN Append(selected, c) ELSE selected
      /\ candidates' = d
      /\ table' = table /\ limits' = limits /\ reserved' = reserved /\ heap' = heap
      /\ phase = "pick"
  BY DEF Selecting!Pick, Selecting!scanVars
<1>2. FromScan \subseteq table /\ FromScan' = FromScan
  BY <1>1 DEF FromScan, Heaped, Scanned
<1>3. /\ candidates \in Seq(FromScan) /\ Distinct(candidates)
      /\ \A r \in Selecting!ToSet(candidates) : r \notin taken
      /\ \A r \in FromScan \ taken :
            r \in Selecting!ToSet(candidates) \/ Selecting!Bytes + r.size > limits.bytes
  BY <1>1 DEF Picking
<1>4. /\ c \in FromScan /\ d \in Seq(FromScan)
      /\ Selecting!ToSet(candidates) = {c} \cup Selecting!ToSet(d)
      /\ Distinct(d) /\ c \notin Selecting!ToSet(d)
  BY <1>1, <1>3, FirstTaken
<1>5. /\ \A r \in table : r.size \in Nat
      /\ limits.bytes \in Nat
  BY SelectionConstants DEF Framed, Table
<1>6. Selecting!Bytes \in Nat
  BY SizeGrows, SelectionConstants DEF Framed, Kept, Selecting!Bytes
<1> HIDE DEF c, d, taken
<1>7. CASE Selecting!Fits(c)
  <2>1. selected' = Append(selected, c) /\ c \in table /\ c \notin taken
    BY <1>1, <1>2, <1>3, <1>4, <1>7
  <2>2. /\ Kept'
        /\ Selecting!Bytes' = Selecting!Bytes + c.size
        /\ Selecting!ToSet(selected)' = taken \cup {c}
    BY <1>1, <1>7, <2>1, TakesOne DEF taken
  <2>3. \A r \in Selecting!ToSet(d) : r \notin taken \cup {c}
    BY <1>3, <1>4
  <2>4. ASSUME NEW r \in FromScan \ (taken \cup {c})
        PROVE  r \in Selecting!ToSet(d) \/ Selecting!Bytes + c.size + r.size > limits.bytes
    <3>1. r.size \in Nat /\ c.size \in Nat
      BY <1>2, <1>5, <2>1
    <3>2. r \in Selecting!ToSet(d) \/ Selecting!Bytes + r.size > limits.bytes
      BY <1>3, <1>4
    <3> QED
      BY <1>5, <1>6, <3>1, <3>2
  <2> QED
    BY <1>1, <1>2, <1>4, <2>2, <2>3, <2>4 DEF Picking
<1>8. CASE ~Selecting!Fits(c)
  <2>1. selected' = selected
    BY <1>1, <1>8
  <2>2. Kept' /\ Selecting!Bytes' = Selecting!Bytes
    BY <1>1, <2>1, NothingTaken
  <2>3. c.size \in Nat
    BY <1>2, <1>4, <1>5
  <2>4. Selecting!Bytes + c.size > limits.bytes
    BY <1>5, <1>6, <1>8, <2>3 DEF Selecting!Fits
  <2>5. \A r \in FromScan \ taken :
          r \in Selecting!ToSet(d) \/ Selecting!Bytes + r.size > limits.bytes
    BY <1>3, <1>4, <2>4
  <2>6. \A r \in Selecting!ToSet(d) : r \notin taken
    BY <1>3, <1>4
  <2>7. Selecting!ToSet(selected)' = taken
    BY <2>1 DEF taken
  <2> QED
    BY <1>1, <1>2, <1>4, <2>2, <2>5, <2>6, <2>7 DEF Picking
<1> QED
  BY <1>7, <1>8

\* No candidate is left that fits.
LEMMA EndPickHolds ==
  ASSUME Framed, Kept, Waiting, Picking, Selecting!EndPick
  PROVE  Kept' /\ Ended'
<1>1. /\ phase = "pick" /\ (candidates = <<>> \/ Len(selected) >= limits.records)
      /\ table' = table /\ limits' = limits /\ reserved' = reserved /\ heap' = heap
      /\ queue' = queue /\ phase' = "done" /\ queue = {}
      /\ selected' = Selecting!SortedBy(Selecting!ToSet(selected), Selecting!ChronologicalKey)
  BY DEF Selecting!EndPick, Selecting!scanVars, Selecting!roundVars, Waiting
<1>2. /\ Kept'
      /\ Len(selected') = Len(selected)
      /\ Selecting!Bytes' = Selecting!Bytes
      /\ Selecting!ToSet(selected)' = Selecting!ToSet(selected)
  BY <1>1, SortsTheKept
<1>3. Len(selected) \in Nat /\ limits.records \in Nat /\ Len(selected) <= limits.records
  <2>1. Len(selected) \in Nat /\ Len(selected) <= limits.records
    BY DEF Kept, Selecting!WithinLimits
  <2>2. limits.records \in Nat
    BY SelectionConstants DEF Framed
  <2> QED
    BY <2>1, <2>2
<1>4. \A r \in FromScan \ Selecting!ToSet(selected) :
         Len(selected) = limits.records \/ Selecting!Bytes + r.size > limits.bytes
  <2>1. CASE candidates = <<>>
    <3>1. Selecting!ToSet(candidates) = {}
      BY <2>1, NoneTaken
    <3> QED
      BY <1>1, <3>1 DEF Picking
  <2>2. CASE Len(selected) >= limits.records
    BY <1>3, <2>2
  <2> QED
    BY <1>1, <2>1, <2>2
<1>5. Selecting!NothingElseFits'
  BY <1>1, <1>2, <1>4 DEF Selecting!NothingElseFits, FromScan
<1>6. Selecting!FairShares'
  BY <1>1 DEF Selecting!FairShares
<1>7. queue' = {} /\ Selecting!ToSet(active)' = {} /\ Selecting!ToSet(next)' = {}
  BY <1>1, NoneTaken DEF Selecting!EndPick, Selecting!roundVars, Waiting
<1> QED
  BY <1>2, <1>5, <1>6, <1>7 DEF Ended

-----------------------------------------------------------------------------
(* The rounds.                                                             *)

\* The rows of an artifact in a selection, when a row is added.
GivenIn(s, a) == Cardinality({r \in s : r.artifact = a})

\* The rows an artifact has given are those of the selection.
LEMMA GivenIsIn ==
  \A a : Selecting!Given(a) = GivenIn(Selecting!ToSet(selected), a)
BY SameFinite DEF Selecting!Given, GivenIn

\* A row that is added counts for its artifact alone.
LEMMA GivenGrows ==
  ASSUME NEW s, IsFiniteSet(s), NEW x, x \notin s, NEW a
  PROVE  /\ GivenIn(s, a) \in Nat
         /\ GivenIn(s \cup {x}, a) = IF a = x.artifact THEN GivenIn(s, a) + 1 ELSE GivenIn(s, a)
<1> DEFINE O == {r \in s : r.artifact = a}
<1>1. O \in SUBSET s /\ x \notin O
  OBVIOUS
<1>2. {r \in s \cup {x} : r.artifact = a} = IF a = x.artifact THEN O \cup {x} ELSE O
  OBVIOUS
<1> HIDE DEF O
<1>3. IsFiniteSet(O)
  BY <1>1, FS_Subset
<1>4. Cardinality(O) \in Nat /\ Cardinality(O \cup {x}) = Cardinality(O) + 1
  BY <1>1, <1>3, FS_AddElement, FS_CardinalityType
<1> QED
  BY <1>2, <1>4 DEF GivenIn, O

\* An artifact has given a number of rows.
LEMMA GivenIsNat ==
  ASSUME Kept, NEW a
  PROVE  Selecting!Given(a) \in Nat
<1> DEFINE s == Selecting!ToSet(selected)
           O == {r \in s : r.artifact = a}
<1>1. IsFiniteSet(s)
  BY SizeOfDistinct DEF Kept
<1>2. O \in SUBSET s
  OBVIOUS
<1>3. Selecting!Given(a) = Cardinality(O)
  BY SameFinite DEF Selecting!Given
<1> HIDE DEF O, s
<1> QED
  BY <1>1, <1>2, <1>3, FS_Subset, FS_CardinalityType

\* The best row left is one of them.
LEMMA BestIsLeft ==
  ASSUME Framed, NEW a, LeftOf(a) # {}
  PROVE  /\ Selecting!Least(LeftOf(a), Selecting!PriorityKey) \in LeftOf(a)
         /\ Selecting!Least(LeftOf(a), Selecting!PriorityKey).size \in Nat
<1>1. LeftOf(a) \in SUBSET table
  BY DEF LeftOf
<1>2. Keyed(LeftOf(a), Selecting!PriorityKey)
  BY <1>1, KeysDiffer, KeyedSubset, SelectionConstants DEF Framed
<1>3. Selecting!Least(LeftOf(a), Selecting!PriorityKey) \in LeftOf(a)
  BY <1>2, LeastHolds
<1> QED
  BY <1>1, <1>3, SelectionConstants DEF Framed, Table

\* Bytes and limits are numbers.
LEMMA BytesAreNat ==
  ASSUME Framed, Kept
  PROVE  Selecting!Bytes \in Nat /\ limits.bytes \in Nat /\ limits.records \in Nat
BY SizeGrows, SelectionConstants DEF Framed, Kept, Selecting!Bytes

\* A round is fair.
LEMMA RoundIsFair ==
  ASSUME Framed, Kept, NEW n \in Nat, Round(n)
  PROVE  \A a, b \in Selecting!Artifacts :
           \/ LeftOf(a) = {}
           \/ Selecting!Given(a) + 1 >= Selecting!Given(b)
           \/ Selecting!Bytes
                + Selecting!Least(LeftOf(a), Selecting!PriorityKey).size > limits.bytes
<1> DEFINE in == Selecting!ToSet(active) \cup Selecting!ToSet(next)
<1>1. \A a \in Selecting!Artifacts : Selecting!Given(a) \in Nat /\ Selecting!Given(a) <= n + 1
  BY GivenIsNat DEF Round
<1>2. \A a \in in : Selecting!Given(a) >= n
  BY DEF Round
<1>3. \A a \in Selecting!Artifacts \ in :
         \/ LeftOf(a) = {}
         \/ Selecting!Bytes
              + Selecting!Least(LeftOf(a), Selecting!PriorityKey).size > limits.bytes
  BY DEF Round
<1> HIDE DEF in
<1>4. \A a \in in, b \in Selecting!Artifacts :
         a \in Selecting!Artifacts => Selecting!Given(a) + 1 >= Selecting!Given(b)
  BY <1>1, <1>2
<1> QED
  BY <1>3, <1>4

\* Before the first round no artifact has given a row.
LEMMA RoundsBegin ==
  ASSUME Framed, Waiting, Selecting!StartRounds
  PROVE  Round(0)'
<1> DEFINE A == Selecting!Artifacts
           k == [a \in A |-> <<a>>]
<1>1. /\ queue' = table /\ table' = table /\ next' = <<>> /\ selected' = <<>>
      /\ active' = Selecting!SortedBy(A, k)
  BY DEF Selecting!StartRounds, Waiting, Selecting!scanVars
<1>2. Table(table)
  BY SelectionConstants DEF Framed
<1>3. IsFiniteSet(A) /\ A \subseteq Int
  <2> DEFINE f == [r \in table |-> r.artifact]
  <2>1. f \in [table -> A] /\ \A a \in A : \E r \in table : f[r] = a
    BY DEF Selecting!Artifacts
  <2>2. IsFiniteSet(table)
    BY <1>2 DEF Table
  <2>3. A \subseteq Int
    BY <1>2 DEF Table, Selecting!Artifacts
  <2> HIDE DEF f, A
  <2> QED
    BY <2>1, <2>2, <2>3, ImageIsFinite
<1>4. Selecting!Artifacts' = A
  BY <1>1 DEF Selecting!Artifacts
<1>5. PICK key : key = k
  OBVIOUS
<1> HIDE DEF A
<1>6. \A a \in A : key[a] = <<a>>
  BY <1>5
<1> HIDE DEF k
<1>7. Keyed(A, key)
  <2>1. \A a \in A : key[a] \in [1 .. 1 -> Int] /\ key[a][1] = a
    BY <1>3, <1>6
  <2> QED
    BY <1>3, <2>1 DEF Keyed
<1>8. active' \in Seq(A) /\ Distinct(active') /\ Selecting!ToSet(active') = A
  BY <1>1, <1>5, <1>7, SortedIsDistinct
<1>9. Selecting!ToSet(next') = {} /\ Distinct(next') /\ Selecting!ToSet(selected') = {}
  BY <1>1, NoneTaken
<1>10. \A a : Selecting!Given(a)' = 0
  <2>1. \A a : {r \in {} : r.artifact = a} = {}
    OBVIOUS
  <2>2. Cardinality({}) = 0
    BY FS_EmptySet
  <2>3. \A a : Selecting!Given(a)' = Cardinality({r \in {} : r.artifact = a})
    BY <1>9, SameFinite DEF Selecting!Given
  <2> QED
    BY <2>1, <2>2, <2>3
<1>11. \A a : Selecting!Left(a)' = LeftOf(a)'
  BY <1>1, <1>9 DEF Selecting!Left, LeftOf
<1>12. next' \in Seq(A)
  BY <1>1
<1> QED
  BY <1>1, <1>4, <1>8, <1>9, <1>10, <1>11, <1>12 DEF Round

\* The artifacts of the next round have one row more.
LEMMA RoundFollows ==
  ASSUME Framed, Kept, NEW n \in Nat, Round(n), Selecting!NextRound
  PROVE  Round(n + 1)'
<1>1. /\ active' = next /\ next' = <<>> /\ active = <<>>
      /\ UNCHANGED <<table, limits, queue, selected>>
  BY DEF Selecting!NextRound
<1>2. /\ \A a : Selecting!Given(a)' = Selecting!Given(a)
      /\ \A a : Selecting!Left(a)' = Selecting!Left(a)
      /\ \A a : LeftOf(a)' = LeftOf(a)
      /\ Selecting!Bytes' = Selecting!Bytes /\ Selecting!Artifacts' = Selecting!Artifacts
      /\ Selecting!PriorityKey' = Selecting!PriorityKey
  BY <1>1 DEF Selecting!Given, Selecting!Left, LeftOf, Selecting!Bytes, Selecting!Artifacts,
              Selecting!PriorityKey
<1>3. Selecting!ToSet(<<>>) = {} /\ Distinct(<<>>)
  BY NoneTaken
<1>4. \A a \in Selecting!Artifacts : Selecting!Given(a) \in Nat
  BY GivenIsNat
<1> QED
  BY <1>1, <1>2, <1>3, <1>4 DEF Round

\* The turn of an artifact that has no row left: it is out.
LEMMA NothingToGive ==
  ASSUME Framed, Kept, NEW n \in Nat, Round(n), active # <<>>,
         Selecting!Left(Head(active)) = {},
         active' = Tail(active), UNCHANGED <<table, limits, queue, next, selected>>
  PROVE  Round(n)'
<1> DEFINE a == Head(active)
           rest == Tail(active)
<1>1. PICK A : A = Selecting!Artifacts
  OBVIOUS
<1>2. /\ a \in A /\ rest \in Seq(A)
      /\ Selecting!ToSet(active) = {a} \cup Selecting!ToSet(rest)
      /\ Distinct(rest) /\ a \notin Selecting!ToSet(rest)
  BY <1>1, FirstTaken DEF Round
<1>3. /\ \A b : Selecting!Given(b)' = Selecting!Given(b)
      /\ \A b : Selecting!Left(b)' = Selecting!Left(b)
      /\ \A b : LeftOf(b)' = LeftOf(b)
      /\ Selecting!Bytes' = Selecting!Bytes /\ Selecting!Artifacts' = A
      /\ Selecting!PriorityKey' = Selecting!PriorityKey
  BY <1>1 DEF Selecting!Given, Selecting!Left, LeftOf, Selecting!Bytes, Selecting!Artifacts,
              Selecting!PriorityKey
<1>4. Selecting!Left(a) = {}
  OBVIOUS
<1>5. active' = rest
  OBVIOUS
<1> HIDE DEF a, rest
<1>6. LeftOf(a) = {} /\ Selecting!Given(a) = n
  BY <1>2, <1>4 DEF Round
<1>7. \A b \in A \ (Selecting!ToSet(rest) \cup Selecting!ToSet(next)) :
         /\ Selecting!Given(b) <= n + 1
         /\ \/ LeftOf(b) = {}
            \/ Selecting!Bytes
                 + Selecting!Least(LeftOf(b), Selecting!PriorityKey).size > limits.bytes
  BY <1>1, <1>2, <1>6 DEF Round
<1> QED
  BY <1>1, <1>2, <1>3, <1>5, <1>7 DEF Round

\* What the best row of an artifact is.
LEMMA BestOfTurn ==
  ASSUME Framed, Kept, NEW n \in Nat, Round(n), active # <<>>,
         NEW a, a = Head(active), Selecting!Left(a) # {},
         NEW best, best = Selecting!Least(Selecting!Left(a), Selecting!PriorityKey)
  PROVE  /\ best \in table /\ best \in queue /\ best.artifact = a /\ best.size \in Nat
         /\ best \notin Selecting!ToSet(selected)
         /\ LeftOf(a) # {}
         /\ best = Selecting!Least(LeftOf(a), Selecting!PriorityKey)
<1>1. a \in Selecting!ToSet(active)
  <2>1. active \in Seq(Selecting!Artifacts)
    BY DEF Round
  <2> QED
    BY <2>1, FirstTaken
<1>2. Selecting!Left(a) = LeftOf(a)
  BY <1>1 DEF Round
<1>3. best \in LeftOf(a) /\ best.size \in Nat
  BY <1>2, BestIsLeft
<1> QED
  BY <1>2, <1>3 DEF LeftOf, Selecting!Left

\* The best row does not fit: the artifact is out.
LEMMA BestIsTooLarge ==
  ASSUME Framed, Kept, NEW n \in Nat, Round(n), active # <<>>,
         NEW a, a = Head(active), Selecting!Left(a) # {},
         NEW best, best = Selecting!Least(Selecting!Left(a), Selecting!PriorityKey),
         ~Selecting!Fits(best),
         queue' = queue \ {best}, active' = Tail(active),
         UNCHANGED <<table, limits, next, selected>>
  PROVE  Round(n)'
<1> DEFINE rest == Tail(active)
<1>1. PICK A : A = Selecting!Artifacts
  OBVIOUS
<1>2. /\ a \in A /\ rest \in Seq(A)
      /\ Selecting!ToSet(active) = {a} \cup Selecting!ToSet(rest)
      /\ Distinct(rest) /\ a \notin Selecting!ToSet(rest)
  BY <1>1, FirstTaken DEF Round
<1>3. /\ \A b : Selecting!Given(b)' = Selecting!Given(b)
      /\ \A b : LeftOf(b)' = LeftOf(b)
      /\ Selecting!Bytes' = Selecting!Bytes /\ Selecting!Artifacts' = A
      /\ Selecting!PriorityKey' = Selecting!PriorityKey
  BY <1>1 DEF Selecting!Given, LeftOf, Selecting!Bytes, Selecting!Artifacts,
              Selecting!PriorityKey
<1>4. /\ best \in table /\ best \in queue /\ best.artifact = a /\ best.size \in Nat
      /\ best \notin Selecting!ToSet(selected)
      /\ LeftOf(a) # {}
      /\ best = Selecting!Least(LeftOf(a), Selecting!PriorityKey)
  BY BestOfTurn
<1>5. active' = rest
  OBVIOUS
<1> HIDE DEF rest
<1>6. Selecting!Bytes + best.size > limits.bytes
  BY <1>4, BytesAreNat DEF Selecting!Fits
<1>7. \A b : b # a => Selecting!Left(b)' = Selecting!Left(b)
  BY <1>4 DEF Selecting!Left
<1>8. Selecting!Given(a) = n /\ a \notin Selecting!ToSet(next)
  BY <1>2 DEF Round
<1>9. \A b \in A \ (Selecting!ToSet(rest) \cup Selecting!ToSet(next)) :
         /\ Selecting!Given(b) <= n + 1
         /\ \/ LeftOf(b) = {}
            \/ Selecting!Bytes
                 + Selecting!Least(LeftOf(b), Selecting!PriorityKey).size > limits.bytes
  BY <1>1, <1>2, <1>4, <1>6, <1>8 DEF Round
<1>10. \A b \in Selecting!ToSet(rest) \cup Selecting!ToSet(next) : Selecting!Left(b)' = LeftOf(b)
  BY <1>2, <1>7, <1>8 DEF Round
<1> QED
  BY <1>1, <1>2, <1>3, <1>5, <1>9, <1>10 DEF Round

\* The best row is taken: the artifact is in the next round.
LEMMA BestIsTaken ==
  ASSUME Framed, Kept, NEW n \in Nat, Round(n), active # <<>>,
         NEW a, a = Head(active), Selecting!Left(a) # {},
         NEW best, best = Selecting!Least(Selecting!Left(a), Selecting!PriorityKey),
         Selecting!Fits(best), Len(selected) < limits.records,
         queue' = queue \ {best}, active' = Tail(active),
         next' = Append(next, a), selected' = Append(selected, best),
         UNCHANGED <<table, limits>>
  PROVE  Kept' /\ Round(n)'
<1> DEFINE rest == Tail(active)
           more == Append(next, a)
           taken == Selecting!ToSet(selected)
<1>1. PICK A : A = Selecting!Artifacts
  OBVIOUS
<1>2. /\ a \in A /\ rest \in Seq(A)
      /\ Selecting!ToSet(active) = {a} \cup Selecting!ToSet(rest)
      /\ Distinct(rest) /\ a \notin Selecting!ToSet(rest)
  BY <1>1, FirstTaken DEF Round
<1>3. Selecting!Given(a) = n /\ a \notin Selecting!ToSet(next)
  BY <1>2 DEF Round
<1>4. /\ more \in Seq(A) /\ Selecting!ToSet(more) = Selecting!ToSet(next) \cup {a}
      /\ Distinct(more)
  BY <1>1, <1>2, <1>3, OneMore DEF Round
<1>5. /\ best \in table /\ best \in queue /\ best.artifact = a /\ best.size \in Nat
      /\ best \notin taken
  BY BestOfTurn
<1>6. /\ Kept'
      /\ Selecting!Bytes \in Nat
      /\ Selecting!Bytes' = Selecting!Bytes + best.size
      /\ Selecting!ToSet(selected)' = taken \cup {best}
  BY <1>5, TakesOne
<1>7. active' = rest /\ next' = more
  OBVIOUS
<1>8. IsFiniteSet(taken)
  BY SizeOfDistinct DEF Kept
<1> HIDE DEF rest, more
<1>9. \A b : Selecting!Given(b)' =
               IF b = a THEN Selecting!Given(b) + 1 ELSE Selecting!Given(b)
  <2>1. \A b : Selecting!Given(b) = GivenIn(taken, b)
    BY GivenIsIn
  <2>2. \A b : Selecting!Given(b)' = GivenIn(taken \cup {best}, b)
    BY <1>6, SameFinite DEF Selecting!Given, GivenIn
  <2>3. ASSUME NEW b
        PROVE  GivenIn(taken \cup {best}, b) =
                 IF b = a THEN GivenIn(taken, b) + 1 ELSE GivenIn(taken, b)
    <3>1. PICK t, x : t = taken /\ x = best
      OBVIOUS
    <3>2. IsFiniteSet(t) /\ x \notin t
      BY <1>5, <1>8, <3>1
    <3>3. GivenIn(t \cup {x}, b) =
            IF b = x.artifact THEN GivenIn(t, b) + 1 ELSE GivenIn(t, b)
      BY <3>2, GivenGrows
    <3> QED
      BY <1>5, <3>1, <3>3
  <2> QED
    BY <1>5, <2>1, <2>2, <2>3
<1>10. /\ Selecting!Artifacts' = A /\ Selecting!PriorityKey' = Selecting!PriorityKey
  BY <1>1 DEF Selecting!Artifacts, Selecting!PriorityKey
<1>11. /\ \A b : b # a => Selecting!Left(b)' = Selecting!Left(b) /\ LeftOf(b)' = LeftOf(b)
       /\ Selecting!Left(a)' = Selecting!Left(a) \ {best}
       /\ LeftOf(a)' = LeftOf(a) \ {best}
  BY <1>5, <1>6 DEF Selecting!Left, LeftOf
<1> HIDE DEF taken
<1>12. \A b \in Selecting!ToSet(rest) \cup Selecting!ToSet(more) :
          Selecting!Left(b)' = LeftOf(b)'
  BY <1>2, <1>4, <1>11 DEF Round
<1>13. ASSUME NEW b \in A \ (Selecting!ToSet(rest) \cup Selecting!ToSet(more))
       PROVE  /\ Selecting!Given(b)' <= n + 1
              /\ \/ LeftOf(b)' = {}
                 \/ Selecting!Bytes'
                      + Selecting!Least(LeftOf(b), Selecting!PriorityKey).size > limits.bytes
              /\ LeftOf(b)' = LeftOf(b)
  <2>1. b # a /\ b \notin Selecting!ToSet(active) /\ b \notin Selecting!ToSet(next)
    BY <1>2, <1>4
  <2>2. /\ Selecting!Given(b) <= n + 1
        /\ \/ LeftOf(b) = {}
           \/ Selecting!Bytes
                + Selecting!Least(LeftOf(b), Selecting!PriorityKey).size > limits.bytes
    BY <1>1, <2>1 DEF Round
  <2>3. Selecting!Given(b)' = Selecting!Given(b) /\ LeftOf(b)' = LeftOf(b)
    BY <1>9, <1>11, <2>1
  <2>4. CASE LeftOf(b) = {}
    BY <2>2, <2>3, <2>4
  <2>5. CASE LeftOf(b) # {}
    <3>1. Selecting!Least(LeftOf(b), Selecting!PriorityKey).size \in Nat /\ limits.bytes \in Nat
      BY <2>5, BestIsLeft, BytesAreNat
    <3>2. PICK x, y : /\ x = Selecting!Bytes
                      /\ y = Selecting!Least(LeftOf(b), Selecting!PriorityKey).size
      OBVIOUS
    <3>3. x \in Nat /\ y \in Nat /\ x + y > limits.bytes
      BY <1>6, <2>2, <2>5, <3>1, <3>2
    <3>4. x + best.size + y > limits.bytes
      BY <1>5, <3>1, <3>3
    <3>5. Selecting!Bytes' = x + best.size
      BY <1>6, <3>2
    <3> QED
      BY <2>2, <2>3, <3>2, <3>4, <3>5
  <2> QED
    BY <2>4, <2>5
<1>14. \A b \in Selecting!ToSet(rest) :
          b \notin Selecting!ToSet(more) /\ Selecting!Given(b)' = n
  BY <1>2, <1>4, <1>9 DEF Round
<1>15. \A b \in Selecting!ToSet(more) : Selecting!Given(b)' = n + 1
  BY <1>3, <1>4, <1>9 DEF Round
<1>16. queue' \subseteq table
  BY DEF Round
<1>17. Round(n)'
  BY <1>2, <1>4, <1>7, <1>10, <1>12, <1>13, <1>14, <1>15, <1>16 DEF Round
<1> QED
  BY <1>6, <1>17

\* A turn stays in the round.
LEMMA TurnHolds ==
  ASSUME Framed, Kept, NEW n \in Nat, Round(n), Selecting!Turn
  PROVE  Kept' /\ Round(n)'
<1>1. PICK a : a = Head(active)
  OBVIOUS
<1>2. PICK best : best = Selecting!Least(Selecting!Left(a), Selecting!PriorityKey)
  OBVIOUS
<1>3. /\ active # <<>> /\ ~Selecting!BudgetReached
      /\ active' = Tail(active) /\ UNCHANGED <<table, limits>>
      /\ IF Selecting!Left(a) = {}
         THEN UNCHANGED <<queue, next, selected>>
         ELSE /\ queue' = queue \ {best}
              /\ IF Selecting!Fits(best)
                 THEN /\ selected' = Append(selected, best)
                      /\ next' = Append(next, a)
                 ELSE UNCHANGED <<next, selected>>
  BY <1>1, <1>2 DEF Selecting!Turn
<1>4. CASE Selecting!Left(a) = {}
  <2>1. UNCHANGED <<queue, next, selected>>
    BY <1>3, <1>4
  <2>2. Round(n)'
    BY <1>1, <1>3, <1>4, <2>1, NothingToGive
  <2> QED
    BY <1>3, <2>1, <2>2, NothingTaken
<1>5. CASE Selecting!Left(a) # {} /\ ~Selecting!Fits(best)
  <2>1. queue' = queue \ {best} /\ UNCHANGED <<next, selected>>
    BY <1>3, <1>5
  <2>2. Round(n)'
    BY <1>1, <1>2, <1>3, <1>5, <2>1, BestIsTooLarge
  <2> QED
    BY <1>3, <2>1, <2>2, NothingTaken
<1>6. CASE Selecting!Left(a) # {} /\ Selecting!Fits(best)
  <2>1. queue' = queue \ {best} /\ selected' = Append(selected, best) /\ next' = Append(next, a)
    BY <1>3, <1>6
  <2>2. Len(selected) < limits.records
    <3>1. Len(selected) \in Nat /\ limits.records \in Nat
      BY BytesAreNat DEF Kept
    <3> QED
      BY <1>3, <3>1 DEF Selecting!BudgetReached
  <2> QED
    BY <1>1, <1>2, <1>3, <1>6, <2>1, <2>2, BestIsTaken
<1> QED
  BY <1>4, <1>5, <1>6

\* The rounds end fairly.
LEMMA EndRoundsHolds ==
  ASSUME Framed, Kept, Waiting, NEW n \in Nat, Round(n), Selecting!EndRounds
  PROVE  Kept' /\ Ended'
<1>1. /\ UNCHANGED <<table, limits, reserved, heap, scored, queue>>
      /\ reserved = {} /\ scored = {}
      /\ selected' = IF caller = "finalize"
                     THEN Selecting!SortedBy(Selecting!ToSet(selected), Selecting!ChronologicalKey)
                     ELSE selected
  BY DEF Selecting!EndRounds, Waiting, Selecting!scanVars, Selecting!roundVars
<1>2. /\ Kept' /\ Selecting!Bytes' = Selecting!Bytes
      /\ Selecting!ToSet(selected)' = Selecting!ToSet(selected)
  BY <1>1, SortsTheKept, NothingTaken
<1>3. /\ \A a : Selecting!Given(a)' = Selecting!Given(a)
      /\ Selecting!Artifacts' = Selecting!Artifacts
      /\ Selecting!PriorityKey' = Selecting!PriorityKey
  BY <1>1, <1>2 DEF Selecting!Given, Selecting!Artifacts, Selecting!PriorityKey
<1>4. Selecting!FairShares'
  BY <1>1, <1>2, <1>3, RoundIsFair DEF Selecting!FairShares, LeftOf
<1>5. Selecting!NothingElseFits'
  BY <1>1 DEF Selecting!NothingElseFits
<1>6. /\ queue' \subseteq table'
      /\ (Selecting!ToSet(active) \cup Selecting!ToSet(next) \subseteq Selecting!Artifacts)'
  <2>1. UNCHANGED <<queue, active, next, table>>
    BY DEF Selecting!EndRounds, Selecting!roundVars
  <2>2. \A t \in Seq(Selecting!Artifacts) : Selecting!ToSet(t) \subseteq Selecting!Artifacts
    BY DEF Selecting!ToSet
  <2>3. /\ queue \subseteq table
        /\ Selecting!ToSet(active) \cup Selecting!ToSet(next) \subseteq Selecting!Artifacts
    BY <2>2 DEF Round
  <2> QED
    BY <1>3, <2>1, <2>3
<1> QED
  BY <1>2, <1>4, <1>5, <1>6 DEF Ended

-----------------------------------------------------------------------------
(* The selection.                                                          *)

\* What a step leaves alone, per action.
LEMMA ScanRests ==
  ASSUME SelectionInv, UNCHANGED <<table, limits, caller, Selecting!scanVars>>,
         phase' \in {"start", "rounds", "scan", "pick", "done"}
  PROVE  Framed' /\ Scanned' /\ Heaped'
<1>1. UNCHANGED <<table, limits, scanned>>
  BY DEF Selecting!scanVars, scanned
<1> QED
  BY <1>1, ScanStays DEF SelectionInv, Framed

\* Each action keeps the invariant.
LEMMA EverythingKeeps ==
  ASSUME SelectionInv, Selecting!Everything
  PROVE  SelectionInv'
<1>1. /\ phase = "start" /\ phase' = "done"
      /\ UNCHANGED <<table, limits, caller, queue, active, next, Selecting!scanVars>>
  BY DEF Selecting!Everything, Selecting!roundVars
<1>2. Framed' /\ Scanned' /\ Heaped'
  BY <1>1, ScanRests
<1>3. Kept'
  BY TakesEverything DEF SelectionInv
<1>4. /\ queue' = {} /\ active' = <<>> /\ next' = <<>> /\ reserved' = {} /\ scored' = {}
  BY <1>1 DEF SelectionInv, Waiting, Selecting!scanVars
<1>5. Waiting' /\ Picking' /\ Rounds'
  BY <1>1 DEF Waiting, Picking, Rounds
<1>6. Ended'
  BY <1>4, NoneTaken DEF Ended, Selecting!FairShares, Selecting!NothingElseFits
<1> QED
  BY <1>2, <1>3, <1>5, <1>6 DEF SelectionInv

LEMMA StartRoundsKeeps ==
  ASSUME SelectionInv, Selecting!StartRounds
  PROVE  SelectionInv'
<1>1. /\ phase = "start" /\ phase' = "rounds"
      /\ UNCHANGED <<table, limits, caller, selected, Selecting!scanVars>>
  BY DEF Selecting!StartRounds
<1>2. Framed' /\ Scanned' /\ Heaped'
  BY <1>1, ScanRests
<1>3. Kept'
  BY <1>1, NothingTaken DEF SelectionInv
<1>4. Waiting'
  BY <1>1 DEF SelectionInv, Waiting, Selecting!scanVars
<1>5. Picking' /\ Ended'
  BY <1>1 DEF Picking, Ended
<1>6. Rounds'
  BY RoundsBegin DEF SelectionInv, Rounds
<1> QED
  BY <1>2, <1>3, <1>4, <1>5, <1>6 DEF SelectionInv

LEMMA TurnKeeps ==
  ASSUME SelectionInv, Selecting!Turn
  PROVE  SelectionInv'
<1>1. /\ phase = "rounds" /\ phase' = "rounds"
      /\ UNCHANGED <<table, limits, caller, Selecting!scanVars>>
  BY DEF Selecting!Turn
<1>2. Framed' /\ Scanned' /\ Heaped'
  BY <1>1, ScanRests DEF SelectionInv, Framed
<1>3. PICK n \in Nat : Round(n)
  BY <1>1 DEF SelectionInv, Rounds
<1>4. Kept' /\ Round(n)'
  BY <1>3, TurnHolds DEF SelectionInv
<1>5. Waiting'
  BY <1>1 DEF SelectionInv, Waiting, Selecting!scanVars
<1>6. Picking' /\ Ended'
  BY <1>1 DEF Picking, Ended
<1>7. Rounds'
  BY <1>4 DEF Rounds
<1> QED
  BY <1>2, <1>4, <1>5, <1>6, <1>7 DEF SelectionInv

LEMMA NextRoundKeeps ==
  ASSUME SelectionInv, Selecting!NextRound
  PROVE  SelectionInv'
<1>1. /\ phase = "rounds" /\ phase' = "rounds"
      /\ UNCHANGED <<table, limits, caller, selected, Selecting!scanVars>>
  BY DEF Selecting!NextRound
<1>2. Framed' /\ Scanned' /\ Heaped'
  BY <1>1, ScanRests
<1>3. PICK n \in Nat : Round(n)
  BY <1>1 DEF SelectionInv, Rounds
<1>4. Round(n + 1)' /\ n + 1 \in Nat
  BY <1>3, RoundFollows DEF SelectionInv
<1>5. Waiting'
  BY <1>1 DEF SelectionInv, Waiting, Selecting!scanVars
<1>6. Picking' /\ Ended'
  BY <1>1 DEF Picking, Ended
<1>7. Rounds'
  BY <1>4 DEF Rounds
<1>8. Kept'
  BY <1>1, NothingTaken DEF SelectionInv
<1> QED
  BY <1>2, <1>5, <1>6, <1>7, <1>8 DEF SelectionInv

LEMMA EndRoundsKeeps ==
  ASSUME SelectionInv, Selecting!EndRounds
  PROVE  SelectionInv'
<1>1. /\ phase = "rounds" /\ phase' = "done"
      /\ UNCHANGED <<table, limits, caller, Selecting!scanVars>>
  BY DEF Selecting!EndRounds
<1>2. Framed' /\ Scanned' /\ Heaped'
  BY <1>1, ScanRests
<1>3. PICK n \in Nat : Round(n)
  BY <1>1 DEF SelectionInv, Rounds
<1>4. Kept' /\ Ended'
  BY <1>3, EndRoundsHolds DEF SelectionInv
<1>5. Waiting' /\ Picking' /\ Rounds'
  BY <1>1 DEF Waiting, Picking, Rounds
<1> QED
  BY <1>2, <1>4, <1>5 DEF SelectionInv

LEMMA ScanningKeeps ==
  ASSUME SelectionInv, Selecting!StartScan \/ Selecting!Fetch \/ Selecting!Consider
  PROVE  SelectionInv'
<1>1. /\ phase \in {"start", "scan"} /\ phase' = "scan"
      /\ UNCHANGED <<table, limits, caller, queue, active, next, selected>>
  BY DEF Selecting!StartScan, Selecting!Fetch, Selecting!Consider, Selecting!roundVars
<1>2. Scanned' /\ Heaped'
  BY StartScanHolds, FetchHolds, ConsiderHolds DEF SelectionInv
<1>3. Framed'
  BY <1>1 DEF SelectionInv, Framed
<1>4. Kept'
  BY <1>1, NothingTaken DEF SelectionInv
<1>5. Waiting'
  BY <1>1 DEF SelectionInv, Waiting
<1>6. Picking' /\ Rounds' /\ Ended'
  BY <1>1 DEF Picking, Rounds, Ended
<1> QED
  BY <1>2, <1>3, <1>4, <1>5, <1>6 DEF SelectionInv

LEMMA RankKeeps ==
  ASSUME SelectionInv, Selecting!Rank
  PROVE  SelectionInv'
<1>1. /\ phase = "scan" /\ phase' = "pick" /\ fetched = {} /\ ~full
      /\ UNCHANGED <<table, limits, caller, queue, active, next, selected, Selecting!scanVars>>
  BY DEF Selecting!Rank, Selecting!roundVars
<1>2. Framed' /\ Scanned' /\ Heaped'
  BY <1>1, ScanRests
<1>3. Kept'
  BY <1>1, NothingTaken DEF SelectionInv
<1>4. Waiting'
  BY <1>1 DEF SelectionInv, Waiting, Selecting!scanVars
<1>5. Picking'
  BY RankHolds DEF SelectionInv
<1>6. Rounds' /\ Ended'
  BY <1>1 DEF Rounds, Ended
<1> QED
  BY <1>2, <1>3, <1>4, <1>5, <1>6 DEF SelectionInv

LEMMA PickKeeps ==
  ASSUME SelectionInv, Selecting!Pick
  PROVE  SelectionInv'
<1>1. /\ phase = "pick" /\ phase' = "pick"
      /\ UNCHANGED <<table, limits, caller, queue, active, next, Selecting!scanVars>>
  BY DEF Selecting!Pick, Selecting!roundVars
<1>2. Framed' /\ Scanned' /\ Heaped'
  BY <1>1, ScanRests
<1>3. Kept' /\ Picking'
  BY PickHolds DEF SelectionInv
<1>4. Waiting'
  BY <1>1 DEF SelectionInv, Waiting, Selecting!scanVars
<1>5. Rounds' /\ Ended'
  BY <1>1 DEF Rounds, Ended
<1> QED
  BY <1>2, <1>3, <1>4, <1>5 DEF SelectionInv

LEMMA EndPickKeeps ==
  ASSUME SelectionInv, Selecting!EndPick
  PROVE  SelectionInv'
<1>1. /\ phase = "pick" /\ phase' = "done"
      /\ UNCHANGED <<table, limits, caller, Selecting!scanVars>>
  BY DEF Selecting!EndPick
<1>2. Framed' /\ Scanned' /\ Heaped'
  BY <1>1, ScanRests
<1>3. Kept' /\ Ended'
  BY EndPickHolds DEF SelectionInv
<1>4. Waiting' /\ Picking' /\ Rounds'
  BY <1>1 DEF Waiting, Picking, Rounds
<1> QED
  BY <1>2, <1>3, <1>4 DEF SelectionInv

\* A step that changes nothing keeps the invariant.
LEMMA SelectionRestsKeeps ==
  ASSUME SelectionInv, UNCHANGED Selecting!vars
  PROVE  SelectionInv'
<1>1. /\ UNCHANGED <<table, limits, caller, phase, queue, active, next, candidates, selected,
                     reserved, cursor, fetched, full, heap, counts, scored>>
      /\ UNCHANGED Selecting!scanVars
  BY DEF Selecting!vars, Selecting!scanVars
<1>2. Framed' /\ Scanned' /\ Heaped'
  BY <1>1, ScanRests DEF SelectionInv, Framed
<1>3. Kept' /\ Selecting!Bytes' = Selecting!Bytes
  BY <1>1, NothingTaken DEF SelectionInv
<1>4. Waiting'
  BY <1>1 DEF SelectionInv, Waiting
<1>5. Picking'
  BY <1>1, <1>3 DEF SelectionInv, Picking, FromScan
<1>6. /\ Selecting!Artifacts' = Selecting!Artifacts
      /\ Selecting!PriorityKey' = Selecting!PriorityKey
      /\ \A a : /\ Selecting!Given(a)' = Selecting!Given(a)
                /\ Selecting!Left(a)' = Selecting!Left(a) /\ LeftOf(a)' = LeftOf(a)
  BY <1>1 DEF Selecting!Artifacts, Selecting!PriorityKey, Selecting!Given, Selecting!Left, LeftOf
<1>7. Rounds'
  <2> SUFFICES ASSUME phase = "rounds" PROVE \E n \in Nat : Round(n)'
    BY <1>1 DEF Rounds
  <2>1. PICK n \in Nat : Round(n)
    BY DEF SelectionInv, Rounds
  <2>2. Round(n)'
    BY <1>1, <1>3, <1>6, <2>1 DEF Round
  <2> QED
    BY <2>2
<1>8. Ended'
  BY <1>1, <1>3, <1>6 DEF SelectionInv, Ended, Selecting!FairShares, Selecting!NothingElseFits
<1> QED
  BY <1>2, <1>3, <1>4, <1>5, <1>7, <1>8 DEF SelectionInv

\* Every step of a selection keeps the invariant.
LEMMA SelectionStep ==
  ASSUME SelectionInv, [Selecting!Next]_(Selecting!vars)
  PROVE  SelectionInv'
BY EverythingKeeps, StartRoundsKeeps, TurnKeeps, NextRoundKeeps, EndRoundsKeeps, ScanningKeeps,
   RankKeeps, PickKeeps, EndPickKeeps, SelectionRestsKeeps DEF Selecting!Next

\* At the end of the scan every row out of the reserve has one entry.
LEMMA AllRowsScored ==
  ASSUME SelectionInv
  PROVE  Selecting!EveryRowConsidered
<1> SUFFICES ASSUME phase = "pick", Selecting!Remaining > 0
             PROVE  /\ {e.row : e \in scored} = table \ reserved
                    /\ Cardinality(scored) = Cardinality(table \ reserved)
  BY SameFinite DEF Selecting!EveryRowConsidered
<1>1. fetched = {} /\ ~full
  BY DEF SelectionInv, Waiting
<1> DEFINE T == table \ reserved
           f == [e \in scored |-> e.row]
<1>2. \A r \in T : \E e \in scored : e.row = r
  BY <1>1 DEF SelectionInv, Scanned
<1>3. \A e \in scored : e.row \in T
  BY DEF SelectionInv, Scanned
<1>4. \A d, e \in scored : d.row = e.row => d = e
  BY DEF SelectionInv, Scanned
<1>5. IsFiniteSet(scored)
  BY DEF SelectionInv, Scanned
<1> HIDE DEF T
<1>6. f \in Surjection(scored, T) /\ f \in Injection(scored, T)
  BY <1>2, <1>3, <1>4 DEF Surjection, Injection, IsInjective
<1> HIDE DEF f
<1>7. Cardinality(T) = Cardinality(scored)
  BY <1>5, <1>6, FS_Surjection
<1>8. {e.row : e \in scored} = T
  BY <1>2, <1>3
<1> QED
  BY <1>7, <1>8 DEF T

\* The invariant implies the types.
LEMMA SelectionIsTyped ==
  ASSUME SelectionInv
  PROVE  Selecting!TypeOK
<1>1. /\ queue \subseteq table
      /\ Selecting!ToSet(active) \cup Selecting!ToSet(next) \subseteq Selecting!Artifacts
  <2>1. CASE phase = "rounds"
    <3>1. PICK n \in Nat : Round(n)
      BY <2>1 DEF SelectionInv, Rounds
    <3>2. \A t \in Seq(Selecting!Artifacts) : Selecting!ToSet(t) \subseteq Selecting!Artifacts
      BY DEF Selecting!ToSet
    <3> QED
      BY <3>1, <3>2 DEF Round
  <2>2. CASE phase \in {"start", "scan", "pick"}
    BY <2>2, NoneTaken DEF SelectionInv, Waiting
  <2>3. CASE phase = "done"
    BY <2>3 DEF SelectionInv, Ended
  <2> QED
    BY <2>1, <2>2, <2>3 DEF SelectionInv, Framed
<1>2. /\ Selecting!ToSet(selected) \subseteq table
      /\ Selecting!Cardinality(Selecting!ToSet(selected)) = Len(selected)
  BY SizeOfDistinct, SameFinite DEF SelectionInv, Kept
<1> QED
  BY <1>1, <1>2 DEF Selecting!TypeOK, SelectionInv, Framed, Scanned, Heaped

\* The invariant implies what is promised of a selection.
LEMMA SelectionInvMeans ==
  ASSUME SelectionInv
  PROVE  /\ Selecting!TypeOK /\ Selecting!WithinLimits /\ Selecting!CountsMatchHeap
         /\ Selecting!EveryRowConsidered /\ Selecting!LeftOutIsWeaker
         /\ Selecting!NothingElseFits /\ Selecting!FairShares
<1>1. Selecting!WithinLimits /\ Selecting!CountsMatchHeap /\ Selecting!LeftOutIsWeaker
  BY DEF SelectionInv, Kept, Heaped
<1>2. Selecting!NothingElseFits
  BY DEF SelectionInv, Ended, Selecting!NothingElseFits
<1>3. Selecting!FairShares
  <2>1. CASE phase = "rounds"
    <3>1. PICK n \in Nat : Round(n)
      BY <2>1 DEF SelectionInv, Rounds
    <3> QED
      BY <3>1, RoundIsFair DEF SelectionInv, Selecting!FairShares, LeftOf
  <2>2. CASE phase \in {"start", "scan", "pick"}
    BY <2>2 DEF SelectionInv, Waiting, Selecting!FairShares
  <2>3. CASE phase = "done"
    BY <2>3 DEF SelectionInv, Ended
  <2> QED
    BY <2>1, <2>2, <2>3 DEF SelectionInv, Framed
<1> QED
  BY <1>1, <1>2, <1>3, AllRowsScored, SelectionIsTyped

\* A selection keeps the best rows within the limits, whatever the rows, the limits and
\* the size of the batches: the scan reads every row once, the counts its scores use
\* are true, no row is left out for a weaker one, what is left would break a limit, and
\* artifacts that take turns stay within one row of each other
\* (select_bounded_evidence, select_bounded_evidence_from_db).
THEOREM BestRowsStay ==
  InvestigationSpec => []BestRowsKept
<1> DEFINE I == part = "selection" => SelectionInv
<1>1. InvestigationInit => I
  BY SelectionBegins DEF InvestigationInit
<1>2. I /\ [InvestigationNext]_<<part, vars, selectionVars, contextVars, searchVars>> => I'
  <2> SUFFICES ASSUME I, [InvestigationNext]_<<part, vars, selectionVars, contextVars, searchVars>>
               PROVE  I'
    OBVIOUS
  <2>1. part' = part
    BY DEF InvestigationNext
  <2>2. part = "selection" => [Selecting!Next]_(Selecting!vars)
    BY DEF InvestigationNext, selectionVars, Selecting!vars
  <2> QED
    BY <2>1, <2>2, SelectionStep
<1>3. I => BestRowsKept
  BY SelectionInvMeans DEF BestRowsKept
<1> HIDE DEF I
<1> QED
  BY <1>1, <1>2, <1>3, PTL DEF InvestigationSpec
=============================================================================
