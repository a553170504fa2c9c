----------------------------- MODULE LlmContext -----------------------------
(***************************************************************************)
(* What a correlated investigation tells the model                         *)
(* (services/investigation_context.py: the primary component, the status   *)
(* of every artifact, build_llm_context and the enforcement of its byte    *)
(* budget).                                                                *)
(*                                                                         *)
(* Of the groups that the correlation found, one is told: the one of most  *)
(* artifacts, then most nodes.  The context made of it is cut to a budget, *)
(* list by list, the less important first; the flags and instructions      *)
(* beside the lists must then be true of what is left.                     *)
(*                                                                         *)
(* A cut keeps a prefix of a list, and a list is here the sequence of the  *)
(* sizes of its prefixes: with its first item, with two, and so on.  How   *)
(* long a prefix fits is found by the search of module PrefixSearch; here  *)
(* it is its result.                                                       *)
(***************************************************************************)
EXTENDS Integers, Sequences, FiniteSets, FiniteSetsExt

CONSTANTS
    None,            \* no group, no value
    Groupings,       \* the results of a correlation to try: sets of groups
    Contexts,        \* the lists and sizes to try
    Budget,          \* CORRELATED_GEMINI_CONTEXT_MAX_BYTES
    FallbackBudget   \* SIMPLE_FALLBACK_MAX_TOTAL_CONTEXT_BYTES

\* What the constants must satisfy: groups are finite, and none is empty.
ContextAssumption ==
    /\ Budget \in Nat /\ FallbackBudget \in Nat
    /\ \A all \in Groupings :
          /\ IsFiniteSet(all) /\ None \notin all
          /\ \A g \in all : IsFiniteSet(g) /\ g # {} /\ \A n \in g : n.key \in Int
    /\ \A c \in Contexts :
          /\ c.rest \in Nat /\ c.instruction \in Nat /\ c.texts \in Seq(Nat)
          /\ \A l \in {"associations", "propagation", "artifacts", "rootEvidence"} :
                c[l] \in Seq(Nat)

VARIABLES
    groups,      \* the correlation's groups: sets of nodes [artifact, key]
    given,       \* what there is to tell: the lists, the texts, the rest's size
    primary,     \* the group told, or None
    status,      \* artifact -> its relationship status
    entries,     \* the texts taken, with the bytes of those up to it
    read,        \* how many texts were looked at
    kept,        \* list -> how many of its items the context has
    directed,    \* has_directed_relationships
    told,        \* context_truncated
    instructed,  \* causal_language_instruction is in the context
    pc           \* the next step, or "done"

vars == <<groups, given, primary, status, entries, read, kept, directed, told,
          instructed, pc>>
context == <<kept, directed, told, instructed>>
texts == <<entries, read>>

-----------------------------------------------------------------------------
(* The primary group and the statuses.                                      *)

Before(a, b) == \E i \in 1 .. Len(a) : /\ a[i] < b[i]
                                       /\ \A j \in 1 .. i - 1 : a[j] = b[j]

ArtifactsOf(group) == {n.artifact : n \in group}
GroupKey(group) == <<-Cardinality(ArtifactsOf(group)), -Cardinality(group),
                     Min({n.key : n \in group})>>

\* _select_primary_component: none when the best group is a single node.
Best(all) == CHOOSE g \in all : \A h \in all : ~Before(GroupKey(h), GroupKey(g))
SelectPrimary(all) ==
    IF all = {} THEN None
    ELSE IF Cardinality(Best(all)) <= 1 THEN None ELSE Best(all)

NodesOf(a, nodes) == Cardinality({n \in nodes : n.artifact = a})

Statuses(all, first) ==
    IF first = None THEN <<>>
    ELSE [a \in UNION {ArtifactsOf(g) : g \in all} |->
             LET linked == NodesOf(a, first)
             IN IF linked = 0 THEN "not_linked"
                ELSE IF linked = NodesOf(a, UNION all) THEN "linked"
                ELSE "partially_linked"]

-----------------------------------------------------------------------------
(* Sizes.                                                                   *)

Lists == {"associations", "propagation", "supplemental", "artifacts", "rootEvidence"}
OfComponent == {"associations", "propagation", "rootEvidence"}

Items(list) ==
    IF list \in OfComponent /\ primary = None THEN <<>>
    ELSE IF list = "supplemental" THEN [i \in 1 .. Len(entries) |-> entries[i].upto]
    ELSE given[list]

\* The size of the first n items of a list.
UpTo(list, n) == IF n = 0 THEN 0 ELSE Items(list)[n]

\* The size of the context with counts[l] items of each list l, without the
\* instruction against causal wording.
Size(counts) ==
    given.rest
    + UpTo("associations", counts["associations"]) + UpTo("propagation", counts["propagation"])
    + UpTo("supplemental", counts["supplemental"]) + UpTo("artifacts", counts["artifacts"])
    + UpTo("rootEvidence", counts["rootEvidence"])

\* What is measured, with that instruction when it is there already.
Measured(counts) == Size(counts) + IF instructed THEN given.instruction ELSE 0
Fits(counts) == Measured(counts) <= Budget

\* _largest_prefix_that_fits.
Longest(list) ==
    Max({0} \cup {n \in 0 .. kept[list] : Fits([kept EXCEPT ![list] = n])})

-----------------------------------------------------------------------------

Init == /\ groups \in Groupings
        /\ given \in Contexts
        /\ primary = None
        /\ status = <<>>
        /\ entries = <<>> /\ read = 0
        /\ kept = [l \in Lists |-> 0]
        /\ directed = FALSE
        /\ told = FALSE
        /\ instructed = FALSE
        /\ pc = "select"

Select == /\ pc = "select"
          /\ primary' = SelectPrimary(groups)
          /\ status' = Statuses(groups, primary')
          /\ pc' = "build"
          /\ UNCHANGED <<groups, given, texts, context>>

Whole(l) == Len(Items(l))

Build == /\ pc = "build"
         /\ kept' = [l \in Lists |-> Whole(l)]
         /\ directed' = (Items("propagation") # <<>>)
         /\ instructed' = ~directed'
         /\ pc' = "texts"
         /\ UNCHANGED <<groups, given, primary, status, texts, told>>

\* _bounded_fallback_context_list: the texts in order, those that fit; the first
\* always.
Collected == UpTo("supplemental", Len(entries))
HasRoom(text) == entries = <<>> \/ Collected + text <= FallbackBudget

TakeText ==
    /\ pc = "texts" /\ read < Len(given.texts)
    /\ HasRoom(given.texts[read + 1])
    /\ entries' = Append(entries, [text |-> read + 1,
                                  upto |-> Collected + given.texts[read + 1]])
    /\ read' = read + 1
    /\ kept' = [kept EXCEPT !["supplemental"] = @ + 1]
    /\ UNCHANGED <<groups, given, primary, status, directed, told, instructed, pc>>

SkipText ==
    /\ pc = "texts" /\ read < Len(given.texts)
    /\ ~HasRoom(given.texts[read + 1])
    /\ read' = read + 1
    /\ UNCHANGED <<groups, given, primary, status, entries, context, pc>>

TextsRead == pc = "texts" /\ read = Len(given.texts)

\* _enforce_correlated_context_byte_budget: nothing to do.
WithinAlready == /\ TextsRead
                 /\ Fits(kept)
                 /\ pc' = "done"
                 /\ UNCHANGED <<groups, given, primary, status, texts, context>>

FirstCut == IF primary # None THEN "associations" ELSE "supplemental"

StartCutting == /\ TextsRead
                /\ ~Fits(kept)
                /\ told' = TRUE
                /\ pc' = FirstCut
                /\ UNCHANGED <<groups, given, primary, status, texts, kept, directed, instructed>>

\* The associations are enough: the flags are true already.
CutAssociations ==
    /\ pc = "associations"
    /\ kept' = [kept EXCEPT !["associations"] = Longest("associations")]
    /\ pc' = IF Fits(kept') THEN "done" ELSE "propagation"
    /\ UNCHANGED <<groups, given, primary, status, texts, directed, told, instructed>>

CutPropagation ==
    /\ pc = "propagation"
    /\ kept' = [kept EXCEPT !["propagation"] = Longest("propagation")]
    /\ pc' = "supplemental"
    /\ UNCHANGED <<groups, given, primary, status, texts, directed, told, instructed>>

After == [l \in {"supplemental", "artifacts"} |->
             IF l = "supplemental" THEN "artifacts" ELSE "rootEvidence"]

\* The lists beside the component, while the context is too large.
CutTopList ==
    /\ pc \in {"supplemental", "artifacts"}
    /\ kept' = IF Fits(kept) THEN kept ELSE [kept EXCEPT ![pc] = Longest(pc)]
    /\ pc' = After[pc]
    /\ UNCHANGED <<groups, given, primary, status, texts, directed, told, instructed>>

CutRootEvidence ==
    /\ pc = "rootEvidence"
    /\ kept' = IF Fits(kept) THEN kept
               ELSE [kept EXCEPT !["rootEvidence"] = Longest("rootEvidence")]
    /\ pc' = "conclude"
    /\ UNCHANGED <<groups, given, primary, status, texts, directed, told, instructed>>

\* Mutant: the flag is not computed again.
MutConclude == /\ pc = "conclude"
               /\ pc' = "done"
               /\ UNCHANGED <<groups, given, primary, status, texts, context>>

\* The cuts may have taken every directed relationship: the flag is computed
\* again, and the instruction added when there is none left.
Conclude == /\ pc = "conclude"
            /\ directed' = (kept["propagation"] > 0)
            /\ instructed' = (instructed \/ ~directed')
            /\ pc' = "done"
            /\ UNCHANGED <<groups, given, primary, status, texts, kept, told>>

Next == \/ Select \/ Build \/ TakeText \/ SkipText \/ WithinAlready \/ StartCutting
        \/ CutAssociations \/ CutPropagation \/ CutTopList \/ CutRootEvidence
        \/ Conclude

Spec == Init /\ [][Next]_vars

-----------------------------------------------------------------------------
(* Properties.                                                              *)

\* A list never has more items in the context than there are.
TypeOK ==
    /\ primary \in groups \cup {None}
    /\ entries \in Seq([text : Nat, upto : Nat]) /\ read \in 0 .. Len(given.texts)
    /\ kept \in [Lists -> Nat]
    /\ \A l \in Lists : kept[l] <= Len(Items(l))
    /\ directed \in BOOLEAN /\ told \in BOOLEAN /\ instructed \in BOOLEAN
    /\ pc \in Lists \cup {"select", "build", "texts", "conclude", "done"}

\* A group is told whenever two nodes are related at all, and no group spans
\* more artifacts than the one told (_select_primary_component looks at the
\* best group only, and gives up when that is a single node).
PrimaryWhenRelated ==
    pc # "select" =>
        /\ primary = None <=> \A g \in groups : Cardinality(g) <= 1
        /\ primary # None => \A g \in groups :
              Cardinality(ArtifactsOf(g)) <= Cardinality(ArtifactsOf(primary))

\* The size the cuts work on: without the instruction the last step may add.
SizeForCuts(counts) ==
    Size(counts) + IF Items("propagation") = <<>> THEN given.instruction ELSE 0

\* The context is within the budget when it is sent, or nothing is left in the
\* lists that may be cut.
WithinBudget ==
    pc = "done" => SizeForCuts(kept) <= Budget \/ \A l \in Lists : kept[l] = 0

\* A list is shortened only when every less important list is empty; the
\* evidence of the roots goes last.
Importance == <<"associations", "propagation", "supplemental", "artifacts", "rootEvidence">>

CutInOrder ==
    pc = "done" =>
        \A i \in 1 .. 5 : kept[Importance[i]] < Whole(Importance[i]) =>
            \A j \in 1 .. i - 1 : kept[Importance[j]] = 0

\* The last list that was shortened could not have kept one item more.
Shortened(i) == kept[Importance[i]] < Whole(Importance[i])

NoItemWasted ==
    pc = "done" =>
        \A i \in 1 .. 5 : Shortened(i) /\ (\A j \in i + 1 .. 5 : ~Shortened(j)) =>
            SizeForCuts([kept EXCEPT ![Importance[i]] = @ + 1]) > Budget

\* The reader of a shortened context is told so.
TruncationTold ==
    pc = "done" => ((\E l \in Lists : kept[l] < Whole(l)) => told)

\* The flag and the instruction agree with the relationships that are left: a
\* context without a directed one forbids causal wording, one with does not.
DirectedTold ==
    pc = "done" => /\ directed <=> kept["propagation"] > 0
                   /\ instructed <=> ~directed

\* Of the texts no parser could structure, one is left out only when it would
\* pass the limit, and the limit is passed only by a single text.
FallbackWithinBudget ==
    /\ Len(entries) > 1 => Collected <= FallbackBudget
    /\ \A t \in 1 .. read : \/ \E i \in DOMAIN entries : entries[i].text = t
                            \/ Collected + given.texts[t] > FallbackBudget
=============================================================================
