---------------------------- MODULE PrefixSearch ----------------------------
(***************************************************************************)
(* The search for the longest prefix of a list that a context has room for *)
(* (_largest_prefix_that_fits in services/investigation_context.py).  The  *)
(* list is replaced by a prefix, the whole context is serialised and       *)
(* measured, and the bounds of a bisection move.  What counts is the       *)
(* prefix that is in the context when the search returns.                  *)
(*                                                                         *)
(* size[n] is the size of the context with the first n items; it does not  *)
(* fall when an item is added.                                             *)
(***************************************************************************)
EXTENDS Integers

CONSTANTS
    Items,        \* the number of items in the list
    Budget,       \* CORRELATED_GEMINI_CONTEXT_MAX_BYTES
    SizeValues    \* the sizes a context may have

\* What the constants must satisfy.
SearchAssumption == Items \in Nat /\ Budget \in Nat /\ SizeValues \subseteq Nat

VARIABLES
    size,       \* prefix length -> size of the context
    assigned,   \* the length of the prefix that is in the context
    low, high,  \* the bounds of the search
    phase       \* "start", "search" or "done"

vars == <<size, assigned, low, high, phase>>

Growing(f) == \A i, j \in 0 .. Items : i <= j => f[i] <= f[j]
Fits(n) == size[n] <= Budget

Init == /\ size \in [0 .. Items -> SizeValues]
        /\ Growing(size)
        /\ assigned = Items
        /\ low = 0
        /\ high = Items
        /\ phase = "start"

\* The empty list, and the context that is too large without the list.
NothingFits ==
    /\ phase = "start"
    /\ Items = 0 \/ ~Fits(0)
    /\ assigned' = 0
    /\ phase' = "done"
    /\ UNCHANGED <<size, low, high>>

Start == /\ phase = "start"
         /\ Items # 0 /\ Fits(0)
         /\ assigned' = 0
         /\ phase' = "search"
         /\ UNCHANGED <<size, low, high>>

Middle == (low + high + 1) \div 2

\* One turn of the loop: the middle prefix is put in and measured.
Halve ==
    /\ phase = "search"
    /\ low < high
    /\ assigned' = Middle
    /\ IF Fits(Middle) THEN low' = Middle /\ high' = high
                       ELSE high' = Middle - 1 /\ low' = low
    /\ UNCHANGED <<size, phase>>

\* The last prefix measured may not be the one found: it is put in again.
Finish ==
    /\ phase = "search"
    /\ low >= high
    /\ assigned' = low
    /\ phase' = "done"
    /\ UNCHANGED <<size, low, high>>

Next == NothingFits \/ Start \/ Halve \/ Finish

Spec == Init /\ [][Next]_vars

-----------------------------------------------------------------------------

\* The bounds stay within the list, in order.
TypeOK == /\ size \in [0 .. Items -> SizeValues]
          /\ assigned \in 0 .. Items
          /\ low \in 0 .. Items /\ high \in 0 .. Items /\ low <= high
          /\ phase \in {"start", "search", "done"}

\* What the search leaves in the context fits, if anything does, and no longer
\* prefix would: neither the context is sent too large nor an item is dropped
\* that had room.
LongestThatFits ==
    phase = "done" =>
        /\ Fits(assigned) \/ assigned = 0
        /\ \A n \in assigned + 1 .. Items : ~Fits(n)

=============================================================================
