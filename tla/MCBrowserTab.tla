--------------------------- MODULE MCBrowserTab ---------------------------
(***************************************************************************)
(* A browser tab for the model checker: two accounts and two calls at the  *)
(* same time; two analyses, one in a page of the list, of which the second *)
(* may exist already or be created; and three requests for a page of the   *)
(* list, so that a refresh overtakes the next page.                        *)
(***************************************************************************)
EXTENDS BrowserTab, Sequences, TLC

CONSTANTS a, b, c1, c2

TabStarts == {<<"pending", y>> : y \in {"none", "processing"}}

\* Accounts are interchangeable, and so are calls.
TabSymmetry == Permutations(Accounts) \cup Permutations(Calls)
=============================================================================
