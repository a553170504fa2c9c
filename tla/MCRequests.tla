---------------------------- MODULE MCRequests ----------------------------
(***************************************************************************)
(* Requests for the model checker: two at the same time; one address, and  *)
(* as many passwords as contents of files, so that a reset can follow a    *)
(* reset and the cleanup can delete an account nobody verified; and bodies *)
(* of up to three messages of one to three bytes around a limit of four.   *)
(***************************************************************************)
EXTENDS ServerRequests, Sequences, TLC

CONSTANTS r1, r2, d1, d2

SmallBodies ==
    {<<>>} \cup {<<x>> : x \in 1 .. 3}
    \cup {<<x, x + y>> : x, y \in 1 .. 3} \cup {<<x, x + y, x + y + z>> : x, y, z \in 1 .. 3}

\* Requests are interchangeable, and so are contents, or passwords.
RequestSymmetry == Permutations(Requests) \cup Permutations(Digests)
=============================================================================
