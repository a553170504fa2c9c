------------------------- MODULE MCUploadNavigation -------------------------
(***************************************************************************)
(* A small instance of UploadNavigation for TLC.                           *)
(***************************************************************************)
EXTENDS UploadNavigation

CONSTANTS a, b

\* The visitor has come to /new with Back: entries on both sides of it.  Two
\* before it let a second gesture meet a correction that is under way.
StartEntries == <<a, b, New, a>>

\* Two entries on both sides: no correction that overshoots leaves the history.
ChaseEntries == <<a, b, New, a, b>>
=============================================================================
