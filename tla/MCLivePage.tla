----------------------------- MODULE MCLivePage -----------------------------
(***************************************************************************)
(* Small instances of LivePage for TLC.                                    *)
(***************************************************************************)
EXTENDS LivePage

=============================================================================
