------------------------------ MODULE MCPages ------------------------------
(***************************************************************************)
(* Two pages of the browser for TLC: the one that uploads, with the        *)
(* history around it, and one that watches an analysis of which no event   *)
(* is published.  A behaviour is one of a single part; the variables of    *)
(* the other stay where they began.                                        *)
(***************************************************************************)
EXTENDS MCUploadNavigation

CONSTANTS Parts         \* the parts of this run

VARIABLES
    part,
    row, workers, streams, page, post       \* LivePage

pageVars == <<row, workers, streams, page, post>>

Page == INSTANCE LivePage WITH Top <- 1, MaxPublishes <- 0, MaxGiveUps <- 1

\* While one uploads the other stays at one of its beginnings.
PagesInit == /\ part \in Parts
             /\ Init /\ Page!Init
             /\ part = "upload" => row.status = "pending"

PagesNext == /\ UNCHANGED part
             /\ \/ part = "upload" /\ Next /\ UNCHANGED pageVars
                \/ part = "watch" /\ Page!Next /\ UNCHANGED vars

\* The fairness of LivePage: timers run out, and a request that is repeated for
\* ever does not always fail.
PagesSpec ==
    /\ PagesInit /\ [][PagesNext]_<<part, vars, pageVars>>
    /\ \A c \in {"initial", "reconnect", "durable"} :
          /\ WF_pageVars(part = "watch" /\ Page!TimerFires(c))
          /\ WF_pageVars(part = "watch" /\ Page!Arrives(c))
          /\ SF_pageVars(part = "watch" /\ Page!Serve(c))
          /\ SF_pageVars(part = "watch" /\ Page!ArrivesWell(c))

-----------------------------------------------------------------------------
(* Properties                                                              *)

\* A live page comes to show the outcome of its analysis although no event of it
\* is ever published: the periodic check finds it (AnalysisPage.jsx).
EventuallyShown == part = "watch" => Page!EventuallyShown
=============================================================================
