----------------------------- MODULE BrowserTab -----------------------------
(***************************************************************************)
(* What a browser tab keeps of the server: its session, and the list of    *)
(* analyses beside every page.  Neither reads the other's state, so a      *)
(* behaviour here is one of a single part; the variables of the other stay *)
(* where they began, or 0.                                                 *)
(***************************************************************************)
EXTENDS BrowserSession

CONSTANTS
    Parts,      \* the parts that are looked at
    None, N, Limit, Starts, Visited, MaxRequests    \* HistoryList

VARIABLES
    part,
    analyses, list, cursor, live, cancelled, requests, latest,
    loading, loadingMore, error, page       \* HistoryList

listVars == <<analyses, list, cursor, live, cancelled, requests, latest,
              loading, loadingMore, error, page>>

List == INSTANCE HistoryList WITH status <- analyses

\* What the constants must satisfy.
ASSUME TabAssumption == BrowserAssumption /\ List!HistoryAssumption

ListRests == /\ analyses = 0 /\ list = 0 /\ cursor = 0 /\ live = 0 /\ cancelled = 0
             /\ requests = 0 /\ latest = 0 /\ loading = 0 /\ loadingMore = 0
             /\ error = 0 /\ page = 0
TabRests == /\ jar = 0 /\ handoff = 0 /\ calls = 0 /\ refresh = 0 /\ login = 0 /\ logout = 0
            /\ logoutPending = 0 /\ status = 0 /\ user = 0 /\ unavailable = 0
            /\ loggedOut = 0 /\ overtaken = 0

TabInit == /\ part \in Parts
           /\ IF part = "session" THEN Init /\ ListRests ELSE TabRests /\ List!Init

TabNext == /\ UNCHANGED part
           /\ \/ part = "session" /\ Next /\ UNCHANGED listVars
              \/ part = "list" /\ List!Next /\ UNCHANGED vars

TabSpec == TabInit /\ [][TabNext]_<<part, vars, listVars>>

-----------------------------------------------------------------------------
(* Properties                                                              *)

\* The list shows every analysis once and newest first and leaves none out down
\* to the cursor, never one that was cancelled in this tab, and never one as
\* running that the open page reported as ended, and it does not seem to load for
\* ever, whatever order the answers come in
\* (get_analysis_history, loadHistory, handleSettled, handleCancelled).
ListIsTrue ==
    part = "list" => /\ List!TypeOK /\ List!ListIsWhole /\ List!CancelledStaysAway
                     /\ List!EndIsKnown /\ List!LoadingIsUnderWay

\* An analysis that is shown as ended is shown so as long as it is listed: a
\* report that the page heard before and makes after loses (reconcileStatus).
EndedStaysEnded == [][part = "list" => List!EndSurvives]_listVars

\* After a logout that succeeded nothing brings a session back until one is
\* asked for (client.js:106).
LogoutHolds == part = "session" => TypeOK /\ LogoutIsLast

\* The user that is shown owns the session cookies, or the request that will
\* show their owner, or a logout, is under way (client.js:101).
OwnerIsShown == part = "session" => ShownUserOwnsSession

\* A call of a page ends the session on the screen only when the server no
\* longer honours the cookies; a late answer of an earlier session never ends
\* the one that replaced it (client.js:126).
OnlyDeadExpire == [][part = "session" => NoLiveSessionExpires]_vars
=============================================================================
