-------------------------- MODULE UploadNavigation --------------------------
(***************************************************************************)
(* What is on screen while diagnostics are uploaded (router/useRouter.js,  *)
(* App.jsx, CriticalOperationContext.jsx, NewInvestigationPage.jsx and the *)
(* navigation of AppShell.jsx).                                            *)
(*                                                                         *)
(* From the click until the answer of the upload a lock is held: the page  *)
(* must stay, whatever the session, the service or the Back button do.     *)
(* The browser traverses its history first and tells the page afterwards,  *)
(* so the router brings it back with another traversal, asynchronous too;  *)
(* a navigation asked for meanwhile is queued.                             *)
(*                                                                         *)
(* The browser performs traversals one after the other, relative to the    *)
(* entry it is on at that time, as the HTML standard says.  Positions in   *)
(* `entries` stand for the indices the router stores in the entries.       *)
(***************************************************************************)
EXTENDS Integers, Sequences

CONSTANTS
    None, New, Login,   \* no path, /new and /login
    Start, StartPos,    \* the entries of the tab, and the one it is on
    Results,            \* the paths of the analyses that uploads create
    Items,              \* paths of the history list that the visitor may open
    MaxGestures,        \* bound: Back and Forward by the visitor
    MaxNavigations      \* bound: clicks of the visitor that navigate

ASSUME StartAssumption == Start \in Seq({New} \cup Items) /\ StartPos \in 1 .. Len(Start)
ASSUME ResultsAssumption == None \notin Results

VARIABLES
    entries, pos,       \* the browser's session history
    traversals,         \* deltas asked for and not performed
    location,           \* useRouter's state
    blocked,            \* blockPopStateRef
    lockedIndex,        \* lockedIndexRef, 0 for null
    target,             \* correctionTargetIndexRef, 0 when no correction pends
    queued,             \* queuedNavigationRef
    locked,             \* the critical operation's flag
    frozen,             \* frozenPathname
    signedIn, unavailable, leaving, \* the session, the 503 flag, a logout
    reval,              \* the check after an upload: "no", "wanted", "sent" or "stale"
    uploading,          \* the upload in flight, or None
    alive,              \* the page that sent it is still mounted
    results,            \* paths not given to an analysis yet
    gestures, navigations,
    home,               \* the entry to protect: where an upload began, or the last navigation
    checked             \* the service was heard of after the last upload

router == <<entries, pos, traversals, location, blocked, lockedIndex, target, queued>>
auth == <<signedIn, unavailable, leaving, reval, checked>>
upload == <<locked, uploading, results>>
bounds == <<gestures, navigations>>
vars == <<router, auth, upload, bounds, frozen, alive, home>>

Correcting == target # 0

Shell(path) == <<"shell", path>>

\* Mutant: the lock does not keep the page that is shown.
MutView ==
    IF locked \/ reval # "no" THEN Shell(location)
    ELSE IF unavailable THEN <<"unavailable", None>>
    ELSE IF ~signedIn THEN <<"login", None>>
    ELSE Shell(location)

\* What Routes shows.
View ==
    IF locked THEN Shell(frozen)
    ELSE IF reval # "no" THEN Shell(location)
    ELSE IF unavailable THEN <<"unavailable", None>>
    ELSE IF ~signedIn THEN <<"login", None>>
    ELSE Shell(location)

Init ==
    /\ entries = Start /\ pos = StartPos /\ traversals = <<>>
    /\ location = Start[StartPos] /\ frozen = Start[StartPos]
    /\ blocked = FALSE /\ lockedIndex = 0 /\ target = 0 /\ queued = None
    /\ locked = FALSE /\ uploading = None /\ results = Results
    /\ signedIn = TRUE /\ unavailable = FALSE /\ leaving = FALSE
    /\ reval = "no" /\ checked = TRUE
    /\ alive = FALSE /\ home = 0
    /\ gestures = 0 /\ navigations = 0

-----------------------------------------------------------------------------
\* The router.

Push(to) == [to |-> to, replace |-> FALSE]
Replace(to) == [to |-> to, replace |-> TRUE]

\* commitNavigation, with the browser on entry p.
Commit(nav, p) ==
    LET next == IF nav.replace THEN p ELSE p + 1 IN
    IF entries[p] = nav.to
    THEN pos' = p /\ UNCHANGED <<entries, location, lockedIndex>>
    ELSE /\ entries' = IF nav.replace THEN [entries EXCEPT ![p] = nav.to]
                                      ELSE Append(SubSeq(entries, 1, p), nav.to)
         /\ pos' = next
         /\ location' = nav.to
         /\ lockedIndex' = IF blocked THEN next ELSE lockedIndex

\* Mutant: a correction is not waited for.
MutNavigate(nav) ==
    Commit(nav, pos) /\ UNCHANGED <<traversals, blocked, target, queued>>

\* navigate: at once, or when the browser is back.
Navigate(nav) ==
    \/ /\ Correcting
       /\ queued' = nav
       /\ UNCHANGED <<entries, pos, traversals, location, blocked, lockedIndex, target>>
    \/ /\ ~Correcting
       /\ Commit(nav, pos)
       /\ UNCHANGED <<traversals, blocked, target, queued>>

\* history.go: back to the entry the correction is for.
Steer(p) == traversals' = Append(Tail(traversals), target' - p)

\* onPopState on the entry the correction was for.
Arrived(p) ==
    /\ target' = 0 /\ queued' = None
    /\ traversals' = Tail(traversals)
    /\ \/ queued # None /\ Commit(queued, p)
       \/ /\ queued = None /\ pos' = p
          /\ location' = IF blocked THEN location ELSE entries[p]
          /\ lockedIndex' = IF blocked THEN lockedIndex ELSE 0
          /\ UNCHANGED entries
    /\ UNCHANGED blocked

\* onPopState on another one, while a correction pends or a lock is held.
Astray(p) ==
    /\ pos' = p
    /\ target' = IF Correcting THEN target ELSE lockedIndex
    /\ Steer(p)
    /\ UNCHANGED <<entries, location, blocked, lockedIndex, queued>>

\* onPopState when nothing is protected, or on the protected entry itself.
Arrive(p) ==
    /\ pos' = p
    /\ traversals' = Tail(traversals)
    /\ location' = IF blocked /\ lockedIndex # 0 THEN location ELSE entries[p]
    /\ UNCHANGED <<entries, blocked, lockedIndex, target, queued>>

\* The browser performs a traversal; one that leads outside is ignored.
Traverse ==
    /\ traversals # <<>>
    /\ LET p == pos + Head(traversals) IN
       \/ /\ p \notin DOMAIN entries
          /\ traversals' = Tail(traversals)
          /\ UNCHANGED <<entries, pos, location, blocked, lockedIndex, target, queued>>
       \/ p \in DOMAIN entries /\ Correcting /\ p = target /\ Arrived(p)
       \/ p \in DOMAIN entries /\ Correcting /\ p # target /\ Astray(p)
       \/ /\ p \in DOMAIN entries /\ ~Correcting
          /\ blocked /\ lockedIndex \notin {0, p}
          /\ Astray(p)
       \/ /\ p \in DOMAIN entries /\ ~Correcting
          /\ ~blocked \/ lockedIndex \in {0, p}
          /\ Arrive(p)
    /\ UNCHANGED <<auth, upload, bounds>>

\* The visitor presses Back or Forward.
Gesture(delta) ==
    /\ gestures < MaxGestures
    /\ gestures' = gestures + 1
    /\ traversals' = Append(traversals, delta)
    /\ UNCHANGED <<entries, pos, location, blocked, lockedIndex, target, queued>>
    /\ UNCHANGED <<auth, upload, navigations>>

\* The effect of a lock that was released.  The effect of one that is taken
\* runs with the click (StartUpload).
ReleaseLock ==
    /\ blocked /\ ~locked
    /\ blocked' = FALSE
    /\ lockedIndex' = IF Correcting THEN lockedIndex ELSE 0
    /\ UNCHANGED <<entries, pos, traversals, location, target, queued>>
    /\ UNCHANGED <<auth, upload, bounds>>

-----------------------------------------------------------------------------
\* The visitor and the upload.

\* handleNavigate of the shell.
OpenPage(to) ==
    /\ View[1] = "shell" /\ ~locked
    /\ ~(to = New /\ location = New)
    /\ navigations < MaxNavigations
    /\ navigations' = navigations + 1
    /\ Navigate(Push(to))
    /\ UNCHANGED <<auth, upload, gestures>>

\* AppShell leaves a path that is not one of its own.
RedirectUnknown ==
    /\ View = Shell(Login)
    /\ Navigate(Replace(New))
    /\ UNCHANGED <<auth, upload, bounds>>

\* startInvestigation up to the request.
StartUpload ==
    /\ View = Shell(New) /\ uploading = None /\ ~blocked
    /\ \E path \in results :
          uploading' = path /\ results' = results \ {path}
    /\ locked' = TRUE /\ blocked' = TRUE
    /\ lockedIndex' = IF Correcting THEN lockedIndex ELSE pos
    /\ UNCHANGED <<entries, pos, traversals, location, target, queued>>
    /\ UNCHANGED <<auth, bounds>>

\* The render that sees the lock released: a 503 heard of before is checked.
Release == /\ locked' = FALSE /\ uploading' = None
           /\ reval' = IF unavailable /\ reval = "no" THEN "wanted" ELSE reval
           /\ checked' = ~unavailable
           /\ UNCHANGED <<signedIn, unavailable, leaving, results>>

UploadSucceeds ==
    /\ uploading # None
    /\ IF alive THEN Navigate(Push(uploading)) ELSE UNCHANGED router
    /\ Release
    /\ UNCHANGED bounds

UploadFails == /\ uploading # None
               /\ Release
               /\ UNCHANGED <<router, bounds>>

-----------------------------------------------------------------------------
\* The session and the service, whose takeovers the lock defers.

Stale(r) == IF r = "sent" THEN "stale" ELSE r

\* handleLogout; its wait for the server may outlast the start of an upload.
LogOut == /\ View[1] = "shell" /\ ~locked
          /\ signedIn /\ ~leaving
          /\ leaving' = TRUE
          /\ reval' = Stale(reval)
          /\ UNCHANGED <<signedIn, unavailable, checked>>
          /\ UNCHANGED <<router, upload, bounds>>

LoggedOut == /\ leaving
             /\ leaving' = FALSE /\ signedIn' = FALSE
             /\ Navigate(Replace(Login))
             /\ UNCHANGED <<unavailable, reval, checked>>
             /\ UNCHANGED <<upload, bounds>>

\* devflo:session-expired, from any request.
SessionExpires == /\ signedIn
                  /\ signedIn' = FALSE
                  /\ reval' = Stale(reval)
                  /\ UNCHANGED <<unavailable, leaving, checked>>
                  /\ UNCHANGED <<router, upload, bounds>>

\* devflo:service-unavailable, from any request.
ServiceFails == /\ ~unavailable
                /\ unavailable' = TRUE
                /\ checked' = (checked \/ ~locked)
                /\ UNCHANGED <<signedIn, leaving, reval>>
                /\ UNCHANGED <<router, upload, bounds>>

\* The effect that asks for the one check after the upload.
Revalidate == /\ reval = "wanted"
              /\ reval' = "sent"
              /\ UNCHANGED <<signedIn, unavailable, leaving, checked>>
              /\ UNCHANGED <<router, upload, bounds>>

\* refreshSession's outcome.  When the session has expired the client reports
\* that first, and the outcome is dropped.
Answered ==
    \/ signedIn' = TRUE /\ unavailable' = FALSE
    \/ signedIn' = FALSE /\ unavailable' = FALSE
    \/ unavailable' = TRUE /\ UNCHANGED signedIn
    \/ signedIn' = FALSE /\ UNCHANGED unavailable

Revalidated == /\ \/ reval = "sent" /\ Answered
                  \/ reval = "stale" /\ UNCHANGED <<signedIn, unavailable>>
               /\ reval' = "no"
               /\ checked' = TRUE
               /\ UNCHANGED leaving
               /\ UNCHANGED <<router, upload, bounds>>

\* The button of the page that says the service is unavailable.
Retry == /\ View[1] = "unavailable"
         /\ Answered
         /\ UNCHANGED <<leaving, reval, checked>>
         /\ UNCHANGED <<router, upload, bounds>>

-----------------------------------------------------------------------------

Starts == uploading = None /\ uploading' # None

\* Routes renders after each step: it follows the location unless the lock is
\* held, and what it no longer shows is unmounted.

Render ==
    /\ frozen' = IF locked' THEN frozen ELSE location'
    /\ home' = IF (~Correcting /\ Starts) \/ location' # location \/ (Correcting /\ ~Correcting')
               THEN pos' ELSE home
    /\ alive' = \/ Starts
                \/ alive /\ uploading' # None /\ View' = Shell(New)

Step == \/ Traverse
        \/ \E delta \in {-1, 1} : Gesture(delta)
        \/ ReleaseLock
        \/ \E to \in Items \cup {New} : OpenPage(to)
        \/ RedirectUnknown
        \/ StartUpload \/ UploadSucceeds \/ UploadFails
        \/ LogOut \/ LoggedOut \/ SessionExpires \/ ServiceFails
        \/ Revalidate \/ Revalidated \/ Retry

Next == Step /\ Render

Spec == Init /\ [][Next]_vars

\* The browser performs what it was asked, and effects run.
Fairness == WF_vars(Traverse /\ Render) /\ WF_vars(ReleaseLock /\ Render)
FairSpec == Spec /\ Fairness

-----------------------------------------------------------------------------

Paths == {New, Login} \cup Items \cup Results

\* An index that is not used any more may be of an entry that is gone.
TypeOK ==
    /\ entries \in Seq(Paths) /\ pos \in DOMAIN entries
    /\ traversals \in Seq(Int)
    /\ location \in Paths /\ frozen \in Paths
    /\ lockedIndex \in Nat /\ target \in Nat
    /\ queued \in {None} \cup [to : Paths, replace : BOOLEAN]
    /\ uploading \in {None} \cup Results /\ results \subseteq Results
    /\ locked = (uploading # None)
    /\ reval \in {"no", "wanted", "sent", "stale"}

\* From the click to the answer, the page that uploads stays mounted and on
\* screen: no gesture, expiry, outage, logout or queued navigation replaces it
\* (App.jsx and the guards of AppShell).
UploadKeepsItsPage == locked => alive /\ View = Shell(New)

\* While the lock is held or the browser is being brought back, the history
\* changes only on the protected entry: nothing is pushed from an entry the
\* browser passes through, which would cut off the entries after it
\* (commitNavigation and the queue of navigate).
CommitsHome ==
    entries' # entries /\ (locked \/ Correcting) =>
       /\ SubSeq(entries', 1, home - 1) = SubSeq(entries, 1, home - 1)
       /\ pos' \in {home, home + 1}
CommitsAtHome == [][CommitsHome]_vars

\* When nothing is under way, the screen shows the entry the browser is on
\* (onPopState and the release of the lock).
AddressIsShown ==
    ~locked /\ ~blocked /\ ~Correcting /\ traversals = <<>> => location = entries[pos]

\* The page that says the service is unavailable is never shown for an answer
\* that came during an upload and was not checked since (App.jsx).  A check
\* whose answer is dropped because the session expired counts as one here.
NoStaleTakeover == View[1] = "unavailable" => checked

\* The page of an upload is not taken over: it stays mounted and on screen till
\* the answer, no outage that was not checked since replaces a page, and when
\* nothing is under way the address is the one that is shown (App.jsx, useRouter.js).
TakeoversWait ==
    TypeOK /\ UploadKeepsItsPage /\ NoStaleTakeover /\ AddressIsShown

\* The lock is released in the render that leaves the page: its controls are
\* never enabled again while the handoff is still to come
\* (NewInvestigationPage.startInvestigation).
HandoffWithRelease ==
    ~(~locked /\ View = Shell(New) /\ queued # None /\ queued.to \in Results)

\* Back and Forward are "bounced back to the history entry where the lock began"
\* (useRouter.js, on blockPopState), and with that a queued navigation is
\* performed.  The code does not keep this promise: with two entries on both sides
\* of the protected one, two corrections that are under way at the same time can
\* overshoot in turn for ever (onPopState).
CorrectionEnds == Correcting ~> ~Correcting
=============================================================================
