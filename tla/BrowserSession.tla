--------------------------- MODULE BrowserSession ---------------------------
(***************************************************************************)
(* The session as one browser tab sees it: the calls of the API client with *)
(* their one refresh and retry, login, logout and the verification poll,   *)
(* and the state of AuthContext (frontend/src/api/client.js, api/auth.js,  *)
(* context/AuthContext.jsx, pages/SignupPage.jsx).  Answers arrive in any  *)
(* order; a cookie is the browser's when the answer that sets it arrives.  *)
(*                                                                         *)
(* The code compares the epoch a call began in with sessionEpoch, and the  *)
(* number of a session request with sessionRequestRef.  Only equality      *)
(* matters, so each call has the results: cur (the epoch has not changed)  *)
(* and latest (no session request has begun since).                        *)
(***************************************************************************)
EXTENDS Naturals, FiniteSets

CONSTANTS
    Accounts,
    Calls,      \* bound: GET requests under way at the same time
    Nobody

\* What the constants must satisfy.
BrowserAssumption == Nobody \notin Accounts

VARIABLES
    jar,        \* the session cookies: whose, whether the access cookie is
                \* there, whether the server honours their version
    handoff,    \* whose hand-off cookie there is, and the poll that uses it
    calls,      \* calls[c]: a call of request()
    refresh,    \* refreshPromise: idle, or the refresh under way; cur: no login
                \* has been answered since it was sent (history)
    login, logout,  \* the request of the login form and of the logout
    logoutPending, status, user, unavailable,
    loggedOut,  \* a logout succeeded, no poll crossed it, and no session was asked
                \* for since (history)
    overtaken   \* the cookies came with a poll whose page was gone, or with a
                \* refresh that was sent before the last login (history)

vars == <<jar, handoff, calls, refresh, login, logout, logoutPending, status, user,
          unavailable, loggedOut, overtaken>>
shown == <<status, user, unavailable>>

NoCookie == [owner |-> Nobody, access |-> FALSE, live |-> FALSE]
Session(a) == [owner |-> a, access |-> TRUE, live |-> TRUE]

Idle == [pc |-> "idle", kind |-> "none", cur |-> FALSE, latest |-> FALSE,
         cookie |-> NoCookie, answer |-> 0]

\* Only the session requests are numbered.
Sent(kind, cookie) == [pc |-> "sent", kind |-> kind, cur |-> TRUE, latest |-> kind # "page",
                       cookie |-> cookie, answer |-> 0]
Free == {c \in Calls : calls[c].pc = "idle"}

\* sessionEpoch += 1 and sessionRequestRef.current += 1.
NewEpoch(cs)   == [c \in Calls |-> [cs[c] EXCEPT !.cur = FALSE]]
NewRequest(cs) == [c \in Calls |-> [cs[c] EXCEPT !.latest = FALSE]]

-----------------------------------------------------------------------------
(* What the server answers; 0 is no answer, 503 a database that is down.   *)

GetAnswers(k) ==
    {0} \cup (IF k.access THEN {503} ELSE {})
        \cup (IF k.access /\ k.live THEN {200} ELSE {401})

\* /auth/refresh; a refresh that is refused takes the cookies away.
RefreshAnswers(k) ==
    {0} \cup (IF k.owner # Nobody THEN {503} ELSE {})
        \cup (IF k.live THEN {200} ELSE {401})

SetByRefresh(answer) ==
    IF answer = 200 THEN Session(refresh.cookie.owner)
    ELSE IF answer = 401 THEN NoCookie ELSE jar

-----------------------------------------------------------------------------
Init ==
    /\ \E a \in Accounts, h \in Accounts \cup {Nobody}, c \in Calls :
         /\ jar \in {NoCookie, Session(a), [Session(a) EXCEPT !.access = FALSE]}
         /\ handoff = [pc |-> "idle", owner |-> h, page |-> FALSE, cookie |-> Nobody]
         /\ calls = [d \in Calls |-> IF d = c THEN Sent("mount", jar) ELSE Idle]
    /\ refresh = [pc |-> "idle", cookie |-> NoCookie, cur |-> TRUE]
    /\ login = Nobody /\ logout = "idle" /\ logoutPending = FALSE
    /\ status = "loading" /\ user = Nobody /\ unavailable = FALSE
    /\ loggedOut = FALSE /\ overtaken = FALSE

\* A page of the application asks for something.
SendPage(c) ==
    /\ c \in Free /\ status = "authenticated" /\ ~unavailable
    /\ calls' = [calls EXCEPT ![c] = Sent("page", jar)]
    /\ UNCHANGED <<jar, handoff, refresh, login, logout, logoutPending, shown,
                   loggedOut, overtaken>>

\* refreshSession from the page shown while the service is unavailable, or
\* after an upload during which it was; the button waits for the answer.
Retry(c) ==
    /\ c \in Free /\ unavailable /\ login = Nobody
    /\ \A d \in Calls : calls[d].kind # "me"
    /\ calls' = [NewRequest(calls) EXCEPT ![c] = Sent("me", jar)]
    /\ UNCHANGED <<jar, handoff, refresh, login, logout, logoutPending, shown,
                   loggedOut, overtaken>>

\* Mutant: an answer is used whether or not it is the latest.
MutShows(c) == calls[c].kind \in {"mount", "me"}

\* requestId === sessionRequestRef.current.
Shows(c) == calls[c].kind \in {"mount", "me"} /\ calls[c].latest

\* A call ends: throwApiError reports a 503, and the caller continues.
Finish(c, answer) ==
    /\ unavailable' = IF answer = 503 THEN TRUE
                      ELSE IF Shows(c) /\ (answer = 200 \/ calls[c].kind = "me")
                      THEN FALSE ELSE unavailable
    /\ IF Shows(c) /\ answer # 503
       THEN /\ status' = IF answer = 200 THEN "authenticated" ELSE "unauthenticated"
            /\ user' = IF answer = 200 THEN calls[c].cookie.owner ELSE Nobody
       ELSE UNCHANGED <<status, user>>
    /\ calls' = [calls EXCEPT ![c] = Idle]

\* reportExpiredSession: the listener runs before the call throws, so the
\* call is no longer the latest when its caller continues.
Expire(c) ==
    /\ calls' = [NewEpoch(NewRequest(calls)) EXCEPT ![c] = Idle]
    /\ status' = "unauthenticated" /\ user' = Nobody
    /\ UNCHANGED unavailable

\* Mutant: a 401 of an old session is taken for one of the new.
MutMayRefresh(c) == ~logoutPending

MayRefresh(c) == calls[c].cur /\ ~logoutPending

\* The answer to the first attempt; a retry sends the cookies of its own time.
Answer(c) ==
    /\ calls[c].pc = "sent"
    /\ \E answer \in GetAnswers(calls[c].cookie) :
         IF answer = 401 /\ MayRefresh(c)
         THEN /\ calls' = [calls EXCEPT ![c] = [@ EXCEPT !.pc = "refreshing", !.cookie = NoCookie]]
              /\ refresh' = IF refresh.pc = "idle" THEN [pc |-> "sent", cookie |-> jar, cur |-> TRUE]
                            ELSE refresh
              /\ UNCHANGED shown
         ELSE Finish(c, answer) /\ UNCHANGED refresh
    /\ UNCHANGED <<jar, handoff, login, logout, logoutPending, loggedOut, overtaken>>

\* prepareForLogout continues whether the refresh failed or not.
AfterRefresh(answer) == IF logout = "wait" THEN "sent" ELSE logout

\* The refresh is answered, and every call that shares it continues.
AnswerRefresh ==
    /\ refresh.pc = "sent"
    /\ \E answer \in RefreshAnswers(refresh.cookie) :
         /\ jar' = SetByRefresh(answer)
         /\ calls' = [c \in Calls |-> IF calls[c].pc = "refreshing"
                        THEN [calls[c] EXCEPT !.pc = "resumed", !.answer = answer]
                        ELSE calls[c]]
         /\ logout' = AfterRefresh(answer)
         /\ overtaken' = (overtaken \/ (answer = 200 /\ ~refresh.cur))
    /\ refresh' = [pc |-> "idle", cookie |-> NoCookie, cur |-> TRUE]
    /\ UNCHANGED <<handoff, login, logoutPending, shown, loggedOut>>

\* The microtasks of a refresh run before anything else.
Quiet == \A c \in Calls : calls[c].pc # "resumed"

Resume(c) ==
    LET answer == calls[c].answer IN
    /\ calls[c].pc = "resumed"
    /\ IF answer = 0 THEN Finish(c, 0)
       ELSE IF ~MayRefresh(c) THEN Finish(c, 401)
       ELSE IF answer = 200
       THEN /\ calls' = [calls EXCEPT ![c] = [@ EXCEPT !.pc = "retried", !.cookie = jar]]
            /\ UNCHANGED shown
       ELSE IF answer = 401 THEN Expire(c) ELSE Finish(c, answer)
    /\ UNCHANGED <<jar, handoff, refresh, login, logout, logoutPending, loggedOut, overtaken>>

\* The answer to the retry, after a refresh that succeeded.
AnswerRetry(c) ==
    /\ calls[c].pc = "retried"
    /\ \E answer \in GetAnswers(calls[c].cookie) :
         IF answer = 401 /\ MayRefresh(c) THEN Expire(c) ELSE Finish(c, answer)
    /\ UNCHANGED <<jar, handoff, refresh, login, logout, logoutPending, loggedOut, overtaken>>

-----------------------------------------------------------------------------
(* Login, the verification poll and logout.                                *)

\* AuthContext.login: older session requests are no longer the latest.  The
\* form is on a page of its own, so the page that polled is gone; and the
\* visitor waits there for the answer.
Login(a) ==
    /\ status = "unauthenticated" /\ ~unavailable
    /\ login = Nobody /\ logout = "idle"
    /\ login' = a
    /\ calls' = NewRequest(calls)
    /\ loggedOut' = FALSE
    /\ handoff' = [handoff EXCEPT !.page = FALSE]
    /\ UNCHANGED <<jar, refresh, logout, logoutPending, shown, overtaken>>

\* markSessionEstablished, then refreshSession: a session request of its own.
Establish(a, asks) ==
    /\ jar' = Session(a)
    /\ logoutPending' = FALSE
    /\ refresh' = [refresh EXCEPT !.cur = FALSE]
    /\ IF asks THEN \E c \in Free :
                      calls' = [NewEpoch(NewRequest(calls)) EXCEPT ![c] = Sent("me", Session(a))]
               ELSE calls' = NewEpoch(calls)

AnswerLogin ==
    /\ login # Nobody
    /\ \/ /\ Establish(login, TRUE)
          /\ handoff' = [handoff EXCEPT !.owner = Nobody, !.page = FALSE]
          /\ overtaken' = FALSE
          /\ UNCHANGED unavailable
       \/ \E answer \in {0, 401, 503} :
            /\ unavailable' = (unavailable \/ answer = 503)
            /\ UNCHANGED <<jar, logoutPending, calls, handoff, refresh, overtaken>>
    /\ login' = Nobody
    /\ UNCHANGED <<logout, status, user, loggedOut>>

\* A registration leaves the hand-off cookie.
Register(a) ==
    /\ status = "unauthenticated" /\ handoff.owner = Nobody /\ login = Nobody
    /\ handoff' = [handoff EXCEPT !.owner = a]
    /\ UNCHANGED <<jar, calls, refresh, login, logout, logoutPending, shown,
                   loggedOut, overtaken>>

\* checkVerificationSession: one poll at a time.
Poll ==
    /\ status = "unauthenticated" /\ ~unavailable /\ login = Nobody
    /\ handoff.pc = "idle" /\ logout = "idle"
    /\ handoff' = [handoff EXCEPT !.pc = "sent", !.page = TRUE, !.cookie = handoff.owner]
    /\ loggedOut' = FALSE
    /\ UNCHANGED <<jar, calls, refresh, login, logout, logoutPending, shown, overtaken>>

\* The answer sets the cookies even when the page that asked is gone; only
\* the page asks who the user is.
Waiting == handoff.page /\ status = "unauthenticated" /\ ~unavailable

NoPoll == [handoff EXCEPT !.pc = "idle", !.page = FALSE, !.cookie = Nobody]

AnswerPoll ==
    /\ handoff.pc = "sent"
    /\ \/ /\ handoff.cookie # Nobody
          /\ \E asks \in {FALSE, Waiting} :
               Establish(handoff.cookie, asks) /\ overtaken' = ~asks
          /\ loggedOut' = FALSE
          /\ handoff' = [NoPoll EXCEPT !.owner = Nobody]
          /\ UNCHANGED unavailable
       \/ \E answer \in {0, 200, 401, 503} :
            /\ unavailable' = (unavailable \/ answer = 503)
            /\ handoff' = NoPoll
            /\ UNCHANGED <<jar, logoutPending, calls, refresh, overtaken, loggedOut>>
    /\ UNCHANGED <<login, logout, status, user>>

\* Mutant: the logout does not wait for a refresh under way.
MutFirst == "sent"

\* if (!refreshPromise) return; otherwise it is awaited.
First == IF refresh.pc = "sent" THEN "wait" ELSE "sent"

\* AuthContext.logout and prepareForLogout.
Logout ==
    /\ logout = "idle" /\ login = Nobody
    /\ logoutPending' = TRUE
    /\ calls' = NewEpoch(NewRequest(calls))
    /\ logout' = First
    /\ handoff' = [handoff EXCEPT !.page = FALSE]
    /\ UNCHANGED <<jar, refresh, login, shown, loggedOut, overtaken>>

\* finishLogout, whether the request succeeded or not.
AnswerLogout ==
    /\ logout = "sent"
    /\ \/ /\ jar' = NoCookie
          /\ handoff' = [handoff EXCEPT !.owner = Nobody, !.page = FALSE]
          /\ loggedOut' = (logoutPending /\ handoff.pc = "idle")
          /\ overtaken' = FALSE
       \/ UNCHANGED <<jar, handoff, loggedOut, overtaken>>
    /\ logout' = "idle" /\ logoutPending' = FALSE
    /\ calls' = NewEpoch(calls)
    /\ status' = "unauthenticated" /\ user' = Nobody
    /\ UNCHANGED <<refresh, login, unavailable>>

-----------------------------------------------------------------------------
\* The access cookie reaches its age.
AccessExpires ==
    /\ jar.access
    /\ jar' = [jar EXCEPT !.access = FALSE]
    /\ UNCHANGED <<handoff, calls, refresh, login, logout, logoutPending, shown,
                   loggedOut, overtaken>>

\* A password reset makes the server refuse every cookie of the account.
Revoke(a) ==
    LET dead(k) == IF k.owner = a THEN [k EXCEPT !.live = FALSE] ELSE k IN
    /\ jar.owner = a /\ jar.live
    /\ jar' = dead(jar)
    /\ calls' = [c \in Calls |-> [calls[c] EXCEPT !.cookie = dead(@)]]
    /\ refresh' = [refresh EXCEPT !.cookie = dead(@)]
    /\ UNCHANGED <<handoff, login, logout, logoutPending, shown, loggedOut, overtaken>>

Answers == \/ \E c \in Calls : Answer(c) \/ AnswerRetry(c)
           \/ AnswerRefresh \/ AnswerLogin \/ AnswerPoll \/ AnswerLogout

Next ==
    \/ \E c \in Calls : Resume(c)
    \/ /\ Quiet
       /\ \/ Answers
          \/ \E c \in Calls : SendPage(c) \/ Retry(c)
          \/ \E a \in Accounts : Login(a) \/ Register(a) \/ Revoke(a)
          \/ Poll \/ Logout \/ AccessExpires

Spec == Init /\ [][Next]_vars

-----------------------------------------------------------------------------
(* Properties.                                                             *)

Cookies == [owner : Accounts \cup {Nobody}, access : BOOLEAN, live : BOOLEAN]
Codes == {0, 200, 401, 503}     \* the status of an answer, or none
CallRecords == [pc : {"idle", "sent", "refreshing", "resumed", "retried"},
                kind : {"none", "mount", "me", "page"}, cur : BOOLEAN, latest : BOOLEAN,
                cookie : Cookies, answer : Codes]

\* Every variable has its type.
TypeOK ==
    /\ jar \in Cookies
    /\ handoff \in [pc : {"idle", "sent"}, owner : Accounts \cup {Nobody},
                    page : BOOLEAN, cookie : Accounts \cup {Nobody}]
    /\ calls \in [Calls -> CallRecords]
    /\ refresh \in [pc : {"idle", "sent"}, cookie : Cookies, cur : BOOLEAN]
    /\ login \in Accounts \cup {Nobody}
    /\ logout \in {"idle", "wait", "sent"}
    /\ status \in {"loading", "authenticated", "unauthenticated"}
    /\ user \in Accounts \cup {Nobody}
    /\ logoutPending \in BOOLEAN /\ unavailable \in BOOLEAN
    /\ loggedOut \in BOOLEAN /\ overtaken \in BOOLEAN

\* After a logout that succeeded nothing brings a session back until one is
\* asked for: a refresh that was under way is answered before the logout is
\* sent, and none begins until it has ended (client.js:106).
LogoutIsLast == loggedOut => jar = NoCookie

\* The user that is shown owns the session cookies, if there are any, or the
\* request that will show their owner, or a logout, is under way; unless they
\* came with a poll whose page had been left or a refresh older than the login
\* (client.js:101).
ShownUserOwnsSession ==
    status = "authenticated" /\ ~unavailable /\ ~overtaken =>
      \/ jar.owner \in {user, Nobody} \/ logout # "idle"
      \/ \E c \in Calls : calls[c].kind = "me" /\ calls[c].latest

\* A call of a page ends the session on the screen only when the server no
\* longer honours the cookies; a late answer of an earlier session never ends
\* the one that replaced it (client.js:126).
NoLiveSessionExpires ==
    \A c \in Calls :
      /\ calls[c].kind = "page" /\ calls'[c].pc = "idle"
      /\ status = "authenticated" /\ status' = "unauthenticated"
      => ~jar.live

\* "once service returns, status resolves the normal way": when a session
\* request resolves the status, the unavailable screen is gone
\* (AuthContext.jsx:14).
ResolvedMeansAvailable ==
    [][\A c \in Calls :
         /\ calls[c].kind = "me" /\ calls[c].latest /\ calls'[c].pc = "idle"
         /\ status' # status
         => ~unavailable']_vars

=============================================================================
