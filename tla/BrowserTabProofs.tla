-------------------------- MODULE BrowserTabProofs --------------------------
(***************************************************************************)
(* Proofs about what a browser tab keeps of the server.                    *)
(*                                                                         *)
(* Its session, for every set of accounts and every number of calls under  *)
(* way: a logout is the last word, the user that is shown owns the         *)
(* cookies, and no late answer ends a session the server honours.          *)
(*                                                                         *)
(* Its list of analyses, for every number of analyses, every size of a     *)
(* page and every number of requests under way: the list is whole and      *)
(* true, and what it shows as ended stays ended.                           *)
(***************************************************************************)
EXTENDS BrowserTab, Sequences, FiniteSetTheorems, TLAPS

\* The actions, for the proofs that treat each of them.
LEMMA Steps ==
  ASSUME [Next]_vars
  PROVE  \/ \E c \in Calls : Resume(c) \/ Answer(c) \/ AnswerRetry(c) \/ SendPage(c) \/ Retry(c)
         \/ AnswerRefresh \/ AnswerLogin \/ AnswerPoll \/ AnswerLogout
         \/ \E a \in Accounts : Login(a) \/ Register(a) \/ Revoke(a)
         \/ Poll \/ Logout \/ AccessExpires
         \/ UNCHANGED vars
BY DEF Next, Answers

-----------------------------------------------------------------------------
(* Types.                                                                  *)

LEMMA CookieTypes ==
  ASSUME BrowserAssumption
  PROVE  /\ NoCookie \in Cookies
         /\ \A a \in Accounts : Session(a) \in Cookies
         /\ Idle \in CallRecords
         /\ \A kind \in {"mount", "me", "page"}, k \in Cookies : Sent(kind, k) \in CallRecords
BY DEF NoCookie, Session, Cookies, Idle, CallRecords, Sent, Codes

\* Updates of a field.
LEMMA CookieUpdates ==
  ASSUME NEW k \in Cookies
  PROVE  /\ [k EXCEPT !.access = FALSE] \in Cookies
         /\ [k EXCEPT !.live = FALSE] \in Cookies
BY DEF Cookies

LEMMA CookieSet ==
  ASSUME NEW call \in CallRecords, NEW n \in Cookies
  PROVE  [call EXCEPT !.cookie = n] \in CallRecords
<1> DEFINE P == {"idle", "sent", "refreshing", "resumed", "retried"}
           K == {"none", "mount", "me", "page"}
<1>0. CallRecords = [pc : P, kind : K, cur : BOOLEAN, latest : BOOLEAN, cookie : Cookies, answer : Codes]
  BY DEF CallRecords
<1> HIDE DEF P, K
<1> QED
  BY <1>0

LEMMA Retries ==
  ASSUME NEW call \in CallRecords, NEW n \in Cookies
  PROVE  [call EXCEPT !.pc = "retried", !.cookie = n] \in CallRecords
<1> DEFINE P == {"idle", "sent", "refreshing", "resumed", "retried"}
           K == {"none", "mount", "me", "page"}
<1>0. CallRecords = [pc : P, kind : K, cur : BOOLEAN, latest : BOOLEAN, cookie : Cookies, answer : Codes]
  BY DEF CallRecords
<1>1. "retried" \in P
  OBVIOUS
<1> HIDE DEF P, K
<1> QED
  BY <1>0, <1>1

LEMMA Refreshes ==
  ASSUME NEW call \in CallRecords, NEW n \in Cookies
  PROVE  [call EXCEPT !.pc = "refreshing", !.cookie = n] \in CallRecords
<1> DEFINE P == {"idle", "sent", "refreshing", "resumed", "retried"}
           K == {"none", "mount", "me", "page"}
<1>0. CallRecords = [pc : P, kind : K, cur : BOOLEAN, latest : BOOLEAN, cookie : Cookies, answer : Codes]
  BY DEF CallRecords
<1>1. "refreshing" \in P
  OBVIOUS
<1> HIDE DEF P, K
<1> QED
  BY <1>0, <1>1

LEMMA Resumes ==
  ASSUME NEW call \in CallRecords, NEW answer \in Codes
  PROVE  [call EXCEPT !.pc = "resumed", !.answer = answer] \in CallRecords
<1> DEFINE P == {"idle", "sent", "refreshing", "resumed", "retried"}
           K == {"none", "mount", "me", "page"}
<1>0. CallRecords = [pc : P, kind : K, cur : BOOLEAN, latest : BOOLEAN, cookie : Cookies, answer : Codes]
  BY DEF CallRecords
<1>1. "resumed" \in P
  OBVIOUS
<1> HIDE DEF P, K
<1> QED
  BY <1>0, <1>1

LEMMA FlagTypes ==
  ASSUME NEW call \in CallRecords
  PROVE  /\ [call EXCEPT !.cur = FALSE] \in CallRecords
         /\ [call EXCEPT !.latest = FALSE] \in CallRecords
<1> DEFINE P == {"idle", "sent", "refreshing", "resumed", "retried"}
           K == {"none", "mount", "me", "page"}
<1>0. CallRecords = [pc : P, kind : K, cur : BOOLEAN, latest : BOOLEAN, cookie : Cookies, answer : Codes]
  BY DEF CallRecords
<1> HIDE DEF P, K
<1>1. [call EXCEPT !.cur = FALSE] \in CallRecords
  BY <1>0
<1>2. [call EXCEPT !.latest = FALSE] \in CallRecords
  BY <1>0
<1> QED
  BY <1>1, <1>2

LEMMA NewEpochType ==
  ASSUME NEW cs \in [Calls -> CallRecords]
  PROVE  /\ NewEpoch(cs) \in [Calls -> CallRecords]
         /\ NewRequest(cs) \in [Calls -> CallRecords]
         /\ \A c \in Calls :
              /\ NewEpoch(cs)[c] = [cs[c] EXCEPT !.cur = FALSE]
              /\ NewRequest(cs)[c] = [cs[c] EXCEPT !.latest = FALSE]
<1>1. \A c \in Calls : /\ [cs[c] EXCEPT !.cur = FALSE] \in CallRecords
                       /\ [cs[c] EXCEPT !.latest = FALSE] \in CallRecords
  <2>1. ASSUME NEW c \in Calls
        PROVE  /\ [cs[c] EXCEPT !.cur = FALSE] \in CallRecords
               /\ [cs[c] EXCEPT !.latest = FALSE] \in CallRecords
    <3>1. cs[c] \in CallRecords
      OBVIOUS
    <3> QED
      BY <3>1, FlagTypes
  <2> QED
    BY <2>1
<1> QED
  BY <1>1 DEF NewEpoch, NewRequest

\* A call ends, however it ends.
LEMMA FinishType ==
  ASSUME BrowserAssumption, TypeOK, NEW c \in Calls, NEW answer \in Codes,
         Finish(c, answer)
  PROVE  /\ calls' \in [Calls -> CallRecords]
         /\ status' \in {"loading", "authenticated", "unauthenticated"}
         /\ user' \in Accounts \cup {Nobody}
         /\ unavailable' \in BOOLEAN
<1>1. calls[c].cookie.owner \in Accounts \cup {Nobody}
  BY DEF TypeOK, CallRecords, Cookies
<1>2. calls' \in [Calls -> CallRecords]
  BY CookieTypes DEF Finish, TypeOK
<1>3. unavailable' \in BOOLEAN
  BY DEF Finish, TypeOK
<1>4. /\ status' \in {"loading", "authenticated", "unauthenticated"}
      /\ user' \in Accounts \cup {Nobody}
  BY <1>1 DEF Finish, TypeOK
<1> QED
  BY <1>2, <1>3, <1>4

LEMMA ExpireType ==
  ASSUME BrowserAssumption, TypeOK, NEW c \in Calls, Expire(c)
  PROVE  /\ calls' \in [Calls -> CallRecords]
         /\ status' \in {"loading", "authenticated", "unauthenticated"}
         /\ user' \in Accounts \cup {Nobody}
         /\ unavailable' \in BOOLEAN
<1>1. NewEpoch(NewRequest(calls)) \in [Calls -> CallRecords]
  BY NewEpochType DEF TypeOK
<1> QED
  BY <1>1, CookieTypes DEF Expire, TypeOK

LEMMA EstablishType ==
  ASSUME BrowserAssumption, TypeOK, NEW a \in Accounts, NEW asks \in BOOLEAN,
         Establish(a, asks)
  PROVE  /\ jar' \in Cookies /\ logoutPending' \in BOOLEAN
         /\ refresh' \in [pc : {"idle", "sent"}, cookie : Cookies, cur : BOOLEAN]
         /\ calls' \in [Calls -> CallRecords]
<1>1. NewEpoch(NewRequest(calls)) \in [Calls -> CallRecords] /\ NewEpoch(calls) \in [Calls -> CallRecords]
  BY NewEpochType DEF TypeOK
<1>2. calls' \in [Calls -> CallRecords]
  BY <1>1, CookieTypes DEF Establish, Free
<1> QED
  BY <1>2, CookieTypes DEF Establish, TypeOK

LEMMA TypeInit ==
  ASSUME BrowserAssumption, Init
  PROVE  TypeOK
<1>0. \A a \in Accounts : [Session(a) EXCEPT !.access = FALSE] \in Cookies
  BY DEF Session, Cookies
<1>1. jar \in Cookies
  BY <1>0, CookieTypes DEF Init
<1>2. calls \in [Calls -> CallRecords]
  BY <1>1, CookieTypes DEF Init
<1>3. handoff \in [pc : {"idle", "sent"}, owner : Accounts \cup {Nobody},
                   page : BOOLEAN, cookie : Accounts \cup {Nobody}]
  BY DEF Init
<1>4. refresh \in [pc : {"idle", "sent"}, cookie : Cookies, cur : BOOLEAN]
  BY CookieTypes DEF Init
<1> QED
  BY <1>1, <1>2, <1>3, <1>4 DEF Init, TypeOK

LEMMA TypeStep ==
  ASSUME BrowserAssumption, TypeOK, [Next]_vars
  PROVE  TypeOK'
<1> DEFINE Shape == /\ jar' \in Cookies /\ logoutPending' \in BOOLEAN
                    /\ refresh' \in [pc : {"idle", "sent"}, cookie : Cookies, cur : BOOLEAN]
                    /\ calls' \in [Calls -> CallRecords]
<1>0. \A k \in Cookies : GetAnswers(k) \subseteq Codes
                         /\ RefreshAnswers(k) \subseteq Codes
  BY DEF GetAnswers, RefreshAnswers, Codes
<1>c. \A c \in Calls : calls[c] \in CallRecords /\ calls[c].cookie \in Cookies
  BY DEF TypeOK, CallRecords
<1>1. ASSUME NEW c \in Calls, Resume(c) PROVE TypeOK'
  <2>1. CASE \E answer \in Codes : Finish(c, answer)
    BY <1>1, <2>1, FinishType DEF Resume, TypeOK
  <2>2. CASE Expire(c)
    BY <1>1, <2>2, ExpireType DEF Resume, TypeOK
  <2>3. CASE calls' = [calls EXCEPT ![c] = [@ EXCEPT !.pc = "retried", !.cookie = jar]] /\ UNCHANGED shown
    <3>1. calls' \in [Calls -> CallRecords]
      <4>1. [calls[c] EXCEPT !.pc = "retried", !.cookie = jar] \in CallRecords
        <5>1. calls[c] \in CallRecords /\ jar \in Cookies
          BY <1>c DEF TypeOK
        <5> QED
          BY <5>1, Retries
      <4> QED
        BY <2>3, <4>1 DEF TypeOK
    <3> QED
      BY <1>1, <2>3, <3>1 DEF Resume, shown, TypeOK
  <2>4. calls[c].answer \in Codes
    BY <1>c DEF CallRecords
  <2>5. 0 \in Codes /\ 401 \in Codes
    BY DEF Codes
  <2> QED
    BY <1>1, <2>1, <2>2, <2>3, <2>4, <2>5 DEF Resume
<1>2. ASSUME NEW c \in Calls, Answer(c) PROVE TypeOK'
  <2>1. PICK answer \in GetAnswers(calls[c].cookie) :
          IF answer = 401 /\ MayRefresh(c)
          THEN /\ calls' = [calls EXCEPT ![c] = [@ EXCEPT !.pc = "refreshing", !.cookie = NoCookie]]
               /\ refresh' = IF refresh.pc = "idle" THEN [pc |-> "sent", cookie |-> jar, cur |-> TRUE]
                             ELSE refresh
               /\ UNCHANGED shown
          ELSE Finish(c, answer) /\ UNCHANGED refresh
    BY <1>2 DEF Answer
  <2>2. answer \in Codes
    BY <1>0, <1>c
  <2>3. CASE answer = 401 /\ MayRefresh(c)
    <3>1. calls' \in [Calls -> CallRecords]
      <4>1. [calls[c] EXCEPT !.pc = "refreshing", !.cookie = NoCookie] \in CallRecords
        <5>1. calls[c] \in CallRecords /\ NoCookie \in Cookies
          BY <1>c, CookieTypes
        <5> QED
          BY <5>1, Refreshes
      <4> QED
        BY <2>1, <2>3, <4>1 DEF TypeOK
    <3>2. refresh' \in [pc : {"idle", "sent"}, cookie : Cookies, cur : BOOLEAN]
      <4>1. jar \in Cookies /\ refresh \in [pc : {"idle", "sent"}, cookie : Cookies, cur : BOOLEAN]
        BY DEF TypeOK
      <4>2. [pc |-> "sent", cookie |-> jar, cur |-> TRUE]
               \in [pc : {"idle", "sent"}, cookie : Cookies, cur : BOOLEAN]
        BY <4>1
      <4> QED
        BY <2>1, <2>3, <4>1, <4>2
    <3> QED
      BY <1>2, <2>1, <2>3, <3>1, <3>2 DEF Answer, shown, TypeOK
  <2>4. CASE ~(answer = 401 /\ MayRefresh(c))
    BY <1>2, <2>1, <2>2, <2>4, FinishType DEF Answer, TypeOK
  <2> QED
    BY <2>3, <2>4
<1>3. ASSUME NEW c \in Calls, AnswerRetry(c) PROVE TypeOK'
  <2>1. \/ \E answer \in Codes : Finish(c, answer)
        \/ Expire(c)
    BY <1>3, <1>0, <1>c DEF AnswerRetry
  <2> QED
    BY <1>3, <2>1, FinishType, ExpireType DEF AnswerRetry, TypeOK
<1>4. ASSUME NEW c \in Calls, SendPage(c) \/ Retry(c) PROVE TypeOK'
  <2>1. calls' \in [Calls -> CallRecords]
    BY <1>4, CookieTypes, NewEpochType DEF SendPage, Retry, TypeOK
  <2> QED
    BY <1>4, <2>1 DEF SendPage, Retry, shown, TypeOK
<1>5. ASSUME AnswerRefresh PROVE TypeOK'
  <2>1. PICK answer \in RefreshAnswers(refresh.cookie) :
          /\ jar' = SetByRefresh(answer)
          /\ calls' = [c \in Calls |-> IF calls[c].pc = "refreshing"
                         THEN [calls[c] EXCEPT !.pc = "resumed", !.answer = answer]
                         ELSE calls[c]]
          /\ logout' = AfterRefresh(answer)
          /\ overtaken' = (overtaken \/ (answer = 200 /\ ~refresh.cur))
    BY <1>5 DEF AnswerRefresh
  <2>2. answer \in Codes /\ refresh.cookie \in Cookies
    BY <1>0 DEF TypeOK
  <2>3. calls' \in [Calls -> CallRecords]
    <3>1. ASSUME NEW c \in Calls
          PROVE  [calls[c] EXCEPT !.pc = "resumed", !.answer = answer] \in CallRecords
      <4>1. calls[c] \in CallRecords /\ refresh.cookie \in Cookies
        BY <1>c, <2>2
      <4> QED
        BY <2>2, <4>1, Resumes
    <3> QED
      BY <1>c, <2>1, <3>1
  <2>4. answer = 200 => refresh.cookie.owner \in Accounts \cup {Nobody}
    BY <2>2 DEF Cookies
  <2>5. jar' \in Cookies
    <3>1. answer = 200 => Session(refresh.cookie.owner) \in Cookies
      BY <2>4 DEF Session, Cookies
    <3> QED
      BY <2>1, <3>1, CookieTypes DEF SetByRefresh, TypeOK
  <2> QED
    BY <1>5, <2>1, <2>3, <2>5, CookieTypes DEF AnswerRefresh, AfterRefresh, shown, TypeOK
<1>6. ASSUME AnswerLogin PROVE TypeOK'
  <2>1. Shape
    <3>1. CASE Establish(login, TRUE)
      BY <1>6, <3>1, EstablishType DEF AnswerLogin, TypeOK
    <3>2. CASE UNCHANGED <<jar, logoutPending, calls, handoff, refresh, overtaken>>
      BY <3>2 DEF TypeOK
    <3> QED
      BY <1>6, <3>1, <3>2 DEF AnswerLogin
  <2> HIDE DEF Shape
  <2>2. handoff' \in [pc : {"idle", "sent"}, owner : Accounts \cup {Nobody},
                      page : BOOLEAN, cookie : Accounts \cup {Nobody}]
    <3>1. [handoff EXCEPT !.owner = Nobody, !.page = FALSE]
            \in [pc : {"idle", "sent"}, owner : Accounts \cup {Nobody},
                page : BOOLEAN, cookie : Accounts \cup {Nobody}]
      BY DEF TypeOK
    <3> QED
      BY <1>6, <3>1 DEF AnswerLogin, TypeOK
  <2>3. unavailable' \in BOOLEAN /\ overtaken' \in BOOLEAN
    BY <1>6 DEF AnswerLogin, TypeOK
  <2> QED
    BY <1>6, <2>1, <2>2, <2>3 DEF Shape, AnswerLogin, TypeOK
<1>7. ASSUME AnswerPoll PROVE TypeOK'
  <2>1. Waiting \in BOOLEAN
    BY DEF Waiting, TypeOK
  <2>2. Shape
    <3>1. ASSUME NEW asks \in {FALSE, Waiting}, handoff.cookie # Nobody, Establish(handoff.cookie, asks)
          PROVE  Shape
      <4>1. handoff.cookie \in Accounts /\ asks \in BOOLEAN
        BY <2>1, <3>1 DEF TypeOK
      <4> QED
        BY <3>1, <4>1, EstablishType
    <3>2. CASE UNCHANGED <<jar, logoutPending, calls, refresh, overtaken, loggedOut>>
      BY <3>2 DEF TypeOK
    <3> QED
      BY <1>7, <3>1, <3>2 DEF AnswerPoll
  <2>3. handoff' \in [pc : {"idle", "sent"}, owner : Accounts \cup {Nobody},
                      page : BOOLEAN, cookie : Accounts \cup {Nobody}]
    <3>1. NoPoll \in [pc : {"idle", "sent"}, owner : Accounts \cup {Nobody},
                      page : BOOLEAN, cookie : Accounts \cup {Nobody}]
      BY DEF NoPoll, TypeOK
    <3> QED
      BY <1>7, <3>1 DEF AnswerPoll
  <2>4. unavailable' \in BOOLEAN /\ loggedOut' \in BOOLEAN /\ overtaken' \in BOOLEAN
    <3>1. unavailable' \in BOOLEAN
      BY <1>7 DEF AnswerPoll, TypeOK
    <3>2. loggedOut' \in BOOLEAN
      BY <1>7 DEF AnswerPoll, TypeOK
    <3>3. overtaken' \in BOOLEAN
      BY <1>7, <2>1 DEF AnswerPoll, TypeOK
    <3> QED
      BY <3>1, <3>2, <3>3
  <2> HIDE DEF Shape
  <2> QED
    BY <1>7, <2>2, <2>3, <2>4 DEF Shape, AnswerPoll, TypeOK
<1>8. ASSUME AnswerLogout PROVE TypeOK'
  <2>1. calls' \in [Calls -> CallRecords]
    BY <1>8, NewEpochType DEF AnswerLogout, TypeOK
  <2> QED
    BY <1>8, <2>1, CookieTypes DEF AnswerLogout, TypeOK
<1>9. ASSUME NEW a \in Accounts, Login(a) \/ Register(a) PROVE TypeOK'
  <2>1. calls' \in [Calls -> CallRecords]
    BY <1>9, NewEpochType DEF Login, Register, TypeOK
  <2> QED
    BY <1>9, <2>1 DEF Login, Register, shown, TypeOK
<1>10. ASSUME NEW a \in Accounts, Revoke(a) PROVE TypeOK'
  <2> DEFINE dead(k) == IF k.owner = a THEN [k EXCEPT !.live = FALSE] ELSE k
  <2>1. \A k \in Cookies : dead(k) \in Cookies
    BY DEF Cookies
  <2>2. /\ jar' = dead(jar)
        /\ calls' = [c \in Calls |-> [calls[c] EXCEPT !.cookie = dead(@)]]
        /\ refresh' = [refresh EXCEPT !.cookie = dead(@)]
    BY <1>10 DEF Revoke
  <2> HIDE DEF dead
  <2>3. jar' \in Cookies /\ refresh' \in [pc : {"idle", "sent"}, cookie : Cookies, cur : BOOLEAN]
    BY <2>1, <2>2 DEF TypeOK
  <2>4. calls' \in [Calls -> CallRecords]
    <3>1. ASSUME NEW c \in Calls
          PROVE  [calls[c] EXCEPT !.cookie = dead(calls[c].cookie)] \in CallRecords
      <4>1. calls[c] \in CallRecords /\ dead(calls[c].cookie) \in Cookies
        BY <1>c, <2>1
      <4> QED
        BY <4>1, CookieSet
    <3> QED
      BY <2>2, <3>1
  <2> QED
    BY <1>10, <2>3, <2>4 DEF Revoke, shown, TypeOK
<1>11. ASSUME Poll \/ Logout \/ AccessExpires PROVE TypeOK'
  <2>1. calls' \in [Calls -> CallRecords]
    BY <1>11, NewEpochType DEF Poll, Logout, AccessExpires, TypeOK
  <2>2. jar' \in Cookies
    BY <1>11 DEF Poll, Logout, AccessExpires, TypeOK, Cookies
  <2> QED
    BY <1>11, <2>1, <2>2 DEF Poll, Logout, First, AccessExpires, shown, TypeOK
<1>12. CASE UNCHANGED vars
  BY <1>12 DEF vars, shown, TypeOK
<1> QED
  BY <1>1, <1>2, <1>3, <1>4, <1>5, <1>6, <1>7, <1>8, <1>9, <1>10, <1>11, <1>12, Steps

-----------------------------------------------------------------------------
(* The last word of a logout.                                              *)

\* While a logout that nothing crossed is sent there is no refresh, and after
\* it the cookies a refresh may still be sent with are none.
LogoutInv ==
    /\ login # Nobody => logout = "idle" /\ ~loggedOut
    /\ logoutPending => logout # "idle"
    /\ logout = "sent" /\ logoutPending => refresh.pc = "idle"
    /\ refresh.pc = "idle" => refresh.cookie = NoCookie
    /\ loggedOut => jar = NoCookie /\ refresh.cookie = NoCookie

LEMMA LogoutInit == Init => LogoutInv
BY DEF Init, LogoutInv

\* What an answer to a call may do to the refresh.
LEMMA AnswerStartsRefresh ==
  ASSUME TypeOK, NEW c \in Calls, Answer(c)
  PROVE  \/ UNCHANGED refresh
         \/ /\ refresh.pc = "idle" /\ ~logoutPending /\ calls[c].cur
            /\ ~(calls[c].cookie.access /\ calls[c].cookie.live)
            /\ refresh' = [pc |-> "sent", cookie |-> jar, cur |-> TRUE]
            /\ calls' = [calls EXCEPT ![c] = [@ EXCEPT !.pc = "refreshing", !.cookie = NoCookie]]
            /\ UNCHANGED shown
<1>1. PICK answer \in GetAnswers(calls[c].cookie) :
        IF answer = 401 /\ MayRefresh(c)
        THEN /\ calls' = [calls EXCEPT ![c] = [@ EXCEPT !.pc = "refreshing", !.cookie = NoCookie]]
             /\ refresh' = IF refresh.pc = "idle" THEN [pc |-> "sent", cookie |-> jar, cur |-> TRUE]
                           ELSE refresh
             /\ UNCHANGED shown
        ELSE UNCHANGED refresh
  BY DEF Answer
<1>2. answer = 401 => ~(calls[c].cookie.access /\ calls[c].cookie.live)
  BY DEF GetAnswers
<1> QED
  BY <1>1, <1>2 DEF MayRefresh

LEMMA LogoutStep ==
  ASSUME BrowserAssumption, TypeOK, LogoutInv, [Next]_vars
  PROVE  LogoutInv'
<1>1. ASSUME NEW c \in Calls, Resume(c) \/ AnswerRetry(c) \/ SendPage(c) \/ Retry(c)
      PROVE  LogoutInv'
  BY <1>1 DEF LogoutInv, Resume, AnswerRetry, SendPage, Retry
<1>2. ASSUME NEW c \in Calls, Answer(c) PROVE LogoutInv'
  <2>1. UNCHANGED <<jar, login, logout, logoutPending, loggedOut>>
    BY <1>2 DEF Answer
  <2>2. CASE UNCHANGED refresh
    BY <2>1, <2>2 DEF LogoutInv
  <2>3. CASE refresh' = [pc |-> "sent", cookie |-> jar, cur |-> TRUE] /\ ~logoutPending
    BY <2>1, <2>3 DEF LogoutInv
  <2> QED
    BY <1>2, <2>2, <2>3, AnswerStartsRefresh
<1>3. ASSUME AnswerRefresh PROVE LogoutInv'
  <2>1. PICK answer \in RefreshAnswers(refresh.cookie) :
          jar' = SetByRefresh(answer) /\ logout' = AfterRefresh(answer)
    BY <1>3 DEF AnswerRefresh
  <2>2. loggedOut => jar' = NoCookie
    <3>1. answer = 200 => refresh.cookie.live
      BY <2>1 DEF RefreshAnswers
    <3>2. loggedOut => answer # 200
      BY <3>1 DEF LogoutInv, NoCookie
    <3> QED
      BY <2>1, <3>2 DEF LogoutInv, SetByRefresh
  <2> QED
    BY <1>3, <2>1, <2>2 DEF AnswerRefresh, AfterRefresh, LogoutInv
<1>4. ASSUME AnswerLogin PROVE LogoutInv'
  <2>1. refresh'.pc = refresh.pc /\ refresh'.cookie = refresh.cookie
    BY <1>4 DEF AnswerLogin, Establish, TypeOK
  <2>2. logoutPending' => logoutPending
    BY <1>4 DEF AnswerLogin, Establish
  <2> QED
    BY <1>4, <2>1, <2>2 DEF AnswerLogin, LogoutInv
<1>5. ASSUME AnswerPoll PROVE LogoutInv'
  <2>1. refresh'.pc = refresh.pc /\ refresh'.cookie = refresh.cookie
    BY <1>5 DEF AnswerPoll, Establish, TypeOK
  <2>2. logoutPending' => logoutPending
    BY <1>5 DEF AnswerPoll, Establish
  <2>3. loggedOut' => loggedOut /\ jar' = jar
    BY <1>5 DEF AnswerPoll
  <2> QED
    BY <1>5, <2>1, <2>2, <2>3 DEF AnswerPoll, LogoutInv
<1>6. ASSUME AnswerLogout PROVE LogoutInv'
  <2>1. loggedOut' => (logoutPending /\ jar' = NoCookie) \/ (loggedOut /\ jar' = jar)
    BY <1>6 DEF AnswerLogout
  <2>2. login = Nobody
    BY <1>6 DEF AnswerLogout, LogoutInv
  <2> QED
    BY <1>6, <2>1, <2>2 DEF AnswerLogout, LogoutInv
<1>7. ASSUME NEW a \in Accounts, Login(a) \/ Register(a) PROVE LogoutInv'
  BY <1>7 DEF Login, Register, LogoutInv
<1>8. ASSUME NEW a \in Accounts, Revoke(a) PROVE LogoutInv'
  <2>1. a # Nobody /\ jar.owner = a
    BY <1>8 DEF Revoke, BrowserAssumption
  <2>2. ~loggedOut
    BY <2>1 DEF LogoutInv, NoCookie
  <2>3. /\ refresh'.pc = refresh.pc
        /\ refresh.cookie = NoCookie => refresh'.cookie = NoCookie
    <3>1. refresh' = [refresh EXCEPT !.cookie = IF refresh.cookie.owner = a
                        THEN [refresh.cookie EXCEPT !.live = FALSE] ELSE refresh.cookie]
      BY <1>8 DEF Revoke
    <3>2. refresh.cookie = NoCookie => refresh.cookie.owner # a
      BY <2>1 DEF NoCookie
    <3> QED
      BY <3>1, <3>2 DEF TypeOK
  <2> QED
    BY <1>8, <2>2, <2>3 DEF Revoke, LogoutInv
<1>9. ASSUME Poll \/ AccessExpires PROVE LogoutInv'
  BY <1>9 DEF Poll, AccessExpires, LogoutInv, NoCookie
<1>10. ASSUME Logout PROVE LogoutInv'
  BY <1>10 DEF Logout, First, LogoutInv, TypeOK
<1>11. CASE UNCHANGED vars
  BY <1>11 DEF vars, LogoutInv
<1> QED
  BY <1>1, <1>2, <1>3, <1>4, <1>5, <1>6, <1>7, <1>8, <1>9, <1>10, <1>11, Steps

-----------------------------------------------------------------------------
(* What the steps do to the calls.                                         *)

\* A call that is no longer of this epoch, or no longer the latest.
Kept(d) == /\ calls'[d].pc = calls[d].pc /\ calls'[d].kind = calls[d].kind
           /\ calls'[d].answer = calls[d].answer /\ calls'[d].cookie = calls[d].cookie
           /\ calls'[d].cur => calls[d].cur
           /\ calls'[d].latest => calls[d].latest

LEMMA NewEpochKeeps ==
  ASSUME TypeOK, NEW d \in Calls
  PROVE  LET e == NewEpoch(calls)[d]
             r == NewRequest(calls)[d]
             b == NewEpoch(NewRequest(calls))[d]
         IN  /\ e.pc = calls[d].pc /\ e.kind = calls[d].kind /\ e.answer = calls[d].answer
             /\ e.cookie = calls[d].cookie /\ ~e.cur /\ e.latest = calls[d].latest
             /\ r.pc = calls[d].pc /\ r.kind = calls[d].kind /\ r.answer = calls[d].answer
             /\ r.cookie = calls[d].cookie /\ r.cur = calls[d].cur /\ ~r.latest
             /\ b.pc = calls[d].pc /\ b.kind = calls[d].kind /\ b.answer = calls[d].answer
             /\ b.cookie = calls[d].cookie /\ ~b.cur /\ ~b.latest
<1>1. NewRequest(calls) \in [Calls -> CallRecords] /\ calls \in [Calls -> CallRecords]
  BY NewEpochType DEF TypeOK
<1>2. /\ NewEpoch(calls)[d] = [calls[d] EXCEPT !.cur = FALSE]
      /\ NewRequest(calls)[d] = [calls[d] EXCEPT !.latest = FALSE]
      /\ NewEpoch(NewRequest(calls))[d] = [NewRequest(calls)[d] EXCEPT !.cur = FALSE]
  BY <1>1, NewEpochType
<1>3. calls[d] \in CallRecords /\ NewRequest(calls)[d] \in CallRecords
  BY <1>1
<1> HIDE DEF NewEpoch, NewRequest
<1>4. LET e == NewEpoch(calls)[d]
      IN  /\ e.pc = calls[d].pc /\ e.kind = calls[d].kind /\ e.answer = calls[d].answer
          /\ e.cookie = calls[d].cookie /\ ~e.cur /\ e.latest = calls[d].latest
  BY <1>2, <1>3 DEF CallRecords
<1>5. LET r == NewRequest(calls)[d]
      IN  /\ r.pc = calls[d].pc /\ r.kind = calls[d].kind /\ r.answer = calls[d].answer
          /\ r.cookie = calls[d].cookie /\ r.cur = calls[d].cur /\ ~r.latest
  BY <1>2, <1>3 DEF CallRecords
<1>6. LET r == NewRequest(calls)[d]
          b == NewEpoch(NewRequest(calls))[d]
      IN  /\ b.pc = r.pc /\ b.kind = r.kind /\ b.answer = r.answer
          /\ b.cookie = r.cookie /\ ~b.cur /\ b.latest = r.latest
  BY <1>2, <1>3 DEF CallRecords
<1> QED
  BY <1>4, <1>5, <1>6

\* The steps that end a call or send one leave the others, or make them older.
LEMMA FinishOne ==
  ASSUME TypeOK, NEW c \in Calls, NEW answer, Finish(c, answer)
  PROVE  calls'[c] = Idle /\ \A d \in Calls : d # c => calls'[d] = calls[d]
BY DEF Finish, TypeOK

LEMMA ExpireOne ==
  ASSUME TypeOK, NEW c \in Calls, Expire(c)
  PROVE  /\ calls'[c] = Idle
         /\ \A d \in Calls : d # c => Kept(d) /\ ~calls'[d].cur /\ ~calls'[d].latest
<1>1. NewEpoch(NewRequest(calls)) \in [Calls -> CallRecords]
  BY NewEpochType DEF TypeOK
<1>2. calls'[c] = Idle
  BY <1>1 DEF Expire
<1>3. ASSUME NEW d \in Calls, d # c
      PROVE  Kept(d) /\ ~calls'[d].cur /\ ~calls'[d].latest
  <2>1. calls'[d] = NewEpoch(NewRequest(calls))[d]
    BY <1>1, <1>3 DEF Expire
  <2> QED
    BY <2>1, NewEpochKeeps DEF Kept
<1> QED
  BY <1>2, <1>3

LEMMA SendPageOne ==
  ASSUME TypeOK, NEW c \in Calls, SendPage(c)
  PROVE  calls'[c] = Sent("page", jar) /\ \A d \in Calls : d # c => calls'[d] = calls[d]
BY DEF SendPage, TypeOK

LEMMA RetryOne ==
  ASSUME TypeOK, NEW c \in Calls, Retry(c)
  PROVE  /\ calls'[c] = Sent("me", jar)
         /\ \A d \in Calls : d # c => Kept(d) /\ calls'[d].cur = calls[d].cur /\ ~calls'[d].latest
<1>1. NewRequest(calls) \in [Calls -> CallRecords]
  BY NewEpochType DEF TypeOK
<1>2. calls'[c] = Sent("me", jar)
  BY <1>1 DEF Retry
<1>3. ASSUME NEW d \in Calls, d # c
      PROVE  Kept(d) /\ calls'[d].cur = calls[d].cur /\ ~calls'[d].latest
  <2>1. calls'[d] = NewRequest(calls)[d]
    BY <1>1, <1>3 DEF Retry
  <2> QED
    BY <2>1, NewEpochKeeps DEF Kept
<1> QED
  BY <1>2, <1>3

\* A session that is established ends every epoch before; its own request, if
\* it makes one, is the latest.
LEMMA EstablishOne ==
  ASSUME TypeOK, NEW a \in Accounts, NEW asks \in BOOLEAN, Establish(a, asks)
  PROVE  /\ jar' = Session(a) /\ ~logoutPending'
         /\ refresh'.pc = refresh.pc /\ refresh'.cookie = refresh.cookie /\ ~refresh'.cur
         /\ asks => \E c \in Calls :
                      /\ calls[c].pc = "idle" /\ calls'[c] = Sent("me", Session(a))
                      /\ \A d \in Calls : d # c => Kept(d) /\ ~calls'[d].cur /\ ~calls'[d].latest
         /\ ~asks => \A d \in Calls : Kept(d) /\ ~calls'[d].cur /\ calls'[d].latest = calls[d].latest
<1>1. NewEpoch(NewRequest(calls)) \in [Calls -> CallRecords]
  BY NewEpochType DEF TypeOK
<1>2. ASSUME asks
      PROVE  \E c \in Calls :
               /\ calls[c].pc = "idle" /\ calls'[c] = Sent("me", Session(a))
               /\ \A d \in Calls : d # c => Kept(d) /\ ~calls'[d].cur /\ ~calls'[d].latest
  <2>1. PICK c \in Free : calls' = [NewEpoch(NewRequest(calls)) EXCEPT ![c] = Sent("me", Session(a))]
    BY <1>2 DEF Establish
  <2>2. calls[c].pc = "idle" /\ c \in Calls
    BY DEF Free
  <2>3. calls'[c] = Sent("me", Session(a))
    BY <1>1, <2>1, <2>2
  <2>4. ASSUME NEW d \in Calls, d # c
        PROVE  Kept(d) /\ ~calls'[d].cur /\ ~calls'[d].latest
    <3>1. calls'[d] = NewEpoch(NewRequest(calls))[d]
      BY <1>1, <2>1, <2>4
    <3> QED
      BY <3>1, NewEpochKeeps DEF Kept
  <2> QED
    BY <2>2, <2>3, <2>4
<1>3. ASSUME ~asks, NEW d \in Calls
      PROVE  Kept(d) /\ ~calls'[d].cur /\ calls'[d].latest = calls[d].latest
  <2>1. calls'[d] = NewEpoch(calls)[d]
    BY <1>3 DEF Establish
  <2> QED
    BY <2>1, NewEpochKeeps DEF Kept
<1>4. /\ jar' = Session(a) /\ ~logoutPending'
      /\ refresh'.pc = refresh.pc /\ refresh'.cookie = refresh.cookie /\ ~refresh'.cur
  BY DEF Establish, TypeOK
<1> QED
  BY <1>2, <1>3, <1>4

\* A login that is sent, a logout, and the end of one.
LEMMA LoginAges ==
  ASSUME TypeOK, NEW a \in Accounts, Login(a), NEW d \in Calls
  PROVE  Kept(d) /\ calls'[d].cur = calls[d].cur /\ ~calls'[d].latest
<1>1. calls'[d] = NewRequest(calls)[d]
  BY DEF Login
<1> QED
  BY <1>1, NewEpochKeeps DEF Kept

LEMMA LogoutAges ==
  ASSUME TypeOK, Logout, NEW d \in Calls
  PROVE  Kept(d) /\ ~calls'[d].cur /\ ~calls'[d].latest
<1>1. calls'[d] = NewEpoch(NewRequest(calls))[d]
  BY DEF Logout
<1> QED
  BY <1>1, NewEpochKeeps DEF Kept

LEMMA AnswerLogoutAges ==
  ASSUME TypeOK, AnswerLogout, NEW d \in Calls
  PROVE  Kept(d) /\ ~calls'[d].cur /\ calls'[d].latest = calls[d].latest
<1>1. calls'[d] = NewEpoch(calls)[d]
  BY DEF AnswerLogout
<1> QED
  BY <1>1, NewEpochKeeps DEF Kept

\* A reset takes the life of the cookies of its account, and nothing else.
Spoilt(k, n) == /\ n.owner = k.owner /\ n.access = k.access
                /\ n.live = (k.live /\ k.owner # jar.owner)

LEMMA RevokeSpoils ==
  ASSUME BrowserAssumption, TypeOK, NEW a \in Accounts, Revoke(a)
  PROVE  /\ Spoilt(jar, jar') /\ Spoilt(refresh.cookie, refresh'.cookie)
         /\ refresh'.pc = refresh.pc /\ refresh'.cur = refresh.cur
         /\ \A d \in Calls :
              /\ calls'[d].pc = calls[d].pc /\ calls'[d].kind = calls[d].kind
              /\ calls'[d].answer = calls[d].answer /\ calls'[d].cur = calls[d].cur
              /\ calls'[d].latest = calls[d].latest
              /\ Spoilt(calls[d].cookie, calls'[d].cookie)
<1> DEFINE dead(k) == IF k.owner = a THEN [k EXCEPT !.live = FALSE] ELSE k
<1>1. jar.owner = a
  BY DEF Revoke
<1>2. \A k \in Cookies : Spoilt(k, dead(k))
  BY <1>1 DEF Spoilt, Cookies
<1>3. /\ jar' = dead(jar)
      /\ calls' = [c \in Calls |-> [calls[c] EXCEPT !.cookie = dead(calls[c].cookie)]]
      /\ refresh' = [refresh EXCEPT !.cookie = dead(refresh.cookie)]
  BY DEF Revoke
<1> HIDE DEF dead
<1>4. refresh'.cookie = dead(refresh.cookie) /\ refresh'.pc = refresh.pc /\ refresh'.cur = refresh.cur
  BY <1>3 DEF TypeOK
<1>5. ASSUME NEW d \in Calls
      PROVE  /\ calls'[d].pc = calls[d].pc /\ calls'[d].kind = calls[d].kind
             /\ calls'[d].answer = calls[d].answer /\ calls'[d].cur = calls[d].cur
             /\ calls'[d].latest = calls[d].latest
             /\ calls'[d].cookie = dead(calls[d].cookie) /\ calls[d].cookie \in Cookies
  <2>1. calls'[d] = [calls[d] EXCEPT !.cookie = dead(calls[d].cookie)]
    BY <1>3
  <2>2. calls[d] \in CallRecords
    BY DEF TypeOK
  <2> QED
    BY <2>1, <2>2 DEF CallRecords
<1>6. jar \in Cookies /\ refresh.cookie \in Cookies
  BY DEF TypeOK
<1> QED
  BY <1>2, <1>3, <1>4, <1>5, <1>6

\* The answer to a refresh lets the calls that wait for it go on.
LEMMA RefreshAnswered ==
  ASSUME BrowserAssumption, TypeOK, AnswerRefresh
  PROVE  \E answer \in RefreshAnswers(refresh.cookie) :
           /\ answer \in Codes /\ jar' = SetByRefresh(answer)
           /\ answer = 200 => refresh.cookie.live
           /\ overtaken' = (overtaken \/ (answer = 200 /\ ~refresh.cur))
           /\ \A d \in Calls :
                /\ calls'[d].kind = calls[d].kind /\ calls'[d].cookie = calls[d].cookie
                /\ calls'[d].cur = calls[d].cur /\ calls'[d].latest = calls[d].latest
                /\ \/ calls[d].pc = "refreshing" /\ calls'[d].pc = "resumed" /\ calls'[d].answer = answer
                   \/ calls[d].pc # "refreshing" /\ calls'[d] = calls[d]
<1>1. PICK answer \in RefreshAnswers(refresh.cookie) :
        /\ jar' = SetByRefresh(answer)
        /\ calls' = [c \in Calls |-> IF calls[c].pc = "refreshing"
                       THEN [calls[c] EXCEPT !.pc = "resumed", !.answer = answer]
                       ELSE calls[c]]
        /\ overtaken' = (overtaken \/ (answer = 200 /\ ~refresh.cur))
  BY DEF AnswerRefresh
<1>2. answer \in Codes /\ (answer = 200 => refresh.cookie.live)
  BY DEF RefreshAnswers, Codes
<1>3. ASSUME NEW d \in Calls
      PROVE  /\ calls'[d].kind = calls[d].kind /\ calls'[d].cookie = calls[d].cookie
             /\ calls'[d].cur = calls[d].cur /\ calls'[d].latest = calls[d].latest
             /\ \/ calls[d].pc = "refreshing" /\ calls'[d].pc = "resumed" /\ calls'[d].answer = answer
                \/ calls[d].pc # "refreshing" /\ calls'[d] = calls[d]
  <2>1. calls[d] \in CallRecords
    BY DEF TypeOK
  <2>2. CASE calls[d].pc = "refreshing"
    <3>1. calls'[d] = [calls[d] EXCEPT !.pc = "resumed", !.answer = answer]
      BY <1>1, <2>2
    <3> QED
      BY <2>1, <2>2, <3>1 DEF CallRecords
  <2>3. CASE calls[d].pc # "refreshing"
    BY <1>1, <2>3
  <2> QED
    BY <2>2, <2>3
<1> QED
  BY <1>1, <1>2, <1>3

Good(k) == k.access /\ k.live

\* An answer to a first attempt ends the call or lets it wait for a refresh, that
\* of another call or its own.
LEMMA AnswerOne ==
  ASSUME TypeOK, NEW c \in Calls, Answer(c)
  PROVE  \/ \E answer \in GetAnswers(calls[c].cookie) :
              /\ Finish(c, answer) /\ UNCHANGED refresh
              /\ answer = 200 => Good(calls[c].cookie)
         \/ /\ calls[c].cur /\ ~logoutPending /\ ~Good(calls[c].cookie)
            /\ calls'[c].pc = "refreshing" /\ calls'[c].cookie = NoCookie
            /\ calls'[c].kind = calls[c].kind /\ calls'[c].cur = calls[c].cur
            /\ calls'[c].latest = calls[c].latest
            /\ \A d \in Calls : d # c => calls'[d] = calls[d]
            /\ UNCHANGED shown
            /\ \/ refresh.pc # "idle" /\ UNCHANGED refresh
               \/ refresh.pc = "idle" /\ refresh' = [pc |-> "sent", cookie |-> jar, cur |-> TRUE]
<1>1. PICK answer \in GetAnswers(calls[c].cookie) :
        IF answer = 401 /\ MayRefresh(c)
        THEN /\ calls' = [calls EXCEPT ![c] = [@ EXCEPT !.pc = "refreshing", !.cookie = NoCookie]]
             /\ refresh' = IF refresh.pc = "idle" THEN [pc |-> "sent", cookie |-> jar, cur |-> TRUE]
                           ELSE refresh
             /\ UNCHANGED shown
        ELSE Finish(c, answer) /\ UNCHANGED refresh
  BY DEF Answer
<1>2. (answer = 401 => ~Good(calls[c].cookie)) /\ (answer = 200 => Good(calls[c].cookie))
  BY DEF GetAnswers, Good
<1>3. CASE answer = 401 /\ MayRefresh(c)
  <2>1. calls[c] \in CallRecords
    BY DEF TypeOK
  <2>2. /\ calls'[c] = [calls[c] EXCEPT !.pc = "refreshing", !.cookie = NoCookie]
        /\ \A d \in Calls : d # c => calls'[d] = calls[d]
    BY <1>1, <1>3 DEF TypeOK
  <2>3. /\ calls'[c].pc = "refreshing" /\ calls'[c].cookie = NoCookie
        /\ calls'[c].kind = calls[c].kind /\ calls'[c].cur = calls[c].cur
        /\ calls'[c].latest = calls[c].latest
    BY <2>1, <2>2 DEF CallRecords
  <2>4. /\ calls[c].cur /\ ~logoutPending /\ ~Good(calls[c].cookie) /\ UNCHANGED shown
        /\ \/ refresh.pc # "idle" /\ UNCHANGED refresh
           \/ refresh.pc = "idle" /\ refresh' = [pc |-> "sent", cookie |-> jar, cur |-> TRUE]
    BY <1>1, <1>2, <1>3 DEF MayRefresh
  <2> QED
    BY <2>2, <2>3, <2>4
<1>4. CASE ~(answer = 401 /\ MayRefresh(c))
  BY <1>1, <1>2, <1>4
<1> QED
  BY <1>3, <1>4

LEMMA AnswerRetryOne ==
  ASSUME TypeOK, NEW c \in Calls, AnswerRetry(c)
  PROVE  \/ \E answer \in GetAnswers(calls[c].cookie) :
              Finish(c, answer) /\ (answer = 200 => Good(calls[c].cookie))
         \/ Expire(c) /\ calls[c].cur /\ ~Good(calls[c].cookie)
<1>1. PICK answer \in GetAnswers(calls[c].cookie) :
        IF answer = 401 /\ MayRefresh(c) THEN Expire(c) ELSE Finish(c, answer)
  BY DEF AnswerRetry
<1>2. (answer = 401 => ~Good(calls[c].cookie)) /\ (answer = 200 => Good(calls[c].cookie))
  BY DEF GetAnswers, Good
<1> QED
  BY <1>1, <1>2 DEF MayRefresh

\* A call whose refresh was answered.
LEMMA ResumeOne ==
  ASSUME TypeOK, NEW c \in Calls, Resume(c)
  PROVE  \/ \E answer \in Codes : Finish(c, answer) /\ answer # 200
         \/ Expire(c) /\ calls[c].answer = 401 /\ calls[c].cur
         \/ /\ calls[c].answer = 200 /\ UNCHANGED shown
            /\ calls'[c].pc = "retried" /\ calls'[c].cookie = jar
            /\ calls'[c].kind = calls[c].kind /\ calls'[c].cur = calls[c].cur
            /\ calls'[c].latest = calls[c].latest
            /\ \A d \in Calls : d # c => calls'[d] = calls[d]
<1> DEFINE answer == calls[c].answer
<1>0. calls[c] \in CallRecords
  BY DEF TypeOK
<1>1. answer \in Codes /\ 0 \in Codes /\ 401 \in Codes
  BY <1>0 DEF CallRecords, Codes
<1>2. \/ answer = 0 /\ Finish(c, 0)
      \/ Finish(c, 401)
      \/ /\ answer = 200 /\ UNCHANGED shown
         /\ calls' = [calls EXCEPT ![c] = [@ EXCEPT !.pc = "retried", !.cookie = jar]]
      \/ answer = 401 /\ Expire(c) /\ MayRefresh(c)
      \/ answer # 200 /\ Finish(c, answer)
  BY DEF Resume
<1>3. CASE /\ answer = 200 /\ UNCHANGED shown
           /\ calls' = [calls EXCEPT ![c] = [@ EXCEPT !.pc = "retried", !.cookie = jar]]
  <2>2. /\ calls'[c] = [calls[c] EXCEPT !.pc = "retried", !.cookie = jar]
        /\ \A d \in Calls : d # c => calls'[d] = calls[d]
    BY <1>3 DEF TypeOK
  <2>3. /\ calls'[c].pc = "retried" /\ calls'[c].cookie = jar
        /\ calls'[c].kind = calls[c].kind /\ calls'[c].cur = calls[c].cur
        /\ calls'[c].latest = calls[c].latest
    BY <1>0, <2>2 DEF CallRecords
  <2> QED
    BY <1>3, <2>2, <2>3
<1>4. CASE Finish(c, 401)
  BY <1>1, <1>4
<1>5. CASE answer = 0 /\ Finish(c, 0)
  BY <1>1, <1>5
<1>6. CASE answer = 401 /\ Expire(c) /\ MayRefresh(c)
  BY <1>6 DEF MayRefresh
<1>7. CASE answer # 200 /\ Finish(c, answer)
  BY <1>1, <1>7
<1> QED
  BY <1>2, <1>3, <1>4, <1>5, <1>6, <1>7

-----------------------------------------------------------------------------
(* The calls and the request that is the latest.                           *)

Owned(k) == k.live => k.owner # Nobody

\* An account has every cookie the server honours.  One session request is the
\* latest; no refresh is under way while its calls go on.
CallsInv ==
    /\ Owned(jar) /\ Owned(refresh.cookie)
    /\ \A c \in Calls :
         /\ Owned(calls[c].cookie)
         /\ calls[c].pc = "idle" => calls[c].kind = "none" /\ ~calls[c].cur /\ ~calls[c].latest
         /\ calls[c].latest => calls[c].kind \in {"mount", "me"}
         /\ calls[c].pc = "resumed" => refresh.pc = "idle"
         /\ \A d \in Calls : calls[c].latest /\ calls[d].latest => c = d

LEMMA OwnedCookies ==
  ASSUME BrowserAssumption
  PROVE  /\ Owned(NoCookie)
         /\ \A a \in Accounts : Owned(Session(a)) /\ Good(Session(a)) /\ Session(a).owner = a
         /\ Idle.pc = "idle" /\ Idle.kind = "none" /\ ~Idle.cur /\ ~Idle.latest
         /\ Idle.cookie = NoCookie
         /\ NoCookie.owner = Nobody /\ ~NoCookie.live /\ ~NoCookie.access
         /\ \A kind, k : /\ Sent(kind, k).pc = "sent" /\ Sent(kind, k).kind = kind
                         /\ Sent(kind, k).cur /\ Sent(kind, k).cookie = k
         /\ \A k : ~Sent("page", k).latest /\ Sent("me", k).latest /\ Sent("mount", k).latest
BY DEF BrowserAssumption, Owned, Good, NoCookie, Session, Idle, Sent

LEMMA CallsInit ==
  ASSUME BrowserAssumption, Init
  PROVE  CallsInv
<1>1. PICK a \in Accounts, c \in Calls :
        /\ jar \in {NoCookie, Session(a), [Session(a) EXCEPT !.access = FALSE]}
        /\ calls = [d \in Calls |-> IF d = c THEN Sent("mount", jar) ELSE Idle]
  BY DEF Init
<1>2. Owned(jar)
  BY <1>1 DEF Owned, NoCookie, Session, BrowserAssumption
<1>3. refresh.cookie = NoCookie /\ refresh.pc = "idle"
  BY DEF Init
<1> QED
  BY <1>1, <1>2, <1>3, OwnedCookies DEF CallsInv

LEMMA CallsStep ==
  ASSUME BrowserAssumption, TypeOK, CallsInv, [Next]_vars
  PROVE  CallsInv'
<1> USE OwnedCookies
<1>1. ASSUME NEW c \in Calls, NEW answer, Finish(c, answer), UNCHANGED <<jar, refresh>>
      PROVE  CallsInv'
  BY <1>1, FinishOne DEF CallsInv
<1>2. ASSUME NEW c \in Calls, Expire(c), UNCHANGED <<jar, refresh>>
      PROVE  CallsInv'
  BY <1>2, ExpireOne DEF CallsInv, Kept
<1>3. ASSUME NEW c \in Calls, Resume(c) PROVE CallsInv'
  <2>1. UNCHANGED <<jar, refresh>> /\ calls[c].pc = "resumed"
    BY <1>3 DEF Resume
  <2>2. CASE /\ calls'[c].pc = "retried" /\ calls'[c].cookie = jar
             /\ calls'[c].kind = calls[c].kind /\ calls'[c].cur = calls[c].cur
             /\ calls'[c].latest = calls[c].latest
             /\ \A d \in Calls : d # c => calls'[d] = calls[d]
    BY <2>1, <2>2 DEF CallsInv
  <2> QED
    BY <1>1, <1>2, <1>3, <2>1, <2>2, ResumeOne
<1>4. ASSUME NEW c \in Calls, Answer(c), Quiet PROVE CallsInv'
  <2>1. UNCHANGED jar /\ calls[c].pc = "sent"
    BY <1>4 DEF Answer
  <2>2. CASE /\ calls'[c].pc = "refreshing" /\ calls'[c].cookie = NoCookie
             /\ calls'[c].kind = calls[c].kind /\ calls'[c].cur = calls[c].cur
             /\ calls'[c].latest = calls[c].latest
             /\ \A d \in Calls : d # c => calls'[d] = calls[d]
             /\ \/ UNCHANGED refresh
                \/ refresh.pc = "idle" /\ refresh' = [pc |-> "sent", cookie |-> jar, cur |-> TRUE]
    BY <1>4, <2>1, <2>2 DEF CallsInv, Quiet
  <2> QED
    BY <1>1, <1>4, <2>1, <2>2, AnswerOne
<1>5. ASSUME NEW c \in Calls, AnswerRetry(c) PROVE CallsInv'
  <2>1. UNCHANGED <<jar, refresh>>
    BY <1>5 DEF AnswerRetry
  <2> QED
    BY <1>1, <1>2, <1>5, <2>1, AnswerRetryOne
<1>6. ASSUME NEW c \in Calls, SendPage(c) PROVE CallsInv'
  <2>1. UNCHANGED <<jar, refresh>>
    BY <1>6 DEF SendPage
  <2> QED
    BY <1>6, <2>1, SendPageOne DEF CallsInv
<1>7. ASSUME NEW c \in Calls, Retry(c) PROVE CallsInv'
  <2>1. UNCHANGED <<jar, refresh>> /\ calls[c].pc = "idle"
    BY <1>7 DEF Retry, Free
  <2> QED
    BY <1>7, <2>1, RetryOne DEF CallsInv, Kept
<1>8. ASSUME AnswerRefresh PROVE CallsInv'
  <2>1. PICK answer \in RefreshAnswers(refresh.cookie) :
           /\ answer \in Codes /\ jar' = SetByRefresh(answer)
           /\ answer = 200 => refresh.cookie.live
           /\ \A d \in Calls :
                /\ calls'[d].kind = calls[d].kind /\ calls'[d].cookie = calls[d].cookie
                /\ calls'[d].cur = calls[d].cur /\ calls'[d].latest = calls[d].latest
                /\ \/ calls[d].pc = "refreshing" /\ calls'[d].pc = "resumed" /\ calls'[d].answer = answer
                   \/ calls[d].pc # "refreshing" /\ calls'[d] = calls[d]
    BY <1>8, RefreshAnswered
  <2>2. refresh'.pc = "idle" /\ refresh'.cookie = NoCookie
    BY <1>8 DEF AnswerRefresh
  <2>3. Owned(jar')
    <3>1. answer = 200 => refresh.cookie.owner \in Accounts
      BY <2>1 DEF CallsInv, Owned, TypeOK, Cookies
    <3> QED
      BY <2>1, <3>1 DEF SetByRefresh, CallsInv
  <2> QED
    BY <2>1, <2>2, <2>3 DEF CallsInv
<1>9. ASSUME NEW a \in Accounts, NEW asks \in BOOLEAN, Establish(a, asks) PROVE CallsInv'
  <2>1. Owned(jar') /\ Owned(refresh'.cookie) /\ refresh'.pc = refresh.pc
    BY <1>9, EstablishOne DEF CallsInv
  <2>2. CASE asks
    <3>1. PICK c \in Calls : /\ calls[c].pc = "idle" /\ calls'[c] = Sent("me", Session(a))
                             /\ \A d \in Calls : d # c => Kept(d) /\ ~calls'[d].cur /\ ~calls'[d].latest
      BY <1>9, <2>2, EstablishOne
    <3> QED
      BY <2>1, <3>1 DEF CallsInv, Kept
  <2>3. CASE ~asks
    <3>1. \A d \in Calls : Kept(d)
      BY <1>9, <2>3, EstablishOne
    <3> QED
      BY <2>1, <3>1 DEF CallsInv, Kept
  <2> QED
    BY <2>2, <2>3
<1>10. ASSUME UNCHANGED <<jar, calls, refresh>> PROVE CallsInv'
  BY <1>10 DEF CallsInv
<1>11. ASSUME AnswerLogin PROVE CallsInv'
  <2>1. login \in Accounts
    BY <1>11 DEF AnswerLogin, TypeOK
  <2> QED
    BY <1>9, <1>10, <1>11, <2>1 DEF AnswerLogin
<1>12. ASSUME AnswerPoll PROVE CallsInv'
  <2>1. Waiting \in BOOLEAN /\ (handoff.cookie # Nobody => handoff.cookie \in Accounts)
    BY DEF Waiting, TypeOK
  <2>2. CASE UNCHANGED <<jar, calls, refresh>>
    BY <1>10, <2>2
  <2>3. ASSUME NEW asks \in {FALSE, Waiting}, Establish(handoff.cookie, asks), handoff.cookie # Nobody
        PROVE  CallsInv'
    <3>1. asks \in BOOLEAN
      BY <2>1
    <3> QED
      BY <1>9, <2>1, <2>3, <3>1
  <2> QED
    BY <1>12, <2>2, <2>3 DEF AnswerPoll
<1>13. ASSUME \A d \in Calls : Kept(d), UNCHANGED refresh, jar' \in {jar, NoCookie} PROVE CallsInv'
  BY <1>13 DEF CallsInv, Kept
<1>14. ASSUME AnswerLogout PROVE CallsInv'
  BY <1>13, <1>14, AnswerLogoutAges DEF AnswerLogout
<1>15. ASSUME NEW a \in Accounts, Login(a) PROVE CallsInv'
  BY <1>13, <1>15, LoginAges DEF Login
<1>16. ASSUME Logout PROVE CallsInv'
  BY <1>13, <1>16, LogoutAges DEF Logout
<1>17. ASSUME NEW a \in Accounts, Register(a) PROVE CallsInv'
  BY <1>10, <1>17 DEF Register
<1>18. ASSUME NEW a \in Accounts, Revoke(a) PROVE CallsInv'
  <2>1. \A k, n : Spoilt(k, n) /\ Owned(k) => Owned(n)
    BY DEF Spoilt, Owned
  <2>2. Owned(jar') /\ Owned(refresh'.cookie) /\ refresh'.pc = refresh.pc
    BY <1>18, <2>1, RevokeSpoils DEF CallsInv
  <2>3. ASSUME NEW c \in Calls
        PROVE  /\ Owned(calls'[c].cookie)
               /\ calls'[c].pc = calls[c].pc /\ calls'[c].kind = calls[c].kind
               /\ calls'[c].cur = calls[c].cur /\ calls'[c].latest = calls[c].latest
    BY <1>18, <2>1, RevokeSpoils DEF CallsInv
  <2> QED
    BY <2>2, <2>3 DEF CallsInv
<1>19. ASSUME Poll PROVE CallsInv'
  BY <1>10, <1>19 DEF Poll
<1>20. ASSUME AccessExpires PROVE CallsInv'
  <2>1. jar'.live = jar.live /\ jar'.owner = jar.owner
    BY <1>20 DEF AccessExpires, TypeOK, Cookies
  <2> QED
    BY <1>20, <2>1 DEF AccessExpires, CallsInv, Owned
<1>21. CASE UNCHANGED vars
  BY <1>10, <1>21 DEF vars
<1> QED
  BY <1>3, <1>4, <1>5, <1>6, <1>7, <1>8, <1>11, <1>12, <1>14, <1>15, <1>16, <1>17, <1>18,
     <1>19, <1>20, <1>21 DEF Next, Answers

-----------------------------------------------------------------------------
(* Calls that end the session on the screen.                               *)

\* A call that resumes after a refresh finds what the refresh left.  A call
\* that was sent again in this epoch was sent with cookies that the server
\* honoured: when it does not any more, it honours none that came after them.
ExpiryInv ==
    \A c \in Calls :
      /\ calls[c].pc = "resumed" /\ calls[c].answer = 401 => ~jar.live
      /\ calls[c].pc = "resumed" /\ calls[c].answer = 200 => Good(jar)
      /\ calls[c].pc = "retried" /\ calls[c].cur =>
           /\ calls[c].cookie.access
           /\ jar.owner \in {calls[c].cookie.owner, Nobody}
           /\ refresh.cookie.owner \in {calls[c].cookie.owner, Nobody}
           /\ calls[c].cookie.live \/ (~jar.live /\ ~refresh.cookie.live)

LEMMA ExpiryInit ==
  ASSUME Init
  PROVE  ExpiryInv
<1>1. \A c \in Calls : calls[c].pc \in {"idle", "sent"}
  BY DEF Init, Sent, Idle
<1> QED
  BY <1>1 DEF ExpiryInv

LEMMA ExpiryStep ==
  ASSUME BrowserAssumption, TypeOK, LogoutInv, CallsInv, ExpiryInv, [Next]_vars
  PROVE  ExpiryInv'
<1> USE OwnedCookies
<1>1. ASSUME UNCHANGED <<jar, refresh>>,
             \A d \in Calls : calls'[d].pc \notin {"resumed", "retried"} \/ Kept(d)
      PROVE  ExpiryInv'
  BY <1>1 DEF ExpiryInv, Kept
<1>2. ASSUME \A d \in Calls : calls'[d].pc # "resumed" /\ (calls'[d].pc = "retried" => ~calls'[d].cur)
      PROVE  ExpiryInv'
  BY <1>2 DEF ExpiryInv
<1>3. ASSUME NEW c \in Calls, NEW answer, Finish(c, answer), UNCHANGED <<jar, refresh>>
      PROVE  ExpiryInv'
  <2>1. \A d \in Calls : calls'[d].pc \notin {"resumed", "retried"} \/ Kept(d)
    BY <1>3, FinishOne DEF Kept
  <2> QED
    BY <1>1, <1>3, <2>1
<1>4. ASSUME NEW c \in Calls, Expire(c), UNCHANGED <<jar, refresh>>
      PROVE  ExpiryInv'
  <2>1. \A d \in Calls : calls'[d].pc \notin {"resumed", "retried"} \/ Kept(d)
    BY <1>4, ExpireOne
  <2> QED
    BY <1>1, <1>4, <2>1
<1>5. ASSUME NEW c \in Calls, Resume(c) PROVE ExpiryInv'
  <2>1. UNCHANGED <<jar, refresh>> /\ calls[c].pc = "resumed"
    BY <1>5 DEF Resume
  <2>2. CASE /\ calls[c].answer = 200
             /\ calls'[c].pc = "retried" /\ calls'[c].cookie = jar
             /\ \A d \in Calls : d # c => calls'[d] = calls[d]
    <3>1. refresh.cookie = NoCookie
      BY <2>1 DEF CallsInv, LogoutInv
    <3>2. jar.access /\ jar.live
      BY <2>1, <2>2 DEF ExpiryInv, Good
    <3> QED
      BY <2>1, <2>2, <3>1, <3>2 DEF ExpiryInv
  <2> QED
    BY <1>3, <1>4, <1>5, <2>1, <2>2, ResumeOne
<1>6. ASSUME NEW c \in Calls, Answer(c) PROVE ExpiryInv'
  <2>1. UNCHANGED jar
    BY <1>6 DEF Answer
  <2>2. CASE /\ calls'[c].pc = "refreshing"
             /\ \A d \in Calls : d # c => calls'[d] = calls[d]
             /\ \/ UNCHANGED refresh
                \/ refresh.pc = "idle" /\ refresh' = [pc |-> "sent", cookie |-> jar, cur |-> TRUE]
    <3>1. refresh'.cookie \in {refresh.cookie, jar}
      BY <2>2
    <3> QED
      BY <2>1, <2>2, <3>1 DEF ExpiryInv
  <2> QED
    BY <1>3, <1>6, <2>1, <2>2, AnswerOne
<1>7. ASSUME NEW c \in Calls, AnswerRetry(c) PROVE ExpiryInv'
  <2>1. UNCHANGED <<jar, refresh>>
    BY <1>7 DEF AnswerRetry
  <2> QED
    BY <1>3, <1>4, <1>7, <2>1, AnswerRetryOne
<1>8. ASSUME NEW c \in Calls, SendPage(c) \/ Retry(c) PROVE ExpiryInv'
  <2>1. UNCHANGED <<jar, refresh>>
    BY <1>8 DEF SendPage, Retry
  <2>2. \A d \in Calls : calls'[d].pc \notin {"resumed", "retried"} \/ Kept(d)
    BY <1>8, SendPageOne, RetryOne DEF Kept
  <2> QED
    BY <1>1, <2>1, <2>2
<1>9. ASSUME AnswerRefresh, Quiet PROVE ExpiryInv'
  <2>1. PICK answer \in RefreshAnswers(refresh.cookie) :
           /\ answer \in Codes /\ jar' = SetByRefresh(answer)
           /\ answer = 200 => refresh.cookie.live
           /\ \A d \in Calls :
                /\ calls'[d].kind = calls[d].kind /\ calls'[d].cookie = calls[d].cookie
                /\ calls'[d].cur = calls[d].cur /\ calls'[d].latest = calls[d].latest
                /\ \/ calls[d].pc = "refreshing" /\ calls'[d].pc = "resumed" /\ calls'[d].answer = answer
                   \/ calls[d].pc # "refreshing" /\ calls'[d] = calls[d]
    BY <1>9, RefreshAnswered
  <2>2. refresh'.cookie = NoCookie
    BY <1>9 DEF AnswerRefresh
  <2>3. answer = 200 => /\ jar' = Session(refresh.cookie.owner) /\ refresh.cookie.owner \in Accounts
                        /\ Good(jar') /\ jar'.owner = refresh.cookie.owner
    BY <2>1 DEF SetByRefresh, CallsInv, Owned, TypeOK, Cookies
  <2>4. /\ answer = 401 => jar' = NoCookie
        /\ answer \notin {200, 401} => jar' = jar
    BY <2>1 DEF SetByRefresh
  <2>5. ASSUME NEW c \in Calls, calls'[c].pc = "resumed"
        PROVE  calls'[c].answer = answer
    BY <1>9, <2>1, <2>5 DEF Quiet
  <2>6. ASSUME NEW c \in Calls, calls'[c].pc = "retried", calls'[c].cur
        PROVE  /\ calls'[c].cookie.access
               /\ jar'.owner \in {calls'[c].cookie.owner, Nobody}
               /\ calls'[c].cookie.live \/ ~jar'.live
    <3>1. calls[c].pc = "retried" /\ calls[c].cur /\ calls'[c].cookie = calls[c].cookie
      BY <2>1, <2>6
    <3> QED
      BY <2>1, <2>3, <2>4, <3>1 DEF ExpiryInv
  <2> QED
    BY <2>2, <2>3, <2>4, <2>5, <2>6 DEF ExpiryInv
<1>10. ASSUME NEW a \in Accounts, NEW asks \in BOOLEAN, Establish(a, asks), Quiet PROVE ExpiryInv'
  <2>1. CASE asks
    <3>1. PICK c \in Calls : /\ calls'[c] = Sent("me", Session(a))
                             /\ \A d \in Calls : d # c => Kept(d) /\ ~calls'[d].cur
      BY <1>10, <2>1, EstablishOne
    <3> QED
      BY <1>2, <1>10, <3>1 DEF Kept, Quiet
  <2>2. CASE ~asks
    <3>1. \A d \in Calls : Kept(d) /\ ~calls'[d].cur
      BY <1>10, <2>2, EstablishOne
    <3> QED
      BY <1>2, <1>10, <3>1 DEF Kept, Quiet
  <2> QED
    BY <2>1, <2>2
<1>11. ASSUME UNCHANGED <<jar, calls, refresh>> PROVE ExpiryInv'
  BY <1>11 DEF ExpiryInv
<1>12. ASSUME AnswerLogin, Quiet PROVE ExpiryInv'
  <2>1. login \in Accounts
    BY <1>12 DEF AnswerLogin, TypeOK
  <2> QED
    BY <1>10, <1>11, <1>12, <2>1 DEF AnswerLogin
<1>13. ASSUME AnswerPoll, Quiet PROVE ExpiryInv'
  <2>1. Waiting \in BOOLEAN /\ (handoff.cookie # Nobody => handoff.cookie \in Accounts)
    BY DEF Waiting, TypeOK
  <2>2. CASE UNCHANGED <<jar, calls, refresh>>
    BY <1>11, <2>2
  <2>3. ASSUME NEW asks \in {FALSE, Waiting}, Establish(handoff.cookie, asks), handoff.cookie # Nobody
        PROVE  ExpiryInv'
    <3>1. asks \in BOOLEAN
      BY <2>1
    <3> QED
      BY <1>10, <1>13, <2>1, <2>3, <3>1
  <2> QED
    BY <1>13, <2>2, <2>3 DEF AnswerPoll
<1>14. ASSUME AnswerLogout, Quiet PROVE ExpiryInv'
  BY <1>2, <1>14, AnswerLogoutAges DEF Kept, Quiet
<1>15. ASSUME NEW a \in Accounts, Login(a) PROVE ExpiryInv'
  BY <1>1, <1>15, LoginAges DEF Login
<1>16. ASSUME Logout PROVE ExpiryInv'
  BY <1>1, <1>16, LogoutAges DEF Logout
<1>17. ASSUME NEW a \in Accounts, Register(a) PROVE ExpiryInv'
  BY <1>11, <1>17 DEF Register
<1>18. ASSUME NEW a \in Accounts, Revoke(a), Quiet PROVE ExpiryInv'
  <2>1. /\ Spoilt(jar, jar') /\ Spoilt(refresh.cookie, refresh'.cookie)
        /\ \A d \in Calls :
             /\ calls'[d].pc = calls[d].pc /\ calls'[d].cur = calls[d].cur
             /\ Spoilt(calls[d].cookie, calls'[d].cookie)
    BY <1>18, RevokeSpoils
  <2>2. jar.owner # Nobody /\ (refresh.cookie.owner = Nobody => ~refresh.cookie.live)
    BY <1>18 DEF Revoke, BrowserAssumption, CallsInv, Owned
  <2>3. ASSUME NEW c \in Calls, calls'[c].pc = "retried", calls'[c].cur
        PROVE  /\ calls'[c].cookie.access
               /\ jar'.owner \in {calls'[c].cookie.owner, Nobody}
               /\ refresh'.cookie.owner \in {calls'[c].cookie.owner, Nobody}
               /\ calls'[c].cookie.live \/ (~jar'.live /\ ~refresh'.cookie.live)
    <3>1. /\ calls[c].cookie.access
          /\ jar.owner = calls[c].cookie.owner
          /\ refresh.cookie.owner \in {calls[c].cookie.owner, Nobody}
          /\ calls[c].cookie.live \/ (~jar.live /\ ~refresh.cookie.live)
      BY <2>1, <2>2, <2>3 DEF ExpiryInv
    <3>2. ~jar'.live /\ ~refresh'.cookie.live
      BY <2>1, <2>2, <3>1 DEF Spoilt
    <3> QED
      BY <2>1, <3>1, <3>2 DEF Spoilt
  <2>4. \A c \in Calls : calls'[c].pc # "resumed"
    BY <1>18, <2>1 DEF Quiet
  <2> QED
    BY <2>3, <2>4 DEF ExpiryInv
<1>19. ASSUME Poll PROVE ExpiryInv'
  BY <1>11, <1>19 DEF Poll
<1>20. ASSUME AccessExpires, Quiet PROVE ExpiryInv'
  <2>1. jar'.live = jar.live /\ jar'.owner = jar.owner
    BY <1>20 DEF AccessExpires, TypeOK, Cookies
  <2> QED
    BY <1>20, <2>1 DEF AccessExpires, ExpiryInv, Quiet
<1>21. CASE UNCHANGED vars
  BY <1>11, <1>21 DEF vars
<1> QED
  BY <1>5, <1>6, <1>7, <1>8, <1>9, <1>12, <1>13, <1>14, <1>15, <1>16, <1>17, <1>18,
     <1>19, <1>20, <1>21 DEF Next, Answers

\* What ends the session on the screen is a logout, or a call whose cookies the
\* server no longer honours.
LEMMA ExpiryIsDead ==
  ASSUME BrowserAssumption, TypeOK, CallsInv, ExpiryInv, [Next]_vars
  PROVE  NoLiveSessionExpires
<1> SUFFICES ASSUME NEW c \in Calls,
                    calls[c].kind = "page", calls'[c].pc = "idle",
                    status = "authenticated", status' = "unauthenticated"
             PROVE  ~jar.live
  BY DEF NoLiveSessionExpires
<1>1. calls[c].pc # "idle" /\ ~calls[c].latest
  BY DEF CallsInv
<1>2. ASSUME NEW d \in Calls, NEW answer, Finish(d, answer) PROVE FALSE
  <2>1. Shows(d)
    BY <1>2 DEF Finish
  <2>2. d # c
    BY <2>1 DEF Shows
  <2> QED
    BY <1>1, <1>2, <2>2, FinishOne
<1>3. ASSUME NEW d \in Calls, Expire(d) PROVE d = c
  BY <1>1, <1>3, ExpireOne DEF Kept
<1>4. ASSUME NEW d \in Calls, Resume(d) PROVE ~jar.live
  <2>1. calls[d].pc = "resumed"
    BY <1>4 DEF Resume
  <2>2. CASE Expire(d) /\ calls[d].answer = 401
    BY <2>1, <2>2 DEF ExpiryInv
  <2>3. CASE UNCHANGED shown
    BY <2>3 DEF shown
  <2> QED
    BY <1>2, <1>4, <2>2, <2>3, ResumeOne
<1>5. ASSUME NEW d \in Calls, Answer(d) PROVE FALSE
  <2>1. CASE UNCHANGED shown
    BY <2>1 DEF shown
  <2> QED
    BY <1>2, <1>5, <2>1, AnswerOne
<1>6. ASSUME NEW d \in Calls, AnswerRetry(d) PROVE ~jar.live
  <2>1. calls[d].pc = "retried"
    BY <1>6 DEF AnswerRetry
  <2>2. CASE Expire(d) /\ calls[d].cur /\ ~Good(calls[d].cookie)
    BY <2>1, <2>2 DEF ExpiryInv, Good
  <2> QED
    BY <1>2, <1>6, <2>2, AnswerRetryOne
<1>7. ASSUME AnswerLogout PROVE FALSE
  BY <1>1, <1>7, AnswerLogoutAges DEF Kept
<1>8. CASE \/ \E d \in Calls : SendPage(d) \/ Retry(d)
           \/ AnswerRefresh \/ AnswerLogin \/ AnswerPoll
           \/ \E a \in Accounts : Login(a) \/ Register(a) \/ Revoke(a)
           \/ Poll \/ Logout \/ AccessExpires \/ UNCHANGED vars
  BY <1>8 DEF SendPage, Retry, AnswerRefresh, AnswerLogin, AnswerPoll, Login, Register, Revoke,
              Poll, Logout, AccessExpires, vars, shown
<1> QED
  BY <1>4, <1>5, <1>6, <1>7, <1>8, Steps

-----------------------------------------------------------------------------
(* Whose session is shown.                                                 *)

Agree(x, y) == x = Nobody \/ y = Nobody \/ x = y

\* Whose session a session request will show, if it is the latest and answered
\* with the cookies it was sent with.
Whose(c) == IF /\ calls[c].latest /\ calls[c].pc \in {"sent", "retried"}
               /\ Good(calls[c].cookie)
            THEN calls[c].cookie.owner ELSE Nobody

\* Whose cookies a refresh of this epoch brings.
Coming == IF refresh.pc = "sent" /\ refresh.cur THEN refresh.cookie.owner ELSE Nobody

\* A refresh that is older than the session.
Late == refresh.pc = "sent" /\ ~refresh.cur

Asking == \E c \in Calls : calls[c].kind = "me" /\ calls[c].latest

\* The cookies, the refresh under way, the latest session request and the user
\* that is shown name one account.
OwnerInv ==
    /\ Agree(Coming, jar.owner)
    /\ ~overtaken => \A c \in Calls : Agree(Whose(c), jar.owner) /\ Agree(Whose(c), Coming)
    /\ status = "authenticated" /\ ~unavailable /\ ~overtaken /\ logout = "idle" /\ ~Asking
         => Agree(user, jar.owner) /\ Agree(user, Coming)
    /\ status = "authenticated" => user # Nobody

\* The end of a logout makes a new beginning: the session request of the
\* service that was unavailable meanwhile and a refresh do not disagree, and no
\* other call can start a refresh that would.
Undisputed(c) ==
    /\ calls[c].latest => unavailable
    /\ Agree(Whose(c), Coming)
    /\ \A d \in Calls : calls[c].latest /\ d # c /\ calls[d].cur => calls[c].cur
    /\ \A d \in Calls :
         Whose(c) # Nobody /\ d # c /\ calls[d].cur /\ calls[d].pc = "sent" =>
           /\ \/ Agree(Whose(c), jar.owner)
              \/ calls[d].cookie.owner # jar.owner /\ Good(calls[d].cookie)
           /\ Late => Good(calls[d].cookie)

\* While a refresh is late, the calls of this epoch were sent with these cookies.
OfThisSession(c) ==
    /\ calls[c].cur => calls[c].pc # "retried"
    /\ calls[c].cur /\ calls[c].pc = "sent" =>
         /\ calls[c].cookie.owner = jar.owner
         /\ Good(jar) => Good(calls[c].cookie)

LeavingInv ==
    /\ logout # "idle" => ~handoff.page /\ \A c \in Calls : Undisputed(c)
    /\ Late => \A c \in Calls : OfThisSession(c)

LEMMA WhoseNext ==
  ASSUME NEW d \in Calls
  PROVE  /\ calls'[d] = calls[d] => Whose(d)' = Whose(d)
         /\ Kept(d) => Whose(d)' \in {Whose(d), Nobody}
         /\ calls'[d].pc \notin {"sent", "retried"} \/ ~calls'[d].latest => Whose(d)' = Nobody
         /\ \A k : calls'[d].cookie = k => Whose(d)' \in {k.owner, Nobody}
         /\ Whose(d) # Nobody => /\ calls[d].latest /\ calls[d].pc \in {"sent", "retried"}
                                 /\ Good(calls[d].cookie) /\ Whose(d) = calls[d].cookie.owner
         /\ Whose(d)' # Nobody => /\ calls'[d].latest /\ calls'[d].pc \in {"sent", "retried"}
                                  /\ Good(calls'[d].cookie) /\ Whose(d)' = calls'[d].cookie.owner
BY DEF Whose, Kept

LEMMA OwnerInit ==
  ASSUME BrowserAssumption, Init
  PROVE  OwnerInv
<1>1. PICK c \in Calls : calls = [d \in Calls |-> IF d = c THEN Sent("mount", jar) ELSE Idle]
  BY DEF Init
<1>2. Coming = Nobody /\ status # "authenticated"
  BY DEF Init, Coming
<1>3. \A d \in Calls : Whose(d) \in {jar.owner, Nobody}
  BY <1>1, OwnedCookies DEF Whose
<1> QED
  BY <1>2, <1>3 DEF OwnerInv, Agree

LEMMA LeavingInit == Init => LeavingInv
BY DEF Init, LeavingInv, Late

\* Nothing new: what named an account still names it, or none.
LEMMA Fewer ==
  ASSUME OwnerInv, jar'.owner \in {jar.owner, Nobody}, Coming' \in {Coming, Nobody},
         \A d \in Calls : Whose(d)' \in {Whose(d), Nobody}, ~overtaken' => ~overtaken
  PROVE  /\ Agree(Coming, jar.owner)'
         /\ ~overtaken' => \A c \in Calls : Agree(Whose(c), jar.owner)' /\ Agree(Whose(c), Coming)'
BY DEF OwnerInv, Agree

\* The screen and the request that may change it stay.
LEMMA ShownStays ==
  ASSUME OwnerInv, UNCHANGED <<status, user>>, ~unavailable' => ~unavailable,
         jar'.owner \in {jar.owner, Nobody}, Coming' \in {Coming, Nobody, jar.owner},
         ~overtaken' => ~overtaken, logout' = "idle" => logout = "idle", Asking => Asking'
  PROVE  /\ status' = "authenticated" /\ ~unavailable' /\ ~overtaken' /\ logout' = "idle" /\ ~Asking'
             => Agree(user, jar.owner)' /\ Agree(user, Coming)'
         /\ status' = "authenticated" => user' # Nobody
BY DEF OwnerInv, Agree

\* The end of a call.
LEMMA FinishOwner ==
  ASSUME TypeOK, CallsInv, OwnerInv, NEW c \in Calls, NEW answer, Finish(c, answer),
         UNCHANGED <<jar, refresh, logout, overtaken>>,
         answer = 200 => Good(calls[c].cookie) /\ calls[c].pc \in {"sent", "retried"}
  PROVE  OwnerInv'
<1>1. Coming' = Coming
  BY DEF Coming
<1>2. calls'[c] = Idle /\ \A d \in Calls : d # c => calls'[d] = calls[d]
  BY FinishOne
<1>3. \A d \in Calls : Whose(d)' \in {Whose(d), Nobody}
  <2>1. Idle.pc = "idle"
    BY DEF Idle
  <2> QED
    BY <1>2, <2>1, WhoseNext
<1>4. /\ Agree(Coming, jar.owner)'
      /\ ~overtaken' => \A d \in Calls : Agree(Whose(d), jar.owner)' /\ Agree(Whose(d), Coming)'
  BY <1>1, <1>3, Fewer
<1>5. /\ status' = "authenticated" /\ ~unavailable' /\ ~overtaken' /\ logout' = "idle" /\ ~Asking'
           => Agree(user, jar.owner)' /\ Agree(user, Coming)'
      /\ status' = "authenticated" => user' # Nobody
  <2>1. CASE Shows(c) /\ answer = 200
    <3>1. user' = calls[c].cookie.owner /\ calls[c].cookie.owner # Nobody
      BY <2>1 DEF Finish, CallsInv, Owned, Good
    <3>2. Whose(c) = user'
      BY <2>1, <3>1 DEF Shows, Whose
    <3> QED
      BY <1>1, <3>1, <3>2 DEF OwnerInv
  <2>2. CASE Shows(c) /\ answer \notin {200, 503}
    BY <2>2 DEF Finish
  <2>3. CASE Shows(c) /\ answer = 503
    BY <2>3 DEF Finish, OwnerInv
  <2>4. CASE ~Shows(c)
    <3>1. UNCHANGED <<status, user>> /\ (~unavailable' => ~unavailable)
      BY <2>4 DEF Finish
    <3>2. Asking => Asking'
      BY <1>2, <2>4 DEF Asking, Shows
    <3> QED
      BY <1>1, <3>1, <3>2, ShownStays
  <2> QED
    BY <2>1, <2>2, <2>3, <2>4
<1> QED
  BY <1>4, <1>5 DEF OwnerInv

LEMMA ExpireOwner ==
  ASSUME TypeOK, OwnerInv, NEW c \in Calls, Expire(c), UNCHANGED <<jar, refresh, overtaken>>
  PROVE  OwnerInv'
<1>1. Coming' = Coming /\ status' = "unauthenticated"
  BY DEF Coming, Expire
<1>2. \A d \in Calls : Whose(d)' = Nobody
  <2>1. Idle.pc = "idle"
    BY DEF Idle
  <2> QED
    BY <2>1, ExpireOne, WhoseNext
<1> QED
  BY <1>1, <1>2, Fewer DEF OwnerInv

\* A new session, with a request of its own or none.
LEMMA EstablishOwner ==
  ASSUME BrowserAssumption, TypeOK, OwnerInv, NEW a \in Accounts, NEW asks \in BOOLEAN,
         Establish(a, asks), overtaken' = ~asks, UNCHANGED <<status, user>>
  PROVE  OwnerInv'
<1> USE OwnedCookies
<1>1. jar'.owner = a /\ Coming' = Nobody
  BY EstablishOne DEF Coming
<1>2. CASE asks
  <2>1. PICK c \in Calls :
          /\ calls'[c] = Sent("me", Session(a))
          /\ \A d \in Calls : d # c => ~calls'[d].latest
    BY <1>2, EstablishOne
  <2>2. Asking'
    BY <2>1 DEF Asking
  <2>3. \A d \in Calls : Whose(d)' \in {a, Nobody}
    BY <2>1, WhoseNext
  <2> QED
    BY <1>1, <2>2, <2>3 DEF OwnerInv, Agree
<1>3. CASE ~asks
  BY <1>1, <1>3 DEF OwnerInv, Agree
<1> QED
  BY <1>2, <1>3

LEMMA OwnerStep ==
  ASSUME BrowserAssumption, TypeOK, LogoutInv, CallsInv, OwnerInv, LeavingInv, [Next]_vars
  PROVE  OwnerInv'
<1> USE OwnedCookies
<1>1. ASSUME NEW c \in Calls, Resume(c) PROVE OwnerInv'
  <2>1. UNCHANGED <<jar, refresh, logout, overtaken>>
    BY <1>1 DEF Resume
  <2>2. CASE /\ UNCHANGED shown
             /\ calls'[c].cookie = jar
             /\ calls'[c].kind = calls[c].kind /\ calls'[c].latest = calls[c].latest
             /\ \A d \in Calls : d # c => calls'[d] = calls[d]
    <3>1. Coming' = Coming /\ Whose(c)' \in {jar.owner, Nobody}
          /\ \A d \in Calls : d # c => Whose(d)' = Whose(d)
      BY <2>1, <2>2, WhoseNext DEF Coming
    <3>2. Asking => Asking'
      BY <2>2 DEF Asking
    <3>3. UNCHANGED <<status, user, unavailable>>
      BY <2>2 DEF shown
    <3>4. ~overtaken' => \A d \in Calls : Agree(Whose(d), jar.owner)' /\ Agree(Whose(d), Coming)'
      BY <2>1, <3>1 DEF OwnerInv, Agree
    <3>5. Agree(Coming, jar.owner)'
      BY <2>1, <3>1 DEF OwnerInv
    <3>6. /\ status' = "authenticated" /\ ~unavailable' /\ ~overtaken' /\ logout' = "idle" /\ ~Asking'
               => Agree(user, jar.owner)' /\ Agree(user, Coming)'
          /\ status' = "authenticated" => user' # Nobody
      BY <2>1, <3>1, <3>2, <3>3, ShownStays
    <3> QED
      BY <3>4, <3>5, <3>6 DEF OwnerInv
  <2>3. ASSUME NEW answer \in Codes, Finish(c, answer), answer # 200 PROVE OwnerInv'
    BY <2>1, <2>3, FinishOwner
  <2> QED
    BY <1>1, <2>1, <2>2, <2>3, ResumeOne, ExpireOwner
<1>2. ASSUME NEW c \in Calls, Answer(c) PROVE OwnerInv'
  <2>1. UNCHANGED <<jar, logout, overtaken>> /\ calls[c].pc = "sent"
    BY <1>2 DEF Answer
  <2>2. CASE /\ UNCHANGED shown
             /\ calls'[c].pc = "refreshing"
             /\ calls'[c].kind = calls[c].kind /\ calls'[c].latest = calls[c].latest
             /\ \A d \in Calls : d # c => calls'[d] = calls[d]
             /\ \/ refresh.pc # "idle" /\ UNCHANGED refresh
                \/ refresh.pc = "idle" /\ refresh' = [pc |-> "sent", cookie |-> jar, cur |-> TRUE]
    <3>1. \A d \in Calls : Whose(d)' \in {Whose(d), Nobody}
      BY <2>2, WhoseNext
    <3>2. Coming' \in {Coming, jar.owner}
      BY <2>2 DEF Coming
    <3>3. Asking => Asking'
      BY <2>2 DEF Asking
    <3>4. ~overtaken' => \A d \in Calls : Agree(Whose(d), jar.owner)' /\ Agree(Whose(d), Coming)'
      BY <2>1, <3>1, <3>2 DEF OwnerInv, Agree
    <3>5. Agree(Coming, jar.owner)'
      BY <2>1, <3>2 DEF OwnerInv, Agree
    <3>6. /\ status' = "authenticated" /\ ~unavailable' /\ ~overtaken' /\ logout' = "idle" /\ ~Asking'
               => Agree(user, jar.owner)' /\ Agree(user, Coming)'
          /\ status' = "authenticated" => user' # Nobody
      BY <2>1, <2>2, <3>2, <3>3, ShownStays DEF shown
    <3> QED
      BY <3>4, <3>5, <3>6 DEF OwnerInv
  <2>3. ASSUME NEW answer, Finish(c, answer), UNCHANGED refresh,
               answer = 200 => Good(calls[c].cookie)
        PROVE  OwnerInv'
    BY <2>1, <2>3, FinishOwner
  <2> QED
    BY <1>2, <2>2, <2>3, AnswerOne
<1>3. ASSUME NEW c \in Calls, AnswerRetry(c) PROVE OwnerInv'
  <2>1. UNCHANGED <<jar, refresh, logout, overtaken>> /\ calls[c].pc = "retried"
    BY <1>3 DEF AnswerRetry
  <2>2. ASSUME NEW answer, Finish(c, answer), answer = 200 => Good(calls[c].cookie)
        PROVE  OwnerInv'
    BY <2>1, <2>2, FinishOwner
  <2> QED
    BY <1>3, <2>1, <2>2, AnswerRetryOne, ExpireOwner
<1>4. ASSUME NEW c \in Calls, SendPage(c) PROVE OwnerInv'
  <2>1. /\ UNCHANGED <<jar, refresh, logout, overtaken, status, user, unavailable>>
        /\ calls[c].pc = "idle"
    BY <1>4 DEF SendPage, Free, shown
  <2>2. calls'[c] = Sent("page", jar) /\ \A d \in Calls : d # c => calls'[d] = calls[d]
    BY <1>4, SendPageOne
  <2>3. Coming' = Coming /\ \A d \in Calls : Whose(d)' \in {Whose(d), Nobody}
    BY <2>1, <2>2, WhoseNext DEF Coming
  <2>4. Asking => Asking'
    BY <2>1, <2>2 DEF Asking, CallsInv
  <2> QED
    BY <2>1, <2>3, <2>4, Fewer, ShownStays DEF OwnerInv
<1>5. ASSUME NEW c \in Calls, Retry(c) PROVE OwnerInv'
  <2>1. UNCHANGED <<jar, refresh, logout, overtaken, status, user, unavailable>>
    BY <1>5 DEF Retry, shown
  <2>2. calls'[c] = Sent("me", jar) /\ \A d \in Calls : d # c => ~calls'[d].latest
    BY <1>5, RetryOne
  <2>3. Coming' = Coming /\ \A d \in Calls : Whose(d)' \in {jar.owner, Nobody}
    BY <2>1, <2>2, WhoseNext DEF Coming
  <2>4. Asking'
    BY <2>2 DEF Asking
  <2> QED
    BY <2>1, <2>3, <2>4 DEF OwnerInv, Agree
<1>6. ASSUME AnswerRefresh PROVE OwnerInv'
  <2>1. PICK answer \in RefreshAnswers(refresh.cookie) :
           /\ answer \in Codes /\ jar' = SetByRefresh(answer)
           /\ answer = 200 => refresh.cookie.live
           /\ overtaken' = (overtaken \/ (answer = 200 /\ ~refresh.cur))
           /\ \A d \in Calls :
                /\ calls'[d].kind = calls[d].kind /\ calls'[d].cookie = calls[d].cookie
                /\ calls'[d].cur = calls[d].cur /\ calls'[d].latest = calls[d].latest
                /\ \/ calls[d].pc = "refreshing" /\ calls'[d].pc = "resumed" /\ calls'[d].answer = answer
                   \/ calls[d].pc # "refreshing" /\ calls'[d] = calls[d]
    BY <1>6, RefreshAnswered
  <2>2. Coming' = Nobody
    BY <1>6 DEF AnswerRefresh, Coming
  <2>3. \A d \in Calls : Whose(d)' \in {Whose(d), Nobody}
    BY <2>1, WhoseNext
  <2>4. UNCHANGED <<status, user, unavailable>> /\ (logout' = "idle" => logout = "idle")
    BY <1>6 DEF AnswerRefresh, AfterRefresh, shown
  <2>5. Asking => Asking'
    BY <2>1 DEF Asking
  <2>6. ~overtaken' => ~overtaken
    BY <2>1
  <2>7. ~overtaken' => jar'.owner \in {jar.owner, Nobody, Coming}
    <3>1. answer = 200 => jar'.owner = refresh.cookie.owner
      BY <2>1 DEF SetByRefresh, Session
    <3>2. answer # 200 => jar'.owner \in {jar.owner, Nobody}
      BY <2>1 DEF SetByRefresh
    <3>3. answer = 200 /\ ~overtaken' => Coming = refresh.cookie.owner
      BY <1>6, <2>1 DEF AnswerRefresh, Coming
    <3> QED
      BY <3>1, <3>2, <3>3
  <2> QED
    BY <2>2, <2>3, <2>4, <2>5, <2>6, <2>7 DEF OwnerInv, Agree
<1>7. ASSUME AnswerLogin PROVE OwnerInv'
  <2>1. login \in Accounts /\ UNCHANGED <<status, user, logout>>
    BY <1>7 DEF AnswerLogin, TypeOK
  <2>2. CASE Establish(login, TRUE) /\ overtaken' = FALSE
    BY <2>1, <2>2, EstablishOwner
  <2>3. CASE UNCHANGED <<jar, calls, refresh, overtaken>> /\ (~unavailable' => ~unavailable)
    <3>1. Coming' = Coming /\ Asking' = Asking /\ \A d \in Calls : Whose(d)' = Whose(d)
      BY <2>3, WhoseNext DEF Coming, Asking
    <3> QED
      BY <2>1, <2>3, <3>1, Fewer, ShownStays DEF OwnerInv
  <2> QED
    BY <1>7, <2>2, <2>3 DEF AnswerLogin
<1>8. ASSUME AnswerPoll PROVE OwnerInv'
  <2>1. /\ Waiting \in BOOLEAN /\ (handoff.cookie # Nobody => handoff.cookie \in Accounts)
        /\ UNCHANGED <<status, user, logout>>
    BY <1>8 DEF AnswerPoll, Waiting, TypeOK
  <2>2. ASSUME NEW asks \in {FALSE, Waiting}, Establish(handoff.cookie, asks), overtaken' = ~asks,
               handoff.cookie # Nobody
        PROVE  OwnerInv'
    <3>1. asks \in BOOLEAN
      BY <2>1
    <3> QED
      BY <2>1, <2>2, <3>1, EstablishOwner
  <2>3. CASE UNCHANGED <<jar, calls, refresh, overtaken>> /\ (~unavailable' => ~unavailable)
    <3>1. Coming' = Coming /\ Asking' = Asking /\ \A d \in Calls : Whose(d)' = Whose(d)
      BY <2>3, WhoseNext DEF Coming, Asking
    <3> QED
      BY <2>1, <2>3, <3>1, Fewer, ShownStays DEF OwnerInv
  <2> QED
    BY <1>8, <2>2, <2>3 DEF AnswerPoll
<1>9. ASSUME AnswerLogout PROVE OwnerInv'
  <2>1. /\ logout = "sent" /\ status' = "unauthenticated" /\ UNCHANGED refresh
        /\ \/ jar' = NoCookie \/ UNCHANGED <<jar, overtaken>>
    BY <1>9 DEF AnswerLogout
  <2>2. Coming' = Coming /\ \A d \in Calls : Whose(d)' \in {Whose(d), Nobody}
    BY <1>9, <2>1, AnswerLogoutAges, WhoseNext DEF Coming
  <2>3. \A d \in Calls : Agree(Whose(d), Coming)
    BY <2>1 DEF LeavingInv, Undisputed
  <2>4. CASE jar' = NoCookie
    BY <2>1, <2>2, <2>3, <2>4 DEF OwnerInv, Agree
  <2>5. CASE UNCHANGED <<jar, overtaken>>
    BY <2>1, <2>2, <2>5, Fewer DEF OwnerInv
  <2> QED
    BY <2>1, <2>4, <2>5
<1>10. ASSUME NEW a \in Accounts, Login(a) PROVE OwnerInv'
  <2>1. /\ status' # "authenticated"
        /\ UNCHANGED <<jar, refresh, overtaken>>
    BY <1>10 DEF Login, shown
  <2>2. Coming' = Coming /\ \A d \in Calls : Whose(d)' \in {Whose(d), Nobody}
    BY <1>10, <2>1, LoginAges, WhoseNext DEF Coming
  <2> QED
    BY <2>1, <2>2, Fewer DEF OwnerInv
<1>11. ASSUME Logout PROVE OwnerInv'
  <2>1. logout' # "idle" /\ UNCHANGED <<jar, refresh, overtaken, status, user>>
    BY <1>11 DEF Logout, First, shown
  <2>2. Coming' = Coming /\ \A d \in Calls : Whose(d)' \in {Whose(d), Nobody}
    BY <1>11, <2>1, LogoutAges, WhoseNext DEF Coming
  <2> QED
    BY <2>1, <2>2, Fewer DEF OwnerInv
<1>12. ASSUME /\ UNCHANGED <<refresh, calls, logout, overtaken, status, user, unavailable>>
              /\ jar'.owner = jar.owner
       PROVE  OwnerInv'
  <2>1. Coming' = Coming /\ Asking' = Asking /\ \A d \in Calls : Whose(d)' = Whose(d)
    BY <1>12, WhoseNext DEF Coming, Asking
  <2> QED
    BY <1>12, <2>1, Fewer, ShownStays DEF OwnerInv
<1>13. ASSUME NEW a \in Accounts, Register(a) PROVE OwnerInv'
  BY <1>12, <1>13 DEF Register, shown
<1>14. ASSUME NEW a \in Accounts, Revoke(a) PROVE OwnerInv'
  <2>1. UNCHANGED <<logout, overtaken, status, user, unavailable>>
    BY <1>14 DEF Revoke, shown
  <2>2. Coming' = Coming /\ jar'.owner = jar.owner
    BY <1>14, RevokeSpoils DEF Coming, Spoilt
  <2>3. \A d \in Calls : Whose(d)' \in {Whose(d), Nobody}
    BY <1>14, RevokeSpoils DEF Whose, Spoilt, Good
  <2>4. Asking' = Asking
    BY <1>14, RevokeSpoils DEF Asking
  <2> QED
    BY <2>1, <2>2, <2>3, <2>4, Fewer, ShownStays DEF OwnerInv
<1>15. ASSUME Poll PROVE OwnerInv'
  BY <1>12, <1>15 DEF Poll, shown
<1>16. ASSUME AccessExpires PROVE OwnerInv'
  <2>1. jar'.owner = jar.owner
    BY <1>16 DEF AccessExpires, TypeOK, Cookies
  <2> QED
    BY <1>12, <1>16, <2>1 DEF AccessExpires, shown
<1>17. CASE UNCHANGED vars
  BY <1>12, <1>17 DEF vars, shown
<1> QED
  BY <1>1, <1>2, <1>3, <1>4, <1>5, <1>6, <1>7, <1>8, <1>9, <1>10, <1>11, <1>13, <1>14, <1>15,
     <1>16, <1>17, Steps

\* Calls that end or grow older bring nothing to disagree with.
Older(d) == \/ calls'[d] = Idle
            \/ Kept(d) /\ (calls'[d].latest => calls'[d].cur = calls[d].cur)

LEMMA LeavingOlder ==
  ASSUME BrowserAssumption, LeavingInv, UNCHANGED <<jar, refresh>>,
         logout' # "idle" => logout # "idle" /\ ~handoff'.page,
         \A d \in Calls : Older(d) /\ (calls'[d].latest /\ unavailable => unavailable')
  PROVE  LeavingInv'
<1> USE OwnedCookies
<1>1. Coming' = Coming /\ Late' = Late
  BY DEF Coming, Late
<1>2. \A d \in Calls : Whose(d)' \in {Whose(d), Nobody}
  <2>1. ASSUME NEW d \in Calls PROVE Whose(d)' \in {Whose(d), Nobody}
    <3>1. CASE calls'[d] = Idle
      BY <3>1, WhoseNext
    <3>2. CASE Kept(d)
      BY <3>2, WhoseNext
    <3> QED
      BY <3>1, <3>2 DEF Older
  <2> QED
    BY <2>1
<1>3. \A d \in Calls :
        /\ calls'[d].latest => calls[d].latest /\ calls'[d].cur = calls[d].cur
        /\ calls'[d].cur => /\ calls[d].cur
                            /\ \/ calls'[d].pc = "idle"
                               \/ calls'[d].pc = calls[d].pc /\ calls'[d].cookie = calls[d].cookie
  BY DEF Older, Kept
<1>4. ASSUME logout' # "idle", NEW c \in Calls PROVE Undisputed(c)'
  <2>1. Undisputed(c) /\ (calls'[c].latest => unavailable')
    BY <1>3, <1>4 DEF LeavingInv, Undisputed
  <2>2. Agree(Whose(c), Coming)'
    BY <1>1, <1>2, <2>1 DEF Undisputed, Agree
  <2>3. \A d \in Calls : calls'[c].latest /\ d # c /\ calls'[d].cur => calls'[c].cur
    BY <1>3, <2>1 DEF Undisputed
  <2>4. ASSUME NEW d \in Calls, Whose(c)' # Nobody, d # c, calls'[d].cur, calls'[d].pc = "sent"
        PROVE  /\ \/ Agree(Whose(c), jar.owner)'
                  \/ calls'[d].cookie.owner # jar'.owner /\ Good(calls'[d].cookie)
               /\ Late' => Good(calls'[d].cookie)
    <3>1. Whose(c)' = Whose(c) /\ calls[d].cur /\ calls[d].pc = "sent" /\ calls'[d].cookie = calls[d].cookie
      BY <1>2, <1>3, <2>4
    <3> QED
      BY <1>1, <2>1, <2>4, <3>1 DEF Undisputed, Agree
  <2> QED
    BY <2>1, <2>2, <2>3, <2>4 DEF Undisputed
<1>5. ASSUME Late', NEW c \in Calls PROVE OfThisSession(c)'
  BY <1>1, <1>3, <1>5 DEF LeavingInv, OfThisSession
<1> QED
  BY <1>4, <1>5 DEF LeavingInv

LEMMA FinishLeaving ==
  ASSUME BrowserAssumption, TypeOK, CallsInv, LeavingInv, NEW c \in Calls, NEW answer,
         Finish(c, answer), UNCHANGED <<jar, refresh, logout, handoff>>
  PROVE  LeavingInv'
<1>1. calls'[c] = Idle /\ \A d \in Calls : d # c => calls'[d] = calls[d]
  BY FinishOne
<1>2. \A d \in Calls : Older(d)
  BY <1>1 DEF Older, Kept
<1>3. ASSUME NEW d \in Calls, calls'[d].latest, unavailable PROVE unavailable'
  <2>1. d # c
    BY <1>1, <1>3, OwnedCookies
  <2>2. ~calls[c].latest
    BY <1>1, <1>3, <2>1 DEF CallsInv
  <2> QED
    BY <1>3, <2>2 DEF Finish, Shows
<1> QED
  BY <1>2, <1>3, LeavingOlder DEF LeavingInv

LEMMA ExpireLeaving ==
  ASSUME BrowserAssumption, TypeOK, LeavingInv, NEW c \in Calls, Expire(c),
         UNCHANGED <<jar, refresh, logout, handoff>>
  PROVE  LeavingInv'
<1>1. \A d \in Calls : Older(d)
  BY ExpireOne DEF Older
<1>2. unavailable' = unavailable
  BY DEF Expire
<1> QED
  BY <1>1, <1>2, LeavingOlder DEF LeavingInv

\* Nothing of this epoch, or no session request that is the latest.
LEMMA NothingDisputed ==
  ASSUME NEW c \in Calls, ~calls'[c].latest
  PROVE  Undisputed(c)'
BY DEF Undisputed, Whose, Agree

LEMMA EstablishLeaving ==
  ASSUME BrowserAssumption, TypeOK, LeavingInv, NEW a \in Accounts, NEW asks \in BOOLEAN,
         Establish(a, asks), UNCHANGED <<logout, unavailable>>, ~handoff'.page,
         logout # "idle" => ~asks
  PROVE  LeavingInv'
<1> USE OwnedCookies
<1>1. jar' = Session(a) /\ Coming' = Nobody
  BY EstablishOne DEF Coming
<1>2. CASE asks
  <2>1. PICK c \in Calls :
          /\ calls'[c] = Sent("me", Session(a))
          /\ \A d \in Calls : d # c => ~calls'[d].cur
    BY <1>2, EstablishOne
  <2>2. \A d \in Calls : OfThisSession(d)'
    BY <1>1, <2>1 DEF OfThisSession
  <2> QED
    BY <1>2, <2>2 DEF LeavingInv
<1>3. CASE ~asks
  <2>1. \A d \in Calls : ~calls'[d].cur /\ calls'[d].latest = calls[d].latest
    BY <1>3, EstablishOne
  <2>2. \A d \in Calls : OfThisSession(d)'
    BY <2>1 DEF OfThisSession
  <2>3. ASSUME logout' # "idle", NEW d \in Calls PROVE Undisputed(d)'
    <3>1. calls[d].latest => unavailable
      BY <2>3 DEF LeavingInv, Undisputed
    <3> QED
      BY <1>1, <2>1, <3>1 DEF Undisputed, Agree
  <2> QED
    BY <2>2, <2>3 DEF LeavingInv
<1> QED
  BY <1>2, <1>3

\* A call that goes on with other cookies while the other calls stay.
SameFlags(c) == /\ calls'[c].kind = calls[c].kind /\ calls'[c].cur = calls[c].cur
                /\ calls'[c].latest = calls[c].latest

LEMMA RetriedLeaving ==
  ASSUME LeavingInv, NEW c \in Calls, refresh.pc = "idle",
         UNCHANGED <<jar, refresh, logout, handoff, unavailable>>,
         calls'[c].pc = "retried", calls'[c].cookie = jar, SameFlags(c),
         \A d \in Calls : d # c => calls'[d] = calls[d]
  PROVE  LeavingInv'
<1>1. ~Late' /\ Coming' = Nobody
  BY DEF Late, Coming
<1>2. \A d \in Calls : SameFlags(d)
  BY DEF SameFlags
<1>3. Whose(c)' \in {jar.owner, Nobody} /\ \A d \in Calls : d # c => Whose(d)' = Whose(d)
  BY WhoseNext
<1>4. ASSUME logout' # "idle", NEW e \in Calls PROVE Undisputed(e)'
  <2>1. Undisputed(e)
    BY <1>4 DEF LeavingInv
  <2>2. (calls'[e].latest => unavailable') /\ Agree(Whose(e), Coming)'
    BY <1>1, <1>2, <2>1 DEF Undisputed, SameFlags, Agree
  <2>3. \A d \in Calls : calls'[e].latest /\ d # e /\ calls'[d].cur => calls'[e].cur
    BY <1>2, <2>1 DEF Undisputed, SameFlags
  <2>4. ASSUME NEW d \in Calls, Whose(e)' # Nobody, d # e, calls'[d].cur, calls'[d].pc = "sent"
        PROVE  \/ Agree(Whose(e), jar.owner)'
               \/ calls'[d].cookie.owner # jar'.owner /\ Good(calls'[d].cookie)
    <3>1. CASE e = c
      BY <1>3, <3>1 DEF Agree
    <3>2. CASE e # c
      <4>1. d # c /\ calls'[d] = calls[d] /\ Whose(e)' = Whose(e)
        BY <1>3, <2>4, <3>2
      <4> QED
        BY <2>1, <2>4, <4>1 DEF Undisputed, Agree
    <3> QED
      BY <3>1, <3>2
  <2> QED
    BY <1>1, <2>2, <2>3, <2>4 DEF Undisputed
<1> QED
  BY <1>1, <1>4 DEF LeavingInv

LEMMA WaitLeaving ==
  ASSUME LeavingInv, NEW c \in Calls, calls[c].pc = "sent", calls[c].cur, ~Good(calls[c].cookie),
         UNCHANGED <<jar, logout, handoff, unavailable>>,
         calls'[c].pc = "refreshing", SameFlags(c),
         \A d \in Calls : d # c => calls'[d] = calls[d],
         \/ UNCHANGED refresh
         \/ refresh.pc = "idle" /\ refresh' = [pc |-> "sent", cookie |-> jar, cur |-> TRUE]
  PROVE  LeavingInv'
<1>1. \/ Late' = Late /\ Coming' = Coming
      \/ ~Late' /\ Coming' = jar.owner
  BY DEF Late, Coming
<1>2. \A d \in Calls : SameFlags(d)
  BY DEF SameFlags
<1>3. Whose(c)' = Nobody /\ \A d \in Calls : d # c => Whose(d)' = Whose(d)
  BY WhoseNext
<1>4. ASSUME logout' # "idle", NEW e \in Calls PROVE Undisputed(e)'
  <2>1. Undisputed(e)
    BY <1>4 DEF LeavingInv
  <2>2. calls'[e].latest => unavailable'
    BY <1>2, <2>1 DEF Undisputed, SameFlags
  <2>3. \A d \in Calls : calls'[e].latest /\ d # e /\ calls'[d].cur => calls'[e].cur
    BY <1>2, <2>1 DEF Undisputed, SameFlags
  <2>4. CASE e = c
    BY <1>3, <2>2, <2>3, <2>4 DEF Undisputed, Agree
  <2>5. CASE e # c
    <3>1. Whose(e)' = Whose(e)
      BY <1>3, <2>5
    <3>2. Agree(Whose(e), Coming)'
      <4>1. Whose(e) # Nobody => Agree(Whose(e), jar.owner)
        BY <2>1, <2>5 DEF Undisputed
      <4> QED
        BY <1>1, <2>1, <3>1, <4>1 DEF Undisputed, Agree
    <3>3. ASSUME NEW d \in Calls, Whose(e)' # Nobody, d # e, calls'[d].cur, calls'[d].pc = "sent"
          PROVE  /\ \/ Agree(Whose(e), jar.owner)'
                    \/ calls'[d].cookie.owner # jar'.owner /\ Good(calls'[d].cookie)
                 /\ Late' => Good(calls'[d].cookie)
      <4>1. calls'[d] = calls[d] /\ (Late' => Late)
        BY <1>1, <3>3
      <4> QED
        BY <2>1, <3>1, <3>3, <4>1 DEF Undisputed, Agree
    <3> QED
      BY <2>2, <2>3, <3>2, <3>3 DEF Undisputed
  <2> QED
    BY <2>4, <2>5
<1>5. ASSUME Late', NEW e \in Calls PROVE OfThisSession(e)'
  BY <1>1, <1>5 DEF LeavingInv, OfThisSession
<1> QED
  BY <1>4, <1>5 DEF LeavingInv

LEMMA SendPageLeaving ==
  ASSUME BrowserAssumption, TypeOK, LeavingInv, NEW c \in Calls, SendPage(c)
  PROVE  LeavingInv'
<1> USE OwnedCookies
<1>1. ~unavailable /\ UNCHANGED <<jar, refresh, logout, handoff>>
  BY DEF SendPage
<1>2. calls'[c] = Sent("page", jar) /\ \A d \in Calls : d # c => calls'[d] = calls[d]
  BY SendPageOne
<1>3. ASSUME logout' # "idle", NEW d \in Calls PROVE Undisputed(d)'
  <2>1. ~calls'[d].latest
    BY <1>1, <1>2, <1>3 DEF LeavingInv, Undisputed
  <2> QED
    BY <2>1, NothingDisputed
<1>4. ASSUME Late', NEW d \in Calls PROVE OfThisSession(d)'
  <2>1. Late /\ OfThisSession(d)
    BY <1>1, <1>4 DEF Late, LeavingInv
  <2> QED
    BY <1>1, <1>2, <2>1 DEF OfThisSession
<1> QED
  BY <1>1, <1>3, <1>4 DEF LeavingInv

LEMMA RetryLeaving ==
  ASSUME BrowserAssumption, TypeOK, OwnerInv, LeavingInv, NEW c \in Calls, Retry(c)
  PROVE  LeavingInv'
<1> USE OwnedCookies
<1>1. unavailable' /\ UNCHANGED <<jar, refresh, logout, handoff>>
  BY DEF Retry, shown
<1>2. /\ calls'[c] = Sent("me", jar)
      /\ \A d \in Calls : d # c => Kept(d) /\ calls'[d].cur = calls[d].cur /\ ~calls'[d].latest
  BY RetryOne
<1>3. Coming' = Coming /\ Late' = Late
  BY <1>1 DEF Coming, Late
<1>4. ASSUME Late', NEW d \in Calls PROVE OfThisSession(d)'
  <2>1. OfThisSession(d)
    BY <1>3, <1>4 DEF LeavingInv
  <2> QED
    BY <1>1, <1>2, <2>1 DEF OfThisSession, Kept
<1>5. Undisputed(c)'
  <2>1. Whose(c)' \in {jar.owner, Nobody} /\ (Whose(c)' # Nobody => Good(jar))
    BY <1>2, WhoseNext
  <2>2. Agree(Whose(c), Coming)' /\ Agree(Whose(c), jar.owner)'
    BY <1>1, <1>3, <2>1 DEF OwnerInv, Agree
  <2>3. ASSUME NEW d \in Calls, Whose(c)' # Nobody, calls'[d].cur, calls'[d].pc = "sent", Late'
        PROVE  Good(calls'[d].cookie)
    BY <1>1, <1>4, <2>1, <2>3 DEF OfThisSession
  <2> QED
    BY <1>1, <1>2, <2>2, <2>3 DEF Undisputed
<1>6. ASSUME NEW d \in Calls, d # c PROVE Undisputed(d)'
  BY <1>2, <1>6, NothingDisputed
<1> QED
  BY <1>1, <1>4, <1>5, <1>6 DEF LeavingInv

LEMMA RefreshLeaving ==
  ASSUME BrowserAssumption, TypeOK, LeavingInv, AnswerRefresh
  PROVE  LeavingInv'
<1> USE OwnedCookies
<1>1. PICK answer \in RefreshAnswers(refresh.cookie) :
         /\ jar' = SetByRefresh(answer)
         /\ \A d \in Calls :
              /\ calls'[d].kind = calls[d].kind /\ calls'[d].cookie = calls[d].cookie
              /\ calls'[d].cur = calls[d].cur /\ calls'[d].latest = calls[d].latest
              /\ \/ calls[d].pc = "refreshing" /\ calls'[d].pc = "resumed"
                 \/ calls[d].pc # "refreshing" /\ calls'[d] = calls[d]
  BY RefreshAnswered
<1>2. /\ ~Late' /\ Coming' = Nobody /\ refresh.pc = "sent"
      /\ UNCHANGED <<handoff, unavailable>> /\ (logout' # "idle" => logout # "idle")
  BY DEF AnswerRefresh, AfterRefresh, Late, Coming, shown
<1>3. \A d \in Calls : Whose(d)' \in {Whose(d), Nobody}
  BY <1>1, WhoseNext
<1>4. ASSUME logout' # "idle", NEW c \in Calls PROVE Undisputed(c)'
  <2>1. Undisputed(c)
    BY <1>2, <1>4 DEF LeavingInv
  <2>2. (calls'[c].latest => unavailable') /\ Agree(Whose(c), Coming)'
    BY <1>1, <1>2, <2>1 DEF Undisputed, Agree
  <2>3. \A d \in Calls : calls'[c].latest /\ d # c /\ calls'[d].cur => calls'[c].cur
    BY <1>1, <2>1 DEF Undisputed
  <2>4. ASSUME NEW d \in Calls, Whose(c)' # Nobody, d # c, calls'[d].cur, calls'[d].pc = "sent"
        PROVE  \/ Agree(Whose(c), jar'.owner)
               \/ calls[d].cookie.owner # jar'.owner /\ Good(calls[d].cookie)
    <3>1. Whose(c)' = Whose(c) /\ calls[d].cur /\ calls[d].pc = "sent"
      BY <1>1, <1>3, <2>4
    <3>2. \/ Agree(Whose(c), jar.owner)
          \/ calls[d].cookie.owner # jar.owner /\ Good(calls[d].cookie)
      BY <2>1, <2>4, <3>1 DEF Undisputed
    <3>3. CASE answer # 200
      <4>1. jar' = jar \/ jar'.owner = Nobody
        BY <1>1, <3>3 DEF SetByRefresh
      <4> QED
        BY <3>2, <4>1 DEF Agree
    <3>4. CASE answer = 200
      <4>1. jar'.owner = refresh.cookie.owner
        BY <1>1, <3>4 DEF SetByRefresh, Session
      <4>2. CASE refresh.cur
        BY <1>2, <2>1, <4>1, <4>2 DEF Undisputed, Coming
      <4>3. CASE ~refresh.cur
        <5>1. Late /\ OfThisSession(c) /\ OfThisSession(d)
          BY <1>2, <4>3 DEF Late, LeavingInv
        <5>2. Good(calls[d].cookie) /\ calls[d].cookie.owner = jar.owner
          BY <2>1, <2>4, <3>1, <5>1 DEF Undisputed, OfThisSession
        <5>3. calls[c].latest /\ calls[c].pc \in {"sent", "retried"} /\ Whose(c) = calls[c].cookie.owner
          BY <2>4, <3>1, WhoseNext
        <5>4. calls[c].cur
          BY <2>1, <2>4, <3>1, <5>3 DEF Undisputed
        <5>5. Whose(c) = jar.owner
          BY <5>1, <5>3, <5>4 DEF OfThisSession
        <5> QED
          BY <5>2, <5>5 DEF Agree
      <4> QED
        BY <4>2, <4>3
    <3> QED
      BY <3>1, <3>3, <3>4
  <2>5. \A d \in Calls : calls'[d].cookie = calls[d].cookie
    BY <1>1
  <2>6. \A d \in Calls :
          Whose(c)' # Nobody /\ d # c /\ calls'[d].cur /\ calls'[d].pc = "sent" =>
            \/ Agree(Whose(c), jar.owner)'
            \/ calls'[d].cookie.owner # jar'.owner /\ Good(calls'[d].cookie)
    BY <1>3, <2>4, <2>5 DEF Agree
  <2> QED
    BY <1>2, <2>2, <2>3, <2>6 DEF Undisputed
<1> QED
  BY <1>2, <1>4 DEF LeavingInv

LEMMA RevokeLeaving ==
  ASSUME BrowserAssumption, TypeOK, LeavingInv, NEW a \in Accounts, Revoke(a)
  PROVE  LeavingInv'
<1>1. /\ jar.owner = a /\ a # Nobody /\ UNCHANGED <<logout, handoff, unavailable>>
      /\ jar'.owner = jar.owner /\ ~Good(jar')
  BY RevokeSpoils DEF Revoke, BrowserAssumption, shown, Spoilt, Good
<1>2. Late' = Late /\ Coming' = Coming
  BY RevokeSpoils DEF Late, Coming, Spoilt
<1>3. \A d \in Calls :
        /\ calls'[d].pc = calls[d].pc /\ calls'[d].cur = calls[d].cur
        /\ calls'[d].latest = calls[d].latest
        /\ calls'[d].cookie.owner = calls[d].cookie.owner
        /\ Good(calls'[d].cookie) <=> Good(calls[d].cookie) /\ calls[d].cookie.owner # jar.owner
  BY RevokeSpoils DEF Spoilt, Good
<1>4. \A d \in Calls : \/ Whose(d)' = Nobody
                       \/ Whose(d)' = Whose(d) /\ ~Agree(Whose(d), jar.owner)
  BY <1>1, <1>3 DEF Whose, Agree
<1>5. ASSUME logout' # "idle", NEW c \in Calls PROVE Undisputed(c)'
  <2>1. Undisputed(c)
    BY <1>1, <1>5 DEF LeavingInv
  <2>2. (calls'[c].latest => unavailable') /\ Agree(Whose(c), Coming)'
    BY <1>1, <1>2, <1>3, <1>4, <2>1 DEF Undisputed, Agree
  <2>3. \A d \in Calls : calls'[c].latest /\ d # c /\ calls'[d].cur => calls'[c].cur
    BY <1>3, <2>1 DEF Undisputed
  <2>4. ASSUME NEW d \in Calls, Whose(c)' # Nobody, d # c, calls'[d].cur, calls'[d].pc = "sent"
        PROVE  calls'[d].cookie.owner # jar'.owner /\ Good(calls'[d].cookie)
    <3>1. Whose(c) # Nobody /\ ~Agree(Whose(c), jar.owner) /\ calls[d].cur /\ calls[d].pc = "sent"
      BY <1>3, <1>4, <2>4
    <3> QED
      BY <1>1, <1>3, <2>1, <2>4, <3>1 DEF Undisputed
  <2> QED
    BY <2>2, <2>3, <2>4 DEF Undisputed
<1>6. ASSUME Late', NEW c \in Calls PROVE OfThisSession(c)'
  BY <1>1, <1>2, <1>3, <1>6 DEF LeavingInv, OfThisSession
<1> QED
  BY <1>1, <1>5, <1>6 DEF LeavingInv

LEMMA LeavingStep ==
  ASSUME BrowserAssumption, TypeOK, LogoutInv, CallsInv, OwnerInv, LeavingInv, [Next]_vars
  PROVE  LeavingInv'
<1>1. ASSUME NEW c \in Calls, Resume(c) PROVE LeavingInv'
  <2>1. UNCHANGED <<jar, refresh, logout, handoff>> /\ refresh.pc = "idle"
    BY <1>1 DEF Resume, CallsInv
  <2>2. CASE /\ UNCHANGED shown
             /\ calls'[c].pc = "retried" /\ calls'[c].cookie = jar
             /\ calls'[c].kind = calls[c].kind /\ calls'[c].cur = calls[c].cur
             /\ calls'[c].latest = calls[c].latest
             /\ \A d \in Calls : d # c => calls'[d] = calls[d]
    BY <2>1, <2>2, RetriedLeaving DEF SameFlags, shown
  <2> QED
    BY <1>1, <2>1, <2>2, ResumeOne, FinishLeaving, ExpireLeaving
<1>2. ASSUME NEW c \in Calls, Answer(c) PROVE LeavingInv'
  <2>1. UNCHANGED <<jar, logout, handoff>> /\ calls[c].pc = "sent"
    BY <1>2 DEF Answer
  <2>2. CASE /\ calls[c].cur /\ ~Good(calls[c].cookie)
             /\ calls'[c].pc = "refreshing"
             /\ calls'[c].kind = calls[c].kind /\ calls'[c].cur = calls[c].cur
             /\ calls'[c].latest = calls[c].latest
             /\ \A d \in Calls : d # c => calls'[d] = calls[d]
             /\ UNCHANGED shown
             /\ \/ refresh.pc # "idle" /\ UNCHANGED refresh
                \/ refresh.pc = "idle" /\ refresh' = [pc |-> "sent", cookie |-> jar, cur |-> TRUE]
    BY <2>1, <2>2, WaitLeaving DEF SameFlags, shown
  <2>3. ASSUME NEW answer, Finish(c, answer), UNCHANGED refresh PROVE LeavingInv'
    BY <2>1, <2>3, FinishLeaving
  <2> QED
    BY <1>2, <2>2, <2>3, AnswerOne
<1>3. ASSUME NEW c \in Calls, AnswerRetry(c) PROVE LeavingInv'
  <2>1. UNCHANGED <<jar, refresh, logout, handoff>>
    BY <1>3 DEF AnswerRetry
  <2> QED
    BY <1>3, <2>1, AnswerRetryOne, FinishLeaving, ExpireLeaving
<1>4. ASSUME AnswerLogin PROVE LeavingInv'
  <2>1. login \in Accounts /\ UNCHANGED logout /\ logout = "idle"
    BY <1>4 DEF AnswerLogin, TypeOK, LogoutInv
  <2>2. CASE Establish(login, TRUE) /\ ~handoff'.page /\ UNCHANGED unavailable
    BY <2>1, <2>2, EstablishLeaving
  <2>3. CASE UNCHANGED <<jar, calls, refresh>> /\ (unavailable => unavailable')
    BY <2>1, <2>3, LeavingOlder DEF Older, Kept
  <2>4. handoff' = [handoff EXCEPT !.owner = Nobody, !.page = FALSE] => ~handoff'.page
    BY DEF TypeOK
  <2> QED
    BY <1>4, <2>2, <2>3, <2>4 DEF AnswerLogin
<1>5. ASSUME AnswerPoll PROVE LeavingInv'
  <2>1. /\ Waiting \in BOOLEAN /\ (handoff.cookie # Nobody => handoff.cookie \in Accounts)
        /\ UNCHANGED logout
    BY <1>5 DEF AnswerPoll, Waiting, TypeOK
  <2>4. handoff'.page = FALSE
    <3>1. handoff' = [NoPoll EXCEPT !.owner = Nobody] \/ handoff' = NoPoll
      BY <1>5 DEF AnswerPoll
    <3> QED
      BY <3>1 DEF NoPoll, TypeOK
  <2>5. logout # "idle" => ~Waiting
    BY DEF Waiting, LeavingInv
  <2>2. ASSUME NEW asks \in {FALSE, Waiting}, Establish(handoff.cookie, asks),
               handoff.cookie # Nobody, UNCHANGED unavailable
        PROVE  LeavingInv'
    <3>1. asks \in BOOLEAN
      BY <2>1, <2>2
    <3>2. ASSUME logout # "idle" PROVE ~asks
      BY <2>2, <2>5, <3>2
    <3> QED
      BY <2>1, <2>2, <2>4, <3>1, <3>2, EstablishLeaving
  <2>3. CASE UNCHANGED <<jar, calls, refresh>> /\ (unavailable => unavailable')
    BY <2>1, <2>3, <2>4, LeavingOlder DEF Older, Kept
  <2> QED
    BY <1>5, <2>2, <2>3 DEF AnswerPoll
<1>6. ASSUME AnswerLogout PROVE LeavingInv'
  <2>1. logout' = "idle" /\ \A d \in Calls : ~calls'[d].cur
    BY <1>6, AnswerLogoutAges DEF AnswerLogout
  <2> QED
    BY <2>1 DEF LeavingInv, OfThisSession
<1>7. ASSUME NEW a \in Accounts, Login(a) PROVE LeavingInv'
  <2>1. UNCHANGED <<jar, refresh>> /\ logout' = "idle"
    BY <1>7 DEF Login
  <2>2. \A d \in Calls : Older(d) /\ ~calls'[d].latest
    BY <1>7, LoginAges DEF Older
  <2> QED
    BY <2>1, <2>2, LeavingOlder
<1>8. ASSUME Logout PROVE LeavingInv'
  <2>1. ~handoff'.page /\ \A d \in Calls : ~calls'[d].latest /\ ~calls'[d].cur
    BY <1>8, LogoutAges DEF Logout, TypeOK
  <2> QED
    BY <2>1, NothingDisputed DEF LeavingInv, OfThisSession
<1>9. ASSUME AccessExpires PROVE LeavingInv'
  <2>1. /\ jar'.owner = jar.owner /\ ~Good(jar')
        /\ UNCHANGED <<handoff, calls, refresh, logout, unavailable>>
    BY <1>9 DEF AccessExpires, TypeOK, Cookies, shown, Good
  <2>2. Coming' = Coming /\ Late' = Late /\ \A d \in Calls : Whose(d)' = Whose(d)
    BY <2>1, WhoseNext DEF Coming, Late
  <2>3. \A d \in Calls : Undisputed(d) => Undisputed(d)'
    BY <2>1, <2>2 DEF Undisputed, Agree
  <2>4. \A d \in Calls : OfThisSession(d) => OfThisSession(d)'
    BY <2>1 DEF OfThisSession
  <2> QED
    BY <2>1, <2>2, <2>3, <2>4 DEF LeavingInv
<1>10. ASSUME UNCHANGED <<jar, refresh, calls, logout, unavailable>>,
              logout # "idle" => handoff'.page = handoff.page
       PROVE  LeavingInv'
  <2>1. \A d \in Calls : Older(d)
    BY <1>10 DEF Older, Kept
  <2> QED
    BY <1>10, <2>1, LeavingOlder DEF LeavingInv
<1>11. ASSUME NEW a \in Accounts, Register(a) PROVE LeavingInv'
  BY <1>10, <1>11 DEF Register, shown, TypeOK
<1>12. ASSUME Poll PROVE LeavingInv'
  BY <1>10, <1>12 DEF Poll, shown
<1>13. CASE UNCHANGED vars
  BY <1>10, <1>13 DEF vars, shown
<1> QED
  BY <1>1, <1>2, <1>3, <1>4, <1>5, <1>6, <1>7, <1>8, <1>9, <1>11, <1>12, <1>13,
     SendPageLeaving, RetryLeaving, RefreshLeaving, RevokeLeaving, Steps

-----------------------------------------------------------------------------
(* The theorems.                                                           *)

TabInv == TypeOK /\ LogoutInv /\ CallsInv /\ ExpiryInv /\ OwnerInv /\ LeavingInv

LEMMA TabInvInit ==
  ASSUME BrowserAssumption, Init
  PROVE  TabInv
BY TypeInit, LogoutInit, CallsInit, ExpiryInit, OwnerInit, LeavingInit DEF TabInv

LEMMA TabInvStep ==
  ASSUME BrowserAssumption, TabInv, [Next]_vars
  PROVE  TabInv'
BY TypeStep, LogoutStep, CallsStep, ExpiryStep, OwnerStep, LeavingStep DEF TabInv

LEMMA TabInvMeans ==
  ASSUME TabInv
  PROVE  LogoutIsLast /\ ShownUserOwnsSession
<1>1. LogoutIsLast
  BY DEF TabInv, LogoutInv, LogoutIsLast
<1>2. ShownUserOwnsSession
  BY DEF TabInv, OwnerInv, Agree, Asking, ShownUserOwnsSession
<1> QED
  BY <1>1, <1>2

\* The session is what BrowserSession says of it in every behaviour of a tab
\* that has one.
LEMMA TabInvariant ==
  TabSpec => [](part = "session" => TabInv)
<1> DEFINE I == part = "session" => TabInv
<1>1. TabInit => I
  BY TabInvInit, TabAssumption DEF TabInit
<1>2. I /\ [TabNext]_<<part, vars, listVars>> => I'
  <2> SUFFICES ASSUME I, [TabNext]_<<part, vars, listVars>>, part' = "session"
               PROVE  TabInv'
    OBVIOUS
  <2>1. part = "session" /\ [Next]_vars
    BY DEF TabNext
  <2> QED
    BY <2>1, TabInvStep, TabAssumption
<1> QED
  BY <1>1, <1>2, PTL DEF TabSpec

\* Every variable of the session has its type, and after a logout that
\* succeeded nothing brings a session back until one is asked for: not a
\* refresh that was under way, not a call that waits for one (client.js:106).
THEOREM LogoutIsLastWord ==
  TabSpec => []LogoutHolds
<1>1. (part = "session" => TabInv) => LogoutHolds
  BY TabInvMeans DEF TabInv, LogoutHolds
<1> QED
  BY <1>1, TabInvariant, PTL

\* The user that is shown owns the session cookies, or the request that will
\* show their owner, or a logout, is under way, in whatever order the answers
\* of calls, refreshes, logins, polls and logouts arrive (client.js:101).
THEOREM OwnerIsAlwaysShown ==
  TabSpec => []OwnerIsShown
<1>1. (part = "session" => TabInv) => OwnerIsShown
  BY TabInvMeans DEF OwnerIsShown
<1> QED
  BY <1>1, TabInvariant, PTL

\* A late answer never ends a session that the server honours
\* (client.js:126).
THEOREM LateAnswersEndNothing ==
  TabSpec => OnlyDeadExpire
<1>1. (part = "session" => TabInv) /\ [TabNext]_<<part, vars, listVars>>
        => [part = "session" => NoLiveSessionExpires]_vars
  <2> SUFFICES ASSUME part = "session", TabInv, [TabNext]_<<part, vars, listVars>>
               PROVE  NoLiveSessionExpires
    OBVIOUS
  <2>1. [Next]_vars
    BY DEF TabNext
  <2> QED
    BY <2>1, ExpiryIsDead, TabAssumption DEF TabInv
<1> QED
  BY <1>1, TabInvariant, PTL DEF TabSpec, OnlyDeadExpire

-----------------------------------------------------------------------------
(* The list: sequences in order.                                           *)

LEMMA ListConstants ==
  /\ N \in Nat /\ Limit \in Nat \ {0} /\ MaxRequests \in Nat \ {0}
  /\ None \notin List!Statuses
  /\ \A s \in Starts :
       /\ s \in [List!Analyses -> List!Statuses]
       /\ \A a, b \in List!Analyses : a < b /\ s[b] # "none" => s[a] # "none"
BY TabAssumption DEF List!HistoryAssumption

LEMMA IsSequence ==
  ASSUME NEW S, NEW n \in Nat, NEW f \in [1 .. n -> S]
  PROVE  f \in Seq(S) /\ Len(f) = n /\ DOMAIN f = 1 .. n
OBVIOUS

\* Every set of numbers of 1 .. n can be put in order: the number of those
\* below one tells its place.
LEMMA Ordered ==
  ASSUME NEW n \in Nat, NEW S \in SUBSET (1 .. n), NEW f, f = List!Sorted(S, n)
  PROVE  /\ f \in Seq(S)
         /\ \A i, j \in DOMAIN f : i < j => f[i] < f[j]
         /\ \A m \in S : \E i \in DOMAIN f : f[i] = m
<1> DEFINE K == Cardinality(S)
           Below(p) == {q \in S : q < p}
           rank == [p \in S |-> Cardinality(Below(p)) + 1]
           g == [k \in 1 .. K |-> CHOOSE p \in S : rank[p] = k]
<1>0. \A p \in S : p \in Int
  OBVIOUS
<1>1. IsFiniteSet(S) /\ K \in Nat /\ K <= n
  <2>1. IsFiniteSet(1 .. n) /\ Cardinality(1 .. n) = n
    BY FS_Interval
  <2>2. IsFiniteSet(S) /\ K <= n
    BY <2>1, FS_Subset
  <2> QED
    BY <2>2, FS_CardinalityType
<1>2. \A p \in S : Cardinality(Below(p)) \in Nat /\ Cardinality(Below(p)) < K
  <2> TAKE p \in S
  <2>1. Below(p) \in SUBSET S /\ Below(p) # S
    OBVIOUS
  <2> HIDE DEF Below
  <2>2. IsFiniteSet(Below(p)) /\ Cardinality(Below(p)) <= K /\ Cardinality(Below(p)) # K
    BY <1>1, <2>1, FS_Subset
  <2>3. Cardinality(Below(p)) \in Nat
    BY <2>2, FS_CardinalityType
  <2> QED
    BY <1>1, <2>2, <2>3
<1>3. \A p, q \in S : p < q => rank[p] < rank[q]
  <2> SUFFICES ASSUME NEW p \in S, NEW q \in S, p < q
               PROVE  Cardinality(Below(p)) < Cardinality(Below(q))
    <3> HIDE DEF Below
    <3> QED BY <1>1, <1>2
  <2>1. Below(p) \in SUBSET Below(q) /\ Below(p) # Below(q) /\ Below(q) \in SUBSET S
    <3>1. p \in Below(q) /\ p \notin Below(p)
      OBVIOUS
    <3>2. \A x \in Below(p) : x \in Below(q)
      OBVIOUS
    <3> QED BY <3>1, <3>2
  <2> HIDE DEF Below
  <2>2. IsFiniteSet(Below(q))
    BY <1>1, <2>1, FS_Subset
  <2>3. Cardinality(Below(p)) <= Cardinality(Below(q)) /\ Cardinality(Below(p)) # Cardinality(Below(q))
    BY <2>1, <2>2, FS_Subset
  <2> QED
    BY <1>2, <2>3
<1>4. rank \in [S -> 1 .. K]
  BY <1>1, <1>2
<1> HIDE DEF rank, K, Below
<1>5. \A p, q \in S : rank[p] = rank[q] => p = q
  <2> SUFFICES ASSUME NEW p \in S, NEW q \in S, rank[p] = rank[q], p # q
               PROVE  FALSE
    OBVIOUS
  <2>1. p \in Int /\ q \in Int
    OBVIOUS
  <2>2. p < q \/ q < p
    BY <2>1
  <2>3. rank[p] \in Int
    BY <1>4
  <2> QED
    BY <1>3, <2>2, <2>3
<1>6. rank \in Injection(S, 1 .. K)
  BY <1>4, <1>5 DEF Injection, IsInjective
<1>7. IsFiniteSet(1 .. K) /\ Cardinality(1 .. K) = K
  BY <1>1, FS_Interval
<1>8. rank \in Surjection(S, 1 .. K)
  BY <1>6, <1>7, FS_Injection DEF K
<1>9. \A k \in 1 .. K : g[k] \in S /\ rank[g[k]] = k
  BY <1>8 DEF Surjection
<1>10. g \in [1 .. K -> S]
  BY <1>9
<1>11. \A i, j \in 1 .. K : i < j => g[i] < g[j]
  <2> SUFFICES ASSUME NEW i \in 1 .. K, NEW j \in 1 .. K, i < j, ~(g[i] < g[j])
               PROVE  FALSE
    OBVIOUS
  <2> HIDE DEF g
  <2>1. g[i] \in Int /\ g[j] \in Int /\ g[i] \in S /\ g[j] \in S
    <3>1. g[i] \in S /\ g[j] \in S
      BY <1>9
    <3> QED BY <3>1, <1>0
  <2>2. g[j] < g[i] \/ g[i] = g[j]
    BY <2>1
  <2>3. rank[g[i]] = i /\ rank[g[j]] = j
    BY <1>9
  <2>4. i \in Int /\ j \in Int
    BY <1>1
  <2>5. CASE g[i] = g[j]
    BY <2>3, <2>4, <2>5
  <2>6. CASE g[j] < g[i]
    <3>1. rank[g[j]] < rank[g[i]]
      BY <1>3, <2>1, <2>6
    <3> QED
      BY <2>3, <2>4, <3>1
  <2> QED
    BY <2>2, <2>5, <2>6
<1>12. \A m \in S : \E i \in 1 .. K : g[i] = m
  <2> TAKE m \in S
  <2>1. rank[m] \in 1 .. K
    BY <1>4
  <2>2. g[rank[m]] \in S /\ rank[g[rank[m]]] = rank[m]
    BY <1>9, <2>1
  <2>3. g[rank[m]] = m
    BY <1>5, <2>2
  <2> QED
    BY <2>1, <2>3
<1>13. g \in UNION {[1 .. k -> S] : k \in 0 .. n}
  BY <1>1, <1>10
<1>14. DOMAIN g = 1 .. K
  OBVIOUS
<1> HIDE DEF g
<1>15. /\ f \in UNION {[1 .. k -> S] : k \in 0 .. n}
       /\ \A i, j \in DOMAIN f : i < j => f[i] < f[j]
       /\ \A m \in S : \E i \in DOMAIN f : f[i] = m
  BY <1>11, <1>12, <1>13, <1>14 DEF List!Sorted
<1>16. PICK k \in 0 .. n : f \in [1 .. k -> S]
  BY <1>15
<1> QED
  BY <1>15, <1>16, IsSequence

\* What is said of a sequence of items: its ids, from the newest.
Ids(s) == {s[i].id : i \in DOMAIN s}
Descending(s) == \A i, j \in DOMAIN s : i < j => s[i].id > s[j].id

LEMMA NewestFirst ==
  ASSUME NEW ids \in SUBSET List!Analyses, NEW r, r = List!Newest(ids)
  PROVE  /\ r \in Seq(ids)
         /\ \A i, j \in DOMAIN r : i < j => r[i] > r[j]
         /\ \A a \in ids : \E i \in DOMAIN r : r[i] = a
<1> DEFINE f == List!Sorted(ids, N)
<1>1. /\ f \in Seq(ids)
      /\ \A i, j \in DOMAIN f : i < j => f[i] < f[j]
      /\ \A m \in ids : \E i \in DOMAIN f : f[i] = m
  BY Ordered, ListConstants DEF List!Analyses
<1>2. r = [i \in 1 .. Len(f) |-> f[Len(f) + 1 - i]]
  BY DEF List!Newest
<1> HIDE DEF f
<1>3. Len(f) \in Nat /\ DOMAIN f = 1 .. Len(f)
  BY <1>1
<1>4. \A i \in 1 .. Len(f) : Len(f) + 1 - i \in 1 .. Len(f)
  BY <1>3
<1>5. \A i \in 1 .. Len(f) : f[i] \in ids /\ f[i] \in Int
  <2>1. \A a \in ids : a \in Int
    BY ListConstants DEF List!Analyses
  <2>2. \A i \in 1 .. Len(f) : f[i] \in ids
    BY <1>1, <1>3
  <2> QED
    BY <2>1, <2>2
<1>6. r \in [1 .. Len(f) -> ids]
  <2>1. \A i \in 1 .. Len(f) : f[Len(f) + 1 - i] \in ids
    BY <1>4, <1>5
  <2> QED
    BY <1>2, <2>1
<1>7. r \in Seq(ids) /\ DOMAIN r = 1 .. Len(f)
  BY <1>3, <1>6, IsSequence
<1>8. ASSUME NEW i \in 1 .. Len(f), NEW j \in 1 .. Len(f), i < j PROVE r[i] > r[j]
  <2>1. Len(f) + 1 - j < Len(f) + 1 - i
    BY <1>3, <1>8
  <2>2. f[Len(f) + 1 - j] < f[Len(f) + 1 - i]
    BY <1>1, <1>3, <1>4, <2>1
  <2> QED
    BY <1>2, <1>4, <1>5, <2>2
<1>9. ASSUME NEW a \in ids PROVE \E i \in 1 .. Len(f) : r[i] = a
  <2>1. PICK i \in 1 .. Len(f) : f[i] = a
    BY <1>1, <1>3
  <2>2. Len(f) + 1 - (Len(f) + 1 - i) = i
    BY <1>3
  <2> QED
    BY <1>2, <1>4, <2>1, <2>2
<1>10. DOMAIN r = 1 .. Len(f)
  BY <1>7
<1> QED
  BY <1>7, <1>8, <1>9, <1>10

\* A filter keeps the items it is meant to keep, in their order.
LEMMA AmongHolds ==
  ASSUME NEW S, NEW s \in Seq(S), NEW ids, NEW t, t = List!Among(s, ids)
  PROVE  /\ t \in Seq(S)
         /\ Ids(t) = Ids(s) \cap ids
         /\ \A k \in DOMAIN t : \E i \in DOMAIN s : t[k] = s[i]
         /\ \A i \in DOMAIN s : s[i].id \in ids => \E k \in DOMAIN t : t[k] = s[i]
         /\ Descending(s) => Descending(t)
<1> DEFINE places == {i \in DOMAIN s : s[i].id \in ids}
           f == List!Sorted(places, Len(s))
<1>1. Len(s) \in Nat /\ DOMAIN s = 1 .. Len(s) /\ places \in SUBSET (1 .. Len(s))
  OBVIOUS
<1>2. t = [k \in 1 .. Len(f) |-> s[f[k]]]
  BY DEF List!Among
<1>3. \A i \in places : i \in DOMAIN s /\ s[i].id \in ids /\ s[i] \in S /\ i \in Int
  OBVIOUS
<1>4. \A i \in DOMAIN s : s[i].id \in ids => i \in places
  OBVIOUS
<1> HIDE DEF places
<1>5. /\ f \in Seq(places)
      /\ \A i, j \in DOMAIN f : i < j => f[i] < f[j]
      /\ \A m \in places : \E i \in DOMAIN f : f[i] = m
  BY <1>1, Ordered
<1> HIDE DEF f
<1>6. Len(f) \in Nat /\ DOMAIN f = 1 .. Len(f) /\ \A k \in 1 .. Len(f) : f[k] \in places
  BY <1>5
<1>7. t \in [1 .. Len(f) -> S]
  BY <1>2, <1>3, <1>6
<1>8. t \in Seq(S) /\ DOMAIN t = 1 .. Len(f)
  BY <1>6, <1>7, IsSequence
<1>9. \A k \in DOMAIN t : t[k] = s[f[k]] /\ f[k] \in DOMAIN s /\ t[k].id \in ids
  BY <1>2, <1>3, <1>6, <1>8
<1>10. \A i \in DOMAIN s : s[i].id \in ids => \E k \in DOMAIN t : t[k] = s[i]
  <2> SUFFICES ASSUME NEW i \in DOMAIN s, s[i].id \in ids
               PROVE  \E k \in DOMAIN t : t[k] = s[i]
    OBVIOUS
  <2>1. PICK k \in DOMAIN f : f[k] = i
    BY <1>4, <1>5
  <2> QED
    BY <1>6, <1>8, <1>9, <2>1
<1>11. Ids(t) = Ids(s) \cap ids
  BY <1>9, <1>10 DEF Ids
<1>12. ASSUME Descending(s), NEW i \in DOMAIN t, NEW j \in DOMAIN t, i < j
       PROVE  t[i].id > t[j].id
  <2>1. f[i] < f[j]
    BY <1>5, <1>6, <1>8, <1>12
  <2> QED
    BY <1>9, <1>12, <2>1 DEF Descending
<1> QED
  BY <1>8, <1>9, <1>10, <1>11, <1>12 DEF Descending

-----------------------------------------------------------------------------
(* The list: what the server knows, and the pages it serves.               *)

Item == [id : List!Analyses, status : List!Statuses \ {"none", "cancelled"}]
Created(a) == analyses[a] # "none"
Visible(a) == analyses[a] \notin {"none", "cancelled"}

\* Who says that an analysis has ended says how.
Truly(a, s) == s \in List!Terminal => analyses[a] = s

\* Items from the newest, of analyses that exist.
Orderly(s) ==
    /\ Descending(s)
    /\ \A i \in DOMAIN s : Created(s[i].id) /\ Truly(s[i].id, s[i].status)

LEMMA ItemsAmong ==
  ASSUME NEW s \in Seq(Item), Descending(s), NEW ids
  PROVE  /\ List!Among(s, ids) \in Seq(Item) /\ Descending(List!Among(s, ids))
         /\ Ids(List!Among(s, ids)) = Ids(s) \cap ids
         /\ \A k \in DOMAIN List!Among(s, ids) : \E i \in DOMAIN s : List!Among(s, ids)[k] = s[i]
<1>1. PICK t : t = List!Among(s, ids)
  OBVIOUS
<1> QED
  BY <1>1, AmongHolds

Pages == [items : Seq(Item), next : 0 .. N]

\* A page shows everything down to its cursor that was there when it was served:
\* what is missing is newer than all of it.
PageHolds(p, from) ==
    /\ Orderly(p.items)
    /\ p.next < from
    /\ p.next # 0 => Created(p.next)
    /\ \A i \in DOMAIN p.items : p.items[i].id \in p.next .. from - 1
    /\ \A a \in List!Analyses : Visible(a) /\ a \in p.next .. from - 1 /\ a \notin Ids(p.items)
         => from = List!Beyond /\ \A b \in Ids(p.items) : b < a

LEMMA PageServed ==
  ASSUME analyses \in [List!Analyses -> List!Statuses], NEW from \in 1 .. List!Beyond,
         NEW p, p = List!PageAfter(from)
  PROVE  /\ p \in Pages /\ PageHolds(p, from)
         /\ \A i \in DOMAIN p.items : p.items[i].status = analyses[p.items[i].id]
<1> DEFINE older == List!Older(from)
           rows == List!Newest(older)
           size == IF Len(rows) > Limit THEN Limit ELSE Len(rows)
           items == [i \in 1 .. size |-> [id |-> rows[i], status |-> analyses[rows[i]]]]
           next == IF Len(rows) > Limit THEN rows[size] ELSE 0
<1>1. p = [items |-> items, next |-> next]
  BY DEF List!PageAfter
<1>2. /\ older \in SUBSET List!Analyses
      /\ \A a \in older : /\ a \in List!Analyses /\ a \in Nat /\ 1 <= a /\ a <= N /\ a < from
                          /\ analyses[a] \in List!Statuses \ {"none", "cancelled"}
  BY ListConstants DEF List!Older, List!Analyses
<1>3. \A a \in List!Analyses : Visible(a) /\ a < from => a \in older
  BY DEF List!Older, Visible
<1> HIDE DEF older
<1>4. /\ rows \in Seq(older)
      /\ \A i, j \in DOMAIN rows : i < j => rows[i] > rows[j]
      /\ \A a \in older : \E i \in DOMAIN rows : rows[i] = a
  BY <1>2, NewestFirst
<1> HIDE DEF rows
<1>5. Len(rows) \in Nat /\ DOMAIN rows = 1 .. Len(rows) /\ \A i \in DOMAIN rows : rows[i] \in older
  BY <1>4
<1>6. size \in Nat /\ size <= Len(rows) /\ (Len(rows) > Limit => size \in 1 .. Len(rows))
      /\ (size < Len(rows) => Len(rows) > Limit)
  BY <1>5, ListConstants
<1> HIDE DEF size
<1>7. \A i \in 1 .. size : /\ i \in DOMAIN rows /\ items[i].id = rows[i] /\ rows[i] \in older
                           /\ items[i].status = analyses[rows[i]]
                           /\ items[i] \in Item
  <2> TAKE i \in 1 .. size
  <2>1. i \in DOMAIN rows /\ rows[i] \in older
    BY <1>5, <1>6
  <2>2. items[i] = [id |-> rows[i], status |-> analyses[rows[i]]]
    OBVIOUS
  <2> QED
    BY <1>2, <2>1, <2>2 DEF Item
<1>8. items \in [1 .. size -> Item]
  <2>1. \A i \in 1 .. size : [id |-> rows[i], status |-> analyses[rows[i]]] \in Item
    BY <1>7
  <2> QED
    BY <2>1
<1>9. items \in Seq(Item) /\ DOMAIN items = 1 .. size
  BY <1>6, <1>8, IsSequence
<1>10. next \in 0 .. N /\ next < from /\ (next # 0 => Len(rows) > Limit /\ next = rows[size] /\ next \in older)
       /\ (Len(rows) > Limit => next # 0)
  BY <1>2, <1>5, <1>6, ListConstants DEF List!Beyond
<1>11. \A i \in 1 .. size : rows[i] \in next .. from - 1
  <2> TAKE i \in 1 .. size
  <2>1. rows[i] \in older
    BY <1>7
  <2>2. next = 0 \/ (next = rows[size] /\ size \in DOMAIN rows)
    BY <1>5, <1>6, <1>10
  <2>3. i = size \/ i < size
    BY <1>6
  <2>4. rows[i] >= next
    BY <1>2, <1>4, <1>7, <2>1, <2>2, <2>3
  <2> QED
    BY <1>2, <1>10, <2>1, <2>4
<1>12. ASSUME NEW a \in List!Analyses, Visible(a), a \in next .. from - 1
       PROVE  \E i \in 1 .. size : rows[i] = a
  <2>1. a \in older /\ a \in Int
    BY <1>3, <1>10, <1>12, ListConstants DEF List!Analyses
  <2>2. PICK i \in DOMAIN rows : rows[i] = a
    BY <1>4, <2>1
  <2>3. CASE i <= size
    BY <1>5, <2>2, <2>3
  <2>4. CASE i > size
    <3>1. Len(rows) > Limit /\ size \in DOMAIN rows
      BY <1>5, <1>6, <2>4
    <3>2. rows[size] > rows[i] /\ next = rows[size]
      BY <1>4, <1>10, <2>4, <3>1
    <3>3. rows[size] > a /\ rows[size] \in Int
      BY <1>2, <1>5, <2>2, <3>1, <3>2
    <3> HIDE DEF next
    <3> QED
      BY <1>12, <2>1, <3>2, <3>3
  <2> QED
    BY <1>5, <1>6, <2>3, <2>4
<1> HIDE DEF items, next
<1>13. p.items = items /\ p.next = next /\ p \in Pages
  BY <1>1, <1>9, <1>10 DEF Pages
<1>14. Orderly(items)
  <2>1. Descending(items)
    BY <1>4, <1>7, <1>9 DEF Descending
  <2>2. \A i \in DOMAIN items : Created(items[i].id) /\ Truly(items[i].id, items[i].status)
    BY <1>2, <1>7, <1>9 DEF Created, Truly
  <2> QED
    BY <2>1, <2>2 DEF Orderly
<1>15. next # 0 => Created(next)
  BY <1>2, <1>10 DEF Created
<1>16. \A i \in DOMAIN items : items[i].id \in next .. from - 1
  BY <1>7, <1>9, <1>11
<1>17. ASSUME NEW a \in List!Analyses, Visible(a), a \in next .. from - 1 PROVE a \in Ids(items)
  BY <1>7, <1>9, <1>12, <1>17 DEF Ids
<1>18. \A i \in DOMAIN items : items[i].status = analyses[items[i].id]
  BY <1>7, <1>9
<1> QED
  BY <1>10, <1>13, <1>14, <1>15, <1>16, <1>17, <1>18 DEF PageHolds

-----------------------------------------------------------------------------
(* The list: the invariant.                                                *)

ListTypes ==
    /\ List!TypeOK
    /\ requests \subseteq [n : 1 .. MaxRequests, append : BOOLEAN, cursor : 1 .. List!Beyond,
                           answer : {None} \cup Pages]
    /\ page \in [of : 0 .. N, reported : List!Statuses \cup {None},
                 heard : List!Statuses \cup {None}]

InOrder == \A a, b \in List!Analyses : a < b /\ Created(b) => Created(a)

\* What the tab has heard of an end is true.
HeardIsTrue ==
    /\ \A a \in cancelled : analyses[a] = "cancelled"
    /\ \A a \in List!Analyses : Truly(a, live[a])
    /\ page.of # 0 /\ page.heard \in List!Terminal \cup {"cancelled"}
         => analyses[page.of] = page.heard

\* Items show the ends that were heard of.
Heard(s) == \A i \in DOMAIN s : live[s[i].id] \in List!Terminal => s[i].status = live[s[i].id]

Listing ==
    /\ Orderly(list) /\ Heard(list)
    /\ cursor # 0 => Created(cursor)
    /\ \A i \in DOMAIN list : list[i].id >= cursor /\ list[i].id \notin cancelled
    /\ \A a \in List!Analyses :
         Visible(a) /\ a >= cursor /\ (\E i \in DOMAIN list : a <= list[i].id) => a \in Ids(list)

\* A request for the next page is for the page after what is shown, as long as
\* it is the latest, and what it brings is not behind what was heard meanwhile.
RequestHolds(r) ==
    /\ r.n <= latest
    /\ r.append => r.cursor \in List!Analyses /\ Created(r.cursor)
    /\ ~r.append => r.cursor = List!Beyond
    /\ r.append /\ r.n = latest => r.cursor = cursor
    /\ r.answer # None => PageHolds(r.answer, r.cursor)
    /\ r.append /\ r.n = latest /\ r.answer # None => Heard(r.answer.items)

Asked ==
    /\ \A r \in requests : RequestHolds(r)
    /\ \A r, s \in requests : r.n = s.n => r = s

ListInv == ListTypes /\ InOrder /\ HeardIsTrue /\ Listing /\ Asked /\ List!LoadingIsUnderWay

LEMMA ListInvInit ==
  ASSUME List!Init
  PROVE  ListInv
<1> USE ListConstants
<1>1. ListTypes
  <2>1. list \in Seq(Item)
    BY DEF List!Init
  <2>2. List!TypeOK
    BY <2>1 DEF List!Init, List!TypeOK, List!NoPage, Item
  <2> QED
    BY <2>2 DEF List!Init, ListTypes, List!NoPage, List!Request, List!Beyond
<1>2. InOrder
  BY DEF List!Init, InOrder, Created
<1>3. HeardIsTrue
  BY DEF List!Init, HeardIsTrue, Truly, List!NoPage, List!Terminal, List!Statuses
<1>4. Listing
  BY DEF List!Init, Listing, Orderly, Heard, Descending
<1>5. Asked
  BY DEF List!Init, Asked, RequestHolds, List!Request
<1>6. List!LoadingIsUnderWay
  BY DEF List!Init, List!LoadingIsUnderWay, List!Request
<1> QED
  BY <1>1, <1>2, <1>3, <1>4, <1>5, <1>6 DEF ListInv

\* Statuses move on: what ended stays, and a new analysis is the newest.
LEMMA StatusMoves ==
  ASSUME ListTypes, InOrder, NEW a \in List!Analyses, List!Create(a) \/ List!Work(a)
  PROVE  /\ UNCHANGED <<List!client, page>>
         /\ analyses' \in [List!Analyses -> List!Statuses] /\ InOrder'
         /\ \A b \in List!Analyses :
              /\ Created(b) => Created(b)'
              /\ Visible(b)' => Visible(b) \/ \A c \in List!Analyses : Created(c) => c < b
              /\ analyses[b] \in List!Terminal \cup {"cancelled"} => analyses'[b] = analyses[b]
<1>1. analyses \in [List!Analyses -> List!Statuses]
  BY DEF ListTypes, List!TypeOK
<1>2. \A b \in List!Analyses : b \in Int
  BY ListConstants DEF List!Analyses
<1>3. CASE List!Create(a)
  <2>1. /\ \A b \in 1 .. a - 1 : analyses[b] # "none"
        /\ analyses[a] = "none" /\ analyses' = [analyses EXCEPT ![a] = "pending"]
        /\ UNCHANGED <<List!client, page>>
    BY <1>3 DEF List!Create, List!Change
  <2>2. \A b \in List!Analyses : b < a => Created(b)
    BY <1>2, <2>1 DEF Created, List!Analyses
  <2>3. \A c \in List!Analyses : Created(c) => c < a
    BY <1>2, <2>1 DEF InOrder, Created
  <2>4. \A b \in List!Analyses : analyses'[b] = IF b = a THEN "pending" ELSE analyses[b]
    BY <1>1, <2>1
  <2>5. analyses' \in [List!Analyses -> List!Statuses]
    BY <1>1, <2>1 DEF List!Statuses
  <2>6. InOrder'
    BY <1>2, <2>2, <2>4 DEF InOrder, Created
  <2> QED
    BY <2>1, <2>3, <2>4, <2>5, <2>6 DEF Created, Visible, List!Terminal
<1>4. CASE List!Work(a)
  <2>1. /\ analyses[a] \in {"pending", "processing"}
        /\ \E to \in List!Statuses \ {"none"} : analyses' = [analyses EXCEPT ![a] = to]
        /\ UNCHANGED <<List!client, page>>
    BY <1>4 DEF List!Work, List!Change, List!Statuses
  <2>2. PICK to \in List!Statuses \ {"none"} : analyses' = [analyses EXCEPT ![a] = to]
    BY <2>1
  <2>3. \A b \in List!Analyses : analyses'[b] = IF b = a THEN to ELSE analyses[b]
    BY <1>1, <2>2
  <2> QED
    BY <1>1, <2>1, <2>2, <2>3 DEF InOrder, Created, Visible, List!Terminal
<1> QED
  BY <1>3, <1>4

-----------------------------------------------------------------------------
(* The list: the invariant is kept.                                        *)

LEMMA ItemsTyping ==
  ASSUME NEW s \in Seq(Item)
  PROVE  /\ Len(s) \in Nat /\ DOMAIN s = 1 .. Len(s)
         /\ \A i \in DOMAIN s : /\ s[i] \in Item /\ s[i].id \in List!Analyses
                                /\ s[i].status \in List!Statuses \ {"none", "cancelled"}
<1>1. Len(s) \in Nat /\ DOMAIN s = 1 .. Len(s) /\ \A i \in DOMAIN s : s[i] \in Item
  OBVIOUS
<1> QED
  BY <1>1 DEF Item

LEMMA ListTyping ==
  ASSUME ListTypes
  PROVE  /\ analyses \in [List!Analyses -> List!Statuses] /\ list \in Seq(Item)
         /\ cursor \in 0 .. N /\ latest \in 1 .. MaxRequests
         /\ live \in [List!Analyses -> List!Statuses \cup {None}]
         /\ cancelled \subseteq List!Analyses
         /\ page.of \in 0 .. N
         /\ Len(list) \in Nat /\ DOMAIN list = 1 .. Len(list)
         /\ \A i \in DOMAIN list : list[i] \in Item /\ list[i].id \in List!Analyses
         /\ \A a \in List!Analyses : a \in Int /\ 1 <= a /\ a <= N
         /\ \A r \in requests : /\ r.n \in Int /\ r.append \in BOOLEAN /\ r.cursor \in 1 .. List!Beyond
                                /\ r.answer # None => r.answer \in Pages
<1>1. list \in Seq(Item)
  BY DEF ListTypes, List!TypeOK, Item
<1>2. Len(list) \in Nat /\ DOMAIN list = 1 .. Len(list) /\ \A i \in DOMAIN list : list[i] \in Item
  BY <1>1
<1>3. \A item \in Item : item.id \in List!Analyses
  BY DEF Item
<1>4. \A a \in List!Analyses : a \in Int /\ 1 <= a /\ a <= N
  BY ListConstants DEF List!Analyses
<1>5. \A r \in requests : /\ r.n \in Int /\ r.append \in BOOLEAN /\ r.cursor \in 1 .. List!Beyond
                          /\ r.answer # None => r.answer \in Pages
  BY ListConstants DEF ListTypes
<1> QED
  BY <1>1, <1>2, <1>3, <1>4, <1>5 DEF ListTypes, List!TypeOK

LEMMA PageTyping ==
  ASSUME NEW p \in Pages
  PROVE  /\ p.items \in Seq(Item) /\ p.next \in 0 .. N
         /\ \A i \in DOMAIN p.items : p.items[i] \in Item /\ p.items[i].id \in List!Analyses
<1>1. p.items \in Seq(Item) /\ p.next \in 0 .. N
  BY DEF Pages
<1> QED
  BY <1>1, ItemsTyping

LEMMA StatusStep ==
  ASSUME ListInv, NEW a \in List!Analyses, List!Create(a) \/ List!Work(a)
  PROVE  ListInv'
<1> USE DEF ListInv
<1>1. /\ UNCHANGED <<List!client, page>>
      /\ analyses' \in [List!Analyses -> List!Statuses] /\ InOrder'
      /\ \A b \in List!Analyses :
           /\ Created(b) => Created(b)'
           /\ Visible(b)' => Visible(b) \/ \A c \in List!Analyses : Created(c) => c < b
           /\ analyses[b] \in List!Terminal \cup {"cancelled"} => analyses'[b] = analyses[b]
  BY StatusMoves
<1>2. /\ list' = list /\ cursor' = cursor /\ live' = live /\ cancelled' = cancelled
      /\ requests' = requests /\ latest' = latest /\ loading' = loading
      /\ loadingMore' = loadingMore /\ page' = page
  BY <1>1 DEF List!client
<1>3. ListTypes'
  BY <1>1, <1>2 DEF ListTypes, List!TypeOK
<1>4. ASSUME NEW b \in List!Analyses, NEW s, Truly(b, s)
      PROVE  analyses'[b] = analyses[b] \/ s \notin List!Terminal
  BY <1>1, <1>4 DEF Truly
<1>5. HeardIsTrue'
  <2>1. \A b \in cancelled : analyses'[b] = "cancelled"
    BY <1>1, ListTyping DEF HeardIsTrue
  <2>2. \A b \in List!Analyses : live[b] \in List!Terminal => analyses'[b] = live[b]
    BY <1>1 DEF HeardIsTrue, Truly
  <2>3. page.of # 0 => page.of \in List!Analyses
    BY ListTyping, ListConstants DEF List!Analyses
  <2>4. page.of # 0 /\ page.heard \in List!Terminal \cup {"cancelled"}
          => analyses'[page.of] = page.heard
    BY <1>1, <2>3 DEF HeardIsTrue
  <2> QED
    BY <1>2, <2>1, <2>2, <2>4 DEF HeardIsTrue, Truly
<1>6. ASSUME NEW s \in Seq(Item), Orderly(s)
      PROVE  /\ Descending(s)
             /\ \A i \in DOMAIN s : /\ s[i].id \in List!Analyses /\ Created(s[i].id)
                                    /\ analyses'[s[i].id] # "none"
                                    /\ s[i].status \in List!Terminal => analyses'[s[i].id] = s[i].status
  <2>1. \A i \in DOMAIN s : s[i].id \in List!Analyses
    BY ItemsTyping
  <2> QED
    BY <1>1, <1>6, <2>1 DEF Orderly, Created, Truly
<1>7. Listing'
  <2>1. Orderly(list)'
    BY <1>2, <1>6, ListTyping DEF Listing, Orderly, Descending, Created, Truly
  <2>2. cursor # 0 => analyses'[cursor] # "none"
    BY <1>1, ListTyping, ListConstants DEF Listing, Created, List!Analyses
  <2>3. ASSUME NEW b \in List!Analyses, Visible(b)', b >= cursor, NEW i \in DOMAIN list, b <= list[i].id
        PROVE  b \in Ids(list)
    <3>1. list[i].id \in List!Analyses /\ Created(list[i].id)
      BY ListTyping DEF Listing, Orderly
    <3>2. Visible(b)
      BY <1>1, <2>3, <3>1, ListTyping
    <3> QED
      BY <2>3, <3>2 DEF Listing
  <2> QED
    BY <1>2, <2>1, <2>2, <2>3 DEF Listing, Heard, Created, Ids, Visible
<1>8. ASSUME NEW r \in requests, r.answer # None
      PROVE  PageHolds(r.answer, r.cursor)'
  <2> DEFINE p == r.answer
  <2>1. p \in Pages /\ PageHolds(p, r.cursor)
    BY <1>8, ListTyping DEF Asked, RequestHolds
  <2>2. p.items \in Seq(Item) /\ Orderly(p.items)
    BY <2>1, PageTyping DEF PageHolds
  <2>3. r.cursor # List!Beyond => r.cursor \in List!Analyses /\ Created(r.cursor)
    BY ListTyping DEF Asked, RequestHolds
  <2> HIDE DEF p
  <2>4. Orderly(p.items)'
    BY <1>6, <2>2 DEF Orderly, Created, Truly
  <2>5. p.next # 0 => analyses'[p.next] # "none"
    BY <1>1, <2>1, PageTyping, ListConstants DEF PageHolds, Created, List!Analyses
  <2>6. ASSUME NEW b \in List!Analyses, Visible(b)', b \in p.next .. r.cursor - 1, b \notin Ids(p.items)
        PROVE  r.cursor = List!Beyond /\ \A c \in Ids(p.items) : c < b
    <3>1. CASE Visible(b)
      BY <2>1, <2>6, <3>1 DEF PageHolds
    <3>2. CASE \A c \in List!Analyses : Created(c) => c < b
      <4>1. r.cursor = List!Beyond
        BY <2>3, <2>6, <3>2, ListTyping
      <4>2. \A c \in Ids(p.items) : c \in List!Analyses /\ Created(c)
        BY <1>6, <2>2 DEF Ids
      <4> QED
        BY <3>2, <4>1, <4>2
    <3> QED
      BY <1>1, <2>6, <3>1, <3>2
  <2> QED
    BY <2>1, <2>4, <2>5, <2>6 DEF PageHolds, Created, Visible, Ids, p
<1>9. Asked'
  <2>1. ASSUME NEW r \in requests PROVE RequestHolds(r)'
    <3>1. RequestHolds(r)
      BY DEF Asked
    <3>2. r.append => r.cursor \in List!Analyses /\ analyses'[r.cursor] # "none"
      BY <1>1, <3>1 DEF RequestHolds, Created
    <3> QED
      BY <1>2, <1>8, <3>1, <3>2 DEF RequestHolds, Created, Heard
  <2> QED
    BY <1>2, <2>1 DEF Asked
<1>10. List!LoadingIsUnderWay'
  BY <1>2 DEF List!LoadingIsUnderWay
<1> QED
  BY <1>1, <1>3, <1>5, <1>7, <1>9, <1>10

\* What is kept when the database is not written.
LEMMA ServeStep ==
  ASSUME ListInv, NEW r \in requests, List!Serve(r)
  PROVE  ListInv'
<1> USE DEF ListInv
<1> DEFINE p == List!PageAfter(r.cursor)
           s == [r EXCEPT !.answer = p]
<1>1. /\ r.answer = None /\ requests' = (requests \ {r}) \cup {s}
      /\ UNCHANGED <<analyses, list, cursor, live, cancelled, latest, loading, loadingMore,
                     error, page>>
  BY DEF List!Serve
<1>2. /\ p \in Pages /\ PageHolds(p, r.cursor)
      /\ \A i \in DOMAIN p.items : p.items[i].status = analyses[p.items[i].id]
  BY ListTyping, PageServed
<1> HIDE DEF p
<1>3. r \in [n : 1 .. MaxRequests, append : BOOLEAN, cursor : 1 .. List!Beyond,
             answer : {None} \cup Pages]
  BY DEF ListTypes
<1>4. /\ s \in [n : 1 .. MaxRequests, append : BOOLEAN, cursor : 1 .. List!Beyond,
                answer : {None} \cup Pages]
      /\ s.n = r.n /\ s.append = r.append /\ s.cursor = r.cursor /\ s.answer = p
  BY <1>2, <1>3
<1> HIDE DEF s
<1>5. Heard(p.items)
  BY <1>2, PageTyping DEF Heard, HeardIsTrue, Truly
<1>6. RequestHolds(r)
  BY DEF Asked
<1>7. RequestHolds(s)
  BY <1>2, <1>4, <1>5, <1>6 DEF RequestHolds
<1>8. \A q \in requests' : RequestHolds(q)
  BY <1>1, <1>7 DEF Asked
<1>9. \A q \in requests' : RequestHolds(q)'
  BY <1>1, <1>8 DEF RequestHolds, PageHolds, Heard, Orderly, Descending, Created, Truly, Visible, Ids
<1>10. Asked'
  BY <1>1, <1>4, <1>9 DEF Asked
<1>11. ListTypes'
  BY <1>1, <1>4 DEF ListTypes, List!TypeOK
<1>12. InOrder' /\ HeardIsTrue' /\ Listing'
  BY <1>1 DEF InOrder, HeardIsTrue, Listing, Orderly, Heard, Descending, Created, Truly, Visible, Ids
<1>13. List!LoadingIsUnderWay'
  BY <1>1, <1>4 DEF List!LoadingIsUnderWay
<1> QED
  BY <1>10, <1>11, <1>12, <1>13

LEMMA FailStep ==
  ASSUME ListInv, NEW r \in requests, List!Fail(r)
  PROVE  ListInv'
<1> USE DEF ListInv
<1>1. /\ requests' = requests \ {r}
      /\ UNCHANGED <<analyses, list, cursor, live, cancelled, latest, page>>
      /\ r.n # latest => loading' = loading /\ loadingMore' = loadingMore
      /\ r.n = latest => ~loading' /\ ~loadingMore'
  BY DEF List!Fail, List!Done
<1>2. Asked'
  BY <1>1 DEF Asked, RequestHolds, PageHolds, Heard, Orderly, Descending, Created, Truly, Visible, Ids
<1>3. ListTypes'
  BY <1>1 DEF ListTypes, List!TypeOK
<1>4. InOrder' /\ HeardIsTrue' /\ Listing'
  BY <1>1 DEF InOrder, HeardIsTrue, Listing, Orderly, Heard, Descending, Created, Truly, Visible, Ids
<1>5. List!LoadingIsUnderWay'
  BY <1>1 DEF List!LoadingIsUnderWay
<1> QED
  BY <1>2, <1>3, <1>4, <1>5

\* The page opens, or hears of what the database says now.
LEMMA PageStep ==
  ASSUME ListInv, List!Hear \/ \E a \in List!Analyses : List!Open(a)
  PROVE  ListInv'
<1> USE DEF ListInv
<1>1. /\ UNCHANGED <<analyses, list, cursor, live, cancelled, requests, latest, loading,
                     loadingMore, error>>
      /\ \/ page.of # 0 /\ page' = [page EXCEPT !.heard = analyses[page.of]]
         \/ \E a \in List!Analyses : page' = [of |-> a, reported |-> None, heard |-> None]
  BY DEF List!Hear, List!Open, List!client
<1>2. Asked'
  BY <1>1 DEF Asked, RequestHolds, PageHolds, Heard, Orderly, Descending, Created, Truly, Visible, Ids
<1>3. page.of # 0 => page.of \in List!Analyses /\ analyses[page.of] \in List!Statuses
  BY ListTyping, ListConstants DEF List!Analyses
<1>4. ListTypes' /\ page'.of \in 0 .. N
  <2>1. CASE page.of # 0 /\ page' = [page EXCEPT !.heard = analyses[page.of]]
    BY <1>1, <1>3, <2>1 DEF ListTypes, List!TypeOK
  <2>2. ASSUME NEW a \in List!Analyses, page' = [of |-> a, reported |-> None, heard |-> None]
        PROVE  ListTypes' /\ page'.of \in 0 .. N
    <3>1. a \in 0 .. N
      BY ListConstants DEF List!Analyses
    <3> QED
      BY <1>1, <2>2, <3>1 DEF ListTypes, List!TypeOK
  <2> QED
    BY <1>1, <2>1, <2>2
<1>5. page'.of # 0 /\ page'.heard \in List!Terminal \cup {"cancelled"} => analyses[page'.of] = page'.heard
  BY <1>1, ListConstants DEF ListTypes, List!Terminal, List!Statuses
<1>6. InOrder' /\ HeardIsTrue' /\ Listing'
  BY <1>1, <1>5 DEF InOrder, HeardIsTrue, Listing, Orderly, Heard, Descending, Created, Truly, Visible, Ids
<1>7. List!LoadingIsUnderWay'
  BY <1>1 DEF List!LoadingIsUnderWay
<1> QED
  BY <1>2, <1>4, <1>6, <1>7

\* A request that begins is the latest, whatever the list is made of meanwhile.
LEMMA Begun ==
  ASSUME ListTypes, Asked, UNCHANGED <<analyses, cursor>>, NEW more \in BOOLEAN, NEW from,
         List!Begin(more, from),
         IF more THEN from = cursor /\ from \in List!Analyses /\ Created(from) ELSE from = List!Beyond
  PROVE  /\ Asked' /\ List!LoadingIsUnderWay' /\ latest' \in 1 .. MaxRequests
         /\ requests' \subseteq [n : 1 .. MaxRequests, append : BOOLEAN, cursor : 1 .. List!Beyond,
                                 answer : {None} \cup Pages]
<1>0. PICK s : s = List!Request(latest + 1, more, from)
  OBVIOUS
<1>1. latest < MaxRequests /\ latest' = latest + 1 /\ requests' = requests \cup {s}
  BY <1>0 DEF List!Begin
<1>2. s.n = latest + 1 /\ s.append = more /\ s.cursor = from /\ s.answer = None
  BY <1>0 DEF List!Request
<1>3. latest \in Int /\ latest + 1 \in 1 .. MaxRequests /\ from \in 1 .. List!Beyond
  BY <1>1, ListTyping, ListConstants DEF List!Analyses, List!Beyond
<1>4. s \in [n : 1 .. MaxRequests, append : BOOLEAN, cursor : 1 .. List!Beyond,
             answer : {None} \cup Pages]
  BY <1>0, <1>3 DEF List!Request
<1>5. \A q \in requests : RequestHolds(q)' /\ q.n # latest + 1
  <2> TAKE q \in requests
  <2>1. RequestHolds(q) /\ q.n \in Int
    BY ListTyping DEF Asked
  <2>2. q.n <= latest /\ q.n # latest' /\ q.n <= latest'
    BY <1>1, <1>3, <2>1 DEF RequestHolds
  <2>3. q.answer # None => PageHolds(q.answer, q.cursor)'
    BY <2>1 DEF RequestHolds, PageHolds, Orderly, Descending, Created, Truly, Visible, Ids
  <2> QED
    BY <1>1, <2>1, <2>2, <2>3 DEF RequestHolds, Created
<1>6. RequestHolds(s)'
  BY <1>1, <1>2, <1>3 DEF RequestHolds, Created
<1>7. Asked'
  <2>1. \A q \in requests' : RequestHolds(q)'
    BY <1>1, <1>5, <1>6
  <2>2. \A q, t \in requests' : q.n = t.n => q = t
    BY <1>1, <1>2, <1>5 DEF Asked
  <2> QED
    BY <2>1, <2>2 DEF Asked
<1>8. List!LoadingIsUnderWay'
  BY <1>1, <1>2 DEF List!LoadingIsUnderWay
<1> QED
  BY <1>1, <1>3, <1>4, <1>7, <1>8 DEF ListTypes

LEMMA RefreshStep ==
  ASSUME ListInv, List!Refresh \/ List!LoadMore
  PROVE  ListInv'
<1> USE DEF ListInv
<1>1. UNCHANGED <<analyses, list, cursor, live, cancelled, page>>
  BY DEF List!Refresh, List!LoadMore
<1>2. cursor # 0 => cursor \in List!Analyses /\ Created(cursor)
  BY ListTyping, ListConstants DEF Listing, List!Analyses
<1>3. \/ List!Begin(FALSE, List!Beyond)
      \/ cursor # 0 /\ List!Begin(TRUE, cursor)
  BY DEF List!Refresh, List!LoadMore
<1>4. /\ Asked' /\ List!LoadingIsUnderWay' /\ latest' \in 1 .. MaxRequests
      /\ requests' \subseteq [n : 1 .. MaxRequests, append : BOOLEAN, cursor : 1 .. List!Beyond,
                              answer : {None} \cup Pages]
  BY <1>1, <1>2, <1>3, Begun
<1>5. ListTypes'
  BY <1>1, <1>4 DEF ListTypes, List!TypeOK
<1>6. InOrder' /\ HeardIsTrue' /\ Listing'
  BY <1>1 DEF InOrder, HeardIsTrue, Listing, Orderly, Heard, Descending, Created, Truly, Visible, Ids
<1> QED
  BY <1>4, <1>5, <1>6

\* The status of an item in a sequence that lists it once.
ShownIn(s, a) == s[CHOOSE i \in DOMAIN s : s[i].id = a].status

LEMMA ListedOnce ==
  ASSUME NEW s \in Seq(Item), Descending(s), NEW i \in DOMAIN s, NEW j \in DOMAIN s,
         s[i].id = s[j].id
  PROVE  i = j
<1>1. i \in Int /\ j \in Int /\ s[i].id \in Int
  BY ItemsTyping, ListConstants DEF List!Analyses
<1> QED
  BY <1>1 DEF Descending

LEMMA ShownOnce ==
  ASSUME NEW s \in Seq(Item), Descending(s), NEW i \in DOMAIN s
  PROVE  ShownIn(s, s[i].id) = s[i].status
<1> DEFINE j == CHOOSE k \in DOMAIN s : s[k].id = s[i].id
<1>1. j \in DOMAIN s /\ s[j].id = s[i].id
  OBVIOUS
<1> HIDE DEF j
<1>2. i = j
  BY <1>1, ListedOnce
<1> QED
  BY <1>2 DEF ShownIn, j

LEMMA ShownListed ==
  /\ List!Listed = Ids(list) /\ List!Listed' = Ids(list')
  /\ \A a : List!Shown(a) = ShownIn(list, a) /\ List!Shown(a)' = ShownIn(list', a)
BY DEF List!Listed, Ids, List!Shown, ShownIn

LEMMA Reconciled ==
  ASSUME NEW x, NEW y
  PROVE  /\ List!Reconcile(x, y) \in {x, y}
         /\ x \in List!Terminal => List!Reconcile(x, y) = x
         /\ x \notin List!Terminal /\ List!Reconcile(x, y) \in List!Terminal
              => List!Reconcile(x, y) = y
         /\ y \in List!Terminal => List!Reconcile(x, y) \in List!Terminal
         /\ y \in List!Statuses \ {"none", "cancelled"}
              => List!Reconcile(x, y) \in List!Statuses \ {"none", "cancelled"}
BY DEF List!Reconcile, List!Terminal, List!Statuses

\* handleStatusChange: what is told is taken over for one analysis, unless the
\* list knows better.
LEMMA Accepted ==
  ASSUME ListInv, NEW a \in List!Analyses, NEW s \in List!Statuses \ {"none", "cancelled"},
         Truly(a, s), List!Accept(a, s), UNCHANGED <<analyses, cursor, cancelled>>
  PROVE  /\ list' \in Seq(Item) /\ Listing'
         /\ live' \in [List!Analyses -> List!Statuses \cup {None}]
         /\ \A b \in List!Analyses : Truly(b, live[b])'
         /\ \A b \in List!Analyses :
              live'[b] # live[b] =>
                /\ b = a
                /\ live'[b] \in List!Terminal => a \in Ids(list) \/ s \in List!Terminal
         /\ DOMAIN list' = DOMAIN list
         /\ \A i \in DOMAIN list : /\ list'[i].id = list[i].id
                                   /\ list[i].status \in List!Terminal => list'[i].status = list[i].status
<1> USE DEF ListInv
<1> DEFINE accepted == IF a \in List!Listed THEN List!Reconcile(List!Shown(a), s) ELSE s
<1>1. /\ live' = [live EXCEPT ![a] = accepted]
      /\ list' = [i \in DOMAIN list |->
                    IF list[i].id = a THEN [list[i] EXCEPT !.status = accepted] ELSE list[i]]
  BY DEF List!Accept
<1>2. /\ Descending(list) /\ list \in Seq(Item)
      /\ \A i \in DOMAIN list : Created(list[i].id) /\ Truly(list[i].id, list[i].status)
  BY ListTyping DEF Listing, Orderly
<1>3. \A i \in DOMAIN list : list[i].id = a => a \in List!Listed /\ List!Shown(a) = list[i].status
  BY <1>2, ShownOnce, ShownListed DEF Ids
<1>4. a \in List!Listed => \E i \in DOMAIN list : list[i].id = a
  BY ShownListed DEF Ids
<1>5. /\ accepted \in List!Statuses \ {"none", "cancelled"}
      /\ Truly(a, accepted)
      /\ \A i \in DOMAIN list : list[i].id = a /\ list[i].status \in List!Terminal => accepted = list[i].status
      /\ accepted \in List!Terminal => a \in List!Listed \/ s \in List!Terminal
  <2>1. CASE a \in List!Listed
    <3>1. PICK i \in DOMAIN list : list[i].id = a
      BY <1>4, <2>1
    <3>2. List!Shown(a) = list[i].status /\ Truly(a, List!Shown(a))
      BY <1>2, <1>3, <3>1
    <3>3. accepted = List!Reconcile(List!Shown(a), s)
      BY <2>1
    <3> HIDE DEF accepted
    <3> QED
      BY <1>3, <2>1, <3>2, <3>3, Reconciled DEF Truly
  <2>2. CASE a \notin List!Listed
    BY <1>3, <2>2
  <2> QED
    BY <2>1, <2>2
<1> HIDE DEF accepted
<1>6. \A i \in DOMAIN list :
        /\ list'[i] \in Item /\ list'[i].id = list[i].id
        /\ list'[i].status = IF list[i].id = a THEN accepted ELSE list[i].status
  <2> TAKE i \in DOMAIN list
  <2>1. list[i] \in Item
    BY ListTyping
  <2> QED
    BY <1>1, <1>5, <2>1 DEF Item
<1>7. /\ list' \in Seq(Item) /\ DOMAIN list' = DOMAIN list
  <2>1. Len(list) \in Nat /\ DOMAIN list = 1 .. Len(list)
    BY ListTyping
  <2>2. DOMAIN list' = 1 .. Len(list)
    BY <1>1, <2>1
  <2>3. list' = [i \in 1 .. Len(list) |-> list'[i]]
    BY <1>1, <2>1
  <2>4. list' \in [1 .. Len(list) -> Item]
    BY <1>6, <2>1, <2>3
  <2> QED
    BY <2>1, <2>2, <2>4, IsSequence
<1>8. \A b \in List!Analyses : live'[b] = IF b = a THEN accepted ELSE live[b]
  BY <1>1, ListTyping
<1>9. live' \in [List!Analyses -> List!Statuses \cup {None}]
  BY <1>1, <1>5, ListTyping
<1>10. \A b \in List!Analyses : Truly(b, live[b])'
  BY <1>5, <1>8 DEF HeardIsTrue, Truly
<1>11. Listing'
  <2>1. Orderly(list)'
    BY <1>2, <1>5, <1>6, <1>7 DEF Orderly, Descending, Created, Truly
  <2>2. Heard(list)'
    BY <1>6, <1>7, <1>8, ListTyping DEF Listing, Heard
  <2>3. Ids(list') = Ids(list)
    BY <1>6, <1>7 DEF Ids
  <2>4. \A b \in List!Analyses :
          Visible(b)' /\ b >= cursor' /\ (\E i \in DOMAIN list' : b <= list'[i].id) => b \in Ids(list')
    BY <1>6, <1>7, <2>3 DEF Listing, Visible
  <2> QED
    BY <1>6, <1>7, <2>1, <2>2, <2>4 DEF Listing, Created, Ids, Visible
<1> QED
  BY <1>5, <1>6, <1>7, <1>8, <1>9, <1>10, <1>11, ShownListed

\* What the page tells it has heard.
LEMMA Told ==
  ASSUME ListInv, NEW s \in List!Statuses \ {"none"}, List!Tells(s)
  PROVE  /\ page.of \in List!Analyses /\ Truly(page.of, s)
         /\ s = "cancelled" => analyses[page.of] = "cancelled"
         /\ page' \in [of : 0 .. N, reported : List!Statuses \cup {None},
                       heard : List!Statuses \cup {None}]
         /\ page'.heard = None
<1> USE DEF ListInv
<1>1. /\ page.of # 0 /\ s = page.heard /\ page' = [page EXCEPT !.reported = s, !.heard = None]
      /\ page \in [of : 0 .. N, reported : List!Statuses \cup {None}, heard : List!Statuses \cup {None}]
  BY DEF List!Tells, ListTypes
<1>2. page.of \in List!Analyses
  BY <1>1, ListConstants DEF List!Analyses
<1> QED
  BY <1>1, <1>2 DEF HeardIsTrue, Truly

LEMMA TellStep ==
  ASSUME ListInv, List!StatusChanges \/ List!Settles
  PROVE  ListInv'
<1> USE DEF ListInv
<1>1. PICK s \in List!Statuses \ {"none", "cancelled"} :
        /\ List!Tells(s) /\ List!Accept(page.of, s)
        /\ UNCHANGED <<analyses, cursor, cancelled>>
        /\ \/ /\ s \notin List!Terminal
              /\ UNCHANGED <<requests, latest, loading, loadingMore>>
           \/ List!Begin(FALSE, List!Beyond)
  BY DEF List!StatusChanges, List!Settles, List!Terminal, List!Statuses
<1>2. /\ page.of \in List!Analyses /\ Truly(page.of, s)
      /\ page' \in [of : 0 .. N, reported : List!Statuses \cup {None}, heard : List!Statuses \cup {None}]
      /\ page'.heard = None
  BY <1>1, Told
<1> DEFINE a == page.of
<1>3. /\ list' \in Seq(Item) /\ Listing'
      /\ live' \in [List!Analyses -> List!Statuses \cup {None}]
      /\ \A b \in List!Analyses : Truly(b, live[b])'
      /\ \A b \in List!Analyses :
           live'[b] # live[b] =>
                /\ b = a
                /\ live'[b] \in List!Terminal => a \in Ids(list) \/ s \in List!Terminal
  BY <1>1, <1>2, Accepted
<1>4. /\ Asked' /\ List!LoadingIsUnderWay' /\ latest' \in 1 .. MaxRequests
      /\ requests' \subseteq [n : 1 .. MaxRequests, append : BOOLEAN, cursor : 1 .. List!Beyond,
                              answer : {None} \cup Pages]
  <2>1. CASE List!Begin(FALSE, List!Beyond)
    BY <1>1, <2>1, Begun
  <2>2. CASE s \notin List!Terminal /\ UNCHANGED <<requests, latest, loading, loadingMore>>
    <3>1. ASSUME NEW r \in requests, r.append, r.n = latest, r.answer # None,
                 NEW i \in DOMAIN r.answer.items,
                 live'[r.answer.items[i].id] \in List!Terminal
          PROVE  r.answer.items[i].status = live'[r.answer.items[i].id]
      <4> DEFINE b == r.answer.items[i].id
      <4>1. r.answer \in Pages /\ PageHolds(r.answer, r.cursor) /\ r.cursor = cursor /\ Heard(r.answer.items)
        BY <3>1, ListTyping DEF Asked, RequestHolds
      <4>2. b \in List!Analyses /\ b \in Int /\ b < cursor
        BY <4>1, PageTyping, ListTyping DEF PageHolds
      <4>3. b \notin Ids(list)
        BY <4>2, ListTyping DEF Listing, Ids
      <4>4. live'[b] = live[b]
        BY <1>3, <2>2, <3>1, <4>2, <4>3
      <4> QED
        BY <3>1, <4>1, <4>4 DEF Heard
    <3>2. ASSUME NEW r \in requests PROVE RequestHolds(r)'
      <4>1. RequestHolds(r)
        BY DEF Asked
      <4>2. r.answer # None => PageHolds(r.answer, r.cursor)'
        BY <1>1, <4>1 DEF RequestHolds, PageHolds, Orderly, Descending, Created, Truly, Visible, Ids
      <4>3. r.append /\ r.n = latest /\ r.answer # None => Heard(r.answer.items)'
        BY <3>1 DEF Heard
      <4> QED
        BY <1>1, <2>2, <4>1, <4>2, <4>3 DEF RequestHolds, Created
    <3> QED
      BY <2>2, <3>2 DEF Asked, List!LoadingIsUnderWay, ListTypes, List!TypeOK
  <2> QED
    BY <1>1, <2>1, <2>2
<1>5. ListTypes'
  BY <1>1, <1>2, <1>3, <1>4 DEF ListTypes, List!TypeOK, Item
<1>6. InOrder'
  BY <1>1 DEF InOrder, Created
<1>7. HeardIsTrue'
  BY <1>1, <1>2, <1>3, ListConstants DEF HeardIsTrue, List!Terminal, List!Statuses
<1> QED
  BY <1>3, <1>4, <1>5, <1>6, <1>7

LEMMA CancelStep ==
  ASSUME ListInv, List!Cancels
  PROVE  ListInv'
<1> USE DEF ListInv
<1> DEFINE a == page.of
<1>1. /\ List!Tells("cancelled") /\ List!Begin(FALSE, List!Beyond)
      /\ cancelled' = cancelled \cup {a} /\ live' = [live EXCEPT ![a] = None]
      /\ list' = List!Among(list, List!Analyses \ {a})
      /\ analyses' = analyses /\ cursor' = cursor
  BY DEF List!Cancels
<1>2. /\ a \in List!Analyses /\ analyses[a] = "cancelled"
      /\ page' \in [of : 0 .. N, reported : List!Statuses \cup {None}, heard : List!Statuses \cup {None}]
      /\ page'.heard = None
  BY <1>1, Told DEF List!Statuses
<1>3. /\ Asked' /\ List!LoadingIsUnderWay' /\ latest' \in 1 .. MaxRequests
      /\ requests' \subseteq [n : 1 .. MaxRequests, append : BOOLEAN, cursor : 1 .. List!Beyond,
                              answer : {None} \cup Pages]
  BY <1>1, Begun
<1>4. /\ list \in Seq(Item) /\ Descending(list)
      /\ \A i \in DOMAIN list : Created(list[i].id) /\ Truly(list[i].id, list[i].status)
  BY ListTyping DEF Listing, Orderly
<1>5. /\ list' \in Seq(Item) /\ Descending(list')
      /\ Ids(list') = Ids(list) \cap (List!Analyses \ {a})
      /\ \A k \in DOMAIN list' : \E i \in DOMAIN list : list'[k] = list[i]
  <2> DEFINE ids == List!Analyses \ {a}
  <2>1. PICK t : t = List!Among(list, ids)
    OBVIOUS
  <2>2. list' = t
    BY <1>1, <2>1
  <2> HIDE DEF ids
  <2>3. /\ t \in Seq(Item) /\ Descending(t)
        /\ Ids(t) = Ids(list) \cap ids
        /\ \A k \in DOMAIN t : \E i \in DOMAIN list : t[k] = list[i]
    BY <1>4, <2>1, ItemsAmong
  <2> QED
    BY <2>2, <2>3 DEF ids
<1>6. \A k \in DOMAIN list' : list'[k].id # a
  BY <1>5 DEF Ids
<1>7. \A b \in List!Analyses : live'[b] = IF b = a THEN None ELSE live[b]
  BY <1>1, ListTyping
<1>8. Listing'
  <2>1. Orderly(list)'
    BY <1>1, <1>4, <1>5 DEF Orderly, Descending, Created, Truly
  <2>2. Heard(list)'
    BY <1>5, <1>6, <1>7, ListTyping DEF Listing, Heard
  <2>3. \A b \in List!Analyses :
          Visible(b)' /\ b >= cursor' /\ (\E k \in DOMAIN list' : b <= list'[k].id) => b \in Ids(list')
    BY <1>1, <1>2, <1>5 DEF Listing, Visible
  <2>4. \A k \in DOMAIN list' : list'[k].id >= cursor' /\ list'[k].id \notin cancelled'
    BY <1>1, <1>5, <1>6 DEF Listing
  <2> QED
    BY <1>1, <2>1, <2>2, <2>3, <2>4 DEF Listing, Created, Ids, Visible
<1>9. ListTypes'
  BY <1>1, <1>2, <1>3, <1>5, ListTyping DEF ListTypes, List!TypeOK, Item
<1>10. InOrder'
  BY <1>1 DEF InOrder, Created
<1>11. HeardIsTrue'
  BY <1>1, <1>2, <1>7, ListConstants DEF HeardIsTrue, Truly, List!Terminal, List!Statuses
<1> QED
  BY <1>3, <1>8, <1>9, <1>10, <1>11

\* loadHistory: what a page read anew shows for an item.
LEMMA RefreshedHolds ==
  ASSUME ListInv, NEW item \in Item, Truly(item.id, item.status), NEW t, t = List!Refreshed(item)
  PROVE  /\ t \in Item /\ t.id = item.id /\ Truly(item.id, t.status)
         /\ live[item.id] \in List!Terminal => t.status = live[item.id]
         /\ \A i \in DOMAIN list :
              list[i].id = item.id /\ list[i].status \in List!Terminal => t.status = list[i].status
<1> USE DEF ListInv
<1> DEFINE known == IF item.id \in List!Listed
                    THEN List!Reconcile(List!Shown(item.id), item.status) ELSE item.status
           status2 == IF live[item.id] = None THEN known ELSE List!Reconcile(live[item.id], known)
<1>1. t = [item EXCEPT !.status = status2]
  BY DEF List!Refreshed
<1>2. item.id \in List!Analyses /\ item.status \in List!Statuses \ {"none", "cancelled"}
  BY DEF Item
<1>3. \A i \in DOMAIN list : list[i].id = item.id => /\ item.id \in List!Listed
                                                     /\ List!Shown(item.id) = list[i].status
                                                     /\ Truly(item.id, list[i].status)
  BY ShownOnce, ShownListed, ListTyping DEF Ids, Listing, Orderly
<1>4. item.id \in List!Listed => \E i \in DOMAIN list : list[i].id = item.id
  BY ShownListed DEF Ids
<1>5. /\ known \in List!Statuses \ {"none", "cancelled"} /\ Truly(item.id, known)
      /\ \A i \in DOMAIN list : list[i].id = item.id /\ list[i].status \in List!Terminal
                                  => known = list[i].status
  <2>1. CASE item.id \in List!Listed
    <3>1. known = List!Reconcile(List!Shown(item.id), item.status)
      BY <2>1
    <3>2. Truly(item.id, List!Shown(item.id))
      BY <1>3, <1>4, <2>1
    <3> HIDE DEF known
    <3> QED
      BY <1>2, <1>3, <3>1, <3>2, Reconciled DEF Truly
  <2>2. CASE item.id \notin List!Listed
    BY <1>2, <1>3, <2>2
  <2> QED
    BY <2>1, <2>2
<1> HIDE DEF known
<1>6. Truly(item.id, live[item.id])
  BY <1>2 DEF HeardIsTrue
<1>7. None \notin List!Terminal
  BY ListConstants DEF List!Terminal, List!Statuses
<1>8. /\ status2 \in List!Statuses \ {"none", "cancelled"} /\ Truly(item.id, status2)
      /\ live[item.id] \in List!Terminal => status2 = live[item.id]
      /\ live[item.id] \notin List!Terminal /\ known \in List!Terminal => status2 = known
  <2>1. CASE live[item.id] = None
    BY <1>5, <1>7, <2>1
  <2>2. CASE live[item.id] # None
    <3>1. status2 = List!Reconcile(live[item.id], known)
      BY <2>2
    <3> HIDE DEF status2
    <3> QED
      BY <1>5, <1>6, <3>1, Reconciled DEF Truly
  <2> QED
    BY <2>1, <2>2
<1>9. ASSUME NEW i \in DOMAIN list, list[i].id = item.id, list[i].status \in List!Terminal
      PROVE  status2 = list[i].status
  <2>1. live[item.id] \in List!Terminal => list[i].status = live[item.id]
    BY <1>9 DEF Listing, Heard
  <2> QED
    BY <1>5, <1>8, <1>9, <2>1
<1> HIDE DEF status2
<1>10. t \in Item /\ t.id = item.id /\ t.status = status2
  BY <1>1, <1>2, <1>8 DEF Item
<1> QED
  BY <1>8, <1>9, <1>10

Elements(s) == {s[i] : i \in DOMAIN s}

\* Two sequences, the second of which continues the first.
LEMMA Continued ==
  ASSUME NEW s \in Seq(Item), NEW t \in Seq(Item), NEW u, u = s \o t,
         Descending(s), Descending(t), \A i \in DOMAIN s, j \in DOMAIN t : s[i].id > t[j].id
  PROVE  /\ u \in Seq(Item) /\ Descending(u) /\ Ids(u) = Ids(s) \cup Ids(t)
         /\ \A k \in DOMAIN u : u[k] \in Elements(s) \cup Elements(t)
         /\ \A i \in DOMAIN s : i \in DOMAIN u /\ u[i] = s[i]
<1>1. /\ Len(s) \in Nat /\ DOMAIN s = 1 .. Len(s) /\ Len(t) \in Nat /\ DOMAIN t = 1 .. Len(t)
      /\ \A i \in DOMAIN s : s[i].id \in Int
      /\ \A i \in DOMAIN t : t[i].id \in Int
  BY ItemsTyping, ListConstants DEF List!Analyses
<1>2. u \in Seq(Item) /\ Len(u) = Len(s) + Len(t) /\ DOMAIN u = 1 .. Len(s) + Len(t)
  BY <1>1
<1>3. \A k \in 1 .. Len(s) + Len(t) : u[k] = IF k <= Len(s) THEN s[k] ELSE t[k - Len(s)]
  BY <1>1
<1>4. \A k \in DOMAIN u : \/ k \in DOMAIN s /\ u[k] = s[k]
                          \/ k > Len(s) /\ k - Len(s) \in DOMAIN t /\ u[k] = t[k - Len(s)]
  BY <1>1, <1>2, <1>3
<1>5. \A i \in DOMAIN s : i \in DOMAIN u /\ u[i] = s[i]
  BY <1>1, <1>2, <1>3
<1>6. \A i \in DOMAIN t : i + Len(s) \in DOMAIN u /\ u[i + Len(s)] = t[i]
  BY <1>1, <1>2, <1>3
<1>7. Ids(u) = Ids(s) \cup Ids(t)
  <2>1. \A x \in Ids(u) : x \in Ids(s) \cup Ids(t)
    BY <1>4 DEF Ids
  <2>2. \A x \in Ids(s) : x \in Ids(u)
    BY <1>5 DEF Ids
  <2>3. \A x \in Ids(t) : x \in Ids(u)
    BY <1>6 DEF Ids
  <2> QED
    BY <2>1, <2>2, <2>3
<1>8. ASSUME NEW i \in DOMAIN u, NEW j \in DOMAIN u, i < j PROVE u[i].id > u[j].id
  <2>1. CASE j \in DOMAIN s /\ u[j] = s[j]
    BY <1>1, <1>2, <1>4, <1>8, <2>1 DEF Descending
  <2>2. CASE j > Len(s) /\ j - Len(s) \in DOMAIN t /\ u[j] = t[j - Len(s)]
    <3>1. CASE i \in DOMAIN s /\ u[i] = s[i]
      BY <2>2, <3>1
    <3>2. CASE i > Len(s) /\ i - Len(s) \in DOMAIN t /\ u[i] = t[i - Len(s)]
      <4>1. i - Len(s) < j - Len(s)
        BY <1>1, <1>2, <1>8
      <4> QED
        BY <2>2, <3>2, <4>1 DEF Descending
    <3> QED
      BY <1>4, <3>1, <3>2
  <2> QED
    BY <1>4, <2>1, <2>2
<1>9. \A k \in DOMAIN u : u[k] \in Elements(s) \cup Elements(t)
  BY <1>4 DEF Elements
<1> QED
  BY <1>2, <1>5, <1>7, <1>8, <1>9 DEF Descending

\* The latest answer for the next page goes on below what is shown; the latest
\* answer to another request replaces it.
LEMMA NextPage ==
  ASSUME ListInv, NEW r \in requests, r.answer # None, r.n = latest, r.append,
         NEW u, u = List!Merged(r)
  PROVE  /\ u \in Seq(Item) /\ Orderly(u) /\ Heard(u)
         /\ r.answer.next # 0 => Created(r.answer.next)
         /\ \A k \in DOMAIN u : u[k].id >= r.answer.next /\ u[k].id \notin cancelled
         /\ \A a \in List!Analyses :
              Visible(a) /\ a >= r.answer.next /\ (\E k \in DOMAIN u : a <= u[k].id) => a \in Ids(u)
         /\ \A i \in DOMAIN list : i \in DOMAIN u /\ u[i] = list[i]
<1> USE DEF ListInv
<1> DEFINE p == r.answer
           ids == (List!Analyses \ cancelled) \ List!Listed
<1>1. /\ p \in Pages /\ PageHolds(p, r.cursor) /\ Heard(p.items)
      /\ r.cursor = cursor /\ r.cursor \in List!Analyses /\ cursor \in Int
      /\ cursor # List!Beyond
  BY ListTyping, ListConstants DEF Asked, RequestHolds, List!Beyond
<1>2. PICK t : t = List!Among(p.items, ids)
  OBVIOUS
<1>3. u = list \o t
  BY <1>2 DEF List!Merged
<1> HIDE DEF p
<1>4. /\ p.items \in Seq(Item) /\ Orderly(p.items) /\ Descending(p.items) /\ p.next \in Int
      /\ p.next < cursor
      /\ \A i \in DOMAIN p.items : p.items[i].id \in p.next .. cursor - 1
  BY <1>1, PageTyping DEF PageHolds, Orderly
<1>5. /\ t \in Seq(Item) /\ Descending(t)
      /\ Ids(t) = Ids(p.items) \cap ids
      /\ \A k \in DOMAIN t : \E i \in DOMAIN p.items : t[k] = p.items[i]
  <2> HIDE DEF ids
  <2> QED
    BY <1>2, <1>4, ItemsAmong
<1>6. \A k \in DOMAIN t : /\ t[k].id \in p.next .. cursor - 1 /\ t[k].id \notin cancelled
                          /\ Created(t[k].id) /\ Truly(t[k].id, t[k].status)
                          /\ live[t[k].id] \in List!Terminal => t[k].status = live[t[k].id]
  BY <1>1, <1>4, <1>5 DEF Orderly, Heard, Ids
<1>7. /\ list \in Seq(Item) /\ Descending(list)
      /\ \A i \in DOMAIN list : list[i].id >= cursor
  BY ListTyping DEF Listing, Orderly
<1>8. /\ u \in Seq(Item) /\ Descending(u) /\ Ids(u) = Ids(list) \cup Ids(t)
      /\ \A k \in DOMAIN u : \/ \E i \in DOMAIN list : u[k] = list[i]
                             \/ \E i \in DOMAIN t : u[k] = t[i]
      /\ \A i \in DOMAIN list : i \in DOMAIN u /\ u[i] = list[i]
  <2>1. \A i \in DOMAIN list, k \in DOMAIN t : list[i].id > t[k].id
    BY <1>1, <1>4, <1>6, <1>7, ListTyping
  <2>2. /\ list \in Seq(Item) /\ t \in Seq(Item) /\ u = list \o t /\ cursor \in Int
        /\ Descending(list) /\ Descending(t)
        /\ \A i \in DOMAIN list : list[i].id >= cursor
    BY <1>1, <1>3, <1>5, <1>7
  <2>3. u \in Seq(Item) /\ Descending(u) /\ Ids(u) = Ids(list) \cup Ids(t)
    BY <2>1, <2>2, Continued
  <2>4. \A k \in DOMAIN u : \/ \E i \in DOMAIN list : u[k] = list[i]
                           \/ \E i \in DOMAIN t : u[k] = t[i]
    <3>1. \A k \in DOMAIN u : u[k] \in Elements(list) \cup Elements(t)
      BY <2>1, <2>2, Continued
    <3> QED
      BY <3>1 DEF Elements
  <2>5. \A i \in DOMAIN list : i \in DOMAIN u /\ u[i] = list[i]
    BY <2>1, <2>2, Continued
  <2> QED
    BY <2>3, <2>4, <2>5
<1>9. Orderly(u)
  BY <1>6, <1>8 DEF Orderly, Listing
<1>10. Heard(u)
  BY <1>6, <1>8 DEF Heard, Listing
<1>11. \A k \in DOMAIN u : u[k].id >= p.next /\ u[k].id \notin cancelled
  <2> TAKE k \in DOMAIN u
  <2>1. ASSUME NEW i \in DOMAIN list, u[k] = list[i] PROVE u[k].id >= p.next /\ u[k].id \notin cancelled
    BY <1>1, <1>4, <2>1, ListTyping DEF Listing
  <2>2. ASSUME NEW i \in DOMAIN t, u[k] = t[i] PROVE u[k].id >= p.next /\ u[k].id \notin cancelled
    BY <1>4, <1>6, <2>2
  <2> QED
    BY <1>8, <2>1, <2>2
<1>12. ASSUME NEW a \in List!Analyses, Visible(a), a >= p.next, NEW k \in DOMAIN u, a <= u[k].id
       PROVE  a \in Ids(u)
  <2>1. a \in Int /\ a \notin cancelled
    BY <1>12, ListTyping DEF HeardIsTrue, Visible
  <2>2. CASE a >= cursor
    <3>1. PICK i \in DOMAIN list : u[k] = list[i]
      BY <1>1, <1>4, <1>6, <1>8, <1>12, <2>1, <2>2
    <3>2. a \in Ids(list)
      BY <1>12, <2>2, <3>1 DEF Listing
    <3> QED
      BY <1>8, <3>2
  <2>3. CASE a < cursor
    <3>1. a \in p.next .. cursor - 1
      BY <1>1, <1>4, <1>12, <2>1, <2>3
    <3>2. a \in Ids(p.items)
      BY <1>1, <1>12, <3>1 DEF PageHolds
    <3>3. a \notin List!Listed
      BY <1>1, <1>7, <2>1, <2>3, ShownListed DEF Ids
    <3> QED
      BY <1>5, <1>8, <2>1, <3>2, <3>3
  <2> QED
    BY <1>1, <2>1, <2>2, <2>3
<1>13. p.next # 0 => Created(p.next)
  BY <1>1 DEF PageHolds
<1> QED
  BY <1>8, <1>9, <1>10, <1>11, <1>12, <1>13 DEF p

LEMMA FirstPage ==
  ASSUME ListInv, NEW r \in requests, r.answer # None, r.n = latest, ~r.append,
         NEW u, u = List!Merged(r)
  PROVE  /\ u \in Seq(Item) /\ Orderly(u) /\ Heard(u)
         /\ r.answer.next # 0 => Created(r.answer.next)
         /\ \A k \in DOMAIN u : u[k].id >= r.answer.next /\ u[k].id \notin cancelled
         /\ \A a \in List!Analyses :
              Visible(a) /\ a >= r.answer.next /\ (\E k \in DOMAIN u : a <= u[k].id) => a \in Ids(u)
         /\ \A k \in DOMAIN u, i \in DOMAIN list :
              list[i].id = u[k].id /\ list[i].status \in List!Terminal => u[k].status = list[i].status
<1> USE DEF ListInv
<1> DEFINE p == r.answer
           ids == List!Analyses \ cancelled
<1>1. p \in Pages /\ PageHolds(p, List!Beyond)
  BY ListTyping DEF Asked, RequestHolds
<1>2. PICK t : t = List!Among(p.items, ids)
  OBVIOUS
<1>3. u = [i \in DOMAIN t |-> List!Refreshed(t[i])]
  BY <1>2 DEF List!Merged
<1> HIDE DEF p
<1>4. /\ p.items \in Seq(Item) /\ Orderly(p.items) /\ Descending(p.items) /\ p.next \in Int
      /\ \A i \in DOMAIN p.items : p.items[i].id \in p.next .. N
  BY <1>1, PageTyping, ListConstants DEF PageHolds, Orderly, List!Beyond
<1>5. /\ t \in Seq(Item) /\ Descending(t)
      /\ Ids(t) = Ids(p.items) \cap ids
      /\ \A k \in DOMAIN t : \E i \in DOMAIN p.items : t[k] = p.items[i]
  <2> HIDE DEF ids
  <2> QED
    BY <1>2, <1>4, ItemsAmong
<1>6. \A k \in DOMAIN t : /\ t[k] \in Item
                          /\ t[k].id \in p.next .. N /\ t[k].id \notin cancelled
                          /\ Created(t[k].id) /\ Truly(t[k].id, t[k].status)
  BY <1>4, <1>5, ItemsTyping DEF Orderly, Ids
<1>7. \A k \in DOMAIN t :
        /\ u[k] \in Item /\ u[k].id = t[k].id /\ Truly(u[k].id, u[k].status)
        /\ live[u[k].id] \in List!Terminal => u[k].status = live[u[k].id]
        /\ \A i \in DOMAIN list :
             list[i].id = u[k].id /\ list[i].status \in List!Terminal => u[k].status = list[i].status
  BY <1>3, <1>6, RefreshedHolds
<1>8. u \in Seq(Item) /\ DOMAIN u = DOMAIN t
  <2>1. Len(t) \in Nat /\ DOMAIN t = 1 .. Len(t)
    BY <1>5
  <2>2. u \in [1 .. Len(t) -> Item]
    BY <1>3, <1>7, <2>1
  <2> QED
    BY <2>1, <2>2, IsSequence
<1>9. Ids(u) = Ids(t)
  BY <1>7, <1>8 DEF Ids
<1>10. Orderly(u) /\ Heard(u)
  BY <1>5, <1>6, <1>7, <1>8 DEF Orderly, Descending, Heard
<1>11. \A k \in DOMAIN u : u[k].id >= p.next /\ u[k].id \notin cancelled
  BY <1>4, <1>6, <1>7, <1>8
<1>12. ASSUME NEW a \in List!Analyses, Visible(a), a >= p.next, NEW k \in DOMAIN u, a <= u[k].id
       PROVE  a \in Ids(u)
  <2>1. a \in Int /\ a <= N /\ a \notin cancelled
    BY <1>12, ListTyping DEF HeardIsTrue, Visible
  <2>2. a \in p.next .. List!Beyond - 1
    BY <1>4, <1>12, <2>1, ListConstants DEF List!Beyond
  <2>3. u[k].id \in Ids(p.items) /\ u[k].id \in Int
    BY <1>5, <1>6, <1>7, <1>8 DEF Ids
  <2>4. a \in Ids(p.items)
    BY <1>1, <1>12, <2>1, <2>2, <2>3 DEF PageHolds
  <2> QED
    BY <1>5, <1>9, <2>1, <2>4
<1>13. p.next # 0 => Created(p.next)
  BY <1>1 DEF PageHolds
<1> QED
  BY <1>7, <1>8, <1>10, <1>11, <1>12, <1>13 DEF p

LEMMA ReceiveStep ==
  ASSUME ListInv, NEW r \in requests, List!Receive(r)
  PROVE  ListInv'
<1> USE DEF ListInv
<1>1. /\ r.answer # None /\ requests' = requests \ {r}
      /\ UNCHANGED <<analyses, live, cancelled, latest, error, page>>
      /\ \/ /\ r.n = latest /\ list' = List!Merged(r) /\ cursor' = r.answer.next
            /\ ~loading' /\ ~loadingMore'
         \/ r.n # latest /\ UNCHANGED <<list, cursor, loading, loadingMore>>
  BY DEF List!Receive, List!Done
<1>2. InOrder' /\ HeardIsTrue'
  BY <1>1 DEF InOrder, HeardIsTrue, Created, Truly
<1>3. CASE r.n # latest
  <2>1. UNCHANGED <<list, cursor, loading, loadingMore>>
    BY <1>1, <1>3
  <2>2. Asked'
    BY <1>1, <2>1 DEF Asked, RequestHolds, PageHolds, Heard, Orderly, Descending, Created, Truly, Visible, Ids
  <2>3. ListTypes'
    BY <1>1, <2>1 DEF ListTypes, List!TypeOK
  <2>4. Listing'
    BY <1>1, <2>1 DEF Listing, Orderly, Heard, Descending, Created, Truly, Visible, Ids
  <2>5. List!LoadingIsUnderWay'
    BY <1>1, <1>3, <2>1 DEF List!LoadingIsUnderWay
  <2> QED
    BY <1>2, <2>2, <2>3, <2>4, <2>5
<1>4. CASE r.n = latest
  <2>1. PICK u : u = List!Merged(r)
    OBVIOUS
  <2>2. list' = u /\ cursor' = r.answer.next /\ ~loading' /\ ~loadingMore'
    BY <1>1, <1>4, <2>1
  <2>3. r.append \in BOOLEAN /\ r.answer \in Pages
    BY <1>1, ListTyping
  <2>4. /\ u \in Seq(Item) /\ Orderly(u) /\ Heard(u)
        /\ r.answer.next # 0 => Created(r.answer.next)
        /\ \A k \in DOMAIN u : u[k].id >= r.answer.next /\ u[k].id \notin cancelled
        /\ \A a \in List!Analyses :
             Visible(a) /\ a >= r.answer.next /\ (\E k \in DOMAIN u : a <= u[k].id) => a \in Ids(u)
    BY <1>1, <1>4, <2>1, NextPage, FirstPage
  <2>5. Listing'
    BY <1>1, <2>2, <2>4 DEF Listing, Orderly, Heard, Descending, Created, Truly, Visible, Ids
  <2>6. ListTypes'
    BY <1>1, <2>2, <2>3, <2>4, PageTyping DEF ListTypes, List!TypeOK, Item
  <2>7. \A q \in requests' : q \in requests /\ q.n # latest
    BY <1>1, <1>4 DEF Asked
  <2>8. Asked'
    BY <1>1, <2>7 DEF Asked, RequestHolds, PageHolds, Orderly, Descending, Created, Truly, Visible, Ids
  <2>9. List!LoadingIsUnderWay'
    BY <2>2 DEF List!LoadingIsUnderWay
  <2> QED
    BY <1>2, <2>5, <2>6, <2>8, <2>9
<1> QED
  BY <1>3, <1>4

LEMMA ListInvStep ==
  ASSUME ListInv, [List!Next]_List!vars
  PROVE  ListInv'
<1>1. CASE UNCHANGED List!vars
  <2>1. UNCHANGED <<analyses, list, cursor, live, cancelled, requests, latest, loading,
                    loadingMore, error, page>>
    BY <1>1 DEF List!vars, List!client
  <2> QED
    BY <2>1 DEF ListInv, ListTypes, List!TypeOK, InOrder, HeardIsTrue, Listing, Asked, RequestHolds,
                PageHolds, Orderly, Heard, Descending, Created, Truly, Visible, Ids,
                List!LoadingIsUnderWay
<1>2. CASE List!Next
  BY <1>2, StatusStep, PageStep, ServeStep, ReceiveStep, FailStep, RefreshStep, TellStep, CancelStep
  DEF List!Next
<1> QED
  BY <1>1, <1>2

LEMMA ListInvMeans ==
  ASSUME ListInv
  PROVE  /\ List!TypeOK /\ List!ListIsWhole /\ List!CancelledStaysAway
         /\ List!EndIsKnown /\ List!LoadingIsUnderWay
<1> USE DEF ListInv
<1>1. List!ListIsWhole
  <2>1. \A i, j \in DOMAIN list : i < j => list[i].id > list[j].id
    BY DEF Listing, Orderly, Descending
  <2>2. ASSUME list # <<>>, NEW a \in List!Analyses, a \in cursor .. Head(list).id, Visible(a)
        PROVE  a \in List!Listed
    <3>1. 1 \in DOMAIN list /\ Head(list) = list[1]
      BY <2>2, ListTyping
    <3>2. list[1].id \in Int
      BY <3>1, ListTyping
    <3>3. a >= cursor /\ a <= list[1].id
      BY <2>2, <3>1, <3>2, ListTyping
    <3> QED
      BY <2>2, <3>1, <3>3, ShownListed DEF Listing
  <2> QED
    BY <2>1, <2>2 DEF List!ListIsWhole, Visible
<1>2. List!CancelledStaysAway
  BY DEF List!CancelledStaysAway, List!Listed, Listing
<1>3. List!EndIsKnown
  <2>1. ASSUME NEW a \in List!Listed, live[a] \in List!Terminal PROVE List!Shown(a) = live[a]
    <3>1. PICK i \in DOMAIN list : list[i].id = a
      BY ShownListed DEF Ids
    <3>2. ShownIn(list, a) = list[i].status
      BY <3>1, ShownOnce, ListTyping DEF Listing, Orderly
    <3> QED
      BY <2>1, <3>1, <3>2, ShownListed DEF Listing, Heard
  <2> QED
    BY <2>1 DEF List!EndIsKnown
<1> QED
  BY <1>1, <1>2, <1>3 DEF ListTypes

\* What is listed before and after a step as ended is shown alike.
LEMMA EndsStay ==
  ASSUME ListInv, [List!Next]_List!vars
  PROVE  \A i \in DOMAIN list, k \in DOMAIN list' :
           list[i].id = list'[k].id /\ list[i].status \in List!Terminal
             => list'[k].status = list[i].status
<1> USE DEF ListInv
<1>1. list \in Seq(Item) /\ Descending(list)
  BY ListTyping DEF Listing, Orderly
<1>2. CASE UNCHANGED list
  BY <1>1, <1>2, ListedOnce
<1>3. ASSUME NEW r \in requests, List!Receive(r), list' # list
      PROVE  \A i \in DOMAIN list, k \in DOMAIN list' :
               list[i].id = list'[k].id /\ list[i].status \in List!Terminal
                 => list'[k].status = list[i].status
  <2>1. PICK u : u = List!Merged(r)
    OBVIOUS
  <2>2. list' = u /\ r.n = latest /\ r.answer # None
    BY <1>3, <2>1 DEF List!Receive
  <2>3. CASE ~r.append
    BY <2>1, <2>2, <2>3, FirstPage
  <2>4. CASE r.append
    <3>1. u \in Seq(Item) /\ Orderly(u) /\ \A i \in DOMAIN list : i \in DOMAIN u /\ u[i] = list[i]
      BY <2>1, <2>2, <2>4, NextPage
    <3> QED
      BY <2>2, <3>1, ListedOnce DEF Orderly
  <2> QED
    BY <2>3, <2>4
<1>4. CASE List!StatusChanges \/ List!Settles
  <2>1. PICK s \in List!Statuses \ {"none", "cancelled"} :
          List!Tells(s) /\ List!Accept(page.of, s) /\ UNCHANGED <<analyses, cursor, cancelled>>
    BY <1>4 DEF List!StatusChanges, List!Settles, List!Terminal, List!Statuses
  <2>2. page.of \in List!Analyses /\ Truly(page.of, s)
    BY <2>1, Told
  <2>3. DOMAIN list' = DOMAIN list
        /\ \A i \in DOMAIN list : /\ list'[i].id = list[i].id
                                  /\ list[i].status \in List!Terminal => list'[i].status = list[i].status
    BY <2>1, <2>2, Accepted
  <2> QED
    BY <1>1, <2>3, ListedOnce
<1>5. CASE List!Cancels
  <2> DEFINE ids == List!Analyses \ {page.of}
  <2>1. PICK t : t = List!Among(list, ids)
    OBVIOUS
  <2>2. list' = t
    BY <1>5, <2>1 DEF List!Cancels
  <2> HIDE DEF ids
  <2>3. \A k \in DOMAIN t : \E i \in DOMAIN list : t[k] = list[i]
    BY <1>1, <2>1, ItemsAmong
  <2> QED
    BY <1>1, <2>2, <2>3, ListedOnce
<1>6. \/ UNCHANGED list \/ List!StatusChanges \/ List!Settles \/ List!Cancels
      \/ \E r \in requests : List!Receive(r) /\ list' # list
  BY DEF List!Next, List!vars, List!client, List!Create, List!Work, List!Change, List!Open,
         List!Serve, List!Fail, List!Refresh, List!LoadMore, List!Hear
<1> QED
  BY <1>2, <1>3, <1>4, <1>5, <1>6

LEMMA EndSurvivesStep ==
  ASSUME ListInv, [List!Next]_List!vars
  PROVE  List!EndSurvives
<1>1. ListInv'
  BY ListInvStep
<1>2. /\ list \in Seq(Item) /\ Descending(list)
      /\ list' \in Seq(Item) /\ Descending(list')
  BY <1>1, ListTyping DEF ListInv, ListTypes, List!TypeOK, Item, Listing, Orderly, Descending
<1>3. ASSUME NEW a \in Ids(list) \cap Ids(list'), ShownIn(list, a) \in List!Terminal
      PROVE  ShownIn(list', a) = ShownIn(list, a)
  <2>1. PICK i \in DOMAIN list, k \in DOMAIN list' : list[i].id = a /\ list'[k].id = a
    BY DEF Ids
  <2>2. ShownIn(list, a) = list[i].status /\ ShownIn(list', a) = list'[k].status
    BY <1>2, <2>1, ShownOnce
  <2> QED
    BY <1>3, <2>1, <2>2, EndsStay
<1> QED
  BY <1>3, ShownListed DEF List!EndSurvives

\* The list is what HistoryList says of it in every behaviour of a tab that has
\* one.
LEMMA ListInvariant ==
  TabSpec => [](part = "list" => ListInv)
<1> DEFINE I == part = "list" => ListInv
<1>1. TabInit => I
  BY ListInvInit DEF TabInit
<1>2. I /\ [TabNext]_<<part, vars, listVars>> => I'
  <2> SUFFICES ASSUME I, [TabNext]_<<part, vars, listVars>>, part' = "list"
               PROVE  ListInv'
    OBVIOUS
  <2>1. part = "list" /\ [List!Next]_List!vars
    BY DEF TabNext, listVars, List!vars, List!client
  <2> QED
    BY <2>1, ListInvStep
<1> QED
  BY <1>1, <1>2, PTL DEF TabSpec

\* In whatever order pages of the list, reports of the open page, uploads and
\* cancellations come, the list has every analysis down to its cursor once and
\* newest first, none that was cancelled here, none as running that was reported
\* as ended, and loads no longer than its request (loadHistory, handleSettled,
\* handleCancelled, get_analysis_history).
THEOREM ListStaysTrue ==
  TabSpec => []ListIsTrue
<1>1. (part = "list" => ListInv) => ListIsTrue
  BY ListInvMeans DEF ListIsTrue
<1> QED
  BY <1>1, ListInvariant, PTL

\* No page of the list and no report takes back the end of an analysis that is
\* listed (reconcileStatus).
THEOREM EndsAreNotTakenBack ==
  TabSpec => EndedStaysEnded
<1>1. (part = "list" => ListInv) /\ [TabNext]_<<part, vars, listVars>>
        => [part = "list" => List!EndSurvives]_listVars
  <2> SUFFICES ASSUME part = "list", ListInv, [TabNext]_<<part, vars, listVars>>
               PROVE  List!EndSurvives
    OBVIOUS
  <2>1. [List!Next]_List!vars
    BY DEF TabNext, listVars, List!vars, List!client
  <2> QED
    BY <2>1, EndSurvivesStep
<1> QED
  BY <1>1, ListInvariant, PTL DEF TabSpec, EndedStaysEnded
=============================================================================
