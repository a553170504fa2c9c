------------------------------ MODULE Accounts ------------------------------
(***************************************************************************)
(* Accounts, the tokens that stand for them, and password resets           *)
(* (backend/app/api/auth.py, core/security.py, api/dependencies.py,        *)
(* crud/user.py, tasks/user_cleanup.py).  Requests run at the same time,   *)
(* each a sequence of reads and transactions; what a request has read may  *)
(* be stale when it uses it.                                               *)
(*                                                                         *)
(* A token is a signed record that its holder keeps.  The fields id and pw  *)
(* are not in the token: they record, for the properties only, which       *)
(* account it was issued for and with which password its holder logged in. *)
(* Only the hand-off cookie expires here: the other lifetimes are          *)
(* configuration, and a token that never expires allows every behaviour of *)
(* one that does.                                                          *)
(***************************************************************************)
EXTENDS Naturals

CONSTANTS
    Requests, Emails, Usernames, Passwords,
    HandoffLife,    \* VERIFICATION_HANDOFF_EXPIRE_MINUTES, in ticks
    StaleAfter,     \* the age at which the cleanup deletes, in ticks
    RequestLife,    \* bound: ticks from the commit of a registration to its answer
    MaxTime,        \* bound of the clock
    MaxId,          \* bound: accounts ever created
    MaxResets,      \* bound: resets of one account
    NoAccount, Unknown

Ids      == 1..MaxId
Times    == 0..MaxTime
Versions == 0..MaxResets
Users ==
    [id : Ids, username : Usernames, pw : Passwords, verified : BOOLEAN,
     ver : Versions, created : Times, active : SUBSET Times]

\* What the constants must satisfy.
AccountsAssumption ==
    /\ HandoffLife \in Nat /\ StaleAfter \in Nat /\ RequestLife \in Nat
    /\ MaxTime \in Nat /\ MaxId \in Nat /\ MaxResets \in Nat
    /\ RequestLife + HandoffLife <= StaleAfter
    /\ Unknown \notin Passwords /\ NoAccount \notin Users

VARIABLES
    users,      \* users[e]: the row whose e-mail address is e, or NoAccount
    tokens,     \* every token that somebody may hold
    req,        \* req[r]: what the handler of request r holds
    clock,
    nextId,
    resets      \* resets[i]: successful resets of account i (history)

vars == <<users, tokens, req, clock, nextId, resets>>

NewUser(id, u, p) ==
    [id |-> id, username |-> u, pw |-> p, verified |-> FALSE, ver |-> 0,
     created |-> clock, active |-> {clock}]

Exists(e) == users[e] # NoAccount
Holds(e, id) == Exists(e) /\ users[e].id = id

\* unverified_activity_at may be null in an old row, {} here.
LastActivity(user) == IF user.active = {} THEN user.created
                      ELSE CHOOSE t \in user.active : TRUE

\* What a request keeps of the row, as far as it uses it later.
ReadUser(e) == [id |-> users[e].id, ver |-> users[e].ver]

Token(kind, e, user, pw) ==
    [kind |-> kind, email |-> e, ver |-> user.ver, exp |-> 0,
     id |-> user.id, pw |-> pw]

\* create_verification_handoff_token.
Handoff(e, user) ==
    [Token("handoff", e, user, Unknown) EXCEPT !.exp = clock + HandoffLife]

Idle == [pc |-> "idle"]
Answer(r) == req' = [req EXCEPT ![r] = Idle]

\* Mutant: the row is read without a lock.
MutUnlocked(e) == TRUE

\* SELECT ... FOR UPDATE is granted when no other transaction has the row.
LockedBy(e) == {r \in Requests : req[r].pc \in {"verify", "reset"} /\ req[r].email = e}
Unlocked(e) == LockedBy(e) = {}

-----------------------------------------------------------------------------
(* What a token is good for.                                               *)

\* The account is found by its address and has the version of the token.
Current(t) == Exists(t.email) /\ t.ver = users[t.email].ver

\* get_current_verified_user.
AccessHonoured(t) == t.kind = "access" /\ Current(t) /\ users[t.email].verified

RefreshHonoured(t) == t.kind = "refresh" /\ Current(t) /\ users[t.email].verified

HandoffHonoured(t) == t.kind = "handoff" /\ clock < t.exp /\ Current(t)

ResetHonoured(t) == t.kind = "reset" /\ Current(t)

\* reset_password_status.
ResetStatus(t) ==
    IF ~Exists(t.email) THEN "invalid"
    ELSE IF t.ver = users[t.email].ver THEN "valid"
    ELSE IF t.ver < users[t.email].ver THEN "used" ELSE "invalid"

-----------------------------------------------------------------------------
(* register                                                                *)

Init ==
    /\ \E old \in [Emails -> {{}, {0}}], p \in Passwords,
          some \in {{}} \cup (IF MaxId = 0 THEN {} ELSE {{e} : e \in Emails}) :
         /\ \A e \in Emails \ some : old[e] = {}
         /\ \E u \in Usernames :
              users = [e \in Emails |-> IF e \notin some THEN NoAccount ELSE
                        [id |-> 1, username |-> u, pw |-> p, verified |-> FALSE,
                         ver |-> 0, created |-> 0, active |-> old[e]]]
         /\ nextId = IF some = {} THEN 1 ELSE 2
    /\ tokens = {}
    /\ req = [r \in Requests |-> Idle]
    /\ clock = 0
    /\ resets = [i \in Ids |-> 0]

\* The reads of register.  A verified account, a wrong password and a user
\* name in use are refused.
StartRegister(r, e, u, p) ==
    /\ req[r].pc = "idle"
    /\ \/ /\ Exists(e) /\ ~users[e].verified /\ users[e].pw = p
          /\ req' = [req EXCEPT ![r] = [pc |-> "resend", email |-> e, id |-> users[e].id]]
       \/ /\ ~Exists(e)
          /\ \A o \in Emails : Exists(o) => users[o].username # u
          /\ req' = [req EXCEPT ![r] = [pc |-> "create", email |-> e, name |-> u, pw |-> p]]
    /\ UNCHANGED <<users, tokens, clock, nextId, resets>>

\* Mutant: the whole row is written, as it was read when it was unverified.
MutTouched(user) == [user EXCEPT !.active = {clock}, !.verified = FALSE]

\* existing_email.unverified_activity_at = now: the only column written.
Touched(user) == [user EXCEPT !.active = {clock}]

\* The commit of a registration that was made before.  A row that is gone
\* makes it fail.
Resend(r) ==
    LET e == req[r].email IN
    /\ req[r].pc = "resend" /\ LockedBy(e) = {}
    /\ IF Holds(e, req[r].id)
       THEN /\ users' = [users EXCEPT ![e] = Touched(users[e])]
            /\ req' = [req EXCEPT ![r] =
                         [pc |-> "mail", email |-> e, id |-> req[r].id, at |-> clock]]
       ELSE Answer(r) /\ UNCHANGED users
    /\ UNCHANGED <<tokens, clock, nextId, resets>>

\* create_user; the unique indexes refuse a second row.
Create(r) ==
    LET e == req[r].email IN
    /\ req[r].pc = "create"
    /\ IF Exists(e) \/ \E o \in Emails : Exists(o) /\ users[o].username = req[r].name
       THEN Answer(r) /\ UNCHANGED <<users, nextId>>
       ELSE /\ nextId <= MaxId
            /\ users' = [users EXCEPT ![e] = NewUser(nextId, req[r].name, req[r].pw)]
            /\ nextId' = nextId + 1
            /\ req' = [req EXCEPT ![r] =
                         [pc |-> "mail", email |-> e, id |-> nextId, at |-> clock]]
    /\ UNCHANGED <<tokens, clock, resets>>

\* The row is read again after the commit, and the link is sent: to the
\* address, whatever account has it.  The delivery may raise.
SendVerification(r) ==
    LET e == req[r].email IN
    /\ req[r].pc = "mail"
    /\ IF Holds(e, req[r].id)
       THEN \/ Answer(r) /\ UNCHANGED tokens
            \/ /\ tokens' = tokens \cup {[kind |-> "verify", email |-> e]}
               /\ req' = [req EXCEPT ![r] = [pc |-> "cookie", email |-> e,
                                             user |-> ReadUser(e), at |-> req[r].at]]
       ELSE Answer(r) /\ UNCHANGED tokens
    /\ UNCHANGED <<users, clock, nextId, resets>>

\* _set_verification_handoff_cookie, with what was read before the mail.
SetHandoff(r) ==
    /\ req[r].pc = "cookie"
    /\ tokens' = tokens \cup {Handoff(req[r].email, req[r].user)}
    /\ Answer(r)
    /\ UNCHANGED <<users, clock, nextId, resets>>

-----------------------------------------------------------------------------
(* verify_email, under the lock of the row.                                *)

StartVerify(r, e) ==
    /\ req[r].pc = "idle"
    /\ [kind |-> "verify", email |-> e] \in tokens
    /\ Unlocked(e) /\ Exists(e) /\ ~users[e].verified
    /\ req' = [req EXCEPT ![r] = [pc |-> "verify", email |-> e, id |-> users[e].id]]
    /\ UNCHANGED <<users, tokens, clock, nextId, resets>>

CommitVerify(r) ==
    LET e == req[r].email IN
    /\ req[r].pc = "verify"
    /\ users' = IF Holds(e, req[r].id) THEN [users EXCEPT ![e].verified = TRUE] ELSE users
    /\ Answer(r)
    /\ UNCHANGED <<tokens, clock, nextId, resets>>

-----------------------------------------------------------------------------
(* Sessions: verification-session, login and refresh read the row once and *)
(* issue both cookies from it.                                             *)

StartSession(r, e, pw) ==
    req' = [req EXCEPT ![r] = [pc |-> "session", email |-> e, user |-> ReadUser(e), pw |-> pw]]

\* complete_verification_session; "pending" changes nothing.
ExchangeHandoff(r, t) ==
    /\ req[r].pc = "idle"
    /\ HandoffHonoured(t) /\ users[t.email].verified
    /\ StartSession(r, t.email, Unknown)
    /\ UNCHANGED <<users, tokens, clock, nextId, resets>>

\* authenticate_user.
Login(r, e, p) ==
    /\ req[r].pc = "idle"
    /\ Exists(e) /\ users[e].pw = p /\ users[e].verified
    /\ StartSession(r, e, p)
    /\ UNCHANGED <<users, tokens, clock, nextId, resets>>

Refresh(r, t) ==
    /\ req[r].pc = "idle"
    /\ RefreshHonoured(t)
    /\ StartSession(r, t.email, t.pw)
    /\ UNCHANGED <<users, tokens, clock, nextId, resets>>

\* Mutant: the version is read again when the tokens are made.
MutSessionUser(r) == IF Exists(req[r].email) THEN ReadUser(req[r].email) ELSE req[r].user

SessionUser(r) == req[r].user

IssueSession(r) ==
    /\ req[r].pc = "session"
    /\ tokens' = tokens \cup {Token(kind, req[r].email, SessionUser(r), req[r].pw) :
                                kind \in {"access", "refresh"}}
    /\ Answer(r)
    /\ UNCHANGED <<users, clock, nextId, resets>>

-----------------------------------------------------------------------------
(* Password resets.                                                        *)

MayReset(e) == Exists(e) /\ users[e].verified

ForgotPassword(r, e) ==
    /\ req[r].pc = "idle"
    /\ MayReset(e)
    /\ req' = [req EXCEPT ![r] = [pc |-> "resetmail", email |-> e, user |-> ReadUser(e)]]
    /\ UNCHANGED <<users, tokens, clock, nextId, resets>>

\* The background task, after the answer; its failure is only logged.
SendReset(r) ==
    /\ req[r].pc = "resetmail"
    /\ \/ tokens' = tokens \cup {Token("reset", req[r].email, req[r].user, Unknown)}
       \/ UNCHANGED tokens
    /\ Answer(r)
    /\ UNCHANGED <<users, clock, nextId, resets>>

\* reset_password: the row is locked, then read and compared.
StartReset(r, t, p) ==
    LET e == t.email IN
    /\ req[r].pc = "idle" /\ t.kind = "reset" /\ Unlocked(e)
    /\ ResetHonoured(t)
    /\ users[e].ver < MaxResets
    /\ p # users[e].pw
    /\ req' = [req EXCEPT ![r] = [pc |-> "reset", email |-> e, user |-> ReadUser(e), pw |-> p]]
    /\ UNCHANGED <<users, tokens, clock, nextId, resets>>

ResetUser(user, held, p) == [user EXCEPT !.pw = p, !.ver = held.ver + 1]

CommitReset(r) ==
    LET e == req[r].email
        held == req[r].user
    IN  /\ req[r].pc = "reset"
        /\ IF Holds(e, held.id)
           THEN /\ users' = [users EXCEPT ![e] = ResetUser(users[e], held, req[r].pw)]
                /\ resets' = [resets EXCEPT ![held.id] = @ + 1]
           ELSE UNCHANGED <<users, resets>>
        /\ Answer(r)
        /\ UNCHANGED <<tokens, clock, nextId>>

-----------------------------------------------------------------------------
(* The cleanup, lost requests and the clock.                               *)

\* is_verified is false, and the last activity is older than the cut-off.
Stale(user) == ~user.verified /\ LastActivity(user) + StaleAfter < clock

\* One DELETE; it waits for the locks of the rows it deletes.
DeleteStaleUsers ==
    LET stale == {e \in Emails : Exists(e) /\ Stale(users[e])} IN
    /\ \A e \in stale : LockedBy(e) = {}
    /\ users' = [e \in Emails |-> IF e \in stale THEN NoAccount ELSE users[e]]
    /\ UNCHANGED <<tokens, req, clock, nextId, resets>>

\* The server loses a request; its transaction is rolled back.
LoseRequest(r) ==
    /\ req[r].pc # "idle"
    /\ Answer(r)
    /\ UNCHANGED <<users, tokens, clock, nextId, resets>>

\* Time passes, but a registration is answered RequestLife after its commit.
Tick ==
    /\ clock < MaxTime
    /\ \A r \in Requests : req[r].pc \in {"mail", "cookie"} => clock < req[r].at + RequestLife
    /\ clock' = clock + 1
    /\ UNCHANGED <<users, tokens, req, nextId, resets>>

Versioned == {t \in tokens : t.kind # "verify"}

Next ==
    \/ \E r \in Requests :
         \/ \E e \in Emails, u \in Usernames, p \in Passwords : StartRegister(r, e, u, p)
         \/ Resend(r) \/ Create(r) \/ SendVerification(r) \/ SetHandoff(r)
         \/ \E e \in Emails : StartVerify(r, e) \/ ForgotPassword(r, e)
         \/ \E e \in Emails, p \in Passwords : Login(r, e, p)
         \/ \E t \in Versioned : ExchangeHandoff(r, t) \/ Refresh(r, t)
         \/ \E t \in Versioned, p \in Passwords : StartReset(r, t, p)
         \/ CommitVerify(r) \/ IssueSession(r) \/ SendReset(r) \/ CommitReset(r)
         \/ LoseRequest(r)
    \/ DeleteStaleUsers \/ Tick

Spec == Init /\ [][Next]_vars

-----------------------------------------------------------------------------
(* Properties.                                                             *)

Held == [id : Ids, ver : Versions]
Tokens ==
    [kind : {"access", "refresh", "handoff", "reset"}, email : Emails, ver : Versions,
     exp : 0..(MaxTime + HandoffLife), id : Ids, pw : Passwords \cup {Unknown}]
Links == [kind : {"verify"}, email : Emails]
Handlers ==
    {Idle}
    \cup [pc : {"resend", "verify"}, email : Emails, id : Ids]
    \cup [pc : {"create"}, email : Emails, name : Usernames, pw : Passwords]
    \cup [pc : {"mail"}, email : Emails, id : Ids, at : Times]
    \cup [pc : {"cookie"}, email : Emails, user : Held, at : Times]
    \cup [pc : {"session"}, email : Emails, user : Held, pw : Passwords \cup {Unknown}]
    \cup [pc : {"resetmail"}, email : Emails, user : Held]
    \cup [pc : {"reset"}, email : Emails, user : Held, pw : Passwords]

\* Every variable has its type.
TypeOK ==
    /\ users \in [Emails -> Users \cup {NoAccount}]
    /\ tokens \subseteq Tokens \cup Links
    /\ req \in [Requests -> Handlers]
    /\ clock \in Times /\ nextId \in 1..(MaxId + 1)
    /\ resets \in [Ids -> Nat]

Honoured(t) == AccessHonoured(t) \/ RefreshHonoured(t) \/ HandoffHonoured(t) \/ ResetHonoured(t)

\* A token is honoured only for the account it was issued for, though tokens
\* name the address and an unverified account may be deleted and registered
\* again by somebody else with the same version (auth.py:219, auth.py:414).
TokenOfThisAccount ==
    \A t \in Versioned : Honoured(t) => users[t.email].id = t.id

\* A session that began with a password ends when the password is reset: no
\* token that is still honoured descends from a login with an older one,
\* whatever the order of the logins, refreshes and resets (auth.py:324).
SessionKnowsPassword ==
    \A t \in Versioned :
      (AccessHonoured(t) \/ RefreshHonoured(t)) /\ t.pw # Unknown => t.pw = users[t.email].pw

\* The version counts the successful resets.  Two uses of one link at the same
\* time cannot both succeed, and no reset is lost (auth.py:404).
ResetsCounted ==
    \A e \in Emails : Exists(e) => users[e].ver = resets[users[e].id]

\* The page of a reset link is told "used" when a reset has been made since the
\* link was made, and "valid" otherwise; never that it is invalid (auth.py:438).
ResetLinkToldTrue ==
    \A t \in Versioned : t.kind = "reset" =>
      ResetStatus(t) = IF resets[t.id] > t.ver THEN "used" ELSE "valid"

\* While the hand-off cookie of a registration lives, its account is there: the
\* cleanup does not take it from the page that waits for the verification
\* (user_cleanup.py:15).
HandoffHasAccount ==
    \A t \in Versioned : t.kind = "handoff" /\ clock < t.exp => Holds(t.email, t.id)

\* A verified account stays, and stays verified, whatever registrations and
\* cleanups that saw it unverified do (auth.py:101, user_cleanup.py:15).
VerifiedSurvives ==
    \A e \in Emails : Exists(e) /\ users[e].verified =>
      /\ users'[e] # NoAccount
      /\ users'[e].id = users[e].id /\ users'[e].verified

=============================================================================
