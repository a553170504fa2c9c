-------------------------- MODULE ServerRequests --------------------------
(***************************************************************************)
(* What requests do at the same time on the server: the uploads of a user, *)
(* the registrations, logins, refreshes and resets of accounts, and the    *)
(* limit on the body of each.  No part reads the state of another, so a    *)
(* behaviour here is one of a single part; the variables of the others     *)
(* stay where they began, or 0.                                            *)
(***************************************************************************)
EXTENDS Admission

CONSTANTS
    Parts,      \* the parts that are looked at
    Emails, Usernames, Passwords, HandoffLife, StaleAfter, RequestLife,
    MaxTime, MaxId, MaxResets, NoAccount, Unknown,          \* Accounts
    None, Bodies, Lengths, MaxBodySize                      \* RequestBodyLimit

VARIABLES
    part,
    users, tokens, handlers, clock, nextId, resets,         \* Accounts
    body, declared, read, received, starts, response, app   \* RequestBodyLimit

accountVars == <<users, tokens, handlers, clock, nextId, resets>>
bodyVars == <<body, declared, read, received, starts, response, app>>

Account == INSTANCE Accounts WITH req <- handlers
Body == INSTANCE RequestBodyLimit WITH status <- response

\* What the constants must satisfy.
ASSUME RequestsAssumption == Account!AccountsAssumption /\ Body!BodyAssumption

AccountsRest == /\ users = 0 /\ tokens = 0 /\ handlers = 0 /\ clock = 0 /\ nextId = 0
                /\ resets = 0
BodyRests == /\ body = 0 /\ declared = 0 /\ read = 0 /\ received = 0 /\ starts = 0
             /\ response = 0 /\ app = 0

RequestsInit ==
    /\ part \in Parts /\ Init
    /\ IF part = "accounts" THEN Account!Init ELSE AccountsRest
    /\ IF part = "body" THEN Body!Init ELSE BodyRests

RequestsNext ==
    /\ UNCHANGED part
    /\ \/ part = "admission" /\ Next /\ UNCHANGED <<accountVars, bodyVars>>
       \/ part = "accounts" /\ Account!Next /\ UNCHANGED <<vars, bodyVars>>
       \/ part = "body" /\ Body!Next /\ UNCHANGED <<vars, accountVars>>

RequestsSpec == RequestsInit /\ [][RequestsNext]_<<part, vars, accountVars, bodyVars>>

-----------------------------------------------------------------------------
(* Properties                                                              *)

\* What somebody is let in with or told belongs to the account it was made for:
\* tokens, passwords, resets and the hand-off of a registration, whatever runs
\* at the same time (auth.py, user_cleanup.py).
TokensAreTrue ==
    part = "accounts" =>
      /\ Account!TypeOK /\ Account!TokenOfThisAccount /\ Account!SessionKnowsPassword
      /\ Account!ResetsCounted /\ Account!ResetLinkToldTrue /\ Account!HandoffHasAccount

\* A verified account stays, and stays verified, whatever registrations and
\* cleanups that saw it unverified do (auth.py:101, user_cleanup.py:15).
VerifiedStays == [][part = "accounts" => Account!VerifiedSurvives]_accountVars

\* A request is answered once, also when its body passes the limit after the
\* application has begun to answer, and is accepted only when its whole body
\* was counted and is within the limit (request_body_limit.py:45).
JudgedOnce ==
    part = "body" => Body!TypeOK /\ Body!OneResponse /\ Body!AcceptedIsWithinLimit
=============================================================================
