-------------------------- MODULE RequestBodyLimit --------------------------
(***************************************************************************)
(* The limit on the body of an upload (core/request_body_limit.py).        *)
(*                                                                         *)
(* The middleware refuses a request whose declared length is too large     *)
(* before the application sees it, and counts the bytes of the others as   *)
(* the application receives them: the declared length may be missing,      *)
(* wrong or smaller than the body.  The limit is passed inside a call of   *)
(* the application, which may have answered already.                       *)
(*                                                                         *)
(* The application is FastAPI: the exception is an HTTPException, which    *)
(* its own handler answers when no answer has begun and turns into another *)
(* error when one has; what it does not handle reaches the middleware.     *)
(***************************************************************************)
EXTENDS Integers, Sequences

CONSTANTS
    None,         \* no usable Content-Length
    Bodies,       \* the bodies to try: for each message the offset of its end
    Lengths,      \* the declared lengths to try
    MaxBodySize   \* MAX_ANALYSIS_REQUEST_BODY_BYTES

\* What the constants must satisfy.
BodyAssumption ==
    /\ MaxBodySize \in Nat /\ None \notin {"refused", "accepted"}
    /\ \A b \in Bodies : b \in Seq(Nat) /\ \A i \in 2 .. Len(b) : b[i - 1] <= b[i]

VARIABLES
    body,       \* the whole body
    declared,   \* the length that _content_length reads, or None
    read,       \* messages the application has received
    received,   \* bytes counted by the middleware
    starts,     \* responses begun
    status,     \* the first response: None, "refused" (413) or "accepted"
    app         \* "outside", "reading", "finished" or "failed"

vars == <<body, declared, read, received, starts, status, app>>

\* Where a message ends, and the one before the first.
End(n) == IF n = 0 THEN 0 ELSE body[n]

Init == /\ body \in Bodies
        /\ declared \in Lengths \cup {None}
        /\ read = 0 /\ received = 0
        /\ starts = 0 /\ status = None
        /\ app = "outside"

Respond(how) == /\ starts' = starts + 1
                /\ status' = IF starts = 0 THEN how ELSE status

DeclaredTooLarge == IF declared = None THEN FALSE ELSE declared > MaxBodySize

RefuseDeclared ==
    /\ app = "outside"
    /\ DeclaredTooLarge
    /\ Respond("refused")
    /\ app' = "finished"
    /\ UNCHANGED <<body, declared, read, received>>

Enter == /\ app = "outside"
         /\ ~DeclaredTooLarge
         /\ app' = "reading"
         /\ UNCHANGED <<body, declared, read, received, starts, status>>

\* The application begins an answer with the body still to come.
AnswerEarly == /\ app = "reading"
               /\ starts = 0
               /\ read < Len(body)
               /\ Respond("refused")
               /\ UNCHANGED <<body, declared, read, received, app>>

\* total += len(message["body"])
Counted == received + (End(read + 1) - End(read))

\* limited_receive passes a message on.
Receive == /\ app = "reading"
           /\ read < Len(body)
           /\ Counted <= MaxBodySize
           /\ received' = Counted
           /\ read' = read + 1
           /\ UNCHANGED <<body, declared, starts, status, app>>

\* Mutant: it is not asked whether an answer has begun.
MutExceed ==
    /\ app = "reading"
    /\ read < Len(body)
    /\ Counted > MaxBodySize
    /\ received' = Counted
    /\ read' = read + 1
    /\ Respond("refused")
    /\ app' = "finished"
    /\ UNCHANGED <<body, declared>>

\* limited_receive raises.  Before an answer, the application's handler or the
\* middleware sends the 413; after one, the error ends the connection.
Exceed ==
    /\ app = "reading"
    /\ read < Len(body)
    /\ Counted > MaxBodySize
    /\ received' = Counted
    /\ read' = read + 1
    /\ IF starts = 0
       THEN Respond("refused") /\ app' = "finished"
       ELSE app' = "failed" /\ UNCHANGED <<starts, status>>
    /\ UNCHANGED <<body, declared>>

\* The body is complete: the endpoint runs and answers.
Complete == /\ app = "reading"
            /\ read = Len(body)
            /\ IF starts = 0 THEN Respond("accepted")
                             ELSE UNCHANGED <<starts, status>>
            /\ app' = "finished"
            /\ UNCHANGED <<body, declared, read, received>>

Next == \/ RefuseDeclared \/ Enter \/ AnswerEarly \/ Receive \/ Exceed
        \/ Complete

Spec == Init /\ [][Next]_vars

-----------------------------------------------------------------------------

\* What the middleware counts is what the application was given.
TypeOK == /\ body \in Bodies /\ starts \in Nat
          /\ read \in 0 .. Len(body)
          /\ received = End(read)
          /\ status \in {None, "refused", "accepted"}
          /\ app \in {"outside", "reading", "finished", "failed"}

\* A request never gets two responses, also when the limit is passed after the
\* application has begun to answer (RequestBodyLimitMiddleware.__call__).
OneResponse == starts <= 1

\* No body over the limit is accepted, whatever length was declared, and no
\* request is accepted before its whole body was counted.
AcceptedIsWithinLimit ==
    status = "accepted" => End(Len(body)) <= MaxBodySize /\ read = Len(body)
=============================================================================
