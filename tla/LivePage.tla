------------------------------ MODULE LivePage ------------------------------
(***************************************************************************)
(* An investigation page and what it watches: the row of one analysis, as  *)
(* the pipeline leaves it; the server-sent event stream                    *)
(* (backend/app/api/analysis_stream.py) with the Redis channel behind it;  *)
(* and one mount of AnalysisPage.jsx, which learns the state of the        *)
(* analysis from three kinds of detail request (at load, when it           *)
(* reconnects, and every fifteen seconds), from the stream, and from the   *)
(* answer to its own cancel request.                                       *)
(*                                                                         *)
(* Artifact lists, stage texts and the connection label are display data   *)
(* and are left out.  A progress is 0..Top, where Top stands for 99.       *)
(***************************************************************************)
EXTENDS Integers, Sequences

CONSTANTS
    Top,            \* the progress of a finished ingestion
    MaxPublishes,   \* bound: progress events published
    MaxGiveUps      \* bound: times a processing analysis goes back to pending

ASSUME LivePageAssumption ==
    Top \in Nat \ {0} /\ MaxPublishes \in Nat /\ MaxGiveUps \in Nat

VARIABLES
    row,        \* status and progress of the analysis, in the database
    workers,    \* what the workers have done: begun, published, givenUp, unsent
    streams,    \* streams[s]: EventSource s, its connection and its server side
    page,       \* the variables of the effect of AnalysisPage, and its view
    post        \* the cancel request of the page

vars == <<row, workers, streams, page, post>>

Final    == {"completed", "failed", "cancelled"}
Working  == {"pending", "processing"}
Sources  == {1, 2}
NoSource == 0
Callers  == {"initial", "reconnect", "durable"}
Untold   == -1      \* the progress of an event that carries none

Least(a, b) == IF a < b THEN a ELSE b
Most(a, b)  == IF a < b THEN b ELSE a

-----------------------------------------------------------------------------
(* Events, streams and detail requests.                                    *)

Event(name, status, progress) ==
    [event |-> name, status |-> status, progress |-> progress]
Outcomes == {"investigation_result", "cancelled"}
Events ==
    [event : {"state", "progress"}, status : Working \cup Final, progress : Untold..Top]
    \cup [event : Outcomes, status : Final, progress : {Untold}]

\* compute_current_analysis_state
CurrentState == Event("state", row.status, row.progress)

Closed == [pc |-> "closed", min |-> 0, queue |-> <<>>, wire |-> <<>>]
Over(wire) == [pc |-> "over", min |-> 0, queue |-> <<>>, wire |-> wire]

Idle  == [pc |-> "idle",  seen |-> Event("state", "pending", 0)]
Timer == [Idle EXCEPT !.pc = "timer"]
Sent  == [Idle EXCEPT !.pc = "sent"]

-----------------------------------------------------------------------------
(* The page.  Each operator is one of the closures of the effect.          *)

FreshPage ==
    [mode |-> "loading", status |-> "none", high |-> 0, reported |-> "none",
     settled |-> FALSE, terminal |-> FALSE, disposed |-> FALSE,
     handle |-> NoSource, inFlight |-> TRUE,
     calls |-> [c \in Callers |-> IF c = "initial" THEN Sent ELSE Idle]]

Stopped(p) == p.disposed \/ p.terminal

ClearTimers(p) ==
    [p EXCEPT !.calls = [c \in Callers |->
                            IF @[c].pc = "timer" THEN Idle ELSE @[c]]]
CloseStream(p) == [p EXCEPT !.handle = NoSource]

\* reportStatus: tells the history list, unless it was told already.
ReportStatus(p, s) == [p EXCEPT !.reported = s]

\* finishWithResult, finishWithFailure, finishWithCancelled.  A cancelled
\* analysis is removed from the history, not relabelled.
Finish(p, s) ==
    IF Stopped(p) THEN p
    ELSE LET told == IF s = "cancelled" THEN p ELSE ReportStatus(p, s)
         IN  [CloseStream(ClearTimers(told)) EXCEPT
                !.terminal = TRUE, !.settled = TRUE, !.mode = s, !.status = s]

\* Mutant: the page takes the status it is shown.
MutNextStatus(p, s) == s

\* The status the page goes on with when it is shown one that is not final.
NextStatus(p, s) ==
    IF p.reported = "processing" /\ s = "pending" THEN "processing" ELSE s

\* applyDurableState: what it returns, and what it does.  (A page that has
\* stopped is not changed by Finish.)
Ended(p, state) == Stopped(p) \/ state.status \in Final
ApplyState(p, state) ==
    IF Ended(p, state) THEN Finish(p, state.status)
    ELSE LET next == NextStatus(p, state.status)
         IN  [ReportStatus(p, next) EXCEPT
                !.high = Most(@, Least(Top, state.progress)),
                !.mode = "live", !.status = next]

\* Mutant: the progress of an event is shown as it comes.
MutUncheckedProgress(p, event) ==
    IF Stopped(p) THEN p
    ELSE [ReportStatus(p, "processing") EXCEPT !.high = event.progress, !.mode = "live",
                   !.status = IF @ = "pending" THEN "processing" ELSE @]

\* onProgress
ApplyProgress(p, event) ==
    IF Stopped(p) THEN p
    ELSE [ReportStatus(p, "processing") EXCEPT
            !.high = IF event.progress = Untold THEN @
                     ELSE Most(@, Least(Top, event.progress)),
            !.mode = "live",
            !.status = IF @ = "pending" THEN "processing" ELSE @]

\* Mutant: the durable check is scheduled again without a look at terminal.
MutScheduleDurableCheck(p) == [p EXCEPT !.calls["durable"] = Timer]

ScheduleDurableCheck(p) ==
    IF Stopped(p) THEN p ELSE [p EXCEPT !.calls["durable"] = Timer]

OpenStream(p) ==
    IF Stopped(p) \/ p.handle # NoSource THEN p
    ELSE [p EXCEPT !.handle =
            IF streams[1].pc = "closed" THEN 1 ELSE 2]

\* onError
ScheduleReconnect(p) ==
    IF Stopped(p) THEN p
    ELSE [CloseStream(p) EXCEPT !.calls["reconnect"] = Timer]

\* A request goes out unless another is; then the timer is set again.
Ask(p, c) ==
    IF p.inFlight THEN p
    ELSE [p EXCEPT !.inFlight = TRUE, !.calls[c] = Sent]

\* The finally clause of a detail request.
Answered(p, c) == [p EXCEPT !.inFlight = FALSE, !.calls[c] = Idle]

\* The page becomes p: what it closed is closed, what it opened is opened.
Follow(p, current) ==
    /\ page' = p
    /\ streams' = [s \in Sources |->
         CASE s = p.handle /\ s # page.handle -> [Closed EXCEPT !.pc = "connecting"]
           [] s # p.handle /\ s = page.handle -> Closed
           [] OTHER                           -> current[s]]

-----------------------------------------------------------------------------
Init ==
    /\ \/ row = [status |-> "pending", progress |-> 0]
       \/ \E s \in {"processing", "completed", "failed", "cancelled", "missing"} :
            row = [status |-> s, progress |-> IF s = "completed" THEN Top ELSE 0]
    /\ workers = [begun |-> row.status # "pending", published |-> 0, givenUp |-> 0,
                  unsent |-> "none"]
    /\ streams = [s \in Sources |-> Closed]
    /\ page = FreshPage
    /\ post = "idle"

-----------------------------------------------------------------------------
(* The analysis: what AnalysisLifecycle allows, the progress of its        *)
(* ingestion, and the events the workers and the cancel endpoint publish.  *)

Tab == <<streams, page, post>>

Begin ==
    /\ row.status = "pending"
    /\ row' = [row EXCEPT !.status = "processing"]
    /\ workers' = [workers EXCEPT !.begun = TRUE]
    /\ UNCHANGED Tab

Advance ==
    /\ row.status = "processing"
    /\ row.progress < Top
    /\ row' = [row EXCEPT !.progress = @ + 1]
    /\ UNCHANGED <<workers, Tab>>

\* A stale analysis goes back to pending; an image starts again from nothing.
GiveUp ==
    /\ row.status = "processing"
    /\ workers.givenUp < MaxGiveUps
    /\ \E p \in {0, row.progress} : row' = [status |-> "pending", progress |-> p]
    /\ workers' = [workers EXCEPT !.givenUp = @ + 1]
    /\ UNCHANGED Tab

Conclude(s) ==
    /\ row.status \in IF s = "completed" THEN {"processing"} ELSE Working
    /\ row' = [status |-> s,
               progress |-> IF s = "completed" THEN Top ELSE row.progress]
    /\ workers' = [workers EXCEPT !.unsent = IF s = "failed" THEN "none" ELSE s]
    /\ UNCHANGED Tab

\* Redis hands an event to the streams that are subscribed at that moment.
Broadcast(event) ==
    streams' = [s \in Sources |->
        IF streams[s].pc \in {"subscribed", "live"}
        THEN [streams[s] EXCEPT !.queue = Append(@, event)]
        ELSE streams[s]]

\* A progress published by any worker, a late one too: never more than was
\* reached, sometimes none at all.  One that is lost leaves no trace.
PublishProgress ==
    /\ workers.begun
    /\ row.status # "missing"
    /\ workers.published < MaxPublishes
    /\ \E p \in Untold..row.progress : Broadcast(Event("progress", "processing", p))
    /\ workers' = [workers EXCEPT !.published = @ + 1]
    /\ UNCHANGED <<row, page, post>>

\* The result, or the cancellation, is published after it was committed, and
\* may be lost: Redis is down, or the process dies first.  A failure is never
\* published.
PublishOutcome ==
    /\ workers.unsent # "none"
    /\ \/ Broadcast(Event(IF workers.unsent = "completed" THEN "investigation_result"
                          ELSE "cancelled", workers.unsent, Untold))
       \/ UNCHANGED streams
    /\ workers' = [workers EXCEPT !.unsent = "none"]
    /\ post' = IF post = "committed" THEN "yes" ELSE post
    /\ UNCHANGED <<row, page>>

-----------------------------------------------------------------------------
(* The stream: _analysis_event_stream, one step between two awaits.        *)

Server == <<row, workers, page, post>>

\* What _load_analysis_state gives to yield: nothing when there is no row.
Loaded == IF row.status = "missing" THEN <<>> ELSE <<CurrentState>>

Subscribe(s) ==
    /\ streams[s].pc = "connecting"
    /\ \/ streams' = [streams EXCEPT ![s].pc = "subscribed"]
       \/ streams' = [streams EXCEPT ![s] = Over(Loaded)]
    /\ UNCHANGED Server

Snapshot(s) ==
    /\ streams[s].pc = "subscribed"
    /\ streams' = [streams EXCEPT ![s] =
         IF row.status \notin Working THEN Over(Loaded)
         ELSE [@ EXCEPT !.pc = "live", !.min = row.progress, !.wire = Loaded]]
    /\ UNCHANGED Server

Old(event, min) ==
    event.event = "progress" /\ event.progress # Untold /\ event.progress < min

Forward(s) ==
    LET st    == streams[s]
        event == Head(st.queue)
        rest  == [st EXCEPT !.queue = Tail(@)]
    IN  /\ st.pc = "live" /\ st.queue # <<>>
        /\ streams' = [streams EXCEPT ![s] =
             CASE Old(event, st.min) -> rest
               [] event.event = "progress" /\ ~Old(event, st.min) ->
                    [rest EXCEPT !.min = Most(@, event.progress), !.wire = Append(@, event)]
               [] OTHER -> Over(Append(st.wire, event))]
        /\ UNCHANGED Server

\* The server loses Redis, or the browser the server: what was on the way is
\* lost, or only its end is.
Break(s) ==
    /\ streams[s].pc \notin {"closed", "over"}
    /\ \E wire \in {<<>>, streams[s].wire} :
         streams' = [streams EXCEPT ![s] = Over(wire)]
    /\ UNCHANGED Server

-----------------------------------------------------------------------------
(* What the browser hands to the page.                                     *)

Elsewhere == <<row, workers, post>>

Deliver(s) ==
    LET event == Head(streams[s].wire)
        p     == CASE event.event = "state" ->
                        IF Ended(page, event) THEN CloseStream(ApplyState(page, event))
                        ELSE ApplyState(page, event)
                   [] event.event = "progress" -> ApplyProgress(page, event)
                   [] OTHER -> Finish(page, event.status)
    IN  /\ streams[s].wire # <<>>
        /\ Follow(p, [streams EXCEPT ![s].wire = Tail(@)])
        /\ UNCHANGED Elsewhere

StreamError(s) ==
    /\ streams[s].pc = "over" /\ streams[s].wire = <<>>
    /\ Follow(ScheduleReconnect(page), streams)
    /\ UNCHANGED Elsewhere

\* GET /analysis/{id}
Serve(c) ==
    /\ page.calls[c].pc = "sent"
    /\ page' = [page EXCEPT !.calls[c] =
         IF row.status = "missing" THEN [Idle EXCEPT !.pc = "missing"]
         ELSE [pc |-> "answered", seen |-> CurrentState]]
    /\ UNCHANGED <<streams, Elsewhere>>

FailRequest(c) ==
    /\ page.calls[c].pc \in {"sent", "answered"}
    /\ page' = [page EXCEPT !.calls[c] = [Idle EXCEPT !.pc = "failed"]]
    /\ UNCHANGED <<streams, Elsewhere>>

\* loadInitialState, from the answer on.
InitialArrives ==
    LET call == page.calls["initial"]
        p    == CASE call.pc = "answered" ->
                       IF Ended(page, call.seen) THEN ApplyState(page, call.seen)
                       ELSE ScheduleDurableCheck(OpenStream(ApplyState(page, call.seen)))
                  [] call.pc = "missing" /\ ~page.disposed ->
                       [page EXCEPT !.terminal = TRUE, !.mode = "not-found"]
                  [] call.pc = "failed" /\ ~page.disposed -> [page EXCEPT !.mode = "error"]
                  [] OTHER -> page
    IN  /\ call.pc \in {"answered", "missing", "failed"}
        /\ Follow(Answered(p, "initial"), streams)
        /\ UNCHANGED Elsewhere

\* Mutant: a failed reconnection is not tried again.
MutReconnectArrives ==
    LET call == page.calls["reconnect"]
        idle == Answered(page, "reconnect")
    IN  /\ call.pc \in {"answered", "failed"}
        /\ Follow(IF call.pc = "answered" /\ ~Ended(idle, call.seen)
                  THEN OpenStream(ApplyState(idle, call.seen)) ELSE idle, streams)
        /\ UNCHANGED Elsewhere

\* attemptReconnect, from the answer on.
ReconnectArrives ==
    LET call == page.calls["reconnect"]
        idle == Answered(page, "reconnect")
        p    == CASE call.pc = "answered" ->
                       IF Ended(idle, call.seen) THEN ApplyState(idle, call.seen)
                       ELSE OpenStream(ApplyState(idle, call.seen))
                  [] call.pc = "failed" /\ ~Stopped(page) ->
                       [idle EXCEPT !.calls["reconnect"] = Timer]
                  [] OTHER -> idle
    IN  /\ call.pc \in {"answered", "failed"}
        /\ Follow(p, streams)
        /\ UNCHANGED Elsewhere

\* The durable check, from the answer on.
DurableArrives ==
    LET call == page.calls["durable"]
        idle == Answered(page, "durable")
        p    == IF call.pc = "answered" THEN ApplyState(idle, call.seen) ELSE idle
    IN  /\ call.pc \in {"answered", "failed"}
        /\ Follow(ScheduleDurableCheck(p), streams)
        /\ UNCHANGED Elsewhere

Arrives(c) == CASE c = "initial"   -> InitialArrives
                [] c = "reconnect" -> ReconnectArrives
                [] c = "durable"   -> DurableArrives

\* Mutant: a durable check that finds another request out is not tried again.
MutTimerFires(c) ==
    /\ page.calls[c].pc = "timer"
    /\ page' = IF Stopped(page) \/ (page.inFlight /\ c = "durable")
               THEN [page EXCEPT !.calls[c] = Idle] ELSE Ask(page, c)
    /\ UNCHANGED <<streams, Elsewhere>>

\* A timer runs out: attemptReconnect, or the body of the durable check.
TimerFires(c) ==
    /\ page.calls[c].pc = "timer"
    /\ page' = IF Stopped(page) THEN [page EXCEPT !.calls[c] = Idle] ELSE Ask(page, c)
    /\ UNCHANGED <<streams, Elsewhere>>

-----------------------------------------------------------------------------
(* What the user does.                                                     *)

\* requestCancel; the button is there only while the page is live.
PressCancel ==
    /\ page.mode = "live" /\ ~Stopped(page)
    /\ post = "idle"
    /\ post' = "sent"
    /\ UNCHANGED <<row, workers, streams, page>>

\* POST /analysis/{id}/cancel up to its commit.
ServeCancel ==
    /\ post = "sent"
    /\ \/ /\ row.status \in Working
          /\ row' = [row EXCEPT !.status = "cancelled"]
          /\ workers' = [workers EXCEPT !.unsent = "cancelled"]
          /\ post' = "committed"
       \/ /\ row.status \notin Working
          /\ post' = IF row.status = "cancelled" THEN "yes" ELSE "no"
          /\ UNCHANGED <<row, workers>>
    /\ UNCHANGED <<streams, page>>

\* Mutant: a cancel request that fails is taken for a cancellation.
MutCancelAnswered ==
    /\ post \in {"yes", "no"} /\ post' = "done"
    /\ Follow(Finish(page, "cancelled"), streams)
    /\ UNCHANGED <<row, workers>>

\* The answer arrives, or the request fails on either way.
CancelAnswered ==
    /\ \/ /\ post = "yes" /\ post' = "done"
          /\ Follow(Finish(page, "cancelled"), streams)
       \/ /\ post \in {"sent", "committed", "yes", "no"} /\ post' = "idle"
          /\ UNCHANGED <<streams, page>>
    /\ UNCHANGED <<row, workers>>

TryAgain ==
    /\ page.mode = "error" /\ ~page.disposed
    /\ page' = FreshPage
    /\ UNCHANGED <<streams, Elsewhere>>

\* The cleanup of the effect: the user goes elsewhere.
Unmount ==
    /\ ~page.disposed
    /\ Follow(CloseStream(ClearTimers([page EXCEPT !.disposed = TRUE])), streams)
    /\ UNCHANGED Elsewhere

-----------------------------------------------------------------------------
Next ==
    \/ Begin \/ Advance \/ GiveUp
    \/ \E s \in Final : Conclude(s)
    \/ PublishProgress \/ PublishOutcome
    \/ \E s \in Sources :
         Subscribe(s) \/ Snapshot(s) \/ Forward(s) \/ Break(s) \/ Deliver(s) \/ StreamError(s)
    \/ \E c \in Callers : Serve(c) \/ FailRequest(c) \/ Arrives(c) \/ TimerFires(c)
    \/ PressCancel \/ ServeCancel \/ CancelAnswered
    \/ TryAgain \/ Unmount

Spec == Init /\ [][Next]_vars

\* Timers run out and requests are answered.  A request may fail, even often,
\* but one that is repeated for ever does not always fail.  Nothing is assumed
\* of the stream, of Redis or of the workers.
ArrivesWell(c) == page.calls[c].pc = "answered" /\ Arrives(c)
FairSpec ==
    /\ Spec
    /\ \A c \in Callers : /\ WF_vars(TimerFires(c)) /\ WF_vars(Arrives(c))
                          /\ SF_vars(Serve(c)) /\ SF_vars(ArrivesWell(c))

-----------------------------------------------------------------------------
(* Properties.                                                             *)

Asking == {c \in Callers : page.calls[c].pc \in {"sent", "answered", "missing", "failed"}}

Statuses == Working \cup Final \cup {"missing"}
Streams  == [pc : {"closed", "connecting", "subscribed", "live", "over"}, min : 0..Top,
             queue : Seq(Events), wire : Seq(Events)]
Calls    == [pc : {"idle", "timer", "sent", "answered", "missing", "failed"},
             seen : Events]
Pages    == [mode : {"loading", "live", "error", "not-found"} \cup Final,
             status : {"none"} \cup Working \cup Final, high : 0..Top,
             reported : {"none"} \cup Working \cup Final,
             settled : BOOLEAN, terminal : BOOLEAN, disposed : BOOLEAN,
             handle : {NoSource} \cup Sources, inFlight : BOOLEAN,
             calls : [Callers -> Calls]]

\* Every variable has its type.
TypeOK ==
    /\ row \in [status : Statuses, progress : 0..Top]
    /\ workers \in [begun : BOOLEAN, published : 0..MaxPublishes, givenUp : 0..MaxGiveUps,
                    unsent : {"none", "completed", "cancelled"}]
    /\ streams \in [Sources -> Streams]
    /\ page \in Pages
    /\ post \in {"idle", "sent", "committed", "yes", "no", "done"}

\* A page that shows an outcome, or has told the history list of one, shows
\* the one the database holds: neither an old answer, nor an event that was
\* under way, nor a failed cancel request makes it show another.
ShownIsTrue ==
    /\ page.mode \in Final => page.mode = row.status
    /\ page.reported \in Final => page.reported = row.status

\* requestInFlight is a lock: at most one detail request is out, and the flag is
\* up exactly as long as it is, so no timer waits for ever on a stale flag.  And
\* once the page has shown an outcome, or is gone, it leaves nothing behind: no
\* timer and no open event source, whichever answer arrived last.
LeavesNothing ==
    /\ \A c, d \in Asking : c = d
    /\ page.inFlight <=> Asking # {}
    /\ page.terminal \/ page.disposed =>
          /\ \A c \in Callers : page.calls[c].pc # "timer"
          /\ \A s \in Sources : streams[s].pc = "closed"

\* A live page is never deaf: its periodic check is due or under way, and it
\* has either one event source or one reconnection due or under way, not both;
\* and what it shows and what it has told the history list never differ.
StaysWatching ==
    /\ page.mode = "live" /\ ~page.disposed =>
          /\ page.calls["durable"].pc # "idle"
          /\ (page.handle = NoSource) <=> (page.calls["reconnect"].pc # "idle")
          /\ \A s \in Sources : (streams[s].pc # "closed") <=> (s = page.handle)
    /\ page.mode \in {"live", "completed", "failed"} => page.reported = page.status
    /\ page.mode \in Final <=> page.settled

\* One mount never goes back: progress does not fall when an image is read
\* again or an older event arrives, processing does not become pending when
\* the analysis is given up and resumed, and an outcome is the last word.
NeverGoesBack ==
    [][/\ page.mode = "live" => page'.high >= page.high
       /\ page.mode = "live" /\ page.status = "processing" => page'.status # "pending"
       /\ page.mode \in Final => page'.mode = page.mode /\ page'.reported = page.reported]_vars

\* A live page comes to show the outcome of its analysis, even when the event
\* of it is lost or was never published, and even when the stream stays open
\* and silent: the periodic check finds it.
EventuallyShown ==
    (row.status \in Final /\ page.mode = "live") ~> (page.mode = row.status \/ page.disposed)

=============================================================================
