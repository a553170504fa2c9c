--------------------------- MODULE LivePageProofs ---------------------------
(***************************************************************************)
(* Proofs about LivePage, for every length of the progress scale and every *)
(* bound: the page's type; the truth of the outcome it shows; that it is   *)
(* tidy between two callbacks, so that it leaves nothing behind and is     *)
(* never deaf; and that it never goes back.                                *)
(***************************************************************************)
EXTENDS LivePage, TLAPS

-----------------------------------------------------------------------------
(* Typing.  Each closure of the page takes a page to a page.               *)

\* Clearing the timers only makes calls idle.
LEMMA ClearTimersType ==
  ASSUME NEW p \in Pages
  PROVE  ClearTimers(p) \in Pages
<1> DEFINE cs == [c \in Callers |-> IF p.calls[c].pc = "timer" THEN Idle ELSE p.calls[c]]
<1>1. Idle \in Calls
  BY LivePageAssumption DEF Idle, Calls, Event, Events, Outcomes, Working, Final, Untold
<1>2. p.calls \in [Callers -> Calls]
  BY DEF Pages
<1>3. cs \in [Callers -> Calls]
  BY <1>1, <1>2
<1>4. ClearTimers(p) = [p EXCEPT !.calls = cs]
  BY DEF ClearTimers, Pages
<1> HIDE DEF cs
<1> QED BY <1>3, <1>4 DEF Pages

\* An outcome ends the page, in a page.
LEMMA FinishType ==
  ASSUME NEW p \in Pages, NEW s \in Final
  PROVE  Finish(p, s) \in Pages
<1> DEFINE told == IF s = "cancelled" THEN p ELSE ReportStatus(p, s)
<1>1. told \in Pages
  BY DEF Pages, ReportStatus
<1>2. ClearTimers(told) \in Pages
  BY <1>1, ClearTimersType
<1>3. CASE Stopped(p)
  BY <1>3 DEF Finish
<1>4. CASE ~Stopped(p)
  <2>1. Finish(p, s) = [CloseStream(ClearTimers(told)) EXCEPT
                !.terminal = TRUE, !.settled = TRUE, !.mode = s, !.status = s]
    BY <1>4 DEF Finish
  <2> HIDE DEF told
  <2> QED BY <1>2, <2>1 DEF Pages, CloseStream
<1> QED BY <1>3, <1>4

\* A durable state, final or not, gives a page.
LEMMA ApplyStateType ==
  ASSUME NEW p \in Pages, NEW e \in Events
  PROVE  ApplyState(p, e) \in Pages
<1>1. CASE Stopped(p)
  BY <1>1 DEF ApplyState, Ended, Finish
<1>2. CASE ~Stopped(p) /\ e.status \in Final
  BY <1>2, FinishType DEF ApplyState, Ended
<1>3. CASE ~Stopped(p) /\ e.status \notin Final
  <2> DEFINE n == NextStatus(p, e.status)
             h == Most(p.high, Least(Top, e.progress))
  <2>1. n \in Working
    BY <1>3 DEF NextStatus, Events, Outcomes, Working
  <2>2. h \in 0..Top
    BY LivePageAssumption DEF Pages, Events, Outcomes, Most, Least, Untold
  <2>3. ApplyState(p, e) = [p EXCEPT !.reported = n, !.high = h, !.mode = "live", !.status = n]
    BY <1>3 DEF ApplyState, Ended, ReportStatus, Pages
  <2> HIDE DEF n, h
  <2> QED BY <2>1, <2>2, <2>3 DEF Pages
<1> QED BY <1>1, <1>2, <1>3

\* So does a progress event, one without a progress too.
LEMMA ApplyProgressType ==
  ASSUME NEW p \in Pages, NEW e \in Events
  PROVE  ApplyProgress(p, e) \in Pages
<1> DEFINE h == IF e.progress = Untold THEN p.high ELSE Most(p.high, Least(Top, e.progress))
<1>1. h \in 0..Top
  BY LivePageAssumption DEF Pages, Events, Outcomes, Most, Least, Untold
<1> HIDE DEF h
<1>2. CASE Stopped(p)
  BY <1>2 DEF ApplyProgress
<1>3. CASE ~Stopped(p)
  <2>1. ApplyProgress(p, e) = [p EXCEPT !.reported = "processing", !.high = h, !.mode = "live",
                 !.status = IF p.status = "pending" THEN "processing" ELSE p.status]
    BY <1>3 DEF ApplyProgress, ReportStatus, Pages, h
  <2> QED BY <1>1, <2>1 DEF Pages, Working
<1> QED BY <1>2, <1>3

\* So do the other closures.
LEMMA StepTypes ==
  ASSUME NEW p \in Pages, NEW c \in Callers
  PROVE  /\ ScheduleDurableCheck(p) \in Pages
         /\ OpenStream(p) \in Pages
         /\ CloseStream(p) \in Pages
         /\ ScheduleReconnect(p) \in Pages
         /\ Ask(p, c) \in Pages
         /\ Answered(p, c) \in Pages
<1>1. Idle \in Calls /\ Timer \in Calls /\ Sent \in Calls
  BY LivePageAssumption DEF Idle, Timer, Sent, Calls, Event, Events, Outcomes, Working, Final, Untold
<1>2. ASSUME NEW t \in Calls, NEW d \in Callers
      PROVE  [p EXCEPT !.calls[d] = t] \in Pages
  BY DEF Pages
<1>3. ASSUME NEW t \in Calls, NEW d \in Callers, NEW f \in BOOLEAN
      PROVE  [p EXCEPT !.inFlight = f, !.calls[d] = t] \in Pages
  BY DEF Pages
<1>4. CloseStream(p) \in Pages
  BY DEF CloseStream, Pages
<1>5. [CloseStream(p) EXCEPT !.calls["reconnect"] = Timer] \in Pages
  BY <1>1, <1>4 DEF Pages, Callers
<1>6. OpenStream(p) \in Pages
  BY DEF OpenStream, Pages, Sources
<1>7. ScheduleDurableCheck(p) \in Pages
  BY <1>1, <1>2 DEF ScheduleDurableCheck, Callers
<1>8. Ask(p, c) \in Pages
  BY <1>1, <1>3 DEF Ask
<1>9. Answered(p, c) \in Pages
  BY <1>1, <1>3 DEF Answered
<1>10. ScheduleReconnect(p) \in Pages
  BY <1>5 DEF ScheduleReconnect
<1> QED BY <1>4, <1>6, <1>7, <1>8, <1>9, <1>10

\* Following a page leaves the page that was followed, and streams.
LEMMA FollowType ==
  ASSUME NEW p \in Pages, NEW current \in [Sources -> Streams], Follow(p, current)
  PROVE  page' \in Pages /\ streams' \in [Sources -> Streams]
<1>1. Closed \in Streams /\ [Closed EXCEPT !.pc = "connecting"] \in Streams
  <2>1. <<>> \in Seq(Events)
    OBVIOUS
  <2>2. 0 \in 0..Top
    BY LivePageAssumption
  <2>3. [Closed EXCEPT !.pc = "connecting"]
          = [pc |-> "connecting", min |-> 0, queue |-> <<>>, wire |-> <<>>]
    BY DEF Closed
  <2> QED BY <2>1, <2>2, <2>3 DEF Closed, Streams
<1>2. \A s \in Sources :
        streams'[s] \in {Closed, [Closed EXCEPT !.pc = "connecting"], current[s]}
  BY DEF Follow
<1> QED BY <1>1, <1>2 DEF Follow

\* What is read from the row is an event, when there is a row.
LEMMA LoadedType ==
  ASSUME TypeOK
  PROVE  /\ row.status # "missing" => CurrentState \in Events
         /\ Loaded \in Seq(Events)
<1>1. row.status # "missing" => CurrentState \in Events
  BY DEF CurrentState, Event, Events, Outcomes, TypeOK, Statuses, Untold, Working, Final
<1>2. <<>> \in Seq(Events)
  OBVIOUS
<1> QED BY <1>1, <1>2 DEF Loaded

\* A stream that ended is a stream.
LEMMA OverType ==
  ASSUME NEW wire \in Seq(Events)
  PROVE  Over(wire) \in Streams
<1>1. <<>> \in Seq(Events)
  OBVIOUS
<1> QED BY <1>1, LivePageAssumption DEF Over, Streams

\* What an event does to the queue of a stream.
LEMMA BroadcastType ==
  ASSUME NEW e \in Events, streams \in [Sources -> Streams], Broadcast(e)
  PROVE  streams' \in [Sources -> Streams]
<1>1. ASSUME NEW s \in Sources
      PROVE  [streams[s] EXCEPT !.queue = Append(@, e)] \in Streams
  <2>1. Append(streams[s].queue, e) \in Seq(Events)
    BY DEF Streams
  <2> QED BY <2>1 DEF Streams
<1> QED BY <1>1 DEF Broadcast

\* The type holds at first.
LEMMA InitType == Init => TypeOK
<1> SUFFICES ASSUME Init PROVE TypeOK
  OBVIOUS
<1> USE LivePageAssumption
<1>1. Closed \in Streams
  <2>1. <<>> \in Seq(Events)
    OBVIOUS
  <2> QED BY <2>1 DEF Closed, Streams
<1>2. Idle \in Calls /\ Sent \in Calls
  BY DEF Idle, Sent, Calls, Event, Events, Outcomes, Working, Final, Untold
<1>3. FreshPage \in Pages
  BY <1>2 DEF FreshPage, Pages, NoSource
<1> QED BY <1>1, <1>3 DEF Init, TypeOK, Statuses, Working, Final

\* Every step keeps the type.
LEMMA StepType == TypeOK /\ [Next]_vars => TypeOK'
<1> SUFFICES ASSUME TypeOK, [Next]_vars PROVE TypeOK'
  OBVIOUS
<1> USE LivePageAssumption
<1> USE DEF TypeOK
<1>1. CASE Begin
  BY <1>1 DEF Begin, Tab, Statuses, Working
<1>2. CASE Advance
  BY <1>2 DEF Advance, Tab
<1>3. CASE GiveUp
  BY <1>3 DEF GiveUp, Tab, Statuses, Working
<1>4. ASSUME NEW s \in Final, Conclude(s) PROVE TypeOK'
  BY <1>4 DEF Conclude, Tab, Statuses, Working, Final
<1>5. CASE PublishProgress
  <2> PICK p \in Untold..row.progress : Broadcast(Event("progress", "processing", p))
    BY <1>5 DEF PublishProgress
  <2>1. Event("progress", "processing", p) \in Events
    BY DEF Event, Events, Outcomes, Working, Untold
  <2>2. streams' \in [Sources -> Streams]
    BY <2>1, BroadcastType
  <2> QED BY <1>5, <2>2 DEF PublishProgress
<1>6. CASE PublishOutcome
  <2> DEFINE e == Event(IF workers.unsent = "completed" THEN "investigation_result"
                          ELSE "cancelled", workers.unsent, Untold)
  <2>1. e \in Events
    BY <1>6 DEF PublishOutcome, Event, Events, Outcomes, Final, Untold
  <2>2. Broadcast(e) \/ UNCHANGED streams
    BY <1>6 DEF PublishOutcome
  <2> HIDE DEF e
  <2>3. streams' \in [Sources -> Streams]
    BY <2>1, <2>2, BroadcastType
  <2> QED BY <1>6, <2>3 DEF PublishOutcome
<1>7. ASSUME NEW s \in Sources, Subscribe(s) PROVE TypeOK'
  <2>1. [streams[s] EXCEPT !.pc = "subscribed"] \in Streams
    BY DEF Streams
  <2>2. Over(Loaded) \in Streams
    BY LoadedType, OverType
  <2> QED BY <1>7, <2>1, <2>2 DEF Subscribe, Server
<1>8. ASSUME NEW s \in Sources, Snapshot(s) PROVE TypeOK'
  <2>1. [streams[s] EXCEPT !.pc = "live", !.min = row.progress, !.wire = Loaded] \in Streams
    BY LoadedType DEF Streams
  <2>2. Over(Loaded) \in Streams
    BY LoadedType, OverType
  <2> QED BY <1>8, <2>1, <2>2 DEF Snapshot, Server
<1>9. ASSUME NEW s \in Sources, Forward(s) PROVE TypeOK'
  <2> DEFINE st    == streams[s]
             event == Head(st.queue)
             rest  == [st EXCEPT !.queue = Tail(@)]
  <2>1. st \in Streams /\ st.queue # <<>> /\ st.queue \in Seq(Events)
    BY <1>9 DEF Forward, Streams
  <2>2. event \in Events /\ Tail(st.queue) \in Seq(Events)
    BY <2>1
  <2>3. rest \in Streams
    BY <2>1, <2>2 DEF Streams
  <2>4. Append(st.wire, event) \in Seq(Events)
    BY <2>1, <2>2 DEF Streams
  <2>5. Most(st.min, event.progress) \in 0..Top
    BY <2>1, <2>2 DEF Streams, Events, Outcomes, Most, Untold
  <2>6. Over(Append(st.wire, event)) \in Streams
    BY <2>4, OverType
  <2>7. [rest EXCEPT !.min = Most(@, event.progress), !.wire = Append(@, event)] \in Streams
    BY <2>1, <2>3, <2>4, <2>5 DEF Streams
  <2>8. streams'[s] \in Streams /\ streams' = [streams EXCEPT ![s] = streams'[s]]
    BY <1>9, <2>3, <2>6, <2>7 DEF Forward
  <2> HIDE DEF st, event, rest
  <2> QED BY <1>9, <2>8 DEF Forward, Server
<1>10. ASSUME NEW s \in Sources, Break(s) PROVE TypeOK'
  <2>1. <<>> \in Seq(Events) /\ streams[s].wire \in Seq(Events)
    BY DEF Streams
  <2>2. \A wire \in {<<>>, streams[s].wire} : Over(wire) \in Streams
    BY <2>1, OverType
  <2> QED BY <1>10, <2>2 DEF Break, Server
<1>11. ASSUME NEW s \in Sources, Deliver(s) PROVE TypeOK'
  <2> DEFINE event == Head(streams[s].wire)
             p     == CASE event.event = "state" ->
                             IF Ended(page, event) THEN CloseStream(ApplyState(page, event))
                             ELSE ApplyState(page, event)
                        [] event.event = "progress" -> ApplyProgress(page, event)
                        [] OTHER -> Finish(page, event.status)
             now   == [streams EXCEPT ![s].wire = Tail(@)]
  <2>1. streams[s].wire \in Seq(Events) /\ streams[s].wire # <<>>
    BY <1>11 DEF Deliver, Streams
  <2>2. event \in Events /\ Tail(streams[s].wire) \in Seq(Events)
    BY <2>1
  <2>3. now \in [Sources -> Streams]
    BY <2>2 DEF Streams
  <2>4. ApplyState(page, event) \in Pages /\ ApplyProgress(page, event) \in Pages
    BY <2>2, ApplyStateType, ApplyProgressType
  <2>5. CloseStream(ApplyState(page, event)) \in Pages
    BY <2>4, StepTypes DEF Callers
  <2>6. event.event \notin {"state", "progress"} => Finish(page, event.status) \in Pages
    BY <2>2, FinishType DEF Events, Outcomes
  <2>7. p \in Pages
    BY <2>4, <2>5, <2>6
  <2>8. Follow(p, now) /\ UNCHANGED Elsewhere
    BY <1>11 DEF Deliver
  <2> HIDE DEF p, now
  <2> QED BY <2>3, <2>7, <2>8, FollowType DEF Elsewhere
<1>12. ASSUME NEW s \in Sources, StreamError(s) PROVE TypeOK'
  <2>1. ScheduleReconnect(page) \in Pages
    BY StepTypes DEF Callers
  <2> QED BY <1>12, <2>1, FollowType DEF StreamError, Elsewhere
<1>13. ASSUME NEW c \in Callers, Serve(c) PROVE TypeOK'
  <2>1. [Idle EXCEPT !.pc = "missing"] \in Calls
    BY DEF Idle, Calls, Event, Events, Outcomes, Working, Final, Untold
  <2>2. row.status # "missing" => [pc |-> "answered", seen |-> CurrentState] \in Calls
    BY LoadedType DEF Calls
  <2>3. \E t \in Calls : page' = [page EXCEPT !.calls[c] = t]
    BY <1>13, <2>1, <2>2 DEF Serve
  <2>4. page' \in Pages
    BY <2>3 DEF Pages
  <2> QED BY <1>13, <2>4 DEF Serve, Elsewhere
<1>14. ASSUME NEW c \in Callers, FailRequest(c) PROVE TypeOK'
  <2>1. [Idle EXCEPT !.pc = "failed"] \in Calls
    BY DEF Idle, Calls, Event, Events, Outcomes, Working, Final, Untold
  <2>2. page' \in Pages
    BY <1>14, <2>1 DEF FailRequest, Pages
  <2> QED BY <1>14, <2>2 DEF FailRequest, Elsewhere
<1>15. ASSUME NEW c \in Callers, TimerFires(c) PROVE TypeOK'
  <2>1. Ask(page, c) \in Pages
    BY StepTypes
  <2>2. Idle \in Calls
    BY DEF Idle, Calls, Event, Events, Outcomes, Working, Final, Untold
  <2>3. [page EXCEPT !.calls[c] = Idle] \in Pages
    BY <2>2 DEF Pages
  <2> QED BY <1>15, <2>1, <2>3 DEF TimerFires, Elsewhere
<1>16. CASE InitialArrives
  <2> DEFINE call == page.calls["initial"]
             p    == CASE call.pc = "answered" ->
                       IF Ended(page, call.seen) THEN ApplyState(page, call.seen)
                       ELSE ScheduleDurableCheck(OpenStream(ApplyState(page, call.seen)))
                  [] call.pc = "missing" /\ ~page.disposed ->
                       [page EXCEPT !.terminal = TRUE, !.mode = "not-found"]
                  [] call.pc = "failed" /\ ~page.disposed -> [page EXCEPT !.mode = "error"]
                  [] OTHER -> page
  <2>1. call.seen \in Events
    BY DEF Pages, Calls, Callers
  <2>2. ApplyState(page, call.seen) \in Pages
    BY <2>1, ApplyStateType
  <2>3. OpenStream(ApplyState(page, call.seen)) \in Pages
    BY <2>2, StepTypes DEF Callers
  <2>4. ScheduleDurableCheck(OpenStream(ApplyState(page, call.seen))) \in Pages
    BY <2>3, StepTypes DEF Callers
  <2>5. /\ [page EXCEPT !.terminal = TRUE, !.mode = "not-found"] \in Pages
        /\ [page EXCEPT !.mode = "error"] \in Pages
    BY DEF Pages
  <2>6. p \in Pages
    BY <2>2, <2>4, <2>5
  <2>7. Follow(Answered(p, "initial"), streams) /\ UNCHANGED Elsewhere
    BY <1>16 DEF InitialArrives
  <2> HIDE DEF p
  <2>8. Answered(p, "initial") \in Pages
    BY <2>6, StepTypes DEF Callers
  <2> QED BY <2>7, <2>8, FollowType DEF Elsewhere
<1>17. CASE ReconnectArrives
  <2> DEFINE call == page.calls["reconnect"]
             idle == Answered(page, "reconnect")
             p    == CASE call.pc = "answered" ->
                       IF Ended(idle, call.seen) THEN ApplyState(idle, call.seen)
                       ELSE OpenStream(ApplyState(idle, call.seen))
                  [] call.pc = "failed" /\ ~Stopped(page) ->
                       [idle EXCEPT !.calls["reconnect"] = Timer]
                  [] OTHER -> idle
  <2>1. call.seen \in Events /\ idle \in Pages
    BY StepTypes DEF Pages, Calls, Callers
  <2> HIDE DEF idle
  <2>2. ApplyState(idle, call.seen) \in Pages
    BY <2>1, ApplyStateType
  <2>3. OpenStream(ApplyState(idle, call.seen)) \in Pages
    BY <2>2, StepTypes DEF Callers
  <2>4. Timer \in Calls
    BY DEF Timer, Idle, Calls, Event, Events, Outcomes, Working, Final, Untold
  <2>5. [idle EXCEPT !.calls["reconnect"] = Timer] \in Pages
    BY <2>1, <2>4 DEF Pages, Callers
  <2>6. p \in Pages
    BY <2>1, <2>2, <2>3, <2>5
  <2>7. Follow(p, streams) /\ UNCHANGED Elsewhere
    BY <1>17 DEF ReconnectArrives, idle
  <2> HIDE DEF p
  <2> QED BY <2>6, <2>7, FollowType DEF Elsewhere
<1>18. CASE DurableArrives
  <2> DEFINE call == page.calls["durable"]
             idle == Answered(page, "durable")
             p    == IF call.pc = "answered" THEN ApplyState(idle, call.seen) ELSE idle
  <2>1. call.seen \in Events /\ idle \in Pages
    BY StepTypes DEF Pages, Calls, Callers
  <2> HIDE DEF idle
  <2>2. p \in Pages
    BY <2>1, ApplyStateType
  <2>3. Follow(ScheduleDurableCheck(p), streams) /\ UNCHANGED Elsewhere
    BY <1>18 DEF DurableArrives, idle
  <2> HIDE DEF p
  <2>4. ScheduleDurableCheck(p) \in Pages
    BY <2>2, StepTypes DEF Callers
  <2> QED BY <2>3, <2>4, FollowType DEF Elsewhere
<1>19. CASE PressCancel
  BY <1>19 DEF PressCancel
<1>20. CASE ServeCancel
  BY <1>20 DEF ServeCancel, Statuses, Working, Final
<1>21. CASE CancelAnswered
  <2>1. Finish(page, "cancelled") \in Pages
    BY FinishType DEF Final
  <2> QED BY <1>21, <2>1, FollowType DEF CancelAnswered
<1>22. CASE TryAgain
  <2>1. Idle \in Calls /\ Sent \in Calls
    BY DEF Idle, Sent, Calls, Event, Events, Outcomes, Working, Final, Untold
  <2>2. FreshPage \in Pages
    BY <2>1 DEF FreshPage, Pages, NoSource
  <2> QED BY <1>22, <2>2 DEF TryAgain, Elsewhere
<1>23. CASE Unmount
  <2> DEFINE p == [page EXCEPT !.disposed = TRUE]
  <2>1. p \in Pages
    BY DEF Pages
  <2> HIDE DEF p
  <2>2. CloseStream(ClearTimers(p)) \in Pages
    BY <2>1, ClearTimersType, StepTypes DEF Callers
  <2>3. Follow(CloseStream(ClearTimers(p)), streams) /\ UNCHANGED Elsewhere
    BY <1>23 DEF Unmount, p
  <2> QED BY <2>2, <2>3, FollowType DEF Elsewhere
<1>24. CASE UNCHANGED vars
  BY <1>24 DEF vars
<1>25. ASSUME NEW c \in Callers, Arrives(c) PROVE TypeOK'
  BY <1>16, <1>17, <1>18, <1>25 DEF Arrives, Callers
<1> HIDE DEF TypeOK
<1> QED
  BY <1>1, <1>2, <1>3, <1>4, <1>5, <1>6, <1>7, <1>8, <1>9, <1>10, <1>11, <1>12, <1>13,
     <1>14, <1>15, <1>19, <1>20, <1>21, <1>22, <1>23, <1>24, <1>25 DEF Next

\* The variables of the page, of the streams and of the database keep their
\* types, whatever is lost, late or repeated.
THEOREM PageTypeCorrect == Spec => []TypeOK
BY InitType, StepType, PTL DEF Spec

-----------------------------------------------------------------------------
(* What the page shows is true, because everything it may still be told    *)
(* is: an outcome that is stored, under way or shown is the one of the     *)
(* row, and the row never changes its outcome.                             *)

True(e)      == e.status \in Final => e.status = row.status
AllTrue(q)   == \A i \in DOMAIN q : True(q[i])
Truthful(st) == AllTrue(st.queue) /\ AllTrue(st.wire)
Honest(p)    ==
    /\ p.mode \in Final => p.mode = row.status
    /\ p.reported \in Final => p.reported = row.status
    /\ \A c \in Callers : True(p.calls[c].seen)

Informed ==
    /\ \A s \in Sources : Truthful(streams[s])
    /\ Honest(page)
    /\ workers.unsent \in Final => workers.unsent = row.status
    /\ post \in {"committed", "yes"} => row.status = "cancelled"

\* A queue stays true when a true event enters it and when one leaves.
LEMMA QueueFacts ==
  ASSUME NEW q \in Seq(Events), AllTrue(q)
  PROVE  /\ \A e \in Events : True(e) => AllTrue(Append(q, e))
         /\ q # <<>> => True(Head(q)) /\ AllTrue(Tail(q))
BY DEF AllTrue, True

\* What is read from the row is true, and no call or stream begins with a lie.
LEMMA NewFacts ==
  /\ True(CurrentState) /\ AllTrue(Loaded)
  /\ True(Idle.seen) /\ True(Timer.seen) /\ True(Sent.seen)
  /\ \A wire : AllTrue(wire) => Truthful(Over(wire))
  /\ AllTrue(<<>>)
  /\ Truthful(Closed) /\ Truthful([Closed EXCEPT !.pc = "connecting"])
BY DEF CurrentState, Loaded, Event, True, AllTrue, Idle, Timer, Sent, Truthful, Over, Closed, Final

\* Clearing the timers tells nothing.
LEMMA ClearTimersHonest ==
  ASSUME NEW p \in Pages, Honest(p)
  PROVE  Honest(ClearTimers(p))
BY NewFacts DEF Honest, ClearTimers, Pages

\* The outcome of the row may be shown.
LEMMA FinishHonest ==
  ASSUME NEW p \in Pages, Honest(p), NEW s \in Final, s = row.status
  PROVE  Honest(Finish(p, s))
<1> DEFINE told == IF s = "cancelled" THEN p ELSE ReportStatus(p, s)
<1>1. told \in Pages /\ Honest(told)
  BY DEF Pages, ReportStatus, Honest
<1>2. ClearTimers(told) \in Pages /\ Honest(ClearTimers(told))
  BY <1>1, ClearTimersType, ClearTimersHonest
<1>3. CASE Stopped(p)
  BY <1>3 DEF Finish
<1>4. CASE ~Stopped(p)
  <2>1. Finish(p, s) = [CloseStream(ClearTimers(told)) EXCEPT
                !.terminal = TRUE, !.settled = TRUE, !.mode = s, !.status = s]
    BY <1>4 DEF Finish
  <2> HIDE DEF told
  <2> QED BY <1>2, <2>1 DEF Pages, CloseStream, Honest
<1> QED BY <1>3, <1>4

\* A true event may be applied.
LEMMA ApplyHonest ==
  ASSUME NEW p \in Pages, Honest(p), NEW e \in Events, True(e)
  PROVE  Honest(ApplyState(p, e)) /\ Honest(ApplyProgress(p, e))
<1>1. Honest(ApplyState(p, e))
  <2>1. CASE Stopped(p)
    BY <2>1 DEF ApplyState, Ended, Finish
  <2>2. CASE e.status \in Final
    BY <2>2, FinishHonest DEF ApplyState, Ended, True
  <2>3. CASE ~Ended(p, e)
    <3> DEFINE n == NextStatus(p, e.status)
    <3>1. n \notin Final
      BY <2>3 DEF NextStatus, Ended, Final
    <3>2. /\ ApplyState(p, e).mode = "live"
          /\ ApplyState(p, e).reported = n
          /\ ApplyState(p, e).calls = p.calls
      BY <2>3 DEF ApplyState, ReportStatus, Pages
    <3> QED BY <3>1, <3>2 DEF Honest, Final
  <2> QED BY <2>1, <2>2, <2>3 DEF Ended
<1>2. Honest(ApplyProgress(p, e))
  <2>1. CASE Stopped(p)
    BY <2>1 DEF ApplyProgress
  <2>2. CASE ~Stopped(p)
    <3>1. /\ ApplyProgress(p, e).mode = "live"
          /\ ApplyProgress(p, e).reported = "processing"
          /\ ApplyProgress(p, e).calls = p.calls
      BY <2>2 DEF ApplyProgress, ReportStatus, Pages
    <3> QED BY <3>1 DEF Honest, Final
  <2> QED BY <2>1, <2>2
<1> QED BY <1>1, <1>2

\* The other closures tell nothing.
LEMMA StepsHonest ==
  ASSUME NEW p \in Pages, Honest(p), NEW c \in Callers
  PROVE  /\ Honest(ScheduleDurableCheck(p)) /\ Honest(OpenStream(p))
         /\ Honest(CloseStream(p)) /\ Honest(ScheduleReconnect(p))
         /\ Honest(Ask(p, c)) /\ Honest(Answered(p, c))
<1> USE NewFacts DEF Honest, Pages
<1>1. Honest(ScheduleDurableCheck(p))
  BY DEF ScheduleDurableCheck
<1>2. Honest(OpenStream(p))
  BY DEF OpenStream
<1>3. Honest(CloseStream(p))
  BY DEF CloseStream
<1>4. Honest(ScheduleReconnect(p))
  BY DEF ScheduleReconnect, CloseStream
<1>5. Honest(Ask(p, c))
  BY DEF Ask
<1>6. Honest(Answered(p, c))
  BY DEF Answered
<1> QED BY <1>1, <1>2, <1>3, <1>4, <1>5, <1>6

\* A step of the page that follows an honest page, from truthful streams.
LEMMA FollowHonest ==
  ASSUME NEW p \in Pages, Honest(p), NEW current, Follow(p, current),
         \A s \in Sources : Truthful(current[s]),
         UNCHANGED row, Informed, UNCHANGED workers,
         post' \in {"committed", "yes"} => post \in {"committed", "yes"}
  PROVE  Informed'
<1>1. \A s \in Sources :
        streams'[s] \in {Closed, [Closed EXCEPT !.pc = "connecting"], current[s]}
  BY DEF Follow
<1>2. \A s \in Sources : Truthful(streams'[s])
  BY <1>1, NewFacts
<1>3. page' = p
  BY DEF Follow
<1> QED BY <1>2, <1>3 DEF Informed, Honest, Truthful, AllTrue, True

\* At first nothing false is known.
LEMMA InitInformed == Init => Informed
<1> SUFFICES ASSUME Init PROVE Informed
  OBVIOUS
<1>1. Honest(FreshPage)
  BY NewFacts DEF Honest, FreshPage, Final
<1> QED BY <1>1, NewFacts DEF Init, Informed, Final

\* No step makes what is known false.
LEMMA StepInformed == TypeOK /\ Informed /\ [Next]_vars => Informed'
<1> SUFFICES ASSUME TypeOK, Informed, [Next]_vars PROVE Informed'
  OBVIOUS
\* While the analysis works, nobody knows of an outcome.
<1>1. ASSUME row.status \notin Final, UNCHANGED <<streams, page>>,
             workers'.unsent \in Final => workers'.unsent = row'.status,
             post' \in {"committed", "yes"} => row'.status = "cancelled"
      PROVE  Informed'
  BY <1>1 DEF Informed, Honest, Truthful, AllTrue, True
<1>2. CASE Begin
  BY <1>1, <1>2 DEF Begin, Tab, TypeOK, Informed, Final
<1>3. CASE Advance
  BY <1>1, <1>3 DEF Advance, Tab, TypeOK, Informed, Final
<1>4. CASE GiveUp
  BY <1>1, <1>4 DEF GiveUp, Tab, TypeOK, Informed, Final
<1>5. ASSUME NEW s \in Final, Conclude(s) PROVE Informed'
  <2>1. row.status \notin Final /\ row'.status = s
    BY <1>5 DEF Conclude, Working, Final, TypeOK
  <2>2. workers'.unsent \in Final => workers'.unsent = s
    BY <1>5 DEF Conclude, TypeOK, Final
  <2>3. post \notin {"committed", "yes"}
    BY <2>1 DEF Informed, Final
  <2> QED BY <1>1, <1>5, <2>1, <2>2, <2>3 DEF Conclude, Tab
<1>6. ASSUME NEW e \in Events, True(e), Broadcast(e), UNCHANGED <<row, page>>,
             workers'.unsent \in {workers.unsent, "none"},
             post' \in {"committed", "yes"} => post \in {"committed", "yes"}
      PROVE  Informed'
  <2>1. ASSUME NEW s \in Sources PROVE Truthful(streams'[s])
    <3>1. streams[s] \in Streams /\ Truthful(streams[s])
      BY DEF TypeOK, Informed
    <3>2. AllTrue(Append(streams[s].queue, e))
      BY <1>6, <3>1, QueueFacts DEF Streams, Truthful
    <3>3. Truthful([streams[s] EXCEPT !.queue = Append(@, e)])
      BY <3>1, <3>2 DEF Truthful, Streams
    <3> QED BY <1>6, <3>1, <3>3 DEF Broadcast
  <2> QED BY <1>6, <2>1 DEF Informed, Honest, Truthful, AllTrue, True, Final
<1>7. CASE PublishProgress
  <2> PICK p \in Untold..row.progress : Broadcast(Event("progress", "processing", p))
    BY <1>7 DEF PublishProgress
  <2>1. Event("progress", "processing", p) \in Events
    BY LivePageAssumption DEF Event, Events, Outcomes, Working, Untold, TypeOK
  <2>2. True(Event("progress", "processing", p))
    BY DEF True, Event, Final
  <2> QED BY <1>6, <1>7, <2>1, <2>2 DEF PublishProgress, TypeOK
<1>8. CASE PublishOutcome
  <2> DEFINE e == Event(IF workers.unsent = "completed" THEN "investigation_result"
                          ELSE "cancelled", workers.unsent, Untold)
  <2>1. e \in Events /\ True(e)
    BY <1>8 DEF PublishOutcome, Event, Events, Outcomes, Final, TypeOK, True, Informed
  <2>2. Broadcast(e) \/ UNCHANGED streams
    BY <1>8 DEF PublishOutcome
  <2>3. /\ UNCHANGED <<row, page>> /\ workers'.unsent = "none"
        /\ post' \in {"committed", "yes"} => post \in {"committed", "yes"}
    BY <1>8 DEF PublishOutcome, TypeOK
  <2> HIDE DEF e
  <2>4. CASE Broadcast(e)
    BY <1>6, <2>1, <2>3, <2>4
  <2>5. CASE UNCHANGED streams
    BY <2>3, <2>5 DEF Informed, Honest, Truthful, AllTrue, True, Final
  <2> QED BY <2>2, <2>4, <2>5
\* A step of the server changes one stream.
<1>9. ASSUME NEW s \in Sources, NEW t, Truthful(t),
             streams' = [streams EXCEPT ![s] = t], UNCHANGED Server
      PROVE  Informed'
  <2>1. \A r \in Sources : Truthful(streams'[r])
    BY <1>9 DEF Informed, TypeOK
  <2> QED BY <1>9, <2>1 DEF Server, Informed, Honest, Truthful, AllTrue, True
<1>10. ASSUME NEW s \in Sources, Subscribe(s) PROVE Informed'
  <2>1. Truthful([streams[s] EXCEPT !.pc = "subscribed"])
    BY DEF Informed, TypeOK, Truthful, Streams
  <2>2. Truthful(Over(Loaded))
    BY NewFacts
  <2> QED BY <1>9, <1>10, <2>1, <2>2 DEF Subscribe
<1>11. ASSUME NEW s \in Sources, Snapshot(s) PROVE Informed'
  <2>1. Truthful([streams[s] EXCEPT !.pc = "live", !.min = row.progress, !.wire = Loaded])
    BY NewFacts DEF Informed, TypeOK, Truthful, Streams
  <2>2. Truthful(Over(Loaded))
    BY NewFacts
  <2> QED BY <1>9, <1>11, <2>1, <2>2 DEF Snapshot
<1>12. ASSUME NEW s \in Sources, Forward(s) PROVE Informed'
  <2> DEFINE st    == streams[s]
             event == Head(st.queue)
             rest  == [st EXCEPT !.queue = Tail(@)]
  <2>1. /\ st \in Streams /\ st.queue # <<>> /\ st.queue \in Seq(Events)
        /\ st.wire \in Seq(Events) /\ Truthful(st)
    BY <1>12 DEF Forward, Streams, TypeOK, Informed
  <2>2. event \in Events /\ True(event) /\ AllTrue(Tail(st.queue))
    BY <2>1, QueueFacts DEF Truthful
  <2>3. AllTrue(Append(st.wire, event))
    BY <2>1, <2>2, QueueFacts DEF Truthful
  <2>4. Truthful(rest)
    BY <2>1, <2>2 DEF Truthful, Streams
  <2>5. Truthful([rest EXCEPT !.min = Most(@, event.progress), !.wire = Append(@, event)])
    BY <2>1, <2>2, <2>3 DEF Truthful, Streams
  <2>6. Truthful(Over(Append(st.wire, event)))
    BY <2>3, NewFacts
  <2>7. \/ streams' = [streams EXCEPT ![s] = rest]
        \/ streams' = [streams EXCEPT ![s] =
             [rest EXCEPT !.min = Most(@, event.progress), !.wire = Append(@, event)]]
        \/ streams' = [streams EXCEPT ![s] = Over(Append(st.wire, event))]
    BY <1>12 DEF Forward
  <2>8. UNCHANGED Server
    BY <1>12 DEF Forward
  <2> HIDE DEF st, event, rest
  <2> QED BY <1>9, <2>4, <2>5, <2>6, <2>7, <2>8
<1>13. ASSUME NEW s \in Sources, Break(s) PROVE Informed'
  <2>1. Truthful(Over(<<>>)) /\ Truthful(Over(streams[s].wire))
    BY NewFacts DEF Informed, Truthful
  <2> QED BY <1>9, <1>13, <2>1 DEF Break
<1>14. page \in Pages /\ Honest(page) /\ \A s \in Sources : Truthful(streams[s])
  BY DEF TypeOK, Informed
\* A step of the page: what it follows is honest.
<1>15. ASSUME NEW p \in Pages, Honest(p), Follow(p, streams), UNCHANGED Elsewhere
       PROVE  Informed'
  BY <1>14, <1>15, FollowHonest DEF Elsewhere
<1>16. ASSUME NEW s \in Sources, Deliver(s) PROVE Informed'
  <2> DEFINE event == Head(streams[s].wire)
             p     == CASE event.event = "state" ->
                             IF Ended(page, event) THEN CloseStream(ApplyState(page, event))
                             ELSE ApplyState(page, event)
                        [] event.event = "progress" -> ApplyProgress(page, event)
                        [] OTHER -> Finish(page, event.status)
             now   == [streams EXCEPT ![s].wire = Tail(@)]
  <2>1. /\ streams[s].wire \in Seq(Events) /\ streams[s].wire # <<>>
        /\ AllTrue(streams[s].wire) /\ AllTrue(streams[s].queue)
    BY <1>14, <1>16 DEF Deliver, Streams, TypeOK, Truthful
  <2>2. event \in Events /\ True(event) /\ AllTrue(Tail(streams[s].wire))
    BY <2>1, QueueFacts
  <2>3. \A r \in Sources : Truthful(now[r])
    BY <1>14, <2>1, <2>2 DEF TypeOK, Streams, Truthful
  <2>4. /\ ApplyState(page, event) \in Pages /\ Honest(ApplyState(page, event))
        /\ ApplyProgress(page, event) \in Pages /\ Honest(ApplyProgress(page, event))
    BY <1>14, <2>2, ApplyStateType, ApplyProgressType, ApplyHonest
  <2>5. /\ CloseStream(ApplyState(page, event)) \in Pages
        /\ Honest(CloseStream(ApplyState(page, event)))
    BY <2>4, StepTypes, StepsHonest DEF Callers
  <2>6. event.event \notin {"state", "progress"} =>
          /\ Finish(page, event.status) \in Pages
          /\ Honest(Finish(page, event.status))
    BY <1>14, <2>2, FinishType, FinishHonest DEF Events, Outcomes, True
  <2>7. p \in Pages /\ Honest(p)
    BY <2>4, <2>5, <2>6
  <2>8. Follow(p, now) /\ UNCHANGED Elsewhere
    BY <1>16 DEF Deliver
  <2> HIDE DEF p, now
  <2> QED BY <2>3, <2>7, <2>8, FollowHonest DEF Elsewhere
<1>17. ASSUME NEW s \in Sources, StreamError(s) PROVE Informed'
  <2>1. ScheduleReconnect(page) \in Pages /\ Honest(ScheduleReconnect(page))
    BY <1>14, StepTypes, StepsHonest DEF Callers
  <2> QED BY <1>15, <1>17, <2>1 DEF StreamError
\* A step of the page that leaves its streams alone.
<1>18. ASSUME Honest(page'), UNCHANGED <<streams, Elsewhere>> PROVE Informed'
  BY <1>18 DEF Elsewhere, Informed, Honest, Truthful, AllTrue, True
<1>19. ASSUME NEW c \in Callers, Serve(c) PROVE Informed'
  <2>1. Honest(page)
    BY <1>14
  <2>2. page' = [page EXCEPT !.calls[c] =
         IF row.status = "missing" THEN [Idle EXCEPT !.pc = "missing"]
         ELSE [pc |-> "answered", seen |-> CurrentState]] /\ UNCHANGED row
    BY <1>19 DEF Serve, Elsewhere
  <2>3. Honest(page')
    BY <1>14, <2>2, NewFacts DEF Honest, Pages, True, Idle
  <2> QED BY <1>18, <1>19, <2>2, <2>3 DEF Serve, Honest, True
<1>20. ASSUME NEW c \in Callers, FailRequest(c) PROVE Informed'
  <2>1. Honest(page')
    BY <1>14, <1>20, NewFacts DEF FailRequest, Elsewhere, Honest, Pages, True, Idle
  <2> QED BY <1>18, <1>20, <2>1 DEF FailRequest
<1>21. ASSUME NEW c \in Callers, TimerFires(c) PROVE Informed'
  <2>1. Honest(Ask(page, c)) /\ Honest([page EXCEPT !.calls[c] = Idle])
    <3>1. Honest(Ask(page, c))
      BY <1>14, StepsHonest
    <3>2. Honest([page EXCEPT !.calls[c] = Idle])
      BY <1>14, NewFacts DEF Honest, Pages
    <3> QED BY <3>1, <3>2
  <2>2. Honest(page')
    BY <1>21, <2>1 DEF TimerFires
  <2> QED BY <1>18, <1>21, <2>2 DEF TimerFires
<1>22. CASE InitialArrives
  <2> DEFINE call == page.calls["initial"]
             p    == CASE call.pc = "answered" ->
                       IF Ended(page, call.seen) THEN ApplyState(page, call.seen)
                       ELSE ScheduleDurableCheck(OpenStream(ApplyState(page, call.seen)))
                  [] call.pc = "missing" /\ ~page.disposed ->
                       [page EXCEPT !.terminal = TRUE, !.mode = "not-found"]
                  [] call.pc = "failed" /\ ~page.disposed -> [page EXCEPT !.mode = "error"]
                  [] OTHER -> page
  <2> DEFINE Good(q) == q \in Pages /\ Honest(q)
  <2>1. call.seen \in Events /\ True(call.seen)
    BY <1>14 DEF Pages, Calls, Callers, Honest
  <2>2. Good(ApplyState(page, call.seen))
    BY <1>14, <2>1, ApplyStateType, ApplyHonest
  <2>3. Good(OpenStream(ApplyState(page, call.seen)))
    BY <2>2, StepTypes, StepsHonest DEF Callers
  <2>4. Good(ScheduleDurableCheck(OpenStream(ApplyState(page, call.seen))))
    BY <2>3, StepTypes, StepsHonest DEF Callers
  <2>5. /\ Good([page EXCEPT !.terminal = TRUE, !.mode = "not-found"])
        /\ Good([page EXCEPT !.mode = "error"])
    BY <1>14 DEF Pages, Honest, Final
  <2>6. Good(p)
    BY <1>14, <2>2, <2>4, <2>5
  <2>7. Follow(Answered(p, "initial"), streams) /\ UNCHANGED Elsewhere
    BY <1>22 DEF InitialArrives
  <2> HIDE DEF p
  <2>8. Good(Answered(p, "initial"))
    BY <2>6, StepTypes, StepsHonest DEF Callers
  <2> QED BY <1>15, <2>7, <2>8
<1>23. CASE ReconnectArrives
  <2> DEFINE call == page.calls["reconnect"]
             idle == Answered(page, "reconnect")
             p    == CASE call.pc = "answered" ->
                       IF Ended(idle, call.seen) THEN ApplyState(idle, call.seen)
                       ELSE OpenStream(ApplyState(idle, call.seen))
                  [] call.pc = "failed" /\ ~Stopped(page) ->
                       [idle EXCEPT !.calls["reconnect"] = Timer]
                  [] OTHER -> idle
  <2> DEFINE Good(q) == q \in Pages /\ Honest(q)
  <2>1. call.seen \in Events /\ True(call.seen) /\ Good(idle)
    BY <1>14, StepTypes, StepsHonest DEF Pages, Calls, Callers, Honest
  <2> HIDE DEF idle
  <2>2. Good(ApplyState(idle, call.seen))
    BY <2>1, ApplyStateType, ApplyHonest
  <2>3. Good(OpenStream(ApplyState(idle, call.seen)))
    BY <2>2, StepTypes, StepsHonest DEF Callers
  <2>4. Good([idle EXCEPT !.calls["reconnect"] = Timer])
    <3>1. Timer \in Calls
      BY LivePageAssumption DEF Timer, Idle, Calls, Event, Events, Outcomes, Working, Final, Untold
    <3> QED BY <2>1, <3>1, NewFacts DEF Pages, Callers, Honest
  <2>5. Good(p)
    BY <2>1, <2>2, <2>3, <2>4
  <2>6. Follow(p, streams) /\ UNCHANGED Elsewhere
    BY <1>23 DEF ReconnectArrives, idle
  <2> HIDE DEF p
  <2> QED BY <1>15, <2>5, <2>6
<1>24. CASE DurableArrives
  <2> DEFINE call == page.calls["durable"]
             idle == Answered(page, "durable")
             p    == IF call.pc = "answered" THEN ApplyState(idle, call.seen) ELSE idle
  <2>1. call.seen \in Events /\ True(call.seen) /\ idle \in Pages /\ Honest(idle)
    BY <1>14, StepTypes, StepsHonest DEF Pages, Calls, Callers, Honest
  <2> HIDE DEF idle
  <2>2. p \in Pages /\ Honest(p)
    BY <2>1, ApplyStateType, ApplyHonest
  <2>3. Follow(ScheduleDurableCheck(p), streams) /\ UNCHANGED Elsewhere
    BY <1>24 DEF DurableArrives, idle
  <2> HIDE DEF p
  <2>4. ScheduleDurableCheck(p) \in Pages /\ Honest(ScheduleDurableCheck(p))
    BY <2>2, StepTypes, StepsHonest DEF Callers
  <2> QED BY <1>15, <2>3, <2>4
<1>25. CASE PressCancel
  BY <1>14, <1>25 DEF PressCancel, Informed, Honest, Truthful, AllTrue, True
<1>26. CASE ServeCancel
  <2>1. CASE row.status \in Working
    <3>1. row.status \notin Final /\ post' = "committed" /\ row'.status = "cancelled"
      BY <1>26, <2>1 DEF ServeCancel, Working, Final, TypeOK
    <3>2. workers'.unsent = "cancelled"
      BY <1>26, <2>1 DEF ServeCancel, TypeOK
    <3> QED BY <1>1, <1>26, <3>1, <3>2 DEF ServeCancel
  <2>2. CASE row.status \notin Working
    <3>1. /\ UNCHANGED <<row, workers, streams, page>>
          /\ post' = "yes" => row.status = "cancelled"
          /\ post' \in {"yes", "no"}
      BY <1>26, <2>2 DEF ServeCancel
    <3> QED BY <3>1 DEF Informed, Honest, Truthful, AllTrue, True
  <2> QED BY <2>1, <2>2
<1>27. CASE CancelAnswered
  <2>1. CASE post = "yes" /\ post' = "done" /\ Follow(Finish(page, "cancelled"), streams)
    <3>1. row.status = "cancelled"
      BY <2>1 DEF Informed
    <3>2. Finish(page, "cancelled") \in Pages /\ Honest(Finish(page, "cancelled"))
      BY <1>14, <3>1, FinishType, FinishHonest DEF Final
    <3> QED BY <1>14, <1>27, <2>1, <3>2, FollowHonest DEF CancelAnswered
  <2>2. CASE post' = "idle" /\ UNCHANGED <<streams, page>>
    BY <1>27, <2>2 DEF CancelAnswered, Informed, Honest, Truthful, AllTrue, True
  <2> QED BY <1>27, <2>1, <2>2 DEF CancelAnswered
<1>28. CASE TryAgain
  <2>1. Honest(FreshPage)
    BY NewFacts DEF Honest, FreshPage, Final
  <2>2. Honest(page')
    BY <1>28, <2>1 DEF TryAgain
  <2> QED BY <1>18, <1>28, <2>2 DEF TryAgain
<1>29. CASE Unmount
  <2> DEFINE p == [page EXCEPT !.disposed = TRUE]
  <2>1. p \in Pages /\ Honest(p)
    BY <1>14 DEF Pages, Honest
  <2> HIDE DEF p
  <2>2. ClearTimers(p) \in Pages /\ Honest(ClearTimers(p))
    BY <2>1, ClearTimersType, ClearTimersHonest
  <2>3. CloseStream(ClearTimers(p)) \in Pages /\ Honest(CloseStream(ClearTimers(p)))
    BY <2>2, StepTypes, StepsHonest DEF Callers
  <2>4. Follow(CloseStream(ClearTimers(p)), streams) /\ UNCHANGED Elsewhere
    BY <1>29 DEF Unmount, p
  <2> QED BY <1>15, <2>3, <2>4
<1>30. CASE UNCHANGED vars
  BY <1>30 DEF vars, Informed, Honest, Truthful, AllTrue, True
<1>31. ASSUME NEW c \in Callers, Arrives(c) PROVE Informed'
  BY <1>22, <1>23, <1>24, <1>31 DEF Arrives, Callers
<1> QED
  BY <1>2, <1>3, <1>4, <1>5, <1>7, <1>8, <1>10, <1>11, <1>12, <1>13, <1>16, <1>17, <1>19,
     <1>20, <1>21, <1>25, <1>26, <1>27, <1>28, <1>29, <1>30, <1>31 DEF Next

\* A page that shows an outcome, or told the history list of one, shows the
\* one the database holds.
THEOREM ShownOutcomeIsTrue == Spec => []ShownIsTrue
<1>1. Informed => ShownIsTrue
  BY DEF Informed, Honest, ShownIsTrue
<1> QED BY <1>1, PageTypeCorrect, InitInformed, StepInformed, PTL DEF Spec

-----------------------------------------------------------------------------
(* The page at rest between two callbacks.                                 *)

\* The detail requests of a page that are out, or whose answer is on the way.
Out(p) == {c \in Callers : p.calls[c].pc \in {"sent", "answered", "missing", "failed"}}

\* requestInFlight is up exactly while the one request is out.
OneOut(p) ==
    /\ \A c, d \in Out(p) : c = d
    /\ p.inFlight <=> Out(p) # {}

\* A page that has stopped holds no event source and no timer.
Quiet(p) ==
    Stopped(p) => p.handle = NoSource /\ \A c \in Callers : p.calls[c].pc # "timer"

\* Until its first answer, or without one, a page has only its initial request;
\* after it that request is over for good.
Starting(p) ==
    /\ p.calls["initial"].pc # "timer"
    /\ p.calls["initial"].pc # "idle" => p.mode = "loading"
    /\ p.mode \in {"loading", "error", "not-found"} =>
          /\ p.handle = NoSource
          /\ p.calls["reconnect"].pc = "idle" /\ p.calls["durable"].pc = "idle"

\* A live page has its periodic check, and an event source or a reconnection.
Watching(p) ==
    p.mode = "live" /\ ~p.disposed =>
        /\ p.calls["durable"].pc # "idle"
        /\ (p.handle = NoSource) <=> (p.calls["reconnect"].pc # "idle")

\* What the page shows goes with what it has told and with its flags.
Told(p) ==
    /\ p.terminal <=> p.mode \in Final \cup {"not-found"}
    /\ p.settled <=> p.mode \in Final
    /\ p.mode = "live" => p.status \in Working
    /\ p.mode \in {"live", "completed", "failed"} => p.reported = p.status

Tidy(p) == OneOut(p) /\ Quiet(p) /\ Starting(p) /\ Watching(p) /\ Told(p)

\* The event source of the page is the only one that is open.
OneSource ==
    \A s \in Sources : IF s = page.handle THEN streams[s].pc # "closed" ELSE streams[s] = Closed

\* A page asks to cancel only when it has seen the analysis.
CancelAfterLive == post # "idle" => page.mode \in {"live"} \cup Final

PageInv == TypeOK /\ Tidy(page) /\ OneSource /\ CancelAfterLive

\* What an outcome leaves of a page that has not stopped.
LEMMA FinishFields ==
  ASSUME NEW p \in Pages, NEW s \in Final, ~Stopped(p)
  PROVE  LET q == Finish(p, s)
         IN  /\ q.mode = s /\ q.status = s /\ q.settled /\ q.terminal
             /\ q.disposed = p.disposed /\ q.inFlight = p.inFlight
             /\ q.handle = NoSource /\ q.high = p.high
             /\ q.reported = IF s = "cancelled" THEN p.reported ELSE s
             /\ \A c \in Callers :
                  q.calls[c].pc = IF p.calls[c].pc = "timer" THEN "idle" ELSE p.calls[c].pc
<1> DEFINE told == IF s = "cancelled" THEN p ELSE ReportStatus(p, s)
           cs   == [c \in Callers |-> IF told.calls[c].pc = "timer" THEN Idle ELSE told.calls[c]]
           r    == IF s = "cancelled" THEN p.reported ELSE s
<1>1. told = [p EXCEPT !.reported = r]
  BY DEF ReportStatus, Pages
<1>2. ClearTimers(told) = [p EXCEPT !.reported = r, !.calls = cs]
  BY <1>1 DEF ClearTimers, Pages
<1>3. Finish(p, s) = [CloseStream(ClearTimers(told)) EXCEPT
                !.terminal = TRUE, !.settled = TRUE, !.mode = s, !.status = s]
  BY DEF Finish
<1>4. \A c \in Callers :
        cs[c].pc = IF p.calls[c].pc = "timer" THEN "idle" ELSE p.calls[c].pc
  BY <1>1 DEF Idle, Pages
<1> HIDE DEF told, cs, r
<1>5. Finish(p, s) = [p EXCEPT !.reported = r, !.calls = cs, !.handle = NoSource,
                !.terminal = TRUE, !.settled = TRUE, !.mode = s, !.status = s]
  BY <1>2, <1>3 DEF CloseStream, Pages
<1> QED BY <1>4, <1>5 DEF Pages, r

\* What a state that is no outcome leaves of such a page.
LEMMA ApplyFields ==
  ASSUME NEW p \in Pages, NEW e \in Events, ~Ended(p, e)
  PROVE  \E n \in Working, h \in 0..Top :
           /\ ApplyState(p, e) = [p EXCEPT !.reported = n, !.high = h, !.mode = "live",
                                           !.status = n]
           /\ h >= p.high
           /\ p.reported = "processing" => n = "processing"
<1> DEFINE n == NextStatus(p, e.status)
           h == Most(p.high, Least(Top, e.progress))
<1>1. n \in Working
  BY DEF Ended, NextStatus, Events, Outcomes, Working
<1>2. h \in 0..Top /\ h >= p.high
  BY LivePageAssumption DEF Pages, Events, Outcomes, Most, Least, Untold
<1>3. ApplyState(p, e) = [p EXCEPT !.reported = n, !.high = h, !.mode = "live", !.status = n]
  BY DEF ApplyState, ReportStatus, Pages
<1>4. p.reported = "processing" => n = "processing"
  BY DEF NextStatus, Events, Outcomes, Working, Ended
<1> HIDE DEF n, h
<1> QED BY <1>1, <1>2, <1>3, <1>4

\* A page that has stopped is not changed by what it hears.
LEMMA StoppedStays ==
  ASSUME NEW p, Stopped(p)
  PROVE  /\ \A e : ApplyState(p, e) = p /\ ApplyProgress(p, e) = p
         /\ \A s : Finish(p, s) = p
         /\ OpenStream(p) = p /\ ScheduleDurableCheck(p) = p /\ ScheduleReconnect(p) = p
  BY DEF ApplyState, Ended, Finish, ApplyProgress, OpenStream, ScheduleDurableCheck,
         ScheduleReconnect

\* What is open follows the page.
LEMMA FollowOpens ==
  ASSUME NEW p, NEW current, OneSource, Follow(p, current),
         page.handle \in {NoSource} \cup Sources,
         \A s \in Sources : \/ current[s] = streams[s]
                            \/ s = page.handle /\ current[s].pc # "closed"
  PROVE  OneSource' /\ page' = p
  BY DEF OneSource, Follow, Closed

\* An outcome leaves a page that has had its answer tidy.
LEMMA FinishTidy ==
  ASSUME NEW p \in Pages, Tidy(p), NEW s \in Final, p.mode \in {"live"} \cup Final
  PROVE  Tidy(Finish(p, s)) /\ Finish(p, s).mode \in {"live"} \cup Final
<1>1. CASE Stopped(p)
  BY <1>1, StoppedStays
<1>2. CASE ~Stopped(p)
  <2> DEFINE q == Finish(p, s)
  <2>1. /\ q.mode = s /\ q.status = s /\ q.settled /\ q.terminal
        /\ q.disposed = p.disposed /\ q.inFlight = p.inFlight
        /\ q.handle = NoSource
        /\ q.reported = IF s = "cancelled" THEN p.reported ELSE s
        /\ \A c \in Callers :
             q.calls[c].pc = IF p.calls[c].pc = "timer" THEN "idle" ELSE p.calls[c].pc
    BY <1>2, FinishFields
  <2> HIDE DEF q
  <2>2. Out(q) = Out(p)
    BY <2>1 DEF Out
  <2>3. OneOut(q)
    BY <2>1, <2>2 DEF Tidy, OneOut
  <2>4. Quiet(q)
    BY <2>1 DEF Quiet
  <2>5. Starting(q)
    BY <2>1 DEF Tidy, Starting, Final, Callers
  <2>6. Watching(q) /\ Told(q)
    BY <2>1 DEF Watching, Told, Final
  <2> QED BY <2>1, <2>3, <2>4, <2>5, <2>6 DEF Tidy, q
<1> QED BY <1>1, <1>2

\* The invariant holds at first.
LEMMA InitPage == Init => PageInv
<1> SUFFICES ASSUME Init PROVE PageInv
  OBVIOUS
<1>1. TypeOK
  BY InitType
<1>2. FreshPage.calls = [c \in Callers |-> IF c = "initial" THEN Sent ELSE Idle]
  BY DEF FreshPage
<1>3. Tidy(FreshPage)
  BY <1>2 DEF FreshPage, Tidy, OneOut, Out, Quiet, Stopped, Starting, Watching, Told, Callers,
         Sent, Idle, Final, NoSource
<1>4. OneSource /\ CancelAfterLive
  BY DEF Init, FreshPage, OneSource, CancelAfterLive, Sources, NoSource
<1> QED BY <1>1, <1>3, <1>4 DEF Init, PageInv

\* Nothing arrives at a page but a live one that has not stopped.
LEMMA OnlyLiveHears ==
  ASSUME PageInv, NEW s \in Sources, streams[s].pc # "closed" \/ streams[s].wire # <<>>
  PROVE  page.handle = s /\ page.mode = "live" /\ ~Stopped(page)
<1>1. page.handle = s
  BY DEF PageInv, OneSource, Closed
<1>2. s # NoSource /\ ~Stopped(page)
  BY <1>1 DEF PageInv, Tidy, Quiet, Sources, NoSource
<1>3. page.mode \notin {"loading", "error", "not-found"}
  BY <1>1, <1>2 DEF PageInv, Tidy, Starting
<1>4. page.mode \notin Final
  BY <1>2 DEF PageInv, Tidy, Told, Stopped
<1> QED BY <1>1, <1>2, <1>3, <1>4 DEF PageInv, TypeOK, Pages

\* What a tidy page hears from its event source leaves it tidy.
LEMMA HearsTidy ==
  ASSUME PageInv, page.mode = "live", ~Stopped(page), page.handle # NoSource,
         NEW e \in Events
  PROVE  /\ e.event = "state" /\ ~Ended(page, e) => Tidy(ApplyState(page, e))
         /\ e.event = "state" /\ Ended(page, e) =>
              CloseStream(ApplyState(page, e)) = Finish(page, e.status) /\ e.status \in Final
         /\ Tidy(ApplyProgress(page, e))
         /\ Tidy(ScheduleReconnect(page))
<1> DEFINE Same(q) == /\ q.calls = page.calls /\ q.inFlight = page.inFlight
                      /\ q.handle = page.handle /\ q.disposed = page.disposed
                      /\ q.terminal = page.terminal /\ q.settled = page.settled
                      /\ q.mode = "live" /\ q.status \in Working /\ q.reported = q.status
<1>0. page \in Pages /\ Tidy(page) /\ page.reported = page.status
  BY DEF PageInv, TypeOK, Tidy, Told
<1>1. ASSUME NEW q, Same(q) PROVE Tidy(q)
  <2>1. Out(q) = Out(page)
    BY <1>1 DEF Out
  <2>2. OneOut(q) /\ Quiet(q) /\ Starting(q)
    BY <1>0, <1>1, <2>1 DEF Tidy, OneOut, Quiet, Starting, Stopped
  <2>3. Watching(q)
    BY <1>0, <1>1 DEF Tidy, Watching
  <2>4. Told(q)
    BY <1>0, <1>1 DEF Tidy, Told, Working, Final
  <2> QED BY <2>2, <2>3, <2>4 DEF Tidy
<1>2. ASSUME e.event = "state", ~Ended(page, e) PROVE Tidy(ApplyState(page, e))
  <2> PICK n \in Working, h \in 0..Top :
        /\ ApplyState(page, e) = [page EXCEPT !.reported = n, !.high = h, !.mode = "live",
                                              !.status = n]
        /\ h >= page.high
        /\ page.reported = "processing" => n = "processing"
    BY <1>0, <1>2, ApplyFields
  <2>1. Same(ApplyState(page, e))
    BY <1>0 DEF Pages
  <2> QED BY <1>1, <2>1
<1>3. ASSUME e.event = "state", Ended(page, e)
      PROVE  CloseStream(ApplyState(page, e)) = Finish(page, e.status) /\ e.status \in Final
  <2>1. e.status \in Final /\ ApplyState(page, e) = Finish(page, e.status)
    BY <1>3 DEF Ended, ApplyState
  <2>2. Finish(page, e.status) \in Pages /\ Finish(page, e.status).handle = NoSource
    BY <1>0, <2>1, FinishFields, FinishType
  <2> QED BY <2>1, <2>2 DEF CloseStream, Pages
<1>4. Tidy(ApplyProgress(page, e))
  <2> DEFINE h == IF e.progress = Untold THEN page.high
                  ELSE Most(page.high, Least(Top, e.progress))
  <2>1. ApplyProgress(page, e) = [page EXCEPT !.reported = "processing", !.high = h,
               !.mode = "live",
               !.status = IF page.status = "pending" THEN "processing" ELSE page.status]
    BY <1>0 DEF ApplyProgress, ReportStatus, Pages
  <2>2. page.status \in Working
    BY <1>0 DEF Tidy, Told
  <2> HIDE DEF h
  <2>3. Same(ApplyProgress(page, e))
    BY <1>0, <2>1, <2>2 DEF Pages, Working
  <2> QED BY <1>1, <2>3
<1>5. Tidy(ScheduleReconnect(page))
  <2> DEFINE q == ScheduleReconnect(page)
  <2>1. q = [page EXCEPT !.handle = NoSource, !.calls["reconnect"] = Timer]
    BY <1>0 DEF ScheduleReconnect, CloseStream, Pages
  <2>2. page.calls["reconnect"].pc = "idle" /\ page.calls["durable"].pc # "idle"
    BY <1>0 DEF Tidy, Watching, Stopped
  <2>3. /\ q.handle = NoSource /\ q.disposed = page.disposed /\ q.terminal = page.terminal
        /\ q.settled = page.settled /\ q.mode = "live" /\ q.status = page.status
        /\ q.reported = page.reported /\ q.inFlight = page.inFlight
        /\ q.calls["reconnect"].pc = "timer"
        /\ \A c \in Callers \ {"reconnect"} : q.calls[c] = page.calls[c]
    BY <1>0, <2>1 DEF Pages, Callers, Timer, Idle
  <2> HIDE DEF q
  <2>4. Out(q) = Out(page)
    BY <2>2, <2>3 DEF Out
  <2>5. OneOut(q) /\ Quiet(q) /\ Starting(q)
    BY <1>0, <2>3, <2>4 DEF Tidy, OneOut, Quiet, Starting, Stopped, Callers
  <2>6. Watching(q) /\ Told(q)
    BY <1>0, <2>2, <2>3 DEF Tidy, Watching, Told, Callers
  <2> QED BY <2>5, <2>6 DEF Tidy, q
<1> QED BY <1>2, <1>3, <1>4, <1>5

\* A request that goes out, is served or fails, and a timer that runs out, leave
\* the page tidy.
LEMMA CallTidy ==
  ASSUME PageInv, NEW c \in Callers
  PROVE  /\ page.calls[c].pc = "timer" => Tidy(Ask(page, c)) /\ ~Stopped(page)
         /\ \A t : /\ page.calls[c].pc \in {"sent", "answered"}
                   /\ t.pc \in {"answered", "missing", "failed"}
                   => Tidy([page EXCEPT !.calls[c] = t])
<1>0. page \in Pages /\ Tidy(page)
  BY DEF PageInv, TypeOK
<1> DEFINE Same(q) == /\ q.handle = page.handle /\ q.disposed = page.disposed
                      /\ q.terminal = page.terminal /\ q.settled = page.settled
                      /\ q.mode = page.mode /\ q.status = page.status
                      /\ q.reported = page.reported
                      /\ \A d \in Callers \ {c} : q.calls[d] = page.calls[d]
                      /\ q.calls[c].pc \in {"sent", "answered", "missing", "failed"}
<1>1. ASSUME NEW q, Same(q), page.calls[c].pc # "idle" PROVE Quiet(q) /\ Starting(q) /\ Watching(q) /\ Told(q)
  <2>1. Quiet(q) /\ Told(q)
    BY <1>0, <1>1 DEF Tidy, Quiet, Stopped, Told
  <2>2. Starting(q)
    BY <1>0, <1>1 DEF Tidy, Starting, Callers
  <2>3. Watching(q)
    BY <1>0, <1>1 DEF Tidy, Watching, Callers
  <2> QED BY <2>1, <2>2, <2>3
<1>2. ASSUME page.calls[c].pc = "timer" PROVE Tidy(Ask(page, c)) /\ ~Stopped(page)
  <2>1. ~Stopped(page)
    BY <1>0, <1>2 DEF Tidy, Quiet
  <2>2. CASE page.inFlight
    BY <1>0, <2>1, <2>2 DEF Ask
  <2>3. CASE ~page.inFlight
    <3> DEFINE q == Ask(page, c)
    <3>1. Same(q) /\ q.inFlight /\ q.calls[c].pc = "sent"
      BY <1>0, <2>3 DEF Ask, Sent, Idle, Pages
    <3> HIDE DEF q
    <3>2. Out(page) = {}
      BY <1>0, <2>3 DEF Tidy, OneOut
    <3>3. Out(q) = {c}
      BY <3>1, <3>2 DEF Out
    <3>4. OneOut(q)
      BY <3>1, <3>3 DEF OneOut
    <3> QED BY <1>1, <1>2, <2>1, <3>1, <3>4 DEF Tidy, q
  <2> QED BY <2>1, <2>2, <2>3
<1>3. ASSUME NEW t, page.calls[c].pc \in {"sent", "answered"},
             t.pc \in {"answered", "missing", "failed"}
      PROVE  Tidy([page EXCEPT !.calls[c] = t])
  <2> DEFINE q == [page EXCEPT !.calls[c] = t]
  <2>1. Same(q) /\ q.inFlight = page.inFlight
    BY <1>0, <1>3 DEF Pages
  <2> HIDE DEF q
  <2>2. Out(q) = Out(page)
    BY <1>3, <2>1 DEF Out
  <2>3. OneOut(q)
    BY <1>0, <2>1, <2>2 DEF Tidy, OneOut
  <2> QED BY <1>1, <1>3, <2>1, <2>3 DEF Tidy, q
<1> QED BY <1>2, <1>3

\* The initial answer makes a page that waits for it live, ends it, or leaves it
\* with nothing.
LEMMA InitialTidy ==
  ASSUME PageInv, InitialArrives
  PROVE  Tidy(page') /\ OneSource' /\ CancelAfterLive'
<1> DEFINE call == page.calls["initial"]
           p    == CASE call.pc = "answered" ->
                          IF Ended(page, call.seen) THEN ApplyState(page, call.seen)
                          ELSE ScheduleDurableCheck(OpenStream(ApplyState(page, call.seen)))
                     [] call.pc = "missing" /\ ~page.disposed ->
                          [page EXCEPT !.terminal = TRUE, !.mode = "not-found"]
                     [] call.pc = "failed" /\ ~page.disposed -> [page EXCEPT !.mode = "error"]
                     [] OTHER -> page
           q    == Answered(p, "initial")
<1>1. /\ page \in Pages /\ Tidy(page) /\ call \in Calls /\ call.seen \in Events
      /\ call.pc \in {"answered", "missing", "failed"}
      /\ Follow(q, streams) /\ UNCHANGED post
  BY DEF PageInv, TypeOK, Pages, Calls, Callers, InitialArrives, Elsewhere
<1>2. /\ page.mode = "loading" /\ ~page.terminal /\ ~page.settled
      /\ page.handle = NoSource
      /\ page.calls["reconnect"].pc = "idle" /\ page.calls["durable"].pc = "idle"
  BY <1>1 DEF Tidy, Starting, Told, Final
<1>3. OneSource' /\ page' = q
  BY <1>1, FollowOpens DEF PageInv, Pages
<1>4. post = "idle"
  BY <1>2 DEF PageInv, CancelAfterLive, Final
\* What holds of the request when it is over.
<1>5. ASSUME p \in Pages, p.calls["initial"] = call,
             \A c \in {"reconnect", "durable"} : p.calls[c].pc \in {"idle", "timer"}
      PROVE  /\ q.handle = p.handle /\ q.disposed = p.disposed /\ q.terminal = p.terminal
             /\ q.settled = p.settled /\ q.mode = p.mode /\ q.status = p.status
             /\ q.reported = p.reported
             /\ q.calls["initial"].pc = "idle"
             /\ \A c \in {"reconnect", "durable"} : q.calls[c] = p.calls[c]
             /\ OneOut(q)
  <2> HIDE DEF p
  <2>1. q = [p EXCEPT !.inFlight = FALSE, !.calls["initial"] = Idle]
    BY DEF Answered
  <2> HIDE DEF q
  <2>2. /\ q.calls["initial"].pc = "idle"
        /\ \A c \in {"reconnect", "durable"} : q.calls[c] = p.calls[c]
        /\ ~q.inFlight
    BY <1>5, <2>1 DEF Pages, Idle, Callers
  <2>3. Out(q) = {}
    BY <1>5, <2>2 DEF Out, Callers
  <2> QED BY <1>5, <2>1, <2>2, <2>3 DEF Pages, OneOut
<1>6. CASE page.disposed \/ (call.pc = "answered" /\ Stopped(page))
  <2>1. Stopped(page) /\ p = page
    BY <1>1, <1>6, StoppedStays DEF Stopped, Ended
  <2> HIDE DEF p
  <2>2. Tidy(q)
    <3> HIDE DEF q
    <3>1. Quiet(q) /\ Starting(q) /\ Watching(q) /\ Told(q)
      BY <1>1, <1>2, <1>5, <2>1 DEF Quiet, Starting, Watching, Told, Stopped, Callers, Final
    <3> QED BY <1>1, <1>2, <1>5, <2>1, <3>1 DEF Tidy
  <2> QED BY <1>1, <1>3, <1>4, <2>2 DEF CancelAfterLive
<1>7. CASE ~page.disposed /\ call.pc = "missing"
  <2>1. p = [page EXCEPT !.terminal = TRUE, !.mode = "not-found"]
    BY <1>7
  <2> HIDE DEF p
  <2>2. /\ p \in Pages /\ p.calls = page.calls /\ p.handle = NoSource
        /\ p.mode = "not-found" /\ p.terminal /\ ~p.settled
    BY <1>1, <1>2, <2>1 DEF Pages
  <2>3. Tidy(q)
    <3> HIDE DEF q
    <3>1. Quiet(q) /\ Starting(q) /\ Watching(q) /\ Told(q)
      BY <1>1, <1>2, <1>5, <2>2 DEF Quiet, Starting, Watching, Told, Stopped, Callers, Final
    <3> QED BY <1>1, <1>2, <1>5, <2>2, <3>1 DEF Tidy
  <2> QED BY <1>1, <1>3, <1>4, <2>3 DEF CancelAfterLive
<1>8. CASE ~page.disposed /\ call.pc = "failed"
  <2>1. p = [page EXCEPT !.mode = "error"]
    BY <1>8
  <2> HIDE DEF p
  <2>2. /\ p \in Pages /\ p.calls = page.calls /\ p.handle = NoSource
        /\ p.mode = "error" /\ ~p.terminal /\ ~p.settled /\ ~p.disposed
    BY <1>1, <1>2, <1>8, <2>1 DEF Pages
  <2>3. Tidy(q)
    <3> HIDE DEF q
    <3>1. Quiet(q) /\ Starting(q) /\ Watching(q) /\ Told(q)
      BY <1>1, <1>2, <1>5, <2>2 DEF Quiet, Starting, Watching, Told, Stopped, Callers, Final
    <3> QED BY <1>1, <1>2, <1>5, <2>2, <3>1 DEF Tidy
  <2> QED BY <1>1, <1>3, <1>4, <2>3 DEF CancelAfterLive
<1>9. CASE ~Stopped(page) /\ call.pc = "answered" /\ call.seen.status \in Final
  <2>1. p = Finish(page, call.seen.status)
    BY <1>9 DEF Ended, ApplyState
  <2>2. p \in Pages
    BY <1>1, <1>9, <2>1, FinishType
  <2>3. /\ p.mode = call.seen.status /\ p.status = call.seen.status
        /\ p.settled /\ p.terminal /\ p.handle = NoSource
        /\ p.reported = IF p.mode = "cancelled" THEN page.reported ELSE p.mode
    BY <1>1, <1>9, <2>1, FinishFields
  <2>4. \A c \in Callers :
          p.calls[c].pc = IF page.calls[c].pc = "timer" THEN "idle" ELSE page.calls[c].pc
    BY <1>1, <1>9, <2>1, FinishFields
  <2> HIDE DEF p
  <2>5. q = [p EXCEPT !.inFlight = FALSE, !.calls["initial"] = Idle]
    BY DEF Answered
  <2> HIDE DEF q
  <2>6. \A c \in Callers : q.calls[c].pc = "idle"
    BY <1>2, <2>2, <2>4, <2>5 DEF Pages, Idle, Callers
  <2>7. /\ q.mode = p.mode /\ q.status = p.status /\ q.settled /\ q.terminal /\ ~q.inFlight
        /\ q.handle = NoSource /\ q.reported = p.reported
    BY <2>2, <2>3, <2>5 DEF Pages
  <2>8. Out(q) = {}
    BY <2>6 DEF Out
  <2>9. Tidy(q)
    BY <1>9, <2>3, <2>6, <2>7, <2>8
       DEF Tidy, OneOut, Quiet, Starting, Watching, Told, Callers, Final
  <2> QED BY <1>1, <1>3, <1>4, <2>9 DEF CancelAfterLive
<1>10. CASE ~Stopped(page) /\ call.pc = "answered" /\ call.seen.status \notin Final
  <2> DEFINE shown == ApplyState(page, call.seen)
             heard == OpenStream(shown)
  <2>1. p = ScheduleDurableCheck(heard)
    BY <1>10 DEF Ended
  <2> HIDE DEF p
  <2> PICK n \in Working, h \in 0..Top :
        /\ shown = [page EXCEPT !.reported = n, !.high = h, !.mode = "live", !.status = n]
        /\ h >= page.high
        /\ page.reported = "processing" => n = "processing"
    BY <1>1, <1>10, ApplyFields DEF Ended
  <2>2. shown \in Pages
    BY <1>1, ApplyStateType
  <2> HIDE DEF shown
  <2>3. /\ ~Stopped(shown) /\ shown.handle = NoSource /\ shown.calls = page.calls
        /\ shown.mode = "live" /\ shown.status = n /\ shown.reported = n
        /\ ~shown.settled /\ ~shown.terminal /\ ~shown.disposed
    BY <1>1, <1>2, <1>10 DEF Pages, Stopped
  <2>4. \E s \in Sources : heard = [shown EXCEPT !.handle = s]
    BY <2>3 DEF OpenStream, Sources
  <2> PICK s \in Sources : heard = [shown EXCEPT !.handle = s]
    BY <2>4
  <2>5. heard \in Pages /\ heard = [shown EXCEPT !.handle = s]
    BY <2>2, StepTypes DEF Callers
  <2> HIDE DEF heard
  <2>6. /\ heard.handle = s /\ heard.calls = page.calls /\ ~Stopped(heard)
        /\ heard.mode = "live" /\ heard.status = n /\ heard.reported = n
        /\ ~heard.settled /\ ~heard.terminal /\ ~heard.disposed
    BY <2>2, <2>3, <2>5 DEF Pages, Stopped
  <2>7. p = [heard EXCEPT !.calls["durable"] = Timer] /\ p \in Pages
    BY <2>1, <2>5, <2>6, StepTypes DEF ScheduleDurableCheck, Callers
  <2>8. /\ p.handle = s /\ p.calls["initial"] = call
        /\ p.calls["reconnect"].pc = "idle" /\ p.calls["durable"].pc = "timer"
        /\ p.mode = "live" /\ p.status = n /\ p.reported = n
        /\ ~p.settled /\ ~p.terminal /\ ~p.disposed
    BY <1>2, <2>5, <2>6, <2>7 DEF Pages, Timer, Idle, Callers
  <2>9. Tidy(q)
    <3>1. \A c \in {"reconnect", "durable"} : p.calls[c].pc \in {"idle", "timer"}
      BY <2>8
    <3> HIDE DEF q
    <3>2. Quiet(q) /\ Starting(q) /\ Watching(q)
      BY <1>5, <2>7, <2>8, <3>1 DEF Quiet, Starting, Watching, Stopped, Sources, NoSource
    <3>3. Told(q)
      BY <1>5, <2>7, <2>8, <3>1 DEF Told, Working, Final
    <3> QED BY <1>5, <2>7, <2>8, <3>1, <3>2, <3>3 DEF Tidy
  <2> QED BY <1>1, <1>3, <1>4, <2>9 DEF CancelAfterLive
<1> QED BY <1>1, <1>6, <1>7, <1>8, <1>9, <1>10 DEF Stopped

\* An answer to a reconnection or to a periodic check finds a page that has had
\* its first answer, and leaves it tidy.
LEMMA LaterTidy ==
  ASSUME PageInv, ReconnectArrives \/ DurableArrives
  PROVE  Tidy(page') /\ OneSource' /\ CancelAfterLive'
<1>0. page \in Pages /\ Tidy(page) /\ page.handle \in {NoSource} \cup Sources
  BY DEF PageInv, TypeOK, Pages
\* The page without its request.
<1>1. ASSUME NEW c \in {"reconnect", "durable"}, NEW q \in Pages,
             page.calls[c].pc \in {"answered", "failed"},
             q = Answered(page, c)
      PROVE  /\ q.handle = page.handle /\ q.disposed = page.disposed
             /\ q.terminal = page.terminal /\ q.settled = page.settled /\ q.mode = page.mode
             /\ q.status = page.status /\ q.reported = page.reported
             /\ q.calls[c].pc = "idle"
             /\ \A d \in Callers \ {c} : q.calls[d] = page.calls[d]
             /\ Out(q) = {} /\ ~q.inFlight
             /\ page.mode \in {"live"} \cup Final
             /\ q.calls["initial"].pc = "idle"
             /\ Quiet(q) /\ Starting(q) /\ Told(q)
  <2>1. c \in Callers /\ c # "initial"
    BY DEF Callers
  <2>2. q = [page EXCEPT !.inFlight = FALSE, !.calls[c] = Idle]
    BY <1>1 DEF Answered
  <2>3. /\ q.handle = page.handle /\ q.disposed = page.disposed
        /\ q.terminal = page.terminal /\ q.settled = page.settled /\ q.mode = page.mode
        /\ q.status = page.status /\ q.reported = page.reported
        /\ q.calls[c].pc = "idle"
        /\ \A d \in Callers \ {c} : q.calls[d] = page.calls[d]
        /\ ~q.inFlight
    BY <1>0, <2>1, <2>2 DEF Pages, Idle
  <2>4. \A d \in Callers \ {c} : page.calls[d].pc \in {"idle", "timer"}
    <3>1. c \in Out(page)
      BY <1>1, <2>1 DEF Out
    <3>2. \A d \in Callers \ {c} : d \notin Out(page)
      BY <1>0, <3>1 DEF Tidy, OneOut
    <3> QED BY <1>0, <3>2 DEF Out, Pages, Calls
  <2>5. Out(q) = {}
    BY <2>3, <2>4 DEF Out
  <2>6. page.mode \in {"live"} \cup Final
    BY <1>0, <1>1 DEF Tidy, Starting, Pages
  <2>7. q.calls["initial"].pc = "idle"
    BY <1>0, <2>1, <2>3, <2>4 DEF Tidy, Starting, Callers
  <2>8. Quiet(q) /\ Starting(q) /\ Told(q)
    BY <1>0, <2>3, <2>6, <2>7 DEF Tidy, Quiet, Starting, Told, Stopped, Final
  <2> QED BY <2>3, <2>5, <2>6, <2>7, <2>8
<1>2. CASE ReconnectArrives
  <2> DEFINE call == page.calls["reconnect"]
             idle == Answered(page, "reconnect")
             p    == CASE call.pc = "answered" ->
                            IF Ended(idle, call.seen) THEN ApplyState(idle, call.seen)
                            ELSE OpenStream(ApplyState(idle, call.seen))
                       [] call.pc = "failed" /\ ~Stopped(page) ->
                            [idle EXCEPT !.calls["reconnect"] = Timer]
                       [] OTHER -> idle
  <2>1. /\ call.seen \in Events /\ call.pc \in {"answered", "failed"} /\ idle \in Pages
        /\ Follow(p, streams) /\ UNCHANGED post
    BY <1>0, <1>2, StepTypes DEF ReconnectArrives, Elsewhere, Pages, Calls, Callers
  <2> HIDE DEF idle
  <2>2. OneSource' /\ page' = p
    BY <1>0, <2>1, FollowOpens DEF PageInv
  <2>3. /\ idle.handle = page.handle /\ idle.disposed = page.disposed
        /\ idle.terminal = page.terminal /\ idle.settled = page.settled
        /\ idle.mode = page.mode
        /\ idle.status = page.status /\ idle.reported = page.reported
        /\ idle.calls["reconnect"].pc = "idle"
        /\ \A d \in Callers \ {"reconnect"} : idle.calls[d] = page.calls[d]
        /\ Out(idle) = {} /\ ~idle.inFlight
        /\ page.mode \in {"live"} \cup Final
        /\ idle.calls["initial"].pc = "idle"
        /\ Quiet(idle) /\ Starting(idle) /\ Told(idle)
    BY <1>1, <2>1 DEF idle
  <2>4. Stopped(idle) <=> Stopped(page)
    BY <2>3 DEF Stopped
  <2>5. Watching(page) /\ (page.mode = "live" /\ ~page.disposed => page.handle = NoSource)
    BY <1>0, <2>1 DEF Tidy, Watching
  <2>6. CASE Stopped(page)
    <3>1. p = idle
      BY <2>1, <2>4, <2>6, StoppedStays DEF Ended
    <3>2. Watching(idle)
      BY <2>3, <2>4, <2>6 DEF Watching, Stopped, Told, Final
    <3>3. OneOut(idle)
      BY <2>3 DEF OneOut
    <3> HIDE DEF p
    <3> QED BY <2>2, <2>3, <3>1, <3>2, <3>3 DEF Tidy, CancelAfterLive
  <2>7. page.mode = "live" \/ Stopped(page)
    BY <1>0, <2>3 DEF Tidy, Told, Stopped
  <2>8. CASE ~Stopped(page) /\ call.pc = "failed"
    <3>1. p = [idle EXCEPT !.calls["reconnect"] = Timer]
      BY <2>8
    <3> HIDE DEF p
    <3>2. /\ p.calls["reconnect"].pc = "timer"
          /\ \A d \in Callers \ {"reconnect"} : p.calls[d] = page.calls[d]
          /\ p.handle = page.handle /\ p.disposed = page.disposed
          /\ p.terminal = page.terminal /\ p.settled = page.settled /\ p.mode = page.mode
          /\ p.status = page.status /\ p.reported = page.reported /\ ~p.inFlight
      BY <2>1, <2>3, <3>1 DEF Pages, Timer, Idle, Callers
    <3>3. Out(p) = {}
      BY <2>3, <3>2 DEF Out, Callers
    <3>4. OneOut(p) /\ Quiet(p)
      BY <2>8, <3>2, <3>3 DEF OneOut, Quiet, Stopped
    <3>5. Starting(p) /\ Told(p)
      BY <2>3, <2>7, <2>8, <3>2 DEF Starting, Told, Callers, Final
    <3>6. Watching(p)
      BY <2>5, <2>7, <2>8, <3>2 DEF Watching, Callers
    <3> QED BY <2>2, <2>3, <3>2, <3>4, <3>5, <3>6 DEF Tidy, CancelAfterLive
  <2>9. CASE ~Stopped(page) /\ call.pc = "answered" /\ call.seen.status \in Final
    <3>1. p = Finish(idle, call.seen.status)
      BY <2>4, <2>9 DEF Ended, ApplyState
    <3>2. /\ p.mode = call.seen.status /\ p.status = call.seen.status
          /\ p.settled /\ p.terminal /\ p.inFlight = idle.inFlight /\ p.handle = NoSource
          /\ p.reported = IF p.mode = "cancelled" THEN idle.reported ELSE p.mode
          /\ \A c \in Callers :
               p.calls[c].pc = IF idle.calls[c].pc = "timer" THEN "idle" ELSE idle.calls[c].pc
      BY <2>1, <2>4, <2>9, <3>1, FinishFields
    <3> HIDE DEF p
    <3>3. Out(p) = {} /\ ~p.inFlight
      BY <2>3, <3>2 DEF Out
    <3>4. OneOut(p) /\ Quiet(p) /\ Watching(p) /\ Told(p)
      BY <2>9, <3>2, <3>3 DEF OneOut, Quiet, Watching, Told, Final
    <3>5. Starting(p)
      BY <2>3, <2>9, <3>2 DEF Starting, Callers, Final
    <3> QED BY <2>1, <2>2, <2>9, <3>2, <3>4, <3>5 DEF Tidy, CancelAfterLive
  <2>10. CASE ~Stopped(page) /\ call.pc = "answered" /\ call.seen.status \notin Final
    <3> DEFINE shown == ApplyState(idle, call.seen)
    <3>1. p = OpenStream(shown)
      BY <2>4, <2>10 DEF Ended
    <3> HIDE DEF p
    <3> PICK n \in Working, h \in 0..Top :
          /\ shown = [idle EXCEPT !.reported = n, !.high = h, !.mode = "live", !.status = n]
          /\ h >= idle.high
          /\ idle.reported = "processing" => n = "processing"
      BY <2>1, <2>4, <2>10, ApplyFields DEF Ended
    <3>2. shown \in Pages
      BY <2>1, ApplyStateType
    <3> HIDE DEF shown
    <3>3. /\ ~Stopped(shown) /\ shown.handle = NoSource /\ shown.calls = idle.calls
          /\ shown.mode = "live" /\ shown.status = n /\ shown.reported = n
          /\ shown.settled = page.settled /\ ~shown.terminal /\ ~shown.disposed
          /\ shown.inFlight = idle.inFlight
      BY <2>1, <2>3, <2>4, <2>5, <2>7, <2>10 DEF Pages, Stopped
    <3>4. \E s \in Sources : p = [shown EXCEPT !.handle = s]
      BY <3>1, <3>3 DEF OpenStream, Sources
    <3> PICK s \in Sources : p = [shown EXCEPT !.handle = s]
      BY <3>4
    <3>5. /\ p.handle = s /\ p.calls = idle.calls /\ ~Stopped(p)
          /\ p.mode = "live" /\ p.status = n /\ p.reported = n /\ ~p.inFlight
          /\ p.settled = page.settled /\ ~p.terminal /\ ~p.disposed
      BY <2>3, <3>2, <3>3 DEF Pages, Stopped
    <3>6. Out(p) = {}
      BY <2>3, <3>5 DEF Out
    <3>7. OneOut(p) /\ Quiet(p)
      BY <3>5, <3>6 DEF OneOut, Quiet
    <3>8. Told(p)
      BY <2>3, <2>7, <2>10, <3>5 DEF Told, Working, Final
    <3>9. Starting(p)
      BY <2>3, <3>5 DEF Starting
    <3>10. Watching(p)
      BY <2>3, <2>5, <2>7, <2>10, <3>5 DEF Watching, Callers, Sources, NoSource, Stopped
    <3> QED BY <2>2, <3>5, <3>7, <3>8, <3>9, <3>10 DEF Tidy, CancelAfterLive
  <2> QED BY <2>1, <2>6, <2>8, <2>9, <2>10
<1>3. CASE DurableArrives
  <2> DEFINE call == page.calls["durable"]
             idle == Answered(page, "durable")
             p    == IF call.pc = "answered" THEN ApplyState(idle, call.seen) ELSE idle
             q    == ScheduleDurableCheck(p)
  <2>1. /\ call.seen \in Events /\ call.pc \in {"answered", "failed"} /\ idle \in Pages
        /\ Follow(q, streams) /\ UNCHANGED post
    BY <1>0, <1>3, StepTypes DEF DurableArrives, Elsewhere, Pages, Calls, Callers
  <2> HIDE DEF idle
  <2>2. OneSource' /\ page' = q
    BY <1>0, <2>1, FollowOpens DEF PageInv
  <2>3. /\ idle.handle = page.handle /\ idle.disposed = page.disposed
        /\ idle.terminal = page.terminal /\ idle.settled = page.settled
        /\ idle.mode = page.mode
        /\ idle.status = page.status /\ idle.reported = page.reported
        /\ idle.calls["durable"].pc = "idle"
        /\ \A d \in Callers \ {"durable"} : idle.calls[d] = page.calls[d]
        /\ Out(idle) = {} /\ ~idle.inFlight
        /\ page.mode \in {"live"} \cup Final
        /\ idle.calls["initial"].pc = "idle"
        /\ Quiet(idle) /\ Starting(idle) /\ Told(idle)
    BY <1>1, <2>1 DEF idle
  <2>4. Stopped(idle) <=> Stopped(page)
    BY <2>3 DEF Stopped
  <2>5. CASE Stopped(page)
    <3>1. p = idle /\ q = idle
      BY <2>1, <2>4, <2>5, StoppedStays
    <3>2. Watching(idle)
      BY <2>3, <2>4, <2>5 DEF Watching, Stopped, Told, Final
    <3>3. OneOut(idle)
      BY <2>3 DEF OneOut
    <3> HIDE DEF p, q
    <3> QED BY <2>2, <2>3, <3>1, <3>2, <3>3 DEF Tidy, CancelAfterLive
  <2>6. page.mode = "live" \/ Stopped(page)
    BY <1>0, <2>3 DEF Tidy, Told, Stopped
  <2>7. CASE ~Stopped(page) /\ call.pc = "answered" /\ call.seen.status \in Final
    <3>1. p = Finish(idle, call.seen.status)
      BY <2>4, <2>7 DEF Ended, ApplyState
    <3>2. /\ p.mode = call.seen.status /\ p.status = call.seen.status
          /\ p.settled /\ p.terminal /\ p.inFlight = idle.inFlight /\ p.handle = NoSource
          /\ p.reported = IF p.mode = "cancelled" THEN idle.reported ELSE p.mode
          /\ \A c \in Callers :
               p.calls[c].pc = IF idle.calls[c].pc = "timer" THEN "idle" ELSE idle.calls[c].pc
      BY <2>1, <2>4, <2>7, <3>1, FinishFields
    <3> HIDE DEF p
    <3>3. q = p
      BY <3>2 DEF ScheduleDurableCheck, Stopped
    <3> HIDE DEF q
    <3>4. Out(p) = {} /\ ~p.inFlight
      BY <2>3, <3>2 DEF Out
    <3>5. OneOut(p) /\ Quiet(p) /\ Watching(p) /\ Told(p)
      BY <2>7, <3>2, <3>4 DEF OneOut, Quiet, Watching, Told, Final
    <3>6. Starting(p)
      BY <2>3, <2>7, <3>2 DEF Starting, Callers, Final
    <3> QED BY <2>1, <2>2, <2>7, <3>2, <3>3, <3>5, <3>6 DEF Tidy, CancelAfterLive
  <2>8. CASE ~Stopped(page) /\ ~(call.pc = "answered" /\ call.seen.status \in Final)
    <3>1. /\ p \in Pages /\ ~Stopped(p)
          /\ p.handle = page.handle /\ p.calls = idle.calls /\ p.inFlight = idle.inFlight
          /\ p.mode = "live" /\ p.status \in Working /\ p.reported = p.status
          /\ p.settled = page.settled /\ ~p.terminal /\ ~p.disposed
      <4>1. CASE call.pc = "answered"
        <5>1. p = ApplyState(idle, call.seen) /\ ~Ended(idle, call.seen)
          BY <2>4, <2>8, <4>1 DEF Ended
        <5> HIDE DEF p
        <5> PICK n \in Working, h \in 0..Top :
              /\ p = [idle EXCEPT !.reported = n, !.high = h, !.mode = "live", !.status = n]
              /\ h >= idle.high
              /\ idle.reported = "processing" => n = "processing"
          BY <2>1, <5>1, ApplyFields
        <5> QED BY <2>1, <2>3, <2>4, <2>8 DEF Pages, Stopped
      <4>2. CASE call.pc # "answered"
        <5>1. p = idle
          BY <4>2
        <5> HIDE DEF p
        <5> QED BY <2>1, <2>3, <2>4, <2>6, <2>8, <5>1 DEF Stopped, Told
      <4> QED BY <4>1, <4>2
    <3> HIDE DEF p
    <3>2. q = [p EXCEPT !.calls["durable"] = Timer]
      BY <3>1 DEF ScheduleDurableCheck
    <3> HIDE DEF q
    <3>3. /\ q.calls["durable"].pc = "timer"
          /\ \A d \in Callers \ {"durable"} : q.calls[d] = page.calls[d]
          /\ q.handle = page.handle /\ ~q.disposed /\ ~q.terminal
          /\ q.settled = page.settled /\ q.mode = "live"
          /\ q.status \in Working /\ q.reported = q.status /\ ~q.inFlight
      BY <2>3, <3>1, <3>2 DEF Pages, Timer, Idle, Callers
    <3>4. Out(q) = {}
      BY <2>3, <3>3 DEF Out, Callers
    <3>5. OneOut(q) /\ Quiet(q)
      BY <3>3, <3>4 DEF OneOut, Quiet, Stopped
    <3>6. Starting(q) /\ Told(q)
      BY <2>3, <2>6, <2>8, <3>3 DEF Starting, Told, Callers, Working, Final
    <3>7. Watching(q)
      BY <1>0, <2>6, <2>8, <3>3 DEF Tidy, Watching, Callers, Stopped
    <3> QED BY <2>2, <3>3, <3>5, <3>6, <3>7 DEF Tidy, CancelAfterLive
  <2> QED BY <2>5, <2>7, <2>8
<1> QED BY <1>2, <1>3

\* Every step keeps the invariant.
LEMMA StepPage == PageInv /\ [Next]_vars => PageInv'
<1> SUFFICES ASSUME PageInv, [Next]_vars PROVE Tidy(page') /\ OneSource' /\ CancelAfterLive'
  BY StepType DEF PageInv
<1>0. /\ TypeOK /\ page \in Pages /\ Tidy(page) /\ OneSource /\ CancelAfterLive
      /\ page.handle \in {NoSource} \cup Sources
  BY DEF PageInv, TypeOK, Pages
\* The workers, the database and the server's end of the streams.
<1>1. ASSUME UNCHANGED <<streams, page>>, post' = "idle" \/ post # "idle"
      PROVE  Tidy(page') /\ OneSource' /\ CancelAfterLive'
  BY <1>0, <1>1 DEF OneSource, CancelAfterLive
<1>2. CASE Begin \/ Advance \/ GiveUp \/ \E s \in Final : Conclude(s)
  <2>1. UNCHANGED Tab
    BY <1>2 DEF Begin, Advance, GiveUp, Conclude
  <2> QED BY <1>0, <2>1 DEF Tab, OneSource, CancelAfterLive
<1>3. ASSUME UNCHANGED page, post' # "idle" => post # "idle",
             \A s \in Sources :
                 \/ streams'[s] = streams[s]
                 \/ streams[s].pc # "closed" /\ streams'[s].pc # "closed"
      PROVE  Tidy(page') /\ OneSource' /\ CancelAfterLive'
  BY <1>0, <1>3 DEF OneSource, CancelAfterLive, Closed
<1>4. ASSUME NEW e, Broadcast(e)
      PROVE  \A s \in Sources :
                 \/ streams'[s] = streams[s]
                 \/ streams[s].pc # "closed" /\ streams'[s].pc # "closed"
  BY <1>0, <1>4 DEF Broadcast, TypeOK, Streams
<1>5. CASE PublishProgress
  <2>1. UNCHANGED <<page, post>> /\ \E e : Broadcast(e)
    BY <1>5 DEF PublishProgress
  <2> QED BY <1>3, <1>4, <2>1
<1>6. CASE PublishOutcome
  <2>1. UNCHANGED page /\ (post' # "idle" => post # "idle")
    BY <1>6 DEF PublishOutcome
  <2>2. (\E e : Broadcast(e)) \/ UNCHANGED streams
    BY <1>6 DEF PublishOutcome
  <2> QED BY <1>3, <1>4, <2>1, <2>2
<1>7. ASSUME NEW s \in Sources, Subscribe(s) \/ Snapshot(s) \/ Forward(s) \/ Break(s)
      PROVE  Tidy(page') /\ OneSource' /\ CancelAfterLive'
  <2>1. UNCHANGED <<page, post>> /\ streams[s].pc # "closed"
    BY <1>7 DEF Subscribe, Snapshot, Forward, Break, Server
  <2>2. /\ \A r \in Sources \ {s} : streams'[r] = streams[r]
        /\ streams'[s].pc # "closed"
    <3>1. CASE Subscribe(s)
      BY <1>0, <3>1 DEF Subscribe, TypeOK, Over, Streams
    <3>2. CASE Snapshot(s)
      BY <1>0, <3>2 DEF Snapshot, TypeOK, Over, Streams
    <3>3. CASE Forward(s)
      BY <1>0, <3>3 DEF Forward, TypeOK, Over, Streams
    <3>4. CASE Break(s)
      BY <1>0, <3>4 DEF Break, TypeOK, Over
    <3> QED BY <1>7, <3>1, <3>2, <3>3, <3>4
  <2> QED BY <1>3, <2>1, <2>2
\* What the page hears.
<1>8. ASSUME NEW s \in Sources, Deliver(s)
      PROVE  Tidy(page') /\ OneSource' /\ CancelAfterLive'
  <2> DEFINE event == Head(streams[s].wire)
             p     == CASE event.event = "state" ->
                             IF Ended(page, event) THEN CloseStream(ApplyState(page, event))
                             ELSE ApplyState(page, event)
                        [] event.event = "progress" -> ApplyProgress(page, event)
                        [] OTHER -> Finish(page, event.status)
             now   == [streams EXCEPT ![s].wire = Tail(@)]
  <2>1. streams[s].wire # <<>> /\ streams[s].wire \in Seq(Events)
    BY <1>0, <1>8 DEF Deliver, TypeOK, Streams
  <2>2. event \in Events
    BY <2>1
  <2>3. page.handle = s /\ page.mode = "live" /\ ~Stopped(page) /\ page.handle # NoSource
    BY <2>1, OnlyLiveHears DEF Sources, NoSource
  <2>4. Follow(p, now) /\ UNCHANGED post
    BY <1>8 DEF Deliver, Elsewhere
  <2>5. \A r \in Sources : \/ now[r] = streams[r]
                           \/ r = page.handle /\ now[r].pc # "closed"
    <3>1. streams[s].pc # "closed"
      BY <1>0, <2>3 DEF OneSource
    <3> QED BY <1>0, <2>3, <3>1 DEF TypeOK, Streams
  <2>6. Tidy(p) /\ p.mode \in {"live"} \cup Final
    <3>1. CASE event.event = "state" /\ ~Ended(page, event)
      <4>1. p = ApplyState(page, event)
        BY <3>1
      <4>2. p.mode = "live"
        BY <1>0, <2>2, <3>1, <4>1, ApplyFields DEF ApplyState, ReportStatus, Pages
      <4> HIDE DEF p, event
      <4> QED BY <2>2, <2>3, <3>1, <4>1, <4>2, HearsTidy
    <3>2. CASE event.event = "state" /\ Ended(page, event)
      <4>1. p = CloseStream(ApplyState(page, event))
        BY <3>2
      <4> HIDE DEF p, event
      <4>2. p = Finish(page, event.status) /\ event.status \in Final
        BY <2>2, <2>3, <3>2, <4>1, HearsTidy
      <4> QED BY <1>0, <2>3, <4>2, FinishTidy
    <3>3. CASE event.event = "progress"
      <4>1. p = ApplyProgress(page, event)
        BY <3>3
      <4>2. p.mode = "live"
        BY <1>0, <2>3, <4>1 DEF ApplyProgress, ReportStatus, Pages
      <4> HIDE DEF p, event
      <4> QED BY <2>2, <2>3, <4>1, <4>2, HearsTidy
    <3>4. CASE event.event \notin {"state", "progress"}
      <4>1. p = Finish(page, event.status) /\ event.status \in Final
        BY <2>2, <3>4 DEF Events, Outcomes
      <4> HIDE DEF p, event
      <4> QED BY <1>0, <2>3, <4>1, FinishTidy
    <3> QED BY <3>1, <3>2, <3>3, <3>4
  <2> HIDE DEF p, now
  <2> QED BY <1>0, <2>4, <2>5, <2>6, FollowOpens DEF CancelAfterLive
<1>9. ASSUME NEW s \in Sources, StreamError(s)
      PROVE  Tidy(page') /\ OneSource' /\ CancelAfterLive'
  <2>1. page.handle = s /\ page.mode = "live" /\ ~Stopped(page) /\ page.handle # NoSource
    BY <1>9, OnlyLiveHears DEF StreamError, Sources, NoSource
  <2>2. Tidy(ScheduleReconnect(page))
    <3>1. page.calls["durable"].seen \in Events
      BY <1>0 DEF Pages, Calls, Callers
    <3> QED BY <2>1, <3>1, HearsTidy
  <2>3. ScheduleReconnect(page).mode = "live"
    BY <1>0, <2>1 DEF ScheduleReconnect, CloseStream, Pages
  <2>4. Follow(ScheduleReconnect(page), streams) /\ UNCHANGED post
    BY <1>9 DEF StreamError, Elsewhere
  <2> QED BY <1>0, <2>2, <2>3, <2>4, FollowOpens DEF CancelAfterLive
\* The requests of the page.
<1>10. ASSUME Tidy(page'), page'.mode = page.mode, page'.handle = page.handle,
              UNCHANGED <<streams, post>>
       PROVE  Tidy(page') /\ OneSource' /\ CancelAfterLive'
  BY <1>0, <1>10 DEF OneSource, CancelAfterLive
<1>11. ASSUME NEW c \in Callers, Serve(c) \/ FailRequest(c)
       PROVE  Tidy(page') /\ OneSource' /\ CancelAfterLive'
  <2> DEFINE none == [Idle EXCEPT !.pc = "missing"]
             lost == [Idle EXCEPT !.pc = "failed"]
             good == [pc |-> "answered", seen |-> CurrentState]
  <2>1. none.pc = "missing" /\ lost.pc = "failed" /\ good.pc = "answered"
    BY DEF Idle
  <2>2. UNCHANGED <<streams, post>> /\ page.calls[c].pc \in {"sent", "answered"}
    BY <1>11 DEF Serve, FailRequest, Elsewhere
  <2>3. \E t \in {none, lost, good} : page' = [page EXCEPT !.calls[c] = t]
    BY <1>11 DEF Serve, FailRequest
  <2> HIDE DEF none, lost, good
  <2> PICK t \in {none, lost, good} : page' = [page EXCEPT !.calls[c] = t]
    BY <2>3
  <2>4. t.pc \in {"answered", "missing", "failed"}
    BY <2>1
  <2>5. page'.mode = page.mode /\ page'.handle = page.handle
    BY <1>0 DEF Pages
  <2> QED BY <1>10, <2>2, <2>4, <2>5, CallTidy
<1>12. ASSUME NEW c \in Callers, TimerFires(c)
       PROVE  Tidy(page') /\ OneSource' /\ CancelAfterLive'
  <2>1. page.calls[c].pc = "timer" /\ UNCHANGED <<streams, post>>
    BY <1>12 DEF TimerFires, Elsewhere
  <2>2. Tidy(Ask(page, c)) /\ page' = Ask(page, c)
    BY <1>12, <2>1, CallTidy DEF TimerFires
  <2>3. page'.mode = page.mode /\ page'.handle = page.handle
    BY <1>0, <2>2 DEF Ask, Pages
  <2> QED BY <1>10, <2>1, <2>2, <2>3
<1>13. ASSUME NEW c \in Callers, Arrives(c)
       PROVE  Tidy(page') /\ OneSource' /\ CancelAfterLive'
  BY <1>13, InitialTidy, LaterTidy DEF Arrives, Callers
\* What the user does.
<1>14. CASE PressCancel
  BY <1>0, <1>14 DEF PressCancel, OneSource, CancelAfterLive
<1>15. CASE ServeCancel
  BY <1>0, <1>15 DEF ServeCancel, OneSource, CancelAfterLive
<1>16. CASE CancelAnswered
  <2>1. page.mode \in {"live"} \cup Final
    BY <1>0, <1>16 DEF CancelAnswered, CancelAfterLive
  <2>2. CASE post = "yes" /\ post' = "done" /\ Follow(Finish(page, "cancelled"), streams)
    BY <1>0, <2>1, <2>2, FinishTidy, FollowOpens DEF CancelAfterLive, Final
  <2>3. CASE post' = "idle" /\ UNCHANGED <<streams, page>>
    BY <1>1, <2>3
  <2> QED BY <1>16, <2>2, <2>3 DEF CancelAnswered
<1>17. CASE TryAgain
  <2>1. page.handle = NoSource /\ post = "idle"
    BY <1>0, <1>17 DEF TryAgain, Tidy, Starting, CancelAfterLive, Final
  <2>2. page' = FreshPage /\ UNCHANGED <<streams, post>>
    BY <1>17 DEF TryAgain, Elsewhere
  <2>3. Tidy(FreshPage) /\ FreshPage.handle = NoSource
    <3>1. FreshPage.calls = [c \in Callers |-> IF c = "initial" THEN Sent ELSE Idle]
      BY DEF FreshPage
    <3> QED BY <3>1 DEF FreshPage, Tidy, OneOut, Out, Quiet, Stopped, Starting, Watching,
                        Told, Callers, Sent, Idle, Final, NoSource
  <2> QED BY <1>0, <2>1, <2>2, <2>3 DEF OneSource, CancelAfterLive
<1>18. CASE Unmount
  <2> DEFINE gone == [page EXCEPT !.disposed = TRUE]
             p    == CloseStream(ClearTimers(gone))
             cs   == [c \in Callers |-> IF page.calls[c].pc = "timer" THEN Idle
                                        ELSE page.calls[c]]
  <2>1. p = [page EXCEPT !.disposed = TRUE, !.calls = cs, !.handle = NoSource]
    BY <1>0 DEF ClearTimers, CloseStream, Pages
  <2>2. \A c \in Callers :
          cs[c].pc = IF page.calls[c].pc = "timer" THEN "idle" ELSE page.calls[c].pc
    BY DEF Idle
  <2>3. Follow(p, streams) /\ UNCHANGED post
    BY <1>18 DEF Unmount, Elsewhere
  <2> HIDE DEF p, cs
  <2>4. /\ p.disposed /\ p.calls = cs /\ p.handle = NoSource /\ p.mode = page.mode
        /\ p.terminal = page.terminal /\ p.settled = page.settled
        /\ p.status = page.status /\ p.reported = page.reported
        /\ p.inFlight = page.inFlight
    BY <1>0, <2>1 DEF Pages
  <2>5. Out(p) = Out(page)
    BY <2>2, <2>4 DEF Out
  <2>6. OneOut(p) /\ Quiet(p) /\ Watching(p)
    BY <1>0, <2>2, <2>4, <2>5 DEF Tidy, OneOut, Quiet, Watching
  <2>7. Starting(p) /\ Told(p)
    BY <1>0, <2>2, <2>4 DEF Tidy, Starting, Told, Callers
  <2> QED BY <1>0, <2>3, <2>4, <2>6, <2>7, FollowOpens DEF Tidy, CancelAfterLive
<1>19. CASE UNCHANGED vars
  BY <1>0, <1>19 DEF vars, OneSource, CancelAfterLive
<1> QED
  BY <1>2, <1>5, <1>6, <1>7, <1>8, <1>9, <1>11, <1>12, <1>13, <1>14, <1>15, <1>16, <1>17,
     <1>18, <1>19 DEF Next

\* The page is tidy between any two callbacks.
THEOREM PageTidy == Spec => []PageInv
  BY InitPage, StepPage, PTL DEF Spec

\* At most one detail request is out, with its flag up; and a page that has shown
\* an outcome, or is gone, has left no timer and no open event source.
THEOREM NothingLeftBehind == Spec => []LeavesNothing
<1>1. PageInv => LeavesNothing
  <2> SUFFICES ASSUME PageInv PROVE LeavesNothing
    OBVIOUS
  <2>1. Asking = Out(page)
    BY DEF Asking, Out
  <2>2. OneOut(page) /\ Quiet(page) /\ OneSource
    BY DEF PageInv, Tidy
  <2>3. page.handle = NoSource => \A s \in Sources : streams[s].pc = "closed"
    BY <2>2 DEF OneSource, Closed, Sources, NoSource
  <2> QED BY <2>1, <2>2, <2>3 DEF LeavesNothing, OneOut, Quiet, Stopped
<1> QED BY <1>1, PageTidy, PTL

\* A live page has its periodic check and its stream or its reconnection; and what
\* it shows is what it told the history list.
THEOREM NeverDeaf == Spec => []StaysWatching
<1>1. PageInv => StaysWatching
  BY DEF PageInv, Tidy, Watching, Told, OneSource, Closed, StaysWatching, Final
<1> QED BY <1>1, PageTidy, PTL

\* Page q does not go back from page p (highWaterProgress, applyDurableState,
\* finishWithResult and its siblings).
Onward(p, q) ==
    /\ p.mode = "live" => q.high >= p.high
    /\ p.mode = "live" /\ p.status = "processing" => q.status # "pending"
    /\ p.mode \in Final => q.mode = p.mode /\ q.reported = p.reported

\* What the page is told takes it onward.
LEMMA ClosuresOnward ==
  ASSUME NEW p \in Pages, Told(p)
  PROVE  /\ \A e \in Events : Onward(p, ApplyState(p, e)) /\ Onward(p, ApplyProgress(p, e))
         /\ \A s \in Final : Onward(p, Finish(p, s))
<1>1. CASE Stopped(p)
  BY <1>1, StoppedStays DEF Onward, Pages
<1>2. CASE ~Stopped(p)
  <2>1. p.mode \notin Final /\ (p.mode = "live" => p.reported = p.status)
    BY <1>2 DEF Told, Stopped
  <2>2. ASSUME NEW s \in Final PROVE Onward(p, Finish(p, s))
    <3>1. Finish(p, s).high = p.high /\ Finish(p, s).status = s
      BY <1>2, FinishFields
    <3> QED BY <2>1, <3>1 DEF Onward, Pages, Final
  <2>3. ASSUME NEW e \in Events PROVE Onward(p, ApplyState(p, e))
    <3>1. CASE e.status \in Final
      BY <1>2, <2>2, <3>1 DEF ApplyState, Ended
    <3>2. CASE e.status \notin Final
      <4> PICK n \in Working, h \in 0..Top :
            /\ ApplyState(p, e) = [p EXCEPT !.reported = n, !.high = h, !.mode = "live",
                                            !.status = n]
            /\ h >= p.high
            /\ p.reported = "processing" => n = "processing"
        BY <1>2, <3>2, ApplyFields DEF Ended
      <4> QED BY <2>1 DEF Onward, Pages
    <3> QED BY <3>1, <3>2
  <2>4. ASSUME NEW e \in Events PROVE Onward(p, ApplyProgress(p, e))
    <3> DEFINE h == IF e.progress = Untold THEN p.high
                    ELSE Most(p.high, Least(Top, e.progress))
    <3>1. h >= p.high
      BY LivePageAssumption DEF Pages, Events, Outcomes, Most, Least, Untold
    <3>2. ApplyProgress(p, e) = [p EXCEPT !.reported = "processing", !.high = h,
               !.mode = "live",
               !.status = IF p.status = "pending" THEN "processing" ELSE p.status]
      BY <1>2 DEF ApplyProgress, ReportStatus, Pages
    <3> HIDE DEF h
    <3> QED BY <2>1, <3>1, <3>2 DEF Onward, Pages
  <2> QED BY <2>2, <2>3, <2>4
<1> QED BY <1>1, <1>2

\* One mount of the page never goes back: its progress does not fall, "processing"
\* does not become "pending", and an outcome is the last word.
THEOREM PageNeverGoesBack == Spec => NeverGoesBack
<1>1. PageInv /\ [Next]_vars => [Onward(page, page')]_vars
  <2> SUFFICES ASSUME PageInv, Next PROVE Onward(page, page')
    OBVIOUS
  <2>0. page \in Pages /\ Tidy(page) /\ Told(page)
    BY DEF PageInv, TypeOK, Tidy
\* The closures that keep what is shown.
  <2>1. ASSUME NEW p \in Pages, Onward(page, p), NEW q, q.high = p.high, q.status = p.status,
               q.mode = p.mode, q.reported = p.reported
        PROVE  Onward(page, q)
    BY <2>1 DEF Onward
  <2>2. ASSUME NEW q, q.high = page.high, q.status = page.status, q.mode = page.mode,
               q.reported = page.reported
        PROVE  Onward(page, q)
    BY <2>0, <2>2 DEF Onward, Pages
  <2>3. ASSUME NEW p \in Pages, NEW c \in Callers
        PROVE  /\ Answered(p, c).high = p.high /\ Answered(p, c).status = p.status
               /\ Answered(p, c).mode = p.mode /\ Answered(p, c).reported = p.reported
    BY DEF Answered, Pages
  <2>4. ASSUME NEW p \in Pages
        PROVE  /\ OpenStream(p).high = p.high /\ OpenStream(p).status = p.status
               /\ OpenStream(p).mode = p.mode /\ OpenStream(p).reported = p.reported
    BY DEF OpenStream, Pages
  <2>5. ASSUME NEW p \in Pages
        PROVE  /\ ScheduleDurableCheck(p).high = p.high
               /\ ScheduleDurableCheck(p).status = p.status
               /\ ScheduleDurableCheck(p).mode = p.mode
               /\ ScheduleDurableCheck(p).reported = p.reported
    BY DEF ScheduleDurableCheck, Pages
  <2>6. ASSUME NEW p \in Pages
        PROVE  /\ CloseStream(p).high = p.high /\ CloseStream(p).status = p.status
               /\ CloseStream(p).mode = p.mode /\ CloseStream(p).reported = p.reported
    BY DEF CloseStream, Pages
  <2>7. CASE UNCHANGED page
    BY <2>0, <2>7 DEF Onward, Pages
  <2>8. ASSUME NEW s \in Sources, Deliver(s) PROVE Onward(page, page')
    <3> DEFINE event == Head(streams[s].wire)
    <3>1. event \in Events
      BY <2>8 DEF Deliver, PageInv, TypeOK, Streams
    <3>2. page' = CASE event.event = "state" ->
                             IF Ended(page, event) THEN CloseStream(ApplyState(page, event))
                             ELSE ApplyState(page, event)
                        [] event.event = "progress" -> ApplyProgress(page, event)
                        [] OTHER -> Finish(page, event.status)
      BY <2>8 DEF Deliver, Follow
    <3>3. event.event \notin {"state", "progress"} => event.status \in Final
      BY <3>1 DEF Events, Outcomes
    <3> HIDE DEF event
    <3>4. ApplyState(page, event) \in Pages /\ Onward(page, ApplyState(page, event))
      BY <2>0, <3>1, ApplyStateType, ClosuresOnward
    <3>5. Onward(page, CloseStream(ApplyState(page, event)))
      BY <2>1, <2>6, <3>4
    <3>6. Onward(page, ApplyProgress(page, event))
      BY <2>0, <3>1, ClosuresOnward
    <3>7. event.event \notin {"state", "progress"} => Onward(page, Finish(page, event.status))
      BY <2>0, <3>3, ClosuresOnward
    <3> QED BY <3>2, <3>4, <3>5, <3>6, <3>7
  <2>9. ASSUME NEW s \in Sources, StreamError(s) PROVE Onward(page, page')
    <3>1. page' = ScheduleReconnect(page)
      BY <2>9 DEF StreamError, Follow
    <3>2. /\ ScheduleReconnect(page).high = page.high
          /\ ScheduleReconnect(page).status = page.status
          /\ ScheduleReconnect(page).mode = page.mode
          /\ ScheduleReconnect(page).reported = page.reported
      BY <2>0 DEF ScheduleReconnect, CloseStream, Pages
    <3> QED BY <2>2, <3>1, <3>2
  <2>10. ASSUME NEW c \in Callers, Serve(c) \/ FailRequest(c) \/ TimerFires(c)
         PROVE  Onward(page, page')
    <3>1. /\ page'.high = page.high /\ page'.status = page.status
          /\ page'.mode = page.mode /\ page'.reported = page.reported
      BY <2>0, <2>10 DEF Serve, FailRequest, TimerFires, Ask, Pages
    <3> QED BY <2>2, <3>1
  <2>11. CASE InitialArrives
    <3>1. page.mode = "loading"
      BY <2>0, <2>11 DEF InitialArrives, Tidy, Starting
    <3> QED BY <3>1 DEF Onward, Final
  <2>12. CASE ReconnectArrives
    <3> DEFINE call == page.calls["reconnect"]
               idle == Answered(page, "reconnect")
    <3>1. call.seen \in Events /\ idle \in Pages
      BY <2>0, StepTypes DEF Pages, Calls, Callers
    <3>2. \/ page' = ApplyState(idle, call.seen)
          \/ page' = OpenStream(ApplyState(idle, call.seen))
          \/ page' = [idle EXCEPT !.calls["reconnect"] = Timer]
          \/ page' = idle
      BY <2>12 DEF ReconnectArrives, Follow
    <3>3. /\ idle.high = page.high /\ idle.status = page.status
          /\ idle.mode = page.mode /\ idle.reported = page.reported
          /\ idle.terminal = page.terminal /\ idle.settled = page.settled
      BY <2>0 DEF Answered, Pages, Callers
    <3> HIDE DEF idle
    <3>4. Told(idle)
      BY <2>0, <3>3 DEF Told
    <3>5. ApplyState(idle, call.seen) \in Pages /\ Onward(idle, ApplyState(idle, call.seen))
      BY <3>1, <3>4, ApplyStateType, ClosuresOnward
    <3>6. Onward(page, ApplyState(idle, call.seen))
      BY <3>3, <3>5 DEF Onward
    <3>7. Onward(page, OpenStream(ApplyState(idle, call.seen)))
      BY <2>1, <2>4, <3>5, <3>6
    <3>8. Onward(page, [idle EXCEPT !.calls["reconnect"] = Timer]) /\ Onward(page, idle)
      BY <2>2, <3>1, <3>3 DEF Pages
    <3> QED BY <3>2, <3>6, <3>7, <3>8
  <2>13. CASE DurableArrives
    <3> DEFINE call == page.calls["durable"]
               idle == Answered(page, "durable")
    <3>1. call.seen \in Events /\ idle \in Pages
      BY <2>0, StepTypes DEF Pages, Calls, Callers
    <3>2. \/ page' = ScheduleDurableCheck(ApplyState(idle, call.seen))
          \/ page' = ScheduleDurableCheck(idle)
      BY <2>13 DEF DurableArrives, Follow
    <3>3. /\ idle.high = page.high /\ idle.status = page.status
          /\ idle.mode = page.mode /\ idle.reported = page.reported
          /\ idle.terminal = page.terminal /\ idle.settled = page.settled
      BY <2>0 DEF Answered, Pages, Callers
    <3> HIDE DEF idle
    <3>4. Told(idle)
      BY <2>0, <3>3 DEF Told
    <3>5. ApplyState(idle, call.seen) \in Pages /\ Onward(idle, ApplyState(idle, call.seen))
      BY <3>1, <3>4, ApplyStateType, ClosuresOnward
    <3>6. Onward(page, ApplyState(idle, call.seen))
      BY <3>3, <3>5 DEF Onward
    <3>7. Onward(page, ScheduleDurableCheck(ApplyState(idle, call.seen)))
      BY <2>1, <2>5, <3>5, <3>6
    <3>8. Onward(page, ScheduleDurableCheck(idle))
      BY <2>2, <2>5, <3>1, <3>3
    <3> QED BY <3>2, <3>7, <3>8
  <2>14. CASE CancelAnswered
    <3>1. page' = Finish(page, "cancelled") \/ UNCHANGED page
      BY <2>14 DEF CancelAnswered, Follow
    <3>2. Onward(page, Finish(page, "cancelled"))
      BY <2>0, ClosuresOnward DEF Final
    <3> QED BY <2>7, <3>1, <3>2
  <2>15. CASE TryAgain
    BY <2>15 DEF TryAgain, Onward, Final
  <2>16. CASE Unmount
    <3>1. page' = CloseStream(ClearTimers([page EXCEPT !.disposed = TRUE]))
      BY <2>16 DEF Unmount, Follow
    <3>2. /\ page'.high = page.high /\ page'.status = page.status
          /\ page'.mode = page.mode /\ page'.reported = page.reported
      BY <2>0, <3>1 DEF CloseStream, ClearTimers, Pages
    <3> QED BY <2>2, <3>2
  <2>17. \/ UNCHANGED page
         \/ \E s \in Sources : Deliver(s) \/ StreamError(s)
         \/ \E c \in Callers : Serve(c) \/ FailRequest(c) \/ TimerFires(c)
         \/ InitialArrives \/ ReconnectArrives \/ DurableArrives
         \/ CancelAnswered \/ TryAgain \/ Unmount
    BY DEF Next, Begin, Advance, GiveUp, Conclude, Tab, PublishProgress, PublishOutcome,
           Subscribe, Snapshot, Forward, Break, Server, PressCancel, ServeCancel, Arrives,
           Callers
  <2> QED BY <2>7, <2>8, <2>9, <2>10, <2>11, <2>12, <2>13, <2>14, <2>15, <2>16, <2>17
<1>2. [Onward(page, page')]_vars =>
        [/\ page.mode = "live" => page'.high >= page.high
         /\ page.mode = "live" /\ page.status = "processing" => page'.status # "pending"
         /\ page.mode \in Final => page'.mode = page.mode /\ page'.reported = page.reported]_vars
  BY DEF Onward
<1> QED BY <1>1, <1>2, PageTidy, PTL DEF Spec, NeverGoesBack
=============================================================================
