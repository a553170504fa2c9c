---------------------- MODULE SourcePreparationProofs -----------------------
(***************************************************************************)
(* What an interrupted preparation of a source leaves, for every number of *)
(* workers and claims, and every choice of faults.                         *)
(***************************************************************************)
EXTENDS SourcePreparation, TLAPS


-----------------------------------------------------------------------------
(* Types                                                                   *)

\* Every message and every task belongs to a generation that was claimed, and only
\* a task has a private directory.
GenerationsKnown ==
    /\ \A m \in queue \cup retrying : m.task # "process" => m.gen \in 1 .. gen
    /\ \A w \in Workers : /\ wk[w].pc # "idle" => Own(w) \in 1 .. gen
                          /\ wk[w].temp => wk[w].pc # "idle"

TypeInv == TypeOK /\ GenerationsKnown

Publishing == {"p_move", "p_mark", "p_adopt", "p_commit"}
Pcs == {"idle", "r_load", "r_lost", "r_dropzip", "r_commit", "clean_tree", "clean_rest"}
       \cup PreparePcs

LEMMA WorkerTypes ==
    ASSUME TypeOK, NEW w \in Workers
    PROVE  /\ wk[w] \in Worker /\ Idle \in Worker /\ ProcessMsg \in Message
           /\ wk[w].pc \in Pcs /\ wk[w].msg \in Message /\ wk[w].temp \in BOOLEAN
           /\ wk[w].msg.gen \in 0 .. MaxGen /\ wk[w].msg.gen \in Nat
BY SourceAssumption DEF TypeOK, Worker, Message, Idle, ProcessMsg, Pcs, Sources

\* A step of one worker to another program counter changes nothing else of it.
LEMMA StepFields ==
    ASSUME TypeOK, NEW w \in Workers, NEW pc \in Pcs, Step(w, pc)
    PROVE  /\ wk' \in [Workers -> Worker]
           /\ wk'[w].pc = pc /\ wk'[w].msg = wk[w].msg /\ wk'[w].temp = wk[w].temp
           /\ wk'[w].saw = wk[w].saw /\ wk'[w].next = wk[w].next
           /\ \A v \in Workers \ {w} : wk'[v] = wk[v]
<1>1. [wk[w] EXCEPT !.pc = pc] \in Worker
  BY WorkerTypes DEF Worker, Pcs
<1>2. wk' = [wk EXCEPT ![w] = [wk[w] EXCEPT !.pc = pc]]
  BY DEF Step, TypeOK
<1> QED BY <1>1, <1>2, WorkerTypes DEF TypeOK, Worker

LEMMA StopFields ==
    ASSUME TypeOK, NEW w \in Workers, Stop(w)
    PROVE  /\ wk' \in [Workers -> Worker] /\ wk'[w] = Idle
           /\ \A v \in Workers \ {w} : wk'[v] = wk[v]
BY WorkerTypes DEF Stop, TypeOK

-----------------------------------------------------------------------------
(* What each action does to the worker slots                               *)

Alone(w) == wk' \in [Workers -> Worker] /\ \A v \in Workers \ {w} : wk'[v] = wk[v]

\* Worker w goes on with the same task.
Goes(w, pc) == /\ Alone(w) /\ wk'[w].pc = pc /\ wk'[w].msg = wk[w].msg
               /\ wk'[w].saw = wk[w].saw

\* What a new task or an ended one leaves in the slot.
Begins(w, m, pc, saw) == /\ Alone(w) /\ wk'[w].pc = pc /\ wk'[w].msg = m
                         /\ wk'[w].saw = saw /\ wk'[w].temp = FALSE
Ends(w) == Alone(w) /\ wk'[w] = Idle

LEMMA Sets ==
    ASSUME TypeOK, NEW w \in Workers, NEW r \in Worker, wk' = [wk EXCEPT ![w] = r]
    PROVE  Alone(w) /\ wk'[w] = r
BY DEF TypeOK, Alone

LEMMA StepGoes ==
    ASSUME TypeOK, NEW w \in Workers, NEW pc \in Pcs, Step(w, pc)
    PROVE  Goes(w, pc) /\ wk'[w].temp = wk[w].temp
BY StepFields DEF Goes, Alone

LEMMA StopEnds ==
    ASSUME TypeOK, NEW w \in Workers, Stop(w)
    PROVE  Ends(w)
BY StopFields DEF Ends, Alone

LEMMA StartPrepareGoes ==
    ASSUME TypeOK, NEW w \in Workers, NEW m \in queue, StartPrepare(w, m)
    PROVE  \E pc \in {"return", "dropzip", "claim"} :
              /\ Begins(w, m, pc, "none")
              /\ pc = "return" => ~Mine(m.gen) \/ source = "unavailable"
              /\ pc = "dropzip" => source = "ready" /\ Mine(m.gen)
<1> DEFINE pc == IF ~Mine(m.gen) \/ source = "unavailable" THEN "return"
                 ELSE IF source = "ready" THEN "dropzip" ELSE "claim"
           r  == [Idle EXCEPT !.msg = m, !.pc = pc]
<1>1. pc \in {"return", "dropzip", "claim"}
  OBVIOUS
<1>2. wk' = [wk EXCEPT ![w] = r]
  BY DEF StartPrepare
<1>3. m \in Message
  BY DEF TypeOK
<1> HIDE DEF pc
<1>4. r \in Worker /\ r.pc = pc /\ r.msg = m /\ r.saw = "none" /\ r.temp = FALSE
  BY <1>1, <1>3, WorkerTypes DEF Worker, Idle, PreparePcs
<1> HIDE DEF r
<1>5. Begins(w, m, pc, "none")
  BY <1>2, <1>4, Sets DEF Begins
<1> QED BY <1>1, <1>5 DEF pc

LEMMA AcquireGoes ==
    ASSUME TypeOK, NEW w \in Workers, Acquire(w)
    PROVE  /\ Goes(w, IF marker THEN "lock_ready" ELSE "fetch") /\ wk'[w].temp = ~marker
<1> DEFINE pc == IF marker THEN "lock_ready" ELSE "fetch"
           r  == [wk[w] EXCEPT !.pc = pc, !.temp = ~marker]
<1>1. wk' = [wk EXCEPT ![w] = r]
  BY DEF Acquire, TypeOK
<1>2. pc \in PreparePcs /\ (~marker) \in BOOLEAN
  BY DEF PreparePcs
<1> HIDE DEF pc
<1>3. r \in Worker /\ r.pc = pc /\ r.msg = wk[w].msg /\ r.saw = wk[w].saw /\ r.temp = ~marker
  BY <1>2, WorkerTypes DEF Worker
<1> HIDE DEF r
<1>4. Goes(w, pc) /\ wk'[w].temp = ~marker
  BY <1>1, <1>3, Sets DEF Goes
<1> QED BY <1>4 DEF pc

\* A step to pc that also sets the private directory and where to go after.
LEMMA TempGoes ==
    ASSUME TypeOK, NEW w \in Workers, NEW pc \in Pcs, NEW temp \in BOOLEAN,
           wk' = [wk EXCEPT ![w].pc = pc, ![w].temp = temp]
    PROVE  Goes(w, pc) /\ wk'[w].temp = temp
<1> DEFINE r == [wk[w] EXCEPT !.pc = pc, !.temp = temp]
<1>1. wk' = [wk EXCEPT ![w] = r]
  BY DEF TypeOK
<1>2. r \in Worker /\ r.pc = pc /\ r.msg = wk[w].msg /\ r.saw = wk[w].saw /\ r.temp = temp
  BY WorkerTypes DEF Worker, Pcs
<1> HIDE DEF r
<1> QED BY <1>1, <1>2, Sets DEF Goes

LEMMA RecordGoes ==
    ASSUME TypeOK, NEW w \in Workers, RecordUnavailable(w)
    PROVE  /\ Mine(Own(w)) => Goes(w, "clean_tree") /\ source' = "unavailable"
           /\ ~Mine(Own(w)) => Goes(w, "return") /\ source' = source
           /\ wk'[w].temp = FALSE
<1>1. CASE Mine(Own(w))
  <2> DEFINE r == [wk[w] EXCEPT !.pc = "clean_tree", !.temp = FALSE, !.next = "return"]
  <2>1. wk' = [wk EXCEPT ![w] = r]
    BY <1>1 DEF RecordUnavailable, TypeOK
  <2>2. /\ r \in Worker /\ r.pc = "clean_tree" /\ r.msg = wk[w].msg /\ r.saw = wk[w].saw
        /\ r.temp = FALSE
    BY WorkerTypes DEF Worker
  <2> HIDE DEF r
  <2> QED BY <1>1, <2>1, <2>2, Sets DEF Goes, RecordUnavailable
<1>2. CASE ~Mine(Own(w))
  BY <1>2, TempGoes DEF RecordUnavailable, Pcs, PreparePcs
<1> QED BY <1>1, <1>2

LEMMA StartRestGoes ==
    ASSUME TypeOK, NEW w \in Workers, NEW m \in queue, StartRest(w, m)
    PROVE  /\ Mine(m.gen) => Begins(w, m, "r_load", source)
           /\ ~Mine(m.gen) => wk' = wk
<1>1. CASE Mine(m.gen)
  <2> DEFINE r == [Idle EXCEPT !.msg = m, !.pc = "r_load", !.saw = source]
  <2>1. wk' = [wk EXCEPT ![w] = r]
    BY <1>1 DEF StartRest
  <2>2. r \in Worker /\ r.pc = "r_load" /\ r.msg = m /\ r.saw = source /\ r.temp = FALSE
    BY WorkerTypes DEF Worker, Idle, TypeOK
  <2> HIDE DEF r
  <2> QED BY <1>1, <2>1, <2>2, Sets DEF Begins
<1> QED BY <1>1 DEF StartRest

LEMMA LoadIndexGoes ==
    ASSUME TypeOK, NEW w \in Workers, LoadIndex(w)
    PROVE  /\ Alone(w) /\ wk'[w].msg = wk[w].msg /\ wk'[w].temp = wk[w].temp
           /\ \/ wk[w].saw # "ready" /\ wk'[w].pc = "r_commit" /\ wk'[w].saw = wk[w].saw
              \/ wk[w].saw = "ready" /\ marker /\ wk'[w].pc = "r_commit"
                 /\ wk'[w].saw = IF tree # 0 THEN "whole" ELSE "hollow"
              \/ wk[w].saw = "ready" /\ wk'[w].pc = "r_lost"
                 /\ (~marker \/ "source" \in Faults)
<1>1. CASE wk[w].saw # "ready"
  BY <1>1, StepGoes DEF LoadIndex, Goes, Pcs
<1>2. ASSUME NEW pc \in {"r_commit", "r_lost"}, NEW saw \in {"none", "whole", "hollow"},
             wk' = [wk EXCEPT ![w].pc = pc, ![w].saw = saw]
      PROVE  /\ Alone(w) /\ wk'[w].msg = wk[w].msg /\ wk'[w].temp = wk[w].temp
             /\ wk'[w].pc = pc /\ wk'[w].saw = saw
  <2> DEFINE r == [wk[w] EXCEPT !.pc = pc, !.saw = saw]
  <2>1. wk' = [wk EXCEPT ![w] = r]
    BY <1>2 DEF TypeOK
  <2>2. /\ r \in Worker /\ r.pc = pc /\ r.msg = wk[w].msg /\ r.saw = saw
        /\ r.temp = wk[w].temp
    BY WorkerTypes DEF Worker, Sources
  <2> HIDE DEF r
  <2> QED BY <2>1, <2>2, Sets
<1>3. CASE wk[w].saw = "ready" /\ marker /\ wk' = [wk EXCEPT ![w].pc = "r_commit",
                 ![w].saw = IF tree # 0 THEN "whole" ELSE "hollow"]
  BY <1>2, <1>3
<1>4. CASE wk[w].saw = "ready" /\ (~marker \/ "source" \in Faults)
           /\ wk' = [wk EXCEPT ![w].pc = "r_lost", ![w].saw = "none"]
  BY <1>2, <1>4
<1> QED BY <1>1, <1>3, <1>4 DEF LoadIndex, MayFail

\* The removal of private directories changes nothing else of the others.
Same(v) == /\ wk'[v].pc = wk[v].pc /\ wk'[v].msg = wk[v].msg /\ wk'[v].saw = wk[v].saw
           /\ wk'[v].temp => wk[v].temp

LEMMA RedispatchKeeps ==
    ASSUME TypeOK, RedispatchDemoted
    PROVE  /\ wk' \in [Workers -> Worker]
           /\ \A v \in Workers : Same(v) /\ (Own(v) # rec.gen => wk'[v] = wk[v])
<1>1. CASE rec.source = "preparing"
  <2>1. wk' = [v \in Workers |-> IF wk[v].msg.gen = rec.gen THEN [wk[v] EXCEPT !.temp = FALSE]
                                 ELSE wk[v]]
    BY <1>1 DEF RedispatchDemoted, DropTemps
  <2>2. \A v \in Workers : [wk[v] EXCEPT !.temp = FALSE] \in Worker
    BY WorkerTypes DEF Worker
  <2> QED BY <2>1, <2>2, WorkerTypes DEF Same, Own, Worker
<1>2. CASE rec.source # "preparing"
  BY <1>2 DEF RedispatchDemoted, Same, TypeOK
<1> QED BY <1>1, <1>2

LEMMA CancelKeeps ==
    ASSUME TypeOK, CancelCleansRest
    PROVE  wk' \in [Workers -> Worker] /\ \A v \in Workers : Same(v)
<1>1. wk' = [v \in Workers |-> [wk[v] EXCEPT !.temp = FALSE]]
  BY DEF CancelCleansRest
<1>2. \A v \in Workers : [wk[v] EXCEPT !.temp = FALSE] \in Worker
  BY WorkerTypes DEF Worker
<1> QED BY <1>1, <1>2, WorkerTypes DEF Same, Worker

LEMMA CleanRestKeeps ==
    ASSUME TypeOK, NEW w \in Workers, CleanRest(w)
    PROVE  /\ wk' \in [Workers -> Worker] /\ \A v \in Workers \ {w} : Same(v)
           /\ \/ wk'[w].pc = "return" /\ wk'[w].msg = wk[w].msg /\ wk'[w].temp = wk[w].temp
              \/ wk'[w] = Idle
<1>1. wk' = [v \in Workers |->
                IF v # w THEN [wk[v] EXCEPT !.temp = FALSE]
                ELSE IF wk[w].next = "return" THEN [wk[w] EXCEPT !.pc = "return"] ELSE Idle]
  BY DEF CleanRest
<1>2. \A v \in Workers : [wk[v] EXCEPT !.temp = FALSE] \in Worker
  BY WorkerTypes DEF Worker
<1>3. [wk[w] EXCEPT !.pc = "return"] \in Worker /\ Idle \in Worker
  BY WorkerTypes DEF Worker, PreparePcs
<1>4. wk' \in [Workers -> Worker]
  BY <1>1, <1>2, <1>3
<1>5. \A v \in Workers \ {w} : Same(v)
  BY <1>1, WorkerTypes DEF Same, Worker
<1>6. \/ wk'[w].pc = "return" /\ wk'[w].msg = wk[w].msg /\ wk'[w].temp = wk[w].temp
      \/ wk'[w] = Idle
  BY <1>1, WorkerTypes DEF Worker
<1> QED BY <1>4, <1>5, <1>6

-----------------------------------------------------------------------------
(* Types, and the generations of messages and tasks                        *)

LockType == lock # NoWorker => wk[lock].pc \in Publishing

WorkType == wk \in [Workers -> Worker]

\* All the rest of TypeOK.
RestType ==
    /\ status \in Active \cup Terminal /\ gen \in 0 .. MaxGen /\ source \in Sources
    /\ stale \in BOOLEAN /\ lock \in Workers \cup {NoWorker}
    /\ tree \in 0 .. MaxGen /\ marker \in BOOLEAN /\ zip \in Zips /\ litter \subseteq Gens
    /\ outcome \in Sources \cup {"whole", "hollow"}
    /\ queue \subseteq Message /\ retrying \subseteq Message
    /\ rec \in [at : {"idle", "scanned", "demoted"}, gen : 0 .. MaxGen, source : Sources]
    /\ api \in {"idle", "clean_tree", "clean_rest"} /\ faults \in 0 .. FaultLimit

LEMMA TypeParts == TypeOK <=> WorkType /\ LockType /\ RestType
BY DEF TypeOK, WorkType, LockType, RestType, Publishing

LEMMA MessageTypes ==
    ASSUME TypeOK
    PROVE  /\ ProcessMsg \in Message
           /\ \A g \in 0 .. MaxGen : Prepare(g) \in Message /\ Rest(g) \in Message
           /\ \A m \in Message : m.gen \in 0 .. MaxGen
           /\ ProcessMsg.task = "process"
           /\ \A g : /\ Prepare(g).task = "prepare" /\ Prepare(g).gen = g
                     /\ Rest(g).task = "rest" /\ Rest(g).gen = g
BY SourceAssumption DEF Message, ProcessMsg, Prepare, Rest

LEMMA FaultTypes ==
    ASSUME TypeOK, NEW kind, MayFail(kind)
    PROVE  faults' \in 0 .. FaultLimit
BY SourceAssumption DEF TypeOK, MayFail

LEMMA ZipType == ASSUME zip \in Zips, RemoveZip PROVE zip' \in Zips
BY DEF Zips, RemoveZip

\* What the worker steps do to everything but the slots keeps its type.
LEMMA RestStep ==
    ASSUME TypeOK, GenerationsKnown, [Next]_vars
    PROVE  RestType'
<1> USE DEF row, files, msgs, RestType
<1>0. RestType /\ SourceAssumption /\ MaxGen \in Nat /\ 0 \in 0 .. MaxGen
  BY TypeParts, SourceAssumption
<1>1. ASSUME NEW w \in Workers, ProcessAnalysis(w) PROVE RestType'
  <2>1. gen + 1 \in 0 .. MaxGen
    BY <1>0, <1>1 DEF ProcessAnalysis
  <2>2. faults' \in 0 .. FaultLimit /\ queue' \subseteq Message
    BY <1>0, <1>1, <2>1, MessageTypes, FaultTypes DEF ProcessAnalysis
  <2> QED BY <1>0, <1>1, <2>1, <2>2 DEF ProcessAnalysis, Active
<1>2. ASSUME NEW w \in Workers, NEW m \in queue, StartPrepare(w, m) PROVE RestType'
  BY <1>0, <1>2 DEF StartPrepare
<1>3. ASSUME NEW w \in Workers PROVE
        /\ ClaimPreparing(w) \/ AdoptReady(w) \/ CommitReady(w) => RestType'
        /\ Recheck(w) \/ LoadReady(w) \/ Beat(w) \/ Acquire(w) \/ Fetch(w) => RestType'
        /\ RecordUnavailable(w) \/ RecordUnloadable(w) => RestType'
        /\ TouchMarker(w) \/ AdoptMarker(w) \/ LockRow(w) => RestType'
  <2>1. ClaimPreparing(w) \/ AdoptReady(w) \/ CommitReady(w) => RestType'
    BY <1>0 DEF ClaimPreparing, AdoptReady, CommitReady, Sources
  <2>2. Recheck(w) \/ LoadReady(w) \/ Beat(w) \/ Acquire(w) \/ Fetch(w) => RestType'
    BY <1>0 DEF Recheck, LoadReady, Beat, Acquire, Fetch
  <2>3. RecordUnavailable(w) \/ RecordUnloadable(w) => RestType'
    BY <1>0 DEF RecordUnavailable, RecordUnloadable, Sources
  <2>4. TouchMarker(w) \/ AdoptMarker(w) \/ LockRow(w) => RestType'
    BY <1>0 DEF TouchMarker, AdoptMarker, LockRow
  <2> QED BY <2>1, <2>2, <2>3, <2>4
<1>4. ASSUME NEW w \in Workers, RetryPrepare(w) PROVE RestType'
  BY <1>0, <1>4, WorkerTypes, FaultTypes DEF RetryPrepare
<1>5. ASSUME NEW w \in Workers, LoadIndex(w) \/ PreparationFails(w) PROVE RestType'
  BY <1>0, <1>5, FaultTypes DEF LoadIndex, PreparationFails
<1>6. ASSUME NEW w \in Workers, MoveTree(w) PROVE RestType'
  BY <1>0, <1>6, WorkerTypes DEF MoveTree, Own
<1>7. ASSUME NEW w \in Workers, RemoveStagedZip(w) PROVE RestType'
  BY <1>0, <1>7, ZipType DEF RemoveStagedZip
<1>8. ASSUME NEW w \in Workers, FinishPrepare(w) PROVE RestType'
  BY <1>0, <1>8, WorkerTypes, MessageTypes DEF FinishPrepare, Own
<1>9. ASSUME NEW w \in Workers, NEW m \in queue, StartRest(w, m) PROVE RestType'
  BY <1>0, <1>9 DEF StartRest
<1>10. ASSUME NEW w \in Workers, Complete(w) PROVE RestType'
  <2>1. wk[w].saw \in Sources \cup {"whole", "hollow"}
    BY WorkerTypes DEF Worker
  <2> QED BY <1>0, <1>10, <2>1 DEF Complete, Terminal
<1>11. ASSUME NEW w \in Workers, CleanTree(w) PROVE RestType'
  BY <1>0, <1>11 DEF CleanTree
<1>12. ASSUME NEW w \in Workers, CleanRest(w) PROVE RestType'
  BY <1>0, <1>12, ZipType DEF CleanRest
<1>13. ASSUME NEW w \in Workers, TaskFails(w) PROVE RestType'
  BY <1>0, <1>13, FaultTypes DEF TaskFails, Terminal
<1>14. ASSUME NEW w \in Workers, LoseWorker(w) PROVE RestType'
  <2>1. wk[w].temp => Own(w) \in Gens
    BY <1>0 DEF GenerationsKnown, Gens
  <2> QED BY <1>0, <1>14, <2>1, WorkerTypes, FaultTypes DEF LoseWorker
<1>15. ASSUME NEW w \in Workers, Redeliver(w) PROVE RestType'
  BY <1>0, <1>15, WorkerTypes, FaultTypes DEF Redeliver
<1>16. CASE CancelAnalysis \/ CancelCleansTree
  BY <1>0, <1>16 DEF CancelAnalysis, CancelCleansTree, Terminal
<1>17. CASE CancelCleansRest
  BY <1>0, <1>17, ZipType DEF CancelCleansRest
<1>18. CASE WakeRetry
  BY <1>0, <1>18 DEF WakeRetry
<1>19. CASE ScanStale
  BY <1>0, <1>19 DEF ScanStale
<1>20. CASE DemoteStale
  <2>1. rec' \in [at : {"idle", "scanned", "demoted"}, gen : 0 .. MaxGen, source : Sources]
    BY <1>0, <1>20 DEF DemoteStale, NoScan, Sources
  <2> QED BY <1>0, <1>20, <2>1 DEF DemoteStale, DemotedSource, Active, Sources
<1>21. CASE RedispatchDemoted
  <2>1. NoScan \in [at : {"idle", "scanned", "demoted"}, gen : 0 .. MaxGen, source : Sources]
    BY <1>0 DEF NoScan, Sources
  <2>2. litter' \subseteq litter
    BY <1>21 DEF RedispatchDemoted
  <2>3. litter' \subseteq Gens /\ rec' = NoScan /\ queue' \subseteq Message
    BY <1>0, <1>21, <2>2, MessageTypes DEF RedispatchDemoted
  <2>4. UNCHANGED <<row, lock, tree, marker, zip, outcome, retrying, api, faults>>
    BY <1>21 DEF RedispatchDemoted
  <2> QED BY <1>0, <2>1, <2>3, <2>4
<1>22. CASE RedispatchPending \/ Tick
  <2>1. RedispatchPending => RestType'
    <3>1. RedispatchPending => queue' \subseteq Message
      BY <1>0, MessageTypes DEF RedispatchPending
    <3> QED BY <1>0, <3>1 DEF RedispatchPending
  <2>2. Tick => RestType'
    BY <1>0 DEF Tick
  <2> QED BY <1>22, <2>1, <2>2
<1>23. CASE UNCHANGED vars
  BY <1>0, <1>23 DEF vars
<1> QED
  BY <1>1, <1>2, <1>3, <1>4, <1>5, <1>6, <1>7, <1>8, <1>9, <1>10, <1>11, <1>12, <1>13,
     <1>14, <1>15, <1>16, <1>17, <1>18, <1>19, <1>20, <1>21, <1>22, <1>23
     DEF Next, WorkerStep, PrepareStep, Recover

\* The lock is kept by a worker that publishes, and gone when it stops.
LEMMA LockStep ==
    ASSUME TypeOK, [Next]_vars
    PROVE  LockType' /\ WorkType'
<1> USE DEF Publishing, Pcs, PreparePcs
<1>0. /\ WorkType /\ LockType /\ SourceAssumption /\ lock \in Workers \cup {NoWorker}
      /\ Idle.pc = "idle"
  BY SourceAssumption, TypeParts DEF TypeOK, Idle
\* A step of w that does not touch the lock, before or after which w does not publish.
<1>1. ASSUME NEW w \in Workers, wk' \in [Workers -> Worker], UNCHANGED lock,
             \A v \in Workers \ {w} : wk'[v].pc = wk[v].pc,
             wk[w].pc \notin Publishing \/ wk'[w].pc \in Publishing
      PROVE  LockType' /\ WorkType'
  BY <1>0, <1>1 DEF LockType, WorkType
<1>2. ASSUME NEW w \in Workers, wk' = wk, UNCHANGED lock
      PROVE  LockType' /\ WorkType'
  BY <1>0, <1>2 DEF LockType, WorkType
<1>3. ASSUME NEW w \in Workers, wk' \in [Workers -> Worker], lock' = NoWorker
      PROVE  LockType' /\ WorkType'
  BY <1>0, <1>3 DEF LockType, WorkType
<1>4. ASSUME NEW w \in Workers, NEW pc \in Pcs, Goes(w, pc), UNCHANGED lock,
             wk[w].pc \notin Publishing \/ pc \in Publishing
      PROVE  LockType' /\ WorkType'
  BY <1>1, <1>4 DEF Goes, Alone
<1>5. ASSUME NEW w \in Workers, Ends(w), UNCHANGED lock, wk[w].pc \notin Publishing
      PROVE  LockType' /\ WorkType'
  BY <1>1, <1>5 DEF Ends, Alone
<1>11. ASSUME NEW w \in Workers, ProcessAnalysis(w) PROVE LockType' /\ WorkType'
  BY <1>2, <1>11 DEF ProcessAnalysis
<1>12. ASSUME NEW w \in Workers, NEW m \in queue, StartPrepare(w, m) PROVE LockType' /\ WorkType'
  BY <1>1, <1>12, StartPrepareGoes DEF StartPrepare, Begins, Alone
<1>13. ASSUME NEW w \in Workers PROVE
        ClaimPreparing(w) \/ Recheck(w) \/ LoadReady(w) \/ AdoptReady(w) \/ Beat(w)
        \/ TouchMarker(w) \/ RemoveStagedZip(w) \/ CleanTree(w) \/ RecordUnloadable(w)
        => LockType' /\ WorkType'
  <2>1. \A pc \in Pcs : Step(w, pc) => Goes(w, pc)
    BY StepGoes
  <2> QED
    BY <1>4, <2>1 DEF ClaimPreparing, Recheck, LoadReady, AdoptReady, Beat, TouchMarker,
       RemoveStagedZip, CleanTree, RecordUnloadable
<1>14. ASSUME NEW w \in Workers, RetryPrepare(w) \/ FinishPrepare(w)
       PROVE  LockType' /\ WorkType'
  BY <1>5, <1>14, StopEnds DEF RetryPrepare, FinishPrepare
<1>15. ASSUME NEW w \in Workers, Acquire(w) PROVE LockType' /\ WorkType'
  BY <1>4, <1>15, AcquireGoes DEF Acquire
<1>16. ASSUME NEW w \in Workers, Fetch(w) PROVE LockType' /\ WorkType'
  BY <1>4, <1>16, StepGoes, TempGoes DEF Fetch
<1>17. ASSUME NEW w \in Workers, LockRow(w) PROVE LockType' /\ WorkType'
  <2>1. CASE Mine(Own(w)) /\ source = "preparing"
    <3>1. lock' = w /\ \E pc \in Publishing : Step(w, pc)
      BY <1>17, <2>1 DEF LockRow
    <3> QED BY <3>1, StepFields DEF LockType, WorkType
  <2>2. CASE ~(Mine(Own(w)) /\ source = "preparing")
    <3>1. Goes(w, "return") /\ UNCHANGED lock /\ wk[w].pc \notin Publishing
      BY <1>17, <2>2, TempGoes DEF LockRow
    <3> QED BY <1>4, <3>1
  <2> QED BY <2>1, <2>2
<1>18. ASSUME NEW w \in Workers, MoveTree(w) PROVE LockType' /\ WorkType'
  <2>1. CASE ~marker /\ ~wk[w].temp
    BY <1>3, <1>18, <2>1, StepFields DEF MoveTree
  <2>2. CASE marker \/ wk[w].temp
    BY <1>4, <1>18, <2>2, StepGoes, TempGoes DEF MoveTree
  <2> QED BY <2>1, <2>2
<1>19. ASSUME NEW w \in Workers, AdoptMarker(w) PROVE LockType' /\ WorkType'
  <2>1. CASE marker
    <3>1. Goes(w, "p_commit") /\ UNCHANGED lock
      BY <1>19, <2>1, StepGoes DEF AdoptMarker
    <3> QED BY <1>4, <3>1
  <2>2. CASE ~marker
    BY <1>3, <1>19, <2>2, StepFields DEF AdoptMarker
  <2> QED BY <2>1, <2>2
<1>20. ASSUME NEW w \in Workers, CommitReady(w) PROVE LockType' /\ WorkType'
  <2>1. Goes(w, "dropzip") /\ lock' = NoWorker
    BY <1>20, TempGoes DEF CommitReady
  <2> QED BY <1>3, <2>1 DEF Goes, Alone
<1>21. ASSUME NEW w \in Workers, RecordUnavailable(w) PROVE LockType' /\ WorkType'
  BY <1>4, <1>21, RecordGoes DEF RecordUnavailable
<1>22. ASSUME NEW w \in Workers, NEW m \in queue, StartRest(w, m) PROVE LockType' /\ WorkType'
  BY <1>1, <1>2, <1>22, StartRestGoes DEF StartRest, Begins, Alone
<1>23. ASSUME NEW w \in Workers, LoadIndex(w) PROVE LockType' /\ WorkType'
  BY <1>1, <1>23, LoadIndexGoes DEF LoadIndex, Alone
<1>24. ASSUME NEW w \in Workers, Complete(w) PROVE LockType' /\ WorkType'
  BY <1>4, <1>5, <1>24, StepGoes, StopEnds DEF Complete
<1>25. ASSUME NEW w \in Workers, CleanRest(w) PROVE LockType' /\ WorkType'
  <2>1. UNCHANGED lock /\ wk[w].pc \notin Publishing
    BY <1>25 DEF CleanRest
  <2>2. wk' \in [Workers -> Worker] /\ \A v \in Workers \ {w} : wk'[v].pc = wk[v].pc
    BY <1>25, CleanRestKeeps DEF Same
  <2> QED BY <1>1, <2>1, <2>2
<1>26. ASSUME NEW w \in Workers, TaskFails(w) \/ PreparationFails(w)
       PROVE  LockType' /\ WorkType'
  <2>1. CASE TaskFails(w)
    BY <1>4, <1>5, <2>1, StepGoes, StopEnds DEF TaskFails
  <2>2. CASE PreparationFails(w)
    <3>1. Goes(w, "unavailable")
      BY <2>2, TempGoes DEF PreparationFails
    <3>2. lock' = NoWorker \/ (lock # w /\ lock' = lock)
      BY <2>2 DEF PreparationFails
    <3> QED BY <1>0, <1>3, <3>1, <3>2 DEF Goes, Alone, LockType, WorkType
  <2> QED BY <1>26, <2>1, <2>2
<1>27. ASSUME NEW w \in Workers, LoseWorker(w) PROVE LockType' /\ WorkType'
  <2>1. CASE lock = w
    BY <1>3, <1>27, <2>1, StopEnds DEF LoseWorker, Ends, Alone
  <2>2. CASE lock # w
    <3>1. Ends(w) /\ UNCHANGED lock
      BY <1>27, <2>2, StopEnds DEF LoseWorker
    <3> QED BY <1>0, <2>2, <3>1 DEF Ends, Alone, LockType, WorkType
  <2> QED BY <2>1, <2>2
<1>28. ASSUME NEW w \in Workers, Redeliver(w) PROVE LockType' /\ WorkType'
  BY <1>2, <1>28 DEF Redeliver
<1>29. CASE CancelAnalysis \/ CancelCleansTree \/ WakeRetry \/ ScanStale \/ DemoteStale
            \/ RedispatchPending \/ Tick
  BY <1>0, <1>29 DEF CancelAnalysis, CancelCleansTree, WakeRetry, ScanStale, DemoteStale,
     RedispatchPending, Tick, LockType, WorkType
<1>30. CASE CancelCleansRest
  BY <1>0, <1>30, CancelKeeps DEF CancelCleansRest, Same, LockType, WorkType, row
<1>31. CASE RedispatchDemoted
  BY <1>0, <1>31, RedispatchKeeps DEF RedispatchDemoted, Same, LockType, WorkType, row
<1>32. CASE UNCHANGED vars
  BY <1>0, <1>32 DEF vars, LockType, WorkType
<1> QED
  BY <1>11, <1>12, <1>13, <1>14, <1>15, <1>16, <1>17, <1>18, <1>19, <1>20, <1>21, <1>22,
     <1>23, <1>24, <1>25, <1>26, <1>27, <1>28, <1>29, <1>30, <1>31, <1>32
     DEF Next, WorkerStep, PrepareStep, Recover

\* A message or task is of a generation that exists, whoever sends it or takes it.
LEMMA KnownStep ==
    ASSUME TypeOK, GenerationsKnown, [Next]_vars
    PROVE  GenerationsKnown'
<1> USE DEF Own
<1> DEFINE Known(m) == m.task # "process" => m.gen \in 1 .. gen
           Sent  == \A m \in queue' \cup retrying' : Known(m)
           Slot(v) == (wk'[v].pc # "idle" => wk'[v].msg.gen \in 1 .. gen)
                      /\ (wk'[v].temp => wk'[v].pc # "idle")
           Slots == \A v \in Workers : Slot(v)
<1>0. /\ gen \in Nat /\ gen' \in Nat /\ Idle.pc = "idle" /\ Idle.temp = FALSE
      /\ \A m \in queue \cup retrying : Known(m)
      /\ \A v \in Workers : /\ wk[v].pc # "idle" => wk[v].msg.gen \in 1 .. gen
                            /\ wk[v].temp => wk[v].pc # "idle"
  BY SourceAssumption, RestStep DEF TypeOK, RestType, GenerationsKnown, Idle
<1>1. gen' \in {gen, gen + 1} /\ Sent /\ Slots => GenerationsKnown'
  BY <1>0 DEF GenerationsKnown
<1> HIDE DEF Known
\* What the messages of a step and its slots come to.
<1>2. ASSUME queue' \subseteq queue \cup retrying, retrying' \subseteq retrying PROVE Sent
  BY <1>0, <1>2
<1>3. ASSUME NEW w \in Workers, wk[w].pc # "idle", queue' \subseteq queue \cup {wk[w].msg},
             retrying' \subseteq retrying \cup {wk[w].msg}
      PROVE  Sent
  BY <1>0, <1>3 DEF Known
<1>4. ASSUME NEW w \in Workers, NEW pc, wk[w].pc # "idle", Goes(w, pc), pc # "idle"
      PROVE  Slots
  BY <1>0, <1>4 DEF Goes, Alone
<1>5. ASSUME NEW w \in Workers, Ends(w) PROVE Slots
  BY <1>0, <1>5 DEF Ends, Alone
<1>6. ASSUME NEW w \in Workers, NEW m \in queue, NEW pc, NEW saw, m.task # "process",
             Begins(w, m, pc, saw), pc # "idle"
      PROVE  Slots
  BY <1>0, <1>6 DEF Begins, Alone, Known
<1>7. ASSUME wk' = wk PROVE Slots
  BY <1>0, <1>7
<1> HIDE DEF Sent, Slots
<1>11. ASSUME NEW w \in Workers, ProcessAnalysis(w) PROVE GenerationsKnown'
  <2>1. Slots
    BY <1>7, <1>11 DEF ProcessAnalysis
  <2>2. CASE status = "pending"
    <3>1. gen' = gen + 1 /\ retrying' = retrying /\ wk' = wk
          /\ queue' \subseteq queue \cup {Prepare(gen + 1)}
      BY <1>11, <2>2 DEF ProcessAnalysis
    <3>2. Prepare(gen + 1).gen = gen + 1
      BY DEF Prepare
    <3> QED BY <1>0, <3>1, <3>2 DEF GenerationsKnown, Known
  <2>3. CASE status # "pending"
    BY <1>1, <1>2, <1>11, <2>1, <2>3 DEF ProcessAnalysis
  <2> QED BY <2>2, <2>3
<1>12. ASSUME NEW w \in Workers, NEW m \in queue, StartPrepare(w, m) PROVE GenerationsKnown'
  <2>1. Slots
    BY <1>6, <1>12, StartPrepareGoes DEF StartPrepare
  <2> QED BY <1>1, <1>2, <1>12, <2>1 DEF StartPrepare, row
<1>13. ASSUME NEW w \in Workers PROVE
        ClaimPreparing(w) \/ Recheck(w) \/ LoadReady(w) \/ AdoptReady(w) \/ Beat(w)
        \/ TouchMarker(w) \/ RemoveStagedZip(w) \/ CleanTree(w) \/ RecordUnloadable(w)
        \/ AdoptMarker(w)
        => GenerationsKnown'
  <2>1. \A pc \in Pcs : Step(w, pc) => Goes(w, pc)
    BY StepGoes
  <2>2. \A pc \in Pcs \ {"idle"} : Step(w, pc) /\ wk[w].pc # "idle" => Slots
    BY <1>4, <2>1
  <2>3. UNCHANGED msgs => Sent
    BY <1>2 DEF msgs
  <2> QED
    BY <1>1, <2>2, <2>3
    DEF ClaimPreparing, Recheck, LoadReady, AdoptReady, Beat, TouchMarker, AdoptMarker,
       RemoveStagedZip, CleanTree, RecordUnloadable, row, Pcs, PreparePcs
<1>14. ASSUME NEW w \in Workers, RetryPrepare(w) PROVE GenerationsKnown'
  <2>1. Slots
    BY <1>5, <1>14, StopEnds DEF RetryPrepare
  <2>2. Sent
    BY <1>3, <1>14 DEF RetryPrepare
  <2> QED BY <1>1, <1>14, <2>1, <2>2 DEF RetryPrepare, row
<1>15. ASSUME NEW w \in Workers, FinishPrepare(w) PROVE GenerationsKnown'
  <2>1. Slots
    BY <1>5, <1>15, StopEnds DEF FinishPrepare
  <2>2. Sent
    <3>1. wk[w].msg.gen \in 1 .. gen /\ queue' = queue \cup {Rest(wk[w].msg.gen)}
          /\ retrying' = retrying
      BY <1>0, <1>15 DEF FinishPrepare
    <3>2. Known(Rest(wk[w].msg.gen))
      BY <3>1 DEF Rest, Known
    <3> QED BY <1>0, <3>1, <3>2 DEF Sent
  <2> QED BY <1>1, <1>15, <2>1, <2>2 DEF FinishPrepare, row
<1>16. ASSUME NEW w \in Workers,
              Acquire(w) \/ Fetch(w) \/ LockRow(w) \/ MoveTree(w) \/ CommitReady(w)
       PROVE  GenerationsKnown'
  <2>1. /\ \A pc \in Pcs : Step(w, pc) => Goes(w, pc)
        /\ \A pc \in Pcs, temp \in BOOLEAN :
              wk' = [wk EXCEPT ![w].pc = pc, ![w].temp = temp] => Goes(w, pc)
    BY StepGoes, TempGoes
  <2>2. wk[w].pc # "idle" /\ \E pc \in Pcs \ {"idle"} : Goes(w, pc)
    <3>1. Acquire(w) => wk[w].pc # "idle" /\ \E pc \in Pcs \ {"idle"} : Goes(w, pc)
      BY AcquireGoes DEF Acquire, Pcs, PreparePcs
    <3>2. Fetch(w) => wk[w].pc # "idle" /\ \E pc \in Pcs \ {"idle"} : Goes(w, pc)
      BY <2>1 DEF Fetch, Pcs, PreparePcs
    <3>3. LockRow(w) \/ MoveTree(w) \/ CommitReady(w)
            => wk[w].pc # "idle" /\ \E pc \in Pcs \ {"idle"} : Goes(w, pc)
      BY <2>1 DEF LockRow, MoveTree, CommitReady, Pcs, PreparePcs
    <3> QED BY <1>16, <3>1, <3>2, <3>3
  <2>3. Slots
    BY <1>4, <2>2
  <2>4. UNCHANGED msgs /\ gen' = gen
    BY <1>16 DEF Acquire, Fetch, LockRow, MoveTree, CommitReady, row
  <2> QED BY <1>1, <1>2, <2>3, <2>4 DEF msgs
<1>17. ASSUME NEW w \in Workers, RecordUnavailable(w) PROVE GenerationsKnown'
  BY <1>1, <1>2, <1>4, <1>17, RecordGoes DEF RecordUnavailable, msgs
<1>18. ASSUME NEW w \in Workers, NEW m \in queue, StartRest(w, m) PROVE GenerationsKnown'
  <2>1. Slots
    BY <1>6, <1>7, <1>18, StartRestGoes DEF StartRest
  <2> QED BY <1>1, <1>2, <1>18, <2>1 DEF StartRest
<1>19. ASSUME NEW w \in Workers, LoadIndex(w) PROVE GenerationsKnown'
  <2>1. Slots
    BY <1>0, <1>19, LoadIndexGoes DEF LoadIndex, Alone, Slots
  <2> QED BY <1>1, <1>2, <1>19, <2>1 DEF LoadIndex, row, msgs
<1>20. ASSUME NEW w \in Workers, Complete(w) PROVE GenerationsKnown'
  <2>1. Slots
    BY <1>4, <1>5, <1>20, StepGoes, StopEnds DEF Complete, Pcs
  <2> QED BY <1>1, <1>2, <1>20, <2>1 DEF Complete, msgs
<1>21. ASSUME NEW w \in Workers, CleanRest(w) PROVE GenerationsKnown'
  <2>1. Slots
    BY <1>0, <1>21, CleanRestKeeps DEF CleanRest, Same, Slots
  <2> QED BY <1>1, <1>2, <1>21, <2>1 DEF CleanRest, row, msgs
<1>22. ASSUME NEW w \in Workers, TaskFails(w) \/ PreparationFails(w) PROVE GenerationsKnown'
  <2>1. TaskFails(w) => Slots
    BY <1>4, <1>5, StepGoes, StopEnds DEF TaskFails, Pcs
  <2>2. PreparationFails(w) => Slots
    <3>1. PreparationFails(w) => Goes(w, "unavailable") /\ wk[w].pc # "idle"
      BY TempGoes DEF PreparationFails, Preparing, Pcs, PreparePcs
    <3> QED BY <1>4, <3>1
  <2> QED BY <1>1, <1>2, <1>22, <2>1, <2>2 DEF TaskFails, PreparationFails, row, msgs
<1>23. ASSUME NEW w \in Workers, LoseWorker(w) PROVE GenerationsKnown'
  <2>1. Slots
    BY <1>5, <1>23, StopEnds DEF LoseWorker
  <2>2. Sent
    BY <1>3, <1>23 DEF LoseWorker
  <2> QED BY <1>1, <1>23, <2>1, <2>2 DEF LoseWorker, row
<1>24. ASSUME NEW w \in Workers, Redeliver(w) PROVE GenerationsKnown'
  <2>1. Sent
    BY <1>3, <1>24 DEF Redeliver
  <2> QED BY <1>1, <1>7, <1>24, <2>1 DEF Redeliver, row
<1>25. CASE CancelAnalysis \/ CancelCleansTree \/ ScanStale \/ DemoteStale \/ Tick
  BY <1>1, <1>2, <1>7, <1>25
     DEF CancelAnalysis, CancelCleansTree, ScanStale, DemoteStale, Tick, row, msgs
<1>26. CASE WakeRetry
  <2>1. Sent
    BY <1>2, <1>26 DEF WakeRetry
  <2> QED BY <1>1, <1>7, <1>26, <2>1 DEF WakeRetry, row
<1>27. CASE CancelCleansRest
  <2>1. Slots
    BY <1>0, <1>27, CancelKeeps DEF Same, Slots
  <2> QED BY <1>1, <1>2, <1>27, <2>1 DEF CancelCleansRest, row, msgs
<1>28. CASE RedispatchDemoted \/ RedispatchPending
  <2>1. Sent
    <3>1. queue' = queue \cup {ProcessMsg} /\ retrying' = retrying
      BY <1>28 DEF RedispatchDemoted, RedispatchPending
    <3>2. Known(ProcessMsg)
      BY DEF ProcessMsg, Known
    <3> QED BY <1>0, <3>1, <3>2 DEF Sent
  <2>2. Slots
    <3>1. RedispatchDemoted => Slots
      BY <1>0, RedispatchKeeps DEF Same, Slots
    <3>2. RedispatchPending => Slots
      BY <1>7 DEF RedispatchPending
    <3> QED BY <1>28, <3>1, <3>2
  <2>3. gen' = gen
    BY <1>28 DEF RedispatchDemoted, RedispatchPending, row
  <2> QED BY <1>1, <2>1, <2>2, <2>3
<1>29. CASE UNCHANGED vars
  BY <1>1, <1>2, <1>7, <1>29 DEF vars
<1> QED
  BY <1>11, <1>12, <1>13, <1>14, <1>15, <1>16, <1>17, <1>18, <1>19, <1>20, <1>21, <1>22,
     <1>23, <1>24, <1>25, <1>26, <1>27, <1>28, <1>29
     DEF Next, WorkerStep, PrepareStep, Recover

LEMMA TypeInit == Init => TypeInv
<1> SUFFICES ASSUME Init PROVE TypeInv
  OBVIOUS
<1>1. Idle \in Worker /\ Idle.pc = "idle" /\ Idle.temp = FALSE /\ ProcessMsg \in Message
  BY SourceAssumption DEF Idle, ProcessMsg, Worker, Message, Sources
<1>2. WorkType /\ LockType
  BY <1>1 DEF Init, WorkType, LockType
<1>3. RestType
  <2>1. NoScan \in [at : {"idle", "scanned", "demoted"}, gen : 0 .. MaxGen, source : Sources]
    BY SourceAssumption DEF NoScan, Sources
  <2>2. /\ gen \in 0 .. MaxGen /\ tree \in 0 .. MaxGen /\ faults \in 0 .. FaultLimit
        /\ rec \in [at : {"idle", "scanned", "demoted"}, gen : 0 .. MaxGen, source : Sources]
    BY <2>1, SourceAssumption DEF Init
  <2> QED BY <1>1, <2>2 DEF Init, RestType, Active, Sources, Zips
<1>4. GenerationsKnown
  BY <1>1 DEF Init, GenerationsKnown, ProcessMsg
<1> QED BY <1>2, <1>3, <1>4, TypeParts DEF TypeInv

LEMMA TypeStep == TypeInv /\ [Next]_vars => TypeInv'
BY RestStep, LockStep, KnownStep, TypeParts, PTL DEF TypeInv

\* The row, the files, the messages and the workers keep their types, and only a
\* worker that publishes holds the lock of the row.
THEOREM SourceTypeCorrect == Spec => []TypeOK
<1>1. TypeInv => TypeOK
  BY DEF TypeInv
<1> QED BY <1>1, TypeInit, TypeStep, PTL DEF Spec

-----------------------------------------------------------------------------
(* One owner                                                               *)

Claimed == {"beat", "acquire", "fetch", "lock_fresh", "lock_ready"} \cup Publishing

\* Worker w is at its task for the generation that is being processed.
Current(w) == wk[w].pc # "idle" /\ Mine(Own(w))

\* Between its lock and its commit a publication owns what it publishes.
PublicationHolds ==
    \A w \in Workers : wk[w].pc \in Publishing =>
        lock = w /\ Current(w) /\ source = "preparing"

\* Of the deliveries of a generation at most one owns the preparation.
ClaimHolds ==
    \A w \in Workers : wk[w].pc \in Claimed /\ Current(w) =>
        /\ source # "none"
        /\ \A v \in Workers : wk[v].pc \in Claimed /\ Current(v) => v = w

OwnerInv == TypeInv /\ PublicationHolds /\ ClaimHolds

\* While no worker holds the lock, none publishes.
LEMMA NobodyPublishes ==
    ASSUME TypeOK, PublicationHolds, Unlocked
    PROVE  \A w \in Workers : wk[w].pc \notin Publishing
BY SourceAssumption DEF PublicationHolds, Unlocked

\* A generation is over once another is claimed, or the analysis is given up or ended.
LEMMA OverStays ==
    ASSUME TypeInv, [Next]_vars, NEW g \in 0 .. gen, ~Mine(g)
    PROVE  ~Mine(g)' 
<1> USE DEF Mine
<1>0. gen \in Nat /\ g \in Nat /\ g <= gen
  BY SourceAssumption DEF TypeInv, TypeOK
<1>1. ASSUME gen' = gen, status' = "processing" => status = "processing" PROVE ~Mine(g)'
  BY <1>1
<1>2. ASSUME NEW w \in Workers, ProcessAnalysis(w) PROVE ~Mine(g)'
  <2>1. CASE status = "pending"
    BY <1>0, <1>2, <2>1 DEF ProcessAnalysis
  <2>2. CASE status # "pending"
    BY <1>1, <1>2, <2>2 DEF ProcessAnalysis
  <2> QED BY <2>1, <2>2
<1>3. ASSUME NEW w \in Workers,
             PrepareStep(w) \/ (\E m \in queue : StartRest(w, m)) \/ LoadIndex(w)
             \/ RecordUnloadable(w) \/ CleanTree(w) \/ CleanRest(w) \/ PreparationFails(w)
             \/ LoseWorker(w) \/ Redeliver(w)
      PROVE ~Mine(g)'
  <2>1. gen' = gen /\ status' = status
    BY <1>3
       DEF PrepareStep, StartPrepare, ClaimPreparing, Recheck, RetryPrepare, LoadReady,
           AdoptReady, Beat, Acquire, Fetch, LockRow, MoveTree, TouchMarker, AdoptMarker,
           CommitReady, RemoveStagedZip, RecordUnavailable, FinishPrepare, StartRest,
           LoadIndex, RecordUnloadable, CleanTree, CleanRest, PreparationFails, LoseWorker,
           Redeliver, row
  <2> QED BY <1>1, <2>1
<1>4. ASSUME NEW w \in Workers, Complete(w) \/ TaskFails(w) PROVE ~Mine(g)'
  BY <1>1, <1>4 DEF Complete, TaskFails
<1>5. CASE CancelAnalysis \/ CancelCleansTree \/ CancelCleansRest \/ WakeRetry \/ Recover \/ Tick
  BY <1>1, <1>5
     DEF CancelAnalysis, CancelCleansTree, CancelCleansRest, WakeRetry, Recover, ScanStale,
         DemoteStale, RedispatchDemoted, RedispatchPending, Tick, row
<1>6. CASE UNCHANGED vars
  BY <1>1, <1>6 DEF vars
<1> QED
  BY <1>2, <1>3, <1>4, <1>5, <1>6 DEF Next, WorkerStep

LEMMA PublicationStep ==
    ASSUME TypeInv, PublicationHolds, [Next]_vars
    PROVE  PublicationHolds'
<1> USE DEF Publishing, Pcs, PreparePcs
<1> DEFINE Others(w) == \A v \in Workers \ {w} : wk'[v].pc = wk[v].pc /\ wk'[v].msg = wk[v].msg
           Kept      == UNCHANGED <<status, gen, source, lock>>
<1>0. TypeOK /\ Idle.pc = "idle" /\ \A w \in Workers : Alone(w) => Others(w)
  BY DEF TypeInv, Idle, Alone
\* Worker w does not come to publish, or goes on publishing.
<1>1. ASSUME NEW w \in Workers, Kept, Others(w),
             \/ wk'[w].pc \notin Publishing
             \/ wk[w].pc \in Publishing /\ wk'[w].msg = wk[w].msg
      PROVE  PublicationHolds'
  BY <1>1 DEF PublicationHolds, Current, Mine, Own
\* Nobody publishes afterwards.
<1>2. ASSUME NEW w \in Workers, Others(w), wk'[w].pc \notin Publishing,
             \A v \in Workers \ {w} : wk[v].pc \notin Publishing
      PROVE  PublicationHolds'
  BY <1>2 DEF PublicationHolds
<1>3. ASSUME \A v \in Workers : wk'[v].pc = wk[v].pc /\ wk'[v].msg = wk[v].msg, Unlocked \/ Kept
      PROVE  PublicationHolds'
  BY <1>0, <1>3, NobodyPublishes DEF PublicationHolds, Current, Mine, Own
\* The holder of the lock lets it go, or somebody else acts while it is free.
<1>4. ASSUME NEW w \in Workers, Others(w), wk'[w].pc \notin Publishing,
             Unlocked \/ lock = w \/ wk[w].pc \in Publishing
      PROVE  PublicationHolds'
  <2>1. \A v \in Workers \ {w} : wk[v].pc \notin Publishing
    BY <1>0, <1>4, NobodyPublishes DEF PublicationHolds
  <2> QED BY <1>2, <1>4, <2>1
<1>5. ASSUME NEW w \in Workers, Kept, NEW pc \in Pcs, Goes(w, pc),
             pc \notin Publishing \/ wk[w].pc \in Publishing
      PROVE  PublicationHolds'
  BY <1>0, <1>1, <1>5 DEF Goes
<1>6. ASSUME NEW w \in Workers, Kept, Ends(w) PROVE PublicationHolds'
  BY <1>0, <1>1, <1>6 DEF Ends
<1>7. \A w \in Workers, pc \in Pcs : Step(w, pc) => Goes(w, pc)
  BY <1>0, StepGoes
<1>8. \A w \in Workers, pc \in Pcs, temp \in BOOLEAN :
         wk' = [wk EXCEPT ![w].pc = pc, ![w].temp = temp] => Goes(w, pc)
  BY <1>0, TempGoes
<1> HIDE DEF Others, Kept
<1>11. ASSUME NEW w \in Workers, ProcessAnalysis(w) PROVE PublicationHolds'
  BY <1>3, <1>11 DEF ProcessAnalysis
<1>12. ASSUME NEW w \in Workers, NEW m \in queue, StartPrepare(w, m) PROVE PublicationHolds'
  BY <1>0, <1>1, <1>12, StartPrepareGoes DEF StartPrepare, Begins, row, Kept
<1>13. ASSUME NEW w \in Workers PROVE
        Recheck(w) \/ LoadReady(w) \/ TouchMarker(w) \/ RemoveStagedZip(w) \/ CleanTree(w)
        \/ Fetch(w) => PublicationHolds'
  BY <1>5, <1>7, <1>8
     DEF Recheck, LoadReady, TouchMarker, RemoveStagedZip, CleanTree, Fetch, row, Kept
<1>14. ASSUME NEW w \in Workers, RetryPrepare(w) \/ FinishPrepare(w) PROVE PublicationHolds'
  BY <1>0, <1>6, <1>14, StopEnds DEF RetryPrepare, FinishPrepare, row, Kept
<1>15. ASSUME NEW w \in Workers, Acquire(w) PROVE PublicationHolds'
  BY <1>0, <1>5, <1>15, AcquireGoes DEF Acquire, row, Kept
<1>16. ASSUME NEW w \in Workers, Complete(w) PROVE PublicationHolds'
  BY <1>0, <1>4, <1>7, <1>16, StopEnds DEF Complete, Goes, Ends
<1>17. ASSUME NEW w \in Workers, LockRow(w) PROVE PublicationHolds'
  <2>1. CASE Mine(Own(w)) /\ source = "preparing"
    <3>1. /\ lock' = w /\ UNCHANGED <<status, gen, source>>
          /\ \E pc \in Publishing : Goes(w, pc)
      BY <1>7, <1>17, <2>1 DEF LockRow, row
    <3>2. \A v \in Workers : wk[v].pc \notin Publishing
      BY <1>0, <1>17, NobodyPublishes DEF LockRow
    <3>3. Current(w)'
      BY <2>1, <3>1 DEF Current, Mine, Own, Goes
    <3> QED BY <1>0, <2>1, <3>1, <3>2, <3>3 DEF PublicationHolds, Goes, Alone
  <2>2. CASE ~(Mine(Own(w)) /\ source = "preparing")
    BY <1>5, <1>8, <1>17, <2>2 DEF LockRow, row, Kept
  <2> QED BY <2>1, <2>2
<1>18. ASSUME NEW w \in Workers, MoveTree(w) PROVE PublicationHolds'
  <2>1. CASE ~marker /\ ~wk[w].temp
    BY <1>0, <1>4, <1>7, <1>18, <2>1 DEF MoveTree, Goes
  <2>2. CASE marker \/ wk[w].temp
    BY <1>5, <1>7, <1>8, <1>18, <2>2 DEF MoveTree, row, Kept
  <2> QED BY <2>1, <2>2
<1>19. ASSUME NEW w \in Workers, AdoptMarker(w) PROVE PublicationHolds'
  <2>1. CASE marker
    BY <1>5, <1>7, <1>19, <2>1 DEF AdoptMarker, row, Kept
  <2>2. CASE ~marker
    BY <1>0, <1>4, <1>7, <1>19, <2>2 DEF AdoptMarker, Goes
  <2> QED BY <2>1, <2>2
<1>20. ASSUME NEW w \in Workers, CommitReady(w) PROVE PublicationHolds'
  <2>1. Goes(w, "dropzip") /\ wk[w].pc \in Publishing
    BY <1>8, <1>20 DEF CommitReady
  <2> QED BY <1>0, <1>4, <2>1 DEF Goes
<1>21. ASSUME NEW w \in Workers, RecordUnavailable(w) PROVE PublicationHolds'
  BY <1>0, <1>4, <1>21, RecordGoes DEF RecordUnavailable, Goes
<1>22. ASSUME NEW w \in Workers, NEW m \in queue, StartRest(w, m) PROVE PublicationHolds'
  <2>1. CASE Mine(m.gen)
    <3>1. Begins(w, m, "r_load", source) /\ Unlocked
      BY <1>0, <1>22, <2>1, StartRestGoes DEF StartRest
    <3> QED BY <1>0, <1>4, <3>1 DEF Begins
  <2>2. CASE ~Mine(m.gen)
    BY <1>3, <1>22, <2>2 DEF StartRest
  <2> QED BY <2>1, <2>2
<1>23. ASSUME NEW w \in Workers, LoadIndex(w) PROVE PublicationHolds'
  BY <1>0, <1>1, <1>23, LoadIndexGoes DEF LoadIndex, row, Kept
<1>24. ASSUME NEW w \in Workers,
              ClaimPreparing(w) \/ AdoptReady(w) \/ Beat(w) \/ RecordUnloadable(w)
       PROVE  PublicationHolds'
  <2>1. Unlocked /\ \E pc \in Pcs \ Publishing : Goes(w, pc)
    BY <1>7, <1>24 DEF ClaimPreparing, AdoptReady, Beat, RecordUnloadable
  <2> QED BY <1>0, <1>4, <2>1 DEF Goes
<1>25. ASSUME NEW w \in Workers, CleanRest(w) PROVE PublicationHolds'
  BY <1>0, <1>1, <1>25, CleanRestKeeps DEF CleanRest, Same, row, Kept, Others
<1>26. ASSUME NEW w \in Workers, TaskFails(w) PROVE PublicationHolds'
  <2>1. Others(w) /\ wk'[w].pc \notin Publishing
    <3>1. CASE status \in Active /\ gen = Own(w)
      <4>1. Goes(w, "clean_tree")
        BY <1>7, <1>26, <3>1 DEF TaskFails
      <4> QED BY <1>0, <4>1 DEF Goes
    <3>2. CASE ~(status \in Active /\ gen = Own(w))
      <4>1. Ends(w)
        BY <1>0, <1>26, <3>2, StopEnds DEF TaskFails
      <4> QED BY <1>0, <4>1 DEF Ends
    <3> QED BY <3>1, <3>2
  <2>2. Unlocked
    BY <1>26 DEF TaskFails
  <2> QED BY <1>4, <2>1, <2>2
<1>34. ASSUME NEW w \in Workers, PreparationFails(w) PROVE PublicationHolds'
  <2>1. Goes(w, "unavailable")
    BY <1>8, <1>34 DEF PreparationFails
  <2>2. CASE lock = w
    BY <1>0, <1>4, <2>1, <2>2 DEF Goes
  <2>3. CASE lock # w
    BY <1>5, <1>34, <2>1, <2>3 DEF PreparationFails, row, Kept
  <2> QED BY <2>2, <2>3
<1>27. ASSUME NEW w \in Workers, LoseWorker(w) PROVE PublicationHolds'
  <2>1. Ends(w)
    BY <1>0, <1>27, StopEnds DEF LoseWorker
  <2>2. CASE lock = w
    BY <1>0, <1>4, <2>1, <2>2 DEF Ends
  <2>3. CASE lock # w
    BY <1>6, <1>27, <2>1, <2>3 DEF LoseWorker, row, Kept
  <2> QED BY <2>2, <2>3
<1>28. ASSUME NEW w \in Workers, Redeliver(w) PROVE PublicationHolds'
  BY <1>3, <1>28 DEF Redeliver, row, Kept
<1>29. CASE CancelAnalysis \/ DemoteStale
  BY <1>3, <1>29 DEF CancelAnalysis, DemoteStale
<1>30. CASE CancelCleansTree \/ WakeRetry \/ ScanStale \/ RedispatchPending \/ Tick
  BY <1>3, <1>30 DEF CancelCleansTree, WakeRetry, ScanStale, RedispatchPending, Tick, row, Kept
<1>31. CASE CancelCleansRest
  BY <1>0, <1>3, <1>31, CancelKeeps DEF CancelCleansRest, Same, row, Kept
<1>32. CASE RedispatchDemoted
  BY <1>0, <1>3, <1>32, RedispatchKeeps DEF RedispatchDemoted, Same, row, Kept
<1>33. CASE UNCHANGED vars
  BY <1>3, <1>33 DEF vars, Kept
<1> QED
  BY <1>11, <1>12, <1>13, <1>14, <1>15, <1>16, <1>17, <1>18, <1>19, <1>20, <1>21, <1>22,
     <1>23, <1>24, <1>25, <1>26, <1>27, <1>28, <1>29, <1>30, <1>31, <1>32, <1>33, <1>34
     DEF Next, WorkerStep, PrepareStep, Recover

-----------------------------------------------------------------------------
(* Who changes what                                                        *)

Acts(w) == WorkerStep(w) \/ PreparationFails(w) \/ TaskFails(w) \/ LoseWorker(w)

\* Somebody removes the files of an analysis that is over.
Cleaning(at) == api = at \/ \E w \in Workers : wk[w].pc = at

\* Worker w does nothing, but may lose its private directory.
Rests(w) == /\ Same(w)
            /\ \/ wk'[w].temp = wk[w].temp
               \/ Cleaning("clean_rest")
               \/ rec.at = "demoted" /\ Own(w) = rec.gen

\* A slot is changed by its own worker, except for its private directory, and no
\* two workers act at once.
LEMMA OneActs ==
    ASSUME TypeOK, [Next]_vars
    PROVE  \/ \A w \in Workers : Rests(w)
           \/ \E v \in Workers : Acts(v) /\ \A w \in Workers \ {v} : Rests(w)
<1> DEFINE Left(w) == wk'[w] = wk[w]
<1>0. \A w \in Workers : Left(w) => Rests(w)
  BY DEF Rests, Same
<1>1. ASSUME NEW v \in Workers, PrepareStep(v), NEW w \in Workers \ {v} PROVE Left(w)
  <2> USE DEF TypeOK, Step, Stop
  <2>1. (\E m \in queue : StartPrepare(v, m)) => Left(w)
    BY <1>1 DEF StartPrepare
  <2>2. ClaimPreparing(v) \/ Recheck(v) \/ RetryPrepare(v) \/ LoadReady(v) \/ AdoptReady(v)
        \/ Beat(v) \/ Acquire(v) => Left(w)
    BY <1>1 DEF ClaimPreparing, Recheck, RetryPrepare, LoadReady, AdoptReady, Beat, Acquire
  <2>3. Fetch(v) \/ LockRow(v) \/ MoveTree(v) \/ TouchMarker(v) \/ AdoptMarker(v) => Left(w)
    BY <1>1 DEF Fetch, LockRow, MoveTree, TouchMarker, AdoptMarker
  <2>4. CommitReady(v) \/ RemoveStagedZip(v) \/ RecordUnavailable(v) \/ FinishPrepare(v) => Left(w)
    BY <1>1 DEF CommitReady, RemoveStagedZip, RecordUnavailable, FinishPrepare
  <2> QED BY <1>1, <2>1, <2>2, <2>3, <2>4 DEF PrepareStep
<1>2. ASSUME NEW v \in Workers, NEW w \in Workers \ {v},
             \/ ProcessAnalysis(v) \/ (\E m \in queue : StartRest(v, m)) \/ LoadIndex(v)
             \/ RecordUnloadable(v) \/ Complete(v) \/ CleanTree(v)
             \/ PreparationFails(v) \/ TaskFails(v) \/ LoseWorker(v) \/ Redeliver(v)
      PROVE  Left(w)
  <2>1. \/ wk' = wk \/ Stop(v) \/ (\E pc : Step(v, pc)) \/ (\E r : wk' = [wk EXCEPT ![v] = r])
        \/ (\E pc, saw : wk' = [wk EXCEPT ![v].pc = pc, ![v].saw = saw])
        \/ (\E pc, temp : wk' = [wk EXCEPT ![v].pc = pc, ![v].temp = temp])
    BY <1>2 DEF ProcessAnalysis, StartRest, LoadIndex, RecordUnloadable, Complete, CleanTree,
       PreparationFails, TaskFails, LoseWorker, Redeliver
  <2> QED BY <1>2, <2>1 DEF TypeOK, Step, Stop
<1>3. ASSUME NEW v \in Workers, CleanRest(v) PROVE \A w \in Workers \ {v} : Rests(w)
  BY <1>3, CleanRestKeeps DEF Rests, Cleaning, CleanRest
<1>4. CASE CancelAnalysis \/ CancelCleansTree \/ WakeRetry \/ ScanStale \/ DemoteStale
           \/ RedispatchPending \/ Tick \/ UNCHANGED vars
  BY <1>0, <1>4 DEF CancelAnalysis, CancelCleansTree, WakeRetry, ScanStale, DemoteStale,
     RedispatchPending, Tick, vars
<1>5. CASE CancelCleansRest \/ RedispatchDemoted
  <2>1. CancelCleansRest => \A w \in Workers : Rests(w)
    BY CancelKeeps DEF Rests, Cleaning, CancelCleansRest
  <2>2. RedispatchDemoted => \A w \in Workers : Rests(w)
    <3>1. RedispatchDemoted => rec.at = "demoted"
      BY DEF RedispatchDemoted
    <3> QED BY <3>1, RedispatchKeeps DEF Rests
  <2> QED BY <1>5, <2>1, <2>2
<1>6. ASSUME NEW v \in Workers, Redeliver(v) PROVE \A w \in Workers : Rests(w)
  BY <1>0, <1>6 DEF Redeliver
<1>7. ASSUME NEW v \in Workers, Acts(v)
      PROVE  \A w \in Workers \ {v} : Rests(w)
  <2>1. CASE CleanRest(v)
    BY <1>3, <2>1
  <2>2. CASE ~CleanRest(v)
    BY <1>0, <1>1, <1>2, <1>7, <2>2 DEF Acts, WorkerStep
  <2> QED BY <2>1, <2>2
<1> HIDE DEF Left
<1> QED
  BY <1>4, <1>5, <1>6, <1>7 DEF Next, Recover, Acts

\* The tree, the marker and the staged archive.
LEMMA FilesMove ==
    ASSUME [Next]_vars
    PROVE  /\ \/ tree' = tree
              \/ tree' = 0 /\ Cleaning("clean_tree")
              \/ \E w \in Workers :
                    /\ wk[w].pc = "p_move" /\ ~marker
                    /\ \/ tree' = Own(w)
                       \/ tree' = 0 /\ (~wk[w].temp \/ "source" \in Faults)
           /\ \/ marker' = marker
              \/ Cleaning("clean_rest")
              \/ marker' /\ \E w \in Workers : wk[w].pc = "p_mark" /\ TouchMarker(w)
           /\ \/ zip' = zip
              \/ Cleaning("clean_rest")
              \/ \E w \in Workers : wk[w].pc \in {"dropzip", "r_dropzip"}
<1> DEFINE Tree == \/ tree' = tree
                   \/ tree' = 0 /\ Cleaning("clean_tree")
                   \/ \E w \in Workers :
                         /\ wk[w].pc = "p_move" /\ ~marker
                         /\ \/ tree' = Own(w)
                            \/ tree' = 0 /\ (~wk[w].temp \/ "source" \in Faults)
           Marker == \/ marker' = marker
                     \/ Cleaning("clean_rest")
                     \/ marker' /\ \E w \in Workers : wk[w].pc = "p_mark" /\ TouchMarker(w)
           Zip == \/ zip' = zip
                  \/ Cleaning("clean_rest")
                  \/ \E w \in Workers : wk[w].pc \in {"dropzip", "r_dropzip"}
           Kept == UNCHANGED <<tree, marker, zip>>
<1> SUFFICES Tree /\ Marker /\ Zip
  OBVIOUS
<1>0. Kept => Tree /\ Marker /\ Zip
  OBVIOUS
<1>1. ASSUME NEW w \in Workers PROVE
        MoveTree(w) \/ CleanTree(w) \/ TouchMarker(w) \/ RemoveStagedZip(w) \/ CleanRest(w)
        \/ PreparationFails(w)
        => Tree /\ Marker /\ Zip
  <2>1. MoveTree(w) \/ PreparationFails(w) => Tree /\ Marker /\ Zip
    BY DEF MoveTree, PreparationFails, MayFail
  <2>2. CleanTree(w) \/ TouchMarker(w) \/ RemoveStagedZip(w) \/ CleanRest(w)
          => Tree /\ Marker /\ Zip
    BY DEF CleanTree, TouchMarker, RemoveStagedZip, CleanRest, Cleaning
  <2> QED BY <2>1, <2>2
<1>2. ASSUME NEW w \in Workers, PrepareStep(w),
             ~MoveTree(w), ~TouchMarker(w), ~RemoveStagedZip(w)
      PROVE  Kept
  BY <1>2 DEF PrepareStep, StartPrepare, ClaimPreparing, Recheck, RetryPrepare, LoadReady,
     AdoptReady, Beat, Acquire, Fetch, LockRow, AdoptMarker, CommitReady,
     RecordUnavailable, FinishPrepare, files
<1>3. ASSUME NEW w \in Workers,
             \/ ProcessAnalysis(w) \/ (\E m \in queue : StartRest(w, m)) \/ LoadIndex(w)
             \/ RecordUnloadable(w) \/ Complete(w)
             \/ TaskFails(w) \/ LoseWorker(w) \/ Redeliver(w)
      PROVE  Kept
  BY <1>3 DEF ProcessAnalysis, StartRest, LoadIndex, RecordUnloadable, Complete,
     TaskFails, LoseWorker, Redeliver, files
<1>4. CASE CancelCleansTree \/ CancelCleansRest
  BY <1>4 DEF CancelCleansTree, CancelCleansRest, Cleaning
<1>5. CASE CancelAnalysis \/ WakeRetry \/ Recover \/ Tick \/ UNCHANGED vars
  BY <1>5 DEF CancelAnalysis, WakeRetry, Recover,
     ScanStale, DemoteStale, RedispatchDemoted, RedispatchPending, Tick, files, vars
<1> HIDE DEF Tree, Marker, Zip, Kept
<1>9. ASSUME NEW w \in Workers, Acts(w) \/ Redeliver(w)
      PROVE  Tree /\ Marker /\ Zip
  BY <1>0, <1>1, <1>2, <1>3, <1>4, <1>5, <1>9 DEF Acts, WorkerStep, PrepareStep
<1> QED BY <1>0, <1>1, <1>2, <1>3, <1>4, <1>5, <1>9 DEF Acts, Next

\* The status of the source.
LEMMA SourceMoves ==
    ASSUME [Next]_vars
    PROVE  \/ source' = source
           \/ source = "none" /\ source' = "preparing"
           \/ source' = "ready" /\ \E w \in Workers :
                 \/ wk[w].pc = "adopt" /\ Mine(Own(w)) /\ source = "preparing"
                 \/ wk[w].pc = "p_commit"
           \/ source' = "unavailable" /\ \E w \in Workers :
                 Mine(Own(w)) /\ wk[w].pc \in {"unavailable", "r_lost"}
           \/ /\ source' = "none" /\ status' = "pending" /\ status = "processing" /\ stale
              /\ rec.at = "scanned" /\ rec.source = "preparing"
<1> DEFINE Moved == \/ source' = source
                    \/ source = "none" /\ source' = "preparing"
                    \/ source' = "ready" /\ \E w \in Workers :
                          \/ wk[w].pc = "adopt" /\ Mine(Own(w)) /\ source = "preparing"
                          \/ wk[w].pc = "p_commit"
                    \/ source' = "unavailable" /\ \E w \in Workers :
                          Mine(Own(w)) /\ wk[w].pc \in {"unavailable", "r_lost"}
                    \/ /\ source' = "none" /\ status' = "pending"
                       /\ status = "processing" /\ stale
                       /\ rec.at = "scanned" /\ rec.source = "preparing"
<1> SUFFICES Moved
  OBVIOUS
<1>1. ASSUME NEW w \in Workers PROVE
        ClaimPreparing(w) \/ AdoptReady(w) \/ CommitReady(w) \/ RecordUnavailable(w)
        \/ RecordUnloadable(w) => Moved
  BY DEF ClaimPreparing, AdoptReady, CommitReady, RecordUnavailable, RecordUnloadable
<1>2. ASSUME NEW w \in Workers, PrepareStep(w),
             ~(ClaimPreparing(w) \/ AdoptReady(w) \/ CommitReady(w) \/ RecordUnavailable(w))
      PROVE  source' = source
  BY <1>2 DEF PrepareStep, StartPrepare, Recheck, RetryPrepare, LoadReady, Beat, Acquire,
     Fetch, LockRow, MoveTree, TouchMarker, AdoptMarker, RemoveStagedZip, FinishPrepare, row
<1>3. ASSUME NEW w \in Workers,
             \/ ProcessAnalysis(w) \/ (\E m \in queue : StartRest(w, m)) \/ LoadIndex(w)
             \/ Complete(w) \/ CleanTree(w) \/ CleanRest(w)
             \/ PreparationFails(w) \/ TaskFails(w) \/ LoseWorker(w) \/ Redeliver(w)
      PROVE  source' = source
  BY <1>3 DEF ProcessAnalysis, StartRest, LoadIndex, Complete, CleanTree, CleanRest,
     PreparationFails, TaskFails, LoseWorker, Redeliver, row
<1>4. DemoteStale => Moved
  BY DEF DemoteStale, DemotedSource
<1>5. CASE CancelAnalysis \/ CancelCleansTree \/ CancelCleansRest \/ WakeRetry \/ ScanStale
           \/ RedispatchDemoted \/ RedispatchPending \/ Tick \/ UNCHANGED vars
  BY <1>5 DEF CancelAnalysis, CancelCleansTree, CancelCleansRest, WakeRetry, ScanStale,
     RedispatchDemoted, RedispatchPending, Tick, row, vars
<1> HIDE DEF Moved
<1>6. (source' = source) => Moved
  BY DEF Moved
<1>9. ASSUME NEW w \in Workers, Acts(w) \/ Redeliver(w)
      PROVE  Moved
  BY <1>1, <1>2, <1>3, <1>4, <1>5, <1>6, <1>9 DEF Acts, WorkerStep, PrepareStep
<1> QED BY <1>4, <1>5, <1>6, <1>9 DEF Next, Recover, Acts

\* The status, the claims, what the result was matched against, and the scan.
LEMMA StatusMoves ==
    ASSUME TypeInv, [Next]_vars
    PROVE  /\ status' \in Active => status \in Active
           /\ \/ status' = "completed" => status = "completed" /\ outcome' = outcome
              \/ \E w \in Workers : /\ wk[w].pc = "r_commit" /\ Mine(Own(w))
                                    /\ outcome' = wk[w].saw /\ source' = source
           /\ api' # "idle" => api # "idle" \/ status' = "cancelled"
           /\ gen' \in {gen, gen + 1}
           /\ \/ gen' = gen /\ (status' = "processing" => status = "processing")
              \/ gen' = gen + 1 /\ rec' = rec
           /\ \/ rec' = rec
              \/ rec'.at = "idle"
              \/ rec'.at = "scanned" /\ rec'.gen = gen /\ rec'.source = source
              \/ /\ rec.at = "scanned" /\ rec'.at = "demoted" /\ rec'.gen = rec.gen
                 /\ status' = "pending"
<1> USE DEF Active
<1> DEFINE Status == status' \in Active => status \in Active
           Result == \/ status' = "completed" => status = "completed" /\ outcome' = outcome
                     \/ \E w \in Workers :
                           /\ wk[w].pc = "r_commit" /\ Mine(Own(w))
                           /\ outcome' = wk[w].saw /\ source' = source
           Api == api' # "idle" => api # "idle" \/ status' = "cancelled"
           Gen == /\ gen' \in {gen, gen + 1}
                  /\ \/ gen' = gen /\ (status' = "processing" => status = "processing")
                     \/ gen' = gen + 1 /\ rec' = rec
           Scan == \/ rec' = rec
                   \/ rec'.at = "idle"
                   \/ rec'.at = "scanned" /\ rec'.gen = gen /\ rec'.source = source
                   \/ rec.at = "scanned" /\ rec'.at = "demoted" /\ rec'.gen = rec.gen
                      /\ status' = "pending"
           All == Status /\ Result /\ Api /\ Gen /\ Scan
<1> SUFFICES All
  OBVIOUS
<1>1. UNCHANGED <<status, gen, outcome, rec, api>> => All
  OBVIOUS
<1>2. ASSUME NEW w \in Workers PROVE ProcessAnalysis(w) \/ Complete(w) \/ TaskFails(w) => All
  <2>1. ProcessAnalysis(w) => All
    BY DEF ProcessAnalysis
  <2>2. Complete(w) => All
    BY DEF Complete
  <2>3. TaskFails(w) => All
    BY DEF TaskFails
  <2> QED BY <2>1, <2>2, <2>3
<1>3. CancelAnalysis \/ CancelCleansTree \/ CancelCleansRest => All
  BY DEF CancelAnalysis, CancelCleansTree, CancelCleansRest, row
<1>4. ScanStale \/ DemoteStale \/ RedispatchDemoted \/ RedispatchPending => All
  <2>1. ScanStale => All
    BY DEF ScanStale, row
  <2>2. DemoteStale => All
    <3>1. rec \in [at : {"idle", "scanned", "demoted"}, gen : 0 .. MaxGen, source : Sources]
      BY DEF TypeInv, TypeOK
    <3> QED BY <3>1 DEF DemoteStale, NoScan
  <2>3. RedispatchDemoted => All
    BY DEF RedispatchDemoted, NoScan, row
  <2>4. RedispatchPending => All
    BY DEF RedispatchPending
  <2> QED BY <2>1, <2>2, <2>3, <2>4
<1> HIDE DEF All
<1>5. ASSUME NEW w \in Workers, PrepareStep(w) PROVE All
  <2>1. UNCHANGED <<status, gen, outcome, rec, api>>
    BY <1>5 DEF PrepareStep, StartPrepare, ClaimPreparing, Recheck, RetryPrepare, LoadReady,
       AdoptReady, Beat, Acquire, Fetch, LockRow, MoveTree, TouchMarker, AdoptMarker,
       CommitReady, RemoveStagedZip, RecordUnavailable, FinishPrepare, row
  <2> QED BY <1>1, <2>1
<1>6. ASSUME NEW w \in Workers,
             \/ (\E m \in queue : StartRest(w, m)) \/ LoadIndex(w) \/ RecordUnloadable(w)
             \/ CleanTree(w) \/ CleanRest(w) \/ PreparationFails(w) \/ LoseWorker(w)
             \/ Redeliver(w)
      PROVE  All
  BY <1>1, <1>6 DEF StartRest, LoadIndex, RecordUnloadable, CleanTree, CleanRest,
     PreparationFails, LoseWorker, Redeliver, row
<1>7. CASE WakeRetry \/ Tick \/ UNCHANGED vars
  BY <1>1, <1>7 DEF WakeRetry, Tick, row, vars
<1>9. ASSUME NEW w \in Workers, Acts(w) \/ Redeliver(w)
      PROVE  All
  BY <1>2, <1>3, <1>4, <1>5, <1>6, <1>7, <1>9 DEF Acts, WorkerStep, PrepareStep
<1> QED BY <1>3, <1>4, <1>7, <1>9 DEF Next, Recover, Acts

\* Whatever waits was sent before, or is sent by a claim, a task or the recovery.
LEMMA MessagesMove ==
    ASSUME [Next]_vars, NEW m \in queue' \cup retrying'
    PROVE  \/ m \in queue \cup retrying
           \/ m.task # "rest"
           \/ \E w \in Workers : wk[w].pc # "idle" /\ m = wk[w].msg
           \/ \E w \in Workers : wk[w].pc = "return" /\ m = Rest(Own(w))
<1> DEFINE Sent == \/ m \in queue \cup retrying
                   \/ m.task # "rest"
                   \/ \E w \in Workers : wk[w].pc # "idle" /\ m = wk[w].msg
                   \/ \E w \in Workers : wk[w].pc = "return" /\ m = Rest(Own(w))
<1> SUFFICES Sent
  OBVIOUS
<1>1. UNCHANGED msgs => Sent
  BY DEF msgs
<1>2. ProcessMsg.task # "rest" /\ Prepare(gen + 1).task # "rest"
  BY DEF ProcessMsg, Prepare
<1>3. ASSUME NEW w \in Workers PROVE
        /\ ProcessAnalysis(w) \/ (\E n \in queue : StartPrepare(w, n) \/ StartRest(w, n)) => Sent
        /\ RetryPrepare(w) \/ FinishPrepare(w) \/ LoseWorker(w) \/ Redeliver(w) => Sent
  BY <1>2 DEF ProcessAnalysis, StartPrepare, StartRest, RetryPrepare, FinishPrepare,
     LoseWorker, Redeliver
<1>4. WakeRetry \/ RedispatchDemoted \/ RedispatchPending => Sent
  BY <1>2 DEF WakeRetry, RedispatchDemoted, RedispatchPending
<1> HIDE DEF Sent
<1>5. ASSUME NEW w \in Workers, PrepareStep(w),
             ~(RetryPrepare(w) \/ FinishPrepare(w) \/ \E n \in queue : StartPrepare(w, n))
      PROVE  Sent
  <2>1. UNCHANGED msgs
    BY <1>5 DEF PrepareStep, ClaimPreparing, Recheck, LoadReady, AdoptReady, Beat, Acquire,
       Fetch, LockRow, MoveTree, TouchMarker, AdoptMarker, CommitReady, RemoveStagedZip,
       RecordUnavailable
  <2> QED BY <1>1, <2>1
<1>6. ASSUME NEW w \in Workers,
             LoadIndex(w) \/ RecordUnloadable(w) \/ Complete(w) \/ CleanTree(w) \/ CleanRest(w)
             \/ TaskFails(w) \/ PreparationFails(w)
      PROVE  Sent
  BY <1>1, <1>6 DEF LoadIndex, RecordUnloadable, Complete, CleanTree, CleanRest, TaskFails,
     PreparationFails
<1>7. CASE CancelAnalysis \/ CancelCleansTree \/ CancelCleansRest \/ ScanStale \/ DemoteStale
           \/ Tick \/ UNCHANGED vars
  BY <1>1, <1>7 DEF CancelAnalysis, CancelCleansTree, CancelCleansRest, ScanStale,
     DemoteStale, Tick, vars, msgs
<1>9. ASSUME NEW w \in Workers, Acts(w) \/ Redeliver(w)
      PROVE  Sent
  BY <1>3, <1>4, <1>5, <1>6, <1>7, <1>9 DEF Acts, WorkerStep, PrepareStep
<1> QED BY <1>4, <1>7, <1>9 DEF Next, Recover, Acts

-----------------------------------------------------------------------------
(* What is published                                                       *)

\* A tree is published only by a worker of the generation that is being processed,
\* while the source is being prepared: the transaction that locked the row is open.
THEOREM PublishedByOwner == Spec => SourceOfOwner
<1> DEFINE Published == tree' \notin {0, tree} => tree' = gen /\ Mine(gen) /\ source = "preparing"
           PubInv    == TypeInv /\ PublicationHolds
<1>1. Init => PubInv
  <2>1. Init => PublicationHolds
    BY DEF Init, PublicationHolds, Publishing, Idle
  <2> QED BY <2>1, TypeInit
<1>2. PubInv /\ [Next]_vars => PubInv'
  BY TypeStep, PublicationStep
<1>3. PubInv /\ [Next]_vars => Published
  <2> SUFFICES ASSUME PubInv, [Next]_vars, tree' \notin {0, tree}
               PROVE  tree' = gen /\ Mine(gen) /\ source = "preparing"
    OBVIOUS
  <2>1. PICK w \in Workers : wk[w].pc = "p_move" /\ tree' = Own(w)
    BY FilesMove
  <2> QED BY <2>1 DEF PublicationHolds, Publishing, Current, Mine
<1>4. PubInv /\ [Next]_vars => [Published]_vars
  BY <1>3
<1> HIDE DEF PubInv
<1> QED BY <1>1, <1>2, <1>4, PTL DEF Spec, SourceOfOwner

-----------------------------------------------------------------------------
(* Where a task is, and where it came from                                 *)

\* A worker takes a message.
Began(w) ==
    \E m \in queue :
        /\ m.task # "process"
        /\ wk'[w].msg = m /\ wk'[w].temp = FALSE /\ source' = source
        /\ \/ wk'[w].pc = "claim"
           \/ wk'[w].pc = "return" /\ (~Mine(m.gen) \/ source = "unavailable")
           \/ wk'[w].pc = "dropzip" /\ source = "ready" /\ Mine(m.gen)
           \/ /\ wk'[w].pc = "r_load" /\ wk'[w].saw = source /\ m.task = "rest"
              /\ Mine(m.gen) /\ ~stale'

\* What brings a task from one step to the next.
From(w, S) == wk[w].pc \in S
CameFrom(w) ==
    /\ wk'[w].pc = "beat" =>
         From(w, {"claim"}) /\ Mine(Own(w)) /\ source = "none" /\ source' = "preparing"
    /\ wk'[w].pc = "acquire" => From(w, {"beat"}) /\ (Mine(Own(w)) => ~stale')
    /\ wk'[w].pc = "adopt" => From(w, {"load"}) /\ marker
    /\ wk'[w].pc = "fetch" => From(w, {"acquire"}) /\ wk'[w].temp /\ ~marker
    /\ wk'[w].pc = "lock_ready" => From(w, {"acquire"}) /\ marker
    /\ wk'[w].pc = "lock_fresh" => From(w, {"fetch"}) /\ wk'[w].temp
    /\ wk'[w].pc = "p_move" => From(w, {"lock_fresh"}) /\ wk'[w].temp = wk[w].temp
    /\ wk'[w].pc = "p_adopt" => From(w, {"lock_ready"})
    /\ wk'[w].pc = "p_mark" => From(w, {"p_move"}) /\ tree' = Own(w)
    /\ wk'[w].pc = "p_commit" =>
         \/ From(w, {"p_mark"}) /\ marker'
         \/ From(w, {"p_adopt", "p_move"}) /\ marker
    /\ wk'[w].pc = "unavailable" =>
         /\ From(w, Preparing)
         /\ \/ From(w, {"fetch"}) /\ (~wk[w].temp \/ zip = "removed")
            \/ From(w, {"p_move"}) /\ ~wk[w].temp
            \/ "source" \in Faults
    /\ wk'[w].pc = "dropzip" =>
         \/ From(w, {"recheck", "readopt"}) /\ source = "ready" /\ source' = source
            /\ Mine(Own(w))
         \/ From(w, {"adopt", "p_commit"}) /\ source' = "ready"
    /\ wk'[w].pc = "return" =>
         \/ From(w, {"recheck", "readopt"}) /\ (~Mine(Own(w)) \/ source = "unavailable")
         \/ From(w, {"lock_fresh", "lock_ready"})
            /\ ~(Mine(Own(w)) /\ source = "preparing") /\ source' = source
         \/ From(w, {"p_adopt"}) /\ ~marker
         \/ From(w, {"unavailable"}) /\ ~Mine(Own(w))
         \/ From(w, {"clean_rest"})
         \/ From(w, {"dropzip"}) /\ source' = source
    /\ wk'[w].pc = "clean_tree" =>
         \/ status' \notin Active
         \/ From(w, {"unavailable"}) /\ Mine(Own(w)) /\ source' = "unavailable"
    /\ wk'[w].pc = "clean_rest" => From(w, {"clean_tree"})
    /\ wk'[w].pc # "r_load"
    /\ wk'[w].pc = "r_lost" =>
         From(w, {"r_load"}) /\ wk[w].saw = "ready" /\ (~marker \/ "source" \in Faults)
    /\ wk'[w].pc = "r_dropzip" => From(w, {"r_lost"}) /\ source' = "unavailable"
    /\ wk'[w].pc = "r_commit" =>
         \/ From(w, {"r_lost"}) /\ ~Mine(Own(w))
         \/ From(w, {"r_dropzip"})
         \/ From(w, {"r_load"}) /\ wk[w].saw # "ready"
         \/ /\ From(w, {"r_load"}) /\ wk[w].saw = "ready" /\ marker
            /\ tree # 0 => wk'[w].saw = "whole"

LEMMA Goings ==
    ASSUME TypeOK, NEW w \in Workers, Acts(w), wk'[w] # wk[w], wk'[w].pc # "idle"
    PROVE  \/ Began(w)
           \/ wk[w].pc # "idle" /\ wk'[w].msg = wk[w].msg /\ CameFrom(w)
<1> USE DEF Pcs, PreparePcs, From
<1> DEFINE Gone == wk[w].pc # "idle" /\ wk'[w].msg = wk[w].msg /\ CameFrom(w)
<1> SUFFICES Began(w) \/ Gone
  OBVIOUS
<1>0. wk'[w] # wk[w] /\ Idle.pc = "idle"
  BY DEF Idle
<1>1. \A pc \in Pcs : Step(w, pc) => Goes(w, pc) /\ wk'[w].temp = wk[w].temp
  BY StepGoes
<1>2. \A pc \in Pcs, temp \in BOOLEAN :
         wk' = [wk EXCEPT ![w].pc = pc, ![w].temp = temp] => Goes(w, pc) /\ wk'[w].temp = temp
  BY TempGoes
<1>3. ProcessAnalysis(w) => FALSE
  BY <1>0 DEF ProcessAnalysis
<1>4. ASSUME NEW m \in queue, StartPrepare(w, m) PROVE Began(w)
  <2>1. source' = source /\ m.task = "prepare"
    BY <1>4 DEF StartPrepare, row
  <2> QED BY <1>4, <2>1, StartPrepareGoes DEF Began, Begins
<1>5. ASSUME NEW m \in queue, StartRest(w, m) PROVE Began(w)
  <2>1. source' = source /\ m.task = "rest" /\ (Mine(m.gen) => ~stale')
    BY <1>5 DEF StartRest
  <2> QED BY <1>0, <1>5, <2>1, StartRestGoes DEF Began, Begins
<1>6. RetryPrepare(w) \/ FinishPrepare(w) \/ LoseWorker(w) => FALSE
  BY <1>0, StopEnds DEF RetryPrepare, FinishPrepare, LoseWorker, Ends
<1>7. ClaimPreparing(w) \/ Recheck(w) \/ LoadReady(w) \/ AdoptReady(w) => Gone
  <2>1. ClaimPreparing(w) => Gone
    BY <1>1 DEF ClaimPreparing, Goes, CameFrom
  <2>2. Recheck(w) => Gone
    BY <1>1 DEF Recheck, Goes, CameFrom, row
  <2>3. LoadReady(w) => Gone
    BY <1>1 DEF LoadReady, Goes, CameFrom
  <2>4. AdoptReady(w) => Gone
    BY <1>1 DEF AdoptReady, Goes, CameFrom
  <2> QED BY <2>1, <2>2, <2>3, <2>4
<1>8. Beat(w) \/ Acquire(w) \/ Fetch(w) \/ LockRow(w) => Gone
  <2>1. Beat(w) => Gone
    <3> SUFFICES ASSUME Beat(w) PROVE Gone
      OBVIOUS
    <3>1. Goes(w, "acquire") /\ From(w, {"beat"})
      BY <1>1 DEF Beat
    <3>2. Mine(Own(w)) => ~stale'
      BY DEF Beat
    <3> QED BY <3>1, <3>2 DEF Goes, CameFrom
  <2>2. Acquire(w) => Gone
    BY AcquireGoes DEF Acquire, Goes, CameFrom
  <2>3. Fetch(w) => Gone
    <3> SUFFICES ASSUME Fetch(w) PROVE Gone
      OBVIOUS
    <3>1. \/ Goes(w, "lock_fresh") /\ wk'[w].temp
          \/ Goes(w, "unavailable") /\ (~wk[w].temp \/ zip = "removed")
      BY <1>2 DEF Fetch
    <3> QED BY <3>1 DEF Fetch, Goes, CameFrom, Preparing
  <2>4. LockRow(w) => Gone
    <3> SUFFICES ASSUME LockRow(w) PROVE Gone
      OBVIOUS
    <3>1. \/ From(w, {"lock_fresh"}) /\ Goes(w, "p_move") /\ wk'[w].temp = wk[w].temp
          \/ From(w, {"lock_ready"}) /\ Goes(w, "p_adopt")
          \/ Goes(w, "return") /\ ~(Mine(Own(w)) /\ source = "preparing")
      BY <1>1, <1>2 DEF LockRow
    <3> QED BY <3>1 DEF LockRow, Goes, CameFrom, row
  <2> QED BY <2>1, <2>2, <2>3, <2>4
<1>9. MoveTree(w) \/ TouchMarker(w) \/ AdoptMarker(w) \/ CommitReady(w) => Gone
  <2>1. MoveTree(w) => Gone
    <3> SUFFICES ASSUME MoveTree(w) PROVE Gone
      OBVIOUS
    <3>1. \/ Goes(w, "p_commit") /\ marker
          \/ Goes(w, "p_mark") /\ tree' = Own(w)
          \/ Goes(w, "unavailable") /\ ~wk[w].temp
      BY <1>1, <1>2 DEF MoveTree
    <3> QED BY <3>1 DEF MoveTree, Goes, CameFrom, Preparing
  <2>2. TouchMarker(w) => Gone
    <3> SUFFICES ASSUME TouchMarker(w) PROVE Gone
      OBVIOUS
    <3>1. Goes(w, "p_commit") /\ wk[w].pc = "p_mark"
      BY <1>1 DEF TouchMarker
    <3>2. marker' = TRUE
      BY DEF TouchMarker
    <3> QED BY <3>1, <3>2 DEF Goes, CameFrom
  <2>3. AdoptMarker(w) => Gone
    BY <1>1 DEF AdoptMarker, Goes, CameFrom
  <2>4. CommitReady(w) => Gone
    <3> SUFFICES ASSUME CommitReady(w) PROVE Gone
      OBVIOUS
    <3>1. Goes(w, "dropzip") /\ wk[w].pc = "p_commit" /\ source' = "ready"
      BY <1>2 DEF CommitReady
    <3> QED BY <3>1 DEF Goes, CameFrom
  <2> QED BY <2>1, <2>2, <2>3, <2>4
<1>10. RemoveStagedZip(w) \/ RecordUnavailable(w) \/ CleanTree(w) \/ RecordUnloadable(w) => Gone
  <2>1. RemoveStagedZip(w) => Gone
    BY <1>1 DEF RemoveStagedZip, Goes, CameFrom, row
  <2>2. RecordUnavailable(w) => Gone
    BY RecordGoes DEF RecordUnavailable, Goes, CameFrom
  <2>3. CleanTree(w) => Gone
    BY <1>1 DEF CleanTree, Goes, CameFrom
  <2>4. RecordUnloadable(w) => Gone
    BY <1>1 DEF RecordUnloadable, Goes, CameFrom
  <2> QED BY <2>1, <2>2, <2>3, <2>4
<1>11. LoadIndex(w) => Gone
  BY LoadIndexGoes DEF LoadIndex, CameFrom
<1>12. Complete(w) => Gone
  <2>1. CASE Mine(Own(w))
    BY <1>1, <2>1 DEF Complete, Goes, CameFrom, Active
  <2>2. CASE ~Mine(Own(w))
    BY <1>0, <2>2, StopEnds DEF Complete, Ends
  <2> QED BY <2>1, <2>2
<1>13. CleanRest(w) => Gone
  BY <1>0, CleanRestKeeps DEF CleanRest, CameFrom
<1>15. PreparationFails(w) => Gone
  <2> SUFFICES ASSUME PreparationFails(w) PROVE Gone
    OBVIOUS
  <2>1. Goes(w, "unavailable") /\ wk[w].pc \in Preparing /\ "source" \in Faults
    BY <1>2 DEF PreparationFails, MayFail
  <2> QED BY <2>1 DEF Goes, CameFrom, Preparing
<1>14. TaskFails(w) => Gone
  <2>1. CASE status \in Active /\ gen = Own(w)
    <3> SUFFICES ASSUME TaskFails(w) PROVE Gone
      OBVIOUS
    <3>1. /\ Step(w, "clean_tree")
          /\ wk[w].pc # "idle" /\ status' = "failed"
      BY <2>1 DEF TaskFails
    <3>2. Goes(w, "clean_tree")
      BY <1>1, <3>1
    <3>3. wk[w].pc # "idle" /\ status' \notin Active
      BY <3>1 DEF Active
    <3> QED BY <3>2, <3>3 DEF Goes, CameFrom
  <2>2. CASE ~(status \in Active /\ gen = Own(w))
    BY <1>0, <2>2, StopEnds DEF TaskFails, Ends
  <2> QED BY <2>1, <2>2
<1> QED
  BY <1>3, <1>4, <1>5, <1>6, <1>7, <1>8, <1>9, <1>10, <1>11, <1>12, <1>13, <1>14, <1>15
     DEF Acts, WorkerStep, PrepareStep

\* Whatever happens, a worker rests, stops, begins a task or goes on with its own.
LEMMA Moves ==
    ASSUME TypeOK, [Next]_vars, NEW w \in Workers
    PROVE  \/ Rests(w)
           \/ Acts(w) /\ wk'[w].pc = "idle"
           \/ Acts(w) /\ Began(w)
           \/ Acts(w) /\ wk[w].pc # "idle" /\ wk'[w].msg = wk[w].msg /\ CameFrom(w)
<1>1. wk'[w] = wk[w] => Rests(w)
  BY DEF Rests, Same
<1> QED BY <1>1, OneActs, Goings

-----------------------------------------------------------------------------
(* One owner of the preparation                                            *)

LEMMA CurrentBefore ==
    ASSUME TypeInv, [Next]_vars, NEW w \in Workers,
           wk[w].pc # "idle", wk'[w].msg = wk[w].msg, Current(w)'
    PROVE  Current(w)
<1>1. Own(w) \in 0 .. gen /\ Own(w)' = Own(w) /\ Mine(Own(w))'
  BY SourceAssumption DEF TypeInv, TypeOK, GenerationsKnown, Own, Current
<1> QED BY <1>1, OverStays DEF Current

\* A task comes to own the preparation by the claim alone.
LEMMA ClaimedBefore ==
    ASSUME TypeInv, [Next]_vars, NEW w \in Workers,
           wk'[w].pc \in Claimed, Current(w)'
    PROVE  /\ Current(w)
           /\ \/ wk[w].pc \in Claimed
              \/ ~Rests(w) /\ source = "none" /\ source' = "preparing"
<1> USE DEF Claimed, Publishing
<1>1. CASE Rests(w)
  BY <1>1, CurrentBefore DEF Rests, Same
<1>2. CASE ~Rests(w)
  <2>1. ~Began(w)
    BY DEF Began
  <2>2. wk[w].pc # "idle" /\ wk'[w].msg = wk[w].msg /\ CameFrom(w)
    BY <1>2, <2>1, Moves DEF TypeInv, Claimed
  <2>3. Current(w)
    BY <2>2, CurrentBefore
  <2>4. wk[w].pc \in Claimed \/ (source = "none" /\ source' = "preparing")
    BY <2>2 DEF CameFrom, From
  <2> QED BY <1>2, <2>3, <2>4
<1> QED BY <1>1, <1>2

LEMMA ClaimStep ==
    ASSUME TypeInv, ClaimHolds, [Next]_vars
    PROVE  ClaimHolds'
<1> DEFINE Owns(w) == wk[w].pc \in Claimed /\ Current(w)
<1>1. \A v, w \in Workers : v = w \/ Rests(v) \/ Rests(w)
  BY OneActs DEF TypeInv
<1>2. \A w \in Workers : Owns(w)' =>
         Owns(w) \/ (~Rests(w) /\ source = "none" /\ source' = "preparing")
  BY ClaimedBefore
<1>3. \A w \in Workers : Owns(w) => source # "none" /\ \A v \in Workers : Owns(v) => v = w
  BY DEF ClaimHolds
<1>4. ASSUME NEW w \in Workers, Owns(w)' PROVE source' # "none"
  <2>1. status' # "pending"
    BY <1>4 DEF Current, Mine
  <2> QED BY <1>2, <1>3, <1>4, <2>1, SourceMoves
<1> HIDE DEF Owns
<1>5. ASSUME NEW w \in Workers, Owns(w)', NEW v \in Workers, Owns(v)' PROVE v = w
  BY <1>1, <1>2, <1>3, <1>5
<1> QED BY <1>4, <1>5 DEF ClaimHolds, Owns

-----------------------------------------------------------------------------
(* A source is whole wherever its preparation stops                        *)

Alive == status \in Active

\* What has failed is about to be removed; what has not is kept whole.
Usable == Alive /\ source # "unavailable"

\* What the recovery scan demotes is not worked at by the generation that follows.
DemotionHolds ==
    /\ rec.at # "idle" => rec.gen <= gen
    /\ rec.at = "demoted" /\ status = "processing" => rec.gen < gen

\* Nothing is cleaned while the source can be used.
Cleanup == {"clean_tree", "clean_rest", "r_dropzip"}
CleanHolds ==
    Usable => api = "idle" /\ \A w \in Workers : wk[w].pc \notin Cleanup

\* The tree comes before the marker, and that before all that relies on it.
NeedsMarker(w) ==
    \/ wk[w].pc \in {"adopt", "lock_ready", "p_adopt", "p_commit", "dropzip"}
    \/ wk[w].pc = "r_load" /\ wk[w].saw = "ready"
TreeHolds ==
    Usable => /\ marker => tree # 0
              /\ source = "ready" \/ zip = "removed" => marker
              /\ \A w \in Workers : /\ wk[w].pc = "p_mark" => tree # 0
                                    /\ NeedsMarker(w) => marker

\* The diagnostics of a generation begin when its source is ready or given up, and
\* a source that is still ready was seen so and loaded whole.
Settled == source \in {"ready", "unavailable"}
DiagnosticsHold ==
    /\ \A m \in queue \cup retrying : m.task = "rest" /\ Mine(m.gen) => Settled
    /\ \A w \in Workers : Current(w) =>
         /\ wk[w].msg.task = "rest" \/ wk[w].pc \in {"dropzip", "return"} => Settled
         /\ wk[w].pc = "r_load" => wk[w].saw = "ready" \/ source = "unavailable"
         /\ wk[w].pc = "r_commit" => wk[w].saw = "whole" \/ source = "unavailable"

ResultHolds == status = "completed" /\ source = "ready" => outcome = "whole"

\* Without failures of the source its preparation is never given up: the owner has
\* its private directory until that is published.
NothingFails ==
    /\ Alive => source # "unavailable"
    /\ \A w \in Workers : Current(w) =>
         /\ wk[w].pc \in {"fetch", "lock_fresh", "p_move"} => wk[w].temp /\ ~marker
         /\ wk[w].pc \notin {"unavailable", "r_lost"}

\* When workers are prompt, nobody who might give up the source of a generation is
\* at work while recovery takes that generation for dead.
AtWork == Preparing \cup {"unavailable", "r_load", "r_lost"}
NothingRaces ==
    stale /\ status = "processing" =>
        /\ rec.at = "scanned" /\ rec.source = "preparing" => source # "unavailable"
        /\ \A w \in Workers : Current(w) => wk[w].pc \notin AtWork

ReadInv ==
    /\ TypeInv /\ PublicationHolds /\ ClaimHolds /\ DemotionHolds /\ CleanHolds
    /\ TreeHolds /\ DiagnosticsHold /\ ResultHolds
    /\ "source" \notin Faults => NothingFails
    /\ PromptWorkers => NothingRaces

LEMMA CurrentIsAlive == \A w \in Workers : Current(w) => Alive /\ Own(w) = gen
BY DEF Current, Mine, Alive, Active

LEMMA DemotionStep ==
    ASSUME TypeInv, DemotionHolds, [Next]_vars
    PROVE  DemotionHolds'
<1>1. gen \in Nat /\ rec.gen \in Nat
  BY SourceAssumption DEF TypeInv, TypeOK
<1> QED BY <1>1, StatusMoves DEF DemotionHolds

\* The preparation of a source that was given up is not taken up again, unless a
\* demotion forgets the failure.
LEMMA GivenUpStays ==
    ASSUME ReadInv, [Next]_vars, "source" \notin Faults \/ PromptWorkers,
           Alive', source = "unavailable"
    PROVE  source' = "unavailable"
<1>1. Alive
  BY StatusMoves DEF Alive, ReadInv
<1>2. ~(stale /\ status = "processing" /\ rec.at = "scanned" /\ rec.source = "preparing")
  BY <1>1 DEF ReadInv, NothingFails, NothingRaces
<1>3. \A w \in Workers : wk[w].pc # "p_commit"
  BY DEF ReadInv, PublicationHolds, Publishing
<1> QED BY <1>2, <1>3, SourceMoves

LEMMA UsableBefore ==
    ASSUME ReadInv, [Next]_vars, "source" \notin Faults \/ PromptWorkers, Usable'
    PROVE  Usable
<1>1. Alive /\ Alive'
  BY StatusMoves DEF Alive, Usable, ReadInv
<1> QED BY <1>1, GivenUpStays DEF Usable

LEMMA CleanStep ==
    ASSUME ReadInv, [Next]_vars, "source" \notin Faults \/ PromptWorkers
    PROVE  CleanHolds'
<1> SUFFICES ASSUME Usable'
             PROVE  api' = "idle" /\ \A w \in Workers : wk'[w].pc \notin Cleanup
  BY DEF CleanHolds
<1> USE DEF Cleanup
<1>1. Usable /\ status' \in Active /\ source' # "unavailable" /\ "cancelled" \notin Active
  BY UsableBefore DEF Usable, Alive, Active
<1>2. api = "idle" /\ \A w \in Workers : wk[w].pc \notin Cleanup
  BY <1>1 DEF CleanHolds, ReadInv
<1>3. api' = "idle"
  BY <1>1, <1>2, StatusMoves DEF ReadInv
<1>4. ASSUME NEW w \in Workers PROVE wk'[w].pc \notin Cleanup
  <2>1. CASE Rests(w)
    BY <1>2, <2>1 DEF Rests, Same
  <2>2. CASE Began(w)
    BY <2>2 DEF Began
  <2>3. CASE wk[w].pc # "idle" /\ CameFrom(w)
    BY <1>1, <1>2, <2>3 DEF CameFrom, From
  <2>4. CASE wk'[w].pc = "idle"
    BY <2>4
  <2> QED BY <2>1, <2>2, <2>3, <2>4, Moves DEF ReadInv, TypeInv
<1> QED BY <1>3, <1>4

\* While the source can be used, its marker stays, and its tree from the marker on.
LEMMA FilesStay ==
    ASSUME ReadInv, [Next]_vars, "source" \notin Faults \/ PromptWorkers, Usable'
    PROVE  /\ Usable
           /\ marker => marker'
           /\ tree # 0 /\ tree' = 0 =>
                ~marker /\ \A w \in Workers : wk[w].pc \in Publishing => wk[w].pc = "p_move"
           /\ zip' = "removed" => zip = "removed" \/ marker
<1>1. Usable
  BY UsableBefore
<1>2. ~Cleaning("clean_tree") /\ ~Cleaning("clean_rest")
      /\ \A w \in Workers : wk[w].pc # "r_dropzip"
  BY <1>1 DEF ReadInv, CleanHolds, Cleaning, Cleanup
<1>3. \A w \in Workers : wk[w].pc = "p_move" => Own(w) # 0
  BY SourceAssumption DEF ReadInv, TypeInv, TypeOK, GenerationsKnown
<1>4. \A v, w \in Workers : wk[v].pc \in Publishing /\ wk[w].pc \in Publishing => v = w
  BY DEF ReadInv, PublicationHolds
<1>5. \A w \in Workers : wk[w].pc = "dropzip" => marker
  BY <1>1 DEF ReadInv, TreeHolds, NeedsMarker
<1>6. marker => marker'
  BY <1>2, FilesMove
<1>7. ASSUME tree # 0, tree' = 0
      PROVE  ~marker /\ \A w \in Workers : wk[w].pc \in Publishing => wk[w].pc = "p_move"
  <2>1. PICK w \in Workers : wk[w].pc = "p_move" /\ ~marker
    BY <1>2, <1>7, FilesMove
  <2>2. wk[w].pc \in Publishing
    BY <2>1 DEF Publishing
  <2> QED BY <1>4, <2>1, <2>2
<1>8. zip' = "removed" => zip = "removed" \/ marker
  BY <1>2, <1>5, FilesMove
<1> QED BY <1>1, <1>6, <1>7, <1>8

\* A source that is ready stays so while its generation is current, or is given up.
LEMMA SettledStays ==
    ASSUME ReadInv, [Next]_vars, "source" \notin Faults \/ PromptWorkers,
           status' = "processing", Settled
    PROVE  Settled'
<1>1. Alive'
  BY DEF Alive, Active
<1> QED BY <1>1, GivenUpStays, SourceMoves DEF Settled

LEMMA TreeStep ==
    ASSUME ReadInv, [Next]_vars, "source" \notin Faults \/ PromptWorkers
    PROVE  TreeHolds'
<1> SUFFICES ASSUME Usable' PROVE TreeHolds'
  BY DEF TreeHolds
<1>0. /\ Usable /\ (marker => marker')
      /\ tree # 0 /\ tree' = 0 =>
           ~marker /\ \A w \in Workers : wk[w].pc \in Publishing => wk[w].pc = "p_move"
      /\ zip' = "removed" => zip = "removed" \/ marker
  BY FilesStay
<1>1. /\ marker => tree # 0
      /\ source = "ready" \/ zip = "removed" => marker
      /\ \A w \in Workers : (wk[w].pc = "p_mark" => tree # 0) /\ (NeedsMarker(w) => marker)
  BY <1>0 DEF ReadInv, TreeHolds
<1>2. marker' => tree' # 0
  <2>1. marker' => marker \/ \E w \in Workers : wk[w].pc = "p_mark"
    BY <1>0, FilesMove DEF ReadInv, CleanHolds, Cleaning, Cleanup
  <2> QED BY <1>0, <1>1, <2>1 DEF Publishing
<1>3. source' = "ready" => marker'
  <2>1. source' = "ready" => source = "ready" \/ \E w \in Workers : NeedsMarker(w)
    BY SourceMoves DEF NeedsMarker
  <2> QED BY <1>0, <1>1, <2>1
<1>4. zip' = "removed" => marker'
  BY <1>0, <1>1
<1>5. ASSUME NEW w \in Workers
      PROVE  (wk'[w].pc = "p_mark" => tree' # 0) /\ (NeedsMarker(w)' => marker')
  <2>1. CASE Rests(w)
    <3>1. wk'[w].pc = wk[w].pc /\ wk'[w].saw = wk[w].saw
      BY <2>1 DEF Rests, Same
    <3>2. wk[w].pc = "p_mark" => tree' # 0
      BY <1>0, <1>1 DEF Publishing
    <3> QED BY <1>0, <1>1, <3>1, <3>2 DEF NeedsMarker
  <2>2. CASE ~Rests(w) /\ Began(w)
    BY <1>0, <1>1, <2>2 DEF Began, NeedsMarker
  <2>3. CASE ~Rests(w) /\ ~Began(w) /\ wk'[w].pc # "idle"
    <3>1. wk[w].pc # "idle" /\ CameFrom(w)
      BY <2>3, Moves DEF ReadInv, TypeInv
    <3>2. Own(w) # 0
      BY <3>1, SourceAssumption DEF ReadInv, TypeInv, TypeOK, GenerationsKnown
    <3>3. wk'[w].pc = "p_mark" => tree' # 0
      BY <3>1, <3>2 DEF CameFrom
    <3>4. NeedsMarker(w)' => marker'
      <4>1. wk'[w].pc # "r_load"
        BY <3>1 DEF CameFrom
      <4>2. wk'[w].pc \in {"adopt", "lock_ready"} => marker
        BY <3>1 DEF CameFrom
      <4>3. wk'[w].pc = "p_adopt" => marker
        BY <1>1, <3>1 DEF CameFrom, From, NeedsMarker
      <4>4. wk'[w].pc = "p_commit" => marker'
        BY <1>0, <3>1 DEF CameFrom
      <4>5. wk'[w].pc = "dropzip" => marker'
        BY <1>3, <3>1 DEF CameFrom
      <4> QED BY <1>0, <4>1, <4>2, <4>3, <4>4, <4>5 DEF NeedsMarker
    <3> QED BY <3>3, <3>4
  <2>4. CASE wk'[w].pc = "idle"
    BY <2>4 DEF NeedsMarker
  <2> QED BY <2>1, <2>2, <2>3, <2>4
<1> QED BY <1>2, <1>3, <1>4, <1>5 DEF TreeHolds

\* Neither a rival nor the recovery takes the private directory of the owner.
LEMMA NothingFailsStep ==
    ASSUME ReadInv, [Next]_vars, "source" \notin Faults
    PROVE  NothingFails'
<1> DEFINE Ready == {"fetch", "lock_fresh", "p_move"}
<1>0. NothingFails
  BY DEF ReadInv
<1>1. ASSUME Alive' PROVE Usable' /\ Usable
  <2>1. Alive /\ source # "unavailable"
    BY <1>0, <1>1, StatusMoves DEF Alive, ReadInv, NothingFails
  <2>2. \A w \in Workers : Mine(Own(w)) => wk[w].pc \notin {"unavailable", "r_lost"}
    BY <1>0 DEF NothingFails, Current
  <2> QED BY <1>1, <2>1, <2>2, SourceMoves DEF Usable
<1> SUFFICES ASSUME NEW w \in Workers, Current(w)'
             PROVE  /\ wk'[w].pc \in Ready => wk'[w].temp /\ ~marker'
                    /\ wk'[w].pc \notin {"unavailable", "r_lost"}
  BY <1>1 DEF NothingFails, Usable
<1>2. Usable' /\ Usable /\ wk'[w].pc # "idle"
  BY <1>1 DEF Current, Mine, Alive, Active
<1>3. ~Cleaning("clean_rest")
  BY <1>2 DEF ReadInv, CleanHolds, Cleaning, Cleanup
\* Nobody else publishes a tree beside the owner.
<1>4. ASSUME Current(w), wk[w].pc \in Claimed, wk[w].pc # "p_mark", marker' PROVE marker
  <2>1. CASE \E v \in Workers : wk[v].pc = "p_mark"
    <3>1. PICK v \in Workers : wk[v].pc = "p_mark"
      BY <2>1
    <3>2. Current(v) /\ v # w
      BY <1>4, <3>1 DEF ReadInv, PublicationHolds, Publishing
    <3>3. wk[v].pc \in Claimed
      BY <3>1 DEF Claimed, Publishing
    <3> QED BY <1>4, <3>2, <3>3 DEF ReadInv, ClaimHolds
  <2>2. CASE ~ \E v \in Workers : wk[v].pc = "p_mark"
    BY <1>3, <1>4, <2>2, FilesMove
  <2> QED BY <2>1, <2>2
<1>5. Current(w) => /\ wk[w].pc \in Ready => wk[w].temp /\ ~marker
                    /\ wk[w].pc \notin {"unavailable", "r_lost"}
  BY <1>0 DEF NothingFails
<1>6. wk[w].pc \in Ready \cup {"acquire"} => wk[w].pc \in Claimed /\ wk[w].pc # "p_mark"
  BY DEF Claimed, Publishing
<1>7. CASE Rests(w)
  <2>1. Current(w)
    BY <1>2, <1>7, CurrentBefore DEF ReadInv, Rests, Same
  <2>2. ~(rec.at = "demoted" /\ Own(w) = rec.gen)
    BY <2>1, SourceAssumption
       DEF ReadInv, TypeInv, TypeOK, DemotionHolds, Current, Mine
  <2>3. wk'[w].temp = wk[w].temp /\ wk'[w].pc = wk[w].pc
    BY <1>3, <1>7, <2>2 DEF Rests, Same
  <2> QED BY <1>4, <1>5, <1>6, <2>1, <2>3
<1>8. CASE Began(w)
  BY <1>8 DEF Began
<1>9. CASE wk[w].pc # "idle" /\ wk'[w].msg = wk[w].msg /\ CameFrom(w)
  <2>1. Current(w)
    BY <1>9, CurrentBefore DEF ReadInv
  <2>2. /\ zip = "removed" => marker
        /\ wk[w].pc = "r_load" /\ wk[w].saw = "ready" => marker
    BY <1>2 DEF ReadInv, TreeHolds, NeedsMarker
  <2>3. wk'[w].pc \notin {"unavailable", "r_lost"}
    BY <1>5, <1>9, <2>1, <2>2 DEF CameFrom, From
  <2>4. wk'[w].pc \in Ready => wk[w].pc \in Ready \cup {"acquire"} /\ wk'[w].temp /\ ~marker
    BY <1>5, <1>9, <2>1 DEF CameFrom, From
  <2> QED BY <1>4, <1>6, <2>1, <2>3, <2>4
<1> QED BY <1>2, <1>7, <1>8, <1>9, Moves DEF ReadInv, TypeInv

\* A generation that is processing comes to look dead only while nobody is at work.
LEMMA StaleMoves ==
    ASSUME [Next]_vars, stale', status' = "processing"
    PROVE  /\ status = "processing" /\ gen' = gen
           /\ \/ stale
              \/ /\ rec.at = "idle" /\ rec' = rec /\ wk' = wk
                 /\ PromptWorkers => \A w \in Workers : wk[w].pc = "idle"
<1> DEFINE Goal == /\ status = "processing" /\ gen' = gen
                   /\ \/ stale
                      \/ /\ rec.at = "idle" /\ rec' = rec /\ wk' = wk
                         /\ PromptWorkers => \A w \in Workers : wk[w].pc = "idle"
<1> SUFFICES Goal
  OBVIOUS
<1>1. UNCHANGED <<status, gen, stale>> => Goal
  OBVIOUS
<1>2. ASSUME NEW w \in Workers PROVE
        ProcessAnalysis(w) \/ Beat(w) \/ Complete(w) \/ TaskFails(w) => Goal
  BY DEF ProcessAnalysis, Beat, Complete, TaskFails
<1>3. ASSUME NEW w \in Workers, PrepareStep(w), ~Beat(w) PROVE Goal
  <2>1. UNCHANGED <<status, gen, stale>>
    BY <1>3 DEF PrepareStep, StartPrepare, ClaimPreparing, Recheck, RetryPrepare, LoadReady,
       AdoptReady, Acquire, Fetch, LockRow, MoveTree, TouchMarker, AdoptMarker,
       CommitReady, RemoveStagedZip, RecordUnavailable, FinishPrepare, row
  <2> QED BY <1>1, <2>1
<1>4. ASSUME NEW w \in Workers,
             \/ (\E m \in queue : StartRest(w, m)) \/ LoadIndex(w) \/ RecordUnloadable(w)
             \/ CleanTree(w) \/ CleanRest(w) \/ PreparationFails(w) \/ LoseWorker(w)
             \/ Redeliver(w)
      PROVE  Goal
  BY <1>4 DEF StartRest, LoadIndex, RecordUnloadable, CleanTree, CleanRest,
     PreparationFails, LoseWorker, Redeliver, row
<1>5. CASE CancelAnalysis \/ CancelCleansTree \/ CancelCleansRest \/ WakeRetry
           \/ ScanStale \/ DemoteStale \/ RedispatchDemoted \/ RedispatchPending
           \/ UNCHANGED vars
  BY <1>5 DEF CancelAnalysis, CancelCleansTree, CancelCleansRest, WakeRetry, ScanStale,
     DemoteStale, RedispatchDemoted, RedispatchPending, row, vars
<1>6. CASE Tick
  BY <1>6 DEF Tick, Active
<1> HIDE DEF Goal
<1>9. ASSUME NEW w \in Workers, Acts(w) \/ Redeliver(w) PROVE Goal
  BY <1>2, <1>3, <1>4, <1>9 DEF Acts, WorkerStep
<1> QED BY <1>5, <1>6, <1>9 DEF Acts, Next, Recover

\* Whoever begins work for a generation says that it is alive.
LEMMA RacesStep ==
    ASSUME ReadInv, [Next]_vars, PromptWorkers
    PROVE  NothingRaces'
<1> SUFFICES ASSUME stale', status' = "processing"
             PROVE  /\ rec'.at = "scanned" /\ rec'.source = "preparing" => source' # "unavailable"
                    /\ \A w \in Workers : Current(w)' => wk'[w].pc \notin AtWork
  BY DEF NothingRaces
<1> USE DEF AtWork, Preparing
<1>1. CASE rec.at = "idle" /\ rec' = rec /\ wk' = wk /\ \A w \in Workers : wk[w].pc = "idle"
  BY <1>1
<1>2. CASE stale /\ status = "processing"
  <2>1. /\ rec.at = "scanned" /\ rec.source = "preparing" => source # "unavailable"
        /\ \A w \in Workers : Current(w) => wk[w].pc \notin AtWork
    BY <1>2 DEF ReadInv, NothingRaces
  <2>2. rec'.at = "scanned" /\ rec'.source = "preparing" => source' # "unavailable"
    <3>1. \A w \in Workers : Mine(Own(w)) => wk[w].pc \notin {"unavailable", "r_lost"}
      BY <2>1 DEF Current
    <3>2. source' = "unavailable" => source = "unavailable"
      BY <3>1, SourceMoves
    <3>3. rec' = rec \/ (rec'.at = "scanned" => rec'.source = source)
      BY StatusMoves DEF ReadInv
    <3> QED BY <2>1, <3>2, <3>3
  <2>3. ASSUME NEW w \in Workers, Current(w)' PROVE wk'[w].pc \notin AtWork
    <3>1. CASE Rests(w)
      BY <2>1, <2>3, <3>1, CurrentBefore DEF ReadInv, Rests, Same, Current
    <3>2. CASE Began(w)
      BY <3>2 DEF Began
    <3>3. CASE wk[w].pc # "idle" /\ wk'[w].msg = wk[w].msg /\ CameFrom(w)
      <4>1. Current(w) /\ Mine(Own(w))
        BY <2>3, <3>3, CurrentBefore DEF ReadInv, Current
      <4> QED BY <2>1, <3>3, <4>1 DEF CameFrom, From, Publishing
    <3>4. CASE wk'[w].pc = "idle"
      BY <3>4
    <3> QED BY <3>1, <3>2, <3>3, <3>4, Moves DEF ReadInv, TypeInv
  <2> QED BY <2>2, <2>3
<1> QED BY <1>1, <1>2, StaleMoves

LEMMA DiagnosticsStep ==
    ASSUME ReadInv, [Next]_vars, "source" \notin Faults \/ PromptWorkers
    PROVE  DiagnosticsHold'
<1> DEFINE Sees(w) ==
      /\ wk[w].msg.task = "rest" \/ wk[w].pc \in {"dropzip", "return"} => Settled
      /\ wk[w].pc = "r_load" => wk[w].saw = "ready" \/ source = "unavailable"
      /\ wk[w].pc = "r_commit" => wk[w].saw = "whole" \/ source = "unavailable"
<1>0. /\ \A m \in queue \cup retrying : m.task = "rest" /\ Mine(m.gen) => Settled
      /\ \A w \in Workers : Current(w) => Sees(w)
  BY DEF ReadInv, DiagnosticsHold
<1>1. status' = "processing" /\ Settled => Settled'
  BY SettledStays
<1>2. status' = "processing" /\ source = "unavailable" => source' = "unavailable"
  BY GivenUpStays DEF Alive, Active
\* A generation that goes on was current before.
<1>3. ASSUME NEW g \in 0 .. gen, Mine(g)' PROVE Mine(g)
  <2>1. ~Mine(g) => ~Mine(g)'
    BY OverStays DEF ReadInv
  <2> QED BY <1>3, <2>1
<1>4. ASSUME NEW m \in queue' \cup retrying', m.task = "rest", Mine(m.gen)' PROVE Settled'
  <2>0. status' = "processing"
    BY <1>4 DEF Mine
  <2>1. CASE m \in queue \cup retrying
    <3>1. m.gen \in 0 .. gen
      BY <1>4, <2>1, SourceAssumption DEF ReadInv, TypeInv, TypeOK, GenerationsKnown
    <3> QED BY <1>0, <1>1, <1>3, <1>4, <2>0, <2>1, <3>1
  <2>2. ASSUME NEW w \in Workers, wk[w].pc # "idle", m.gen = Own(w),
               wk[w].msg.task = "rest" \/ wk[w].pc = "return"
        PROVE  Settled'
    <3>1. m.gen \in 0 .. gen
      BY <2>2, SourceAssumption DEF ReadInv, TypeInv, TypeOK, GenerationsKnown
    <3>2. Current(w)
      BY <1>3, <1>4, <2>2, <3>1 DEF Current
    <3> QED BY <1>0, <1>1, <2>0, <2>2, <3>2
  <2>3. CASE \E w \in Workers : wk[w].pc # "idle" /\ m = wk[w].msg
    BY <1>4, <2>2, <2>3 DEF Own
  <2>4. CASE \E w \in Workers : wk[w].pc = "return" /\ m = Rest(Own(w))
    BY <2>2, <2>4 DEF Rest
  <2> QED BY <1>4, <2>1, <2>3, <2>4, MessagesMove
<1>5. ASSUME NEW w \in Workers, Current(w)' PROVE Sees(w)'
  <2>0. status' = "processing" /\ wk'[w].pc # "idle"
    BY <1>5 DEF Current, Mine
  <2>1. CASE Rests(w)
    <3>1. Current(w) /\ wk'[w].pc = wk[w].pc /\ wk'[w].msg = wk[w].msg /\ wk'[w].saw = wk[w].saw
      BY <1>5, <2>0, <2>1, CurrentBefore DEF ReadInv, Rests, Same
    <3> QED BY <1>0, <1>1, <1>2, <2>0, <3>1
  <2>2. CASE Began(w)
    <3>1. PICK m \in queue :
            /\ m.task # "process" /\ wk'[w].msg = m /\ source' = source
            /\ \/ wk'[w].pc = "claim"
               \/ wk'[w].pc = "return" /\ (~Mine(m.gen) \/ source = "unavailable")
               \/ wk'[w].pc = "dropzip" /\ source = "ready" /\ Mine(m.gen)
               \/ wk'[w].pc = "r_load" /\ wk'[w].saw = source /\ m.task = "rest" /\ Mine(m.gen)
      BY <2>2 DEF Began
    <3>2. m.gen \in 0 .. gen /\ Mine(m.gen)'
      BY <1>5, <3>1, SourceAssumption
         DEF Current, Own, ReadInv, TypeInv, TypeOK, GenerationsKnown
    <3>3. Mine(m.gen)
      BY <1>3, <3>2
    <3> QED BY <1>0, <3>1, <3>3 DEF Settled
  <2>3. CASE wk[w].pc # "idle" /\ wk'[w].msg = wk[w].msg /\ CameFrom(w)
    <3>1. Current(w) /\ Sees(w) /\ Mine(Own(w))
      BY <1>0, <1>5, <2>3, CurrentBefore DEF ReadInv, Current
    <3>2. CASE source = "unavailable"
      BY <1>2, <2>0, <2>3, <3>2 DEF Settled, CameFrom
    <3>3. CASE source # "unavailable"
      <4>1. Usable /\ wk[w].pc \notin Cleanup
        BY <1>5, <3>1, <3>3 DEF Usable, Alive, Active, Mine, ReadInv, CleanHolds
      <4>2. wk[w].pc \in {"lock_fresh", "lock_ready"} => source # "none"
        BY <3>1 DEF ReadInv, ClaimHolds, Claimed
      <4>3. (NeedsMarker(w) => marker) /\ (marker => tree # 0)
        BY <4>1 DEF ReadInv, TreeHolds
      <4>4. wk[w].pc = "p_adopt" => marker
        BY <4>3 DEF NeedsMarker
      <4>5. source \in {"none", "preparing", "ready"}
        BY <3>3 DEF ReadInv, TypeInv, TypeOK, Sources
      <4>6. wk'[w].pc = "dropzip" => Settled'
        BY <2>3 DEF CameFrom, Settled
      <4>7. wk'[w].pc = "return" => Settled'
        <5>1. /\ wk[w].pc # "p_adopt" \/ marker
              /\ wk[w].pc # "clean_rest"
              /\ wk[w].pc \in {"lock_fresh", "lock_ready"} => source \in {"preparing", "ready"}
          BY <4>1, <4>2, <4>4, <4>5 DEF Cleanup
        <5>2. CASE From(w, {"dropzip"})
          BY <1>1, <2>0, <3>1, <5>2 DEF From
        <5>3. CASE From(w, {"lock_fresh", "lock_ready"})
          <6>1. wk'[w].pc = "return" => source = "ready" /\ source' = source
            BY <2>3, <3>1, <5>1, <5>3 DEF CameFrom, From
          <6> QED BY <6>1 DEF Settled
        <5>4. CASE ~From(w, {"dropzip", "lock_fresh", "lock_ready"})
          BY <2>3, <3>1, <3>3, <5>1, <5>4 DEF CameFrom, From
        <5> QED BY <5>2, <5>3, <5>4 DEF From
      <4>8. wk'[w].pc = "r_commit" => wk'[w].saw = "whole" \/ source' = "unavailable"
        <5>1. wk[w].pc = "r_load" => wk[w].saw = "ready"
          BY <3>1, <3>3
        <5>2. wk[w].pc # "r_dropzip"
          BY <4>1 DEF Cleanup
        <5> QED BY <2>3, <3>1, <4>3, <5>1, <5>2 DEF CameFrom, From
      <4>9. wk'[w].pc # "r_load"
        BY <2>3 DEF CameFrom
      <4>10. wk'[w].msg.task = "rest" => Settled'
        BY <1>1, <2>0, <2>3, <3>1
      <4> QED BY <4>6, <4>7, <4>8, <4>9, <4>10
    <3> QED BY <3>2, <3>3
  <2> QED BY <2>0, <2>1, <2>2, <2>3, Moves DEF ReadInv, TypeInv
<1> QED BY <1>4, <1>5 DEF DiagnosticsHold

LEMMA ResultStep ==
    ASSUME ReadInv, [Next]_vars
    PROVE  ResultHolds'
<1> SUFFICES ASSUME status' = "completed", source' = "ready" PROVE outcome' = "whole"
  BY DEF ResultHolds
<1>1. CASE status = "completed" /\ outcome' = outcome
  <2>1. \A w \in Workers : wk[w].pc # "p_commit"
    BY <1>1 DEF ReadInv, PublicationHolds, Publishing, Current, Mine
  <2>2. source = "ready"
    BY <1>1, <2>1, SourceMoves DEF Mine
  <2> QED BY <1>1, <2>2 DEF ReadInv, ResultHolds
<1>2. ASSUME NEW w \in Workers, wk[w].pc = "r_commit", Mine(Own(w)), outcome' = wk[w].saw,
             source' = source
      PROVE  outcome' = "whole"
  BY <1>2 DEF ReadInv, DiagnosticsHold, Current
<1> QED BY <1>1, <1>2, StatusMoves DEF ReadInv

LEMMA ReadInit == Init => ReadInv
<1> SUFFICES ASSUME Init PROVE ReadInv
  OBVIOUS
<1>1. \A w \in Workers : wk[w].pc = "idle"
  BY DEF Init, Idle
<1>2. PublicationHolds /\ ClaimHolds
  BY <1>1 DEF PublicationHolds, ClaimHolds, Publishing, Claimed, Current
<1>3. DemotionHolds /\ CleanHolds
  BY <1>1 DEF Init, DemotionHolds, CleanHolds, Cleanup, NoScan
<1>4. TreeHolds /\ DiagnosticsHold /\ ResultHolds
  BY <1>1 DEF Init, TreeHolds, NeedsMarker, DiagnosticsHold, ResultHolds, ProcessMsg, Current
<1>5. NothingFails /\ NothingRaces
  BY <1>1 DEF Init, NothingFails, NothingRaces, Current
<1> QED BY <1>2, <1>3, <1>4, <1>5, TypeInit DEF ReadInv

\* Wherever the preparation of a source stops, because a worker is lost, a message
\* redelivered, the analysis demoted, failed or cancelled, or because acquiring,
\* publishing or loading the source itself fails, what is left can be used: a marker
\* stands beside a whole tree, the archive goes after it, and a completed analysis
\* that calls its source ready was matched against all of it.  Failures of the source
\* are covered when workers are prompt; with slow ones a demotion may forget a
\* failure whose cleanup is still to come (_claim_and_demote_stale_processing).
THEOREM SourceReadable ==
    ASSUME "source" \notin Faults \/ PromptWorkers
    PROVE  Spec => []SourceIsReadable
<1>1. ReadInv /\ [Next]_vars => ReadInv'
  <2> SUFFICES ASSUME ReadInv, [Next]_vars PROVE ReadInv'
    OBVIOUS
  <2>1. TypeInv' /\ PublicationHolds' /\ ClaimHolds' /\ DemotionHolds'
    BY TypeStep, PublicationStep, ClaimStep, DemotionStep DEF ReadInv
  <2>2. CleanHolds' /\ TreeHolds' /\ DiagnosticsHold' /\ ResultHolds'
    BY CleanStep, TreeStep, DiagnosticsStep, ResultStep
  <2>3. ("source" \notin Faults => NothingFails') /\ (PromptWorkers => NothingRaces')
    BY NothingFailsStep, RacesStep
  <2> QED BY <2>1, <2>2, <2>3 DEF ReadInv
<1>2. ReadInv => SourceIsReadable
  <2> SUFFICES ASSUME ReadInv PROVE SourceIsReadable
    OBVIOUS
  <2>1. ReadyIsWhole /\ ZipWhileNeeded
    BY DEF ReadInv, TreeHolds, Usable, Alive, ReadyIsWhole, ZipWhileNeeded
  <2>2. TypeOK /\ OutcomeIsTrue
    BY DEF ReadInv, TypeInv, ResultHolds, OutcomeIsTrue
  <2> QED BY <2>1, <2>2 DEF SourceIsReadable
<1> QED BY <1>1, <1>2, ReadInit, PTL DEF Spec

=============================================================================
