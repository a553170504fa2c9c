----------------------- MODULE AnalysisPipelineProofs -----------------------
(***************************************************************************)
(* Theorems about AnalysisPipeline for every set of artifacts and workers, *)
(* every bound and every choice of faults.                                 *)
(***************************************************************************)
EXTENDS AnalysisPipeline, SequenceTheorems, FiniteSetTheorems, TLAPS

-----------------------------------------------------------------------------
(* Types                                                                   *)

LEMMA IdleType == Idle \in Worker /\ NoMsg \in Message /\ NoEvidence \in Evidence
BY ArtifactsAssumption
   DEF Idle, Worker, NoMsg, Message, NoEvidence, Evidence, Pcs, ArtifactPcs, Returns

LEMMA MessageTypes ==
    ASSUME NEW g \in Nat, NEW c \in Nat, NEW n \in Nat
    PROVE  /\ ProcessMsg(g) \in Message
           /\ \A a \in Artifacts : ArtifactMsg(a, g, c) \in Message
           /\ FinalizeMsg(g, n) \in Message
BY IdleType DEF ProcessMsg, ArtifactMsg, FinalizeMsg, Message, NoMsg

\* A worker slot may take any worker record, and its program counter any value.
LEMMA WorkerTypes ==
    ASSUME WorkType, NEW w \in Workers
    PROVE  /\ wk[w] \in Worker
           /\ \A r \in Worker : [wk EXCEPT ![w] = r] \in [Workers -> Worker]
BY DEF WorkType

LEMMA FieldTypes ==
    ASSUME NEW r \in Worker
    PROVE  /\ r.pc \in Pcs /\ r.msg \in Message /\ r.own \in Nat /\ r.pos \in Nat
           /\ r.seen \in Evidence /\ r.ret \in Returns
           /\ r.names \subseteq Artifacts
           /\ r.pc \in ArtifactPcs => r.msg.task = "artifact" /\ r.msg.art \in Artifacts
BY DEF Worker, Message

LEMMA MessageFields ==
    ASSUME NEW m \in Message
    PROVE  /\ m.gen \in Nat /\ m.chord \in Nat /\ m.tries \in Nat
           /\ m.art \in Artifacts \cup {NoArtifact}
           /\ m.task = "artifact" => m.art \in Artifacts
BY DEF Message

LEMMA ResultTypes ==
    /\ NoResult \in Results
    /\ \A g \in Nat : \A v \in Evidence : [gen |-> g, view |-> v] \in Results
BY IdleType DEF NoResult, Results

LEMMA StopTypes ==
    ASSUME WorkType, NEW w \in Workers
    PROVE  /\ Stop(w) => WorkType'
           /\ \A pc \in Pcs : Step(w, pc) /\ (pc \in ArtifactPcs => wk[w].msg.task = "artifact")
                => WorkType'
<1>1. Stop(w) => WorkType'
  BY WorkerTypes, IdleType DEF Stop, WorkType
<1>2. ASSUME NEW pc \in Pcs, Step(w, pc), pc \in ArtifactPcs => wk[w].msg.task = "artifact"
      PROVE  WorkType'
  <2>1. [wk[w] EXCEPT !.pc = pc] \in Worker
    BY <1>2, WorkerTypes DEF Worker
  <2> QED
    BY <1>2, <2>1, WorkerTypes DEF Step, WorkType
<1> QED
  BY <1>1, <1>2

LEMMA FaultTypes ==
    ASSUME OtherType, NEW kind, MayFail(kind), Spend
    PROVE  faults' \in Nat
BY DEF OtherType, MayFail, Spend

LEMMA BumpTypes ==
    ASSUME RowType, OtherType, NEW g \in Nat, Bump(g)
    PROVE  age' \in 0 .. 2 /\ faults' \in Nat
BY DEF RowType, OtherType, Bump, MayFail, Spend

LEMMA ClearTypes ==
    ASSUME RowType, ArtifactsType, ClearData
    PROVE  /\ gen' \in Nat /\ finGen' \in Nat /\ age' \in 0 .. 2 /\ result' \in Results
           /\ art' \in [Artifacts -> ArtStatus] /\ done' \in [Artifacts -> Nat]
           /\ fallback' \in [Artifacts -> BOOLEAN] /\ evid' \in Evidence
BY ResultTypes, IdleType DEF ClearData, RowType, ArtifactsType

LEMMA DemoteTypes ==
    ASSUME RowType, ArtifactsType, NEW S \in SUBSET Artifacts, Demote(S)
    PROVE  /\ RowType'
           /\ art' \in [Artifacts -> ArtStatus] /\ done' \in [Artifacts -> Nat]
           /\ fallback' \in [Artifacts -> BOOLEAN] /\ evid' \in Evidence
<1> USE DEF Demote, RowType, ArtifactsType
<1>1. RowType'
  BY DEF Active, Terminal
<1>2. art' \in [Artifacts -> ArtStatus]
  BY DEF ArtStatus, Dispatchable
<1>3. done' \in [Artifacts -> Nat] /\ fallback' \in [Artifacts -> BOOLEAN]
  OBVIOUS
<1>4. evid' \in Evidence
  BY DEF Evidence
<1> QED
  BY <1>1, <1>2, <1>3, <1>4

LEMMA FailTypes ==
    ASSUME TypeOK, NEW w \in Workers, NEW r \in Worker, NEW known, NEW dbDown,
           FailTask(w, r, known, dbDown)
    PROVE  /\ RowType' /\ WorkType'
           /\ art' \in [Artifacts -> ArtStatus] /\ done' \in [Artifacts -> Nat]
           /\ fallback' \in [Artifacts -> BOOLEAN] /\ evid' \in Evidence
<1> DEFINE failed == [r EXCEPT !.pc = "clean", !.ret = "error"]
           back   == [r EXCEPT !.pc = "return", !.ret = "error"]
<1>1. failed \in Worker /\ (r.msg.task = "artifact" => back \in Worker)
  BY DEF Worker, Pcs, ArtifactPcs, Returns
<1>2. CASE MarkFailed /\ wk' = [wk EXCEPT ![w] = failed]
  <2>1. status' \in Active \cup Terminal
    BY <1>2 DEF MarkFailed, Terminal
  <2>2. WorkType'
    BY <1>1, <1>2, WorkerTypes DEF WorkType, TypeOK
  <2> QED
    BY <1>2, <2>1, <2>2, ClearTypes DEF MarkFailed, RowType, TypeOK
<1>3. CASE /\ wk' = [wk EXCEPT ![w] = IF r.msg.task = "artifact" THEN back ELSE Idle]
           /\ UNCHANGED <<row, arts, result>>
  <2>1. WorkType'
    BY <1>1, <1>3, WorkerTypes, IdleType DEF WorkType, TypeOK
  <2> QED
    BY <1>3, <2>1 DEF TypeOK, RowType, ArtifactsType, row, arts
<1> QED
  BY <1>2, <1>3 DEF FailTask

LEMMA ExceptOutside ==
    ASSUME NEW S, NEW s \in Seq(S), NEW c, c \notin DOMAIN s, NEW e
    PROVE  [s EXCEPT ![c] = e] = s
<1>1. s = [i \in DOMAIN s |-> s[i]]
  OBVIOUS
<1>2. [s EXCEPT ![c] = e] = [i \in DOMAIN s |-> IF i = c THEN e ELSE s[i]]
  BY <1>1
<1> QED
  BY <1>1, <1>2

LEMMA PartTypes ==
    ASSUME TypeOK, NEW w \in Workers, NEW acked, wk[w].pc = "return", CountPart(w, acked)
    PROVE  BrokerType'
<1> DEFINE m == wk[w].msg
           c == m.chord
           back == chords[c].back \cup {<<m.art, wk[w].ret>>}
<1>1. m \in Message /\ wk[w].ret \in Returns
  BY WorkerTypes, FieldTypes DEF TypeOK
<1>2. m.gen \in Nat /\ c \in Nat /\ m.art \in Artifacts \cup {NoArtifact}
  BY <1>1, MessageFields
<1>3. chords' \in Seq(Chord)
  <2>1. ASSUME NEW n \in Nat, NEW B \in SUBSET ((Artifacts \cup {NoArtifact}) \X Returns)
        PROVE  [size |-> n, back |-> B] \in Chord
    BY DEF Chord
  <2>2. ASSUME c \in DOMAIN chords
        PROVE  \A n \in {0, chords[c].size} : [size |-> n, back |-> back] \in Chord
    <3>1. chords[c] \in Chord
      BY <2>2, <1>2 DEF TypeOK, BrokerType
    <3>2. chords[c].size \in Nat
          /\ back \in SUBSET ((Artifacts \cup {NoArtifact}) \X Returns)
      BY <3>1, <1>1, <1>2 DEF Chord
    <3> QED
      BY <3>2, <2>1
  <2>3. PICK full \in BOOLEAN :
          chords' = [chords EXCEPT ![c] = [size |-> IF full THEN 0 ELSE chords[c].size,
                                           back |-> back]]
    BY DEF CountPart
  <2>4. chords \in Seq(Chord)
    BY DEF TypeOK, BrokerType
  <2>5. CASE c \in DOMAIN chords
    <3>1. [size |-> IF full THEN 0 ELSE chords[c].size, back |-> back] \in Chord
      BY <2>2, <2>5
    <3>2. c \in 1 .. Len(chords)
      BY <2>4, <2>5
    <3> HIDE DEF c, back
    <3> QED
      BY <2>3, <2>4, <3>1, <3>2, ExceptSeq
  <2>6. CASE c \notin DOMAIN chords
    <3> DEFINE e == [size |-> IF full THEN 0 ELSE chords[c].size, back |-> back]
    <3>1. chords' = [chords EXCEPT ![c] = e]
      BY <2>3
    <3> HIDE DEF c, back, e
    <3>2. [chords EXCEPT ![c] = e] = chords
      BY <2>4, <2>6, ExceptOutside
    <3> QED
      BY <2>4, <3>1, <3>2
  <2> QED
    BY <2>5, <2>6
<1>4. queue' \subseteq Message
  <2>1. queue' \subseteq queue \cup {FinalizeMsg(m.gen, 0), m}
    BY DEF CountPart
  <2>2. FinalizeMsg(m.gen, 0) \in Message
    BY <1>2, MessageTypes
  <2> QED
    BY <2>1, <2>2, <1>1 DEF TypeOK, BrokerType
<1> QED
  BY <1>3, <1>4 DEF BrokerType

LEMMA PublishTypes ==
    ASSUME TypeOK, NEW w \in Workers, NEW sent \in SUBSET wk[w].names, NEW n \in Nat,
           PublishParts(w, sent, n)
    PROVE  BrokerType'
<1>1. wk[w].own \in Nat /\ sent \subseteq Artifacts
  BY WorkerTypes, FieldTypes DEF TypeOK
<1>2. Len(chords) + 1 \in Nat
  BY DEF TypeOK, BrokerType
<1>3. [size |-> n, back |-> {}] \in Chord
  BY DEF Chord
<1>4. chords' \in Seq(Chord)
  BY <1>3 DEF PublishParts, TypeOK, BrokerType
<1>5. queue' \subseteq Message
  BY <1>1, <1>2, MessageTypes DEF PublishParts, TypeOK, BrokerType
<1> QED
  BY <1>4, <1>5 DEF BrokerType

LEMMA InitType == Init => TypeOK
<1> SUFFICES ASSUME Init PROVE TypeOK
    OBVIOUS
<1> USE DEF Init
<1>1. RowType
  BY IdleType DEF RowType, Active, Terminal, Results, NoResult
<1>2. ArtifactsType
  BY IdleType DEF ArtifactsType, ArtStatus, Dispatchable, Settled
<1>3. BrokerType
  <2>1. ProcessMsg(0) \in Message
    BY IdleType DEF ProcessMsg, NoMsg, Message
  <2> QED
    BY <2>1 DEF BrokerType
<1>4. WorkType
  BY IdleType DEF WorkType
<1>5. OtherType
  BY BoundsAssumption DEF OtherType, NoScan, Recovery
<1> QED
  BY <1>1, <1>2, <1>3, <1>4, <1>5 DEF TypeOK

\* The parts of the type invariant that an action leaves alone.
LEMMA UnchangedTypes ==
    ASSUME TypeOK
    PROVE  /\ UNCHANGED <<row, result>> => RowType'
           /\ UNCHANGED <<arts, file>> => ArtifactsType'
           /\ UNCHANGED <<queue, chords>> => BrokerType'
           /\ UNCHANGED wk => WorkType'
           /\ UNCHANGED <<rec, api, faults>> => OtherType'
BY DEF TypeOK, RowType, ArtifactsType, BrokerType, WorkType, OtherType, row, arts

\* Taking a message away, or putting messages in, keeps the broker well-typed.
LEMMA QueueTypes ==
    ASSUME TypeOK, UNCHANGED chords, NEW M \in SUBSET Message, queue' \subseteq queue \cup M
    PROVE  BrokerType'
BY DEF TypeOK, BrokerType

\* A fault spends one of the faults left, and nothing else of OtherType changes.
LEMMA SpendTypes ==
    ASSUME TypeOK, UNCHANGED <<rec, api>>
    PROVE  /\ \A kind : MayFail(kind) /\ Spend => OtherType'
           /\ UNCHANGED faults => OtherType'
BY FaultTypes DEF TypeOK, OtherType

LEMMA ProcessTypes ==
    ASSUME TypeOK, NEW w \in Workers, ProcessStep(w)
    PROVE  TypeOK'
<1>1. wk[w] \in Worker /\ wk[w].own \in Nat /\ wk[w].names \subseteq Artifacts /\ gen \in Nat
  BY WorkerTypes, FieldTypes DEF TypeOK, RowType
<1>2. Idle \in Worker /\ {"idle", "p_claimed", "p_ready", "p_demoting", "p_republish"} \subseteq Pcs \ ArtifactPcs
  BY IdleType DEF Pcs, ArtifactPcs
<1>3. StuckImages \in SUBSET Artifacts
  BY ArtifactsAssumption DEF StuckImages
<1>4. ASSUME NEW m \in queue, ClaimAnalysis(w, m) PROVE TypeOK'
  <2>1. m \in Message /\ queue' \subseteq queue \cup {} /\ UNCHANGED chords
    BY <1>4 DEF ClaimAnalysis, TypeOK, BrokerType
  <2>2. CASE status = "pending"
    <3>1. RowType'
      BY <1>4, <1>1, <2>2 DEF ClaimAnalysis, RowType, Active, Terminal, TypeOK
    <3>2. [Idle EXCEPT !.pc = "p_claimed", !.msg = m] \in Worker
      BY <1>2, <2>1, IdleType DEF Worker
    <3>3. WorkType'
      BY <1>4, <2>2, <3>2, WorkerTypes DEF ClaimAnalysis, WorkType, TypeOK
    <3> QED
      BY <1>4, <2>1, <3>1, <3>3, QueueTypes, UnchangedTypes DEF ClaimAnalysis, TypeOK
  <2>3. CASE status # "pending"
    BY <1>4, <2>1, <2>3, QueueTypes, UnchangedTypes DEF ClaimAnalysis, TypeOK
  <2> QED
    BY <2>2, <2>3
<1>5. CASE RefreshAnalysis(w)
  <2> DEFINE S == IF AllSettled THEN {} ELSE {a \in Artifacts : art[a] \in Dispatchable}
  <2>1. [wk[w] EXCEPT !.pc = "p_ready", !.own = gen, !.names = S] \in Worker
    BY <1>1, <1>2 DEF Worker
  <2>2. WorkType'
    BY <1>5, <2>1, StopTypes, WorkerTypes DEF RefreshAnalysis, WorkType, TypeOK
  <2> QED
    BY <1>5, <2>2, UnchangedTypes DEF RefreshAnalysis, TypeOK
<1>6. CASE PublishWorkflow(w)
  <2>1. BrokerType'
    <3>1. CASE wk[w].names = {}
      BY <1>6, <3>1, <1>1, MessageTypes, QueueTypes DEF PublishWorkflow
    <3>2. CASE wk[w].names # {}
      <4>1. Cardinality(wk[w].names) \in Nat
        BY <1>1, ArtifactsAssumption, FS_Subset, FS_CardinalityType
      <4> QED
        BY <1>6, <3>2, <4>1, PublishTypes DEF PublishWorkflow
    <3> QED
      BY <3>1, <3>2
  <2> QED
    BY <1>6, <2>1, StopTypes, UnchangedTypes DEF PublishWorkflow, TypeOK
<1>7. CASE ScanAfterPublishFailure(w)
  <2>1. [wk[w] EXCEPT !.pc = "p_demoting", !.names = StuckImages] \in Worker
    BY <1>1, <1>2, <1>3 DEF Worker
  <2>2. WorkType'
    BY <1>7, <2>1, StopTypes, WorkerTypes DEF ScanAfterPublishFailure, WorkType, TypeOK
  <2> QED
    BY <1>7, <2>2, UnchangedTypes DEF ScanAfterPublishFailure, TypeOK
<1>8. CASE DemoteAfterPublishFailure(w)
  <2>1. [wk[w] EXCEPT !.pc = "p_republish", !.names = {}] \in Worker
    BY <1>1, <1>2 DEF Worker
  <2>2. WorkType'
    BY <1>8, <2>1, StopTypes, WorkerTypes DEF DemoteAfterPublishFailure, WorkType, TypeOK
  <2>3. RowType' /\ ArtifactsType'
    <3>1. CASE Mine(wk[w].own)
      BY <1>8, <3>1, <1>1, DemoteTypes DEF DemoteAfterPublishFailure, TypeOK, ArtifactsType
    <3>2. CASE ~Mine(wk[w].own)
      BY <1>8, <3>2, UnchangedTypes DEF DemoteAfterPublishFailure
    <3> QED
      BY <3>1, <3>2
  <2> QED
    BY <1>8, <2>2, <2>3, UnchangedTypes DEF DemoteAfterPublishFailure, TypeOK
<1>9. CASE RepublishAnalysis(w)
  <2>1. BrokerType'
    BY <1>9, <1>1, MessageTypes, QueueTypes DEF RepublishAnalysis
  <2>2. OtherType'
    BY <1>9, SpendTypes DEF RepublishAnalysis
  <2> QED
    BY <1>9, <2>1, <2>2, StopTypes, UnchangedTypes DEF RepublishAnalysis, TypeOK
<1> QED
  BY <1>4, <1>5, <1>6, <1>7, <1>8, <1>9 DEF ProcessStep

\* What the proofs about artifact tasks need to know of a worker slot.
LEMMA ArtifactFacts ==
    ASSUME TypeOK, NEW w \in Workers
    PROVE  /\ wk[w] \in Worker /\ wk[w].own \in Nat /\ wk[w].pos \in Nat
           /\ wk[w].pc \in ArtifactPcs => Artifact(w) \in Artifacts
           /\ \A r \in Worker : wk' = [wk EXCEPT ![w] = r] => WorkType'
           /\ \A pc \in Pcs : wk[w].pc \in ArtifactPcs /\ Step(w, pc) => WorkType'
           /\ Stop(w) => WorkType'
           /\ \A a \in Artifacts : Length[a] \in Nat
           /\ ArtifactPcs \subseteq Pcs
<1>1. TypeOK => WorkType
  BY DEF TypeOK
<1>2. wk[w].pc \in ArtifactPcs => wk[w].msg.task = "artifact" /\ Artifact(w) \in Artifacts
  BY <1>1, WorkerTypes, FieldTypes DEF Artifact
<1>3. \A r \in Worker : wk' = [wk EXCEPT ![w] = r] => WorkType'
  BY <1>1, WorkerTypes DEF WorkType
<1> QED
  BY <1>1, <1>2, <1>3, WorkerTypes, FieldTypes, StopTypes, ArtifactsAssumption
     DEF ArtifactPcs, Pcs

LEMMA ClaimArtifactTypes ==
    ASSUME TypeOK, NEW w \in Workers, NEW m \in queue, ClaimArtifact(w, m)
    PROVE  TypeOK'
<1> USE DEF TypeOK
<1>1. m \in Message /\ queue' \subseteq queue \cup {} /\ UNCHANGED chords
  BY DEF ClaimArtifact, BrokerType
<1>2. \A pc \in ArtifactPcs : [Idle EXCEPT !.pc = pc, !.msg = m, !.own = m.gen] \in Worker
  BY <1>1, IdleType, MessageFields DEF Worker, ClaimArtifact, ArtifactPcs, Pcs
<1>3. WorkType'
  BY <1>2, ArtifactFacts DEF ClaimArtifact, ArtifactPcs
<1>4. ArtifactsType'
  BY DEF ClaimArtifact, ArtifactsType, ArtStatus, Dispatchable
<1> QED
  BY <1>1, <1>3, <1>4, QueueTypes, UnchangedTypes DEF ClaimArtifact

LEMMA ReadArtifactTypes ==
    ASSUME TypeOK, NEW w \in Workers,
           LoadArtifact(w) \/ SetUpArtifact(w) \/ CaptureFallback(w) \/ BumpAfterBatch(w)
    PROVE  TypeOK'
<1> USE DEF TypeOK
<1>0. {"return", "a_setup", "a_capture", "a_run"} \subseteq ArtifactPcs
  BY DEF ArtifactPcs
<1>1. CASE LoadArtifact(w)
  <2>1. wk[w].pc \in ArtifactPcs
    BY <1>1 DEF LoadArtifact, ArtifactPcs
  <2>2. ResumePoint(Artifact(w)) \in Nat
    BY <2>1, ArtifactFacts DEF ResumePoint, ArtifactsType
  <2>3. [wk[w] EXCEPT !.pc = "a_setup", !.pos = ResumePoint(Artifact(w))] \in Worker
    BY <2>1, <2>2, <1>0, ArtifactFacts DEF Worker
  <2>4. WorkType'
    BY <1>1, <2>1, <2>3, <1>0, ArtifactFacts DEF LoadArtifact, WorkType
  <2>5. age' \in 0 .. 2 /\ faults' \in Nat
    BY <1>1, ArtifactFacts, BumpTypes DEF LoadArtifact, RowType, OtherType
  <2> QED
    BY <1>1, <2>4, <2>5, UnchangedTypes DEF LoadArtifact, RowType, OtherType
<1>2. CASE SetUpArtifact(w)
  <2>1. wk[w].pc \in ArtifactPcs
    BY <1>2 DEF SetUpArtifact, ArtifactPcs
  <2>2. WorkType'
    BY <1>2, <2>1, <1>0, ArtifactFacts DEF SetUpArtifact
  <2> QED
    BY <1>2, <2>2, UnchangedTypes DEF SetUpArtifact
<1>3. CASE CaptureFallback(w)
  <2>1. wk[w].pc \in ArtifactPcs
    BY <1>3 DEF CaptureFallback, ArtifactPcs
  <2>2. WorkType'
    BY <1>3, <2>1, <1>0, ArtifactFacts DEF CaptureFallback
  <2>3. ArtifactsType'
    BY <1>3 DEF CaptureFallback, ArtifactsType
  <2> QED
    BY <1>3, <2>2, <2>3, UnchangedTypes DEF CaptureFallback
<1>4. CASE BumpAfterBatch(w)
  <2>1. wk[w].pc \in ArtifactPcs
    BY <1>4 DEF BumpAfterBatch, ArtifactPcs
  <2>2. WorkType'
    BY <1>4, <2>1, <1>0, ArtifactFacts DEF BumpAfterBatch
  <2>3. age' \in 0 .. 2 /\ faults' \in Nat
    BY <1>4, ArtifactFacts, BumpTypes DEF BumpAfterBatch
  <2> QED
    BY <1>4, <2>2, <2>3, UnchangedTypes DEF BumpAfterBatch, RowType, OtherType
<1> QED
  BY <1>1, <1>2, <1>3, <1>4

LEMMA WriteArtifactTypes ==
    ASSUME TypeOK, NEW w \in Workers,
           \/ PersistArtifactBatch(w) \/ CompleteArtifact(w)
           \/ RecordControlledFailure(w) \/ DropArtifactFile(w)
    PROVE  TypeOK'
<1> USE DEF TypeOK
<1>0. {"return", "a_run", "a_beat", "a_drop"} \subseteq ArtifactPcs
  BY DEF ArtifactPcs
<1>1. CASE PersistArtifactBatch(w)
  <2> DEFINE b == wk[w].pos + 1
             r == [wk[w] EXCEPT !.pc = "a_beat", !.pos = b, !.ret = "some"]
  <2>1. wk[w].pc \in ArtifactPcs /\ b \in Nat
    BY <1>1, ArtifactFacts DEF PersistArtifactBatch, ArtifactPcs
  <2>2. r \in Worker
    BY <2>1, <1>0, ArtifactFacts DEF Worker, Returns
  <2>3. WorkType'
    BY <1>1, <2>1, <2>2, <1>0, ArtifactFacts DEF PersistArtifactBatch, WorkType
  <2>4. evid' \in Evidence
    <3>1. ASSUME NEW a \in Artifacts PROVE [evid EXCEPT ![a][b] = @ + 1] \in Evidence
      <4>1. ASSUME NEW f \in [Batches -> Nat], NEW x
            PROVE  [f EXCEPT ![x] = f[x] + 1] \in [Batches -> Nat]
        <5>1. x \in Batches => f[x] + 1 \in Nat
          OBVIOUS
        <5> QED
          BY <5>1
      <4> QED
        BY <4>1 DEF Evidence, ArtifactsType
    <3>2. Artifact(w) \in Artifacts
      BY <2>1, ArtifactFacts
    <3> QED
      BY <1>1, <3>1, <3>2 DEF PersistArtifactBatch, ArtifactsType
  <2>5. done' \in [Artifacts -> Nat]
    BY <1>1, <2>1 DEF PersistArtifactBatch, ArtifactsType
  <2> QED
    BY <1>1, <2>3, <2>4, <2>5, UnchangedTypes DEF PersistArtifactBatch, ArtifactsType
<1>2. CASE CompleteArtifact(w)
  <2>1. wk[w].pc \in ArtifactPcs
    BY <1>2 DEF CompleteArtifact, ArtifactPcs
  <2>2. WorkType'
    BY <1>2, <2>1, <1>0, ArtifactFacts DEF CompleteArtifact
  <2>3. ArtifactsType'
    BY <1>2, <2>1, ArtifactFacts
       DEF CompleteArtifact, ArtifactsType, ArtStatus, Settled
  <2> QED
    BY <1>2, <2>2, <2>3, UnchangedTypes DEF CompleteArtifact
<1>3. CASE RecordControlledFailure(w)
  <2>1. wk[w].pc \in ArtifactPcs
    BY <1>3 DEF RecordControlledFailure, ArtifactPcs
  <2>2. \A pc \in {"return", "a_drop"} : [wk[w] EXCEPT !.pc = pc, !.ret = "none"] \in Worker
    BY <2>1, <1>0, ArtifactFacts DEF Worker, Returns
  <2>3. WorkType'
    BY <1>3, <2>2, ArtifactFacts DEF RecordControlledFailure, WorkType
  <2>4. ArtifactsType'
    <3>1. [evid EXCEPT ![Artifact(w)] = [b \in Batches |-> 0]] \in Evidence
      BY <2>1, ArtifactFacts DEF Evidence, ArtifactsType
    <3>2. evid' \in Evidence
      BY <1>3, <3>1 DEF RecordControlledFailure, ArtifactsType, arts
    <3>3. "controlled" \in ArtStatus
      BY DEF ArtStatus, Settled
    <3>4. art' \in [Artifacts -> ArtStatus]
      BY <1>3, <3>3 DEF RecordControlledFailure, ArtifactsType, arts
    <3>5. done' \in [Artifacts -> Nat]
      BY <1>3 DEF RecordControlledFailure, ArtifactsType, arts
    <3>6. fallback' \in [Artifacts -> BOOLEAN]
      BY <1>3 DEF RecordControlledFailure, ArtifactsType, arts
    <3> QED
      BY <1>3, <3>2, <3>4, <3>5, <3>6 DEF RecordControlledFailure, ArtifactsType
  <2> QED
    BY <1>3, <2>3, <2>4, UnchangedTypes DEF RecordControlledFailure
<1>4. CASE DropArtifactFile(w)
  <2>1. wk[w].pc \in ArtifactPcs
    BY <1>4 DEF DropArtifactFile, ArtifactPcs
  <2>2. WorkType'
    BY <1>4, <2>1, <1>0, ArtifactFacts DEF DropArtifactFile
  <2>3. ArtifactsType'
    BY <1>4 DEF DropArtifactFile, ArtifactsType, arts
  <2> QED
    BY <1>4, <2>2, <2>3, UnchangedTypes DEF DropArtifactFile
<1> QED
  BY <1>1, <1>2, <1>3, <1>4

LEMMA ArtifactTypes ==
    ASSUME TypeOK, NEW w \in Workers, ArtifactStep(w)
    PROVE  TypeOK'
<1>1. CASE MissesFile(w)
  <2>1. RowType' /\ WorkType' /\ art' \in [Artifacts -> ArtStatus]
        /\ done' \in [Artifacts -> Nat] /\ fallback' \in [Artifacts -> BOOLEAN]
        /\ evid' \in Evidence
    BY <1>1, ArtifactFacts, FailTypes DEF MissesFile
  <2> QED
    BY <1>1, <2>1, UnchangedTypes DEF MissesFile, TypeOK, ArtifactsType
<1>2. CASE ReturnArtifact(w)
  <2>1. BrokerType' /\ WorkType'
    BY <1>2, PartTypes, ArtifactFacts DEF ReturnArtifact
  <2> QED
    BY <1>2, <2>1, UnchangedTypes DEF ReturnArtifact, TypeOK
<1> QED
  BY <1>1, <1>2, ClaimArtifactTypes, ReadArtifactTypes, WriteArtifactTypes DEF ArtifactStep

LEMMA FinalizeTypes ==
    ASSUME TypeOK, NEW w \in Workers, FinalizeStep(w)
    PROVE  TypeOK'
<1> USE DEF TypeOK
<1>0. {"f_checked", "f_claimed", "f_read", "f_explained", "clean"} \subseteq Pcs \ ArtifactPcs
  BY DEF Pcs, ArtifactPcs
<1>1. /\ \A pc \in Pcs \ ArtifactPcs : Step(w, pc) => WorkType'
      /\ \A r \in Worker : wk' = [wk EXCEPT ![w] = r] => WorkType'
      /\ Stop(w) => WorkType'
      /\ wk[w] \in Worker /\ wk[w].own \in Nat /\ wk[w].seen \in Evidence
  BY StopTypes, WorkerTypes, FieldTypes DEF WorkType
<1>2. ASSUME NEW m \in queue, CheckFinalize(w, m) PROVE TypeOK'
  <2>1. m \in Message
    BY DEF BrokerType
  <2>2. m.tries + 1 \in Nat /\ m.gen \in Nat
    BY <2>1, MessageFields
  <2>3. FinalizeMsg(m.gen, m.tries + 1) \in Message
    BY <2>2, MessageTypes
  <2>4. BrokerType'
    BY <1>2, <2>3, QueueTypes DEF CheckFinalize
  <2>5. [Idle EXCEPT !.pc = "f_checked", !.msg = m, !.own = m.gen] \in Worker
    BY <2>1, <2>2, <1>0, IdleType DEF Worker
  <2>6. WorkType'
    BY <1>2, <2>5, <1>1, UnchangedTypes DEF CheckFinalize
  <2> QED
    BY <1>2, <2>4, <2>6, UnchangedTypes DEF CheckFinalize
<1>3. CASE ClaimFinalization(w)
  <2>1. WorkType'
    BY <1>3, <1>0, <1>1 DEF ClaimFinalization
  <2>2. RowType'
    BY <1>3, <1>1 DEF ClaimFinalization, RowType
  <2> QED
    BY <1>3, <2>1, <2>2, UnchangedTypes DEF ClaimFinalization
<1>4. CASE ReadEvidence(w)
  <2>1. \A pc \in {"f_read", "f_explained"} : [wk[w] EXCEPT !.pc = pc, !.seen = evid] \in Worker
    BY <1>0, <1>1 DEF Worker, ArtifactsType
  <2>2. WorkType'
    BY <1>4, <2>1, <1>1 DEF ReadEvidence, WorkType
  <2>3. age' \in 0 .. 2 /\ faults' \in Nat
    BY <1>4, <1>1, BumpTypes DEF ReadEvidence
  <2> QED
    BY <1>4, <2>2, <2>3, UnchangedTypes DEF ReadEvidence, RowType, OtherType
<1>5. CASE ExplainResult(w)
  <2>1. WorkType'
    BY <1>5, <1>0, <1>1 DEF ExplainResult
  <2>2. age' \in 0 .. 2 /\ faults' \in Nat
    BY <1>5, <1>1, BumpTypes DEF ExplainResult, RowType, OtherType
  <2> QED
    BY <1>5, <2>1, <2>2, UnchangedTypes DEF ExplainResult, RowType, OtherType
<1>6. CASE CommitResult(w)
  <2>1. WorkType'
    BY <1>6, <1>0, <1>1 DEF CommitResult
  <2>2. [gen |-> wk[w].own, view |-> wk[w].seen] \in Results
    BY <1>1, ResultTypes
  <2>3. RowType'
    BY <1>6, <2>2 DEF CommitResult, RowType, Terminal
  <2> QED
    BY <1>6, <2>1, <2>3, UnchangedTypes DEF CommitResult
<1>7. CASE CleanFiles(w)
  <2>1. WorkType'
    BY <1>7, <1>1, StopTypes DEF CleanFiles, Pcs
  <2> QED
    BY <1>7, <2>1, UnchangedTypes DEF CleanFiles, ArtifactsType, arts
<1> QED
  BY <1>2, <1>3, <1>4, <1>5, <1>6, <1>7 DEF FinalizeStep

LEMMA FailureTypes ==
    ASSUME TypeOK, NEW w \in Workers, Failure(w)
    PROVE  TypeOK'
<1> USE DEF TypeOK
<1>1. ASSUME NEW r \in Worker, NEW known, NEW dbDown, FailTask(w, r, known, dbDown),
             UNCHANGED file
      PROVE  RowType' /\ WorkType' /\ ArtifactsType'
  BY <1>1, FailTypes DEF ArtifactsType
<1>2. wk[w] \in Worker
  BY WorkerTypes
<1>3. ASSUME NEW m \in queue, FailsAtStart(w, m) PROVE TypeOK'
  <2>1. m \in Message /\ "idle" \notin ArtifactPcs
    BY DEF BrokerType, ArtifactPcs
  <2>2. [Idle EXCEPT !.msg = m, !.own = m.gen] \in Worker
    BY <2>1, IdleType, MessageFields DEF Worker, Idle
  <2>3. RowType' /\ WorkType' /\ ArtifactsType'
    BY <1>3, <1>1, <2>2 DEF FailsAtStart
  <2>4. BrokerType'
    BY <1>3, QueueTypes DEF FailsAtStart
  <2> QED
    BY <1>3, <2>3, <2>4, SpendTypes DEF FailsAtStart
<1>4. ASSUME ProcessFails(w) \/ ArtifactFails(w) \/ FinalizeFails(w)
      PROVE  /\ UNCHANGED <<file, queue, chords, rec, api>>
             /\ \E known, dbDown : FailTask(w, wk[w], known, dbDown)
             /\ \E kind : MayFail(kind) /\ Spend
  BY <1>4 DEF ProcessFails, ArtifactFails, FinalizeFails
<1>5. CASE ProcessFails(w) \/ ArtifactFails(w) \/ FinalizeFails(w)
  BY <1>1, <1>2, <1>4, <1>5, SpendTypes, UnchangedTypes
<1> QED
  BY <1>3, <1>5 DEF Failure

LEMMA LossTypes ==
    ASSUME TypeOK, NEW w \in Workers, Loss(w)
    PROVE  TypeOK'
<1> USE DEF TypeOK
<1>1. /\ wk[w] \in Worker /\ wk[w].msg \in Message /\ wk[w].names \subseteq Artifacts
      /\ Stop(w) => WorkType'
      /\ "p_unpublished" \in Pcs \ ArtifactPcs
  BY WorkerTypes, FieldTypes, StopTypes DEF Pcs, ArtifactPcs
<1>2. CASE LoseAfterReturn(w)
  <2>1. BrokerType' /\ WorkType'
    BY <1>1, <1>2, PartTypes DEF LoseAfterReturn
  <2> QED
    BY <1>2, <2>1, SpendTypes, UnchangedTypes DEF LoseAfterReturn
<1>3. CASE LoseWorker(w)
  <2>1. BrokerType' /\ WorkType'
    BY <1>1, <1>3, QueueTypes DEF LoseWorker
  <2> QED
    BY <1>3, <2>1, SpendTypes, UnchangedTypes DEF LoseWorker
<1>4. CASE LoseWhilePublishing(w)
  <2>1. PICK sent \in SUBSET wk[w].names :
          /\ chords' = Append(chords, [size |-> 0, back |-> {}])
          /\ queue' = queue \cup {wk[w].msg} \cup
                      {ArtifactMsg(a, wk[w].own, Len(chords) + 1) : a \in sent}
    BY <1>4 DEF LoseWhilePublishing
  <2>2. [size |-> 0, back |-> {}] \in Chord
    BY DEF Chord
  <2>3. wk[w].own \in Nat /\ Len(chords) + 1 \in Nat
    BY <1>1, FieldTypes DEF BrokerType
  <2>4. {ArtifactMsg(a, wk[w].own, Len(chords) + 1) : a \in sent} \subseteq Message
    BY <1>1, <2>3, MessageTypes
  <2>5. BrokerType'
    BY <1>1, <2>1, <2>2, <2>4 DEF BrokerType
  <2> QED
    BY <1>1, <1>4, <2>5, SpendTypes, UnchangedTypes DEF LoseWhilePublishing
<1>5. CASE PublishFails(w)
  <2>1. BrokerType'
    <3>1. CASE wk[w].names = {}
      BY <1>5, <3>1, UnchangedTypes DEF PublishFails
    <3>2. CASE wk[w].names # {}
      BY <1>5, <3>2, PublishTypes DEF PublishFails
    <3> QED
      BY <3>1, <3>2
  <2>2. [wk[w] EXCEPT !.pc = "p_unpublished", !.names = {}] \in Worker
    BY <1>1 DEF Worker
  <2>3. WorkType'
    BY <1>5, <2>2, WorkerTypes DEF PublishFails, WorkType
  <2> QED
    BY <1>5, <2>1, <2>3, SpendTypes, UnchangedTypes DEF PublishFails
<1>6. CASE Redeliver(w)
  <2>1. BrokerType'
    BY <1>1, <1>6, QueueTypes DEF Redeliver
  <2> QED
    BY <1>6, <2>1, SpendTypes, UnchangedTypes DEF Redeliver
<1> QED
  BY <1>2, <1>3, <1>4, <1>5, <1>6 DEF Loss

LEMMA OutsideTypes ==
    ASSUME TypeOK, CancelAnalysis \/ CleanAfterCancel \/ Recover \/ Tick
    PROVE  TypeOK'
<1> USE DEF TypeOK
<1>1. CASE CancelAnalysis
  <2>1. RowType' /\ ArtifactsType'
    BY <1>1, ClearTypes DEF CancelAnalysis, RowType, ArtifactsType, Terminal
  <2> QED
    BY <1>1, <2>1, UnchangedTypes DEF CancelAnalysis, OtherType
<1>2. CASE CleanAfterCancel
  BY <1>2, UnchangedTypes DEF CleanAfterCancel, OtherType, ArtifactsType, arts
<1>3. CASE ScanStale
  <2>1. StuckImages \in SUBSET Images
    BY DEF StuckImages
  <2>2. rec' \in Recovery
    BY <1>3, <2>1 DEF ScanStale, Recovery
  <2> QED
    BY <1>3, <2>2, UnchangedTypes DEF ScanStale, OtherType
<1>4. CASE ClaimStale
  <2>1. rec.stuck \in SUBSET Artifacts
    BY ArtifactsAssumption DEF OtherType, Recovery
  <2>2. rec' \in Recovery
    BY <1>4 DEF ClaimStale, Recovery, NoScan
  <2>3. RowType' /\ ArtifactsType'
    <3>1. CASE UNCHANGED <<row, arts, result>>
      BY <1>4, <3>1, UnchangedTypes DEF ClaimStale
    <3>2. CASE age' = 0 /\ UNCHANGED <<status, gen, finGen, arts, result>>
      BY <1>4, <3>2, UnchangedTypes DEF ClaimStale, RowType
    <3>3. CASE Demote(rec.stuck)
      BY <1>4, <2>1, <3>3, DemoteTypes DEF ClaimStale, ArtifactsType
    <3> QED
      BY <1>4, <3>1, <3>2, <3>3 DEF ClaimStale
  <2> QED
    BY <1>4, <2>2, <2>3, UnchangedTypes DEF ClaimStale, OtherType
<1>5. CASE RedispatchStale
  <2>1. BrokerType'
    BY <1>5, MessageTypes, QueueTypes DEF RedispatchStale, RowType
  <2>2. OtherType'
    BY <1>5, FaultTypes DEF RedispatchStale, NoScan, Recovery, OtherType
  <2> QED
    BY <1>5, <2>1, <2>2, UnchangedTypes DEF RedispatchStale
<1>6. CASE Tick
  BY <1>6, UnchangedTypes DEF Tick, RowType
<1> QED
  BY <1>1, <1>2, <1>3, <1>4, <1>5, <1>6 DEF Recover

LEMMA NextTypes ==
    ASSUME TypeOK, [Next]_vars
    PROVE  TypeOK'
<1>1. CASE UNCHANGED vars
  <2>1. UNCHANGED <<row, result, arts, file, queue, chords, wk, rec, api, faults>>
    BY <1>1 DEF vars, row, arts
  <2> QED
    BY <2>1, UnchangedTypes DEF TypeOK
<1>2. CASE Next
  BY <1>2, ProcessTypes, ArtifactTypes, FinalizeTypes, FailureTypes, LossTypes,
     OutsideTypes DEF Next, WorkerStep
<1> QED
  BY <1>1, <1>2

\* Every variable keeps its type in every reachable state.  Besides its shape, this
\* says that a worker in the code of an artifact task holds an artifact message
\* and that only images are ever in the snapshot of a demotion.
THEOREM TypeCorrect == Spec => []TypeOK
BY InitType, NextTypes, PTL DEF Spec

-----------------------------------------------------------------------------
(* Terminal outcomes                                                       *)

\* Every step keeps a terminal outcome: what writes it is fenced by an active status.
LEMMA StepKeepsOutcome ==
    ASSUME TypeOK, [Next]_vars
    PROVE  KeepsOutcome
<1> DEFINE Outcome == UNCHANGED <<row, arts, result>>
<1> SUFFICES ASSUME status \in Terminal
             PROVE  UNCHANGED <<status, gen, evid, done, art, fallback, result>>
    BY DEF KeepsOutcome
<1>1. Outcome => UNCHANGED <<status, gen, evid, done, art, fallback, result>>
  BY DEF row, arts
<1>2. status # "pending" /\ status # "processing" /\ status \notin Active
  BY DEF Terminal, Active
<1>3. \A g : ~Mine(g) /\ ~Owns(g)
  BY <1>2 DEF Mine, Owns
<1>4. \A w, r, known, dbDown : FailTask(w, r, known, dbDown) => Outcome
  BY <1>2 DEF FailTask, Failable
<1>5. ASSUME NEW w \in Workers, ProcessStep(w)
      PROVE  Outcome
  BY <1>5, <1>2, <1>3
     DEF ProcessStep, ClaimAnalysis, RefreshAnalysis, PublishWorkflow,
         ScanAfterPublishFailure, DemoteAfterPublishFailure, RepublishAnalysis
<1>6. ASSUME NEW w \in Workers, ArtifactStep(w)
      PROVE  UNCHANGED <<status, gen, evid, done, art, fallback, result>>
  <2>1. CASE \E m \in queue : ClaimArtifact(w, m)
    BY <2>1, <1>3 DEF ClaimArtifact, Claimable, row
  <2>2. CASE LoadArtifact(w) \/ BumpAfterBatch(w)
    BY <2>2 DEF LoadArtifact, BumpAfterBatch, arts
  <2>3. CASE SetUpArtifact(w) \/ DropArtifactFile(w) \/ ReturnArtifact(w)
    BY <2>3, <1>1 DEF SetUpArtifact, DropArtifactFile, ReturnArtifact
  <2>4. CASE CaptureFallback(w)
    BY <2>4, <1>3 DEF CaptureFallback, Authorized, row
  <2>5. CASE PersistArtifactBatch(w)
    BY <2>5, <1>3 DEF PersistArtifactBatch, row
  <2>6. CASE CompleteArtifact(w)
    BY <2>6, <1>3 DEF CompleteArtifact, row
  <2>7. CASE RecordControlledFailure(w)
    BY <2>7, <1>3 DEF RecordControlledFailure, Authorized, row, arts
  <2>8. CASE MissesFile(w)
    BY <2>8, <1>1, <1>4 DEF MissesFile
  <2> QED
    BY <1>6, <2>1, <2>2, <2>3, <2>4, <2>5, <2>6, <2>7, <2>8 DEF ArtifactStep
<1>7. ASSUME NEW w \in Workers, FinalizeStep(w)
      PROVE  UNCHANGED <<status, gen, evid, done, art, fallback, result>>
  BY <1>7, <1>3
     DEF FinalizeStep, CheckFinalize, ClaimFinalization, ReadEvidence, ExplainResult,
         CommitResult, CleanFiles, row, arts
<1>8. ASSUME NEW w \in Workers, Failure(w) \/ Loss(w)
      PROVE  Outcome
  BY <1>8, <1>4
     DEF Failure, FailsAtStart, ProcessFails, ArtifactFails, FinalizeFails, Loss,
         LoseAfterReturn, LoseWorker, LoseWhilePublishing, PublishFails, Redeliver
<1>9. CASE CancelAnalysis \/ CleanAfterCancel \/ Recover \/ Tick
  BY <1>9, <1>1, <1>2
     DEF CancelAnalysis, CleanAfterCancel, Recover, ScanStale, ClaimStale, Stale,
         RedispatchStale, Tick
<1>10. CASE UNCHANGED vars
  BY <1>10 DEF vars
<1> QED
  BY <1>1, <1>5, <1>6, <1>7, <1>8, <1>9, <1>10 DEF Next, WorkerStep

\* Once an analysis is completed, failed or cancelled, no message that is late or
\* redelivered, no recovery scan and no exception changes what it says.
THEOREM OutcomeIsFinal == Spec => TerminalIsFinal
BY StepKeepsOutcome, TypeCorrect, PTL DEF Spec, TerminalIsFinal

LEMMA FailedOrCancelledClears ==
    ASSUME TypeOK, Next, status \in Active, status' \in {"failed", "cancelled"}
    PROVE  ClearData
<1>1. status' # status /\ status' # "pending" /\ status' # "processing" /\ status' # "completed"
  BY DEF Active
<1>2. \A w, r, known, dbDown : FailTask(w, r, known, dbDown) => ClearData
  BY <1>1 DEF FailTask, MarkFailed, row
<1>3. ASSUME NEW w \in Workers, WorkerStep(w)
      PROVE  ClearData
  <2>1. ~ProcessStep(w)
    BY <1>1 DEF ProcessStep, ClaimAnalysis, RefreshAnalysis, PublishWorkflow, Demote,
       ScanAfterPublishFailure, DemoteAfterPublishFailure, RepublishAnalysis, row
  <2>2. ArtifactStep(w) => MissesFile(w)
    BY <1>1 DEF ArtifactStep, ClaimArtifact, LoadArtifact, SetUpArtifact, CaptureFallback,
       PersistArtifactBatch, BumpAfterBatch, CompleteArtifact, RecordControlledFailure,
       DropArtifactFile, ReturnArtifact, row
  <2>3. ~FinalizeStep(w)
    BY <1>1 DEF FinalizeStep, CheckFinalize, ClaimFinalization, ReadEvidence,
       ExplainResult, CommitResult, CleanFiles, row
  <2> QED
    BY <1>2, <1>3, <2>1, <2>2, <2>3 DEF WorkerStep, MissesFile
<1>4. ASSUME NEW w \in Workers, Failure(w) \/ Loss(w)
      PROVE  ClearData
  BY <1>4, <1>1, <1>2
     DEF Failure, FailsAtStart, ProcessFails, ArtifactFails, FinalizeFails, Loss,
         LoseAfterReturn, LoseWorker, LoseWhilePublishing, PublishFails, Redeliver, row
<1>5. CASE CancelAnalysis \/ CleanAfterCancel \/ Recover \/ Tick
  BY <1>5, <1>1
     DEF CancelAnalysis, CleanAfterCancel, Recover, ScanStale, ClaimStale, Demote,
         RedispatchStale, Tick, row
<1> QED
  BY <1>3, <1>4, <1>5 DEF Next

\* A failed or cancelled analysis keeps nothing: the step that ends it clears all,
\* and no later step, of a worker that has not noticed, writes anything back.
THEOREM NothingRemains == Spec => []NoResidue
<1>1. Init => NoResidue
  BY DEF Init, NoResidue
<1>2. TypeOK /\ NoResidue /\ [Next]_vars => NoResidue'
  <2> SUFFICES ASSUME TypeOK, NoResidue, [Next]_vars, status' \in {"failed", "cancelled"}
               PROVE  evid' = NoEvidence /\ (\A a \in Artifacts : ~fallback'[a])
                      /\ result' = NoResult
    BY DEF NoResidue
  <2>1. CASE status \in Terminal
    <3>1. UNCHANGED <<status, evid, fallback, result>>
      BY <2>1, StepKeepsOutcome DEF KeepsOutcome
    <3> QED
      BY <3>1 DEF NoResidue
  <2>2. CASE status \in Active
    <3>1. ClearData
      BY <2>2, FailedOrCancelledClears DEF vars, Active
    <3> QED
      BY <3>1 DEF ClearData
  <2> QED
    BY <2>1, <2>2 DEF TypeOK, RowType
<1> QED
  BY <1>1, <1>2, TypeCorrect, PTL DEF Spec

=============================================================================
