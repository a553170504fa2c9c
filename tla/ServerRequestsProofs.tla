------------------------ MODULE ServerRequestsProofs ------------------------
(***************************************************************************)
(* Proofs about ServerRequests and its parts, for every number of          *)
(* requests, files, addresses, passwords and bodies and every limit: the   *)
(* types of Admission, its limit on active analyses and the files that are *)
(* kept; what tokens, resets and hand-offs of Accounts let in; and the     *)
(* answers of RequestBodyLimit.                                            *)
(***************************************************************************)
EXTENDS ServerRequests, Sequences, FiniteSetTheorems, WellFoundedInduction, TLAPS

-----------------------------------------------------------------------------
(* Admission.                                                              *)

\* What is counted is finite.
LEMMA Counting ==
  /\ IsFiniteSet(Active) /\ Cardinality(Active) \in Nat
  /\ \A r \in Requests : Cardinality(Staged(req[r].rows)) \in Nat
<1>1. IsFiniteSet(Active) /\ Cardinality(Active) \in Nat
  BY AdmissionAssumption, FS_Subset, FS_CardinalityType DEF Active
<1>2. IsFiniteSet(Positions)
  BY AdmissionAssumption, FS_Interval DEF Positions
<1>3. \A r \in Requests : Cardinality(Staged(req[r].rows)) \in Nat
  BY <1>2, FS_Subset, FS_CardinalityType DEF Staged
<1> QED BY <1>1, <1>3

\* A handler that only goes on to another step keeps its type.
LEMMA GotoType ==
  ASSUME req \in [Requests -> Handlers], NEW r \in Requests,
         NEW pc \in {"new", "source", "files", "lock", "count", "insert", "tidy", "enqueue",
                     "reject", "refused", "done", "lost"},
         Goto(r, pc)
  PROVE  req' \in [Requests -> Handlers]
BY DEF Goto, Handlers

\* The types hold at first.
LEMMA InitType == Init => TypeOK
BY AdmissionAssumption DEF Init, TypeOK, Handlers, Rows, NoRow

\* Every step keeps the types.
LEMMA StepType == TypeOK /\ [Next]_vars => TypeOK'
<1> SUFFICES ASSUME TypeOK, [Next]_vars PROVE TypeOK'
  OBVIOUS
<1> USE AdmissionAssumption
<1>1. ASSUME NEW r \in Requests, CheckCapacity(r) PROVE TypeOK'
  <2>1. CASE Cardinality(Active) < Limit
    <3>1. PICK n \in Accepted :
              req' = [req EXCEPT ![r].pc = "source", ![r].files = n,
                                 ![r].seen = Cardinality(Active)]
      BY <1>1, <2>1 DEF CheckCapacity
    <3>2. Cardinality(Active) \in 0..Limit /\ n \in 0..MaxFiles
      BY <2>1, Counting DEF Accepted
    <3> DEFINE h == [req[r] EXCEPT !.pc = "source", !.files = n, !.seen = Cardinality(Active)]
    <3>3. h \in Handlers
      BY <3>2 DEF TypeOK, Handlers
    <3>4. req' = [req EXCEPT ![r] = h]
      BY <3>1 DEF TypeOK, Handlers
    <3> HIDE DEF h
    <3>5. req' \in [Requests -> Handlers]
      BY <3>3, <3>4 DEF TypeOK
    <3> QED BY <1>1, <3>5 DEF CheckCapacity, TypeOK
  <2>2. CASE ~(Cardinality(Active) < Limit)
    BY <1>1, <2>2, GotoType DEF CheckCapacity, TypeOK
  <2> QED BY <2>1, <2>2
<1>2. ASSUME NEW r \in Requests, StageSource(r) PROVE TypeOK'
  <2>1. <<r, 0>> \in Requests \X (0..MaxFiles)
    OBVIOUS
  <2>2. req' \in [Requests -> Handlers]
    BY <1>2, <2>1 DEF StageSource, TypeOK, Handlers
  <2>3. disk' \subseteq Requests \X (0..MaxFiles)
    BY <1>2, <2>1 DEF StageSource, TypeOK
  <2> QED BY <1>2, <2>2, <2>3 DEF StageSource, TypeOK
<1>3. ASSUME NEW r \in Requests, StageFile(r) PROVE TypeOK'
  <2> DEFINE p    == Cardinality(Staged(req[r].rows)) + 1
             path == <<r, p>>
  <2>1. p \in Positions /\ path \in Requests \X (0..MaxFiles)
    BY <1>3, Counting DEF StageFile, Positions, TypeOK, Handlers
  <2>2. disk' \subseteq Requests \X (0..MaxFiles) /\ UNCHANGED <<analysis, lock>>
    BY <1>3, <2>1 DEF StageFile, TypeOK
  <2>3. \A b \in BOOLEAN : req[r].staged \cup Remember(r, p, b) \subseteq Requests \X (0..MaxFiles)
    BY <2>1 DEF Remember, TypeOK, Handlers
  <2>4. \/ \E kind \in {"text", "image", "foreign"}, d \in Digests :
             req' = [req EXCEPT
                     ![r].staged = @ \cup Remember(r, p, TRUE),
                     ![r].rows[p] = [kind |-> kind, digest |-> d, status |->
                        IF kind = "foreign" THEN "unsupported" ELSE "pending"]]
        \/ \E copied \in BOOLEAN :
             req' = [req EXCEPT ![r].pc = "reject",
                                ![r].staged = @ \cup Remember(r, p, copied)]
    BY <1>3 DEF StageFile
  <2> HIDE DEF p, path
  <2>5. req' \in [Requests -> Handlers]
    <3>1. ASSUME NEW kind \in {"text", "image", "foreign"}, NEW d \in Digests,
             req' = [req EXCEPT
                     ![r].staged = @ \cup Remember(r, p, TRUE),
                     ![r].rows[p] = [kind |-> kind, digest |-> d, status |->
                        IF kind = "foreign" THEN "unsupported" ELSE "pending"]]
          PROVE  req' \in [Requests -> Handlers]
      <4> DEFINE row == [kind |-> kind, digest |-> d, status |->
                           IF kind = "foreign" THEN "unsupported" ELSE "pending"]
                 now == req[r].staged \cup Remember(r, p, TRUE)
      <4>1. row \in Rows
        BY DEF Rows
      <4> DEFINE rows == [req[r].rows EXCEPT ![p] = row]
      <4>2. rows \in [Positions -> Rows]
        BY <2>1, <4>1 DEF TypeOK, Handlers
      <4>3. now \in SUBSET (Requests \X (0..MaxFiles))
        BY <2>3
      <4>4. req' = [req EXCEPT ![r].staged = now, ![r].rows = rows]
        BY <3>1 DEF TypeOK, Handlers
      <4> DEFINE h == [req[r] EXCEPT !.staged = now, !.rows = rows]
      <4> HIDE DEF row, rows, now
      <4>5. req[r] \in Handlers
        BY DEF TypeOK
      <4>6. h \in Handlers
        BY <4>2, <4>3, <4>5 DEF Handlers
      <4>7. req' = [req EXCEPT ![r] = h]
        BY <4>4 DEF TypeOK, Handlers
      <4> HIDE DEF h
      <4> QED BY <4>6, <4>7 DEF TypeOK
    <3>2. ASSUME NEW copied \in BOOLEAN,
             req' = [req EXCEPT ![r].pc = "reject",
                                ![r].staged = @ \cup Remember(r, p, copied)]
          PROVE  req' \in [Requests -> Handlers]
      <4> DEFINE now == req[r].staged \cup Remember(r, p, copied)
                 h   == [req[r] EXCEPT !.pc = "reject", !.staged = now]
      <4>1. now \in SUBSET (Requests \X (0..MaxFiles))
        BY <2>3
      <4>2. req' = [req EXCEPT ![r] = h]
        BY <3>2 DEF TypeOK, Handlers
      <4>3. req[r] \in Handlers
        BY DEF TypeOK
      <4> HIDE DEF now
      <4>4. h \in Handlers
        BY <4>1, <4>3 DEF Handlers
      <4> HIDE DEF h
      <4> QED BY <4>2, <4>4 DEF TypeOK
    <3> QED BY <2>4, <3>1, <3>2
  <2> QED BY <2>2, <2>5 DEF TypeOK
<1>4. ASSUME NEW r \in Requests, FinishStaging(r) PROVE TypeOK'
  BY <1>4, GotoType DEF FinishStaging, TypeOK
<1>5. ASSUME NEW r \in Requests, Reject(r) PROVE TypeOK'
  BY <1>5, GotoType DEF Reject, TypeOK
<1>6. ASSUME NEW r \in Requests, LockUser(r) PROVE TypeOK'
  BY <1>6, GotoType DEF LockUser, TypeOK
<1>7. ASSUME NEW r \in Requests, Count(r) PROVE TypeOK'
  BY <1>7, GotoType DEF Count, TypeOK
<1>8. ASSUME NEW r \in Requests, Commit(r) PROVE TypeOK'
  <2>1. CASE Goto(r, "reject") /\ UNCHANGED analysis
    BY <1>8, <2>1, GotoType DEF Commit, TypeOK
  <2>2. CASE ~(Goto(r, "reject") /\ UNCHANGED analysis)
    <3> DEFINE dup  == Duplicates(req[r].rows)
               rows == [p \in Positions |-> IF p \in dup
                          THEN [req[r].rows[p] EXCEPT !.status = "duplicate"]
                          ELSE req[r].rows[p]]
    <3>1. rows \in [Positions -> Rows]
      <4> SUFFICES ASSUME NEW p \in Positions PROVE rows[p] \in Rows
        OBVIOUS
      <4>1. req[r].rows[p] \in Rows
        BY DEF TypeOK, Handlers
      <4> HIDE DEF dup
      <4> QED BY <4>1 DEF Rows
    <3>2. req' = [req EXCEPT ![r].pc = "tidy", ![r].rows = rows]
      BY <1>8, <2>2 DEF Commit, TypeOK
    <3> HIDE DEF rows
    <3> DEFINE h == [req[r] EXCEPT !.pc = "tidy", !.rows = rows]
    <3>3. h \in Handlers
      <4>1. req[r] \in Handlers
        BY DEF TypeOK
      <4> QED BY <3>1, <4>1 DEF Handlers
    <3>4. req' = [req EXCEPT ![r] = h]
      BY <3>2 DEF TypeOK, Handlers
    <3> HIDE DEF h
    <3>5. req' \in [Requests -> Handlers]
      BY <3>3, <3>4 DEF TypeOK
    <3> QED BY <1>8, <2>2, <3>5 DEF Commit, TypeOK
  <2> QED BY <2>1, <2>2
<1>9. ASSUME NEW r \in Requests, DeleteDuplicates(r) PROVE TypeOK'
  BY <1>9, GotoType DEF DeleteDuplicates, TypeOK
<1>10. ASSUME NEW r \in Requests, Enqueue(r) PROVE TypeOK'
  BY <1>10, GotoType DEF Enqueue, TypeOK
<1>11. ASSUME NEW r \in Requests, Conclude(r) PROVE TypeOK'
  BY <1>11 DEF Conclude, TypeOK
<1>12. ASSUME NEW r \in Requests, LoseServer(r) PROVE TypeOK'
  BY <1>12, GotoType DEF LoseServer, TypeOK
<1>13. CASE UNCHANGED vars
  BY <1>13 DEF vars, TypeOK
<1> QED
  BY <1>1, <1>2, <1>3, <1>4, <1>5, <1>6, <1>7, <1>8, <1>9, <1>10, <1>11, <1>12, <1>13 DEF Next

\* The requests, the analyses, the lock and the directory keep their types.
THEOREM AdmissionTypeCorrect == Spec => []TypeOK
BY InitType, StepType, PTL DEF Spec

-----------------------------------------------------------------------------
(* The lock of the user's row makes counting and creating one step: only   *)
(* its holder is between the two, so what it counted still holds when it   *)
(* commits.                                                                *)

Guarded ==
    /\ \A r \in Requests : req[r].pc \in {"count", "insert"} => lock = r
    /\ \A r \in Requests : req[r].pc = "insert" => Cardinality(Active) < Limit
    /\ LimitHolds

\* Nobody is active at first.
LEMMA InitGuarded == Init => Guarded
<1> SUFFICES ASSUME Init PROVE Guarded
  OBVIOUS
<1>1. Active = {}
  BY DEF Init, Active
<1>2. Cardinality(Active) = 0
  BY <1>1, FS_EmptySet
<1> QED BY <1>2, AdmissionAssumption DEF Init, Guarded, LimitHolds

\* Every step keeps the guard.
LEMMA StepGuarded == TypeOK /\ Guarded /\ [Next]_vars => Guarded'
<1> SUFFICES ASSUME TypeOK, Guarded, [Next]_vars PROVE Guarded'
  OBVIOUS
<1> USE AdmissionAssumption
\* A step that creates no analysis, and sends nobody to count or insert.
<1>1. ASSUME NEW r \in Requests, UNCHANGED analysis,
             \A q \in Requests \ {r} : req'[q] = req[q],
             req'[r].pc \notin {"count", "insert"}, lock' = lock \/ lock = r
      PROVE  Guarded'
  <2>1. Cardinality(Active)' = Cardinality(Active)
    BY <1>1 DEF Active
  <2>2. \A q \in Requests : req'[q].pc \in {"count", "insert"} => q # r /\ lock = q /\ lock' = q
    BY <1>1 DEF Guarded
  <2> QED BY <1>1, <2>1, <2>2 DEF Guarded, LimitHolds
<1>2. ASSUME NEW r \in Requests, CheckCapacity(r) PROVE Guarded'
  <2>1. req'[r].pc \in {"source", "refused"} /\ \A q \in Requests \ {r} : req'[q] = req[q]
    <3>1. CASE Cardinality(Active) < Limit
      <4>1. PICK n \in Accepted :
                req' = [req EXCEPT ![r].pc = "source", ![r].files = n,
                                   ![r].seen = Cardinality(Active)]
        BY <1>2, <3>1 DEF CheckCapacity
      <4> QED BY <4>1 DEF TypeOK, Handlers
    <3>2. CASE ~(Cardinality(Active) < Limit)
      BY <1>2, <3>2 DEF CheckCapacity, Goto, TypeOK, Handlers
    <3> QED BY <3>1, <3>2
  <2> QED BY <1>1, <1>2, <2>1 DEF CheckCapacity
<1>3. ASSUME NEW r \in Requests, StageSource(r) PROVE Guarded'
  BY <1>1, <1>3 DEF StageSource, TypeOK, Handlers
<1>4. ASSUME NEW r \in Requests, StageFile(r) PROVE Guarded'
  <2>1. req'[r].pc \in {"files", "reject"} /\ \A q \in Requests \ {r} : req'[q] = req[q]
    <3> DEFINE p == Cardinality(Staged(req[r].rows)) + 1
    <3>1. CASE \E kind \in {"text", "image", "foreign"}, d \in Digests :
                 req' = [req EXCEPT
                     ![r].staged = @ \cup Remember(r, p, TRUE),
                     ![r].rows[p] = [kind |-> kind, digest |-> d, status |->
                        IF kind = "foreign" THEN "unsupported" ELSE "pending"]]
      <4>1. req[r].pc = "files"
        BY <1>4 DEF StageFile
      <4>2. req[r] \in Handlers /\ r \in DOMAIN req
        BY DEF TypeOK
      <4>3. req'[r].pc = req[r].pc /\ \A q \in Requests \ {r} : req'[q] = req[q]
        <5> HIDE DEF p
        <5> QED BY <3>1, <4>2 DEF TypeOK, Handlers
      <4> QED BY <4>1, <4>3
    <3>2. CASE \E copied \in BOOLEAN :
                 req' = [req EXCEPT ![r].pc = "reject",
                                    ![r].staged = @ \cup Remember(r, p, copied)]
      BY <3>2 DEF TypeOK, Handlers
    <3> QED BY <1>4, <3>1, <3>2 DEF StageFile
  <2> QED BY <1>1, <1>4, <2>1 DEF StageFile
<1>5. ASSUME NEW r \in Requests, FinishStaging(r) PROVE Guarded'
  BY <1>1, <1>5 DEF FinishStaging, Goto, TypeOK, Handlers
<1>6. ASSUME NEW r \in Requests, Reject(r) PROVE Guarded'
  BY <1>1, <1>6 DEF Reject, Goto, TypeOK, Handlers
<1>7. ASSUME NEW r \in Requests, LockUser(r) PROVE Guarded'
  <2>1. Cardinality(Active)' = Cardinality(Active)
    BY <1>7 DEF LockUser, Active
  <2>2. \A q \in Requests : req[q].pc \notin {"count", "insert"}
    BY <1>7 DEF LockUser, Guarded
  <2> QED BY <1>7, <2>1, <2>2 DEF LockUser, Goto, Guarded, LimitHolds, TypeOK, Handlers
<1>8. ASSUME NEW r \in Requests, Count(r) PROVE Guarded'
  <2>1. lock = r
    BY <1>8 DEF Count, Guarded
  <2>2. CASE Cardinality(Active) >= Limit
    BY <1>1, <1>8, <2>1, <2>2 DEF Count, Counted, Goto, TypeOK, Handlers
  <2>3. CASE ~(Cardinality(Active) >= Limit)
    <3>1. Cardinality(Active)' = Cardinality(Active) /\ Cardinality(Active) < Limit
      BY <1>8, <2>3, Counting DEF Count, Active
    <3> QED BY <1>8, <2>1, <2>3, <3>1 DEF Count, Counted, Goto, Guarded, LimitHolds, TypeOK, Handlers
  <2> QED BY <2>2, <2>3
<1>9. ASSUME NEW r \in Requests, Commit(r) PROVE Guarded'
  <2>1. lock = r /\ Cardinality(Active) < Limit
    BY <1>9 DEF Commit, Guarded
  <2>2. CASE Goto(r, "reject") /\ UNCHANGED analysis
    BY <1>1, <1>9, <2>1, <2>2 DEF Commit, Goto, TypeOK, Handlers
  <2>3. CASE ~(Goto(r, "reject") /\ UNCHANGED analysis)
    <3>1. Active' \subseteq Active \cup {r}
      BY <1>9, <2>3 DEF Commit, Active, TypeOK
    <3>2. IsFiniteSet(Active \cup {r}) /\ Cardinality(Active \cup {r}) <= Cardinality(Active) + 1
      <4>1. IsFiniteSet(Active) /\ Cardinality(Active) \in Nat
        BY Counting
      <4>2. /\ IsFiniteSet(Active \cup {r})
            /\ Cardinality(Active \cup {r}) =
                 IF r \in Active THEN Cardinality(Active) ELSE Cardinality(Active) + 1
        BY <4>1, FS_AddElement
      <4> QED BY <4>1, <4>2
    <3>3. Cardinality(Active') <= Cardinality(Active \cup {r}) /\ Cardinality(Active') \in Nat
      BY <3>1, <3>2, FS_Subset, FS_CardinalityType
    <3>4. Cardinality(Active \cup {r}) \in Nat
      BY <3>2, FS_CardinalityType
    <3>5. Cardinality(Active') <= Limit
      BY <2>1, <3>2, <3>3, <3>4, Counting
    <3>6. \A q \in Requests : req'[q].pc \notin {"count", "insert"}
      <4>1. req'[r].pc = "tidy" /\ \A q \in Requests \ {r} : req'[q] = req[q]
        BY <1>9, <2>3 DEF Commit, TypeOK, Handlers
      <4>2. \A q \in Requests \ {r} : req[q].pc \notin {"count", "insert"}
        BY <2>1 DEF Guarded
      <4> QED BY <4>1, <4>2
    <3> QED BY <3>5, <3>6 DEF Guarded, LimitHolds
  <2> QED BY <2>2, <2>3
<1>10. ASSUME NEW r \in Requests, DeleteDuplicates(r) PROVE Guarded'
  BY <1>1, <1>10 DEF DeleteDuplicates, Goto, TypeOK, Handlers
<1>11. ASSUME NEW r \in Requests, Enqueue(r) PROVE Guarded'
  BY <1>1, <1>11 DEF Enqueue, Goto, TypeOK, Handlers
<1>12. ASSUME NEW r \in Requests, Conclude(r) PROVE Guarded'
  <2>1. Active' \subseteq Active
    BY <1>12 DEF Conclude, Active, TypeOK
  <2>2. Cardinality(Active') <= Cardinality(Active) /\ Cardinality(Active') \in Nat
    BY <2>1, Counting, FS_Subset, FS_CardinalityType
  <2> QED BY <1>12, <2>2, Counting DEF Conclude, Guarded, LimitHolds
<1>13. ASSUME NEW r \in Requests, LoseServer(r) PROVE Guarded'
  BY <1>1, <1>13 DEF LoseServer, Goto, TypeOK, Handlers
<1>14. CASE UNCHANGED vars
  BY <1>14 DEF vars, Guarded, LimitHolds, Active
<1> QED
  BY <1>2, <1>3, <1>4, <1>5, <1>6, <1>7, <1>8, <1>9, <1>10, <1>11, <1>12, <1>13, <1>14 DEF Next

\* However many uploads of a user run together, no more than Limit of his
\* analyses are active.
THEOREM AdmissionLimit == Spec => []LimitHolds
<1>1. Guarded => LimitHolds
  BY DEF Guarded
<1> QED BY <1>1, AdmissionTypeCorrect, InitGuarded, StepGuarded, PTL DEF Spec

-----------------------------------------------------------------------------
(* The files of a request follow its rows, and those of one request are    *)
(* not touched by another.                                                 *)

\* Before its commit a request has its supported files, and its ZIP, on disk.
StagedAreThere(r) ==
    req[r].pc \in {"new", "source", "files", "lock", "count", "insert"} =>
        /\ \A p \in Positions : Supported(req[r].rows[p]) =>
              /\ req[r].rows[p].status = "pending" /\ req[r].rows[p].digest \in Digests
              /\ <<r, p>> \in disk
        /\ req[r].source = "zip" => <<r, 0>> \in disk

\* After it, for every supported file, one that is no duplicate.
KeptAreThere(r) ==
    analysis[r] = "active" =>
        /\ \A p \in Positions : Supported(req[r].rows[p]) =>
              \E q \in Positions \ Duplicates(req[r].rows) :
                 /\ req[r].rows[q].status = "pending"
                 /\ req[r].rows[q].digest = req[r].rows[p].digest
                 /\ <<r, q>> \in disk
        /\ req[r].source = "zip" => <<r, 0>> \in disk

FilesHold(r) ==
    /\ req[r].staged \subseteq FilesOf(r)
    /\ disk \cap FilesOf(r) \subseteq req[r].staged
    /\ req[r].pc \in {"new", "source"} => req[r].staged = {}
    /\ req[r].pc = "refused" => disk \cap FilesOf(r) = {}
    /\ analysis[r] # "none" => req[r].pc \in {"tidy", "enqueue", "done", "lost"}
    /\ StagedAreThere(r) /\ KeptAreThere(r)

FilesInv == \A r \in Requests : FilesHold(r)

\* A set of positions has a first one.
LEMMA FirstPosition ==
  ASSUME NEW S \in SUBSET Nat, S # {}
  PROVE  \E n \in S : \A m \in S : ~(m < n)
<1> DEFINE R == {ss \in Nat \X Nat : ss[1] < ss[2]}
<1>1. IsWellFoundedOn(OpToRel(<, Nat), Nat)
  BY NatLessThanWellFounded
<1>2. OpToRel(<, Nat) = R
  BY DEF OpToRel
<1>3. IsWellFoundedOn(R, Nat)
  BY <1>1, <1>2
<1> HIDE DEF R
<1>4. \E x \in S : \A y \in S : ~(<<y, x>> \in R)
  BY <1>3, WFMin
<1>5. ASSUME NEW x \in S, NEW y \in S, y < x PROVE <<y, x>> \in R
  BY <1>5 DEF R
<1> QED BY <1>4, <1>5

\* Of the files with one content, the first is no duplicate.
LEMMA FirstIsKept ==
  ASSUME NEW rows \in [Positions -> Rows], NEW p \in Positions, Supported(rows[p]),
         rows[p].digest \in Digests
  PROVE  \E q \in Positions \ Duplicates(rows) :
            Supported(rows[q]) /\ rows[q].digest = rows[p].digest
<1> DEFINE same == Canonical(rows)[rows[p].digest]
<1>1. same = {q \in Staged(rows) : Supported(rows[q]) /\ rows[q].digest = rows[p].digest}
  BY DEF Canonical
<1>2. p \in same /\ same \in SUBSET Nat
  BY <1>1 DEF Staged, Supported, Positions
<1> HIDE DEF same
<1>3. PICK q \in same : \A m \in same : ~(m < q)
  BY <1>2, FirstPosition
<1>4. q \in Positions /\ Supported(rows[q]) /\ rows[q].digest = rows[p].digest
  BY <1>1 DEF Staged
<1>5. q \notin Duplicates(rows)
  BY <1>3, <1>4 DEF Duplicates, same
<1> QED BY <1>4, <1>5

\* Marking the duplicates keeps what they are duplicates of.
LEMMA MarkedAreTheSame ==
  ASSUME NEW rows \in [Positions -> Rows], NEW marked \in [Positions -> Rows],
         \A p \in Positions : marked[p].kind = rows[p].kind /\ marked[p].digest = rows[p].digest
  PROVE  Duplicates(marked) = Duplicates(rows)
<1>1. Staged(marked) = Staged(rows)
  BY DEF Staged
<1>2. \A p \in Positions : Supported(marked[p]) <=> Supported(rows[p])
  BY DEF Supported
<1>3. \A d \in Digests :
        {p \in Staged(marked) : Supported(marked[p]) /\ marked[p].digest = d}
          = {p \in Staged(rows) : Supported(rows[p]) /\ rows[p].digest = d}
  BY <1>1, <1>2 DEF Staged
<1>4. Canonical(marked) = Canonical(rows)
  BY <1>3 DEF Canonical
<1>5. \A p \in Staged(rows) :
        /\ Supported(marked[p]) <=> Supported(rows[p])
        /\ marked[p].digest = rows[p].digest
  BY <1>2 DEF Staged
<1> QED BY <1>1, <1>4, <1>5 DEF Duplicates

\* No file is there at first.
LEMMA InitFiles == Init => FilesInv
  BY DEF Init, FilesInv, FilesHold, StagedAreThere, KeptAreThere, NoRow, Supported

\* Every step keeps the files.
LEMMA StepFiles == TypeOK /\ FilesInv /\ [Next]_vars => FilesInv'
<1> SUFFICES ASSUME TypeOK, FilesInv, [Next]_vars PROVE FilesInv'
  OBVIOUS
<1>0. \A r \in Requests : req[r] \in Handlers /\ FilesHold(r)
  BY DEF TypeOK, FilesInv
\* A step of r leaves the files of the others alone.
<1>1. ASSUME NEW r \in Requests, FilesHold(r)',
             \A q \in Requests \ {r} :
                req'[q] = req[q] /\ analysis'[q] = analysis[q]
                /\ disk' \cap FilesOf(q) = disk \cap FilesOf(q)
      PROVE  FilesInv'
  <2> SUFFICES ASSUME NEW q \in Requests \ {r} PROVE FilesHold(q)'
    BY <1>1 DEF FilesInv
  <2>1. /\ req'[q] = req[q] /\ analysis'[q] = analysis[q]
        /\ disk' \cap FilesOf(q) = disk \cap FilesOf(q)
        /\ FilesHold(q)
    BY <1>0, <1>1
  <2>2. \A p \in 0..MaxFiles : <<q, p>> \in disk' <=> <<q, p>> \in disk
    BY <2>1 DEF FilesOf
  <2>3. Positions \subseteq 0..MaxFiles /\ 0 \in 0..MaxFiles
    BY AdmissionAssumption DEF Positions
  <2>4. StagedAreThere(q)'
    BY <2>1, <2>2, <2>3 DEF FilesHold, StagedAreThere
  <2>5. KeptAreThere(q)'
    BY <2>1, <2>2, <2>3 DEF FilesHold, KeptAreThere
  <2> QED BY <2>1, <2>4, <2>5 DEF FilesHold
\* A step on the way to the commit that touches no file.
<1>2. ASSUME NEW r \in Requests, UNCHANGED <<analysis, disk>>, NEW pc, Goto(r, pc),
             \/ pc \in {"lock", "count", "insert"} /\ req[r].pc \in {"files", "lock", "count"}
             \/ pc \in {"enqueue", "done"} /\ req[r].pc \in {"tidy", "enqueue"}
             \/ pc = "lost"
             \/ pc = "reject" /\ req[r].pc \in {"files", "count", "insert"}
             \/ pc = "refused" /\ req[r].pc = "new"
      PROVE  FilesInv'
  <2>1. req'[r] = [req[r] EXCEPT !.pc = pc] /\ \A q \in Requests \ {r} : req'[q] = req[q]
    BY <1>2 DEF Goto, TypeOK
  <2>2. /\ req'[r].pc = pc /\ req'[r].staged = req[r].staged /\ req'[r].rows = req[r].rows
        /\ req'[r].source = req[r].source
    BY <1>0, <2>1 DEF Handlers
  <2>3. FilesHold(r)
    BY <1>0
  <2>4. StagedAreThere(r)' /\ KeptAreThere(r)'
    BY <1>2, <2>2, <2>3 DEF FilesHold, StagedAreThere, KeptAreThere
  <2>5. FilesHold(r)'
    BY <1>2, <2>2, <2>3, <2>4 DEF FilesHold
  <2> QED BY <1>1, <1>2, <2>1, <2>5
<1>4. ASSUME NEW r \in Requests, CheckCapacity(r) PROVE FilesInv'
  <2>1. CASE Goto(r, "refused")
    BY <1>2, <1>4, <2>1 DEF CheckCapacity
  <2>2. CASE \E n \in Accepted :
              req' = [req EXCEPT ![r].pc = "source", ![r].files = n,
                                 ![r].seen = Cardinality(Active)]
    <3>1. /\ \A q \in Requests \ {r} : req'[q] = req[q]
          /\ req'[r].pc = "source" /\ req'[r].staged = req[r].staged
          /\ req'[r].rows = req[r].rows /\ req'[r].source = req[r].source
      <4> PICK n \in Accepted :
              req' = [req EXCEPT ![r].pc = "source", ![r].files = n,
                                 ![r].seen = Cardinality(Active)]
        BY <2>2
      <4> QED BY <1>0 DEF TypeOK, Handlers
    <3>2. FilesHold(r) /\ req[r].pc = "new" /\ UNCHANGED <<analysis, disk>>
      BY <1>0, <1>4 DEF CheckCapacity
    <3>3. StagedAreThere(r)' /\ KeptAreThere(r)'
      BY <3>1, <3>2 DEF FilesHold, StagedAreThere, KeptAreThere
    <3>4. FilesHold(r)'
      BY <3>1, <3>2, <3>3 DEF FilesHold
    <3> QED BY <1>1, <3>1, <3>2, <3>4
  <2> QED BY <1>4, <2>1, <2>2 DEF CheckCapacity
<1>5. ASSUME NEW r \in Requests, StageSource(r) PROVE FilesInv'
  <2> DEFINE zip == <<r, 0>>
  <2>1. FilesHold(r) /\ req[r].pc = "source" /\ UNCHANGED analysis /\ req[r].staged = {}
    BY <1>0, <1>5 DEF StageSource, FilesHold
  <2>2. /\ \A q \in Requests \ {r} : req'[q] = req[q]
        /\ req'[r].pc \in {"files", "reject"} /\ req'[r].rows = req[r].rows
        /\ \/ UNCHANGED disk /\ req'[r].staged = {} /\ req'[r].source # "zip"
           \/ disk' = disk \ {zip} /\ req'[r].staged = {zip} /\ req'[r].source # "zip"
           \/ disk' = disk \cup {zip} /\ req'[r].staged = {zip}
    <3>0. r \in DOMAIN req /\ req[r] \in Handlers
      BY DEF TypeOK
    <3>1. CASE \E s \in {"none", "github", "unavailable"} :
                 /\ req' = [req EXCEPT ![r].pc = "files", ![r].source = s]
                 /\ UNCHANGED disk
      <4>1. PICK s \in {"none", "github", "unavailable"} :
                 /\ req' = [req EXCEPT ![r].pc = "files", ![r].source = s]
                 /\ UNCHANGED disk
        BY <3>1
      <4>2. /\ req'[r].pc = "files" /\ req'[r].source = s
            /\ req'[r].rows = req[r].rows /\ req'[r].staged = req[r].staged
            /\ \A q \in Requests \ {r} : req'[q] = req[q]
        BY <3>0, <4>1 DEF TypeOK, Handlers
      <4> QED BY <2>1, <4>1, <4>2
    <3>2. CASE /\ req' = [req EXCEPT ![r].pc = "files", ![r].source = "zip",
                                     ![r].staged = {zip}]
               /\ disk' = disk \cup {zip}
      <4> HIDE DEF zip
      <4> QED BY <3>0, <3>2 DEF TypeOK, Handlers
    <3>3. CASE /\ req' = [req EXCEPT ![r].pc = "files", ![r].source = "unavailable",
                                     ![r].staged = {zip}]
               /\ disk' = disk \ {zip}
      <4> HIDE DEF zip
      <4> QED BY <3>0, <3>3 DEF TypeOK, Handlers
    <3>4. CASE /\ req' = [req EXCEPT ![r].pc = "reject", ![r].staged = {zip}]
               /\ disk' = disk \cup {zip}
      <4> HIDE DEF zip
      <4> QED BY <3>0, <3>4 DEF TypeOK, Handlers
    <3> QED BY <1>5, <3>1, <3>2, <3>3, <3>4 DEF StageSource
  <2>3. \A q \in Requests \ {r} : disk' \cap FilesOf(q) = disk \cap FilesOf(q)
    BY <2>2 DEF FilesOf
  <2>4. zip \in FilesOf(r) /\ disk \cap FilesOf(r) = {}
    BY <2>1, AdmissionAssumption DEF FilesHold, FilesOf
  <2>5. \A p \in Positions : ~Supported(req[r].rows[p])
    <3>1. \A p \in Positions : <<r, p>> \in FilesOf(r)
      BY DEF FilesOf, Positions
    <3> QED BY <2>1, <2>4, <3>1 DEF FilesHold, StagedAreThere
  <2> HIDE DEF zip
  <2>6. StagedAreThere(r)' /\ KeptAreThere(r)'
    BY <2>1, <2>2, <2>5 DEF FilesHold, StagedAreThere, KeptAreThere, zip
  <2>7. FilesHold(r)'
    BY <2>1, <2>2, <2>4, <2>6 DEF FilesHold
  <2> QED BY <1>1, <2>1, <2>2, <2>3, <2>7
<1>6. ASSUME NEW r \in Requests, StageFile(r) PROVE FilesInv'
  <2> DEFINE p    == Cardinality(Staged(req[r].rows)) + 1
             path == <<r, p>>
  <2>1. /\ FilesHold(r) /\ req[r].pc = "files" /\ UNCHANGED analysis /\ analysis[r] = "none"
        /\ p \in Positions
    <3>1. /\ FilesHold(r) /\ req[r].pc = "files" /\ UNCHANGED analysis /\ p <= req[r].files
      BY <1>0, <1>6 DEF StageFile
    <3>2. Cardinality(Staged(req[r].rows)) \in Nat
      BY Counting
    <3>3. req[r].files \in 0..MaxFiles
      BY <1>0 DEF Handlers
    <3> HIDE DEF path
    <3>4. p \in Positions
      BY <3>1, <3>2, <3>3, AdmissionAssumption DEF Positions
    <3> QED BY <3>1, <3>4 DEF FilesHold, TypeOK
  <2>2. /\ path \in FilesOf(r)
        /\ \A copied \in BOOLEAN : Remember(r, p, copied) = {path}
    BY <2>1, AdmissionAssumption DEF FilesOf, Positions, Remember
  <2>3. ASSUME NEW kind \in {"text", "image", "foreign"}, NEW d \in Digests,
               req' = [req EXCEPT
                     ![r].staged = @ \cup Remember(r, p, TRUE),
                     ![r].rows[p] = [kind |-> kind, digest |-> d, status |->
                        IF kind = "foreign" THEN "unsupported" ELSE "pending"]],
               disk' = IF kind = "foreign" THEN disk \ {path} ELSE disk \cup {path}
        PROVE  FilesInv'
    <3> DEFINE row  == [kind |-> kind, digest |-> d, status |->
                        IF kind = "foreign" THEN "unsupported" ELSE "pending"]
               rows == [req[r].rows EXCEPT ![p] = row]
    <3> HIDE DEF p
    <3>1. /\ \A q \in Requests \ {r} : req'[q] = req[q]
          /\ req'[r].pc = "files" /\ req'[r].source = req[r].source
          /\ req'[r].staged = req[r].staged \cup {path}
          /\ req'[r].rows = rows
      BY <1>0, <2>1, <2>2, <2>3 DEF TypeOK, Handlers
    <3>2. /\ rows[p] = row /\ \A q \in Positions \ {p} : rows[q] = req[r].rows[q]
      BY <1>0, <2>1 DEF Handlers
    <3>3. /\ Supported(row) => row.status = "pending" /\ row.digest \in Digests
          /\ Supported(row) <=> kind # "foreign"
      BY DEF Supported
    <3>4. \A q \in Requests \ {r} : disk' \cap FilesOf(q) = disk \cap FilesOf(q)
      BY <2>3 DEF FilesOf
    <3>5. \A q \in (0..MaxFiles) \ {p} : <<r, q>> \in disk' <=> <<r, q>> \in disk
      BY <2>3
    <3>6. 0 # p /\ Positions \subseteq 0..MaxFiles /\ 0 \in 0..MaxFiles
      BY <2>1, AdmissionAssumption DEF Positions
    <3> HIDE DEF row, rows
    <3>7. StagedAreThere(r)'
      <4>1. ASSUME NEW q \in Positions, Supported(rows[q])
            PROVE  /\ rows[q].status = "pending" /\ rows[q].digest \in Digests
                   /\ <<r, q>> \in disk'
        BY <2>1, <2>3, <3>2, <3>3, <3>5, <3>6, <4>1 DEF FilesHold, StagedAreThere
      <4>2. req[r].source = "zip" => <<r, 0>> \in disk'
        BY <2>1, <3>5, <3>6 DEF FilesHold, StagedAreThere
      <4> QED BY <3>1, <4>1, <4>2 DEF StagedAreThere
    <3>8. KeptAreThere(r)'
      BY <2>1 DEF KeptAreThere
    <3>9. FilesHold(r)'
      BY <2>1, <2>2, <2>3, <3>1, <3>7, <3>8 DEF FilesHold
    <3> QED BY <1>1, <2>1, <3>1, <3>4, <3>9
  <2>4. ASSUME NEW copied \in BOOLEAN,
               req' = [req EXCEPT ![r].pc = "reject",
                                  ![r].staged = @ \cup Remember(r, p, copied)],
               disk' = disk \cup {path}
        PROVE  FilesInv'
    <3> HIDE DEF p
    <3>1. /\ \A q \in Requests \ {r} : req'[q] = req[q]
          /\ req'[r].pc = "reject" /\ req'[r].staged = req[r].staged \cup {path}
      BY <1>0, <2>2, <2>4 DEF TypeOK, Handlers
    <3>2. \A q \in Requests \ {r} : disk' \cap FilesOf(q) = disk \cap FilesOf(q)
      BY <2>4 DEF FilesOf
    <3>3. FilesHold(r)'
      BY <2>1, <2>2, <2>4, <3>1 DEF FilesHold, StagedAreThere, KeptAreThere
    <3> QED BY <1>1, <2>1, <3>1, <3>2, <3>3
  <2> QED BY <1>6, <2>3, <2>4 DEF StageFile
<1>7. ASSUME NEW r \in Requests, FinishStaging(r) PROVE FilesInv'
  <2>1. Goto(r, "lock") \/ Goto(r, "reject")
    BY <1>7 DEF FinishStaging
  <2> QED BY <1>2, <1>7, <2>1 DEF FinishStaging
<1>8. ASSUME NEW r \in Requests, Reject(r) PROVE FilesInv'
  <2>1. FilesHold(r) /\ req[r].pc = "reject" /\ UNCHANGED analysis /\ disk' = disk \ req[r].staged
    BY <1>0, <1>8 DEF Reject
  <2>2. /\ \A q \in Requests \ {r} : req'[q] = req[q]
        /\ req'[r].pc = "refused" /\ req'[r].staged = req[r].staged
    BY <1>0, <1>8 DEF Reject, Goto, TypeOK, Handlers
  <2>3. \A q \in Requests \ {r} : disk' \cap FilesOf(q) = disk \cap FilesOf(q)
    BY <2>1 DEF FilesHold, FilesOf
  <2>4. FilesHold(r)'
    BY <2>1, <2>2 DEF FilesHold, StagedAreThere, KeptAreThere
  <2> QED BY <1>1, <2>1, <2>2, <2>3, <2>4
<1>9. ASSUME NEW r \in Requests, LockUser(r) PROVE FilesInv'
  BY <1>2, <1>9 DEF LockUser
<1>10. ASSUME NEW r \in Requests, Count(r) PROVE FilesInv'
  <2>1. Goto(r, "reject") \/ Goto(r, "insert")
    BY <1>10 DEF Count
  <2> QED BY <1>2, <1>10, <2>1 DEF Count
<1>11. ASSUME NEW r \in Requests, Commit(r) PROVE FilesInv'
  <2>1. CASE Goto(r, "reject") /\ UNCHANGED analysis
    BY <1>2, <1>11, <2>1 DEF Commit
  <2>2. CASE ~(Goto(r, "reject") /\ UNCHANGED analysis)
    <3> DEFINE rows   == req[r].rows
               dup    == Duplicates(rows)
               marked == [p \in Positions |-> IF p \in dup
                            THEN [rows[p] EXCEPT !.status = "duplicate"] ELSE rows[p]]
    <3>1. /\ FilesHold(r) /\ req[r].pc = "insert" /\ UNCHANGED disk
          /\ analysis' = [analysis EXCEPT ![r] = "active"]
          /\ req' = [req EXCEPT ![r].pc = "tidy", ![r].rows = marked]
      BY <1>0, <1>11, <2>2 DEF Commit, TypeOK, Handlers
    <3>2. rows \in [Positions -> Rows]
      BY <1>0 DEF Handlers
    <3> HIDE DEF rows, dup
    <3>3. marked \in [Positions -> Rows]
      <4> SUFFICES ASSUME NEW p \in Positions PROVE marked[p] \in Rows
        OBVIOUS
      <4>1. rows[p] \in Rows
        BY <3>2
      <4> QED BY <4>1 DEF Rows
    <3>4. \A p \in Positions :
            /\ marked[p].kind = rows[p].kind
            /\ marked[p].digest = rows[p].digest
            /\ p \notin dup => marked[p] = rows[p]
      <4> SUFFICES ASSUME NEW p \in Positions
                   PROVE  /\ marked[p].kind = rows[p].kind
                          /\ marked[p].digest = rows[p].digest
                          /\ p \notin dup => marked[p] = rows[p]
        OBVIOUS
      <4>1. rows[p] \in Rows
        BY <3>2
      <4> QED BY <4>1 DEF Rows
    <3> HIDE DEF marked
    <3>5. Duplicates(marked) = dup
      BY <3>2, <3>3, <3>4, MarkedAreTheSame DEF dup
    <3>6. /\ \A q \in Requests \ {r} : req'[q] = req[q] /\ analysis'[q] = analysis[q]
          /\ req'[r].pc = "tidy" /\ req'[r].rows = marked /\ req'[r].source = req[r].source
          /\ req'[r].staged = req[r].staged /\ analysis'[r] = "active"
      BY <1>0, <3>1 DEF TypeOK, Handlers
    <3>7. KeptAreThere(r)'
      <4>1. ASSUME NEW p \in Positions, Supported(marked[p])
            PROVE  \E q \in Positions \ Duplicates(marked) :
                      /\ marked[q].status = "pending"
                      /\ marked[q].digest = marked[p].digest
                      /\ <<r, q>> \in disk
        <5>1. Supported(rows[p])
          BY <3>4, <4>1 DEF Supported
        <5>2. rows[p].digest \in Digests
          BY <3>1, <5>1 DEF FilesHold, StagedAreThere, rows
        <5>3. PICK q \in Positions \ dup :
                Supported(rows[q]) /\ rows[q].digest = rows[p].digest
          BY <3>2, <5>1, <5>2, FirstIsKept DEF dup
        <5>4. rows[q].status = "pending" /\ <<r, q>> \in disk
          BY <3>1, <5>3 DEF FilesHold, StagedAreThere, rows
        <5> QED BY <3>4, <3>5, <5>3, <5>4
      <4>2. req[r].source = "zip" => <<r, 0>> \in disk
        BY <3>1 DEF FilesHold, StagedAreThere
      <4> QED BY <3>1, <3>6, <4>1, <4>2 DEF KeptAreThere
    <3>8. FilesHold(r)'
      BY <3>1, <3>6, <3>7 DEF FilesHold, StagedAreThere
    <3> QED BY <1>1, <3>1, <3>6, <3>8
  <2> QED BY <2>1, <2>2
<1>12. ASSUME NEW r \in Requests, DeleteDuplicates(r) PROVE FilesInv'
  <2> DEFINE dup == Duplicates(req[r].rows)
  <2>1. FilesHold(r) /\ req[r].pc = "tidy" /\ UNCHANGED analysis
    BY <1>0, <1>12 DEF DeleteDuplicates
  <2>2. PICK failed \in SUBSET dup : disk' = disk \ ({r} \X (dup \ failed))
    BY <1>12 DEF DeleteDuplicates
  <2>3. /\ \A q \in Requests \ {r} : req'[q] = req[q]
        /\ req'[r].pc = "enqueue" /\ req'[r].rows = req[r].rows
        /\ req'[r].staged = req[r].staged /\ req'[r].source = req[r].source
    BY <1>0, <1>12 DEF DeleteDuplicates, Goto, TypeOK, Handlers
  <2>4. \A q \in Requests \ {r} : disk' \cap FilesOf(q) = disk \cap FilesOf(q)
    BY <2>2 DEF FilesOf
  <2>5. 0 \notin dup
    BY DEF Duplicates, Staged, Positions
  <2>6. \A q : q \notin dup => (<<r, q>> \in disk' <=> <<r, q>> \in disk)
    BY <2>2
  <2>7. KeptAreThere(r)'
    BY <2>1, <2>3, <2>5, <2>6 DEF FilesHold, KeptAreThere
  <2>8. FilesHold(r)'
    BY <2>1, <2>2, <2>3, <2>7 DEF FilesHold, StagedAreThere
  <2> QED BY <1>1, <2>1, <2>3, <2>4, <2>8
<1>13. ASSUME NEW r \in Requests, Enqueue(r) PROVE FilesInv'
  BY <1>2, <1>13 DEF Enqueue
<1>14. ASSUME NEW r \in Requests, Conclude(r) PROVE FilesInv'
  <2>1. FilesHold(r) /\ analysis[r] = "active" /\ UNCHANGED req
        /\ disk' = disk \ FilesOf(r)
    BY <1>0, <1>14 DEF Conclude
  <2>2. analysis'[r] = "ended" /\ \A q \in Requests \ {r} : analysis'[q] = analysis[q]
    BY <1>14 DEF Conclude, TypeOK
  <2>3. \A q \in Requests \ {r} : disk' \cap FilesOf(q) = disk \cap FilesOf(q)
    BY <2>1 DEF FilesOf
  <2>4. FilesHold(r)'
    BY <2>1, <2>2 DEF FilesHold, StagedAreThere, KeptAreThere
  <2> QED BY <1>1, <2>1, <2>2, <2>3, <2>4
<1>15. ASSUME NEW r \in Requests, LoseServer(r) PROVE FilesInv'
  BY <1>2, <1>15 DEF LoseServer
<1>16. CASE UNCHANGED vars
  BY <1>16 DEF vars, FilesInv, FilesHold, StagedAreThere, KeptAreThere
<1> QED
  BY <1>4, <1>5, <1>6, <1>7, <1>8, <1>9, <1>10, <1>11, <1>12, <1>13, <1>14, <1>15, <1>16
     DEF Next

\* A refused request leaves no file, and every supported file of an admitted
\* analysis, or the one kept for its content, can be read.
THEOREM FilesAreKept == Spec => []FilesFollowOutcome
<1>1. TypeOK /\ FilesInv => FilesFollowOutcome
  <2> SUFFICES ASSUME TypeOK, FilesInv PROVE RefusedLeavesNothing /\ AdmittedIsReadable
    BY DEF FilesFollowOutcome
  <2>1. RefusedLeavesNothing
    BY DEF FilesInv, FilesHold, RefusedLeavesNothing
  <2>2. AdmittedIsReadable
    BY DEF FilesInv, FilesHold, KeptAreThere, AdmittedIsReadable, Active, Staged
  <2> QED BY <2>1, <2>2
<1> QED BY <1>1, AdmissionTypeCorrect, InitFiles, StepFiles, PTL DEF Spec

-----------------------------------------------------------------------------
(* Accounts: types.                                                        *)

LEMMA AccountConstants ==
  /\ HandoffLife \in Nat /\ StaleAfter \in Nat /\ RequestLife \in Nat
  /\ MaxTime \in Nat /\ MaxId \in Nat /\ MaxResets \in Nat
  /\ RequestLife + HandoffLife <= StaleAfter
  /\ Unknown \notin Passwords /\ NoAccount \notin Account!Users
BY RequestsAssumption DEF Account!AccountsAssumption

\* What a handler of each kind holds.
LEMMA HandlerKinds ==
  ASSUME NEW h \in Account!Handlers
  PROVE  /\ h.pc \in {"idle", "resend", "create", "mail", "cookie", "verify", "session",
                      "resetmail", "reset"}
         /\ h.pc # "idle" => h.email \in Emails
         /\ h.pc \in {"resend", "verify", "mail"} => h.id \in Account!Ids
         /\ h.pc = "create" => h.name \in Usernames /\ h.pw \in Passwords
         /\ h.pc \in {"mail", "cookie"} => h.at \in Account!Times
         /\ h.pc \in {"cookie", "session", "resetmail", "reset"} =>
               h.user.id \in Account!Ids /\ h.user.ver \in Account!Versions
         /\ h.pc = "session" => h.pw \in Passwords \cup {Unknown}
         /\ h.pc = "reset" => h.pw \in Passwords
BY DEF Account!Handlers, Account!Idle, Account!Held

LEMMA HandlerForms ==
  ASSUME NEW e \in Emails, NEW i \in Account!Ids, NEW v \in Account!Versions
  PROVE  /\ [pc |-> "resend", email |-> e, id |-> i] \in Account!Handlers
         /\ [pc |-> "verify", email |-> e, id |-> i] \in Account!Handlers
         /\ \A u \in Usernames, p \in Passwords :
              [pc |-> "create", email |-> e, name |-> u, pw |-> p] \in Account!Handlers
         /\ \A t \in Account!Times :
              /\ [pc |-> "mail", email |-> e, id |-> i, at |-> t] \in Account!Handlers
              /\ [pc |-> "cookie", email |-> e, user |-> [id |-> i, ver |-> v], at |-> t]
                   \in Account!Handlers
         /\ [pc |-> "resetmail", email |-> e, user |-> [id |-> i, ver |-> v]] \in Account!Handlers
         /\ \A p \in Passwords :
              [pc |-> "reset", email |-> e, user |-> [id |-> i, ver |-> v], pw |-> p]
                \in Account!Handlers
         /\ \A p \in Passwords \cup {Unknown} :
              [pc |-> "session", email |-> e, user |-> [id |-> i, ver |-> v], pw |-> p]
                \in Account!Handlers
BY DEF Account!Handlers, Account!Held

\* A row and what is read of it.
LEMMA RowTypes ==
  ASSUME Account!TypeOK, NEW e \in Emails, Account!Exists(e)
  PROVE  /\ users[e] \in Account!Users /\ Account!ReadUser(e) \in Account!Held
         /\ users[e].id \in Account!Ids /\ users[e].ver \in Account!Versions
         /\ users[e].ver \in Nat /\ users[e].id \in Nat
         /\ users[e].pw \in Passwords
         /\ users[e].verified \in BOOLEAN /\ users[e].active \subseteq Account!Times
<1>1. users[e] \in Account!Users
  BY DEF Account!TypeOK, Account!Exists
<1> QED
  BY <1>1, AccountConstants DEF Account!Users, Account!ReadUser, Account!Held, Account!Ids, Account!Versions

LEMMA TokenTypes ==
  ASSUME Account!TypeOK, NEW t \in tokens
  PROVE  /\ t.email \in Emails
         /\ t.kind \in {"access", "refresh", "handoff", "reset", "verify"}
         /\ t.kind # "verify" => /\ t \in Account!Tokens
                                 /\ t.id \in Account!Ids /\ t.ver \in Nat /\ t.exp \in Nat
                                 /\ t.pw \in Passwords \cup {Unknown}
BY AccountConstants DEF Account!TypeOK, Account!Tokens, Account!Links, Account!Versions

LEMMA TimesAreNumbers ==
  /\ Account!Times \subseteq Nat /\ Account!Versions \subseteq Nat /\ Account!Ids \subseteq Nat
BY AccountConstants DEF Account!Times, Account!Versions, Account!Ids

-----------------------------------------------------------------------------
(* Accounts: the invariant.                                                *)

\* Rows have numbers of their own, given out in order; a row's version counts its
\* resets, and it was active in the past.
Numbered ==
    /\ \A e \in Emails : Account!Exists(e) =>
         /\ users[e].id < nextId /\ users[e].ver = resets[users[e].id]
         /\ \A t \in users[e].active : t <= clock
         /\ \A f \in Emails : Account!Exists(f) /\ users[f].id = users[e].id => f = e
    /\ \A i \in Account!Ids : i >= nextId => resets[i] = 0

\* The account is there and the cleanup does not take it until then.
SafeUntil(e, id, until) ==
    /\ Account!Holds(e, id)
    /\ \/ users[e].verified
       \/ \E t \in users[e].active : users[e].active = {t} /\ until <= t + StaleAfter

\* The account is there and verified, and had this version once; with this
\* password, if the version is still the same.
Signed(e, id, ver) == Account!Holds(e, id) /\ users[e].verified /\ ver <= users[e].ver
Knows(e, ver, pw)  == ver = users[e].ver /\ pw # Unknown => pw = users[e].pw

TokenHolds(t) ==
    /\ t.kind \in {"access", "refresh", "reset"} => Signed(t.email, t.id, t.ver)
    /\ t.kind \in {"access", "refresh"} => Knows(t.email, t.ver, t.pw)
    /\ t.kind = "handoff" /\ clock < t.exp => SafeUntil(t.email, t.id, t.exp)

\* A registration is answered before the cleanup can take its account.
InTime(e, id, at) == /\ at <= clock /\ clock <= at + RequestLife
                     /\ SafeUntil(e, id, at + StaleAfter)

HandlerHolds(h) ==
    /\ h.pc = "mail" => InTime(h.email, h.id, h.at)
    /\ h.pc = "cookie" => InTime(h.email, h.user.id, h.at)
    /\ h.pc \in {"session", "resetmail", "reset"} => Signed(h.email, h.user.id, h.user.ver)
    /\ h.pc = "session" => Knows(h.email, h.user.ver, h.pw)
    /\ h.pc = "reset" => h.user.ver = users[h.email].ver /\ h.user.ver < MaxResets

\* The lock of a row has one holder.
Locking(h) == h.pc \in {"verify", "reset"}

AccountInv ==
    /\ Account!TypeOK
    /\ Numbered
    /\ \A t \in tokens : TokenHolds(t)
    /\ \A r \in Requests : HandlerHolds(handlers[r])
    /\ \A r, s \in Requests :
         Locking(handlers[r]) /\ Locking(handlers[s]) /\ handlers[r].email = handlers[s].email
           => r = s

\* A row that is not a new one keeps its number and stays verified; it may have
\* been active now.
Stays(e) ==
    Account!Exists(e) =>
      /\ users'[e] # NoAccount /\ users'[e].id = users[e].id
      /\ users[e].verified => users'[e].verified
      /\ users'[e].active = users[e].active \/ users'[e].active = {clock}

SamePassword(e) == Account!Exists(e) => /\ users'[e].ver = users[e].ver
                                        /\ users'[e].pw = users[e].pw

Advances(e) ==
    /\ Stays(e)
    /\ \/ SamePassword(e)
       \/ users'[e].ver \in Nat /\ users'[e].ver > users[e].ver

LEMMA SafeStays ==
  ASSUME AccountInv, NEW e \in Emails, NEW id, NEW until \in Nat, SafeUntil(e, id, until),
         Stays(e)
  PROVE  SafeUntil(e, id, until)'
<1>1. Account!Exists(e) /\ users[e].id = id
  BY DEF SafeUntil, Account!Holds
<1>2. Account!Holds(e, id)'
  BY <1>1 DEF Stays, Account!Holds, Account!Exists
<1>3. CASE users[e].verified
  BY <1>1, <1>2, <1>3 DEF Stays, SafeUntil
<1>4. CASE users'[e].active = users[e].active
  BY <1>1, <1>2, <1>3, <1>4 DEF Stays, SafeUntil
<1>5. CASE users'[e].active = {clock} /\ ~users[e].verified
  <2>1. PICK t \in users[e].active : until <= t + StaleAfter
    BY <1>5 DEF SafeUntil
  <2>2. t \in Nat /\ t <= clock /\ clock \in Nat /\ StaleAfter \in Nat
    BY <1>1, RowTypes, TimesAreNumbers, AccountConstants DEF AccountInv, Numbered, Account!TypeOK
  <2>3. until <= clock + StaleAfter
    BY <2>1, <2>2
  <2> QED
    BY <1>2, <1>5, <2>3 DEF SafeUntil
<1> QED
  BY <1>1, <1>3, <1>4, <1>5 DEF Stays

LEMMA SignedStays ==
  ASSUME AccountInv, NEW e \in Emails, NEW id, NEW ver \in Nat, Signed(e, id, ver), Advances(e)
  PROVE  /\ Signed(e, id, ver)'
         /\ \A pw : Knows(e, ver, pw) => Knows(e, ver, pw)'
<1>1. Account!Exists(e) /\ users[e].id = id /\ users[e].verified /\ ver <= users[e].ver
  BY DEF Signed, Account!Holds
<1>2. users[e].ver \in Nat
  BY <1>1, RowTypes DEF AccountInv
<1>3. Account!Holds(e, id)' /\ users'[e].verified
  BY <1>1 DEF Advances, Stays, Account!Holds, Account!Exists
<1>4. \/ users'[e].ver = users[e].ver /\ users'[e].pw = users[e].pw
      \/ users'[e].ver \in Nat /\ users'[e].ver > users[e].ver
  BY <1>1 DEF Advances, SamePassword
<1>5. /\ ver <= users'[e].ver
      /\ ver = users'[e].ver => users'[e].ver = users[e].ver /\ users'[e].pw = users[e].pw
  BY <1>1, <1>2, <1>4
<1> QED
  BY <1>3, <1>5 DEF Signed, Knows

LEMMA TokenStays ==
  ASSUME AccountInv, NEW t \in tokens, clock' = clock, Advances(t.email)
  PROVE  TokenHolds(t)'
<1>1. /\ t.email \in Emails /\ TokenHolds(t)
      /\ t.kind # "verify" => t.ver \in Nat /\ t.exp \in Nat
  BY TokenTypes DEF AccountInv
<1>2. CASE t.kind \in {"access", "refresh", "reset"}
  BY <1>1, <1>2, SignedStays DEF TokenHolds
<1>3. CASE t.kind = "handoff" /\ clock < t.exp
  <2>1. SafeUntil(t.email, t.id, t.exp) /\ t.exp \in Nat
    BY <1>1, <1>3 DEF TokenHolds
  <2>2. SafeUntil(t.email, t.id, t.exp)'
    BY <1>1, <1>3, <2>1, SafeStays DEF Advances
  <2> QED
    BY <1>3, <2>2 DEF TokenHolds
<1>4. CASE t.kind \notin {"access", "refresh", "reset"} /\ ~(t.kind = "handoff" /\ clock < t.exp)
  BY <1>4 DEF TokenHolds
<1> QED
  BY <1>2, <1>3, <1>4

LEMMA HandlerStays ==
  ASSUME AccountInv, NEW h \in Account!Handlers, HandlerHolds(h), clock' = clock,
         h.pc # "idle" => Advances(h.email),
         h.pc = "reset" => SamePassword(h.email)
  PROVE  HandlerHolds(h)'
<1>0. /\ h.pc # "idle" => h.email \in Emails
      /\ h.pc \in {"mail", "cookie"} => h.at \in Nat
      /\ h.pc \in {"session", "resetmail", "reset"} => h.user.ver \in Nat
      /\ clock \in Nat /\ StaleAfter \in Nat
  BY HandlerKinds, TimesAreNumbers, AccountConstants DEF AccountInv, Account!TypeOK
<1>1. CASE h.pc = "mail"
  <2>1. InTime(h.email, h.id, h.at)
    BY <1>1 DEF HandlerHolds
  <2>2. h.at + StaleAfter \in Nat
    BY <1>0, <1>1
  <2>3. SafeUntil(h.email, h.id, h.at + StaleAfter)'
    BY <1>0, <1>1, <2>1, <2>2, SafeStays DEF InTime, Advances
  <2>4. InTime(h.email, h.id, h.at)'
    BY <2>1, <2>3 DEF InTime
  <2> QED
    BY <1>1, <2>4 DEF HandlerHolds
<1>2. CASE h.pc = "cookie"
  <2>1. InTime(h.email, h.user.id, h.at)
    BY <1>2 DEF HandlerHolds
  <2>2. h.at + StaleAfter \in Nat
    BY <1>0, <1>2
  <2>3. SafeUntil(h.email, h.user.id, h.at + StaleAfter)'
    BY <1>0, <1>2, <2>1, <2>2, SafeStays DEF InTime, Advances
  <2>4. InTime(h.email, h.user.id, h.at)'
    BY <2>1, <2>3 DEF InTime
  <2> QED
    BY <1>2, <2>4 DEF HandlerHolds
<1>3. CASE h.pc \in {"session", "resetmail", "reset"}
  <2>1. Signed(h.email, h.user.id, h.user.ver)
    BY <1>3 DEF HandlerHolds
  <2>2. /\ Signed(h.email, h.user.id, h.user.ver)'
        /\ \A pw : Knows(h.email, h.user.ver, pw) => Knows(h.email, h.user.ver, pw)'
    BY <1>0, <1>3, <2>1, SignedStays
  <2>3. h.pc = "reset" => h.user.ver = users'[h.email].ver /\ h.user.ver < MaxResets
    BY <1>3, <2>1 DEF HandlerHolds, SamePassword, Signed, Account!Holds
  <2> QED
    BY <1>3, <2>2, <2>3 DEF HandlerHolds
<1>4. CASE h.pc \notin {"mail", "cookie", "session", "resetmail", "reset"}
  BY <1>4 DEF HandlerHolds
<1> QED
  BY <1>1, <1>2, <1>3, <1>4

\* What keeps the invariant in every step of a handler: the step of r leaves it
\* holding h, adds tokens that hold, and lets the rows advance; only the holder of
\* the lock of a row changes its version.
LEMMA HandlerStep ==
  ASSUME AccountInv, NEW r \in Requests, NEW h \in Account!Handlers,
         handlers' = [handlers EXCEPT ![r] = h], clock' = clock,
         HandlerHolds(h)', Locking(h) => Account!Unlocked(h.email),
         tokens \subseteq tokens', tokens' \subseteq Account!Tokens \cup Account!Links,
         \A t \in tokens' \ tokens : TokenHolds(t)',
         \A e \in Emails : Advances(e),
         \A s \in Requests : s # r /\ handlers[s].pc = "reset" => SamePassword(handlers[s].email),
         users' \in [Emails -> Account!Users \cup {NoAccount}],
         nextId' \in 1 .. (MaxId + 1), resets' \in [Account!Ids -> Nat], Numbered'
  PROVE  AccountInv'
<1>0. handlers \in [Requests -> Account!Handlers]
  BY DEF AccountInv, Account!TypeOK
<1>1. Account!TypeOK'
  BY <1>0 DEF AccountInv, Account!TypeOK
<1>2. \A t \in tokens' : TokenHolds(t)'
  <2>1. ASSUME NEW t \in tokens PROVE TokenHolds(t)'
    BY <2>1, TokenTypes, TokenStays DEF AccountInv
  <2> QED
    BY <2>1
<1>3. ASSUME NEW s \in Requests, s # r PROVE HandlerHolds(handlers[s])'
  <2>1. PICK k \in Account!Handlers : k = handlers[s] /\ k = handlers'[s]
    BY <1>0, <1>3
  <2>2. HandlerHolds(k)
    BY <2>1 DEF AccountInv
  <2>3. k.pc # "idle" => k.email \in Emails
    BY HandlerKinds
  <2>4. HandlerHolds(k)'
    BY <1>3, <2>1, <2>2, <2>3, HandlerStays
  <2> QED
    BY <2>1, <2>4 DEF HandlerHolds, InTime, SafeUntil, Signed, Knows, Account!Holds, Account!Exists
<1>4. HandlerHolds(handlers[r])'
  <2>1. handlers'[r] = h
    BY <1>0
  <2> QED
    BY <2>1 DEF HandlerHolds, InTime, SafeUntil, Signed, Knows, Account!Holds, Account!Exists
<1>5. ASSUME NEW s \in Requests, NEW u \in Requests,
             Locking(handlers'[s]), Locking(handlers'[u]), handlers'[s].email = handlers'[u].email
      PROVE  s = u
  <2>1. \A v \in Requests : v # r => handlers'[v] = handlers[v]
    BY <1>0
  <2>2. handlers'[r] = h
    BY <1>0
  <2>3. ASSUME NEW v \in Requests, v # r, Locking(h), Locking(handlers[v]), handlers[v].email = h.email
        PROVE  FALSE
    BY <2>3 DEF Account!Unlocked, Account!LockedBy, Locking
  <2> QED
    BY <1>5, <2>1, <2>2, <2>3 DEF AccountInv
<1> QED
  BY <1>1, <1>2, <1>3, <1>4, <1>5 DEF AccountInv

\* Nothing but the handler changes.
LEMMA OnlyHandler ==
  ASSUME AccountInv, NEW r \in Requests, NEW h \in Account!Handlers,
         handlers' = [handlers EXCEPT ![r] = h], HandlerHolds(h),
         Locking(h) => Account!Unlocked(h.email),
         UNCHANGED <<users, tokens, clock, nextId, resets>>
  PROVE  AccountInv'
<1>1. HandlerHolds(h)'
  BY DEF HandlerHolds, InTime, SafeUntil, Signed, Knows, Account!Holds, Account!Exists
<1>2. \A e \in Emails : Advances(e) /\ SamePassword(e)
  <2>1. users' = users
    OBVIOUS
  <2>2. ASSUME NEW e \in Emails PROVE Advances(e) /\ SamePassword(e)
    <3>1. Stays(e)
      BY <2>1 DEF Stays, Account!Exists
    <3>2. SamePassword(e)
      BY <2>1 DEF SamePassword
    <3> QED
      BY <3>1, <3>2 DEF Advances
  <2> QED
    BY <2>2
<1>3. \A s \in Requests : handlers[s].pc = "reset" => handlers[s].email \in Emails
  <2>1. ASSUME NEW s \in Requests, handlers[s].pc = "reset" PROVE handlers[s].email \in Emails
    <3>1. handlers[s] \in Account!Handlers
      BY DEF AccountInv, Account!TypeOK
    <3> QED
      BY <2>1, <3>1, HandlerKinds
  <2> QED
    BY <2>1
<1>4. Numbered'
  BY DEF AccountInv, Numbered, Account!Exists
<1> QED
  BY <1>1, <1>2, <1>3, <1>4, HandlerStep DEF AccountInv, Account!TypeOK

LEMMA IdleHolds ==
  /\ Account!Idle \in Account!Handlers /\ Account!Idle.pc = "idle" /\ ~Locking(Account!Idle)
  /\ HandlerHolds(Account!Idle) /\ HandlerHolds(Account!Idle)'
<1>1. Account!Idle \in Account!Handlers /\ Account!Idle.pc = "idle"
  BY DEF Account!Handlers, Account!Idle
<1> QED
  BY <1>1 DEF Locking, HandlerHolds

\* A request that reads and keeps what it has read.
LEMMA RegisterReads ==
  ASSUME AccountInv, NEW r \in Requests, NEW e \in Emails, NEW u \in Usernames,
         NEW p \in Passwords, Account!StartRegister(r, e, u, p)
  PROVE  AccountInv'
<1>0. UNCHANGED <<users, tokens, clock, nextId, resets>>
  BY DEF Account!StartRegister
<1>1. CASE /\ Account!Exists(e)
           /\ handlers' = [handlers EXCEPT ![r] = [pc |-> "resend", email |-> e, id |-> users[e].id]]
  <2>1. PICK h \in Account!Handlers : h = [pc |-> "resend", email |-> e, id |-> users[e].id]
    BY <1>1, RowTypes, HandlerForms DEF AccountInv
  <2> QED
    BY <1>0, <1>1, <2>1, OnlyHandler DEF HandlerHolds, Locking
<1>2. CASE handlers' = [handlers EXCEPT ![r] = [pc |-> "create", email |-> e, name |-> u, pw |-> p]]
  <2>1. PICK h \in Account!Handlers : h = [pc |-> "create", email |-> e, name |-> u, pw |-> p]
    BY DEF Account!Handlers
  <2> QED
    BY <1>0, <1>2, <2>1, OnlyHandler DEF HandlerHolds, Locking
<1> QED
  BY <1>1, <1>2 DEF Account!StartRegister

LEMMA VerifyReads ==
  ASSUME AccountInv, NEW r \in Requests, NEW e \in Emails, Account!StartVerify(r, e)
  PROVE  AccountInv'
<1>0. UNCHANGED <<users, tokens, clock, nextId, resets>> /\ Account!Unlocked(e)
  BY DEF Account!StartVerify
<1>1. PICK h \in Account!Handlers : h = [pc |-> "verify", email |-> e, id |-> users[e].id]
  BY RowTypes, HandlerForms DEF AccountInv, Account!StartVerify
<1>2. handlers' = [handlers EXCEPT ![r] = h]
  BY <1>1 DEF Account!StartVerify
<1> QED
  BY <1>0, <1>1, <1>2, OnlyHandler DEF HandlerHolds

\* What is read of a row holds of it.
LEMMA ReadsRow ==
  ASSUME AccountInv, NEW e \in Emails, Account!Exists(e), users[e].verified
  PROVE  /\ Account!ReadUser(e) \in Account!Held
         /\ Account!ReadUser(e).id = users[e].id /\ Account!ReadUser(e).ver = users[e].ver
         /\ Signed(e, users[e].id, users[e].ver)
BY RowTypes DEF AccountInv, Account!ReadUser, Signed, Account!Holds

LEMMA SessionReads ==
  ASSUME AccountInv, NEW r \in Requests, NEW e \in Emails, NEW pw \in Passwords \cup {Unknown},
         Account!Exists(e), users[e].verified, pw # Unknown => pw = users[e].pw,
         Account!StartSession(r, e, pw), UNCHANGED <<users, tokens, clock, nextId, resets>>
  PROVE  AccountInv'
<1>1. PICK h \in Account!Handlers :
        h = [pc |-> "session", email |-> e, user |-> Account!ReadUser(e), pw |-> pw]
  BY ReadsRow DEF Account!Handlers
<1>2. handlers' = [handlers EXCEPT ![r] = h]
  BY <1>1 DEF Account!StartSession
<1>3. Signed(h.email, h.user.id, h.user.ver) /\ Knows(h.email, h.user.ver, h.pw)
  BY <1>1, ReadsRow DEF Knows
<1>4. HandlerHolds(h) /\ ~Locking(h)
  BY <1>1, <1>3 DEF HandlerHolds, Locking
<1> QED
  BY <1>2, <1>4, OnlyHandler

LEMMA ForgotReads ==
  ASSUME AccountInv, NEW r \in Requests, NEW e \in Emails, Account!ForgotPassword(r, e)
  PROVE  AccountInv'
<1>0. /\ UNCHANGED <<users, tokens, clock, nextId, resets>>
      /\ Account!Exists(e) /\ users[e].verified
  BY DEF Account!ForgotPassword, Account!MayReset
<1>1. PICK h \in Account!Handlers :
        h = [pc |-> "resetmail", email |-> e, user |-> Account!ReadUser(e)]
  BY <1>0, ReadsRow DEF Account!Handlers
<1>2. handlers' = [handlers EXCEPT ![r] = h]
  BY <1>1 DEF Account!ForgotPassword
<1>3. Signed(h.email, h.user.id, h.user.ver)
  BY <1>0, <1>1, ReadsRow
<1>4. HandlerHolds(h) /\ ~Locking(h)
  BY <1>1, <1>3 DEF HandlerHolds, Locking
<1> QED
  BY <1>0, <1>2, <1>4, OnlyHandler

LEMMA ResetReads ==
  ASSUME AccountInv, NEW r \in Requests, NEW t \in tokens, t.kind = "reset",
         NEW p \in Passwords, Account!StartReset(r, t, p)
  PROVE  AccountInv'
<1> DEFINE e == t.email
<1>0. /\ UNCHANGED <<users, tokens, clock, nextId, resets>>
      /\ Account!Exists(e) /\ Account!Unlocked(e) /\ users[e].ver < MaxResets
  BY DEF Account!StartReset, Account!ResetHonoured, Account!Current
<1>1. e \in Emails /\ users[e].verified
  BY TokenTypes DEF AccountInv, TokenHolds, Signed
<1>2. PICK h \in Account!Handlers :
        h = [pc |-> "reset", email |-> e, user |-> Account!ReadUser(e), pw |-> p]
  BY <1>0, <1>1, ReadsRow DEF Account!Handlers
<1>3. handlers' = [handlers EXCEPT ![r] = h]
  BY <1>2 DEF Account!StartReset
<1>4. /\ Signed(h.email, h.user.id, h.user.ver)
      /\ h.user.ver = users[h.email].ver /\ h.user.ver < MaxResets
  BY <1>0, <1>1, <1>2, ReadsRow
<1>5. HandlerHolds(h)
  BY <1>2, <1>4 DEF HandlerHolds
<1> QED
  BY <1>0, <1>2, <1>3, <1>5, OnlyHandler

LEMMA TokenReads ==
  ASSUME AccountInv, NEW r \in Requests, NEW t \in tokens, t.kind # "verify",
         Account!ExchangeHandoff(r, t) \/ Account!Refresh(r, t)
  PROVE  AccountInv'
<1>0. t.email \in Emails /\ t.pw \in Passwords \cup {Unknown}
  BY TokenTypes DEF AccountInv
<1>1. CASE Account!ExchangeHandoff(r, t)
  <2>1. /\ Account!Exists(t.email) /\ users[t.email].verified
        /\ Account!StartSession(r, t.email, Unknown)
        /\ UNCHANGED <<users, tokens, clock, nextId, resets>>
    BY <1>1 DEF Account!ExchangeHandoff, Account!HandoffHonoured, Account!Current
  <2> QED
    BY <1>0, <2>1, SessionReads
<1>2. CASE Account!Refresh(r, t)
  <2>1. /\ t.kind = "refresh" /\ Account!Exists(t.email) /\ t.ver = users[t.email].ver
        /\ users[t.email].verified /\ Account!StartSession(r, t.email, t.pw)
        /\ UNCHANGED <<users, tokens, clock, nextId, resets>>
    BY <1>2 DEF Account!Refresh, Account!RefreshHonoured, Account!Current
  <2>2. t.pw # Unknown => t.pw = users[t.email].pw
    BY <2>1 DEF AccountInv, TokenHolds, Knows
  <2> QED
    BY <1>0, <2>1, <2>2, SessionReads
<1> QED
  BY <1>1, <1>2

LEMMA LoginReads ==
  ASSUME AccountInv, NEW r \in Requests, NEW e \in Emails, NEW p \in Passwords,
         Account!Login(r, e, p)
  PROVE  AccountInv'
BY SessionReads DEF Account!Login

LEMMA Loses ==
  ASSUME AccountInv, NEW r \in Requests, Account!LoseRequest(r)
  PROVE  AccountInv'
BY IdleHolds, OnlyHandler DEF Account!LoseRequest, Account!Answer

\* A request that issues tokens.
LEMMA Issues ==
  ASSUME AccountInv, NEW r \in Requests, NEW h \in Account!Handlers,
         handlers' = [handlers EXCEPT ![r] = h], HandlerHolds(h), ~Locking(h),
         UNCHANGED <<users, clock, nextId, resets>>,
         tokens \subseteq tokens', tokens' \subseteq Account!Tokens \cup Account!Links,
         \A t \in tokens' \ tokens : TokenHolds(t)
  PROVE  AccountInv'
<1>0. users' = users /\ clock' = clock
  OBVIOUS
<1>1. HandlerHolds(h)'
  BY <1>0 DEF HandlerHolds, InTime, SafeUntil, Signed, Knows, Account!Holds, Account!Exists
<1>2. ASSUME NEW e \in Emails PROVE Advances(e) /\ SamePassword(e)
  <2>1. Stays(e)
    BY <1>0 DEF Stays, Account!Exists
  <2>2. SamePassword(e)
    BY <1>0 DEF SamePassword
  <2> QED
    BY <2>1, <2>2 DEF Advances
<1>3. \A s \in Requests : handlers[s].pc = "reset" => handlers[s].email \in Emails
  <2>1. ASSUME NEW s \in Requests, handlers[s].pc = "reset" PROVE handlers[s].email \in Emails
    <3>1. handlers[s] \in Account!Handlers
      BY DEF AccountInv, Account!TypeOK
    <3> QED
      BY <2>1, <3>1, HandlerKinds
  <2> QED
    BY <2>1
<1>4. Numbered'
  BY DEF AccountInv, Numbered, Account!Exists
<1>5. ASSUME NEW t \in tokens' \ tokens PROVE TokenHolds(t)'
  <2>1. TokenHolds(t)
    BY <1>5
  <2> QED
    BY <1>0, <2>1 DEF TokenHolds, SafeUntil, Signed, Knows, Account!Holds, Account!Exists
<1> QED
  BY <1>1, <1>2, <1>3, <1>4, <1>5, HandlerStep DEF AccountInv, Account!TypeOK

LEMMA SafeEarlier ==
  ASSUME AccountInv, NEW e \in Emails, NEW id, NEW until \in Nat, NEW sooner \in Nat,
         SafeUntil(e, id, until), sooner <= until
  PROVE  SafeUntil(e, id, sooner)
<1>1. users[e].active \subseteq Nat
  BY RowTypes, TimesAreNumbers DEF AccountInv, SafeUntil, Account!Holds
<1> QED
  BY <1>1, AccountConstants DEF SafeUntil

LEMMA VerificationSent ==
  ASSUME AccountInv, NEW r \in Requests, Account!SendVerification(r)
  PROVE  AccountInv'
<1> DEFINE e == handlers[r].email
<1>0. /\ UNCHANGED <<users, clock, nextId, resets>>
      /\ handlers[r] \in Account!Handlers /\ handlers[r].pc = "mail" /\ HandlerHolds(handlers[r])
      /\ tokens \subseteq Account!Tokens \cup Account!Links
  BY DEF Account!SendVerification, AccountInv, Account!TypeOK
<1>1. e \in Emails /\ handlers[r].at \in Account!Times
  BY <1>0, HandlerKinds
<1>2. CASE Account!Answer(r) /\ UNCHANGED tokens
  BY <1>0, <1>2, IdleHolds, Issues DEF Account!Answer
<1>3. CASE /\ Account!Holds(e, handlers[r].id)
           /\ tokens' = tokens \cup {[kind |-> "verify", email |-> e]}
           /\ handlers' = [handlers EXCEPT ![r] = [pc |-> "cookie", email |-> e,
                             user |-> Account!ReadUser(e), at |-> handlers[r].at]]
  <2>1. /\ Account!ReadUser(e) \in Account!Held /\ Account!ReadUser(e).id = handlers[r].id
    BY <1>1, <1>3, RowTypes DEF AccountInv, Account!ReadUser, Account!Holds
  <2>2. PICK h \in Account!Handlers : h = [pc |-> "cookie", email |-> e,
                             user |-> Account!ReadUser(e), at |-> handlers[r].at]
    BY <1>1, <2>1 DEF Account!Handlers
  <2>3. InTime(h.email, h.user.id, h.at)
    BY <1>0, <2>1, <2>2 DEF HandlerHolds
  <2>4. HandlerHolds(h) /\ ~Locking(h)
    BY <2>2, <2>3 DEF HandlerHolds, Locking
  <2>5. tokens' \subseteq Account!Tokens \cup Account!Links
    BY <1>0, <1>1, <1>3 DEF Account!Links
  <2>6. \A t \in tokens' \ tokens : TokenHolds(t)
    BY <1>3 DEF TokenHolds
  <2> QED
    BY <1>0, <1>3, <2>2, <2>4, <2>5, <2>6, Issues
<1> QED
  BY <1>2, <1>3 DEF Account!SendVerification

LEMMA HandoffSet ==
  ASSUME AccountInv, NEW r \in Requests, Account!SetHandoff(r)
  PROVE  AccountInv'
<1> DEFINE e == handlers[r].email
           t == Account!Handoff(e, handlers[r].user)
<1>0. /\ UNCHANGED <<users, clock, nextId, resets>> /\ clock \in Account!Times
      /\ handlers[r] \in Account!Handlers /\ handlers[r].pc = "cookie" /\ HandlerHolds(handlers[r])
      /\ tokens \subseteq Account!Tokens \cup Account!Links
      /\ tokens' = tokens \cup {t} /\ handlers' = [handlers EXCEPT ![r] = Account!Idle]
  BY DEF Account!SetHandoff, AccountInv, Account!TypeOK, Account!Answer
<1>1. /\ e \in Emails /\ handlers[r].at \in Nat /\ clock \in Nat /\ clock \in 0 .. MaxTime
      /\ handlers[r].user.id \in Account!Ids /\ handlers[r].user.ver \in Account!Versions
  BY <1>0, HandlerKinds, TimesAreNumbers DEF Account!Times
<1>2. /\ t.kind = "handoff" /\ t.email = e /\ t.id = handlers[r].user.id
      /\ t.exp = clock + HandoffLife
  BY DEF Account!Handoff, Account!Token
<1>3. t \in Account!Tokens
  <2>1. clock + HandoffLife \in 0 .. (MaxTime + HandoffLife)
    BY <1>1, AccountConstants
  <2> QED
    BY <1>1, <2>1 DEF Account!Handoff, Account!Token, Account!Tokens
<1>4. InTime(e, handlers[r].user.id, handlers[r].at)
  BY <1>0 DEF HandlerHolds
<1>5. /\ clock + HandoffLife \in Nat /\ handlers[r].at + StaleAfter \in Nat
      /\ clock + HandoffLife <= handlers[r].at + StaleAfter
  BY <1>1, <1>4, AccountConstants DEF InTime
<1>6. SafeUntil(t.email, t.id, t.exp)
  BY <1>1, <1>2, <1>4, <1>5, SafeEarlier DEF InTime
<1>7. TokenHolds(t)
  BY <1>2, <1>6 DEF TokenHolds
<1> HIDE DEF t
<1> QED
  BY <1>0, <1>3, <1>7, IdleHolds, Issues

LEMMA SessionIssued ==
  ASSUME AccountInv, NEW r \in Requests, Account!IssueSession(r)
  PROVE  AccountInv'
<1> DEFINE h == handlers[r]
           t(kind) == Account!Token(kind, h.email, h.user, h.pw)
<1>0. /\ UNCHANGED <<users, clock, nextId, resets>>
      /\ h \in Account!Handlers /\ h.pc = "session" /\ HandlerHolds(h)
      /\ tokens \subseteq Account!Tokens \cup Account!Links
      /\ tokens' = tokens \cup {t("access"), t("refresh")}
      /\ handlers' = [handlers EXCEPT ![r] = Account!Idle]
  BY DEF Account!IssueSession, Account!SessionUser, AccountInv, Account!TypeOK, Account!Answer
<1>1. /\ h.email \in Emails /\ h.pw \in Passwords \cup {Unknown}
      /\ h.user.id \in Account!Ids /\ h.user.ver \in Account!Versions
  BY <1>0, HandlerKinds
<1>2. ASSUME NEW kind \in {"access", "refresh"}
      PROVE  t(kind) \in Account!Tokens /\ TokenHolds(t(kind))
  <2>1. /\ t(kind).kind = kind /\ t(kind).email = h.email /\ t(kind).id = h.user.id
        /\ t(kind).ver = h.user.ver /\ t(kind).pw = h.pw /\ t(kind).exp = 0
    BY DEF Account!Token
  <2>2. t(kind) \in Account!Tokens
    <3>1. 0 \in 0 .. (MaxTime + HandoffLife)
      BY AccountConstants
    <3> QED
      BY <1>1, <3>1 DEF Account!Token, Account!Tokens
  <2>3. Signed(h.email, h.user.id, h.user.ver) /\ Knows(h.email, h.user.ver, h.pw)
    BY <1>0 DEF HandlerHolds
  <2> HIDE DEF t
  <2> QED
    BY <2>1, <2>2, <2>3 DEF TokenHolds
<1> HIDE DEF t
<1> QED
  BY <1>0, <1>2, IdleHolds, Issues

LEMMA ResetSent ==
  ASSUME AccountInv, NEW r \in Requests, Account!SendReset(r)
  PROVE  AccountInv'
<1> DEFINE h == handlers[r]
           t == Account!Token("reset", h.email, h.user, Unknown)
<1>0. /\ UNCHANGED <<users, clock, nextId, resets>>
      /\ h \in Account!Handlers /\ h.pc = "resetmail" /\ HandlerHolds(h)
      /\ tokens \subseteq Account!Tokens \cup Account!Links
      /\ tokens' = tokens \cup {t} \/ tokens' = tokens
      /\ handlers' = [handlers EXCEPT ![r] = Account!Idle]
  BY DEF Account!SendReset, AccountInv, Account!TypeOK, Account!Answer
<1>1. /\ h.email \in Emails
      /\ h.user.id \in Account!Ids /\ h.user.ver \in Account!Versions
  BY <1>0, HandlerKinds
<1>2. /\ t.kind = "reset" /\ t.email = h.email /\ t.id = h.user.id /\ t.ver = h.user.ver
  BY DEF Account!Token
<1>3. t \in Account!Tokens
  <2>1. 0 \in 0 .. (MaxTime + HandoffLife)
    BY AccountConstants
  <2> QED
    BY <1>1, <2>1 DEF Account!Token, Account!Tokens
<1>4. TokenHolds(t)
  BY <1>0, <1>2 DEF TokenHolds, HandlerHolds
<1> HIDE DEF t
<1> QED
  BY <1>0, <1>3, <1>4, IdleHolds, Issues

\* A row is written again: its number stays, it stays verified, and it may have
\* been active now.
LEMMA RowWritten ==
  ASSUME AccountInv, NEW e \in Emails, Account!Exists(e), NEW row \in Account!Users,
         users' = [users EXCEPT ![e] = row],
         row.id = users[e].id, users[e].verified => row.verified,
         row.active = users[e].active \/ row.active = {clock}
  PROVE  /\ users' \in [Emails -> Account!Users \cup {NoAccount}]
         /\ users'[e] = row /\ row # NoAccount
         /\ \A f \in Emails : Stays(f) /\ (f # e => SamePassword(f) /\ users'[f] = users[f])
<1>1. users \in [Emails -> Account!Users \cup {NoAccount}] /\ row # NoAccount
  BY AccountConstants DEF AccountInv, Account!TypeOK
<1>2. users'[e] = row /\ users' \in [Emails -> Account!Users \cup {NoAccount}]
  BY <1>1
<1>3. Stays(e)
  BY <1>1, <1>2 DEF Stays
<1>4. ASSUME NEW f \in Emails, f # e PROVE Stays(f) /\ SamePassword(f) /\ users'[f] = users[f]
  <2>1. users'[f] = users[f]
    BY <1>1, <1>4
  <2> QED
    BY <2>1 DEF Stays, SamePassword, Account!Exists
<1> QED
  BY <1>1, <1>2, <1>3, <1>4

\* The numbers of rows hold after a row is written without a reset.
LEMMA SameVersion ==
  ASSUME AccountInv, NEW e \in Emails, Account!Exists(e), NEW row \in Account!Users,
         users' = [users EXCEPT ![e] = row],
         row.id = users[e].id, users[e].verified => row.verified,
         row.active = users[e].active \/ row.active = {clock},
         row.ver = users[e].ver, row.pw = users[e].pw,
         UNCHANGED <<clock, nextId, resets>>
  PROVE  /\ Numbered'
         /\ \A f \in Emails : Advances(f) /\ SamePassword(f)
<1>0. clock \in Nat
  BY TimesAreNumbers DEF AccountInv, Account!TypeOK
<1>1. /\ users'[e] = row
      /\ \A f \in Emails : Stays(f) /\ (f # e => SamePassword(f) /\ users'[f] = users[f])
  BY RowWritten
<1>2. SamePassword(e)
  BY <1>1 DEF SamePassword
<1>3. ASSUME NEW f \in Emails, Account!Exists(f)'
      PROVE  /\ Account!Exists(f) /\ users'[f].id = users[f].id /\ users'[f].ver = users[f].ver
             /\ users'[f].active = users[f].active \/ users'[f].active = {clock}
  <2>1. CASE f = e
    BY <1>1, <2>1
  <2>2. CASE f # e
    BY <1>1, <1>3, <2>2 DEF Account!Exists
  <2> QED
    BY <2>1, <2>2
<1>4. \A t \in {clock} : t <= clock
  BY <1>0
<1>5. ASSUME NEW f \in Emails, Account!Exists(f)'
      PROVE  /\ users'[f].id < nextId' /\ users'[f].ver = resets'[users'[f].id]
             /\ \A t \in users'[f].active : t <= clock'
             /\ \A g \in Emails : Account!Exists(g)' /\ users'[g].id = users'[f].id => g = f
  BY <1>3, <1>4, <1>5 DEF AccountInv, Numbered
<1>6. \A i \in Account!Ids : i >= nextId' => resets'[i] = 0
  BY DEF AccountInv, Numbered
<1>7. Numbered'
  BY <1>5, <1>6 DEF Numbered
<1> QED
  BY <1>1, <1>2, <1>7 DEF Advances

\* A step of a handler that writes its row again without a reset.
LEMMA Rewrites ==
  ASSUME AccountInv, NEW r \in Requests, NEW h \in Account!Handlers,
         handlers' = [handlers EXCEPT ![r] = h], HandlerHolds(h)', ~Locking(h),
         NEW e \in Emails, Account!Exists(e), NEW row \in Account!Users,
         users' = [users EXCEPT ![e] = row],
         row.id = users[e].id, users[e].verified => row.verified,
         row.active = users[e].active \/ row.active = {clock},
         row.ver = users[e].ver, row.pw = users[e].pw,
         UNCHANGED <<tokens, clock, nextId, resets>>
  PROVE  AccountInv'
<1>1. Numbered' /\ \A f \in Emails : Advances(f) /\ SamePassword(f)
  BY SameVersion
<1>2. users' \in [Emails -> Account!Users \cup {NoAccount}]
  BY RowWritten
<1>3. \A s \in Requests : handlers[s].pc = "reset" => handlers[s].email \in Emails
  <2>1. ASSUME NEW s \in Requests, handlers[s].pc = "reset" PROVE handlers[s].email \in Emails
    <3>1. handlers[s] \in Account!Handlers
      BY DEF AccountInv, Account!TypeOK
    <3> QED
      BY <2>1, <3>1, HandlerKinds
  <2> QED
    BY <2>1
<1> QED
  BY <1>1, <1>2, <1>3, HandlerStep DEF AccountInv, Account!TypeOK

LEMMA Resends ==
  ASSUME AccountInv, NEW r \in Requests, Account!Resend(r)
  PROVE  AccountInv'
<1> DEFINE e == handlers[r].email
           id == handlers[r].id
<1>0. /\ UNCHANGED <<tokens, clock, nextId, resets>> /\ clock \in Account!Times /\ clock \in Nat
      /\ handlers[r] \in Account!Handlers /\ handlers[r].pc = "resend"
  BY TimesAreNumbers DEF Account!Resend, AccountInv, Account!TypeOK
<1>1. e \in Emails /\ id \in Account!Ids
  BY <1>0, HandlerKinds
<1>2. CASE Account!Answer(r) /\ UNCHANGED users
  BY <1>0, <1>2, IdleHolds, OnlyHandler DEF Account!Answer
<1>3. CASE /\ Account!Holds(e, id)
           /\ users' = [users EXCEPT ![e] = Account!Touched(users[e])]
           /\ handlers' = [handlers EXCEPT ![r] =
                             [pc |-> "mail", email |-> e, id |-> id, at |-> clock]]
  <2>1. Account!Exists(e) /\ users[e].id = id /\ users[e] \in Account!Users
    BY <1>1, <1>3, RowTypes DEF AccountInv, Account!Holds
  <2>2. PICK row \in Account!Users : row = Account!Touched(users[e])
    BY <1>0, <2>1 DEF Account!Touched, Account!Users
  <2>3. /\ row.id = users[e].id /\ row.verified = users[e].verified /\ row.active = {clock}
        /\ row.ver = users[e].ver /\ row.pw = users[e].pw
    BY <2>1, <2>2 DEF Account!Touched, Account!Users
  <2>4. PICK h \in Account!Handlers : h = [pc |-> "mail", email |-> e, id |-> id, at |-> clock]
    BY <1>0, <1>1, HandlerForms, RowTypes, <2>1 DEF AccountInv
  <2>5. users'[e] = row /\ row # NoAccount
    BY <1>1, <1>3, <2>1, <2>2, <2>3, RowWritten
  <2>6. clock <= clock + RequestLife /\ clock + StaleAfter <= clock + StaleAfter
    BY <1>0, AccountConstants
  <2>7. InTime(h.email, h.id, h.at)'
    BY <1>0, <2>1, <2>3, <2>4, <2>5, <2>6 DEF InTime, SafeUntil, Account!Holds, Account!Exists
  <2>8. HandlerHolds(h)' /\ ~Locking(h)
    BY <2>4, <2>7 DEF HandlerHolds, Locking
  <2> QED
    BY <1>0, <1>1, <1>3, <2>1, <2>2, <2>3, <2>4, <2>8, Rewrites
<1> QED
  BY <1>2, <1>3 DEF Account!Resend

LEMMA VerifyCommits ==
  ASSUME AccountInv, NEW r \in Requests, Account!CommitVerify(r)
  PROVE  AccountInv'
<1> DEFINE e == handlers[r].email
<1>0. /\ UNCHANGED <<tokens, clock, nextId, resets>>
      /\ handlers[r] \in Account!Handlers /\ handlers[r].pc = "verify"
      /\ handlers' = [handlers EXCEPT ![r] = Account!Idle]
  BY DEF Account!CommitVerify, AccountInv, Account!TypeOK, Account!Answer
<1>1. e \in Emails
  BY <1>0, HandlerKinds
<1>2. CASE users' = users
  BY <1>0, <1>2, IdleHolds, OnlyHandler
<1>3. CASE /\ Account!Holds(e, handlers[r].id)
           /\ users' = [users EXCEPT ![e].verified = TRUE]
  <2>1. Account!Exists(e) /\ users[e] \in Account!Users
    BY <1>1, <1>3, RowTypes DEF AccountInv, Account!Holds
  <2>2. PICK row \in Account!Users : row = [users[e] EXCEPT !.verified = TRUE]
    BY <2>1 DEF Account!Users
  <2>3. /\ row.id = users[e].id /\ row.verified /\ row.active = users[e].active
        /\ row.ver = users[e].ver /\ row.pw = users[e].pw
    BY <2>1, <2>2 DEF Account!Users
  <2>4. users' = [users EXCEPT ![e] = row]
    BY <1>3, <2>2
  <2> QED
    BY <1>0, <1>1, <2>1, <2>3, <2>4, IdleHolds, Rewrites
<1> QED
  BY <1>2, <1>3 DEF Account!CommitVerify

\* The next number is new, and so is the row that gets it.
LEMMA Creates ==
  ASSUME AccountInv, NEW r \in Requests, Account!Create(r)
  PROVE  AccountInv'
<1> DEFINE e == handlers[r].email
           new == Account!NewUser(nextId, handlers[r].name, handlers[r].pw)
<1>0. /\ UNCHANGED <<tokens, clock, resets>> /\ clock \in Account!Times /\ clock \in Nat
      /\ handlers[r] \in Account!Handlers /\ handlers[r].pc = "create"
      /\ nextId \in 1 .. (MaxId + 1) /\ nextId \in Nat
      /\ users \in [Emails -> Account!Users \cup {NoAccount}]
  BY TimesAreNumbers, AccountConstants DEF Account!Create, AccountInv, Account!TypeOK
<1>1. e \in Emails /\ handlers[r].name \in Usernames /\ handlers[r].pw \in Passwords
  BY <1>0, HandlerKinds
<1>2. CASE Account!Answer(r) /\ UNCHANGED <<users, nextId>>
  BY <1>0, <1>2, IdleHolds, OnlyHandler DEF Account!Answer
<1>3. CASE /\ ~Account!Exists(e) /\ nextId <= MaxId
           /\ users' = [users EXCEPT ![e] = new]
           /\ nextId' = nextId + 1
           /\ handlers' = [handlers EXCEPT ![r] =
                             [pc |-> "mail", email |-> e, id |-> nextId, at |-> clock]]
  <2>1. nextId \in Account!Ids /\ nextId' \in 1 .. (MaxId + 1) /\ 0 \in Account!Versions
    BY <1>0, <1>3, AccountConstants DEF Account!Ids, Account!Versions
  <2>2. PICK row \in Account!Users : row = new
    BY <1>0, <1>1, <2>1 DEF Account!NewUser, Account!Users
  <2>3. /\ row.id = nextId /\ row.active = {clock} /\ row.ver = 0 /\ row # NoAccount
    BY <2>2, AccountConstants DEF Account!NewUser
  <2>4. /\ users'[e] = row /\ users' \in [Emails -> Account!Users \cup {NoAccount}]
        /\ \A f \in Emails : f # e => users'[f] = users[f]
    <3>1. users' = [users EXCEPT ![e] = row]
      BY <1>3, <2>2
    <3> QED
      BY <1>0, <1>1, <3>1
  <2>5. \A f \in Emails : Advances(f) /\ SamePassword(f)
    <3>1. ASSUME NEW f \in Emails PROVE Stays(f) /\ SamePassword(f)
      <4>1. CASE f = e
        BY <1>3, <4>1 DEF Stays, SamePassword
      <4>2. CASE f # e
        BY <2>4, <4>2 DEF Stays, SamePassword, Account!Exists
      <4> QED
        BY <4>1, <4>2
    <3> QED
      BY <3>1 DEF Advances
  <2>6. ASSUME NEW f \in Emails, f # e, Account!Exists(f)'
        PROVE  /\ Account!Exists(f) /\ users[f].id < nextId /\ users[f].id \in Nat
               /\ users'[f] = users[f]
    <3>1. Account!Exists(f)
      BY <2>4, <2>6 DEF Account!Exists
    <3> QED
      BY <2>4, <2>6, <3>1, RowTypes DEF AccountInv, Numbered
  <2>7. ASSUME NEW f \in Emails, Account!Exists(f)'
        PROVE  /\ users'[f].id < nextId' /\ users'[f].ver = resets'[users'[f].id]
               /\ \A t \in users'[f].active : t <= clock'
               /\ \A g \in Emails : Account!Exists(g)' /\ users'[g].id = users'[f].id => g = f
    <3>1. CASE f = e
      <4>1. users'[f].ver = resets'[users'[f].id]
        BY <1>0, <2>1, <2>3, <2>4, <3>1 DEF AccountInv, Numbered
      <4>2. ASSUME NEW g \in Emails, g # e, Account!Exists(g)' PROVE users'[g].id # nextId
        BY <1>0, <2>6, <4>2
      <4>3. users'[f].id = nextId /\ users'[f].active = {clock}
        BY <2>3, <2>4, <3>1
      <4> QED
        BY <1>0, <1>3, <3>1, <4>1, <4>2, <4>3
    <3>2. CASE f # e
      <4>1. Account!Exists(f) /\ users[f].id < nextId /\ users[f].id \in Nat /\ users'[f] = users[f]
        BY <2>6, <2>7, <3>2
      <4>2. users'[e].id # users'[f].id
        BY <1>0, <2>3, <2>4, <4>1
      <4>3. ASSUME NEW g \in Emails, Account!Exists(g)', users'[g].id = users'[f].id PROVE g = f
        <5>1. g # e
          BY <4>2, <4>3
        <5>2. Account!Exists(g) /\ users'[g] = users[g]
          BY <2>6, <4>3, <5>1
        <5> QED
          BY <4>1, <4>3, <5>2 DEF AccountInv, Numbered
      <4>4. users[f].id < nextId'
        BY <1>0, <1>3, <4>1
      <4> QED
        BY <1>0, <4>1, <4>3, <4>4 DEF AccountInv, Numbered
    <3> QED
      BY <3>1, <3>2
  <2>8. \A i \in Account!Ids : i >= nextId' => resets'[i] = 0
    <3>1. \A i \in Account!Ids : i >= nextId + 1 => i >= nextId
      BY <1>0, TimesAreNumbers
    <3> QED
      BY <1>0, <1>3, <3>1 DEF AccountInv, Numbered
  <2>9. Numbered'
    BY <2>7, <2>8 DEF Numbered
  <2>10. PICK h \in Account!Handlers : h = [pc |-> "mail", email |-> e, id |-> nextId, at |-> clock]
    BY <1>0, <1>1, <2>1, HandlerForms
  <2>11. clock <= clock + RequestLife /\ clock + StaleAfter <= clock + StaleAfter
    BY <1>0, AccountConstants
  <2>12. InTime(h.email, h.id, h.at)'
    BY <1>0, <2>3, <2>4, <2>10, <2>11 DEF InTime, SafeUntil, Account!Holds, Account!Exists
  <2>13. HandlerHolds(h)' /\ ~Locking(h)
    BY <2>10, <2>12 DEF HandlerHolds, Locking
  <2>14. \A s \in Requests : handlers[s].pc = "reset" => handlers[s].email \in Emails
    <3>1. ASSUME NEW s \in Requests, handlers[s].pc = "reset" PROVE handlers[s].email \in Emails
      <4>1. handlers[s] \in Account!Handlers
        BY DEF AccountInv, Account!TypeOK
      <4> QED
        BY <3>1, <4>1, HandlerKinds
    <3> QED
      BY <3>1
  <2> HIDE DEF new
  <2> QED
    BY <1>0, <1>3, <2>1, <2>4, <2>5, <2>9, <2>10, <2>13, <2>14, HandlerStep DEF AccountInv, Account!TypeOK
<1> QED
  BY <1>2, <1>3 DEF Account!Create

\* The version that was read under the lock is still that of the row, so the
\* version and the count of the resets advance together.
LEMMA ResetCommits ==
  ASSUME AccountInv, NEW r \in Requests, Account!CommitReset(r)
  PROVE  AccountInv'
<1> DEFINE h == handlers[r]
           e == h.email
           id == h.user.id
<1>0. /\ UNCHANGED <<tokens, clock, nextId>> /\ clock \in Nat /\ nextId \in Nat
      /\ h \in Account!Handlers /\ h.pc = "reset" /\ HandlerHolds(h)
      /\ handlers' = [handlers EXCEPT ![r] = Account!Idle]
      /\ users \in [Emails -> Account!Users \cup {NoAccount}] /\ resets \in [Account!Ids -> Nat]
  BY TimesAreNumbers, AccountConstants DEF Account!CommitReset, AccountInv, Account!TypeOK, Account!Answer
<1>1. e \in Emails /\ id \in Account!Ids /\ h.pw \in Passwords
  BY <1>0, HandlerKinds
<1>2. CASE UNCHANGED <<users, resets>>
  BY <1>0, <1>2, IdleHolds, OnlyHandler
<1>3. CASE /\ Account!Holds(e, id)
           /\ users' = [users EXCEPT ![e] = Account!ResetUser(users[e], h.user, h.pw)]
           /\ resets' = [resets EXCEPT ![id] = @ + 1]
  <2>1. /\ Account!Exists(e) /\ users[e].id = id /\ users[e] \in Account!Users
        /\ users[e].ver \in Nat /\ id \in Nat /\ resets[id] \in Nat
    BY <1>0, <1>1, <1>3, RowTypes DEF AccountInv, Account!Holds
  <2>2. h.user.ver = users[e].ver /\ users[e].ver < MaxResets /\ users[e].verified
    BY <1>0 DEF HandlerHolds, Signed
  <2>3. users[e].ver + 1 \in Account!Versions
    BY <2>1, <2>2, AccountConstants DEF Account!Versions
  <2>4. PICK row \in Account!Users : row = Account!ResetUser(users[e], h.user, h.pw)
    BY <1>1, <2>1, <2>2, <2>3 DEF Account!ResetUser, Account!Users
  <2>5. /\ row.id = id /\ row.verified = users[e].verified /\ row.active = users[e].active
        /\ row.ver = users[e].ver + 1
    BY <2>1, <2>2, <2>4 DEF Account!ResetUser, Account!Users
  <2>6. users' = [users EXCEPT ![e] = row]
    BY <1>3, <2>4
  <2>7. /\ users' \in [Emails -> Account!Users \cup {NoAccount}] /\ users'[e] = row
        /\ \A f \in Emails : Stays(f) /\ (f # e => SamePassword(f) /\ users'[f] = users[f])
    BY <1>1, <2>1, <2>5, <2>6, RowWritten
  <2>8. \A f \in Emails : Advances(f)
    <3>1. users'[e].ver \in Nat /\ users'[e].ver > users[e].ver
      BY <2>1, <2>5, <2>7
    <3> QED
      BY <2>7, <3>1 DEF Advances
  <2>9. ASSUME NEW s \in Requests, s # r, handlers[s].pc = "reset"
        PROVE  SamePassword(handlers[s].email)
    <3>1. handlers[s] \in Account!Handlers
      BY DEF AccountInv, Account!TypeOK
    <3>2. handlers[s].email \in Emails
      BY <2>9, <3>1, HandlerKinds
    <3>3. handlers[s].email # e
      BY <1>0, <2>9 DEF AccountInv, Locking
    <3> QED
      BY <2>7, <3>2, <3>3
  <2>10. /\ resets' \in [Account!Ids -> Nat] /\ resets'[id] = resets[id] + 1
         /\ \A i \in Account!Ids : i # id => resets'[i] = resets[i]
    BY <1>0, <1>1, <1>3, <2>1
  <2>11. ASSUME NEW f \in Emails, Account!Exists(f)'
         PROVE  /\ users'[f].id < nextId' /\ users'[f].ver = resets'[users'[f].id]
                /\ \A t \in users'[f].active : t <= clock'
                /\ Account!Exists(f) /\ users'[f].id = users[f].id
    <3>1. CASE f = e
      <4>1. users[e].id < nextId /\ users[e].ver = resets[id] /\ \A t \in users[e].active : t <= clock
        BY <1>1, <2>1 DEF AccountInv, Numbered
      <4> QED
        BY <1>0, <2>1, <2>5, <2>7, <2>10, <3>1, <4>1
    <3>2. CASE f # e
      <4>1. Account!Exists(f) /\ users'[f] = users[f]
        BY <2>7, <2>11, <3>2 DEF Account!Exists
      <4>2. users[f].id # id /\ users[f].id \in Account!Ids
        BY <1>1, <2>1, <3>2, <4>1, RowTypes DEF AccountInv, Numbered
      <4> QED
        BY <1>0, <2>10, <4>1, <4>2 DEF AccountInv, Numbered
    <3> QED
      BY <3>1, <3>2
  <2>12. ASSUME NEW f \in Emails, NEW g \in Emails, Account!Exists(f)', Account!Exists(g)',
                users'[g].id = users'[f].id
         PROVE  g = f
    BY <2>11, <2>12 DEF AccountInv, Numbered
  <2>13. ASSUME NEW i \in Account!Ids, i >= nextId' PROVE resets'[i] = 0
    <3>1. id < nextId
      BY <1>1, <2>1 DEF AccountInv, Numbered
    <3>2. i # id
      BY <1>0, <2>1, <2>13, <3>1, TimesAreNumbers
    <3> QED
      BY <1>0, <2>10, <2>13, <3>2 DEF AccountInv, Numbered
  <2>14. Numbered'
    BY <2>11, <2>12, <2>13 DEF Numbered
  <2> HIDE DEF h
  <2> QED
    BY <1>0, <2>7, <2>8, <2>9, <2>10, <2>14, IdleHolds, HandlerStep DEF AccountInv, Account!TypeOK
<1> QED
  BY <1>2, <1>3 DEF Account!CommitReset

\* The cleanup leaves an account that is verified, or that was active too lately.
LEMMA NotStale ==
  ASSUME AccountInv, NEW e \in Emails, NEW id, NEW until \in Nat,
         SafeUntil(e, id, until), clock <= until
  PROVE  ~Account!Stale(users[e])
<1>0. clock \in Nat /\ StaleAfter \in Nat /\ users[e].active \subseteq Nat
  BY RowTypes, TimesAreNumbers, AccountConstants
  DEF AccountInv, Account!TypeOK, SafeUntil, Account!Holds
<1>1. CASE users[e].verified
  BY <1>1 DEF Account!Stale
<1>2. ASSUME NEW t \in users[e].active, users[e].active = {t}, until <= t + StaleAfter
      PROVE  ~Account!Stale(users[e])
  <2>1. Account!LastActivity(users[e]) = t
    BY <1>2 DEF Account!LastActivity
  <2>2. t \in Nat /\ ~(t + StaleAfter < clock)
    BY <1>0, <1>2
  <2> QED
    BY <2>1, <2>2 DEF Account!Stale
<1> QED
  BY <1>1, <1>2 DEF SafeUntil

LEMMA Deletes ==
  ASSUME AccountInv, Account!DeleteStaleUsers
  PROVE  AccountInv'
<1>0. /\ UNCHANGED <<tokens, handlers, clock, nextId, resets>>
      /\ clock \in Nat /\ StaleAfter \in Nat /\ RequestLife \in Nat /\ RequestLife <= StaleAfter
      /\ users \in [Emails -> Account!Users \cup {NoAccount}]
  BY TimesAreNumbers, AccountConstants DEF Account!DeleteStaleUsers, AccountInv, Account!TypeOK
<1>1. /\ users' \in [Emails -> Account!Users \cup {NoAccount}]
      /\ \A e \in Emails : users'[e] = users[e] \/ users'[e] = NoAccount
      /\ \A e \in Emails : Account!Exists(e) /\ ~Account!Stale(users[e]) => users'[e] = users[e]
  <2> DEFINE stale == {e \in Emails : Account!Exists(e) /\ Account!Stale(users[e])}
  <2>1. users' = [e \in Emails |-> IF e \in stale THEN NoAccount ELSE users[e]]
    BY DEF Account!DeleteStaleUsers
  <2>2. \A e \in Emails : Account!Exists(e) /\ ~Account!Stale(users[e]) => e \notin stale
    OBVIOUS
  <2> HIDE DEF stale
  <2> QED
    BY <1>0, <2>1, <2>2
<1>2. ASSUME NEW e \in Emails, NEW id, NEW until \in Nat, SafeUntil(e, id, until), clock <= until
      PROVE  SafeUntil(e, id, until)'
  <2>1. users'[e] = users[e]
    BY <1>1, <1>2, NotStale DEF SafeUntil, Account!Holds
  <2> QED
    BY <1>2, <2>1 DEF SafeUntil, Account!Holds, Account!Exists
<1>3. ASSUME NEW e \in Emails, NEW id, NEW ver, Signed(e, id, ver)
      PROVE  Signed(e, id, ver)' /\ users'[e] = users[e]
  <2>1. users'[e] = users[e]
    BY <1>1, <1>3 DEF Signed, Account!Holds, Account!Stale
  <2> QED
    BY <1>3, <2>1 DEF Signed, Account!Holds, Account!Exists
<1>4. ASSUME NEW t \in tokens PROVE TokenHolds(t)'
  <2>1. /\ t.email \in Emails /\ TokenHolds(t) /\ (t.kind # "verify" => t.exp \in Nat)
    BY TokenTypes DEF AccountInv
  <2>2. CASE t.kind \in {"access", "refresh", "reset"}
    <3>1. Signed(t.email, t.id, t.ver)' /\ users'[t.email] = users[t.email]
      BY <1>3, <2>1, <2>2 DEF TokenHolds
    <3> QED
      BY <2>1, <2>2, <3>1 DEF TokenHolds, Knows
  <2>3. CASE t.kind = "handoff" /\ clock < t.exp
    <3>1. SafeUntil(t.email, t.id, t.exp)'
      BY <1>0, <1>2, <2>1, <2>3 DEF TokenHolds
    <3> QED
      BY <2>3, <3>1 DEF TokenHolds
  <2>4. CASE t.kind \notin {"access", "refresh", "reset"} /\ ~(t.kind = "handoff" /\ clock < t.exp)
    BY <1>0, <2>4 DEF TokenHolds
  <2> QED
    BY <2>2, <2>3, <2>4
<1>5. ASSUME NEW e \in Emails, NEW id, NEW at \in Nat, InTime(e, id, at)
      PROVE  InTime(e, id, at)'
  <2>1. clock <= at + StaleAfter /\ at + StaleAfter \in Nat
    BY <1>0, <1>5 DEF InTime
  <2>2. SafeUntil(e, id, at + StaleAfter)'
    BY <1>2, <1>5, <2>1 DEF InTime
  <2> QED
    BY <1>0, <1>5, <2>2 DEF InTime
<1>6. ASSUME NEW r \in Requests PROVE HandlerHolds(handlers[r])'
  <2>1. PICK h \in Account!Handlers : h = handlers[r] /\ h = handlers'[r]
    BY <1>0 DEF AccountInv, Account!TypeOK
  <2>2. HandlerHolds(h)
    BY <2>1 DEF AccountInv
  <2>3. h.pc # "idle" => h.email \in Emails
    BY HandlerKinds
  <2>4. h.pc \in {"mail", "cookie"} => h.at \in Nat
    BY HandlerKinds, TimesAreNumbers
  <2>5. HandlerHolds(h)'
    <3>1. CASE h.pc = "mail"
      <4>1. InTime(h.email, h.id, h.at)'
        BY <1>5, <2>2, <2>3, <2>4, <3>1 DEF HandlerHolds
      <4> QED
        BY <3>1, <4>1 DEF HandlerHolds
    <3>2. CASE h.pc = "cookie"
      <4>1. InTime(h.email, h.user.id, h.at)'
        BY <1>5, <2>2, <2>3, <2>4, <3>2 DEF HandlerHolds
      <4> QED
        BY <3>2, <4>1 DEF HandlerHolds
    <3>3. CASE h.pc \in {"session", "resetmail", "reset"}
      <4>1. Signed(h.email, h.user.id, h.user.ver)' /\ users'[h.email] = users[h.email]
        BY <1>3, <2>2, <2>3, <3>3 DEF HandlerHolds
      <4> QED
        BY <2>2, <3>3, <4>1 DEF HandlerHolds, Knows
    <3>4. CASE h.pc \notin {"mail", "cookie", "session", "resetmail", "reset"}
      BY <3>4 DEF HandlerHolds
    <3> QED
      BY <3>1, <3>2, <3>3, <3>4
  <2> QED
    BY <2>1, <2>5 DEF HandlerHolds, InTime, SafeUntil, Signed, Knows, Account!Holds, Account!Exists
<1>7. Numbered'
  <2>1. \A e \in Emails : Account!Exists(e)' => Account!Exists(e) /\ users'[e] = users[e]
    BY <1>1 DEF Account!Exists
  <2> QED
    BY <1>0, <2>1 DEF AccountInv, Numbered
<1> QED
  BY <1>0, <1>1, <1>4, <1>6, <1>7 DEF AccountInv, Account!TypeOK

\* Time passes only while every registration is answered in time.
LEMMA Ticks ==
  ASSUME AccountInv, Account!Tick
  PROVE  AccountInv'
<1>0. /\ UNCHANGED <<users, tokens, handlers, nextId, resets>>
      /\ clock \in Nat /\ clock' = clock + 1 /\ clock' \in Account!Times
  BY TimesAreNumbers, AccountConstants DEF Account!Tick, AccountInv, Account!TypeOK, Account!Times
<1>1. ASSUME NEW e, NEW id, NEW until, SafeUntil(e, id, until) PROVE SafeUntil(e, id, until)'
  BY <1>0, <1>1 DEF SafeUntil, Account!Holds, Account!Exists
<1>2. ASSUME NEW t \in tokens PROVE TokenHolds(t)'
  <2>1. TokenHolds(t) /\ (t.kind # "verify" => t.exp \in Nat)
    BY TokenTypes DEF AccountInv
  <2>2. CASE t.kind \in {"access", "refresh", "reset"}
    BY <1>0, <2>1, <2>2 DEF TokenHolds, Signed, Knows, Account!Holds, Account!Exists
  <2>3. CASE t.kind = "handoff" /\ clock' < t.exp
    <3>1. SafeUntil(t.email, t.id, t.exp)'
      BY <1>0, <1>1, <2>1, <2>3 DEF TokenHolds
    <3> QED
      BY <2>3, <3>1 DEF TokenHolds
  <2>4. CASE t.kind \notin {"access", "refresh", "reset"} /\ ~(t.kind = "handoff" /\ clock' < t.exp)
    BY <2>4 DEF TokenHolds
  <2> QED
    BY <2>2, <2>3, <2>4
<1>3. ASSUME NEW r \in Requests PROVE HandlerHolds(handlers[r])'
  <2>1. PICK h \in Account!Handlers : h = handlers[r] /\ h = handlers'[r]
    BY <1>0 DEF AccountInv, Account!TypeOK
  <2>2. HandlerHolds(h)
    BY <2>1 DEF AccountInv
  <2>3. h.pc \in {"mail", "cookie"} => h.at \in Nat /\ clock < h.at + RequestLife
    BY <2>1, HandlerKinds, TimesAreNumbers DEF Account!Tick
  <2>4. HandlerHolds(h)'
    <3>1. CASE h.pc = "mail"
      <4>1. InTime(h.email, h.id, h.at)
        BY <2>2, <3>1 DEF HandlerHolds
      <4>2. InTime(h.email, h.id, h.at)'
        BY <1>0, <1>1, <2>3, <3>1, <4>1, AccountConstants DEF InTime
      <4> QED
        BY <3>1, <4>2 DEF HandlerHolds
    <3>2. CASE h.pc = "cookie"
      <4>1. InTime(h.email, h.user.id, h.at)
        BY <2>2, <3>2 DEF HandlerHolds
      <4>2. InTime(h.email, h.user.id, h.at)'
        BY <1>0, <1>1, <2>3, <3>2, <4>1, AccountConstants DEF InTime
      <4> QED
        BY <3>2, <4>2 DEF HandlerHolds
    <3>3. CASE h.pc \notin {"mail", "cookie"}
      BY <1>0, <2>2, <3>3 DEF HandlerHolds, Signed, Knows, Account!Holds, Account!Exists
    <3> QED
      BY <3>1, <3>2, <3>3
  <2> QED
    BY <2>1, <2>4 DEF HandlerHolds, InTime, SafeUntil, Signed, Knows, Account!Holds, Account!Exists
<1>4. Numbered'
  <2>1. ASSUME NEW e \in Emails, Account!Exists(e), NEW t \in users[e].active PROVE t <= clock'
    <3>1. t \in Nat /\ t <= clock
      BY <2>1, RowTypes, TimesAreNumbers DEF AccountInv, Numbered
    <3> QED
      BY <1>0, <3>1
  <2>2. \A e \in Emails : Account!Exists(e)' <=> Account!Exists(e)
    BY <1>0 DEF Account!Exists
  <2> QED
    BY <1>0, <2>1, <2>2 DEF AccountInv, Numbered
<1> QED
  BY <1>0, <1>2, <1>3, <1>4 DEF AccountInv, Account!TypeOK

LEMMA AccountInit ==
  ASSUME Account!Init
  PROVE  AccountInv
<1>1. PICK old \in [Emails -> {{}, {0}}], p \in Passwords,
           some \in {{}} \cup (IF MaxId = 0 THEN {} ELSE {{e} : e \in Emails}) :
        /\ \A e \in Emails \ some : old[e] = {}
        /\ \E u \in Usernames :
             users = [e \in Emails |-> IF e \notin some THEN NoAccount ELSE
                       [id |-> 1, username |-> u, pw |-> p, verified |-> FALSE,
                        ver |-> 0, created |-> 0, active |-> old[e]]]
        /\ nextId = IF some = {} THEN 1 ELSE 2
  BY DEF Account!Init
<1>2. PICK u \in Usernames :
        users = [e \in Emails |-> IF e \notin some THEN NoAccount ELSE
                  [id |-> 1, username |-> u, pw |-> p, verified |-> FALSE,
                   ver |-> 0, created |-> 0, active |-> old[e]]]
  BY <1>1
<1>3. /\ tokens = {} /\ handlers = [r \in Requests |-> Account!Idle] /\ clock = 0
      /\ resets = [i \in Account!Ids |-> 0]
  BY DEF Account!Init
<1>4. some # {} => 1 \in Account!Ids /\ MaxId >= 1
  BY <1>1, AccountConstants DEF Account!Ids
<1>5. \A e, f \in Emails : e \in some /\ f \in some => e = f
  BY <1>1
<1>6. 0 \in Account!Times /\ 0 \in Account!Versions
  BY AccountConstants DEF Account!Times, Account!Versions
<1>7. ASSUME NEW e \in Emails, e \in some
      PROVE  /\ users[e] \in Account!Users /\ users[e].id = 1 /\ users[e].ver = 0
             /\ users[e].active \in {{}, {0}}
  <2>1. old[e] \in SUBSET Account!Times /\ old[e] \in {{}, {0}}
    BY <1>6
  <2>2. users[e] = [id |-> 1, username |-> u, pw |-> p, verified |-> FALSE,
                    ver |-> 0, created |-> 0, active |-> old[e]]
    BY <1>2, <1>7
  <2> QED
    BY <1>4, <1>6, <1>7, <2>1, <2>2 DEF Account!Users
<1>8. \A e \in Emails : e \notin some => users[e] = NoAccount
  BY <1>2
<1>9. Account!TypeOK
  <2>1. users \in [Emails -> Account!Users \cup {NoAccount}]
    BY <1>2, <1>7, <1>8
  <2>2. handlers \in [Requests -> Account!Handlers]
    BY <1>3, IdleHolds
  <2>3. clock \in Account!Times /\ tokens \subseteq Account!Tokens \cup Account!Links
    BY <1>3, <1>6
  <2>4. nextId \in 1 .. (MaxId + 1)
    BY <1>1, <1>4, AccountConstants
  <2>5. resets \in [Account!Ids -> Nat]
    BY <1>3
  <2> QED
    BY <2>1, <2>2, <2>3, <2>4, <2>5 DEF Account!TypeOK
<1>10. Numbered
  <2>1. ASSUME NEW e \in Emails, Account!Exists(e)
        PROVE  /\ users[e].id < nextId /\ users[e].ver = resets[users[e].id]
               /\ \A t \in users[e].active : t <= clock
               /\ \A f \in Emails : Account!Exists(f) /\ users[f].id = users[e].id => f = e
    <3>1. e \in some /\ some # {}
      BY <1>8, <2>1 DEF Account!Exists
    <3>2. users[e].id = 1 /\ users[e].ver = 0 /\ users[e].active \in {{}, {0}} /\ nextId = 2
      BY <1>1, <1>7, <3>1
    <3>3. resets[1] = 0
      BY <1>3, <1>4, <3>1
    <3>4. \A f \in Emails : Account!Exists(f) => f = e
      BY <1>5, <1>8, <3>1 DEF Account!Exists
    <3> QED
      BY <1>3, <3>2, <3>3, <3>4
  <2>2. \A i \in Account!Ids : i >= nextId => resets[i] = 0
    BY <1>3
  <2> QED
    BY <2>1, <2>2 DEF Numbered
<1>11. \A r \in Requests : HandlerHolds(handlers[r]) /\ ~Locking(handlers[r])
  BY <1>3, IdleHolds
<1> QED
  BY <1>3, <1>9, <1>10, <1>11 DEF AccountInv

LEMMA AccountStutters ==
  ASSUME AccountInv, UNCHANGED accountVars
  PROVE  AccountInv'
<1>0. UNCHANGED <<users, tokens, handlers, clock, nextId, resets>>
  BY DEF accountVars
<1>1. Account!TypeOK' /\ Numbered'
  BY <1>0 DEF AccountInv, Account!TypeOK, Numbered, Account!Exists
<1>2. ASSUME NEW t \in tokens PROVE TokenHolds(t)'
  <2>1. TokenHolds(t)
    BY DEF AccountInv
  <2> QED
    BY <1>0, <2>1 DEF TokenHolds, SafeUntil, Signed, Knows, Account!Holds, Account!Exists
<1>3. ASSUME NEW r \in Requests PROVE HandlerHolds(handlers[r])'
  <2>1. HandlerHolds(handlers[r])
    BY DEF AccountInv
  <2> QED
    BY <1>0, <2>1 DEF HandlerHolds, InTime, SafeUntil, Signed, Knows, Account!Holds, Account!Exists
<1> QED
  BY <1>0, <1>1, <1>2, <1>3 DEF AccountInv

LEMMA AccountStep ==
  ASSUME AccountInv, Account!Next
  PROVE  AccountInv'
<1>1. CASE Account!DeleteStaleUsers
  BY <1>1, Deletes
<1>2. CASE Account!Tick
  BY <1>2, Ticks
<1>3. ASSUME NEW r \in Requests,
             \/ \E e \in Emails, u \in Usernames, p \in Passwords : Account!StartRegister(r, e, u, p)
             \/ \E e \in Emails, p \in Passwords : Account!Login(r, e, p)
             \/ \E t \in Account!Versioned : Account!ExchangeHandoff(r, t) \/ Account!Refresh(r, t)
             \/ \E t \in Account!Versioned, p \in Passwords : Account!StartReset(r, t, p)
      PROVE  AccountInv'
  BY <1>3, RegisterReads, LoginReads, TokenReads, ResetReads DEF Account!Versioned, Account!StartReset
<1>4. ASSUME NEW r \in Requests,
             \/ Account!Resend(r) \/ Account!Create(r) \/ Account!SendVerification(r)
             \/ Account!SetHandoff(r) \/ Account!CommitVerify(r) \/ Account!IssueSession(r)
             \/ Account!SendReset(r) \/ Account!CommitReset(r) \/ Account!LoseRequest(r)
             \/ \E e \in Emails : Account!StartVerify(r, e) \/ Account!ForgotPassword(r, e)
      PROVE  AccountInv'
  BY <1>4, Resends, Creates, VerificationSent, HandoffSet, VerifyCommits, SessionIssued,
     ResetSent, ResetCommits, Loses, VerifyReads, ForgotReads
<1> QED
  BY <1>1, <1>2, <1>3, <1>4 DEF Account!Next

\* What the invariant says of the properties.
LEMMA AccountInvMeans ==
  ASSUME AccountInv
  PROVE  /\ Account!TypeOK /\ Account!TokenOfThisAccount /\ Account!SessionKnowsPassword
         /\ Account!ResetsCounted /\ Account!ResetLinkToldTrue /\ Account!HandoffHasAccount
<1>0. \A t \in Account!Versioned : t \in tokens /\ t.kind # "verify" /\ TokenHolds(t)
  BY DEF Account!Versioned, AccountInv
<1>1. Account!TypeOK /\ Account!ResetsCounted
  BY DEF AccountInv, Numbered, Account!ResetsCounted
<1>2. Account!TokenOfThisAccount
  BY <1>0 DEF Account!TokenOfThisAccount, Account!Honoured, Account!AccessHonoured,
     Account!RefreshHonoured, Account!HandoffHonoured, Account!ResetHonoured,
     TokenHolds, Signed, SafeUntil, Account!Holds
<1>3. Account!SessionKnowsPassword
  BY <1>0 DEF Account!SessionKnowsPassword, Account!AccessHonoured, Account!RefreshHonoured,
     Account!Current, TokenHolds, Knows
<1>4. Account!HandoffHasAccount
  BY <1>0 DEF Account!HandoffHasAccount, TokenHolds, SafeUntil
<1>5. ASSUME NEW t \in Account!Versioned, t.kind = "reset"
      PROVE  Account!ResetStatus(t) = IF resets[t.id] > t.ver THEN "used" ELSE "valid"
  <2>1. /\ Account!Exists(t.email) /\ users[t.email].id = t.id /\ t.ver <= users[t.email].ver
        /\ t.email \in Emails /\ t.ver \in Nat
    BY <1>0, <1>5, TokenTypes DEF AccountInv, TokenHolds, Signed, Account!Holds
  <2>2. users[t.email].ver = resets[t.id] /\ users[t.email].ver \in Nat
    BY <2>1, RowTypes DEF AccountInv, Numbered
  <2>3. CASE t.ver = users[t.email].ver
    BY <2>1, <2>2, <2>3 DEF Account!ResetStatus
  <2>4. CASE t.ver # users[t.email].ver
    <3>1. t.ver < users[t.email].ver
      BY <2>1, <2>2, <2>4
    <3> QED
      BY <2>1, <2>2, <2>4, <3>1 DEF Account!ResetStatus
  <2> QED
    BY <2>3, <2>4
<1>6. Account!ResetLinkToldTrue
  BY <1>5 DEF Account!ResetLinkToldTrue
<1> QED
  BY <1>1, <1>2, <1>3, <1>4, <1>6

\* A verified row stays in every step.
LEMMA VerifiedStaysInStep ==
  ASSUME AccountInv, Account!Next
  PROVE  Account!VerifiedSurvives
<1>1. SUFFICES ASSUME NEW e \in Emails, Account!Exists(e), users[e].verified
               PROVE  /\ users'[e] # NoAccount /\ users'[e].id = users[e].id
                      /\ users'[e].verified
  BY DEF Account!VerifiedSurvives
<1>2. users[e] \in Account!Users /\ users \in [Emails -> Account!Users \cup {NoAccount}]
  BY <1>1, RowTypes DEF AccountInv, Account!TypeOK
<1>3. CASE users'[e] = users[e]
  BY <1>1, <1>3 DEF Account!Exists
<1>4. ASSUME NEW r \in Requests, NEW f \in Emails, NEW row \in Account!Users,
             Account!Exists(f), users' = [users EXCEPT ![f] = row], row.id = users[f].id,
             users[f].verified => row.verified
      PROVE  /\ users'[e] # NoAccount /\ users'[e].id = users[e].id
             /\ users'[e].verified
  <2>1. CASE e = f
    BY <1>1, <1>2, <1>4, <2>1, AccountConstants
  <2>2. CASE e # f
    BY <1>1, <1>2, <1>3, <1>4, <2>2
  <2> QED
    BY <2>1, <2>2
<1>5. ASSUME NEW r \in Requests, Account!Resend(r)
      PROVE  /\ users'[e] # NoAccount /\ users'[e].id = users[e].id
             /\ users'[e].verified
  <2> DEFINE f == handlers[r].email
  <2>1. f \in Emails /\ clock \in Account!Times
    BY <1>5, HandlerKinds DEF Account!Resend, AccountInv, Account!TypeOK
  <2>2. CASE users' = users
    BY <1>3, <2>2
  <2>3. CASE Account!Exists(f) /\ users' = [users EXCEPT ![f] = Account!Touched(users[f])]
    <3>1. users[f] \in Account!Users
      BY <2>1, <2>3, RowTypes DEF AccountInv
    <3>2. PICK row \in Account!Users : row = Account!Touched(users[f])
      BY <2>1, <3>1 DEF Account!Touched, Account!Users
    <3>3. row.id = users[f].id /\ row.verified = users[f].verified
      BY <3>1, <3>2 DEF Account!Touched, Account!Users
    <3> QED
      BY <1>4, <2>1, <2>3, <3>2, <3>3
  <2> QED
    BY <1>5, <2>2, <2>3 DEF Account!Resend, Account!Holds
<1>6. ASSUME NEW r \in Requests, Account!CommitVerify(r)
      PROVE  /\ users'[e] # NoAccount /\ users'[e].id = users[e].id
             /\ users'[e].verified
  <2> DEFINE f == handlers[r].email
  <2>1. f \in Emails
    BY <1>6, HandlerKinds DEF Account!CommitVerify, AccountInv, Account!TypeOK
  <2>2. CASE users' = users
    BY <1>3, <2>2
  <2>3. CASE Account!Exists(f) /\ users' = [users EXCEPT ![f].verified = TRUE]
    <3>1. users[f] \in Account!Users
      BY <2>1, <2>3, RowTypes DEF AccountInv
    <3>2. PICK row \in Account!Users : row = [users[f] EXCEPT !.verified = TRUE]
      BY <3>1 DEF Account!Users
    <3>3. row.id = users[f].id /\ row.verified /\ users' = [users EXCEPT ![f] = row]
      BY <2>3, <3>1, <3>2 DEF Account!Users
    <3> QED
      BY <1>4, <2>1, <2>3, <3>3
  <2> QED
    BY <1>6, <2>2, <2>3 DEF Account!CommitVerify, Account!Holds
<1>7. ASSUME NEW r \in Requests, Account!CommitReset(r)
      PROVE  /\ users'[e] # NoAccount /\ users'[e].id = users[e].id
             /\ users'[e].verified
  <2> DEFINE h == handlers[r]
             f == h.email
  <2>1. /\ h \in Account!Handlers /\ h.pc = "reset" /\ HandlerHolds(h)
    BY <1>7 DEF Account!CommitReset, AccountInv, Account!TypeOK
  <2>2. f \in Emails /\ h.pw \in Passwords
    BY <2>1, HandlerKinds
  <2>3. CASE users' = users
    BY <1>3, <2>3
  <2>4. CASE /\ Account!Exists(f)
             /\ users' = [users EXCEPT ![f] = Account!ResetUser(users[f], h.user, h.pw)]
    <3>1. users[f] \in Account!Users /\ users[f].ver \in Nat
      BY <2>2, <2>4, RowTypes DEF AccountInv
    <3>2. h.user.ver = users[f].ver /\ users[f].ver < MaxResets
      BY <2>1 DEF HandlerHolds
    <3>3. h.user.ver + 1 \in Account!Versions
      BY <3>1, <3>2, AccountConstants DEF Account!Versions
    <3>4. PICK row \in Account!Users : row = Account!ResetUser(users[f], h.user, h.pw)
      BY <2>2, <3>1, <3>3 DEF Account!ResetUser, Account!Users
    <3>5. row.id = users[f].id /\ row.verified = users[f].verified
      BY <3>1, <3>4 DEF Account!ResetUser, Account!Users
    <3>6. users' = [users EXCEPT ![f] = row]
      BY <2>4, <3>4
    <3> QED
      BY <1>4, <2>2, <2>4, <3>5, <3>6
  <2> QED
    BY <1>7, <2>3, <2>4 DEF Account!CommitReset, Account!Holds
<1>8. ASSUME NEW r \in Requests, Account!Create(r) PROVE users'[e] = users[e]
  <2>1. handlers[r].email \in Emails
    BY <1>8, HandlerKinds DEF Account!Create, AccountInv, Account!TypeOK
  <2> QED
    BY <1>1, <1>2, <1>8, <2>1 DEF Account!Create, Account!Exists
<1>9. ASSUME Account!DeleteStaleUsers PROVE users'[e] = users[e]
  <2>1. ~Account!Stale(users[e])
    BY <1>1 DEF Account!Stale
  <2> QED
    BY <1>9, <2>1 DEF Account!DeleteStaleUsers
<1>10. ASSUME Account!Tick PROVE users'[e] = users[e]
  BY <1>10 DEF Account!Tick
<1>11. ASSUME NEW r \in Requests,
              \/ \E f \in Emails, u \in Usernames, p \in Passwords : Account!StartRegister(r, f, u, p)
              \/ \E f \in Emails, p \in Passwords : Account!Login(r, f, p)
              \/ \E t \in Account!Versioned : Account!ExchangeHandoff(r, t) \/ Account!Refresh(r, t)
              \/ \E t \in Account!Versioned, p \in Passwords : Account!StartReset(r, t, p)
              \/ \E f \in Emails : Account!StartVerify(r, f) \/ Account!ForgotPassword(r, f)
              \/ Account!SendVerification(r) \/ Account!SetHandoff(r) \/ Account!IssueSession(r)
              \/ Account!SendReset(r) \/ Account!LoseRequest(r)
       PROVE  users'[e] = users[e]
  <2>1. UNCHANGED users
    BY <1>11 DEF Account!StartRegister, Account!Login, Account!ExchangeHandoff, Account!Refresh,
       Account!StartReset, Account!StartVerify, Account!ForgotPassword, Account!SendVerification,
       Account!SetHandoff, Account!IssueSession, Account!SendReset, Account!LoseRequest
  <2> QED
    BY <2>1
<1> QED
  BY <1>3, <1>5, <1>6, <1>7, <1>8, <1>9, <1>10, <1>11 DEF Account!Next

-----------------------------------------------------------------------------
(* The limit on the body.                                                  *)

\* What the application is given stays within the limit until it is refused, and
\* only a body that was counted to its end is accepted.
BodyInv ==
    /\ Body!TypeOK
    /\ starts <= 1
    /\ app = "outside" => starts = 0 /\ received = 0
    /\ app = "reading" => received <= MaxBodySize
    /\ response = "accepted" => app = "finished" /\ read = Len(body) /\ received <= MaxBodySize

LEMMA BodyConstants ==
  /\ MaxBodySize \in Nat /\ None \notin {"refused", "accepted"}
  /\ \A b \in Bodies : b \in Seq(Nat)
BY RequestsAssumption DEF Body!BodyAssumption

LEMMA Offsets ==
  ASSUME body \in Bodies, NEW n \in 0 .. Len(body)
  PROVE  Len(body) \in Nat /\ n \in Nat /\ Body!End(n) \in Nat
<1>1. body \in Seq(Nat)
  BY BodyConstants
<1>2. Len(body) \in Nat /\ \A i \in 1 .. Len(body) : body[i] \in Nat
  BY <1>1
<1>3. n \in Nat /\ (n # 0 => n \in 1 .. Len(body))
  BY <1>2
<1> QED
  BY <1>2, <1>3 DEF Body!End

LEMMA BodyInit ==
  ASSUME Body!Init
  PROVE  BodyInv
<1>1. /\ body \in Bodies /\ read = 0 /\ received = 0 /\ starts = 0 /\ response = None
      /\ app = "outside"
  BY DEF Body!Init
<1>2. Len(body) \in Nat
  BY <1>1, BodyConstants
<1> QED
  BY <1>1, <1>2, BodyConstants DEF BodyInv, Body!TypeOK, Body!End

LEMMA BodyStep ==
  ASSUME BodyInv, [Body!Next]_bodyVars
  PROVE  BodyInv'
<1>0. /\ body \in Bodies /\ Len(body) \in Nat /\ read \in 0 .. Len(body) /\ read \in Nat
      /\ received = Body!End(read) /\ received \in Nat /\ starts \in Nat
      /\ response \in {None, "refused", "accepted"} /\ MaxBodySize \in Nat
      /\ None \notin {"refused", "accepted"}
  BY Offsets, BodyConstants DEF BodyInv, Body!TypeOK
<1>1. CASE Body!RefuseDeclared
  <2>1. /\ starts = 0 /\ received = 0 /\ starts' = 1 /\ response' = "refused" /\ app' = "finished"
        /\ UNCHANGED <<body, declared, read, received>>
    BY <1>1 DEF BodyInv, Body!RefuseDeclared, Body!Respond
  <2> QED
    BY <1>0, <2>1 DEF BodyInv, Body!TypeOK, Body!End
<1>2. CASE Body!Enter
  <2>1. /\ starts = 0 /\ received = 0 /\ app = "outside" /\ app' = "reading"
        /\ UNCHANGED <<body, declared, read, received, starts, response>>
    BY <1>2 DEF BodyInv, Body!Enter
  <2> QED
    BY <1>0, <2>1 DEF BodyInv, Body!TypeOK, Body!End
<1>3. CASE Body!AnswerEarly
  <2>1. /\ starts = 0 /\ app = "reading" /\ starts' = 1 /\ response' = "refused"
        /\ UNCHANGED <<body, declared, read, received, app>>
    BY <1>3 DEF BodyInv, Body!AnswerEarly, Body!Respond
  <2> QED
    BY <1>0, <2>1 DEF BodyInv, Body!TypeOK, Body!End
<1>4. ASSUME read < Len(body) PROVE Body!Counted = Body!End(read + 1) /\ read + 1 \in 0 .. Len(body)
  <2>1. read + 1 \in 0 .. Len(body)
    BY <1>0, <1>4
  <2>2. Body!End(read + 1) \in Nat
    BY <1>0, <2>1, Offsets
  <2> QED
    BY <1>0, <2>1, <2>2 DEF Body!Counted
<1>5. CASE Body!Receive
  <2>1. /\ app = "reading" /\ read < Len(body) /\ received' = Body!Counted /\ read' = read + 1
        /\ Body!Counted <= MaxBodySize /\ UNCHANGED <<body, declared, starts, response, app>>
    BY <1>5 DEF Body!Receive
  <2>2. received' = Body!End(read)' /\ read' \in 0 .. Len(body)
    BY <1>4, <2>1 DEF Body!End
  <2> QED
    BY <1>0, <2>1, <2>2 DEF BodyInv, Body!TypeOK
<1>6. CASE Body!Exceed
  <2>1. /\ app = "reading" /\ read < Len(body) /\ received' = Body!Counted /\ read' = read + 1
        /\ UNCHANGED <<body, declared>>
        /\ \/ starts = 0 /\ starts' = 1 /\ response' = "refused" /\ app' = "finished"
           \/ app' = "failed" /\ UNCHANGED <<starts, response>>
    BY <1>0, <1>6 DEF BodyInv, Body!Exceed, Body!Respond
  <2>2. received' = Body!End(read)' /\ read' \in 0 .. Len(body)
    BY <1>4, <2>1 DEF Body!End
  <2> QED
    BY <1>0, <2>1, <2>2 DEF BodyInv, Body!TypeOK
<1>7. CASE Body!Complete
  <2>1. /\ app = "reading" /\ read = Len(body) /\ app' = "finished"
        /\ UNCHANGED <<body, declared, read, received>>
        /\ \/ starts = 0 /\ starts' = 1 /\ response' = "accepted"
           \/ UNCHANGED <<starts, response>>
    BY <1>0, <1>7 DEF BodyInv, Body!Complete, Body!Respond
  <2> QED
    BY <1>0, <2>1 DEF BodyInv, Body!TypeOK, Body!End
<1>8. CASE UNCHANGED bodyVars
  BY <1>8 DEF bodyVars, BodyInv, Body!TypeOK, Body!End
<1> QED
  BY <1>1, <1>2, <1>3, <1>5, <1>6, <1>7, <1>8 DEF Body!Next

LEMMA BodyInvMeans ==
  ASSUME BodyInv
  PROVE  Body!TypeOK /\ Body!OneResponse /\ Body!AcceptedIsWithinLimit
BY DEF BodyInv, Body!TypeOK, Body!OneResponse, Body!AcceptedIsWithinLimit

-----------------------------------------------------------------------------
(* Theorems                                                                *)

\* The invariants hold in every behaviour of the part they are about.
LEMMA AccountInvariant ==
  RequestsSpec => [](part = "accounts" => AccountInv)
<1> DEFINE I == part = "accounts" => AccountInv
<1>1. RequestsInit => I
  BY AccountInit DEF RequestsInit
<1>2. I /\ [RequestsNext]_<<part, vars, accountVars, bodyVars>> => I'
  <2> SUFFICES ASSUME I, [RequestsNext]_<<part, vars, accountVars, bodyVars>>, part' = "accounts"
               PROVE  AccountInv'
    OBVIOUS
  <2>1. part = "accounts" /\ (Account!Next \/ UNCHANGED accountVars)
    BY DEF RequestsNext
  <2> QED
    BY <2>1, AccountStep, AccountStutters
<1> QED
  BY <1>1, <1>2, PTL DEF RequestsSpec

LEMMA BodyInvariant ==
  RequestsSpec => [](part = "body" => BodyInv)
<1> DEFINE I == part = "body" => BodyInv
<1>1. RequestsInit => I
  BY BodyInit DEF RequestsInit
<1>2. I /\ [RequestsNext]_<<part, vars, accountVars, bodyVars>> => I'
  <2> SUFFICES ASSUME I, [RequestsNext]_<<part, vars, accountVars, bodyVars>>, part' = "body"
               PROVE  BodyInv'
    OBVIOUS
  <2>1. part = "body" /\ [Body!Next]_bodyVars
    BY DEF RequestsNext
  <2> QED
    BY <2>1, BodyStep
<1> QED
  BY <1>1, <1>2, PTL DEF RequestsSpec

\* Every variable of the accounts has its type, and what a token, a reset link
\* or a hand-off cookie lets in or tells belongs to the account it was made for,
\* however reads and commits of requests, the cleanup and the clock alternate
\* (auth.py, user_cleanup.py).
THEOREM TokensStayTrue ==
  RequestsSpec => []TokensAreTrue
<1>1. (part = "accounts" => AccountInv) => TokensAreTrue
  BY AccountInvMeans DEF TokensAreTrue
<1> QED
  BY <1>1, AccountInvariant, PTL

\* No registration, reset or cleanup that saw an account unverified takes it, or
\* its verification, away (auth.py:101, user_cleanup.py:15).
THEOREM VerifiedAccountsStay ==
  RequestsSpec => VerifiedStays
<1>1. (part = "accounts" => AccountInv) /\ [RequestsNext]_<<part, vars, accountVars, bodyVars>>
        => [part = "accounts" => Account!VerifiedSurvives]_accountVars
  <2> SUFFICES ASSUME part = "accounts", AccountInv, accountVars' # accountVars,
                      [RequestsNext]_<<part, vars, accountVars, bodyVars>>
               PROVE  Account!VerifiedSurvives
    OBVIOUS
  <2>1. Account!Next
    BY DEF RequestsNext
  <2> QED
    BY <2>1, VerifiedStaysInStep
<1> QED
  BY <1>1, AccountInvariant, PTL DEF RequestsSpec, VerifiedStays

\* A request is answered once, and accepted only when its whole body was counted
\* and is within the limit, whatever length it declared and whenever the
\* application began to answer (request_body_limit.py:45).
THEOREM BodiesAreJudgedOnce ==
  RequestsSpec => []JudgedOnce
<1>1. (part = "body" => BodyInv) => JudgedOnce
  BY BodyInvMeans DEF JudgedOnce
<1> QED
  BY <1>1, BodyInvariant, PTL
=============================================================================
