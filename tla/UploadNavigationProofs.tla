----------------------- MODULE UploadNavigationProofs -----------------------
(***************************************************************************)
(* Theorems about UploadNavigation.  The router knows where it is, however *)
(* many gestures, corrections and queued navigations overlap: what is on   *)
(* screen is the entry it protects or comes back to, and nothing is        *)
(* written from another one.  So the page of an upload is not taken over.  *)
(***************************************************************************)
EXTENDS UploadNavigation, SequenceTheorems, TLAPS

Navs == [to : Paths, replace : BOOLEAN]

\* The entry that the router protects, or brings the browser back to, is the one on
\* screen; without a correction or a lock, the one the browser is on.
Protected ==
    /\ Correcting => /\ target = lockedIndex /\ target \in DOMAIN entries
                     /\ location = entries[target] /\ home = target
    /\ blocked => /\ lockedIndex \in DOMAIN entries
                  /\ location = entries[lockedIndex] /\ home = lockedIndex
    /\ blocked /\ ~Correcting => pos = lockedIndex
    /\ ~blocked /\ ~Correcting => location = entries[pos]
    /\ locked => blocked

\* The page of an upload is the one that the lock keeps on screen, and an outage that
\* may take over was checked.
OnScreen ==
    /\ locked => alive /\ frozen = New
    /\ ~locked => frozen = location
    /\ ~locked /\ reval = "no" /\ unavailable => checked

Inv == TypeOK /\ Protected /\ OnScreen

-----------------------------------------------------------------------------
(* What a navigation writes.                                               *)

LEMMA NavigationsKnown ==
    /\ \A to \in Paths : Push(to) \in Navs /\ Replace(to) \in Navs
    /\ New \in Paths /\ Login \in Paths /\ Items \subseteq Paths /\ Results \subseteq Paths
BY DEF Push, Replace, Navs, Paths

\* Sequences that agree on their first n elements have the same prefix.
LEMMA SamePrefix ==
    ASSUME NEW S, NEW s \in Seq(S), NEW t \in Seq(S), NEW n \in Nat,
           n <= Len(s), n <= Len(t), \A i \in 1 .. n : s[i] = t[i]
    PROVE  SubSeq(s, 1, n) = SubSeq(t, 1, n)
<1>1. \A i \in 1 .. n : s[i] \in S /\ t[i] \in S
  BY ElementOfSeq, LenProperties
<1>2. /\ SubSeq(s, 1, n) \in Seq(S) /\ Len(SubSeq(s, 1, n)) = n
      /\ \A i \in 1 .. n : SubSeq(s, 1, n)[i] = s[i]
  BY <1>1, SubSeqProperties
<1>3. /\ SubSeq(t, 1, n) \in Seq(S) /\ Len(SubSeq(t, 1, n)) = n
      /\ \A i \in 1 .. n : SubSeq(t, 1, n)[i] = t[i]
  BY <1>1, SubSeqProperties
<1> QED BY <1>2, <1>3, SeqEqual

\* A navigation changes nothing before the entry it is committed from, and leaves the
\* browser on what it shows.
LEMMA CommitWrites ==
    ASSUME TypeOK, NEW nav \in Navs, NEW p \in DOMAIN entries, Commit(nav, p)
    PROVE  /\ entries' \in Seq(Paths) /\ pos' \in DOMAIN entries' /\ pos' \in {p, p + 1}
           /\ SubSeq(entries', 1, p - 1) = SubSeq(entries, 1, p - 1)
           /\ \/ UNCHANGED <<entries, location, lockedIndex>> /\ pos' = p
              \/ /\ location' = entries'[pos'] /\ location' \in Paths /\ location' # entries[p]
                 /\ lockedIndex' = IF blocked THEN pos' ELSE lockedIndex
<1>1. entries \in Seq(Paths) /\ p \in 1 .. Len(entries) /\ Len(entries) \in Nat /\ nav.to \in Paths
  BY LenProperties DEF TypeOK, Navs
<1>2. CASE entries[p] = nav.to
  BY <1>1, <1>2 DEF Commit
<1>3. CASE entries[p] # nav.to /\ nav.replace
  <2>1. /\ entries' = [entries EXCEPT ![p] = nav.to] /\ pos' = p /\ location' = nav.to
        /\ lockedIndex' = IF blocked THEN p ELSE lockedIndex
    BY <1>3 DEF Commit
  <2>2. /\ entries' \in Seq(Paths) /\ Len(entries') = Len(entries) /\ entries'[p] = nav.to
        /\ \A i \in 1 .. p - 1 : entries'[i] = entries[i]
    BY <1>1, <2>1, ExceptSeq
  <2>3. SubSeq(entries', 1, p - 1) = SubSeq(entries, 1, p - 1)
    BY <1>1, <2>2, SamePrefix
  <2>4. DOMAIN entries' = 1 .. Len(entries)
    BY <2>2, LenProperties
  <2> QED BY <1>1, <1>3, <2>1, <2>2, <2>3, <2>4
<1>4. CASE entries[p] # nav.to /\ ~nav.replace
  <2> DEFINE before == SubSeq(entries, 1, p)
  <2>1. /\ entries' = Append(before, nav.to) /\ pos' = p + 1 /\ location' = nav.to
        /\ lockedIndex' = IF blocked THEN p + 1 ELSE lockedIndex
    BY <1>4 DEF Commit
  <2>2. /\ before \in Seq(Paths) /\ Len(before) = p
        /\ \A i \in 1 .. p : before[i] = entries[i]
    <3>1. \A i \in 1 .. p : entries[i] \in Paths
      BY <1>1, ElementOfSeq
    <3> QED BY <1>1, <3>1, SubSeqProperties
  <2>3. /\ entries' \in Seq(Paths) /\ Len(entries') = p + 1
        /\ \A i \in 1 .. p : entries'[i] = entries[i]
        /\ entries'[p + 1] = nav.to
    <3> HIDE DEF before
    <3> QED BY <1>1, <2>1, <2>2, AppendProperties
  <2>4. SubSeq(entries', 1, p - 1) = SubSeq(entries, 1, p - 1)
    BY <1>1, <2>3, SamePrefix
  <2>5. DOMAIN entries' = 1 .. p + 1
    BY <2>3, LenProperties
  <2> QED BY <1>1, <1>4, <2>1, <2>3, <2>4, <2>5
<1> QED BY <1>2, <1>3, <1>4

\* What a step does to the router, and that only the click starts an upload.
Waits == UNCHANGED router
Goes == \E nav \in Navs : Navigate(nav)
Presses == \E delta \in {-1, 1} : Gesture(delta)

LEMMA RouterMoves ==
    ASSUME TypeOK, Step
    PROVE  \/ StartUpload
           \/ /\ Waits \/ Goes \/ Traverse \/ Presses \/ ReleaseLock
              /\ ~Starts /\ (locked' => locked)
<1>1. CASE Traverse \/ Presses \/ ReleaseLock
  BY <1>1 DEF Traverse, Presses, Gesture, ReleaseLock, upload, Starts
<1>2. CASE \E to \in Items \cup {New} : OpenPage(to)
  <2>1. PICK to \in Items \cup {New} : OpenPage(to)
    BY <1>2
  <2>2. Push(to) \in Navs
    BY NavigationsKnown
  <2> QED BY <2>1, <2>2 DEF OpenPage, Goes, upload, Starts
<1>3. CASE RedirectUnknown
  BY <1>3, NavigationsKnown DEF RedirectUnknown, Goes, upload, Starts
<1>4. CASE UploadSucceeds
  <2>1. Push(uploading) \in Navs
    BY <1>4, NavigationsKnown DEF UploadSucceeds, TypeOK
  <2>2. Waits \/ Goes
    BY <1>4, <2>1 DEF UploadSucceeds, Waits, Goes
  <2> QED BY <1>4, <2>2 DEF UploadSucceeds, Release, Starts
<1>5. CASE UploadFails
  BY <1>5 DEF UploadFails, Release, Waits, Starts
<1>6. CASE LoggedOut
  BY <1>6, NavigationsKnown DEF LoggedOut, Goes, upload, Starts
<1>7. CASE LogOut \/ SessionExpires \/ ServiceFails \/ Revalidate \/ Revalidated \/ Retry
  BY <1>7 DEF LogOut, SessionExpires, ServiceFails, Revalidate, Revalidated, Retry, Waits,
              upload, Starts
<1> QED BY <1>1, <1>2, <1>3, <1>4, <1>5, <1>6, <1>7 DEF Step, Presses

-----------------------------------------------------------------------------
(* Types                                                                   *)

RouterTypeOK ==
    /\ entries \in Seq(Paths) /\ pos \in DOMAIN entries
    /\ traversals \in Seq(Int)
    /\ location \in Paths
    /\ lockedIndex \in Nat /\ target \in Nat
    /\ queued \in {None} \cup Navs

UploadTypeOK ==
    /\ uploading \in {None} \cup Results /\ results \subseteq Results
    /\ locked = (uploading # None)

LEMMA CommitTypes ==
    ASSUME TypeOK, NEW nav \in Navs, NEW p \in DOMAIN entries, Commit(nav, p)
    PROVE  /\ entries' \in Seq(Paths) /\ pos' \in DOMAIN entries'
           /\ location' \in Paths /\ lockedIndex' \in Nat
<1>1. pos' \in Nat
  <2>1. DOMAIN entries' = 1 .. Len(entries') /\ Len(entries') \in Nat
    BY CommitWrites, LenProperties
  <2> QED BY <2>1, CommitWrites
<1> QED BY <1>1, CommitWrites DEF TypeOK

LEMMA RouterTypes == ASSUME TypeOK, Step PROVE RouterTypeOK'
<1> USE DEF TypeOK, RouterTypeOK
<1>1. CASE Waits
  BY <1>1 DEF Waits, router, Navs
<1>2. CASE Goes
  <2>1. PICK nav \in Navs : Navigate(nav)
    BY <1>2 DEF Goes
  <2>2. CASE Correcting
    BY <2>1, <2>2 DEF Navigate, Navs
  <2>3. CASE ~Correcting
    BY <2>1, <2>3, CommitTypes DEF Navigate, Navs
  <2> QED BY <2>2, <2>3
<1>3. CASE Traverse
  <2> DEFINE p == pos + Head(traversals)
  <2>1. Tail(traversals) \in Seq(Int) /\ p \in Int
    <3>1. Head(traversals) \in Int /\ Tail(traversals) \in Seq(Int)
      BY <1>3, HeadTailProperties DEF Traverse
    <3>2. DOMAIN entries = 1 .. Len(entries) /\ Len(entries) \in Nat
      BY LenProperties
    <3> QED BY <3>1, <3>2
  <2>2. CASE UNCHANGED <<entries, pos, location, blocked, lockedIndex, target, queued>>
             /\ traversals' = Tail(traversals)
    BY <2>1, <2>2 DEF Navs
  <2>3. CASE p \in DOMAIN entries /\ Arrived(p)
    <3>1. p \in Nat
      <4>1. DOMAIN entries = 1 .. Len(entries) /\ Len(entries) \in Nat
        BY LenProperties
      <4> QED BY <2>3, <4>1
    <3>2. entries[p] \in Paths
      BY <2>3, LenProperties, ElementOfSeq
    <3>3. CASE queued # None /\ Commit(queued, p)
      <4>1. queued \in Navs
        BY <3>3 DEF Navs
      <4> QED BY <2>1, <2>3, <3>3, <4>1, CommitTypes DEF Arrived
    <3>4. CASE queued = None /\ pos' = p /\ location' = (IF blocked THEN location ELSE entries[p])
               /\ lockedIndex' = (IF blocked THEN lockedIndex ELSE 0) /\ UNCHANGED entries
      BY <2>1, <2>3, <3>2, <3>4 DEF Arrived
    <3> QED BY <2>3, <3>3, <3>4 DEF Arrived
  <2>4. CASE p \in DOMAIN entries /\ Astray(p)
    <3>1. target' \in Nat /\ target' - p \in Int
      BY <2>1, <2>4 DEF Astray
    <3>2. traversals' \in Seq(Int)
      BY <2>1, <2>4, <3>1, AppendProperties DEF Astray, Steer
    <3> QED BY <2>4, <3>1, <3>2 DEF Astray, Navs
  <2>5. CASE p \in DOMAIN entries /\ Arrive(p)
    <3>1. entries[p] \in Paths
      BY <2>5, LenProperties, ElementOfSeq
    <3> QED BY <2>1, <2>5, <3>1 DEF Arrive, Navs
  <2> QED BY <1>3, <2>2, <2>3, <2>4, <2>5 DEF Traverse
<1>4. CASE Presses
  <2>1. PICK delta \in {-1, 1} : Gesture(delta)
    BY <1>4 DEF Presses
  <2>2. traversals' \in Seq(Int)
    BY <2>1, AppendProperties DEF Gesture
  <2> QED BY <2>1, <2>2 DEF Gesture, Navs
<1>5. CASE ReleaseLock
  BY <1>5 DEF ReleaseLock, Navs
<1>6. CASE StartUpload
  <2>1. pos \in Nat
    <3>1. DOMAIN entries = 1 .. Len(entries) /\ Len(entries) \in Nat
      BY LenProperties
    <3> QED BY <3>1
  <2> QED BY <1>6, <2>1 DEF StartUpload, Navs
<1> QED BY <1>1, <1>2, <1>3, <1>4, <1>5, <1>6, RouterMoves

LEMMA UploadTypes == ASSUME TypeOK, Step PROVE UploadTypeOK'
<1> USE DEF TypeOK, UploadTypeOK, upload
<1>1. CASE UNCHANGED upload
  BY <1>1
<1>2. CASE StartUpload
  BY <1>2, ResultsAssumption DEF StartUpload
<1>3. CASE UploadSucceeds \/ UploadFails
  BY <1>3 DEF UploadSucceeds, UploadFails, Release
<1> QED
  BY <1>1, <1>2, <1>3
  DEF Step, Traverse, Gesture, ReleaseLock, OpenPage, RedirectUnknown, LogOut, LoggedOut,
      SessionExpires, ServiceFails, Revalidate, Revalidated, Retry

LEMMA CheckTypes ==
    ASSUME TypeOK, Step PROVE reval' \in {"no", "wanted", "sent", "stale"}
BY DEF TypeOK, Step, Traverse, Gesture, ReleaseLock, OpenPage, RedirectUnknown, StartUpload,
       UploadSucceeds, UploadFails, Release, LogOut, LoggedOut, SessionExpires, ServiceFails,
       Revalidate, Revalidated, Retry, Stale, auth

LEMMA InitType == Init => TypeOK
<1> SUFFICES ASSUME Init PROVE TypeOK
  OBVIOUS
<1>1. Start \in Seq(Paths) /\ StartPos \in DOMAIN Start
  <2>1. {New} \cup Items \subseteq Paths
    BY DEF Paths
  <2> QED BY <2>1, StartAssumption, SeqMonotonic, LenProperties
<1>2. Start[StartPos] \in Paths
  BY <1>1, LenProperties, ElementOfSeq
<1>3. << >> \in Seq(Int)
  BY EmptySeq
<1> QED BY <1>1, <1>2, <1>3 DEF Init, TypeOK

LEMMA StepType == TypeOK /\ [Next]_vars => TypeOK'
<1>1. ASSUME TypeOK, Next PROVE TypeOK'
  <2>1. RouterTypeOK' /\ UploadTypeOK' /\ reval' \in {"no", "wanted", "sent", "stale"}
    BY <1>1, RouterTypes, UploadTypes, CheckTypes DEF Next
  <2>2. frozen' \in Paths
    BY <1>1, <2>1 DEF Next, Render, RouterTypeOK, TypeOK
  <2> QED BY <2>1, <2>2 DEF TypeOK, RouterTypeOK, UploadTypeOK, Navs
<1>2. ASSUME TypeOK, UNCHANGED vars PROVE TypeOK'
  BY <1>2 DEF vars, router, auth, upload, TypeOK
<1> QED BY <1>1, <1>2

\* The history, the router, the session and the upload keep their types, whatever
\* the visitor does and whatever is queued.
THEOREM NavigationTypeCorrect == Spec => []TypeOK
BY InitType, StepType, PTL DEF Spec

-----------------------------------------------------------------------------
(* What the router protects                                                *)

\* Home is the entry of the last navigation.
Homes == home' = IF location' # location \/ (Correcting /\ ~Correcting') THEN pos' ELSE home

LEMMA InitProtected == Init => Protected
BY DEF Init, Protected, Correcting

LEMMA GoesProtected ==
    ASSUME TypeOK, Protected, Goes, Homes, locked' => locked
    PROVE  Protected'
<1>1. PICK nav \in Navs : Navigate(nav)
  BY DEF Goes
<1>2. CASE Correcting
  BY <1>1, <1>2 DEF Navigate, Correcting, Protected, Homes
<1>3. CASE ~Correcting
  <2>1. Commit(nav, pos) /\ UNCHANGED <<traversals, blocked, target, queued>>
    BY <1>1, <1>3 DEF Navigate
  <2>2. location = entries[pos]
    BY <1>3 DEF Protected
  <2>3. pos \in DOMAIN entries
    BY DEF TypeOK
  <2>4. CASE UNCHANGED <<entries, location, lockedIndex>> /\ pos' = pos
    BY <1>3, <2>1, <2>4 DEF Protected, Correcting, Homes
  <2>5. CASE /\ location' = entries'[pos'] /\ location' # entries[pos] /\ pos' \in DOMAIN entries'
             /\ lockedIndex' = IF blocked THEN pos' ELSE lockedIndex
    BY <1>3, <2>1, <2>2, <2>5 DEF Protected, Correcting, Homes
  <2> QED BY <2>1, <2>3, <2>4, <2>5, CommitWrites
<1> QED BY <1>2, <1>3

LEMMA TraverseProtected ==
    ASSUME TypeOK, Protected, Traverse, Homes, locked' => locked
    PROVE  Protected'
<1> DEFINE p == pos + Head(traversals)
<1>1. CASE UNCHANGED <<entries, pos, location, blocked, lockedIndex, target, queued>>
  BY <1>1 DEF Protected, Correcting, Homes
<1>2. CASE p \in DOMAIN entries /\ Correcting /\ p = target /\ Arrived(p)
  <2>1. location = entries[p] /\ lockedIndex = p /\ ~Correcting' /\ UNCHANGED blocked
    BY <1>2 DEF Arrived, Protected, Correcting
  <2>2. home' = pos'
    BY <1>2, <2>1 DEF Homes
  <2>3. CASE queued # None /\ Commit(queued, p)
    <3>1. queued \in Navs
      BY <2>3 DEF TypeOK, Navs
    <3>2. CASE UNCHANGED <<entries, location, lockedIndex>> /\ pos' = p
      BY <1>2, <2>1, <2>2, <3>2 DEF Protected
    <3>3. CASE /\ location' = entries'[pos'] /\ pos' \in DOMAIN entries'
               /\ lockedIndex' = IF blocked THEN pos' ELSE lockedIndex
      BY <1>2, <2>1, <2>2, <3>3 DEF Protected
    <3> QED BY <1>2, <2>3, <3>1, <3>2, <3>3, CommitWrites
  <2>4. CASE /\ pos' = p /\ UNCHANGED entries
             /\ location' = IF blocked THEN location ELSE entries[p]
             /\ lockedIndex' = IF blocked THEN lockedIndex ELSE 0
    BY <1>2, <2>1, <2>2, <2>4 DEF Protected
  <2> QED BY <1>2, <2>3, <2>4 DEF Arrived
<1>3. CASE /\ p \in DOMAIN entries /\ Astray(p)
           /\ \/ Correcting /\ p # target
              \/ ~Correcting /\ blocked /\ lockedIndex \notin {0, p}
  <2>1. UNCHANGED <<entries, location, blocked, lockedIndex>> /\ target' = lockedIndex /\ Correcting'
    BY <1>3 DEF Astray, Correcting, Protected
  <2>2. home' = home
    BY <2>1 DEF Homes
  <2>3. lockedIndex \in DOMAIN entries /\ location = entries[lockedIndex] /\ home = lockedIndex
    BY <1>3 DEF Protected
  <2> QED BY <1>3, <2>1, <2>2, <2>3 DEF Protected, Traverse, upload
<1>4. CASE /\ p \in DOMAIN entries /\ ~Correcting /\ Arrive(p)
           /\ ~blocked \/ lockedIndex \in {0, p}
  <2>1. ~Correcting' /\ pos' = p /\ UNCHANGED <<entries, blocked, lockedIndex>>
    BY <1>4 DEF Arrive, Correcting
  <2>2. CASE ~blocked
    BY <1>4, <2>1, <2>2 DEF Arrive, Protected
  <2>3. CASE blocked
    <3>1. lockedIndex = p /\ lockedIndex # 0
      <4>1. DOMAIN entries = 1 .. Len(entries)
        BY LenProperties DEF TypeOK
      <4> QED BY <1>4, <2>3, <4>1 DEF Protected
    <3>2. location' = location
      BY <1>4, <2>3, <3>1 DEF Arrive
    <3> QED BY <1>4, <2>1, <2>3, <3>1, <3>2 DEF Protected, Homes
  <2> QED BY <2>2, <2>3
<1> QED BY <1>1, <1>2, <1>3, <1>4 DEF Traverse

LEMMA StepProtected == TypeOK /\ Protected /\ [Next]_vars => Protected'
<1> SUFFICES ASSUME TypeOK, Protected, [Next]_vars PROVE Protected'
  OBVIOUS
<1>1. CASE UNCHANGED vars
  BY <1>1 DEF vars, router, upload, Protected, Correcting
<1>2. CASE Step /\ Render /\ StartUpload
  <2>1. /\ UNCHANGED <<entries, pos, location, target>> /\ blocked' /\ uploading = None
        /\ lockedIndex' = IF Correcting THEN lockedIndex ELSE pos
    BY <1>2 DEF StartUpload
  <2>2. Starts
    BY <1>2, ResultsAssumption DEF StartUpload, Starts, TypeOK
  <2>3. home' = IF Correcting THEN home ELSE pos
    BY <1>2, <2>1, <2>2 DEF Render, Correcting
  <2>4. CASE Correcting
    BY <2>1, <2>3, <2>4 DEF Protected, Correcting
  <2>5. CASE ~Correcting
    <3>1. location = entries[pos] /\ pos \in DOMAIN entries
      BY <2>5 DEF Protected, TypeOK
    <3> QED BY <2>1, <2>3, <2>5, <3>1 DEF Protected, Correcting
  <2> QED BY <2>4, <2>5
<1>3. CASE Render /\ ~Starts /\ (locked' => locked) /\ (Waits \/ Goes \/ Traverse \/ Presses \/ ReleaseLock)
  <2>1. Homes
    BY <1>3 DEF Render, Homes
  <2>2. CASE Waits
    BY <1>3, <2>1, <2>2 DEF Waits, router, Protected, Correcting, Homes
  <2>3. CASE Presses
    BY <1>3, <2>1, <2>3 DEF Presses, Gesture, Protected, Correcting, Homes
  <2>4. CASE ReleaseLock
    BY <1>3, <2>1, <2>4 DEF ReleaseLock, upload, Protected, Correcting, Homes
  <2> QED BY <1>3, <2>1, <2>2, <2>3, <2>4, GoesProtected, TraverseProtected
<1> QED BY <1>1, <1>2, <1>3, RouterMoves DEF Next

-----------------------------------------------------------------------------
(* What is on screen                                                       *)

LEMMA InitOnScreen == Init => OnScreen
BY DEF Init, OnScreen

\* What an answer, or a failure, leaves to be checked (the effect that sees the lock
\* released, onServiceUnavailable).
LEMMA ChecksOutage ==
    ASSUME TypeOK, OnScreen, Step, ~locked', reval' = "no", unavailable'
    PROVE  checked'
<1> USE DEF TypeOK, OnScreen, auth, upload
<1>1. CASE UNCHANGED <<auth, upload>>
  BY <1>1
<1>2. CASE StartUpload
  BY <1>2 DEF StartUpload
<1>3. CASE UploadSucceeds \/ UploadFails
  BY <1>3 DEF UploadSucceeds, UploadFails, Release
<1>4. CASE LogOut \/ LoggedOut \/ SessionExpires
  BY <1>4 DEF LogOut, LoggedOut, SessionExpires, Stale
<1>5. CASE ServiceFails
  BY <1>5 DEF ServiceFails
<1>6. CASE Revalidate \/ Revalidated
  BY <1>6 DEF Revalidate, Revalidated
<1>7. CASE Retry
  <2>1. unavailable /\ ~locked /\ reval = "no"
    BY <1>7 DEF Retry, View, Shell
  <2> QED BY <1>7, <2>1 DEF Retry
<1> QED
  BY <1>1, <1>2, <1>3, <1>4, <1>5, <1>6, <1>7
  DEF Step, Traverse, Gesture, ReleaseLock, OpenPage, RedirectUnknown

LEMMA StepOnScreen == TypeOK /\ OnScreen /\ [Next]_vars => OnScreen'
<1> SUFFICES ASSUME TypeOK, OnScreen, [Next]_vars PROVE OnScreen'
  OBVIOUS
<1>1. CASE UNCHANGED vars
  BY <1>1 DEF vars, auth, upload, router, OnScreen
<1>2. CASE Next
  <2>1. frozen' = IF locked' THEN frozen ELSE location'
    BY <1>2 DEF Next, Render
  <2>2. ~locked' => frozen' = location'
    BY <2>1
  <2>3. locked' => alive' /\ frozen' = New
    <3> SUFFICES ASSUME locked' PROVE alive' /\ frozen' = New
      OBVIOUS
    <3>1. CASE StartUpload
      <4>1. uploading = None /\ uploading' # None /\ View = Shell(New)
        BY <3>1, ResultsAssumption DEF StartUpload, TypeOK
      <4>2. ~locked /\ location = New
        BY <4>1 DEF TypeOK, View, Shell
      <4> QED BY <1>2, <2>1, <4>1, <4>2 DEF OnScreen, Next, Render, Starts
    <3>2. CASE locked
      <4>1. frozen' = New /\ View' = Shell(New)
        BY <2>1, <3>2 DEF OnScreen, View
      <4>2. uploading' # None
        <5>1. UploadTypeOK'
          BY <1>2, UploadTypes DEF Next
        <5> QED BY <5>1 DEF UploadTypeOK
      <4> QED BY <1>2, <3>2, <4>1, <4>2 DEF OnScreen, Next, Render
    <3> QED BY <1>2, <3>1, <3>2, RouterMoves DEF Next
  <2>4. ~locked' /\ reval' = "no" /\ unavailable' => checked'
    BY <1>2, ChecksOutage DEF Next
  <2> QED BY <2>2, <2>3, <2>4 DEF OnScreen
<1> QED BY <1>1, <1>2

-----------------------------------------------------------------------------
(* Theorems                                                                *)

LEMMA Invariance == Spec => []Inv
<1>1. Init => Inv
  BY InitType, InitProtected, InitOnScreen DEF Inv
<1>2. Inv /\ [Next]_vars => Inv'
  BY StepType, StepProtected, StepOnScreen DEF Inv
<1> QED BY <1>1, <1>2, PTL DEF Spec

\* From the click to the answer the page of an upload stays mounted and on screen; an
\* outage takes over only when it was checked; and a page at rest is the one that the
\* address names (App.jsx, useRouter.js).
THEOREM UploadIsNotTakenOver == Spec => []TakeoversWait
<1>1. Inv => TakeoversWait
  <2> SUFFICES ASSUME Inv PROVE TakeoversWait
    OBVIOUS
  <2>1. UploadKeepsItsPage
    BY DEF Inv, OnScreen, UploadKeepsItsPage, View
  <2>2. NoStaleTakeover
    BY DEF Inv, OnScreen, NoStaleTakeover, View, Shell
  <2>3. AddressIsShown
    BY DEF Inv, Protected, AddressIsShown
  <2> QED BY <2>1, <2>2, <2>3 DEF Inv, TakeoversWait
<1> QED BY <1>1, Invariance, PTL

\* While the lock is held or the browser is being brought back, the history is written
\* only on the protected entry and after it: no navigation is committed from an entry
\* the browser passes through (navigate, commitNavigation).
THEOREM HistoryIsKept == Spec => CommitsAtHome
<1>1. Inv /\ [Next]_vars => [CommitsHome]_vars
  <2> SUFFICES ASSUME Inv, Next, entries' # entries, locked \/ Correcting
               PROVE  /\ SubSeq(entries', 1, home - 1) = SubSeq(entries, 1, home - 1)
                      /\ pos' \in {home, home + 1}
    BY DEF CommitsHome
  <2> USE DEF Inv
  <2>1. Step
    BY DEF Next
  <2>2. CASE Goes
    <3>1. PICK nav \in Navs : Navigate(nav)
      BY <2>2 DEF Goes
    <3>2. Commit(nav, pos) /\ ~Correcting
      BY <3>1 DEF Navigate
    <3>3. pos = home /\ pos \in DOMAIN entries
      BY <3>2 DEF Protected, TypeOK
    <3> QED BY <3>2, <3>3, CommitWrites
  <2>3. CASE Traverse
    <3>1. PICK p \in DOMAIN entries : Correcting /\ p = target /\ Arrived(p)
      BY <2>3 DEF Traverse, Astray, Arrive
    <3>2. p = home
      BY <3>1 DEF Protected
    <3>3. queued # None /\ Commit(queued, p)
      BY <3>1 DEF Arrived
    <3>4. queued \in Navs
      BY <3>3 DEF TypeOK, Navs
    <3> QED BY <3>2, <3>3, <3>4, CommitWrites
  <2>4. CASE Waits \/ Presses \/ ReleaseLock \/ StartUpload
    BY <2>4 DEF Waits, router, Presses, Gesture, ReleaseLock, StartUpload
  <2> QED BY <2>1, <2>2, <2>3, <2>4, RouterMoves
<1> QED BY <1>1, Invariance, PTL DEF CommitsAtHome, Spec
=============================================================================
