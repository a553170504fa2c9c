---------------------------- MODULE HistoryList ----------------------------
(***************************************************************************)
(* The list of investigations beside every page (AppShell.jsx) and the     *)
(* endpoint that serves it (api/analysis.py, get_analysis_history).        *)
(*                                                                         *)
(* Pages of the list are read from the database and arrive later, possibly *)
(* after a newer request; the open analysis page reports statuses it heard *)
(* from its stream and its checks; a cancelled analysis leaves the list.   *)
(* The list must not say something older than what was said before.        *)
(***************************************************************************)
EXTENDS Integers, Sequences

CONSTANTS
    None,
    N,             \* analyses 1 .. N, in the order of creation
    Limit,         \* items in a page of the list
    Starts,        \* the statuses to start from
    Visited,       \* bound: analyses whose pages the visitor opens
    MaxRequests    \* bound: requests for a page of the list


Analyses == 1 .. N
Statuses == {"none", "pending", "processing", "completed", "failed", "cancelled"}

\* What the constants must satisfy: analyses are created in the order of their ids.
HistoryAssumption ==
    /\ N \in Nat /\ Limit \in Nat \ {0} /\ MaxRequests \in Nat \ {0}
    /\ None \notin Statuses
    /\ \A s \in Starts : /\ s \in [Analyses -> Statuses]
                        /\ \A a, b \in Analyses : a < b /\ s[b] # "none" => s[a] # "none"

Terminal == {"completed", "failed"}
Beyond == N + 1     \* no cursor: newer than every analysis

VARIABLES
    status,        \* in the database, "none" before its creation
    list,          \* what is shown: ids and statuses, newest first
    cursor,        \* nextCursor, 0 for null
    live,          \* liveStatusRef
    cancelled,     \* cancelledIdsRef
    requests,      \* requests for a page, with the answer when it is served
    latest,        \* historyRequestRef
    loading, loadingMore, error,
    page           \* the analysis page: whose, what it reported and heard

client == <<list, cursor, live, cancelled, requests, latest, loading, loadingMore, error>>
vars == <<status, client, page>>

Request(n, more, from) == [n |-> n, append |-> more, cursor |-> from, answer |-> None]

NoPage == [of |-> 0, reported |-> None, heard |-> None]

Init == /\ status \in Starts
        /\ list = <<>> /\ cursor = 0
        /\ live = [a \in Analyses |-> None] /\ cancelled = {}
        /\ requests = {Request(1, FALSE, Beyond)} /\ latest = 1
        /\ loading = TRUE /\ loadingMore = FALSE /\ error = FALSE
        /\ page = NoPage

\* Numbers of 1 .. n in their order, ids of analyses from the newest, and the items
\* of s whose ids are among some, as they stand in s.
Sorted(numbers, n) ==
    CHOOSE f \in UNION {[1 .. k -> numbers] : k \in 0 .. n} :
      /\ \A i, j \in DOMAIN f : i < j => f[i] < f[j]
      /\ \A m \in numbers : \E i \in DOMAIN f : f[i] = m
Newest(ids) == LET f == Sorted(ids, N) IN [i \in 1 .. Len(f) |-> f[Len(f) + 1 - i]]
Among(s, ids) == LET f == Sorted({i \in DOMAIN s : s[i].id \in ids}, Len(s))
                 IN [k \in 1 .. Len(f) |-> s[f[k]]]

Listed == {list[i].id : i \in DOMAIN list}

Shown(a) == list[CHOOSE i \in DOMAIN list : list[i].id = a].status

\* Mutant: what is heard last counts.
MutReconcile(existing, incoming) == incoming

Reconcile(existing, incoming) ==
    IF existing \in Terminal \/ (existing = "processing" /\ incoming = "pending")
    THEN existing ELSE incoming

-----------------------------------------------------------------------------
\* The server.

Change(a, from, to) == /\ status[a] \in from
                       /\ status' = [status EXCEPT ![a] = to]
                       /\ UNCHANGED <<client, page>>

Create(a) == /\ \A b \in 1 .. a - 1 : status[b] # "none"
             /\ Change(a, {"none"}, "pending")

Work(a) == \/ Change(a, {"pending"}, "processing")
           \/ Change(a, {"processing"}, "pending")      \* recovery
           \/ Change(a, {"processing"}, "completed")
           \/ Change(a, {"pending", "processing"}, "failed")
           \/ Change(a, {"pending", "processing"}, "cancelled")

\* The analyses of the user that the query finds.
Older(from) == {a \in Analyses : status[a] \notin {"none", "cancelled"} /\ a < from}

\* Mutant: the cursor is the first row that was not sent.
MutPageAfter(from) ==
    LET rows == Newest(Older(from))
        size == IF Len(rows) > Limit THEN Limit ELSE Len(rows)
    IN [items |-> [i \in 1 .. size |-> [id |-> rows[i], status |-> status[rows[i]]]],
        next |-> IF Len(rows) > Limit THEN rows[size + 1] ELSE 0]

\* One page of them, and the cursor of the next.
PageAfter(from) ==
    LET rows == Newest(Older(from))
        size == IF Len(rows) > Limit THEN Limit ELSE Len(rows)
    IN [items |-> [i \in 1 .. size |-> [id |-> rows[i], status |-> status[rows[i]]]],
        next |-> IF Len(rows) > Limit THEN rows[size] ELSE 0]

Serve(r) == /\ r \in requests /\ r.answer = None
            /\ requests' = (requests \ {r}) \cup {[r EXCEPT !.answer = PageAfter(r.cursor)]}
            /\ UNCHANGED <<status, list, cursor, live, cancelled, latest, loading,
                           loadingMore, error, page>>

-----------------------------------------------------------------------------
\* loadHistory.

Begin(more, from) ==
    /\ latest < MaxRequests
    /\ latest' = latest + 1
    /\ requests' = requests \cup {Request(latest + 1, more, from)}
    /\ loading' = (loading \/ ~more)
    /\ loadingMore' = more
    /\ error' = FALSE

\* The event of an upload, and the button after an error.
Refresh == /\ Begin(FALSE, Beyond)
           /\ UNCHANGED <<status, list, cursor, live, cancelled, page>>

LoadMore == /\ cursor # 0 /\ ~loading /\ ~loadingMore
            /\ Begin(TRUE, cursor)
            /\ UNCHANGED <<status, list, cursor, live, cancelled, page>>

\* The status a page read anew shows for an item: not behind the list, nor
\* behind what the open page reported.
Refreshed(item) ==
    LET known == IF item.id \in Listed THEN Reconcile(Shown(item.id), item.status)
                                       ELSE item.status
    IN [item EXCEPT !.status = IF live[item.id] = None THEN known
                               ELSE Reconcile(live[item.id], known)]

Merged(r) ==
    IF r.append
    THEN list \o Among(r.answer.items, (Analyses \ cancelled) \ Listed)
    ELSE LET items == Among(r.answer.items, Analyses \ cancelled)
         IN [i \in DOMAIN items |-> Refreshed(items[i])]

Done(r) == loading' = FALSE /\ loadingMore' = FALSE

Receive(r) == /\ r \in requests /\ r.answer # None
              /\ requests' = requests \ {r}
              /\ \/ /\ r.n = latest
                    /\ list' = Merged(r)
                    /\ cursor' = r.answer.next
                    /\ Done(r)
                 \/ /\ r.n # latest
                    /\ UNCHANGED <<list, cursor, loading, loadingMore>>
              /\ UNCHANGED <<status, live, cancelled, latest, error, page>>

Fail(r) == /\ r \in requests
           /\ requests' = requests \ {r}
           /\ \/ r.n = latest /\ error' = TRUE /\ Done(r)
              \/ r.n # latest /\ UNCHANGED <<error, loading, loadingMore>>
           /\ UNCHANGED <<status, list, cursor, live, cancelled, latest, page>>

-----------------------------------------------------------------------------
\* The open analysis page and its callbacks.

Open(a) == /\ a \in Visited /\ status[a] # "none"
           /\ page.of # a
           /\ page' = [of |-> a, reported |-> None, heard |-> None]
           /\ UNCHANGED <<status, client>>

\* An answer or an event of the open page, that arrives later; several that
\* overtake each other are LivePage's subject.
Hear == /\ page.of # 0
        /\ page.reported \notin Terminal \cup {"cancelled"}
        /\ page' = [page EXCEPT !.heard = status[page.of]]
        /\ UNCHANGED <<status, client>>

\* reportStatus of the page: never pending after processing, nothing twice.
Tells(s) ==
    /\ page.of # 0 /\ s = page.heard
    /\ page.reported \notin Terminal \cup {"cancelled"}
    /\ s # page.reported /\ ~(page.reported = "processing" /\ s = "pending")
    /\ page' = [page EXCEPT !.reported = s, !.heard = None]

\* handleStatusChange.
Accept(a, s) ==
    LET accepted == IF a \in Listed THEN Reconcile(Shown(a), s) ELSE s IN
    /\ live' = [live EXCEPT ![a] = accepted]
    /\ list' = [i \in DOMAIN list |->
                  IF list[i].id = a THEN [list[i] EXCEPT !.status = accepted] ELSE list[i]]

StatusChanges == /\ \E s \in {"pending", "processing"} : Tells(s) /\ Accept(page.of, s)
                 /\ UNCHANGED <<status, cursor, cancelled, requests, latest, loading,
                                loadingMore, error>>

\* A result or a failure: handleStatusChange, then handleSettled.
Settles == /\ \E s \in Terminal : Tells(s) /\ Accept(page.of, s)
           /\ Begin(FALSE, Beyond)
           /\ UNCHANGED <<status, cursor, cancelled>>

\* handleCancelled, then handleSettled.
Cancels == /\ Tells("cancelled")
           /\ cancelled' = cancelled \cup {page.of}
           /\ live' = [live EXCEPT ![page.of] = None]
           /\ list' = Among(list, Analyses \ {page.of})
           /\ Begin(FALSE, Beyond)
           /\ UNCHANGED <<status, cursor>>

Next == \/ \E a \in Analyses : Create(a) \/ Work(a) \/ Open(a)
        \/ \E r \in requests : Serve(r) \/ Receive(r) \/ Fail(r)
        \/ Refresh \/ LoadMore
        \/ Hear \/ StatusChanges \/ Settles \/ Cancels

Spec == Init /\ [][Next]_vars

-----------------------------------------------------------------------------

TypeOK == /\ status \in [Analyses -> Statuses]
          /\ list \in Seq([id : Analyses, status : Statuses \ {"none", "cancelled"}])
          /\ cursor \in 0 .. N /\ latest \in 1 .. MaxRequests
          /\ live \in [Analyses -> Statuses \cup {None}]
          /\ cancelled \subseteq Analyses
          /\ page.of \in 0 .. N

\* An analysis that was cancelled before this tab's eyes does not come back,
\* although a page of the list read before may arrive after (handleCancelled,
\* loadHistory).
CancelledStaysAway == Listed \cap cancelled = {}

\* The list shows every analysis once and newest first, and leaves none out
\* between the newest shown and the cursor of the next page, whatever was
\* created, cancelled or requested meanwhile (get_analysis_history, loadHistory).
ListIsWhole ==
    /\ \A i, j \in DOMAIN list : i < j => list[i].id > list[j].id
    /\ list # <<>> =>
          \A a \in Analyses :
             a \in cursor .. Head(list).id /\ status[a] \notin {"none", "cancelled"}
                => a \in Listed

\* An analysis that is shown as ended is shown so as long as it is listed: a
\* report that the page heard before and makes after loses (reconcileStatus).
EndSurvives ==
    \A a \in Listed \cap Listed' : Shown(a) \in Terminal => Shown(a)' = Shown(a)

\* One that the open page reported as ended is never shown as running: a page
\* of the list that was read before is overtaken (handleSettled, loadHistory).
EndIsKnown == \A a \in Listed : live[a] \in Terminal => Shown(a) = live[a]

\* The list does not show "pending" for an analysis that the open page reported
\* as processing (reconcileStatus: the one rule, shared by every path).
ShownNotBehindLive == \A a \in Listed : live[a] = "processing" => Shown(a) # "pending"

\* An indicator of loading is lit only while the request that puts it out is
\* under way, although a request may be overtaken by one of the other kind
\* (loadHistory).
LoadingIsUnderWay == loading \/ loadingMore => \E r \in requests : r.n = latest
=============================================================================
