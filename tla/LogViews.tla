------------------------------- MODULE LogViews -------------------------------
(***************************************************************************)
(* Reading back page by page: the audit window and the task timeline of    *)
(* the browser (web/app.js) with the queries that serve them, and the      *)
(* pages of reports and acknowledgements of a snapshot (services.py).  A   *)
(* page is asked for, read by the server in one transaction and shown when *)
(* the answer arrives; the log grows and is purged in between.             *)
(***************************************************************************)
EXTENDS EventLog

CONSTANTS Fetches,     \* requests for a page that may be under way at a time
          ViewSize,    \* limit; AUDIT_PAGE_SIZE in the browser
          MaxReports   \* bound: reports, or acknowledgements

ASSUME ViewsAssumption == ViewSize \in Nat \ {0} /\ MaxReports \in Nat

VARIABLES view,      \* what is looked at
          window,    \* what is shown, and which of the two buttons is enabled
          fetch,
          reports,   \* work_reports or event_acknowledgements, by the order
                     \* of their columns, created_at first
          reported   \* how many there were

viewVars == <<log, view, window, fetch, reports, reported>>

\* An audit window shows one page; the others keep all that they have read.
Views == {"audit", "timeline", "reports", "acks"}
Snapshot == {"reports", "acks"}
Closed == [shown |-> {}, older |-> FALSE, newer |-> FALSE, asOf |-> 0]
NoFetch == [stage |-> "idle", want |-> "tail", edge |-> 0, live |-> FALSE,
            page |-> {}, older |-> FALSE, newer |-> FALSE, asOf |-> 0]

ViewsTypeOK ==
    /\ LogTypeOK
    /\ view \in Views
    /\ window \in [shown : SUBSET Nat, older : BOOLEAN, newer : BOOLEAN, asOf : Nat]
    /\ fetch \in [Fetches -> [stage : {"idle", "probe", "asked", "answered"},
                              want : {"tail", "older", "newer", "refresh"},
                              edge : Nat, live : BOOLEAN, page : SUBSET Nat,
                              older : BOOLEAN, newer : BOOLEAN, asOf : Nat]]
    /\ reported \in 0..MaxReports /\ reports \subseteq 1..reported

ViewsInit ==
    /\ LogInit
    /\ view \in Views
    /\ window = Closed
    /\ fetch = [f \in Fetches |-> NoFetch]
    /\ reports = {} /\ reported = 0

\* The rows a view is about: those of a snapshot, or the events that its filter
\* or its task selects.
Matching == IF view \in Snapshot THEN reports ELSE Numbers(Messages)

Above(n) == {m \in Matching : m > n}
Below(n) == {m \in Matching : m < n}
Lowest(rows) == {m \in rows : Cardinality({k \in rows : k < m}) < ViewSize}
Highest(rows) == {m \in rows : Cardinality({k \in rows : k > m}) < ViewSize}

-------------------------------------------------------------------------------
(* The writers. *)

Write(kind) ==
    /\ Emit(events, kind, None, 0)
    /\ UNCHANGED <<view, window, fetch, reports, reported>>

\* Acknowledgements go with their events; reports stay.
Expire(c) ==
    /\ Purge(c)
    /\ IF view = "acks" THEN \E gone \in SUBSET reports : reports' = reports \ gone
                       ELSE UNCHANGED reports
    /\ UNCHANGED <<view, window, fetch, reported>>

Report ==
    /\ view \in Snapshot
    /\ reported < MaxReports
    /\ reported' = reported + 1
    /\ reports' = reports \cup {reported'}
    /\ UNCHANGED <<log, view, window, fetch>>

-------------------------------------------------------------------------------
(* The queries.  want = "tail" is the newest page; otherwise edge bounds it. *)

\* Fault: an earlier page begins at the oldest row, as a later one does.
OldestBelow(n) == Lowest(Below(n))

Earlier(n) == Highest(Below(n))
Later(n) == Lowest(Above(n))

\* query_audit; has_older does not look below a forward page's own bound.
AuditAnswer(want, edge) ==
    LET forward == want \in {"newer", "refresh"}
        page == IF forward THEN Later(edge) ELSE Earlier(edge)
    IN [page |-> page,
        older |-> ~forward /\ page # {} /\ Below(Min(page)) # {},
        newer |-> page # {} /\ Above(Max(page)) # {}]

\* list_task_history
TimelineAnswer(want, edge) ==
    LET page == CASE want = "newer" -> Later(edge)
                  [] want = "older" -> Earlier(edge)
                  [] OTHER -> Highest(Matching)
    IN [page |-> page,
        older |-> page # {} /\ Min(page) > 1 /\ Cardinality(Matching) > Cardinality(page),
        newer |-> page # {} /\ Max(page) < Max(Matching)]

\* _fetch_tied_page, _fetch_ack_page: both flags are probed at the page's rows.
ReportsAnswer(want, edge) ==
    LET page == CASE want = "newer" -> Later(edge)
                  [] want = "older" -> Earlier(edge)
                  [] OTHER -> Highest(Matching)
    IN [page |-> page,
        older |-> page # {} /\ Below(Min(page)) # {},
        newer |-> page # {} /\ Above(Max(page)) # {}]

Answer(want, edge) ==
    CASE view = "audit" -> AuditAnswer(want, edge)
      [] view = "timeline" -> TimelineAnswer(want, edge)
      [] view \in Snapshot -> ReportsAnswer(want, edge)

\* COALESCE(MAX(project_seq), 0); in a snapshot, the rows there were
LatestSeen == IF view \in Snapshot THEN reported ELSE Latest

-------------------------------------------------------------------------------
(* Asking. *)

Ask(f, want, stage, edge) ==
    /\ fetch[f].stage = "idle"
    /\ fetch' = [fetch EXCEPT ![f] =
         [NoFetch EXCEPT !.stage = stage, !.want = want, !.edge = edge, !.live = ~window.newer]]
    /\ UNCHANGED <<log, view, window, reports, reported>>

\* The first page; the audit window asks for the newest number first.
Open(f) ==
    /\ view = "audit" => window.shown = {}
    /\ Ask(f, "tail", IF view = "audit" THEN "probe" ELSE "asked", 0)

\* fetchAuditTail: the page below the newest number.
Probe(f) ==
    /\ fetch[f].stage = "probe"
    /\ fetch' = [fetch EXCEPT ![f].stage = "asked", ![f].edge = LatestSeen + 1]
    /\ UNCHANGED <<log, view, window, reports, reported>>

LoadOlder(f) ==
    /\ window.older /\ window.shown # {}
    /\ Ask(f, "older", "asked", Min(window.shown))

\* The snapshot's high-water cursor may be polled when nothing is said to follow.
LoadNewer(f) ==
    /\ window.newer \/ view \in Snapshot
    /\ window.shown # {}
    /\ Ask(f, "newer", "asked", Max(window.shown))

\* refreshManagement reads on from the right edge.
Refresh(f) ==
    /\ view = "audit" /\ window.shown # {}
    /\ Ask(f, "refresh", "asked", Max(window.shown))

\* The server's read transaction.
Read(f) ==
    LET answer == Answer(fetch[f].want, fetch[f].edge) IN
    /\ fetch[f].stage = "asked"
    /\ fetch' = [fetch EXCEPT ![f] =
         [@ EXCEPT !.stage = "answered", !.page = answer.page, !.older = answer.older,
                   !.newer = answer.newer, !.asOf = LatestSeen]]
    /\ UNCHANGED <<log, view, window, reports, reported>>

-------------------------------------------------------------------------------
(* Showing. *)

\* resetAuditPages, loadOlderAuditEvents, loadNewerAuditEvents: an empty page
\* disables the button and leaves the window.
AuditPage(q) ==
    CASE q.want = "tail" ->
           [shown |-> q.page, older |-> q.older, newer |-> q.newer, asOf |-> q.asOf]
      [] q.want = "older" /\ q.page # {} ->
           [shown |-> q.page, older |-> q.older, newer |-> TRUE, asOf |-> q.asOf]
      [] q.want = "newer" /\ q.page # {} ->
           [shown |-> q.page, older |-> TRUE, newer |-> q.newer, asOf |-> q.asOf]
      [] q.want = "older" /\ q.page = {} -> [window EXCEPT !.older = FALSE]
      [] q.want = "newer" /\ q.page = {} -> [window EXCEPT !.newer = FALSE, !.asOf = q.asOf]

\* refreshManagement: a window that was at the live tail when the refresh began
\* slides on; another one stays, and the newer button tells.
AuditRefresh(q) ==
    LET merged == window.shown \cup q.page IN
    IF q.page # {} /\ q.live
    THEN [shown |-> Highest(merged),
          older |-> window.older \/ Cardinality(merged) > ViewSize,
          newer |-> FALSE, asOf |-> q.asOf]
    ELSE [window EXCEPT !.newer = q.page # {} \/ @, !.asOf = q.asOf]

\* loadTaskHistory: what is beyond the other edge is taken to be there.
TimelinePage(q) ==
    [shown |-> IF q.want = "tail" THEN q.page ELSE window.shown \cup q.page,
     older |-> IF q.want = "newer" THEN TRUE ELSE q.older,
     newer |-> IF q.want = "older" THEN TRUE ELSE q.newer,
     asOf |-> q.asOf]

\* A reader that follows page_info: "next" is there when has_more is, "before"
\* always.
ReportsPage(q) ==
    [shown |-> IF q.want = "tail" THEN q.page ELSE window.shown \cup q.page,
     older |-> IF q.want = "newer" THEN window.older ELSE q.older,
     newer |-> IF q.want = "older" THEN window.newer ELSE q.newer,
     asOf |-> IF q.want = "older" THEN window.asOf ELSE q.asOf]

Show(f) ==
    LET q == fetch[f] IN
    /\ q.stage = "answered"
    /\ window' = CASE view = "audit" /\ q.want # "refresh" -> AuditPage(q)
                   [] view = "audit" /\ q.want = "refresh" -> AuditRefresh(q)
                   [] view = "timeline" -> TimelinePage(q)
                   [] view \in Snapshot -> ReportsPage(q)
    /\ fetch' = [fetch EXCEPT ![f] = NoFetch]
    /\ UNCHANGED <<log, view, reports, reported>>

\* The request fails: what is shown stays.
Lose(f) ==
    /\ fetch[f].stage # "idle"
    /\ fetch' = [fetch EXCEPT ![f] = NoFetch]
    /\ UNCHANGED <<log, view, window, reports, reported>>

ViewsNext ==
    \/ \E kind \in {"message", "notice"} : Write(kind)
    \/ \E c \in 1..(MaxEvents + 1) : Expire(c)
    \/ Report
    \/ \E f \in Fetches :
          \/ Open(f) \/ Probe(f) \/ LoadOlder(f) \/ LoadNewer(f) \/ Refresh(f)
          \/ Read(f) \/ Show(f) \/ Lose(f)

ViewsSpec == ViewsInit /\ [][ViewsNext]_viewVars

-------------------------------------------------------------------------------
(* Properties. *)

Whole ==
    \A m \in Matching : Min(window.shown) <= m /\ m <= Max(window.shown) => m \in window.shown

OldestTold == ~window.older => Below(Min(window.shown)) = {}

NewestTold == ~window.newer => \A m \in Above(Max(window.shown)) : m > window.asOf

\* Pages join up: what is shown has no hole, and a button that is disabled means
\* that the log has nothing further that way (as of the answer, for newer rows),
\* whatever is appended and purged between the pages; a report page never
\* promises older rows that are not there.  The newer button of the audit window
\* is excepted: a refresh at the live tail disables it although the page it got
\* may not have been the last one (AuditRefresh).
PagesJoin ==
    window.shown # {} =>
        /\ Whole
        /\ OldestTold
        /\ view # "audit" => NewestTold
        /\ view = "reports" /\ window.older => Below(Min(window.shown)) # {}
===============================================================================
