------------------------------- MODULE RoomSync -------------------------------
(***************************************************************************)
(* room_sync: what a session is shown of the event log and how far its     *)
(* last_read_cursor moves, with messages, acknowledgements and retention   *)
(* going on meanwhile.  A sync selects the events and the newest number in *)
(* a read transaction and stores the cursor in a write transaction of its  *)
(* own; several syncs of one session may be under way at a time.           *)
(***************************************************************************)
EXTENDS EventLog

CONSTANTS Requests,       \* syncs that may be under way at a time
          MessageLimit,   \* mcp_message_limit
          SnapshotReads   \* the selects of a read transaction see one state: TRUE
                          \* on SQLite (BEGIN), FALSE on PostgreSQL, whose default
                          \* isolation level is READ COMMITTED

ASSUME SyncAssumption ==
    /\ MessageLimit \in Nat \ {0}
    /\ SnapshotReads \in BOOLEAN

VARIABLES readCursor,  \* agent_sessions.last_read_cursor; 0 before join_room
          acks,        \* event_acknowledgements: <<number, session>>
          request,
          joinedAt,    \* history: the number of the session's agent.joined
          told         \* history: the messages that answers to a session have
                       \* shown, or left out as older than a full page

vars == <<events, nextValue, readCursor, acks, request, joinedAt, told>>
members == <<readCursor, acks, joinedAt, told>>

Idle ==
    [stage |-> "idle", sess |-> None, mode |-> "page", after |-> 0, base |-> 0,
     shown |-> {}, cursor |-> 0]

Stages == {"idle", "selected", "read"}
Modes == {"page", "context", "inject"}
RequestTypes ==
    [stage : Stages, sess : Sessions \cup {None}, mode : Modes, after : Nat, base : Nat,
     shown : SUBSET Nat, cursor : Nat]

TypeOK ==
    /\ LogTypeOK
    /\ readCursor \in [Sessions -> Nat]
    /\ acks \subseteq Nat \X Sessions
    /\ request \in [Requests -> RequestTypes]
    /\ joinedAt \in [Sessions -> Nat]
    /\ told \in [Sessions -> SUBSET Nat]

Init ==
    /\ LogInit
    /\ readCursor = [s \in Sessions |-> 0]
    /\ acks = {}
    /\ request = [r \in Requests |-> Idle]
    /\ joinedAt = [s \in Sessions |-> 0]
    /\ told = [s \in Sessions |-> {}]

Joined(s) == readCursor[s] # 0

-------------------------------------------------------------------------------
(* The writers of the log. *)

\* join_room: the session starts to read at its own arrival.
JoinRoom(s) ==
    /\ ~Joined(s)
    /\ Emit(events, "notice", None, 0)
    /\ readCursor' = [readCursor EXCEPT ![s] = NextNumber(events)]
    /\ joinedAt' = [joinedAt EXCEPT ![s] = NextNumber(events)]
    /\ UNCHANGED <<acks, request, told>>

PostMessage ==
    /\ Emit(events, "message", None, 0)
    /\ UNCHANGED <<members, request>>

\* Fault: the result of the insertion is not looked at.
AcknowledgeAgain(s, n) ==
    /\ Joined(s)
    /\ n \in Numbers(Messages)
    /\ acks' = acks \cup {<<n, s>>}
    /\ Emit(events, "acknowledged", s, n)
    /\ UNCHANGED <<readCursor, request, joinedAt, told>>

\* A repeated acknowledgement writes nothing.
Acknowledge(s, n) ==
    /\ Joined(s)
    /\ n \in Numbers(Messages)
    /\ <<n, s>> \notin acks
    /\ acks' = acks \cup {<<n, s>>}
    /\ Emit(events, "acknowledged", s, n)
    /\ UNCHANGED <<readCursor, request, joinedAt, told>>

\* The acknowledgements of an event are removed with it (ON DELETE CASCADE).
Retain(c) ==
    /\ Purge(c)
    /\ acks' = {a \in acks : a[1] >= c}
    /\ UNCHANGED <<readCursor, request, joinedAt, told>>

-------------------------------------------------------------------------------
(* One sync. *)

\* Where the messages that are shown begin: an MCP call without cursor goes on
\* where the session has read to.
EffectiveAfter(s, mode, after) ==
    IF mode = "context" /\ after = 0 THEN readCursor[s] ELSE after

\* Fault: the read transaction selects the oldest messages.
OldestAfter(n) ==
    {e \in Messages :
        /\ e.seq > n
        /\ Cardinality({f \in Messages : n < f.seq /\ f.seq < e.seq}) < MessageLimit}

\* ORDER BY project_seq DESC LIMIT MessageLimit, restricted to messages
NewestAfter(n) ==
    {e \in Messages :
        /\ e.seq > n
        /\ Cardinality({f \in Messages : f.seq > e.seq}) < MessageLimit}

ShownAfter(mode, n) == IF mode = "page" THEN PageAfter(n) ELSE NewestAfter(n)

\* The first select.  after = 0 stands for an omitted cursor; otherwise it is
\* one that an earlier answer gave the session, or an older one.
SelectEvents(r, s, mode, after) ==
    LET base == EffectiveAfter(s, mode, after) IN
    /\ request[r].stage = "idle"
    /\ Joined(s)
    /\ after <= readCursor[s]
    /\ mode = "inject" => after = 0
    /\ request' = [request EXCEPT ![r] =
         [stage |-> "selected", sess |-> s, mode |-> mode, after |-> after, base |-> base,
          shown |-> Numbers(ShownAfter(mode, base)),
          cursor |-> Latest]]
    /\ UNCHANGED <<log, members>>

\* Fault: the cursor of a page is the newest number, as that of a context.
NewestCursor(r, latest) == latest

\* The cursor of the answer: the last event of a page, the newest number of the
\* log for messages; never beyond the log.
AnswerCursor(r, latest) ==
    LET last == IF request[r].shown = {} THEN request[r].after ELSE Max(request[r].shown)
    IN  IF request[r].mode # "page" THEN latest
        ELSE IF last <= latest THEN last ELSE latest

\* The second select, of the newest number.
SelectLatest(r) ==
    LET latest == IF SnapshotReads THEN request[r].cursor ELSE Latest IN
    /\ request[r].stage = "selected"
    /\ request' = [request EXCEPT ![r].stage = "read",
                                  ![r].cursor = AnswerCursor(r, latest)]
    /\ UNCHANGED <<log, members>>

\* The messages an answer shows, or leaves out as older than a full page.
Covered(q) ==
    {e.seq : e \in {m \in Messages :
        \/ m.seq \in q.shown
        \/ /\ q.mode # "page"
           /\ q.base < m.seq
           /\ Cardinality(q.shown) = MessageLimit
           /\ \A n \in q.shown : m.seq < n}}

Advanced(stored, read) == IF read > stored THEN read ELSE stored

\* The write transaction: last_read_cursor is never moved back.
StoreCursor(r) ==
    LET q == request[r] IN
    /\ q.stage = "read"
    /\ readCursor' = [readCursor EXCEPT ![q.sess] = Advanced(@, q.cursor)]
    /\ told' = [told EXCEPT ![q.sess] = @ \cup Covered(q)]
    /\ request' = [request EXCEPT ![r] = Idle]
    /\ UNCHANGED <<log, acks, joinedAt>>

\* The session has left meanwhile, its token has expired or the process died:
\* the second transaction does not happen.
Abandon(r) ==
    /\ request[r].stage # "idle"
    /\ request' = [request EXCEPT ![r] = Idle]
    /\ UNCHANGED <<log, members>>

Next ==
    \/ PostMessage
    \/ \E s \in Sessions : JoinRoom(s)
    \/ \E s \in Sessions, n \in 1..MaxEvents : Acknowledge(s, n)
    \/ \E c \in 1..(MaxEvents + 1) : Retain(c)
    \/ \E r \in Requests, s \in Sessions, mode \in Modes, after \in 0..MaxEvents :
          SelectEvents(r, s, mode, after)
    \/ \E r \in Requests : SelectLatest(r) \/ StoreCursor(r) \/ Abandon(r)

Spec == Init /\ [][Next]_vars

-------------------------------------------------------------------------------
(* Properties. *)

\* An event that is appended is new to everybody: its number is beyond every
\* stored cursor and every cursor under way, and was never used, however much
\* retention has removed.
NewEventsAhead ==
    [][\A e \in events' \ events :
          /\ \A s \in Sessions : readCursor[s] < e.seq
          /\ \A r \in Requests : request[r].cursor < e.seq
          /\ \A f \in events : f.seq < e.seq
          /\ \A a \in acks : a[1] < e.seq]_vars

\* A sync that read earlier and writes later than another one of its session
\* does not set the session back.
ReadCursorMonotone == [][\A s \in Sessions : readCursor[s] <= readCursor'[s]]_vars

\* A message that an answer leaves out, although it is newer than where the
\* session was and not beyond the cursor of the answer, is older than a full
\* page of newer ones; an answer of the page mode leaves nothing out.
AnswersComplete ==
    \A r \in Requests : \A m \in Messages :
        /\ request[r].stage = "read"
        /\ request[r].base < m.seq
        /\ m.seq <= request[r].cursor
        => m.seq \in Covered(request[r])

\* The read cursor does not run ahead of the reader: whatever came since the
\* session joined and lies behind its cursor has been shown to it, or was left
\* out of a full page.  Syncs may overlap, fail half way and repeat.
ReadIsTold ==
    \A s \in Sessions : \A m \in Messages :
        joinedAt[s] < m.seq /\ m.seq <= readCursor[s] => m.seq \in told[s]

\* A session acknowledges a message once: one event at most tells of it, and
\* an acknowledgement that is recorded has its message and its event.
AcknowledgedOnce ==
    LET Tells(e, n, s) == e.kind = "acknowledged" /\ e.by = s /\ e.of = n IN
    /\ \A e, f \in events :
          Tells(e, f.of, f.by) /\ f.kind = "acknowledged" => e = f
    /\ \A a \in acks :
          /\ a[1] \in Numbers(Messages)
          /\ \E e \in events : Tells(e, a[1], a[2])
===============================================================================
