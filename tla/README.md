# AgentChatRoom in TLA+

AgentChatRoom coordinates software agents (and the people that manage them)
that work on one source tree. A server keeps the shared state of each Project
in SQLite or PostgreSQL; agents join the Project's Room over MCP or REST and
claim tasks, lease files, report, review and integrate work, and hand it over.
This directory holds a model of that shared state and of the threads, requests
and files around it, checked with TLC, and proofs about it, checked with TLAPS.

## The system and its parts

| Part (source) | State | Operations | What is hard |
|---|---|---|---|
| Task contract (`contracts.py`) | none | legacy transition table, faces of a status, phase of the faces | four columns written by nine handlers have to stay consistent |
| Task lifecycle (`services.py` 4881-5732, 6466-6831, 7146-7605) | `tasks`, `task_dependencies`, `work_reports`, `reviews`, `task_integrations` | create, claim, reclaim/takeover, release, update, cancel, report, review, integrate | the owner changes while answers and reports are under way; independence of a review; cycles |
| Delegation (`services.py` 5735-6463) | `task_assignments`, `task_handoffs` | assign, answer, request handoff, answer | an answer arrives long after the request, on a task that moved on |
| File leases (`services.py` 6834-7143, 3571-3675) | `file_leases` | acquire, take over, reuse, refuse, renew, release, expire | two writers, clocks, dead clients, leases moved by a reclaim |
| Agent sessions (`services.py` 3173-3414, 3571-3675, 893-926) | `agent_sessions` | join, heartbeat, leave | a session may die without leaving; several sessions share one identity |
| Idempotent writes (`services.py` 317-345, 553-577, 657-740; `database.py` 1115-1146) | `idempotency_records` | every mutating call with a request id, retention | crashes, lost replies, retries, duplicates, misuse of an id |
| Event log and room sync (`services.py` 776-997, 3684-4456, 9656) | `events`, number sequences, cursors, acknowledgements | emit, sync, acknowledge, retention | numbers after deletion, cursors, retention |
| History queries and their readers (`services.py` 3799-4013, 8492-8873; `task_history.py`; `web/app.js` 1030-1086, 2197-2278, 3925-4034) | what a window shows, and its two buttons | open, page back, page on, refresh | the log grows and is purged between two pages |
| Event stream (`api.py` 775-837, 1798-1872) | slots taken by Project and address, a generator per client | connect, stream, disconnect, resume | a stream ends in three ways; a lost connection |
| Project registration (`services.py` 1660-2200, `project_registration.py`, `bootstrap.py`) | `projects`, a registration file in every checkout, the git remotes | resolve, create, heal, match, archive, restore, delete | a scope is read from disk before the transaction that relies on it; copies of a checkout |
| Members and credentials (`services.py` 1253-1333, 2300-3160, 3171-3440; `http_identity.py`, `bootstrap.py`) | `project_members`, `agent_credentials` | create, activate, suspend, revoke, issue, permit, rotate, purge, link, join, HTTP bootstrap | authentication and join are two transactions |
| Task intakes (`services.py` 4459-4880) | `task_intakes` | submit, reassign, answer, define | answers to a request that was reassigned |
| Knowledge assets (`services.py` 7607-8330) | assets, versions, reviews | submit, review, supersede, archive | several authors, independence, verification of the source task |
| Project documents (`services.py` 9331-9600) | documents and heads | upsert, archive, hand out with a claim, name in a receipt | documents change while a task is in work |
| Backup and restore (`backup.py`, `services.py` 8962-9330) | the database file, snapshots and manifests | create, prune, delete, restore | writes go on; a step fails half way |
| Credential touch buffer (`services.py` 184-272) | a dictionary and a timer thread | note, flush, close | a failed flush meets new uses |
| MCP HTTP sessions (`mcp_http_adoption.py`, `mcp_server.py`, `api.py`) | transports, bindings, tombstones, adoptions | initialise, reap, adopt, bootstrap, leave | awaits inside a request, a second thread, duplicates of a request |
| Presence (`presence.py`) | registered sessions, the keepalive thread | register, pass, drop, stop | the thread works on a copy |
| REST, MCP server, bridge, CLI, GUI, web, configuration | adapters | parse and forward | little state of their own |

How they interact: the adapters authenticate a caller and call one method of
`AgentChatRoomService`. Such a method opens one write transaction
(`database.connect(write=True)`: `BEGIN IMMEDIATE` on SQLite, an advisory lock
on PostgreSQL), reads the rows it needs, checks its guards, writes and appends
events. Calls of other threads and processes interleave between transactions
only; this is why one handler is one action. Calls of one method inside another
join the open transaction. Where a request is more than its transaction
(reading git and files, authenticating, asking a client for its roots, copying
the database, paging), it is a process with a program counter, and each of its
transactions or critical sections is an action. A session's identity is its
member: two conversations of one agent are two sessions of one member, and
takeover, review independence and lease conflicts are decided by member.

## Modules

| Module | What it models |
|---|---|
| `Absence` | `None`, which several modules share |
| `TaskContract` | `contracts.py`: statuses, transitions, `TaskStateForLegacyStatus`, `TaskPhase` |
| `RoomState` | the rows of one Project, the type invariant, the queries the handlers share |
| `SessionOps` | `join_room`, `leave_session`, `heartbeat`; a dying client; the clock |
| `TaskOps` | the task handlers |
| `DelegationOps` | assignments and handoffs |
| `LeaseOps` | `acquire_lease` and `release_lease` |
| `TaskRoom` | the composition: `Init`, `Next`, fairness, the properties |
| `TaskRoomProofs` | type correctness; leases; the inductive invariant of the task rows and what follows; changes asked for; dependencies have no cycle |
| `ExactlyOnce` | the promise of a request id: one effect, remembered in the same step |
| `IdempotentWrite`, `IdempotentWriteProofs` | the transaction around every mutating method, step by step; that it implements `ExactlyOnce` |
| `EventLog` | the numbered events of one Project: append, purge, the pages that readers select |
| `RoomSync`, `RoomSyncProofs` | `room_sync` over the log, `post_message`, `acknowledge_event`, retention |
| `LogViews` | the audit window, the task timeline and the pages of reports and acknowledgements over the log |
| `EventStream` | the event stream of the REST adapter over the log: slots, generator, response, clients |
| `LogReaderProofs` | the theorems of `EventStream` and `LogViews` |
| `Registry`, `RegistryProofs` | which Room a checkout belongs to |
| `Members` | members, credentials, joins and intakes |
| `Knowledge` | knowledge assets, project documents, and of the tasks what these read |
| `RecordsProofs` | the theorems of `Members` and `Knowledge` |
| `Archive`, `ArchiveProofs` | backups, restore and the touch buffer around one database file |
| `Transport`, `TransportProofs` | MCP HTTP transports, their bindings and the keepalive thread |
| `MCTaskRoom`, `MCEdgesLapse`, `MCIdempotent`, `MCSync`, `MCStream`, `MCRegistry`, `MCMembers`, `MCArchive`, `MCTransport` | instances for TLC |

`TaskRoom` composes the task handlers, delegation, leases and sessions over
`RoomState`. `RoomSync`, `LogViews` and `EventStream` extend `EventLog`. `MCSync` puts
`RoomSync` and `LogViews` over one log, `MCMembers` puts `Members` and
`Knowledge` into one Room; since the parts of each share no variable that both
write but the log, a behaviour of theirs chooses a part (`part`) and stays with
it, which gives the sum of the states and not the product.

### State

`sess[s]` is "absent" (not joined), "open", "dead" or "left". A dead session is
one whose client is gone or whose token expired: its row stays, with `left_at`
NULL, but `_authenticate` lets it do nothing again. `latest[m]` is the session
a member joined with last, which a member-directed assignment is addressed to.
`task[t]` has the columns `status`, `execution_status`, `verification_status`,
`integration_status` and `owner_session_id` (`exec`, `verif`, `integ`,
`owner`), and, from the tables of evidence, the identity of the last reporter
and of the reviewer who answered it. `deps[t]` is the dependency set. A row of
`lease` is an unreleased row of `file_leases`, `left` the ticks until
`expires_at`; a released row is a free one. A row of `handoff` and
`assignment` is a pending one: an answered or cancelled row is never read by a
guard except to repeat its answer, which changes nothing.

`rooms[k]` is a row of `projects` (status, root directory, normalized origin),
`registration[d]` the file `.agentchatroom/project.json` of a directory with the
key and the scope it was written for, `remoteOf[d]` the origin of a work tree on
disk. `sessions` are pairs of a Room and a directory: a workspace and the
sessions in it; `named` is a history variable, the pairs that came from a caller
who named a directory that nothing checks. `Unchecked` bounds the directories
named so. In `Members`, `member[m]` is the status column, `cred[c]` the state of
a credential, the member it is linked to and its permission to join,
`session[s]` the member and the credential of a session, `intake[i]` the status,
the target and the session that answered. In `Knowledge`, `asset[a]` and
`versions[a]` are the head and the numbered versions, `head[d]` the version and
kind of a document, `claims[t]` the binding documents named by the
`task.claimed` events of a task in their order, `receipt[t]` those named by its
last report; `handedOut` is a history variable.

In `Archive` the log is a sequence (`events.id` is AUTOINCREMENT and its
sequence is part of the file, so a restore takes numbers back), `backup[b]` a
snapshot with its manifest, `op` the holder of `_backup_restore_lock` and how
far it got, `pending` and `inflight` the buffer before and during a flush. In
`Transport`, `binding`, `tombstone` and `adopted` are the three tables of the
server, `bookmark[c]` the `mcp-session-id` a client sends, `linked[c]` the
identity its credential is linked to, `presence[s]` the transport key registered
with the keepalive, `tick` the thread's pass. A request remembers the software
key its header states (`key`), a session the one it was created under. In
`LogViews`, `window` is what is shown with its two buttons, `fetch[f]` a page
that was asked for, read by the server and not yet shown.

### Actions

An action is a handler with all it writes: `AcceptAssignment` is
`acknowledge_task_assignment` with "accepted", `CancelTask` is `update_task`
with `_cancel_task_resources_locked`, `ReleaseByUpdate` is `update_task` with
status todo on a task in work, which runs `_release_task_locked` first and then
writes the other fields. Calls that only return (a repeated claim, a repeated
release, a repeated answer) are stuttering steps. `submit_work_report` reads
the task, asks git and then checks the same conditions again in the transaction
that writes; the first look has no effect that the second does not repeat, so
`WorkReport` is the second. A reclaim is refused while the owner looks
connected and a takeover is not; both do the same to the rows and are open to
the same callers, so `ReclaimTask` covers both and presence guards nothing.
`None` as an actor is a caller with a management credential.

`EventLog` has the rows of `events` as a set of numbered records and the row of
`event_number_sequences` as `nextValue`; an action that appends is a conjunction
with `Emit`. `Purge(c)` removes what is older than the cutoff: `created_at` is
taken in the write transaction that gives out the number, so the expired events
come first as long as the server's clock is not set back. In `RoomSync` one call
of `room_sync` is three steps, because others write between them: `SelectEvents`
and `SelectLatest` are the two selects of its read transaction, `StoreCursor` its
write transaction, which may never come (`Abandon`). A request remembers what it
read. `mode` tells the three callers apart: REST ("page"), MCP `room_sync`
("context") and `room_bootstrap` ("inject"). `SnapshotReads` is the database: on
SQLite the two selects see one state, on PostgreSQL they need not. `told` and
`joinedAt` are history variables. The heartbeat that a sync also is is an action
of `SessionOps`.

A page of `LogViews` is `Ask` (or `Open`, `LoadOlder`, `LoadNewer`, `Refresh`), `Read`,
the server's read transaction, and `Show`; `Lose` is the request that fails. `view`
says who reads: the audit window shows one page and slides, the others keep
what they have read. Report and acknowledgement pages are those of a snapshot;
their rows are ordered by their own columns. A change of the filter or of the
Room, which starts the window anew, is left out, and so are pages of one window
that overlap.

In `EventStream` a connection is reserved by `SSELimiter.acquire`, opened when
the response asks the generator for its first piece, and ended in two places:
`Disconnect` is the end of the generator with its `finally`, `EndResponse` the
`finally` of the response wrapper, which also ends a connection whose generator
never started. `Fetch` and `Yield` are the loop, `wire` what the network has not
delivered. The client (external) is one that asks for what follows the event it
received last, in the query or in `Last-Event-ID`.

In `IdempotentWrite` the actions are the steps of one call, because the
question is what a failure between two of them leaves: `Begin` or `TimeOut`,
`Replay` or `Insert`, `Run`, `RunRefused` or `Fail`, `StoreResponse`, `Finish`,
`Return`. `tx` is what the open transaction sees, `db` what is committed;
`Commit` and `Rollback` end it. A call without id (`Named` is false) runs the
method in a transaction of its own. The method is reduced to the one event it
appends, the response to its number. `Crash` is the death of the process that
runs the call; of several processes on one database each may die alone.

In `Registry` a call reads the disk (`JoinStart`, `ManageCreate`, `ReadProbe`,
`MatchStart`,
`SelectStart`), runs `Resolve` and, when nobody owns the scope, `Create`, writes the
registration file (`Register`) and opens its session (`Enter`). `ReadOwner` and
`ReadHeal` are the two later transactions of `get_project`, a read that turns a path
Room into a git Room. `RemoteAdd` and `CopyCheckout` are the user. Left out: the
AGENTS.md block, an origin that is removed or changed, several logical paths for
one directory, case folding of paths, the probe cache (it only skips a probe); a
git probe that fails is one that found no origin. `register_workspace` and
`join_room` are one step.

What a call registers is not always what it checked. `room_join` judges its
`project_path` and registers its `worktree` when it is given one
(`mcp_server.py:1297`): `Enter` takes the directory of the call or, in a join, any of
`Unchecked`. A remote `room_join` and `POST /projects/{id}/workspaces` register
any path: `RegisterWorkspace`. Both rows are read by `match_registered_projects`
(`Matching`) as any other.

In `Members` a remote join is `JoinStart` and `Join`, a bootstrap over HTTP `Verify`,
`Bootstrap` and `Join`, or `RestoreBinding` when its transport still holds a session.
"invited" is kept as "suspended" (neither active nor revoked), "declined" stands
for "blocked" too. Of the permissions of a credential only `room:join` decides
something that is modelled. Left out: the renewal of a live credential, names
that a credential is given automatically, the check of a client name against
the configured one, Rooms from before managed sessions, and which session a
pending intake hints at (any session of the member may answer). A restored
binding is not checked for its software key, which allows more than the code.
In `Knowledge` a task is what assets and receipts read of it; integration is
merged into "approved", the last writer of a document wins, and an assignment,
a handoff or a reclaim gives a task to somebody who has claimed nothing.

In `Archive` a backup is `Snapshot` (the page copy), `Publish` (rename and manifest),
`WriteCursor`, `TellCreated` and `FinishBackup` with the pruning; a restore is
`RestoreCheck`, `RestoreCopy`, `TellStarted` and `TellCompleted`, or `RestoreFails`; from the
check to the copy the file is held exclusively. `Crash` is the end of the
process. A Project's audit event is one event of one log; removing a file and
writing its audit event are one step. Left out: a mismatch of schemas, the
offline restore of the command line, PostgreSQL's dump and restore.

In `Transport` a request on a reaped transport is `Open` (the surrogate's
handshake), then `Adopt` or `OpenFails`; the replay that follows is a later
request at the surrogate. `BootstrapStart` and `BootstrapEnd` are
`room_bootstrap` before and after it waits for the client's roots. A request has
two names: the credential, which opens transports, and the software key it
states in a header, any of `Headers[c]`. An adoption compares the session with
the stated key and asks the credential nothing (`KeyMatches`); `BootstrapEnd`
compares the stated key with the credential's (`Mismatch`), takes the
credential's when there is one (`Identity`) and links a credential that has
none. Between the roots and its return the tool does not await, so that join and
linking are one step here; `Members` has their transactions apart. A key stands
for software key, member name and client together. `TickStart`, `TickCheck` and
`TickDrop` are a pass of the keepalive thread. `Restart` loses every table,
`clean` says whether the keepalive could close its sessions. The SDK (external)
rejects a live transport of another credential. Left out: the sizes and ages
that bound the tables, requests parked during a handshake, the body limit,
stdio, sessions closed over REST.

Left out everywhere: texts, priorities, progress and evidence contents, and the
events that handlers append and no modelled handler reads back. In `TaskRoom`
also the guards on revoked members: a revoked member's sessions go on acting in
the code as well (`_authenticate` looks at the session only).

## Runs

Every cfg names its bounds. Deadlock is checked where the system cannot stop and
the bounds do not stop it (`idempotent`); elsewhere a Room that every session has left is
idle, or a bound on events, versions or calls is reached, and the cfg says so.

| Run | Checks | Bounds |
|---|---|---|
| `workflow` | `LegacyFacesAgree`, `OwnedWhileAnswered`, `IndependentApproval`, `DoneIsFinal`, `NoSilentTakeover`, `ChangesRequestedRemembered` | 3 sessions, 1 task, its handoff, 1 pending assignment; the rows of different tasks meet only in dependencies, leases and identities |
| `leases` | `LeaseExclusion`, `LeaseHolderPresent` | 3 sessions, 2 leases, 1 pattern, shared and exclusive, one tick to live; one client may die |
| `edges_lapse` | `Acyclic`, `DeadLeasesLapse` | 3 tasks, 1 session: cycles of length two and three; or 3 sessions, 1 task, 1 lease, two ticks to live |
| `idempotent` | `AnswersAreTrue`, `NoStuckRequest`, `ExactlyOnceKept`, `LockReturns`, `RequestsEnd` | 2 callers, 1 id or none, 2 inputs, 2 events: duplicates, a retry after retention and misuse of an id |
| `sync` | `GapsExplained`, `AnswersComplete`, `ReadIsTold`, `PagesJoin`, `NewEventsAhead` | 1 session, 2 overlapping syncs, 5 events, pages of one; or one window, one page under way, pages of two, 3 reports or acknowledgements |
| `stream` | `WithinLimits`, `SlotsReturn`, `ReceivedInOrder`, `StreamDelivers` | 3 clients at 2 addresses, 2 streams a Project, 1 an address, 3 events, pages of two |
| `registry` | `OneActiveRoomPerRepository`, `StrangersWereNamed`, `RegistrationsLeadHome`, `PinnedJoinsStay` | 2 Rooms, 2 work trees, 1 remote; 2 overlapping calls and no unchecked directory, or 1 call and both directories named unchecked at any time |
| `members` | `OneIdentityPerCredential`, `AnsweredByTheTarget`, `OutsidersStayOut`, `ApprovedIndependently`, `ReceiptWasHandedOut` | 2 members with one name, 2 credentials, 2 sessions, 2 joins under way; 1 intake; or 1 asset, 1 document, 1 task, two versions, edits and claims |
| `archive` | `FreshBackupRestores`, `OnlyEarlierWritesDropped`, `UsesAreRecorded` | 2 backups, 1 kept, 1 write, 3 events, 1 credential used twice, 1 failed flush, 1 crash |
| `transport` | `AdoptionResumes`, `KeepaliveStops` | 2 clients that state a key each, 3 requests (two of one client), 3 transports, 1 session |
| `identity` | `BoundToStatedIdentity`, `BootstrapActsAsLinked` | 2 clients, one of which states either key or none, 3 requests, 2 transports, 2 sessions |
| `silent_loss` | `NoSilentLoss`, violated | `archive` with 2 writes, 4 events and no crash |

In `workflow`, `leases` and `edges_lapse` identity `mA` has the sessions `sA1`
and `sA2` (a conversation and its successor), identity `mB` has `sB`: the
smallest set in which same-identity takeover, independence of review and
conflict between identities all occur. `LeaseExclusion` and the rest of `leases`
concern two rows at a time, so two leases suffice; a third session is needed for
a takeover inside one identity while the other one asks. `edges_lapse` asks two
questions of few rows: no guard on an edge looks at a lease, nor the other way
round, so that a behaviour of `MCEdgesLapse` has edges or leases and not both;
delegation, which touches neither, is left out. `SYMMETRY` is used over values
that no definition tells apart, and in runs without liveness properties but for
`edges_lapse`, where it permutes tasks: whoever has a lease there has one task,
the same for good, and where tasks are permuted there is no lease that could
lapse.

`sync` has one session because cursors and acknowledgements of different
sessions never meet; two syncs are what read-then-write needs to go wrong. A
page of one event makes every second message overflow it, and five events are
one to join, two messages, an acknowledgement or a purge, and one that follows.
The arrival of a session and notices fill the log as any other event would. A
window of two rows needs a third to have something beyond an edge, and a purge
and a further event to move the edges.
`stream` needs three clients for a Project limit that is not an address limit.
Two callers suffice for `idempotent`: the write lock admits one at a time, and
whatever several others do in between, they do between two steps of one. One
id suffices: records of different ids never meet.

`registry` has two Rooms and two checkouts because its properties compare two
Rooms or a Room and a checkout; a third Room of a scope would make ambiguous
what two already make so. Directories that are named without a check
multiply the states: a behaviour of `MCRegistry` has two calls and none of them, or
one call, beside which registrations go on. Logical paths inside a work tree are left to the
proofs, which hold for any. `members` has two identities of one name because
only then an identity may be refused; what a credential has opened is compared
pairwise, and two joins are what authentication before joining needs to go
wrong. Its three parts are the sum explained in `MCMembers`. `archive` needs a
second backup to prune the first, and a third event for the one that makes a
backup stale. `transport` needs two requests of one client that adopt one bookmark
and a client of another identity; a bookmark that is adopted twice takes three
transports, and with one session a resumed one is told from a lost one. `identity` needs an
adoption (two transports) and a held session that a bootstrap does not restore
but replaces (two sessions); both its credentials begin without an identity, so
that either order of linking and adopting occurs.

### Fairness

`FairSpec` of `TaskRoom` adds `WF_vars(Tick)`, that time passes. No caller is obliged
to act. `DeadLeasesLapse` holds because a heartbeat renews by session, not by
identity. `FairSpec` of `IdempotentWrite` adds `WF_vars(Step(c))`: a thread that
executes a request goes on with it, and waits for the lock no longer than
`busy_timeout`. It is not obliged to get the lock, nor the client to retry.
PostgreSQL waits for its advisory lock without a timeout; there `RequestsEnd`
would need a fair queue of the server. `FairSpec` of `EventStream` adds that the
generator's loop goes on and that the network delivers what was sent, for a
client that stays connected; no client is obliged to connect, nor anybody to
append, and a disconnection is never fair. `FairSpec` of `Archive` adds that the
buffer's thread wakes up after its interval and takes what is there, that its
write, which SQLite lets wait for a lock that comes free again and again,
happens in the end (strong fairness: a restore may hold the file in between),
and that a restore which holds the file ends. `FairSpec` of `Transport` adds that the
keepalive thread goes on with its passes; clients, reaping and restarts are
never fair.

### Where code and documentation disagree

`silent_loss` is the one run that shows a sentence of the repository failing;
PROJECT.json quotes it. Its trace: the pages are copied, a Room writes, the manifest
gets a cursor that covers the write, the restore finds nothing stale and
replaces the file. The disagreements below were seen while modelling and have
no run.

Tasks, leases and events:

- Cancelling a *blocked* task is named `task.unblocked`, so the cleanup that hangs
  on `task.cancelled` is skipped, and leases, assignments and the handoff stay
  (`services.py:6791`, against `services.py:5342` and README:532). A cancelled task moves
  back to todo by `task_update` (`contracts.py:35`), although README:504 calls the state
  final.
- Accepting an assignment claims a task with unfinished dependencies
  (`services.py:6071`, against README:497).
- Two assigners, or two roles, and one target give two pending assignments
  (`services.py:5871`, against README:530).
- Any update of a task whose integration failed resets the failure to pending
  (`services.py:6588`).
- A lease request with a request id that is refused rolls back its
  `lease.conflict` event and answers with the number of that event
  (`services.py:7003`, against README:517; over MCP every call has an id).
- `acquire_lease` takes the conflicting lease of a connected session of the same
  identity (`services.py:6916`, against README:521). A report releases the leases of
  the reporting session, not those that another session took for the task
  before it was claimed (`services.py:7273`, README:499).
- A reclaim is refused while the owner looks connected (`services.py:5157`), a
  takeover by the same callers is not, so presence never decides who owns a task.
- On PostgreSQL (READ COMMITTED) a message committed between the two selects of
  an MCP sync is behind the cursor of the answer, and not in it (`services.py:3779`,
  `postgres_database.py:181`). `SnapshotReads = FALSE` is this case; the run `sync` checks
  TRUE. The theorems `AnswersAlwaysComplete` and `ReadIsAlwaysTold` assume TRUE, the
  other theorems of `RoomSync` hold on either database; among them is that the page mode
  loses nothing (`PagesAlwaysComplete`), because its cursor is that of its last row.

Windows of the browser and pages:

- The browser resumes its stream at the cursor of its newest snapshot, which is
  ahead of the events it has received (`app.js:1290`), so that events appended while
  the connection was lost are missing from its list.
- A refresh of the audit window at the live tail says that nothing is newer
  although the page it read (limit five) may say the opposite (`app.js:2267`, against
  the comment at `app.js:2228`). Fetches of one window are not kept apart: a refresh
  that began at the tail and is shown after an older page was loaded leaves a
  hole, against `app.js:2275`.
- `list_task_history` derives "more before" from the total number of rows and
  may promise an earlier page that does not exist, which the pages of a snapshot
  never do (README:582).

Registration:

- A checkout that is registered to an *archived* Room joins the active Room of its
  scope when that Room is what a heal leaves (`services.py:1797`); two archived Rooms
  of one scope cannot be restored by a join; a selected Project and `join_room` are
  never checked for being archived; when the create step fails after its
  transaction, a Room without a registration stays; a subdirectory without
  origin gets a new Room at every create (`project_registration.py:337`).
- The `worktree` of a `room_join` (`mcp_server.py:1297`) and the `workspace_path` of a
  remote one (`mcp_server.py:1260`) are registered without a look at their scope,
  although the `project_path` beside them is checked. Such a row decides later
  matches (`bootstrap.py:189`), so that a bootstrap over HTTP in that directory is led to
  the Room it was named for, whatever repository it holds. `StrangersWereNamed`
  therefore excepts the pairs in `named`.

Members, intakes, knowledge:

- Two bootstraps that state different identities on one fresh credential: the
  second becomes, without a word, a session of the first one's member.
- README:685 says that an expired token can be extended; the code refuses. Rotation
  does not look at the member's status. The sessions of a revoked member go on
  acting.
- `TASK_INTAKE_TRANSITIONS` (`contracts.py:230`) forbids what `reassign_intake` does (accepted
  to pending), and nothing ever sets "cancelled".
- A task's detail shows the latest claim snapshot that is *not empty*
  (`services.py:1584`), the receipt of its report the latest one (README:713,
  `tests/test_project_documents.py:79`). The verification of a source task may be lost
  after its asset was approved, and a receipt may be that of an earlier owner's
  claim, or empty after retention.

Backups and transports:

- After a restore, event ids are given out again, so that a stale backup may
  look fresh. `close()` does not wait for the flush thread, and the daemon thread
  dies with the process: the uses it was writing are lost. Pruning from the
  settings takes no lock; it can delete a finished backup only.
- An adoption compares the session of a bookmark with the software key in the
  header of the request (`mcp_http_adoption.py:282`) and never with the credential
  the surrogate is opened under; the comparison of the two
  (`mcp_server.py:379`) is `room_bootstrap`'s. A client whose header is not its
  credential's is bound by an adoption to the session of the key it states, until it
  bootstraps. The docstring at `mcp_server.py:508` says that an adoption never moves a
  session to another identity; it holds of the stated one, and
  `BoundToStatedIdentity` says no more than that.
- A tombstone is removed neither by an adoption nor by a leave: a transport's
  state may read "gone" while its client is connected, and a bookmark that is
  adopted again may resume a session that was left. An adopted session keeps its
  old transport in the keepalive until it is dropped and registered again, and
  a drop by session id may remove the newer registration. Two requests with one
  stale bookmark open two surrogates.

## Proofs

The theorems hold for any sets of sessions, members, tasks, leases, paths,
Rooms, directories, credentials, assets and so on, under the named assumptions
of the modules. For `RoomState`: every session has a member, `None` is none of
the names, overlap of patterns is symmetric, a lease lives at least one tick.
For `Registry`: a work tree is its own root and a logical path names one
directory of it (`CheckoutAssumption`); `Unchecked` is any set of directories.
For `Transport`: `Headers` and `Issued` are any functions of the clients
(`IdentityAssumption`). The others only keep `None` apart and give bounds their
types.

`TaskRoomProofs` proves `Spec => []TypeOK` action by action; an updated row is typed
because `TaskStateForLegacyStatus` returns a triple of the three domains.

The leases come next. `LeaseExclusion` and `LeaseHolderPresent` are inductive
together. Every handler but `acquire_lease` does one of three things to a row: keep
it, give it back, or move it to another session of the *same identity*, and never
revive it (`LeaseCarried`). Such a step keeps both
invariants whatever it does otherwise (`CarriedKeeps`), so that each handler is
looked at once, for what it carries; the reclaim of `claim_task`, which inherits
leases, is one of them because `MayReclaim` compares identities. The new lease of
`acquire_lease` is compared with all leases in force in the transaction that
writes it, and a lapsed one counts for nothing there: `heartbeat` renews only what
has not lapsed, and that guard is what keeps a stale row from conflicting again.

`WorkflowInvariant` carries the invariants of the run `workflow`. Each of them
speaks of one row, so the inductive invariant is `RowInv` of every row, and a
step is looked at only for the row it writes. `RowInv` strengthens the
invariants by two facts. `RowReported`: a task that awaits review was reported
by the identity of its *present* owner. Without it `submit_review`, which
compares the reviewer with the owner and never looks at the report, would not
give `IndependentApproval`; it holds because no handler moves a task that
awaits review, which is exactly where `Transferable`, `MayReclaim` and
`Acceptable` matter. And an uninserted row is the null row. `StatusWrite` keeps
`FacesAgree` because the table never lets an approved task return to work
(`ApprovedStaysClosed`): otherwise the approval that
`task_state_for_legacy_status` carries over would leave a triple without phase.
`DoneIsFinal`, `NoSilentTakeover` and `ChangesRequestedRemembered` are action
properties proved from the same invariant, one case per group of actions.

`Acyclic` comes last in that module. The recursive query is modelled without
recursion: b is reached from a iff b is in every set closed under edges that
holds the edges of a. `RewireKeepsAcyclic` is the graph argument: let R be what
the new edges reach; t is not in R and R is closed. A set of tasks that meets R
has a task without edges into the part in R, and those edges did not change; a
set that misses R has t, whose new edges lead to R, or only tasks with
unchanged edges. `create_task` does not ask the query; it needs none, since no
edge leads to a task that does not exist (`EdgesCreated`).

`IdempotentWriteProofs` proves that `IdempotentWrite` implements `ExactlyOnce`
(`ExactlyOnceAlwaysKept`): committed events are the history, committed records
the memory. `Finish` is `Perform` or `PerformUnnamed`, `RaiseRefusal` of a call
without id is `Refuse`, `Retain` is `Forget`, every other step stutters, and
`StagedBy` is why: it says what the open transaction has written at each stage,
so that what `Finish` commits is known to be one event and the record that
names it. The inductive invariant `IInv` adds that the lock belongs to the
caller in a transaction (`LockHeld`) and that a committed record names its
effect (`RecordsTrue`), from which `AnswersAreTrue` and `NoStuckRequest`
follow for the replay. A step of one caller is the business of that caller's
part of `IInv` only: `OutsideStep`, `InsideStep` and `EndStep` carry the others.

`RoomSyncProofs` proves the safety of `RoomSync`: besides the properties of the
run `sync` that a read cursor never goes back (`ReadCursorMonotone`) and that an
acknowledgement is told once (`AcknowledgedOnce`), which have no run. What
carries them is `nextValue`: every event, cursor and acknowledgement is below it
(`Numbered`, `CursorsGiven`), and it is one more than the newest event, because
a purge removes old events and appends one, so that `MAX(project_seq)` never
falls although rows vanish. `NewEventsAhead` is then the number that `Emit`
gives out. `GapsExplained` is inductive by itself with these facts: the purge
that opens a gap is the newest event afterwards. `MaxOfNumbers`, that a finite
set of events has a greatest number, is the only fact about `Max`; it is proved
from the well-foundedness of the natural numbers.

What an answer shows is a second invariant over the first
(`CompletenessInvariant`). A page is defined by rank: a row belongs to it if
fewer than a limit of rows lie further along. For `AnswersComplete` a message
that is not shown has to be older than a full page; that the rows above it fill
the page is the counting lemma about ranks. Afterwards events are only added
above the cursor and purged anywhere, so that a complete answer stays complete.
`ReadIsTold` is what the write transaction adds: the stored cursor only grows,
so the `base` that a sync began from is not ahead of it when the answer is
stored (`RequestHeld`), and what lies between the two was told by the syncs that
overlapped. Both assume `SnapshotReads`.

`LogReaderProofs` is about the readers that hold no transaction while the log
changes. Slots: `WithinLimits` and `SlotsReturn` for any number of clients. The
invariant says that a slot is held exactly while its stream is reserved or open
(`HeldWhileStreaming`) and that the counters count the slots held (`Counted`); the
second end of a stream finds `released` and changes nothing, and `OneLess` never
meets zero.

Order: for `ReceivedInOrder` the numbers on their way to a client are laid out as
received, then on the wire, then the generator's cursor, then its page
(`Sorted`), and an event of the log between what was received and the page is on the
wire (`NothingSkipped`). A purge takes events away only, and a new event gets a number
above everything in this layout (`Given`, `Quiet`), because numbers of deleted events are
not given again. When the connection is lost the client resumes at what it
received, not at what the generator had sent; that is the step at which
the layout would break.

Windows: a window holds a stretch of the log without holes, and its two flags
tell the truth about its ends (`WindowJoins`). An answer in flight is a stretch that
begins at the edge it was asked for (`Asked`, `Answered`), a claim about the rows
that were there when it was read; what was appended since is beyond `asOf`, and
a purged row leaves no hole. So the answer joins at the edge, provided that the edge is
still where it was. `PagesAlwaysJoin` says so by its hypothesis `OneAtATime`, which is the
run's instance too. The browser does not ensure it, and without it the property is false
(see above): the theorem holds for a user who waits for a page before
asking for another.

`RegistryProofs` proves the properties of `registry`, nested paths, any number
of calls and any set of unchecked directories included. `RegistryInv` says what
a call has in hand at each of its steps (`CallKnows`): it may be stale, but a
heal concerns a Room that exists and the root it has for good.
`OneActiveRoomPerRepository` is then inductive, because each step that makes a
Room active or gives it a scope (`Resolve`, `Create`, `ReadHeal`) looks at the
owners of that very scope in the same transaction. For `StrangersWereNamed` the
invariant `SharedInv` adds that the origin of a Room is the one on disk at its
root (`RoomsTrue`) and that a Room a call is about to enter fits its directory,
or was matched through a pair in `named` (`CallTrue`); `Steady` lists what no
step takes back (a root, an origin once there is one), and `FitsStays` is why
what was judged at one moment still holds at a later one. It is here that an
origin which the user *changed* would break the property.

`RegistrationsLeadHome` is the other half: what an unchecked row leads astray, the
registration file does not follow. `HomeInv` says that the scope in a registration
is the one its Room's root has on disk, or had before it got its origin; it is
carried from the call, which knows the scope of the Room it was given
(`GivenByRoom`), through the check in `Register` (`FittingIsHome`): a directory without
the scope of its Room gets no registration, however the Room was found.

`RecordsProofs` proves the properties of `members`. `OneIdentityPerCredential`
needs only that sessions and calls know issued credentials
(`SessionsWellFormed`, `CallsWellFormed`): a session that refers to a credential
keeps it from being purged and issued anew, and the join reads the link again in
the transaction that inserts the session. For `ApprovedIndependently` and
`JudgedOnce`, `VerdictsKnown` says that every verdict names an existing version
and that a candidate's version has none yet; every road back to candidate
appends a version. `ReceiptInv` says that every claim event in the log was
handed out, which retention, purging from the front, keeps.

`ArchiveProofs` proves `FreshBackupRestores` and `OnlyEarlierWritesDropped`. A cursor is a
number, and what it says of a log is that it speaks for a *prefix* of it (`Speaks`): as
long as no restore has taken numbers back, the first `covers` events of the log are
those that were there when the cursor was read, none of them later than
`until`. Appending keeps a prefix; a restore marks every manifest as `rewound`, until its
cursor is read again. `HolderInv` says what the holder of the lock knows between its steps:
after the check nothing follows the prefix, or the user consented, and the
exclusive lock keeps it so until the copy, since no other step writes. The
theorems say what a cursor is good for; they do not say that the *file*
holds what the cursor covers. It need not, which is the run `silent_loss`.

`TransportProofs` proves `BoundToStatedIdentity`, `BootstrapActsAsLinked` and
`AdoptionResumes`, for any headers and any identities the credentials were issued for. The
owner of a transport, the key of a session and the identity of a credential are
fixed once given, so a binding can be wrong only if it is made to a name before
its row is (`BindingsCreated`), or if somebody else binds a transport that an
adoption in flight has opened. `SurrogatePrivate` excludes the second: until the
adoption is finished, its surrogate is in nobody's bookmark and no other request's
hands. A bootstrap ends in a session of the linked identity because the identity
is read, the held session compared with it and the credential linked in one
step; that an adoption by header put the held session there makes no
difference, since its key is compared again. `Traceable` is for the resumption:
while the session a reaped transport died with is open, the transport is still
bound to it, or it has its tombstone and no later binding hides that.

Only model-checked: `DeadLeasesLapse`, `LockReturns`, `RequestsEnd`, `StreamDelivers`,
`UsesAreRecorded` and `KeepaliveStops`, because liveness under fairness is out of the
prover's reach. Every safety property that a passing run checks has a theorem;
`PhaseClassified`, `JudgedOnce`, `ReadCursorMonotone` and `AcknowledgedOnce` have a theorem
and no run.

## Plan

1. Done: the task room with delegation and leases; idempotent writes with the
   proof of their refinement; the event log with `room_sync`, acknowledgements and
   retention; the event stream with its slots.
2. Done: project registration; members, credentials and intakes; knowledge and
   documents, all with proofs; backups, restore and the touch buffer; MCP
   transports and the keepalive; the windows over the log.
3. Done: a theorem for every safety property of the passing runs.
4. Proofs: an abstract specification of the event log, a growing sequence that
   retention cuts, which `EventLog` with its readers implements; of a lease, which
   one identity holds at a time. Windows whose fetches overlap: what still
   holds of them, and the browser's own event list.
5. `patterns_overlap` as an algorithm against a reference definition on short
   patterns.

## Not modelled

The command line, configuration, desktop and tray (parsing, windows, files and
process start without shared state in the Room); client integrations and
encrypted bundles (they write other programs' files); rendering in the browser
beyond the two windows; the migrations (straight-line conversions at start, one
transaction each); exports; PostgreSQL's dump and restore, which are an external
program; stdio transports, whose process has one session. Of the REST adapter
and the MCP tools, what only forwards its arguments to a service method.
