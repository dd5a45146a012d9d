----------------------------- MODULE Transport -----------------------------
(***************************************************************************)
(* The MCP HTTP transports of one server and the Room sessions bound to    *)
(* them: mcp_http_adoption.py (a request on a reaped transport is served   *)
(* on a surrogate), mcp_server.py (the table of bindings, the tombstones,  *)
(* room_bootstrap and session_leave) and presence.py (the keepalive        *)
(* thread).                                                                *)
(*                                                                         *)
(* A request carries a credential, which opens transports, and may state a *)
(* software key in a header.  Adoption compares the header alone with the  *)
(* session; only room_bootstrap compares it with the credential.           *)
(*                                                                         *)
(* The event loop interleaves requests at their awaits: the handshake of   *)
(* an adoption (Open ... Adopt) and the workspace roots of a bootstrap     *)
(* (BootstrapStart ... BootstrapEnd).  The presence thread copies its      *)
(* sessions, asks whether the transport of each is alive and only then     *)
(* drops it (TickStart, TickCheck, TickDrop), each under its own lock.     *)
(***************************************************************************)
EXTENDS Naturals, FiniteSets, Absence

CONSTANTS
  Clients,        \* MCP clients, one credential each
  SoftwareKeys,   \* software identities: key, name and client in one
  Headers,        \* what a client's requests state in X-AgentChatRoom-Software-Key
  Issued,         \* the identity a client's credential was issued for, or None
  Requests,       \* request slots: the HTTP requests that can be in flight
  ClientOf,       \* [Requests -> Clients]
  MaxTransports,  \* bound: transports the server opens
  MaxSessions     \* bound: Room sessions bootstraps create

ASSUME RequestsAssumption == ClientOf \in [Requests -> Clients]
ASSUME IdentityAssumption ==
  /\ None \notin SoftwareKeys
  /\ Headers \in [Clients -> SUBSET (SoftwareKeys \cup {None})]
  /\ Issued \in [Clients -> SoftwareKeys \cup {None}]
ASSUME BoundsAssumption == {MaxTransports, MaxSessions} \subseteq Nat

Transports == 1 .. MaxTransports
Sessions == 1 .. MaxSessions

ASSUME NoneAssumption == None \notin Transports \cup Sessions

Cleared == 0   \* a binding set to None: session_expired until room_bootstrap

VARIABLES
  transport,   \* what the SDK knows of a transport, and the session it died with
  binding,     \* _session_bindings
  tombstone,   \* _transport_tombstones
  adopted,     \* _adopted: the surrogate that stands in for a bookmark
  bookmark,    \* the mcp-session-id each client sends
  linked,      \* the identity each credential is linked to, in the database
  session,     \* the Room sessions, in the database
  presence,    \* LocalPresenceManager._sessions: the transport key registered
  tick,        \* the presence thread: what it copied, what it is about to drop
  request      \* the requests in flight

tables == <<binding, tombstone, adopted>>
vars == <<transport, tables, bookmark, linked, session, presence, tick, request>>

Idle == [pc |-> "idle", key |-> None, bookmark |-> None, at |-> None, held |-> None]

TypeOK ==
  /\ transport \in [Transports -> [owner : Clients \cup {None},
                                   status : {"unused", "live", "reaped"},
                                   last : Sessions \cup {None}]]
  /\ binding \in [Transports -> Sessions \cup {Cleared, None}]
  /\ tombstone \in [Transports -> Sessions \cup {None}]
  /\ adopted \in [Transports -> Transports \cup {None}]
  /\ bookmark \in [Clients -> Transports \cup {None}]
  /\ linked \in [Clients -> SoftwareKeys \cup {None}]
  /\ session \in [Sessions -> [key : SoftwareKeys \cup {None},
                               status : {"unused", "open", "closed"}]]
  /\ presence \in [Sessions -> Transports \cup {None}]
  /\ tick \in [left : SUBSET (Sessions \X Transports), drop : Sessions \cup {None}]
  /\ request \in [Requests -> [pc : {"idle", "handshake", "roots"},
                               key : SoftwareKeys \cup {None},
                               bookmark : Transports \cup {None},
                               at : Transports \cup {None},
                               held : Sessions \cup {None}]]

Init ==
  /\ transport = [t \in Transports |-> [owner |-> None, status |-> "unused", last |-> None]]
  /\ binding = [t \in Transports |-> None]
  /\ tombstone = [t \in Transports |-> None]
  /\ adopted = [t \in Transports |-> None]
  /\ bookmark = [c \in Clients |-> None]
  /\ linked = Issued
  /\ session = [s \in Sessions |-> [key |-> None, status |-> "unused"]]
  /\ presence = [s \in Sessions |-> None]
  /\ tick = [left |-> {}, drop |-> None]
  /\ request = [r \in Requests |-> Idle]

----------------------------------------------------------------------------
(* The tables *)

\* transport_session_active: the SDK still owns the transport.
Active(t) == t # None /\ transport[t].status = "live"

\* The next transport id or Room session id: ids are never used again.
Fresh(t) == transport[t].status = "unused" /\ \A u \in 1 .. t - 1 : transport[u].status # "unused"
FreshSession(s) == session[s].status = "unused" /\ \A q \in 1 .. s - 1 : session[q].status # "unused"

\* retain_transport_tombstone: the binding leaves the table; a session becomes
\* a tombstone, a cleared binding is forgotten.
RetainedBinding(t) == [binding EXCEPT ![t] = None]
RetainedTombstone(t) ==
  IF binding[t] \in Sessions THEN [tombstone EXCEPT ![t] = binding[t]] ELSE tombstone

\* Fault: the adoption trusts the presence thread to have retained the binding.
LeftInTable(t) == tombstone

\* Fault: a tombstone is handed to whoever presents its bookmark.
AnyKey(s, key) == TRUE

\* lookup_transport_tombstone: the request has to state a software key, the one
\* the session was bound under.  What it states is its header; the credential is
\* not asked.
KeyMatches(s, key) == key # None /\ session[s].key = key

Lookup(stones, t, key) ==
  IF stones[t] # None /\ KeyMatches(stones[t], key) THEN stones[t] ELSE None

\* What _adoption_binding sees: it retains before it looks up.
StonesForAdoption(t) == RetainedTombstone(t)

----------------------------------------------------------------------------
(* Clients and the SDK's transports (modelled from how src/ uses the SDK) *)

\* A client initialises: a new transport, whose id it keeps as its bookmark.
Connect(c) ==
  /\ \A r \in Requests : ClientOf[r] = c => request[r].pc = "idle"
  /\ \E t \in Transports :
       /\ Fresh(t)
       /\ transport' = [transport EXCEPT ![t].owner = c, ![t].status = "live"]
       /\ bookmark' = [bookmark EXCEPT ![c] = t]
  /\ UNCHANGED <<tables, linked, session, presence, tick, request>>

\* The idle timeout of the session manager, or a DELETE of the client.
Reap(t) ==
  /\ Active(t)
  /\ transport' = [transport EXCEPT ![t].status = "reaped",
                                    ![t].last = IF binding[t] \in Sessions THEN binding[t] ELSE None]
  /\ UNCHANGED <<tables, bookmark, linked, session, presence, tick, request>>

----------------------------------------------------------------------------
(* TolerantSessionAdoptionMiddleware.__call__ *)

\* A client sends the bookmark it holds; one that was copied from another client
\* is answered as well.
Presents(c, b) ==
  /\ transport[b].status # "unused"
  /\ b = bookmark[c] \/ transport[b].owner # c

\* Where a request goes: the transport it names or the surrogate of it.
Target(b) == IF Active(b) THEN b ELSE adopted[b]

\* A request is served: its target is live, and opened under the credential of
\* the request (the SDK answers 404 otherwise).
Served(r, b, t) ==
  /\ request[r].pc = "idle"
  /\ Presents(ClientOf[r], b)
  /\ t = Target(b) /\ Active(t)
  /\ transport[t].owner = ClientOf[r]

\* A client that is told the id of the surrogate may send it from now on.
Rebook(r, t) ==
  \E b \in {bookmark[ClientOf[r]], t} : bookmark' = [bookmark EXCEPT ![ClientOf[r]] = b]

\* An unknown bookmark: a surrogate that is no longer live is forgotten, and
\* _open_surrogate initialises a transport with the headers of the request.  Two
\* requests with one bookmark each open their own.
Open(r, b) ==
  /\ request[r].pc = "idle"
  /\ Presents(ClientOf[r], b)
  /\ ~Active(Target(b))
  /\ adopted' = [adopted EXCEPT ![b] = None]
  /\ \E t \in Transports, key \in Headers[ClientOf[r]] :
       /\ Fresh(t)
       /\ transport' = [transport EXCEPT ![t].owner = ClientOf[r], ![t].status = "live"]
       /\ request' = [request EXCEPT ![r] =
            [pc |-> "handshake", key |-> key, bookmark |-> b, at |-> t, held |-> None]]
  /\ UNCHANGED <<binding, tombstone, bookmark, linked, session, presence, tick>>

\* The handshake is impossible or times out: the request is replayed untouched
\* and answered 404.  The transport it opened is left to the idle timeout.
OpenFails(r) ==
  /\ request[r].pc = "handshake"
  /\ request' = [request EXCEPT ![r] = Idle]
  /\ UNCHANGED <<transport, tables, bookmark, linked, session, presence, tick>>

\* _remember and _restore_room_binding, with no await between them.  The
\* tombstone stays.  The request is then forwarded: one that is served at the
\* surrogate.
Adopt(r) ==
  LET b == request[r].bookmark
      t == request[r].at
      stones == StonesForAdoption(b)
      found == Lookup(stones, b, request[r].key)
      retained == RetainedBinding(b)
  IN
  /\ request[r].pc = "handshake"
  /\ adopted' = [adopted EXCEPT ![b] = t]
  /\ tombstone' = stones
  /\ binding' = IF found # None THEN [retained EXCEPT ![t] = found] ELSE retained
  /\ request' = [request EXCEPT ![r] = Idle]
  /\ UNCHANGED <<transport, bookmark, linked, session, presence, tick>>

----------------------------------------------------------------------------
(* ServiceBoundToolManager.call_tool.  A call without a binding, with a cleared
   one (session_expired) or to a closed session changes nothing.            *)

\* A session joins the keepalive when it is not there; an entry that is there
\* keeps its transport.
EnsureRegistered(s, t) ==
  presence' = IF presence[s] = None THEN [presence EXCEPT ![s] = t] ELSE presence

\* Any authenticated tool.
Call(r, b, t) ==
  LET s == binding[t] IN
  /\ Served(r, b, t)
  /\ s \in Sessions /\ session[s].status = "open"
  /\ EnsureRegistered(s, t)
  /\ Rebook(r, t)
  /\ UNCHANGED <<transport, tables, linked, session, tick, request>>

\* session_leave closes the session and clears every binding to it.  Tombstones
\* stay, and so does the presence entry of an HTTP session.
Leave(r, b, t) ==
  LET s == binding[t] IN
  /\ Served(r, b, t)
  /\ s \in Sessions /\ session[s].status = "open"
  /\ session' = [session EXCEPT ![s].status = "closed"]
  /\ binding' = [u \in Transports |-> IF binding[u] = s THEN Cleared ELSE binding[u]]
  /\ Rebook(r, t)
  /\ UNCHANGED <<transport, tombstone, adopted, linked, presence, tick, request>>

\* room_bootstrap clears the binding before it asks the client for its roots, and
\* keeps the session it found there to restore.
BootstrapStart(r, b, t) ==
  /\ Served(r, b, t)
  /\ binding' = [binding EXCEPT ![t] = Cleared]
  /\ \E key \in Headers[ClientOf[r]] :
       request' = [request EXCEPT ![r] =
         [pc |-> "roots", key |-> key, bookmark |-> b, at |-> t,
          held |-> IF binding[t] \in Sessions THEN binding[t] ELSE None]]
  /\ UNCHANGED <<transport, tombstone, adopted, bookmark, linked, session, presence, tick>>

\* _software_identity_from_http: the identity of the credential, the stated one
\* while it has none; None when there is neither.
Identity(c, stated) == IF linked[c] # None THEN linked[c] ELSE stated

\* software_identity_mismatch: the credential has one identity, the header states
\* another.
Mismatch(c, stated) == linked[c] # None /\ stated \notin {linked[c], None}

\* Fault: the session the runtime holds is restored while it is open.
RestoresAny(s, key) == s # None /\ session[s].status = "open"

\* restore_runtime_binding: same identity, and its token still authenticates.
Restorable(s, key) == s # None /\ session[s].key = key /\ session[s].status = "open"

\* The roots arrive: the held session is restored or a new one is created, bound
\* to the transport and registered with the keepalive under it, and a credential
\* without an identity is linked to this one (link_credential_member).  The tool
\* runs without an await; Members has its transactions apart.
BootstrapEnd(r) ==
  LET t == request[r].at
      c == ClientOf[r]
      key == Identity(c, request[r].key)
      held == request[r].held
  IN
  /\ request[r].pc = "roots"
  /\ Active(t)
  /\ key # None /\ ~Mismatch(c, request[r].key)
  /\ linked' = [linked EXCEPT ![c] = key]
  /\ \E s \in Sessions :
       /\ IF Restorable(held, key)
          THEN s = held /\ UNCHANGED session
          ELSE /\ FreshSession(s)
               /\ session' = [session EXCEPT ![s] = [key |-> key, status |-> "open"]]
       /\ binding' = [binding EXCEPT ![t] = s]
       /\ presence' = [presence EXCEPT ![s] = t]
  /\ request' = [request EXCEPT ![r] = Idle]
  /\ Rebook(r, t)
  /\ UNCHANGED <<transport, tombstone, adopted, tick>>

\* The roots time out, a check fails (of the identity among them) or the reaped
\* transport cancels the call: the binding stays cleared.
BootstrapFails(r) ==
  /\ request[r].pc = "roots"
  /\ request' = [request EXCEPT ![r] = Idle]
  /\ UNCHANGED <<transport, tables, bookmark, linked, session, presence, tick>>

----------------------------------------------------------------------------
(* LocalPresenceManager *)

\* heartbeat_once copies the registered sessions.
TickStart ==
  /\ tick = [left |-> {}, drop |-> None]
  /\ \E s \in Sessions : presence[s] # None
  /\ tick' = [tick EXCEPT !.left =
                {<<s, presence[s]>> : s \in {q \in Sessions : presence[q] # None}}]
  /\ UNCHANGED <<transport, tables, bookmark, linked, session, presence, request>>

\* Fault: a heartbeat that finds its session closed is only logged.
DeadTransport(s, t) == ~Active(t)

\* What makes the thread drop an entry: its transport is gone, or the heartbeat
\* answers session_closed.
Dead(s, t) == ~Active(t) \/ session[s].status = "closed"

\* One copied entry: a transport that is gone leaves its binding as a tombstone;
\* the entry is dropped in a step of its own.
TickCheck(s, t) ==
  /\ tick.drop = None
  /\ <<s, t>> \in tick.left
  /\ tick' = [left |-> tick.left \ {<<s, t>>}, drop |-> IF Dead(s, t) THEN s ELSE None]
  /\ IF Active(t)
     THEN UNCHANGED <<binding, tombstone>>
     ELSE binding' = RetainedBinding(t) /\ tombstone' = RetainedTombstone(t)
  /\ UNCHANGED <<transport, adopted, bookmark, linked, session, presence, request>>

\* unregister: by session, whatever transport the entry names by now.
TickDrop ==
  /\ tick.drop # None
  /\ presence' = [presence EXCEPT ![tick.drop] = None]
  /\ tick' = [tick EXCEPT !.drop = None]
  /\ UNCHANGED <<transport, tables, bookmark, linked, session, request>>

\* The server restarts: transports, tables and registrations are lost.  A clean
\* stop leaves the sessions the keepalive holds, a crash leaves them open.
Restart(clean) ==
  /\ transport' = [t \in Transports |->
       IF Active(t) \/ transport[t].status = "reaped"
       THEN [transport[t] EXCEPT !.status = "reaped", !.last = None]
       ELSE transport[t]]
  /\ binding' = [t \in Transports |-> None]
  /\ tombstone' = [t \in Transports |-> None]
  /\ adopted' = [t \in Transports |-> None]
  /\ session' = [s \in Sessions |->
       IF clean /\ presence[s] # None THEN [session[s] EXCEPT !.status = "closed"] ELSE session[s]]
  /\ presence' = [s \in Sessions |-> None]
  /\ tick' = [left |-> {}, drop |-> None]
  /\ request' = [r \in Requests |-> Idle]
  /\ UNCHANGED <<bookmark, linked>>

----------------------------------------------------------------------------

Next ==
  \/ \E c \in Clients : Connect(c)
  \/ \E t \in Transports : Reap(t)
  \/ \E r \in Requests, b \in Transports : Open(r, b)
  \/ \E r \in Requests : OpenFails(r) \/ Adopt(r) \/ BootstrapEnd(r) \/ BootstrapFails(r)
  \/ \E r \in Requests, b, t \in Transports : Call(r, b, t) \/ Leave(r, b, t) \/ BootstrapStart(r, b, t)
  \/ TickStart
  \/ \E s \in Sessions, t \in Transports : TickCheck(s, t)
  \/ TickDrop
  \/ \E clean \in BOOLEAN : Restart(clean)

Spec == Init /\ [][Next]_vars

\* The presence thread runs: _run calls heartbeat_once every interval.
Fairness ==
  /\ WF_vars(TickStart)
  /\ WF_vars(\E s \in Sessions, t \in Transports : TickCheck(s, t))
  /\ WF_vars(TickDrop)

FairSpec == Spec /\ Fairness

----------------------------------------------------------------------------
(* Properties *)

\* A transport acts for an identity that its own client states or its credential
\* is linked to: a bookmark from elsewhere, concurrent adoptions and bootstraps
\* bind a client whose headers agree with its credential to no other identity's
\* Room session (lookup_transport_tombstone, restore_runtime_binding).
BoundToStatedIdentity ==
  \A t \in Transports :
     binding[t] \in Sessions =>
       session[binding[t]].key \in Headers[transport[t].owner] \cup {linked[transport[t].owner]}

\* A bootstrap ends in a session of the identity the credential is linked to,
\* whatever session an adoption by header had bound to the transport, and however
\* requests that state different keys overlap with the linking
\* (_software_identity_from_http, restore_runtime_binding, link_credential_member).
BootstrapActsAsLinked ==
  [][\A r \in Requests :
       BootstrapEnd(r) => session'[binding'[request[r].at]].key = linked'[ClientOf[r]]]_vars

\* A client that returns after its transport was reaped, stating its key, acts in the session that
\* transport died with, whether the presence thread has seen the transport gone,
\* is in the middle of a pass, or a second request adopts the same bookmark
\* (_adoption_binding, retain_transport_tombstone).
AdoptionResumes ==
  [][\A r \in Requests :
       LET b == request[r].bookmark
           s == transport[b].last
       IN (/\ Adopt(r)
           /\ s # None
           /\ session[s].key = request[r].key
           /\ session[s].status = "open") => binding'[request[r].at] = s]_vars

\* A session whose transport was reaped, or that was left, does not stay in the
\* keepalive: the thread drops it, or a client that is there registers it again
\* (heartbeat_once).
StaleEntry(s) ==
  presence[s] # None /\ (~Active(presence[s]) \/ session[s].status = "closed")
KeepaliveStops == \A s \in Sessions : StaleEntry(s) ~> ~StaleEntry(s)
=============================================================================
