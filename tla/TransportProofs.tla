---------------------------- MODULE TransportProofs ----------------------------
(***************************************************************************)
(* The bindings of the MCP transports, for any numbers of clients,         *)
(* requests, transports, sessions and software keys.  The client of a      *)
(* transport, the identity of a session and, once there is one, the        *)
(* identity of a credential never change; what has to be shown is that no  *)
(* table names a session or a transport that is still to be created, and   *)
(* that the surrogate of an adoption in flight is known to its request     *)
(* alone, so that no other request can bind it first.                      *)
(***************************************************************************)
EXTENDS Transport, TLAPS

TransportRows == [owner : Clients \cup {None}, status : {"unused", "live", "reaped"},
                  last : Sessions \cup {None}]
SessionRows == [key : SoftwareKeys \cup {None}, status : {"unused", "open", "closed"}]
RequestRows == [pc : {"idle", "handshake", "roots"}, key : SoftwareKeys \cup {None},
                bookmark : Transports \cup {None}, at : Transports \cup {None}, held : Sessions \cup {None}]

Opened(t) == transport[t].status # "unused"
Created(s) == session[s].status # "unused"

\* Rows a table names have been created, and a session with an identity.
BindingsCreated ==
  /\ \A t \in Transports : binding[t] # None => Opened(t)
  /\ \A t \in Transports : binding[t] \in Sessions => Created(binding[t])
  /\ \A t \in Transports : tombstone[t] # None => Created(tombstone[t])
  /\ \A t \in Transports : transport[t].last # None => Created(transport[t].last)
  /\ \A t \in Transports : adopted[t] # None => Opened(adopted[t])
  /\ \A c \in Clients : bookmark[c] # None => Opened(bookmark[c])
  /\ \A s \in Sessions : presence[s] # None => Created(s)
  /\ \A s \in Sessions : Created(s) => session[s].key # None

\* A request between its two steps holds a transport of its own client, which may
\* have been reaped, and the key it states is one its client states.
RequestHolds(r) ==
  /\ request[r].pc = "idle" => request[r].at = None
  /\ request[r].pc # "idle" =>
       /\ request[r].bookmark \in Transports /\ Opened(request[r].bookmark)
       /\ request[r].at \in Transports /\ Opened(request[r].at)
       /\ transport[request[r].at].owner = ClientOf[r]
       /\ request[r].key \in Headers[ClientOf[r]]

\* Until the adoption is remembered, only its request knows the surrogate.
SurrogatePrivate(r) == request[r].pc = "handshake" =>
  LET t == request[r].at IN
  /\ binding[t] = None /\ transport[t].last = None
  /\ \A b \in Transports : adopted[b] # t
  /\ \A c \in Clients : bookmark[c] # t
  /\ \A q \in Requests \ {r} : request[q].at # t

\* The session a transport died with is found again while it is open: still
\* bound, or a tombstone that no later binding hides.
Traceable(t) ==
  LET s == transport[t].last IN
  /\ transport[t].status # "reaped" => s = None
  /\ s # None /\ session[s].status = "open" =>
       \/ binding[t] = s
       \/ binding[t] \notin Sessions /\ tombstone[t] = s

TransportInv ==
  /\ TypeOK
  /\ BindingsCreated
  /\ BoundToStatedIdentity
  /\ \A r \in Requests : RequestHolds(r) /\ SurrogatePrivate(r)
  /\ \A t \in Transports : Traceable(t)

----------------------------------------------------------------------------
(* Values and types. *)

LEMMA NotASession ==
  /\ None \notin Sessions /\ None \notin Transports
  /\ Cleared \notin Sessions
BY NoneAssumption DEF Sessions, Cleared

LEMMA RowsTyped ==
  ASSUME TypeOK
  PROVE  /\ transport \in [Transports -> TransportRows]
         /\ session \in [Sessions -> SessionRows]
         /\ request \in [Requests -> RequestRows]
         /\ binding \in [Transports -> Sessions \cup {Cleared, None}]
         /\ tombstone \in [Transports -> Sessions \cup {None}]
         /\ adopted \in [Transports -> Transports \cup {None}]
         /\ bookmark \in [Clients -> Transports \cup {None}]
         /\ presence \in [Sessions -> Transports \cup {None}]
         /\ linked \in [Clients -> SoftwareKeys \cup {None}]
BY DEF TypeOK, TransportRows, SessionRows, RequestRows

LEMMA TablesTyped ==
  ASSUME TypeOK, NEW t \in Transports
  PROVE  /\ RetainedBinding(t) \in [Transports -> Sessions \cup {Cleared, None}]
         /\ RetainedTombstone(t) \in [Transports -> Sessions \cup {None}]
BY DEF TypeOK, RetainedBinding, RetainedTombstone

\* What lookup_transport_tombstone answers is the tombstone or nothing.
LEMMA LookupFinds ==
  ASSUME NEW stones \in [Transports -> Sessions \cup {None}], NEW t \in Transports, NEW key
  PROVE  /\ Lookup(stones, t, key) \in Sessions \cup {None}
         /\ Lookup(stones, t, key) # None =>
              Lookup(stones, t, key) = stones[t] /\ key # None /\ session[stones[t]].key = key
BY DEF Lookup, KeyMatches

----------------------------------------------------------------------------
(* What the handlers write into a row. *)

LEMMA TransportWritten ==
  ASSUME NEW t \in Transports, transport \in [Transports -> TransportRows],
         NEW row \in TransportRows, transport' = [transport EXCEPT ![t] = row]
  PROVE  /\ transport' \in [Transports -> TransportRows]
         /\ transport'[t] = row
         /\ \A u \in Transports : u # t => transport'[u] = transport[u]
OBVIOUS

\* A transport that is opened: Connect and _open_surrogate.
LEMMA TransportOpened ==
  ASSUME TypeOK, NEW t \in Transports, NEW c \in Clients,
         transport' = [transport EXCEPT ![t].owner = c, ![t].status = "live"]
  PROVE  /\ transport' \in [Transports -> TransportRows]
         /\ transport'[t].owner = c /\ transport'[t].status = "live"
         /\ transport'[t].last = transport[t].last
         /\ \A u \in Transports : u # t => transport'[u] = transport[u]
<1>1. transport \in [Transports -> TransportRows] /\ transport[t] \in TransportRows
  BY RowsTyped
<1> DEFINE row == [transport[t] EXCEPT !.owner = c, !.status = "live"]
<1>2. /\ row \in TransportRows
      /\ row.owner = c /\ row.status = "live" /\ row.last = transport[t].last
  BY <1>1 DEF TransportRows
<1>3. transport' = [transport EXCEPT ![t] = row]
  BY <1>1 DEF TransportRows
<1> HIDE DEF row
<1> QED BY <1>1, <1>2, <1>3, TransportWritten

LEMMA TransportReaped ==
  ASSUME TypeOK, NEW t \in Transports, Reap(t)
  PROVE  /\ transport' \in [Transports -> TransportRows]
         /\ transport'[t].owner = transport[t].owner /\ transport'[t].status = "reaped"
         /\ transport'[t].last = IF binding[t] \in Sessions THEN binding[t] ELSE None
         /\ \A u \in Transports : u # t => transport'[u] = transport[u]
<1> DEFINE died == IF binding[t] \in Sessions THEN binding[t] ELSE None
<1>1. transport \in [Transports -> TransportRows] /\ transport[t] \in TransportRows
  BY RowsTyped
<1>2. died \in Sessions \cup {None}
  OBVIOUS
<1>3. transport' = [transport EXCEPT ![t].status = "reaped", ![t].last = died]
  BY DEF Reap
<1> HIDE DEF died
<1> DEFINE row == [transport[t] EXCEPT !.status = "reaped", !.last = died]
<1>4. /\ row \in TransportRows
      /\ row.owner = transport[t].owner /\ row.status = "reaped" /\ row.last = died
  BY <1>1, <1>2 DEF TransportRows
<1>5. transport' = [transport EXCEPT ![t] = row]
  BY <1>1, <1>3 DEF TransportRows
<1> HIDE DEF row
<1>6. /\ transport' \in [Transports -> TransportRows]
      /\ transport'[t].owner = transport[t].owner /\ transport'[t].status = "reaped"
      /\ transport'[t].last = died
      /\ \A u \in Transports : u # t => transport'[u] = transport[u]
  BY <1>1, <1>4, <1>5, TransportWritten
<1> QED BY <1>6 DEF died

\* A transport after a restart: no longer live, its last session unknown.
LEMMA TransportsRestarted ==
  ASSUME TypeOK, NEW clean \in BOOLEAN, Restart(clean)
  PROVE  /\ transport' \in [Transports -> TransportRows]
         /\ \A t \in Transports :
              /\ transport'[t].owner = transport[t].owner
              /\ Opened(t)' <=> Opened(t)
              /\ Opened(t) => transport'[t].last = None
              /\ ~Opened(t) => transport'[t] = transport[t]
<1> SUFFICES ASSUME NEW t \in Transports
             PROVE  /\ transport'[t] \in TransportRows
                    /\ transport'[t].owner = transport[t].owner
                    /\ Opened(t)' <=> Opened(t)
                    /\ Opened(t) => transport'[t].last = None
                    /\ ~Opened(t) => transport'[t] = transport[t]
  BY DEF Restart
<1>1. transport[t] \in TransportRows
  BY RowsTyped
<1>2. transport'[t] = IF Active(t) \/ transport[t].status = "reaped"
                      THEN [transport[t] EXCEPT !.status = "reaped", !.last = None]
                      ELSE transport[t]
  BY DEF Restart
<1>3. Active(t) <=> transport[t].status = "live"
  BY NotASession DEF Active
<1> QED BY <1>1, <1>2, <1>3 DEF TransportRows, Opened

\* A session that is closed, by session_leave or a clean stop, keeps its key.
LEMMA SessionClosed ==
  ASSUME TypeOK, NEW s \in Sessions
  PROVE  LET row == [session[s] EXCEPT !.status = "closed"] IN
         /\ row \in SessionRows
         /\ row.key = session[s].key /\ row.status = "closed"
BY RowsTyped DEF SessionRows

----------------------------------------------------------------------------
(* The steps. *)

\* A server starts with no bindings.
THEOREM InitBindings == Init => TransportInv
<1> SUFFICES ASSUME Init PROVE TransportInv
  OBVIOUS
<1>1. TypeOK
  BY IdentityAssumption DEF Init, TypeOK, Idle
<1>2. \A r \in Requests : request[r].pc = "idle" /\ request[r].at = None
  BY DEF Init, Idle
<1> QED
  BY <1>1, <1>2, NotASession DEF Init, TransportInv, BindingsCreated, BoundToStatedIdentity,
     RequestHolds, SurrogatePrivate, Traceable, Created

\* Opening a transport, for a client or as a surrogate, disturbs nothing: no
\* table names it yet.
LEMMA OpeningKeeps ==
  ASSUME TransportInv, NEW t \in Transports, Fresh(t), NEW c \in Clients,
         transport' = [transport EXCEPT ![t].owner = c, ![t].status = "live"],
         UNCHANGED <<binding, tombstone, linked, session>>
  PROVE  /\ \A u \in Transports : Opened(u) => Opened(u)' /\ transport'[u] = transport[u]
         /\ Opened(t)' /\ ~Opened(t) /\ transport'[t].owner = c
         /\ \A u \in Transports : transport'[u].last = transport[u].last
         /\ \A s \in Sessions : Created(s)' <=> Created(s)
         /\ BoundToStatedIdentity'
         /\ \A u \in Transports : Traceable(u)'
<1>1. TypeOK /\ ~Opened(t) /\ Traceable(t)
  BY DEF TransportInv, Fresh, Opened
<1>2. /\ transport'[t].owner = c /\ transport'[t].status = "live"
      /\ transport'[t].last = transport[t].last
      /\ \A u \in Transports : u # t => transport'[u] = transport[u]
  BY <1>1, TransportOpened
<1>3. transport[t].last = None
  BY <1>1 DEF Traceable, Opened
<1>4. BoundToStatedIdentity'
  <2> SUFFICES ASSUME NEW u \in Transports, binding[u] \in Sessions
               PROVE  session[binding[u]].key \in Headers[transport'[u].owner] \cup {linked[transport'[u].owner]}
    BY DEF BoundToStatedIdentity
  <2>1. Opened(u)
    BY NotASession DEF TransportInv, BindingsCreated
  <2> QED BY <1>1, <1>2, <2>1 DEF TransportInv, BoundToStatedIdentity
<1>5. ASSUME NEW u \in Transports PROVE Traceable(u)'
  BY <1>2, <1>3 DEF TransportInv, Traceable
<1> QED BY <1>1, <1>2, <1>3, <1>4, <1>5 DEF Opened, Created

LEMMA ConnectKeeps ==
  ASSUME TransportInv, NEW c \in Clients, Connect(c) PROVE TransportInv'
<1>1. PICK t \in Transports :
        /\ Fresh(t)
        /\ transport' = [transport EXCEPT ![t].owner = c, ![t].status = "live"]
        /\ bookmark' = [bookmark EXCEPT ![c] = t]
  BY DEF Connect
<1>2. UNCHANGED <<binding, tombstone, adopted, linked, session, presence, tick, request>> /\ TypeOK
  BY DEF Connect, tables, TransportInv
<1>3. /\ \A u \in Transports : Opened(u) => Opened(u)' /\ transport'[u] = transport[u]
      /\ Opened(t)' /\ ~Opened(t)
      /\ \A u \in Transports : transport'[u].last = transport[u].last
      /\ \A s \in Sessions : Created(s)' <=> Created(s)
      /\ BoundToStatedIdentity'
      /\ \A u \in Transports : Traceable(u)'
  BY <1>1, <1>2, OpeningKeeps
<1>4. transport' \in [Transports -> TransportRows]
  BY <1>1, <1>2, TransportOpened
<1>5. TypeOK'
  BY <1>1, <1>2, <1>4 DEF TypeOK, TransportRows
<1>6. BindingsCreated'
  BY <1>1, <1>2, <1>3, RowsTyped DEF TransportInv, BindingsCreated, TransportRows
<1>7. ASSUME NEW r \in Requests PROVE RequestHolds(r)'
  BY <1>2, <1>3 DEF TransportInv, RequestHolds
<1>8. ASSUME NEW r \in Requests PROVE SurrogatePrivate(r)'
  <2>1. request[r].pc = "handshake" => request[r].at \in Transports /\ request[r].at # t
    BY <1>3 DEF TransportInv, RequestHolds
  <2> QED BY <1>1, <1>2, <1>3, <2>1, RowsTyped DEF TransportInv, SurrogatePrivate
<1> QED BY <1>3, <1>5, <1>6, <1>7, <1>8 DEF TransportInv

LEMMA ReapKeeps ==
  ASSUME TransportInv, NEW t \in Transports, Reap(t) PROVE TransportInv'
<1>1. UNCHANGED <<tables, bookmark, linked, session, presence, tick, request>> /\ TypeOK
  BY DEF Reap, TransportInv
<1>2. UNCHANGED <<binding, tombstone, adopted>>
  BY <1>1 DEF tables
<1>3. /\ transport' \in [Transports -> TransportRows]
      /\ transport'[t].owner = transport[t].owner /\ transport'[t].status = "reaped"
      /\ transport'[t].last = IF binding[t] \in Sessions THEN binding[t] ELSE None
      /\ \A u \in Transports : u # t => transport'[u] = transport[u]
  BY <1>1, TransportReaped
<1>4. TypeOK'
  BY <1>1, <1>2, <1>3 DEF TypeOK, TransportRows
<1>5. \A u \in Transports : transport'[u].owner = transport[u].owner /\ (Opened(u) => Opened(u)')
  BY <1>3 DEF Opened
<1>6. \A s \in Sessions : Created(s)' <=> Created(s)
  BY <1>1 DEF Created
<1>7. BindingsCreated'
  <2>1. ASSUME NEW u \in Transports, transport'[u].last # None PROVE Created(transport[u].last)'
    BY <1>3, <1>1, <1>6, <2>1, RowsTyped DEF TransportInv, BindingsCreated, TransportRows
  <2> QED BY <1>1, <1>2, <1>5, <1>6, <2>1, RowsTyped DEF TransportInv, BindingsCreated
<1>8. BoundToStatedIdentity'
  BY <1>1, <1>2, <1>5 DEF TransportInv, BoundToStatedIdentity
<1>9. ASSUME NEW r \in Requests PROVE RequestHolds(r)'
  BY <1>1, <1>5 DEF TransportInv, RequestHolds
<1>10. ASSUME NEW r \in Requests PROVE SurrogatePrivate(r)'
  BY <1>1, <1>2, <1>3, NotASession DEF TransportInv, SurrogatePrivate, RequestHolds
<1>11. ASSUME NEW u \in Transports PROVE Traceable(u)'
  BY <1>1, <1>2, <1>3 DEF TransportInv, Traceable
<1> QED BY <1>4, <1>7, <1>8, <1>9, <1>10, <1>11 DEF TransportInv

\* One request's row.
LEMMA RequestWritten ==
  ASSUME TypeOK, NEW r \in Requests, NEW row \in RequestRows,
         request' = [request EXCEPT ![r] = row]
  PROVE  /\ request' \in [Requests -> RequestRows]
         /\ request'[r] = row
         /\ \A q \in Requests : q # r => request'[q] = request[q]
BY RowsTyped

\* A request that returns without having found anything out.
LEMMA RequestReturns ==
  ASSUME TypeOK, NEW r \in Requests, request' = [request EXCEPT ![r] = Idle]
  PROVE  /\ request' \in [Requests -> RequestRows]
         /\ request'[r].pc = "idle" /\ request'[r].at = None
         /\ \A q \in Requests : q # r => request'[q] = request[q]
<1>1. Idle \in RequestRows /\ Idle.pc = "idle" /\ Idle.at = None
  BY DEF Idle, RequestRows
<1> HIDE DEF Idle
<1> QED BY <1>1, RequestWritten

LEMMA OpenKeeps ==
  ASSUME TransportInv, NEW r \in Requests, NEW b \in Transports, Open(r, b)
  PROVE  TransportInv'
<1>1. PICK t \in Transports, key \in Headers[ClientOf[r]] :
        /\ Fresh(t)
        /\ transport' = [transport EXCEPT ![t].owner = ClientOf[r], ![t].status = "live"]
        /\ request' = [request EXCEPT ![r] =
                        [pc |-> "handshake", key |-> key, bookmark |-> b, at |-> t, held |-> None]]
  BY DEF Open
<1>2. /\ UNCHANGED <<binding, tombstone, bookmark, linked, session, presence, tick>>
      /\ adopted' = [adopted EXCEPT ![b] = None]
      /\ TypeOK /\ ClientOf[r] \in Clients
  BY RequestsAssumption DEF Open, TransportInv
<1>3. /\ \A u \in Transports : Opened(u) => Opened(u)' /\ transport'[u] = transport[u]
      /\ Opened(t)' /\ ~Opened(t) /\ transport'[t].owner = ClientOf[r]
      /\ \A u \in Transports : transport'[u].last = transport[u].last
      /\ \A s \in Sessions : Created(s)' <=> Created(s)
      /\ BoundToStatedIdentity'
      /\ \A u \in Transports : Traceable(u)'
  BY <1>1, <1>2, OpeningKeeps
<1> DEFINE row == [pc |-> "handshake", key |-> key, bookmark |-> b, at |-> t, held |-> None]
<1>4. /\ row \in RequestRows
      /\ row.pc = "handshake" /\ row.key = key /\ row.bookmark = b /\ row.at = t
  <2>1. key \in SoftwareKeys \cup {None}
    BY <1>2, IdentityAssumption
  <2> QED BY <2>1 DEF RequestRows
<1> HIDE DEF row
<1>5. /\ request' \in [Requests -> RequestRows] /\ request'[r] = row
      /\ \A q \in Requests : q # r => request'[q] = request[q]
  BY <1>1, <1>2, <1>4, RequestWritten DEF row
<1>6. /\ adopted' \in [Transports -> Transports \cup {None}]
      /\ \A u \in Transports : adopted'[u] \in {adopted[u], None}
  BY <1>2, RowsTyped
<1>7. transport' \in [Transports -> TransportRows]
  BY <1>1, <1>2, TransportOpened
<1>8. TypeOK'
  BY <1>2, <1>5, <1>6, <1>7 DEF TypeOK, TransportRows, RequestRows
<1>9. BindingsCreated'
  BY <1>2, <1>3, <1>6, RowsTyped DEF TransportInv, BindingsCreated, TransportRows
<1>10. Opened(b)
  BY DEF Open, Presents, Opened
<1>11. ASSUME NEW q \in Requests PROVE RequestHolds(q)'
  BY <1>3, <1>4, <1>5, <1>10 DEF TransportInv, RequestHolds
<1>12. ASSUME NEW q \in Requests PROVE SurrogatePrivate(q)'
  <2>1. CASE q = r
    <3>1. binding[t] = None /\ transport[t].last = None
      BY <1>3 DEF TransportInv, BindingsCreated, Traceable, Opened
    <3>2. \A u \in Transports : adopted[u] # t
      BY <1>3, RowsTyped, NotASession DEF TransportInv, BindingsCreated
    <3>3. \A c \in Clients : bookmark[c] # t
      BY <1>3, NotASession DEF TransportInv, BindingsCreated
    <3>4. \A p \in Requests \ {r} : request[p].at # t
      BY <1>3, NotASession DEF TransportInv, RequestHolds, BindingsCreated
    <3> QED BY <1>2, <1>3, <1>4, <1>5, <1>6, <2>1, <3>1, <3>2, <3>3, <3>4, NotASession
            DEF SurrogatePrivate
  <2>2. CASE q # r
    <3>1. request[q].pc = "handshake" => request[q].at \in Transports /\ request[q].at # t
      BY <1>3 DEF TransportInv, RequestHolds
    <3> QED BY <1>2, <1>3, <1>4, <1>5, <1>6, <2>2, <3>1, NotASession
            DEF TransportInv, SurrogatePrivate
  <2> QED BY <2>1, <2>2
<1> QED BY <1>3, <1>8, <1>9, <1>11, <1>12 DEF TransportInv

\* OpenFails and BootstrapFails.
LEMMA RequestFailsKeeps ==
  ASSUME TransportInv, NEW r \in Requests, OpenFails(r) \/ BootstrapFails(r)
  PROVE  TransportInv'
<1>1. /\ UNCHANGED <<transport, binding, tombstone, adopted, bookmark, linked, session, presence, tick>>
      /\ request' = [request EXCEPT ![r] = Idle] /\ TypeOK
  BY DEF OpenFails, BootstrapFails, tables, TransportInv
<1>2. /\ request' \in [Requests -> RequestRows]
      /\ request'[r].pc = "idle" /\ request'[r].at = None
      /\ \A q \in Requests : q # r => request'[q] = request[q]
  BY <1>1, RequestReturns
<1>3. TypeOK' /\ BindingsCreated' /\ BoundToStatedIdentity' /\ \A t \in Transports : Traceable(t)'
  BY <1>1, <1>2 DEF TypeOK, RequestRows, TransportInv, BindingsCreated, BoundToStatedIdentity,
     Traceable, Opened, Created
<1>4. ASSUME NEW q \in Requests PROVE RequestHolds(q)'
  BY <1>1, <1>2 DEF TransportInv, RequestHolds, Opened
<1>5. ASSUME NEW q \in Requests PROVE SurrogatePrivate(q)'
  <2>1. q # r /\ request[q].pc = "handshake" =>
          /\ request[q].at \in Transports /\ request[q].at # None
    BY NotASession DEF TransportInv, RequestHolds
  <2> QED BY <1>1, <1>2, <2>1 DEF TransportInv, SurrogatePrivate
<1> QED BY <1>3, <1>4, <1>5 DEF TransportInv

\* A transport that leaves the table keeps its trace: the adoption of its
\* bookmark and the presence thread.
LEMMA RetainingKeeps ==
  ASSUME TransportInv, NEW t \in Transports
  PROVE  /\ \A u \in Transports : RetainedBinding(t)[u] = IF u = t THEN None ELSE binding[u]
         /\ \A u \in Transports : RetainedTombstone(t)[u] =
               IF u = t /\ binding[t] \in Sessions THEN binding[t] ELSE tombstone[u]
         /\ \A u \in Transports :
               LET s == transport[u].last IN
               s # None /\ session[s].status = "open" =>
                 \/ RetainedBinding(t)[u] = s
                 \/ RetainedBinding(t)[u] \notin Sessions /\ RetainedTombstone(t)[u] = s
<1>1. /\ \A u \in Transports : RetainedBinding(t)[u] = IF u = t THEN None ELSE binding[u]
      /\ \A u \in Transports : RetainedTombstone(t)[u] =
            IF u = t /\ binding[t] \in Sessions THEN binding[t] ELSE tombstone[u]
  BY RowsTyped DEF TransportInv, RetainedBinding, RetainedTombstone
<1> QED BY <1>1, NotASession, RowsTyped DEF TransportInv, Traceable, TransportRows

LEMMA AdoptKeeps ==
  ASSUME TransportInv, NEW r \in Requests, Adopt(r)
  PROVE  /\ TransportInv'
         /\ LET b == request[r].bookmark
                s == transport[b].last
            IN (s # None /\ session[s].key = request[r].key /\ session[s].status = "open")
               => binding'[request[r].at] = s
<1> DEFINE b == request[r].bookmark
           t == request[r].at
           stones == RetainedTombstone(b)
           retained == RetainedBinding(b)
           found == Lookup(stones, b, request[r].key)
<1>1. /\ request[r].pc = "handshake" /\ TypeOK
      /\ adopted' = [adopted EXCEPT ![b] = t]
      /\ tombstone' = stones
      /\ binding' = IF found # None THEN [retained EXCEPT ![t] = found] ELSE retained
      /\ request' = [request EXCEPT ![r] = Idle]
      /\ UNCHANGED <<transport, bookmark, linked, session, presence, tick>>
  BY DEF Adopt, StonesForAdoption, TransportInv
<1>2. /\ b \in Transports /\ t \in Transports /\ Opened(b) /\ Opened(t)
      /\ transport[t].owner = ClientOf[r] /\ request[r].key \in Headers[ClientOf[r]]
      /\ binding[t] = None /\ transport[t].last = None
      /\ \A u \in Transports : adopted[u] # t
      /\ \A c \in Clients : bookmark[c] # t
      /\ \A q \in Requests \ {r} : request[q].at # t
  BY <1>1 DEF TransportInv, RequestHolds, SurrogatePrivate
<1>3. /\ stones \in [Transports -> Sessions \cup {None}]
      /\ retained \in [Transports -> Sessions \cup {Cleared, None}]
  BY <1>1, <1>2, TablesTyped
<1>4. /\ found \in Sessions \cup {None}
      /\ found # None => found = stones[b] /\ session[found].key = request[r].key
  BY <1>2, <1>3, LookupFinds
<1>5. /\ \A u \in Transports : retained[u] = IF u = b THEN None ELSE binding[u]
      /\ \A u \in Transports : stones[u] =
            IF u = b /\ binding[b] \in Sessions THEN binding[b] ELSE tombstone[u]
      /\ \A u \in Transports :
            LET s == transport[u].last IN
            s # None /\ session[s].status = "open" =>
              retained[u] = s \/ (retained[u] \notin Sessions /\ stones[u] = s)
  BY <1>2, RetainingKeeps
<1>6. found # None => stones[b] # None /\ KeyMatches(stones[b], request[r].key)
  BY DEF Lookup
<1>7. stones[b] # None /\ request[r].key # None /\ session[stones[b]].key = request[r].key => found = stones[b]
  BY DEF Lookup, KeyMatches
<1> HIDE DEF b, t, stones, retained, found
<1>8. /\ binding' \in [Transports -> Sessions \cup {Cleared, None}]
      /\ \A u \in Transports : binding'[u] =
           IF u = t /\ found # None THEN found ELSE retained[u]
  BY <1>1, <1>2, <1>3, <1>4
<1>9. /\ request' \in [Requests -> RequestRows]
      /\ request'[r].pc = "idle" /\ request'[r].at = None
      /\ \A q \in Requests : q # r => request'[q] = request[q]
  BY <1>1, RequestReturns
<1>10. /\ adopted' \in [Transports -> Transports \cup {None}]
       /\ \A u \in Transports : adopted'[u] = IF u = b THEN t ELSE adopted[u]
  BY <1>1, <1>2, RowsTyped
<1>11. TypeOK'
  BY <1>1, <1>3, <1>8, <1>9, <1>10 DEF TypeOK, RequestRows
<1>12. \A u \in Transports : stones[u] # None => Created(stones[u])
  BY <1>2, <1>5 DEF TransportInv, BindingsCreated
<1>13. BindingsCreated'
  <2>1. \A u \in Transports : binding'[u] # None => Opened(u)
    BY <1>2, <1>5, <1>8 DEF TransportInv, BindingsCreated
  <2>2. \A u \in Transports : binding'[u] \in Sessions => Created(binding'[u])
    BY <1>2, <1>4, <1>5, <1>8, <1>12, NotASession DEF TransportInv, BindingsCreated
  <2> QED BY <1>1, <1>2, <1>10, <1>12, <2>1, <2>2 DEF TransportInv, BindingsCreated, Opened, Created
<1>14. BoundToStatedIdentity'
  BY <1>1, <1>2, <1>4, <1>5, <1>8, NotASession DEF TransportInv, BoundToStatedIdentity
<1>15. ASSUME NEW q \in Requests PROVE RequestHolds(q)'
  BY <1>1, <1>9 DEF TransportInv, RequestHolds, Opened
<1>16. ASSUME NEW q \in Requests PROVE SurrogatePrivate(q)'
  <2>1. CASE q = r
    BY <1>9, <2>1 DEF SurrogatePrivate
  <2>2. CASE q # r
    <3>1. request[q].pc = "handshake" => request[q].at \in Transports /\ request[q].at # t
      BY <1>2, <2>2 DEF TransportInv, RequestHolds
    <3> QED BY <1>1, <1>5, <1>8, <1>9, <1>10, <2>2, <3>1, NotASession
            DEF TransportInv, SurrogatePrivate
  <2> QED BY <2>1, <2>2
<1>17. ASSUME NEW u \in Transports PROVE Traceable(u)'
  <2>1. CASE u = t
    BY <1>1, <1>2, <2>1 DEF TransportInv, Traceable
  <2>2. CASE u # t
    BY <1>1, <1>5, <1>8, <2>2 DEF TransportInv, Traceable
  <2> QED BY <2>1, <2>2
<1>18. ASSUME transport[b].last # None, session[transport[b].last].key = request[r].key,
              session[transport[b].last].status = "open"
       PROVE  binding'[t] = transport[b].last
  <2>1. retained[b] = None /\ transport[b].last # None
    BY <1>2, <1>5, <1>18
  <2>2. stones[b] = transport[b].last
    BY <1>2, <1>5, <1>18, <2>1
  <2>3. request[r].key # None
    BY <1>2, <1>5, <1>12, <1>18, <2>2, RowsTyped DEF TransportInv, BindingsCreated, Created
  <2> QED BY <1>2, <1>7, <1>8, <1>18, <2>2, <2>3
<1> QED BY <1>11, <1>13, <1>14, <1>15, <1>16, <1>17, <1>18 DEF TransportInv, b, t

\* A request is never served at the surrogate of an adoption in flight.
LEMMA ServedIsKnown ==
  ASSUME TransportInv, NEW r \in Requests, NEW b \in Transports, NEW t \in Transports,
         Served(r, b, t)
  PROVE  /\ Opened(t) /\ transport[t].status = "live" /\ transport[t].owner = ClientOf[r]
         /\ request[r].pc = "idle" /\ Opened(b)
         /\ \A q \in Requests : request[q].pc = "handshake" => request[q].at # t
<1>1. /\ Active(t) /\ transport[t].owner = ClientOf[r] /\ request[r].pc = "idle"
      /\ t = Target(b) /\ Presents(ClientOf[r], b) /\ ClientOf[r] \in Clients
  BY RequestsAssumption DEF Served
<1>2. t = bookmark[ClientOf[r]] \/ t = adopted[b]
  BY <1>1 DEF Target, Presents
<1> QED BY <1>1, <1>2 DEF TransportInv, SurrogatePrivate, Active, Opened, Presents

\* The client may have been told the surrogate's id.
LEMMA RebookKeeps ==
  ASSUME TypeOK, NEW r \in Requests, NEW t \in Transports, Rebook(r, t)
  PROVE  /\ bookmark' \in [Clients -> Transports \cup {None}]
         /\ \A c \in Clients : bookmark'[c] \in {bookmark[c], t}
BY RowsTyped, RequestsAssumption DEF Rebook

LEMMA CallKeeps ==
  ASSUME TransportInv, NEW r \in Requests, NEW b \in Transports, NEW t \in Transports,
         Call(r, b, t)
  PROVE  TransportInv'
<1>1. /\ UNCHANGED <<transport, binding, tombstone, adopted, linked, session, tick, request>>
      /\ binding[t] \in Sessions /\ EnsureRegistered(binding[t], t) /\ TypeOK
      /\ Served(r, b, t) /\ Rebook(r, t)
  BY DEF Call, tables, TransportInv
<1>2. /\ Opened(t)
      /\ \A q \in Requests : request[q].pc = "handshake" => request[q].at # t
  BY <1>1, ServedIsKnown
<1>3. /\ bookmark' \in [Clients -> Transports \cup {None}]
      /\ \A c \in Clients : bookmark'[c] \in {bookmark[c], t}
  BY <1>1, RebookKeeps
<1>4. presence' \in [Sessions -> Transports \cup {None}]
  BY <1>1, RowsTyped DEF EnsureRegistered
<1>5. TypeOK'
  BY <1>1, <1>3, <1>4 DEF TypeOK
<1>8. \A q \in Sessions : presence'[q] # None => presence[q] # None \/ q = binding[t]
  BY <1>1, RowsTyped DEF EnsureRegistered
<1>6. BindingsCreated' /\ BoundToStatedIdentity' /\ \A u \in Transports : Traceable(u)'
  BY <1>1, <1>2, <1>3, <1>8 DEF TransportInv, BindingsCreated, BoundToStatedIdentity, Traceable,
     Opened, Created
<1>7. \A q \in Requests : RequestHolds(q)' /\ SurrogatePrivate(q)'
  BY <1>1, <1>2, <1>3 DEF TransportInv, RequestHolds, SurrogatePrivate, Opened
<1> QED BY <1>5, <1>6, <1>7 DEF TransportInv

LEMMA LeaveKeeps ==
  ASSUME TransportInv, NEW r \in Requests, NEW b \in Transports, NEW t \in Transports,
         Leave(r, b, t)
  PROVE  TransportInv'
<1> DEFINE s == binding[t]
<1>1. /\ UNCHANGED <<transport, tombstone, adopted, linked, presence, tick, request>> /\ TypeOK
      /\ s \in Sessions
      /\ session' = [session EXCEPT ![s].status = "closed"]
      /\ binding' = [u \in Transports |-> IF binding[u] = s THEN Cleared ELSE binding[u]]
      /\ Served(r, b, t) /\ Rebook(r, t)
  BY DEF Leave, TransportInv
<1>2. /\ Opened(t)
      /\ \A q \in Requests : request[q].pc = "handshake" => request[q].at # t
  BY <1>1, ServedIsKnown
<1>3. /\ bookmark' \in [Clients -> Transports \cup {None}]
      /\ \A c \in Clients : bookmark'[c] \in {bookmark[c], t}
  BY <1>1, RebookKeeps
<1> HIDE DEF s
<1>4. /\ session' \in [Sessions -> SessionRows]
      /\ session'[s].status = "closed"
      /\ \A q \in Sessions : session'[q].key = session[q].key
      /\ \A q \in Sessions : q # s => session'[q] = session[q]
  <2> DEFINE row == [session[s] EXCEPT !.status = "closed"]
  <2>1. row \in SessionRows /\ row.key = session[s].key /\ row.status = "closed"
    BY <1>1, SessionClosed
  <2>2. session' = [session EXCEPT ![s] = row]
    BY <1>1, RowsTyped
  <2> HIDE DEF row
  <2> QED BY <1>1, <2>1, <2>2, RowsTyped
<1>5. /\ binding' \in [Transports -> Sessions \cup {Cleared, None}]
      /\ \A u \in Transports : binding'[u] = IF binding[u] = s THEN Cleared ELSE binding[u]
  BY <1>1, RowsTyped
<1>6. TypeOK'
  BY <1>1, <1>3, <1>4, <1>5 DEF TypeOK, SessionRows
<1>7. \A q \in Sessions : Created(q) => Created(q)'
  BY <1>4 DEF Created
<1>13. \A q \in Sessions : Created(q)' => session'[q].key # None
  <2>1. Created(s)
    BY <1>1 DEF TransportInv, BindingsCreated, s
  <2>2. \A q \in Sessions : Created(q)' => Created(q) \/ q = s
    BY <1>4 DEF Created
  <2> QED BY <1>1, <1>4, <2>1, <2>2 DEF TransportInv, BindingsCreated
<1>8. BindingsCreated'
  BY <1>1, <1>2, <1>3, <1>5, <1>7, <1>13, NotASession, RowsTyped
     DEF TransportInv, BindingsCreated, Opened, TransportRows
<1>9. BoundToStatedIdentity'
  BY <1>1, <1>4, <1>5, NotASession DEF TransportInv, BoundToStatedIdentity
<1>10. ASSUME NEW u \in Transports PROVE Traceable(u)'
  BY <1>1, <1>4, <1>5, NotASession, RowsTyped DEF TransportInv, Traceable, TransportRows
<1>11. \A q \in Requests : RequestHolds(q)'
  BY <1>1 DEF TransportInv, RequestHolds, Opened
<1>12. \A q \in Requests : SurrogatePrivate(q)'
  BY <1>1, <1>2, <1>3, <1>5, NotASession DEF TransportInv, SurrogatePrivate, RequestHolds
<1> QED BY <1>6, <1>8, <1>9, <1>10, <1>11, <1>12 DEF TransportInv

LEMMA BootstrapStartKeeps ==
  ASSUME TransportInv, NEW r \in Requests, NEW b \in Transports, NEW t \in Transports,
         BootstrapStart(r, b, t)
  PROVE  TransportInv'
<1>0. PICK key \in Headers[ClientOf[r]] :
        request' = [request EXCEPT ![r] =
          [pc |-> "roots", key |-> key, bookmark |-> b, at |-> t,
           held |-> IF binding[t] \in Sessions THEN binding[t] ELSE None]]
  BY DEF BootstrapStart
<1> DEFINE row == [pc |-> "roots", key |-> key, bookmark |-> b, at |-> t,
                   held |-> IF binding[t] \in Sessions THEN binding[t] ELSE None]
<1>1. /\ UNCHANGED <<transport, tombstone, adopted, bookmark, linked, session, presence, tick>> /\ TypeOK
      /\ Served(r, b, t)
      /\ binding' = [binding EXCEPT ![t] = Cleared]
      /\ request' = [request EXCEPT ![r] = row]
  BY <1>0 DEF BootstrapStart, TransportInv
<1>2. /\ Opened(t) /\ transport[t].status = "live" /\ transport[t].owner = ClientOf[r]
      /\ request[r].pc = "idle" /\ Opened(b)
      /\ \A q \in Requests : request[q].pc = "handshake" => request[q].at # t
  BY <1>1, ServedIsKnown
<1>3. row \in RequestRows /\ row.pc = "roots" /\ row.key = key /\ row.bookmark = b /\ row.at = t
  <2>1. key \in SoftwareKeys \cup {None}
    BY IdentityAssumption, RequestsAssumption
  <2> QED BY <2>1 DEF RequestRows
<1> HIDE DEF row
<1>4. /\ request' \in [Requests -> RequestRows] /\ request'[r] = row
      /\ \A q \in Requests : q # r => request'[q] = request[q]
  BY <1>1, <1>3, RequestWritten
<1>5. /\ binding' \in [Transports -> Sessions \cup {Cleared, None}]
      /\ \A u \in Transports : binding'[u] = IF u = t THEN Cleared ELSE binding[u]
  BY <1>1, RowsTyped
<1>6. TypeOK'
  BY <1>1, <1>4, <1>5 DEF TypeOK, RequestRows
<1>7. BindingsCreated' /\ BoundToStatedIdentity'
  BY <1>1, <1>2, <1>5, NotASession
     DEF TransportInv, BindingsCreated, BoundToStatedIdentity, Opened, Created
<1>8. ASSUME NEW u \in Transports PROVE Traceable(u)'
  BY <1>1, <1>2, <1>5 DEF TransportInv, Traceable
<1>9. ASSUME NEW q \in Requests PROVE RequestHolds(q)'
  BY <1>1, <1>2, <1>3, <1>4 DEF TransportInv, RequestHolds, Opened
<1>10. ASSUME NEW q \in Requests PROVE SurrogatePrivate(q)'
  BY <1>1, <1>2, <1>3, <1>4, <1>5, NotASession DEF TransportInv, SurrogatePrivate, RequestHolds
<1> QED BY <1>6, <1>7, <1>8, <1>9, <1>10 DEF TransportInv

\* The session a bootstrap binds: the held one as it was, or a new one.
LEMMA SessionBound ==
  ASSUME TypeOK, NEW key \in SoftwareKeys, NEW s \in Sessions, NEW held,
         IF Restorable(held, key)
         THEN s = held /\ UNCHANGED session
         ELSE /\ FreshSession(s)
              /\ session' = [session EXCEPT ![s] = [key |-> key, status |-> "open"]]
  PROVE  /\ session' \in [Sessions -> SessionRows]
         /\ session'[s].key = key /\ session'[s].status = "open"
         /\ \A q \in Sessions : q # s => session'[q] = session[q]
         /\ Created(s) => session'[s] = session[s]
<1>1. CASE Restorable(held, key)
  BY <1>1, RowsTyped DEF Restorable
<1>2. CASE ~Restorable(held, key)
  <2> DEFINE row == [key |-> key, status |-> "open"]
  <2>1. row \in SessionRows /\ row.key = key /\ row.status = "open"
    BY DEF SessionRows
  <2>2. session' = [session EXCEPT ![s] = row] /\ ~Created(s)
    BY <1>2 DEF FreshSession, Created
  <2> HIDE DEF row
  <2> QED BY <2>1, <2>2, RowsTyped
<1> QED BY <1>1, <1>2

LEMMA BootstrapEndKeeps ==
  ASSUME TransportInv, NEW r \in Requests, BootstrapEnd(r) PROVE TransportInv'
<1> DEFINE t == request[r].at
           c == ClientOf[r]
           key == Identity(c, request[r].key)
           held == request[r].held
<1>1. PICK s \in Sessions :
        /\ IF Restorable(held, key)
           THEN s = held /\ UNCHANGED session
           ELSE /\ FreshSession(s)
                /\ session' = [session EXCEPT ![s] = [key |-> key, status |-> "open"]]
        /\ binding' = [binding EXCEPT ![t] = s]
        /\ presence' = [presence EXCEPT ![s] = t]
  BY DEF BootstrapEnd
<1>2. /\ UNCHANGED <<transport, tombstone, adopted, tick>> /\ TypeOK
      /\ request[r].pc = "roots" /\ Active(t) /\ Rebook(r, t)
      /\ request' = [request EXCEPT ![r] = Idle]
      /\ key # None /\ ~Mismatch(c, request[r].key) /\ linked' = [linked EXCEPT ![c] = key]
      /\ c \in Clients
  BY RequestsAssumption DEF BootstrapEnd, TransportInv
<1>3. /\ t \in Transports /\ Opened(t) /\ transport[t].owner = c /\ transport[t].status = "live"
  BY <1>2 DEF TransportInv, RequestHolds, Active
<1>4. \A q \in Requests : request[q].pc = "handshake" => request[q].at # t
  BY <1>2 DEF TransportInv, SurrogatePrivate
\* The identity a credential has stays; one it gets is stated by its client.
<1>16. /\ key \in SoftwareKeys
       /\ linked' \in [Clients -> SoftwareKeys \cup {None}]
       /\ linked'[c] = key
       /\ \A d \in Clients : linked[d] # None => linked'[d] = linked[d]
  <2>1. linked[c] \in SoftwareKeys \cup {None} /\ request[r].key \in SoftwareKeys \cup {None}
    BY <1>2, RowsTyped DEF RequestRows
  <2> QED BY <1>2, <2>1, RowsTyped DEF Identity
<1>5. /\ session' \in [Sessions -> SessionRows]
      /\ session'[s].key = key /\ session'[s].status = "open"
      /\ \A q \in Sessions : q # s => session'[q] = session[q]
      /\ Created(s) => session'[s] = session[s]
  BY <1>1, <1>2, <1>16, SessionBound
<1>6. /\ bookmark' \in [Clients -> Transports \cup {None}]
      /\ \A d \in Clients : bookmark'[d] \in {bookmark[d], t}
  BY <1>2, <1>3, RebookKeeps
<1>7. /\ request' \in [Requests -> RequestRows]
      /\ request'[r].pc = "idle" /\ request'[r].at = None
      /\ \A q \in Requests : q # r => request'[q] = request[q]
  BY <1>2, RequestReturns
<1>8. /\ binding' \in [Transports -> Sessions \cup {Cleared, None}]
      /\ \A u \in Transports : binding'[u] = IF u = t THEN s ELSE binding[u]
      /\ presence' \in [Sessions -> Transports \cup {None}]
  BY <1>1, <1>2, <1>3, RowsTyped
<1> HIDE DEF t, c, key, held
<1>9. TypeOK'
  BY <1>2, <1>5, <1>6, <1>7, <1>8, <1>16 DEF TypeOK, SessionRows, RequestRows
<1>10. /\ \A q \in Sessions : Created(q) => Created(q)' /\ session'[q] = session[q]
       /\ Created(s)'
  BY <1>5 DEF Created
<1>11. BindingsCreated'
  <2>1. \A u \in Transports : binding'[u] # None => Opened(u)
    BY <1>2, <1>3, <1>8 DEF TransportInv, BindingsCreated
  <2>2. \A u \in Transports : binding'[u] \in Sessions => session'[binding'[u]].status # "unused"
    BY <1>8, <1>10 DEF TransportInv, BindingsCreated, Created
  <2>3. /\ \A u \in Transports : tombstone[u] # None => Created(tombstone[u])'
        /\ \A u \in Transports : transport[u].last # None => Created(transport[u].last)'
    BY <1>2, <1>10, RowsTyped DEF TransportInv, BindingsCreated, TransportRows
  <2>4. \A d \in Clients : bookmark'[d] # None => Opened(bookmark'[d])
    BY <1>3, <1>6 DEF TransportInv, BindingsCreated
  <2>5. \A q \in Sessions : session'[q].status # "unused" => session'[q].key # None
    BY <1>2, <1>5 DEF TransportInv, BindingsCreated, Created
  <2>6. \A q \in Sessions : presence'[q] # None => session'[q].status # "unused"
    <3>1. \A q \in Sessions : q # s => presence'[q] = presence[q]
      BY <1>1, <1>2, RowsTyped
    <3> QED BY <1>10, <3>1 DEF TransportInv, BindingsCreated, Created
  <2> QED BY <1>2, <2>1, <2>2, <2>3, <2>4, <2>5, <2>6
          DEF TransportInv, BindingsCreated, Opened, Created
<1>12. BoundToStatedIdentity'
  <2> SUFFICES ASSUME NEW u \in Transports, binding'[u] \in Sessions
               PROVE  session'[binding'[u]].key \in
                        Headers[transport[u].owner] \cup {linked'[transport[u].owner]}
    BY <1>2 DEF BoundToStatedIdentity
  <2>1. CASE u = t
    BY <1>3, <1>5, <1>8, <1>16, <2>1
  <2>2. CASE u # t
    <3>1. binding'[u] = binding[u] /\ Created(binding[u])
      BY <1>8, <2>2 DEF TransportInv, BindingsCreated
    <3>2. session'[binding[u]].key = session[binding[u]].key /\ session[binding[u]].key # None
      BY <1>10, <3>1 DEF TransportInv, BindingsCreated
    <3>3. session[binding[u]].key \in Headers[transport[u].owner] \cup {linked[transport[u].owner]}
      BY <3>1 DEF TransportInv, BoundToStatedIdentity
    <3>4. CASE transport[u].owner \in Clients
      BY <1>16, <3>1, <3>2, <3>3, <3>4
    <3>5. CASE transport[u].owner \notin Clients
      BY <1>2, <3>1, <3>2, <3>3, <3>5
    <3> QED BY <3>4, <3>5
  <2> QED BY <2>1, <2>2
<1>13. ASSUME NEW q \in Requests PROVE RequestHolds(q)'
  BY <1>2, <1>7 DEF TransportInv, RequestHolds, Opened
<1>14. ASSUME NEW q \in Requests PROVE SurrogatePrivate(q)'
  <2>1. request[q].pc = "handshake" => request[q].at \in Transports /\ request[q].at # None
    BY NotASession DEF TransportInv, RequestHolds
  <2> QED BY <1>2, <1>4, <1>6, <1>7, <1>8, <2>1 DEF TransportInv, SurrogatePrivate
<1>15. ASSUME NEW u \in Transports PROVE Traceable(u)'
  <2>1. transport[u].last # None =>
          transport[u].last \in Sessions /\ session'[transport[u].last] = session[transport[u].last]
    BY <1>10, RowsTyped DEF TransportInv, BindingsCreated, TransportRows
  <2> QED BY <1>2, <1>3, <1>8, <2>1 DEF TransportInv, Traceable
<1> QED BY <1>9, <1>11, <1>12, <1>13, <1>14, <1>15 DEF TransportInv

LEMMA TickStartKeeps == ASSUME TransportInv, TickStart PROVE TransportInv'
<1>1. UNCHANGED <<transport, binding, tombstone, adopted, bookmark, linked, session, presence, request>>
  BY DEF TickStart, tables
<1>2. tick' \in [left : SUBSET (Sessions \X Transports), drop : Sessions \cup {None}]
  <2> DEFINE left == {<<s, presence[s]>> : s \in {q \in Sessions : presence[q] # None}}
  <2>1. left \subseteq Sessions \X Transports
    BY RowsTyped DEF TransportInv
  <2>2. tick' = [tick EXCEPT !.left = left]
    BY DEF TickStart
  <2> HIDE DEF left
  <2> QED BY <2>1, <2>2 DEF TransportInv, TypeOK
<1> QED BY <1>1, <1>2 DEF TransportInv, TypeOK, BindingsCreated, BoundToStatedIdentity, RequestHolds,
        SurrogatePrivate, Traceable, Opened, Created

LEMMA TickDropKeeps == ASSUME TransportInv, TickDrop PROVE TransportInv'
<1>1. UNCHANGED <<transport, binding, tombstone, adopted, bookmark, linked, session, request>>
  BY DEF TickDrop, tables
<1>2. TypeOK'
  BY <1>1 DEF TickDrop, TransportInv, TypeOK
<1>3. \A s \in Sessions : presence'[s] # None => presence[s] # None
  BY RowsTyped DEF TickDrop, TransportInv
<1> QED BY <1>1, <1>2, <1>3 DEF TransportInv, BindingsCreated, BoundToStatedIdentity, RequestHolds,
        SurrogatePrivate, Traceable, Opened, Created

LEMMA TickCheckKeeps ==
  ASSUME TransportInv, NEW s \in Sessions, NEW t \in Transports, TickCheck(s, t)
  PROVE  TransportInv'
<1>1. /\ UNCHANGED <<transport, adopted, bookmark, linked, session, presence, request>> /\ TypeOK
      /\ tick' = [left |-> tick.left \ {<<s, t>>}, drop |-> IF Dead(s, t) THEN s ELSE None]
      /\ \/ UNCHANGED <<binding, tombstone>>
         \/ binding' = RetainedBinding(t) /\ tombstone' = RetainedTombstone(t)
  BY DEF TickCheck, TransportInv
<1>2. tick' \in [left : SUBSET (Sessions \X Transports), drop : Sessions \cup {None}]
  BY <1>1 DEF TypeOK
<1>3. CASE UNCHANGED <<binding, tombstone>>
  BY <1>1, <1>2, <1>3 DEF TransportInv, TypeOK, BindingsCreated, BoundToStatedIdentity, RequestHolds,
     SurrogatePrivate, Traceable, Opened, Created
<1>4. CASE binding' = RetainedBinding(t) /\ tombstone' = RetainedTombstone(t)
  <2>1. /\ \A u \in Transports : binding'[u] = IF u = t THEN None ELSE binding[u]
        /\ \A u \in Transports : tombstone'[u] =
              IF u = t /\ binding[t] \in Sessions THEN binding[t] ELSE tombstone[u]
        /\ \A u \in Transports :
              LET q == transport[u].last IN
              q # None /\ session[q].status = "open" =>
                binding'[u] = q \/ (binding'[u] \notin Sessions /\ tombstone'[u] = q)
    BY <1>4, RetainingKeeps
  <2>2. TypeOK'
    BY <1>1, <1>2, <1>4, TablesTyped DEF TypeOK
  <2>3. BindingsCreated' /\ BoundToStatedIdentity'
    BY <1>1, <2>1, NotASession DEF TransportInv, BindingsCreated, BoundToStatedIdentity, Opened, Created
  <2>4. \A u \in Transports : Traceable(u)'
    BY <1>1, <2>1 DEF TransportInv, Traceable
  <2>5. \A q \in Requests : RequestHolds(q)' /\ SurrogatePrivate(q)'
    BY <1>1, <2>1 DEF TransportInv, RequestHolds, SurrogatePrivate, Opened
  <2> QED BY <2>2, <2>3, <2>4, <2>5 DEF TransportInv
<1> QED BY <1>1, <1>3, <1>4

LEMMA RestartKeeps ==
  ASSUME TransportInv, NEW clean \in BOOLEAN, Restart(clean) PROVE TransportInv'
<1>1. /\ binding' = [t \in Transports |-> None] /\ tombstone' = [t \in Transports |-> None]
      /\ adopted' = [t \in Transports |-> None] /\ presence' = [s \in Sessions |-> None]
      /\ tick' = [left |-> {}, drop |-> None] /\ request' = [r \in Requests |-> Idle]
      /\ UNCHANGED <<bookmark, linked>> /\ TypeOK
  BY DEF Restart, TransportInv
<1>2. /\ transport' \in [Transports -> TransportRows]
      /\ \A t \in Transports :
           /\ Opened(t)' <=> Opened(t)
           /\ Opened(t) => transport'[t].last = None
           /\ ~Opened(t) => transport'[t] = transport[t]
  BY <1>1, TransportsRestarted
<1>3. /\ session' \in [Sessions -> SessionRows]
      /\ \A s \in Sessions : (Created(s) <=> Created(s)') /\ session'[s].key = session[s].key
  <2>1. \A s \in Sessions : session[s] \in SessionRows
    BY <1>1, RowsTyped
  <2>2. \A s \in Sessions : presence[s] # None => Created(s)
    BY DEF TransportInv, BindingsCreated
  <2> QED BY <1>1, <2>1, <2>2, SessionClosed DEF Restart, Created
<1>4. \A r \in Requests : request'[r] \in RequestRows /\ request'[r].pc = "idle" /\ request'[r].at = None
  BY <1>1 DEF Idle, RequestRows
<1>5. request' \in [Requests -> RequestRows]
  BY <1>1, <1>4
<1>6. TypeOK'
  <2>1. /\ binding' \in [Transports -> Sessions \cup {Cleared, None}]
        /\ tombstone' \in [Transports -> Sessions \cup {None}]
        /\ adopted' \in [Transports -> Transports \cup {None}]
        /\ presence' \in [Sessions -> Transports \cup {None}]
        /\ tick' \in [left : SUBSET (Sessions \X Transports), drop : Sessions \cup {None}]
        /\ bookmark' \in [Clients -> Transports \cup {None}]
        /\ linked' \in [Clients -> SoftwareKeys \cup {None}]
    BY <1>1, RowsTyped
  <2> QED BY <1>2, <1>3, <1>5, <2>1 DEF TypeOK, TransportRows, SessionRows, RequestRows
<1>7. \A t \in Transports : transport'[t].last = None
  BY <1>2 DEF TransportInv, Traceable, Opened
<1>8. BindingsCreated' /\ BoundToStatedIdentity' /\ \A t \in Transports : Traceable(t)'
  <2>1. \A c \in Clients : bookmark'[c] # None => transport'[bookmark'[c]].status # "unused"
    BY <1>1, <1>2, RowsTyped DEF TransportInv, BindingsCreated, Opened
  <2>2. \A s \in Sessions : session'[s].status # "unused" => session'[s].key # None
    BY <1>3 DEF TransportInv, BindingsCreated, Created
  <2> QED BY <1>1, <1>2, <1>7, <2>1, <2>2, NotASession
          DEF TransportInv, BindingsCreated, BoundToStatedIdentity, Traceable, Opened, Created
<1>9. \A r \in Requests : RequestHolds(r)' /\ SurrogatePrivate(r)'
  BY <1>4 DEF RequestHolds, SurrogatePrivate
<1> QED BY <1>6, <1>8, <1>9 DEF TransportInv

LEMMA NextBindings == TransportInv /\ [Next]_vars => TransportInv'
<1>1. CASE UNCHANGED vars
  BY <1>1 DEF vars, tables, TransportInv, TypeOK, BindingsCreated, BoundToStatedIdentity, RequestHolds,
     SurrogatePrivate, Traceable, Opened, Created
<1> QED BY <1>1, ConnectKeeps, ReapKeeps, OpenKeeps, RequestFailsKeeps, AdoptKeeps, CallKeeps,
        LeaveKeeps, BootstrapStartKeeps, BootstrapEndKeeps, TickStartKeeps, TickCheckKeeps,
        TickDropKeeps, RestartKeeps DEF Next

----------------------------------------------------------------------------
(* The theorems. *)

\* The tables of the server name transports and sessions that exist, and hold
\* only ids (mcp_server.py, mcp_http_adoption.py, presence.py).
THEOREM BindingsInvariant == Spec => []TransportInv
BY InitBindings, NextBindings, PTL DEF Spec

\* Every table of the server has its type, always.
THEOREM TransportTypeCorrect == Spec => []TypeOK
BY BindingsInvariant, PTL DEF TransportInv

\* No interleaving of bookmarks, adoptions, bootstraps and restarts binds a
\* transport to the Room session of an identity that its client never states and
\* that its credential is not linked to.
THEOREM AlwaysBoundToStatedIdentity == Spec => []BoundToStatedIdentity
BY BindingsInvariant, PTL DEF TransportInv

LEMMA BootstrapStep ==
  TransportInv /\ [Next]_vars =>
    [\A r \in Requests :
       BootstrapEnd(r) => session'[binding'[request[r].at]].key = linked'[ClientOf[r]]]_vars
<1> SUFFICES ASSUME TransportInv, NEW r \in Requests, BootstrapEnd(r)
             PROVE  session'[binding'[request[r].at]].key = linked'[ClientOf[r]]
  OBVIOUS
<1> DEFINE t == request[r].at
           c == ClientOf[r]
           key == Identity(c, request[r].key)
<1>1. PICK s \in Sessions :
        /\ IF Restorable(request[r].held, key)
           THEN s = request[r].held /\ UNCHANGED session
           ELSE /\ FreshSession(s)
                /\ session' = [session EXCEPT ![s] = [key |-> key, status |-> "open"]]
        /\ binding' = [binding EXCEPT ![t] = s]
  BY DEF BootstrapEnd
<1>2. /\ TypeOK /\ t \in Transports /\ c \in Clients /\ key # None
      /\ linked' = [linked EXCEPT ![c] = key]
  BY RequestsAssumption DEF BootstrapEnd, TransportInv, RequestHolds
<1>3. key \in SoftwareKeys
  BY <1>2, RowsTyped DEF Identity, RequestRows
<1>4. session'[s].key = key
  BY <1>1, <1>2, <1>3, SessionBound
<1>5. binding'[t] = s /\ linked'[c] = key
  BY <1>1, <1>2, RowsTyped
<1> QED BY <1>4, <1>5

\* A bootstrap leaves its client in a session of the identity its credential is
\* linked to, whatever an adoption had bound to the transport before.
THEOREM BootstrapAlwaysActsAsLinked == Spec => BootstrapActsAsLinked
BY BindingsInvariant, BootstrapStep, PTL DEF BootstrapActsAsLinked, Spec

LEMMA AdoptionStep ==
  TransportInv /\ [Next]_vars =>
    [\A r \in Requests :
       LET b == request[r].bookmark
           s == transport[b].last
       IN (/\ Adopt(r)
           /\ s # None
           /\ session[s].key = request[r].key
           /\ session[s].status = "open") => binding'[request[r].at] = s]_vars
BY AdoptKeeps

\* An adoption gives a client that states the session's key back the session its
\* reaped transport died with, wherever the presence thread and concurrent adoptions are.
THEOREM AdoptionAlwaysResumes == Spec => AdoptionResumes
BY BindingsInvariant, AdoptionStep, PTL DEF AdoptionResumes, Spec
================================================================================
