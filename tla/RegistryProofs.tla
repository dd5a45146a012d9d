---------------------------- MODULE RegistryProofs ----------------------------
(***************************************************************************)
(* The Room of a repository, for any numbers of Rooms, directories,        *)
(* remotes and calls.  What makes a scope change hands is always looked at *)
(* in the transaction that changes it; what a call has read before decides *)
(* only which Room it asks for, and a Room never moves to another root.    *)
(***************************************************************************)
EXTENDS Registry, TLAPS

RoomRows == [status : {"absent", "active", "archived", "deleted"},
             root : Dirs \cup {None}, remote : Origins]
CallRows == [pc : Steps, kind : Kinds, dir : Dirs \cup {None}, pin : Keys \cup {None},
             remote : Origins, room : Keys \cup {None},
             scope : Scopes \cup {None}, dirs : SUBSET Dirs]

RoomsRooted == \A k \in Keys : Exists(k) => rooms[k].root \in Dirs

\* What a call has in hand at each of its steps.
CallKnows(r, table) ==
    /\ r.pc \in {"resolve", "create", "register", "enter"} => r.dir \in Dirs
    /\ r.pc \in {"register", "enter"} => r.room \in Keys /\ r.scope \in Scopes
    /\ r.pc \in {"delete", "cleanup"} => r.room \in Keys
    /\ r.pc \in {"own", "heal"} =>
          /\ r.room \in Keys /\ r.remote \in Remotes
          /\ table[r.room].status # "absent"
          /\ table[r.room].root = r.dir

RegistryInv ==
    /\ TypeOK
    /\ RoomsRooted
    /\ \A c \in Calls : CallKnows(call[c], rooms)
    /\ OneActiveRoomPerRepository

-------------------------------------------------------------------------------
(* Scopes. *)

LEMMA ScopesTyped ==
    ASSUME NEW d \in Dirs, NEW r \in Origins
    PROVE  /\ RoomScope(d, r) \in Scopes
           /\ CandidateScope(d, r) \in Scopes
           /\ r # None => RoomScope(d, r) = CandidateScope(d, r)
BY RegistryAssumption DEF RoomScope, CandidateScope, Git, Path, Scopes, Origins

LEMMA CheckoutTyped ==
    ASSUME TypeOK, NEW d \in Dirs
    PROVE  Origin(d) \in Origins /\ CheckoutScope(d) \in Scopes
BY RegistryAssumption DEF TypeOK, Origin, CheckoutScope, Git, Path, Scopes, Origins

LEMMA OriginTyped == ASSUME TypeOK, NEW d \in Dirs PROVE Origin(d) \in Origins
BY RegistryAssumption DEF TypeOK, Origin

-------------------------------------------------------------------------------
(* Steps that leave the rooms alone. *)

\* A call that moves on or returns.
LEMMA CallMoves ==
    ASSUME RegistryInv, UNCHANGED <<rooms, remoteOf>>,
           registration' \in [Dirs -> Registered \cup {None}],
           {sessions', named'} \subseteq SUBSET (Keys \X Dirs),
           NEW c \in Calls, NEW row \in CallRows, CallKnows(row, rooms),
           call' = [call EXCEPT ![c] = row]
    PROVE  RegistryInv'
<1>1. TypeOK'
  BY DEF RegistryInv, TypeOK, CallRows
<1>2. RoomsRooted' /\ OneActiveRoomPerRepository'
  BY DEF RegistryInv, RoomsRooted, OneActiveRoomPerRepository, Exists, Active, StoredScope
<1>3. \A b \in Calls : CallKnows(call'[b], rooms')
  <2> SUFFICES ASSUME NEW b \in Calls PROVE CallKnows(call'[b], rooms')
    OBVIOUS
  <2>1. call'[b] = row \/ call'[b] = call[b]
    BY DEF RegistryInv, TypeOK
  <2> QED BY <2>1 DEF RegistryInv, CallKnows
<1> QED BY <1>1, <1>2, <1>3 DEF RegistryInv

\* NoCall knows nothing and needs nothing.
LEMMA NoCallKnows == NoCall \in CallRows /\ CallKnows(NoCall, rooms)
BY DEF NoCall, CallRows, CallKnows, Steps, Kinds, Origins

\* A row of the schema that belongs to a Room.
LEMMA CallTyped ==
    ASSUME TypeOK, NEW c \in Calls
    PROVE  call[c] \in CallRows
BY DEF TypeOK, CallRows

-------------------------------------------------------------------------------
(* Steps that write one row of the projects table. *)

\* The row keeps the Room where it is, and its new scope has no other owner.
LEMMA RoomWrite ==
    ASSUME RegistryInv, NEW k \in Keys, NEW row \in RoomRows,
           rooms' = [rooms EXCEPT ![k] = row],
           row.status # "absent",
           row.status \in {"active", "archived"} => row.root \in Dirs,
           rooms[k].status # "absent" => row.root = rooms[k].root,
           row.status = "active" /\ row.remote # None =>
              \A j \in Keys \ {k} : Active(j) /\ rooms[j].remote # None =>
                                    StoredScope(j) # RoomScope(row.root, row.remote)
    PROVE  /\ rooms' \in [Keys -> RoomRows]
           /\ RoomsRooted'
           /\ \A c \in Calls : CallKnows(call'[c], rooms') \/ call'[c] # call[c]
           /\ OneActiveRoomPerRepository'
<1>1. /\ rooms' \in [Keys -> RoomRows]
      /\ rooms'[k] = row
      /\ \A j \in Keys \ {k} : rooms'[j] = rooms[j]
  BY DEF RegistryInv, TypeOK, RoomRows
<1>2. RoomsRooted'
  BY <1>1 DEF RegistryInv, RoomsRooted, Exists
<1>3. \A c \in Calls : CallKnows(call'[c], rooms') \/ call'[c] # call[c]
  <2> SUFFICES ASSUME NEW c \in Calls, call'[c] = call[c] PROVE CallKnows(call'[c], rooms')
    OBVIOUS
  <2>1. CallKnows(call[c], rooms)
    BY DEF RegistryInv
  <2> QED BY <1>1, <2>1 DEF CallKnows
<1>4. OneActiveRoomPerRepository'
  <2> SUFFICES ASSUME NEW i \in Keys, NEW j \in Keys, rooms'[i].status = "active",
                      rooms'[j].status = "active",
                      rooms'[i].remote # None, rooms'[j].remote # None,
                      RoomScope(rooms'[i].root, rooms'[i].remote)
                         = RoomScope(rooms'[j].root, rooms'[j].remote)
               PROVE  i = j
    BY DEF OneActiveRoomPerRepository, Active, StoredScope
  <2>1. CASE i # k /\ j # k
    BY <1>1, <2>1 DEF RegistryInv, OneActiveRoomPerRepository, Active, StoredScope
  <2>2. CASE i = k /\ j # k
    BY <1>1, <2>2 DEF Active, StoredScope
  <2>3. CASE i # k /\ j = k
    BY <1>1, <2>3 DEF Active, StoredScope
  <2> QED BY <2>1, <2>2, <2>3
<1> QED BY <1>1, <1>2, <1>3, <1>4

\* The same together with the call that did it.
LEMMA RoomWriteBy ==
    ASSUME RegistryInv, NEW k \in Keys, NEW row \in RoomRows,
           rooms' = [rooms EXCEPT ![k] = row],
           row.status # "absent",
           row.status \in {"active", "archived"} => row.root \in Dirs,
           rooms[k].status # "absent" => row.root = rooms[k].root,
           row.status = "active" /\ row.remote # None =>
              \A j \in Keys \ {k} : Active(j) /\ rooms[j].remote # None =>
                                    StoredScope(j) # RoomScope(row.root, row.remote),
           UNCHANGED <<remoteOf, registration>>,
           {sessions', named'} \subseteq SUBSET (Keys \X Dirs),
           NEW c \in Calls, NEW new \in CallRows, CallKnows(new, rooms'),
           call' = [call EXCEPT ![c] = new]
    PROVE  RegistryInv'
<1>1. /\ rooms' \in [Keys -> RoomRows] /\ RoomsRooted'
      /\ \A b \in Calls : CallKnows(call'[b], rooms') \/ call'[b] # call[b]
      /\ OneActiveRoomPerRepository'
  BY RoomWrite
<1>2. TypeOK'
  BY <1>1 DEF RegistryInv, TypeOK, CallRows, RoomRows
<1>3. \A b \in Calls : CallKnows(call'[b], rooms')
  <2> SUFFICES ASSUME NEW b \in Calls PROVE CallKnows(call'[b], rooms')
    OBVIOUS
  <2>1. CASE b = c
    BY <2>1 DEF RegistryInv, TypeOK
  <2>2. CASE b # c
    BY <1>1, <2>2 DEF RegistryInv, TypeOK
  <2> QED BY <2>1, <2>2
<1> QED BY <1>1, <1>2, <1>3 DEF RegistryInv

-------------------------------------------------------------------------------
(* The steps. *)

\* Resolve: a Room that is found is handed over, one that is healed takes a
\* scope that the same transaction saw without an owner.
LEMMA ResolveKeeps == ASSUME RegistryInv, NEW c \in Calls, Resolve(c) PROVE RegistryInv'
<1> DEFINE d == call[c].dir
           r == call[c].remote
           owners == InScope(CandidateScope(d, r))
           heals == Healable(c, owners)
           found == IF heals # {} THEN heals ELSE owners
<1>1. /\ d \in Dirs /\ r \in Origins /\ call[c].pc = "resolve"
      /\ call[c] \in CallRows
      /\ UNCHANGED <<remoteOf, registration, sessions, named>>
      /\ registration \in [Dirs -> Registered \cup {None}]
      /\ {sessions, named} \subseteq SUBSET (Keys \X Dirs)
  BY CallTyped DEF RegistryInv, CallKnows, Resolve, At, CallRows, TypeOK
<1>2. ASSUME NEW k \in ActiveIn(found), ActiveIn(found) = {k},
             IF heals # {} THEN Heal(k, r) ELSE UNCHANGED rooms,
             Found(c, k, IF heals # {} THEN r ELSE rooms[k].remote)
      PROVE  RegistryInv'
  <2> DEFINE new == [call[c] EXCEPT !.pc = "register", !.room = k,
                        !.scope = RoomScope(rooms[k].root, IF heals # {} THEN r ELSE rooms[k].remote),
                        !.pin = None, !.remote = None]
  <2>1. /\ k \in Keys /\ rooms[k].status = "active" /\ rooms[k].root \in Dirs
        /\ rooms[k] \in RoomRows
    BY <1>2 DEF ActiveIn, Active, Healable, RootedAt, InScope, Exists, RegistryInv, RoomsRooted,
                TypeOK, RoomRows
  <2>2. RoomScope(rooms[k].root, IF heals # {} THEN r ELSE rooms[k].remote) \in Scopes
    BY <1>1, <2>1, ScopesTyped DEF RoomRows
  <2>3. call' = [call EXCEPT ![c] = new]
    BY <1>2, <1>1 DEF Found, Given, CallRows, RegistryInv, TypeOK
  <2>4. new \in CallRows /\ new.pc = "register" /\ new.dir = d /\ new.room = k /\ new.scope \in Scopes
    BY <1>1, <2>1, <2>2 DEF CallRows, Steps, Origins
  <2> HIDE DEF new
  <2>5. CASE heals = {}
    <3>1. CallKnows(new, rooms)
      BY <1>1, <2>1, <2>4 DEF CallKnows
    <3> QED BY <1>1, <1>2, <2>3, <2>4, <2>5, <3>1, CallMoves
  <2>6. CASE heals # {}
    <3> DEFINE row == [rooms[k] EXCEPT !.remote = r]
    <3>1. rooms' = [rooms EXCEPT ![k] = row]
      BY <1>2, <2>1, <2>6 DEF Heal, RegistryInv, TypeOK
    <3>2. /\ row \in RoomRows /\ row.status = "active" /\ row.root = rooms[k].root /\ row.remote = r
      BY <1>1, <2>1 DEF RoomRows
    <3>3. owners = {} /\ r # None /\ rooms[k].root = d
      BY <1>2, <2>6 DEF Healable, ActiveIn, RootedAt
    <3>4. \A j \in Keys \ {k} : Active(j) /\ rooms[j].remote # None =>
                                StoredScope(j) # RoomScope(row.root, row.remote)
      BY <1>1, <3>2, <3>3, ScopesTyped DEF InScope, Exists, Active
    <3>5. CallKnows(new, rooms')
      BY <1>1, <2>1, <2>4 DEF CallKnows
    <3> HIDE DEF row
    <3> QED BY <1>1, <2>1, <2>3, <2>4, <3>1, <3>2, <3>4, <3>5, RoomWriteBy
  <2> QED BY <2>5, <2>6
<1>3. ASSUME call' = [call EXCEPT ![c].pc = "create", ![c].remote = Origin(d)], UNCHANGED rooms
      PROVE  RegistryInv'
  <2> DEFINE new == [call[c] EXCEPT !.pc = "create", !.remote = Origin(d)]
  <2>1. call' = [call EXCEPT ![c] = new]
    BY <1>1, <1>3 DEF CallRows, RegistryInv, TypeOK
  <2>2. new \in CallRows /\ CallKnows(new, rooms)
    BY <1>1, OriginTyped DEF CallRows, Steps, CallKnows, RegistryInv
  <2> HIDE DEF new
  <2> QED BY <1>1, <1>3, <2>1, <2>2, CallMoves
<1>4. ASSUME Return(c), UNCHANGED rooms PROVE RegistryInv'
  BY <1>1, <1>4, NoCallKnows, CallMoves DEF Return
<1> QED BY <1>2, <1>3, <1>4 DEF Resolve

\* Create: the transaction that inserts or restores a Room has looked for the
\* owners of its scope itself.
LEMMA CreateKeeps == ASSUME RegistryInv, NEW c \in Calls, Create(c) PROVE RegistryInv'
<1> DEFINE d == call[c].dir
           r == call[c].remote
           owners == InScope(CandidateScope(d, r))
           Row(k, scope) == [call[c] EXCEPT !.pc = "register", !.room = k, !.scope = scope,
                                            !.pin = None, !.remote = None]
<1>1. /\ d \in Dirs /\ r \in Origins /\ call[c].pc = "create"
      /\ call[c] \in CallRows
      /\ UNCHANGED <<remoteOf, registration, sessions, named>>
      /\ registration \in [Dirs -> Registered \cup {None}]
      /\ {sessions, named} \subseteq SUBSET (Keys \X Dirs)
  BY CallTyped DEF RegistryInv, CallKnows, Create, At, CallRows, TypeOK
<1>2. ASSUME NEW k \in Keys, NEW scope \in Scopes
      PROVE  /\ Row(k, scope) \in CallRows
             /\ CallKnows(Row(k, scope), rooms) /\ CallKnows(Row(k, scope), rooms')
             /\ Given(c, k, scope) => call' = [call EXCEPT ![c] = Row(k, scope)]
  BY <1>1, <1>2 DEF CallRows, Steps, Origins, CallKnows, RegistryInv, TypeOK, Given
<1> HIDE DEF Row
<1>3. ASSUME NEW k \in owners
      PROVE  /\ k \in Keys /\ rooms[k].root \in Dirs /\ rooms[k] \in RoomRows
             /\ rooms[k].status \in {"active", "archived"}
             /\ StoredScope(k) = CandidateScope(d, r)
             /\ RoomScope(rooms[k].root, rooms[k].remote) \in Scopes
  BY <1>3, ScopesTyped DEF InScope, Exists, RegistryInv, RoomsRooted, TypeOK, RoomRows
<1>4. ASSUME NEW k \in ActiveIn(owners), Found(c, k, rooms[k].remote), UNCHANGED rooms
      PROVE  RegistryInv'
  BY <1>1, <1>2, <1>3, <1>4, CallMoves DEF ActiveIn, Found
<1>5. ASSUME NEW k \in owners, owners = {k},
             rooms' = [rooms EXCEPT ![k].status = "active"], Found(c, k, rooms[k].remote)
      PROVE  RegistryInv'
  <2> DEFINE row == [rooms[k] EXCEPT !.status = "active"]
  <2>1. rooms' = [rooms EXCEPT ![k] = row]
    BY <1>3, <1>5 DEF RegistryInv, TypeOK
  <2>2. /\ row \in RoomRows /\ row.status = "active" /\ row.root = rooms[k].root
        /\ row.remote = rooms[k].remote
    BY <1>3 DEF RoomRows
  <2>3. \A j \in Keys \ {k} : Active(j) /\ rooms[j].remote # None =>
                              StoredScope(j) # RoomScope(row.root, row.remote)
    BY <1>3, <1>5, <2>2 DEF InScope, Exists, Active, StoredScope
  <2> HIDE DEF row
  <2>4. call' = [call EXCEPT ![c] = Row(k, RoomScope(rooms[k].root, rooms[k].remote))]
    BY <1>2, <1>3, <1>5 DEF Found
  <2> QED BY <1>1, <1>2, <1>3, <2>1, <2>2, <2>3, <2>4, RoomWriteBy
<1>6. ASSUME owners = {}, NEW k \in Keys, rooms[k].status = "absent",
             rooms' = [rooms EXCEPT ![k] = [status |-> "active", root |-> d, remote |-> r]],
             Given(c, k, RoomScope(d, r))
      PROVE  RegistryInv'
  <2> DEFINE row == [status |-> "active", root |-> d, remote |-> r]
  <2>1. /\ row \in RoomRows /\ row.status = "active" /\ row.root = d /\ row.remote = r
        /\ rooms' = [rooms EXCEPT ![k] = row]
    BY <1>1, <1>6 DEF RoomRows
  <2>2. row.remote # None => \A j \in Keys \ {k} : Active(j) /\ rooms[j].remote # None =>
                              StoredScope(j) # RoomScope(row.root, row.remote)
    BY <1>1, <1>6, <2>1, ScopesTyped DEF InScope, Exists, Active
  <2>3. call' = [call EXCEPT ![c] = Row(k, RoomScope(d, r))]
    BY <1>1, <1>2, <1>6, ScopesTyped
  <2> HIDE DEF row
  <2> QED BY <1>1, <1>2, <1>6, <2>1, <2>2, <2>3, ScopesTyped, RoomWriteBy
<1>7. ASSUME Return(c), UNCHANGED rooms PROVE RegistryInv'
  BY <1>1, <1>7, NoCallKnows, CallMoves DEF Return
<1> QED BY <1>4, <1>5, <1>6, <1>7 DEF Create

\* ReadHeal: the rivals are looked at again in the transaction that heals.
LEMMA ReadHealKeeps == ASSUME RegistryInv, NEW c \in Calls, ReadHeal(c) PROVE RegistryInv'
<1> DEFINE k == call[c].room
           r == call[c].remote
<1>1. /\ call[c].pc = "heal" /\ k \in Keys /\ r \in Remotes /\ r \in Origins /\ r # None
      /\ rooms[k].root = call[c].dir /\ rooms[k].status # "absent"
      /\ UNCHANGED <<remoteOf, registration, sessions, named>>
      /\ registration \in [Dirs -> Registered \cup {None}]
      /\ {sessions, named} \subseteq SUBSET (Keys \X Dirs)
      /\ rooms[k] \in RoomRows
      /\ call' = [call EXCEPT ![c] = NoCall]
  BY RegistryAssumption DEF RegistryInv, CallKnows, ReadHeal, At, Return, TypeOK, RoomRows, Origins
<1>2. CASE ~HealHolds(c)
  BY <1>1, <1>2, NoCallKnows, CallMoves DEF ReadHeal
<1>3. CASE HealHolds(c)
  <2> DEFINE row == [rooms[k] EXCEPT !.remote = r]
  <2>1. rooms' = [rooms EXCEPT ![k] = row]
    BY <1>1, <1>3 DEF ReadHeal, Heal, RegistryInv, TypeOK
  <2>2. /\ rooms[k].status = "active" /\ rooms[k].root \in Dirs
        /\ row \in RoomRows /\ row.status = "active" /\ row.root = rooms[k].root /\ row.remote = r
    BY <1>1, <1>3 DEF HealHolds, StillPath, Active, RoomRows, RegistryInv, RoomsRooted, Exists
  <2>3. \A j \in Keys \ {k} : Active(j) /\ rooms[j].remote # None =>
                              StoredScope(j) # RoomScope(row.root, row.remote)
    BY <1>1, <1>3, <2>2, ScopesTyped DEF HealHolds, Rivals, ActiveIn, InScope, Exists, Active
  <2>4. CallKnows(NoCall, rooms')
    BY DEF NoCall, CallKnows
  <2> HIDE DEF row
  <2> QED BY <1>1, <2>1, <2>2, <2>3, <2>4, NoCallKnows, RoomWriteBy
<1> QED BY <1>2, <1>3

\* Archiving and deleting only take rooms out of use.
LEMMA ArchiveKeeps == ASSUME RegistryInv, NEW k \in Keys, Archive(k) PROVE RegistryInv'
<1> DEFINE row == [rooms[k] EXCEPT !.status = "archived"]
<1>1. /\ rooms' = [rooms EXCEPT ![k] = row]
      /\ row \in RoomRows /\ row.status = "archived" /\ row.root = rooms[k].root
      /\ row.root \in Dirs
      /\ UNCHANGED <<remoteOf, registration, sessions, named, call>>
  BY DEF Archive, Active, RegistryInv, RoomsRooted, Exists, TypeOK, RoomRows
<1> HIDE DEF row
<1>2. /\ rooms' \in [Keys -> RoomRows] /\ RoomsRooted'
      /\ \A c \in Calls : CallKnows(call'[c], rooms') \/ call'[c] # call[c]
      /\ OneActiveRoomPerRepository'
  BY <1>1, RoomWrite
<1> QED BY <1>1, <1>2 DEF RegistryInv, TypeOK, RoomRows

LEMMA DeleteKeeps == ASSUME RegistryInv, NEW c \in Calls, Delete(c) PROVE RegistryInv'
<1> DEFINE k == call[c].room
<1>1. /\ call[c].pc = "delete" /\ k \in Keys /\ call[c] \in CallRows /\ rooms[k] \in RoomRows
      /\ UNCHANGED <<remoteOf, registration>>
      /\ registration \in [Dirs -> Registered \cup {None}]
      /\ {sessions, named} \subseteq SUBSET (Keys \X Dirs)
  BY CallTyped DEF RegistryInv, CallKnows, Delete, At, TypeOK, CallRows, RoomRows
<1>2. CASE ~Exists(k)
  BY <1>1, <1>2, NoCallKnows, CallMoves DEF Delete, Return
<1>3. CASE Exists(k)
  <2> DEFINE row == [rooms[k] EXCEPT !.status = "deleted"]
             new == [call[c] EXCEPT !.pc = "cleanup"]
  <2>1. /\ rooms' = [rooms EXCEPT ![k] = row]
        /\ row \in RoomRows /\ row.status = "deleted" /\ row.root = rooms[k].root
        /\ {sessions', named'} \subseteq SUBSET (Keys \X Dirs)
    BY <1>1, <1>3 DEF Delete, RegistryInv, TypeOK, RoomRows
  <2>2. /\ call' = [call EXCEPT ![c] = new]
        /\ new \in CallRows /\ CallKnows(new, rooms')
    BY <1>1, <1>3 DEF Delete, Goto, RegistryInv, TypeOK, CallRows, Steps, CallKnows
  <2> HIDE DEF row, new
  <2> QED BY <1>1, <2>1, <2>2, RoomWriteBy
<1> QED BY <1>2, <1>3

-------------------------------------------------------------------------------
LEMMA RegisterKeeps == ASSUME RegistryInv, NEW c \in Calls, Register(c) PROVE RegistryInv'
<1> DEFINE d == call[c].dir
           new == [call[c] EXCEPT !.pc = "enter"]
<1>1. /\ call[c].pc = "register" /\ d \in Dirs /\ call[c].room \in Keys /\ call[c].scope \in Scopes
      /\ call[c] \in CallRows
      /\ UNCHANGED <<rooms, remoteOf, sessions, named>>
      /\ {sessions', named'} \subseteq SUBSET (Keys \X Dirs)
  BY CallTyped DEF RegistryInv, CallKnows, Register, At, TypeOK
<1>2. registration' \in [Dirs -> Registered \cup {None}]
  BY <1>1, CheckoutTyped DEF Register, RegistryInv, TypeOK, Registered
<1>3. new \in CallRows /\ CallKnows(new, rooms)
  BY <1>1 DEF CallRows, Steps, CallKnows
<1>4. \/ call' = [call EXCEPT ![c] = NoCall]
      \/ call' = [call EXCEPT ![c] = new]
  BY <1>1 DEF Register, Return, Goto, RegistryInv, TypeOK, CallRows
<1> HIDE DEF new
<1> QED BY <1>1, <1>2, <1>3, <1>4, NoCallKnows, CallMoves

\* A call that is begun with what it reads.
LEMMA StartKeeps ==
    ASSUME RegistryInv, NEW c \in Calls,
           \/ \E d \in Dirs : \/ \E kind \in {"join", "bootstrap"} : JoinStart(c, d, kind)
                              \/ ManageCreate(c, d)
                              \/ MatchStart(c, d)
           \/ \E k \in Keys : SelectStart(c, k) \/ ReadProbe(c, k) \/ DeleteStart(c, k)
    PROVE  RegistryInv'
<1>0. /\ UNCHANGED <<rooms, remoteOf, registration, sessions, named>>
      /\ registration' \in [Dirs -> Registered \cup {None}]
      /\ {sessions', named'} \subseteq SUBSET (Keys \X Dirs)
  BY DEF JoinStart, ManageCreate, MatchStart, SelectStart, ReadProbe, DeleteStart, RegistryInv, TypeOK
<1>1. ASSUME NEW d \in Dirs, NEW kind \in {"join", "bootstrap"}, JoinStart(c, d, kind)
      PROVE  RegistryInv'
  <2> DEFINE pin == IF registration[d] = None THEN None ELSE registration[d].key
             new == [NoCall EXCEPT !.pc = "resolve", !.kind = kind, !.dir = d, !.pin = pin,
                                   !.remote = Origin(d)]
  <2>1. Origin(d) \in Origins /\ pin \in Keys \cup {None}
    BY OriginTyped DEF RegistryInv, TypeOK, Registered
  <2>2. new \in CallRows /\ CallKnows(new, rooms)
    BY <2>1 DEF NoCall, CallRows, CallKnows, Steps, Kinds, Origins
  <2>3. call' = [call EXCEPT ![c] = new]
    BY <1>1 DEF JoinStart
  <2> HIDE DEF new
  <2> QED BY <1>0, <2>2, <2>3, CallMoves
<1>2. ASSUME NEW d \in Dirs, ManageCreate(c, d) PROVE RegistryInv'
  <2> DEFINE new == [NoCall EXCEPT !.pc = "create", !.kind = "manage", !.dir = d,
                                   !.remote = Origin(d)]
  <2>1. Origin(d) \in Origins
    BY OriginTyped DEF RegistryInv
  <2>2. new \in CallRows /\ CallKnows(new, rooms)
    BY <2>1 DEF NoCall, CallRows, CallKnows, Steps, Kinds, Origins
  <2>3. call' = [call EXCEPT ![c] = new]
    BY <1>2 DEF ManageCreate
  <2> HIDE DEF new
  <2> QED BY <1>0, <2>2, <2>3, CallMoves
<1>3. ASSUME NEW d \in Dirs, MatchStart(c, d) PROVE RegistryInv'
  <2>1. PICK k \in Matching(d) :
           call' = [call EXCEPT ![c] = [NoCall EXCEPT !.pc = "register", !.kind = "bootstrap", !.dir = d,
                                              !.room = k, !.scope = StoredScope(k)]]
    BY <1>3 DEF MatchStart
  <2> DEFINE new == [NoCall EXCEPT !.pc = "register", !.kind = "bootstrap", !.dir = d,
                                   !.room = k, !.scope = StoredScope(k)]
  <2>2. k \in Keys /\ rooms[k].root \in Dirs /\ rooms[k].remote \in Origins
    BY DEF Matching, ActiveIn, InScope, Active, Exists, RegistryInv, RoomsRooted, TypeOK
  <2>3. StoredScope(k) \in Scopes
    BY <2>2, ScopesTyped DEF StoredScope
  <2>4. new \in CallRows /\ CallKnows(new, rooms)
    BY <2>2, <2>3 DEF NoCall, CallRows, CallKnows, Steps, Kinds, Origins
  <2> HIDE DEF new
  <2> QED BY <1>0, <2>1, <2>4, CallMoves DEF new
<1>4. ASSUME NEW k \in Keys, ReadProbe(c, k) PROVE RegistryInv'
  <2> DEFINE d == rooms[k].root
             new == [NoCall EXCEPT !.pc = "own", !.dir = d, !.room = k, !.remote = Origin(d)]
  <2>1. d \in Dirs /\ Active(k) /\ Origin(d) \in Remotes
    BY <1>4, OriginTyped DEF ReadProbe, Active, Exists, RegistryInv, RoomsRooted, Origins
  <2>2. new \in CallRows /\ CallKnows(new, rooms)
    BY <2>1 DEF NoCall, CallRows, CallKnows, Steps, Kinds, Origins, Active
  <2>3. call' = [call EXCEPT ![c] = new]
    BY <1>4 DEF ReadProbe
  <2> HIDE DEF new
  <2> QED BY <1>0, <2>2, <2>3, CallMoves
<1>5. ASSUME NEW k \in Keys, DeleteStart(c, k) PROVE RegistryInv'
  <2> DEFINE dirs == {rooms[k].root} \cup {d \in Dirs : <<k, d>> \in sessions}
             new == [NoCall EXCEPT !.pc = "delete", !.kind = "delete", !.room = k, !.dirs = dirs]
  <2>1. dirs \in SUBSET Dirs
    BY <1>5 DEF DeleteStart, RegistryInv, RoomsRooted
  <2> HIDE DEF dirs
  <2>2. new \in CallRows /\ CallKnows(new, rooms)
    BY <2>1 DEF NoCall, CallRows, CallKnows, Steps, Kinds, Origins
  <2>3. call' = [call EXCEPT ![c] = new]
    BY <1>5 DEF DeleteStart, dirs
  <2> HIDE DEF new
  <2> QED BY <1>0, <2>2, <2>3, CallMoves
<1>6. ASSUME NEW k \in Keys, SelectStart(c, k) PROVE RegistryInv'
  <2> DEFINE new == [NoCall EXCEPT !.pc = "register", !.kind = "bootstrap", !.room = k,
                                   !.dir = rooms[k].root, !.scope = StoredScope(k)]
  <2>1. rooms[k].root \in Dirs /\ rooms[k].remote \in Origins
    BY <1>6 DEF SelectStart, RegistryInv, RoomsRooted, TypeOK
  <2>2. StoredScope(k) \in Scopes
    BY <2>1, ScopesTyped DEF StoredScope
  <2>3. new \in CallRows /\ CallKnows(new, rooms)
    BY <2>1, <2>2 DEF NoCall, CallRows, CallKnows, Steps, Kinds, Origins
  <2>4. call' = [call EXCEPT ![c] = new]
    BY <1>6 DEF SelectStart
  <2> HIDE DEF new
  <2> QED BY <1>0, <2>3, <2>4, CallMoves
<1> QED BY <1>1, <1>2, <1>3, <1>4, <1>5, <1>6

\* What remains: the second read, entering, cleaning up and the user's side.
LEMMA OtherStepKeeps ==
    ASSUME RegistryInv,
           \/ \E c \in Calls : Enter(c) \/ ReadOwner(c) \/ Cleanup(c)
           \/ \E d \in Dirs, r \in Remotes : RemoteAdd(d, r)
           \/ \E from, to \in Dirs : CopyCheckout(from, to)
           \/ \E k \in Keys, d \in Unchecked : RegisterWorkspace(k, d)
    PROVE  RegistryInv'
<1>1. ASSUME NEW c \in Calls, Enter(c) \/ Cleanup(c) PROVE RegistryInv'
  <2>1. /\ UNCHANGED <<rooms, remoteOf>> /\ call' = [call EXCEPT ![c] = NoCall]
        /\ registration' \in [Dirs -> Registered \cup {None}]
        /\ {sessions', named'} \subseteq SUBSET (Keys \X Dirs)
    <3>1. CASE Cleanup(c)
      BY <3>1 DEF Cleanup, Return, RegistryInv, TypeOK
    <3>2. CASE Enter(c)
      <4>1. Worktrees(c) \subseteq Dirs /\ call[c].room \in Keys
        BY <3>2, RegistryAssumption DEF Worktrees, Enter, At, RegistryInv, CallKnows
      <4> QED BY <3>2, <4>1 DEF Enter, Return, RegistryInv, TypeOK
    <3> QED BY <1>1, <3>1, <3>2
  <2> QED BY <2>1, NoCallKnows, CallMoves
<1>2. ASSUME NEW c \in Calls, ReadOwner(c) PROVE RegistryInv'
  <2> DEFINE new == [call[c] EXCEPT !.pc = "heal"]
  <2>1. call[c] \in CallRows /\ call[c].pc = "own" /\ CallKnows(call[c], rooms)
    BY <1>2, CallTyped DEF ReadOwner, At, RegistryInv
  <2>2. new \in CallRows /\ CallKnows(new, rooms)
    BY <2>1 DEF CallRows, Steps, CallKnows
  <2>3. /\ UNCHANGED <<rooms, remoteOf>>
        /\ registration' \in [Dirs -> Registered \cup {None}]
        /\ {sessions', named'} \subseteq SUBSET (Keys \X Dirs)
        /\ \/ call' = [call EXCEPT ![c] = NoCall]
           \/ call' = [call EXCEPT ![c] = new]
    BY <1>2, <2>1 DEF ReadOwner, Return, Goto, RegistryInv, TypeOK
  <2> HIDE DEF new
  <2> QED BY <2>2, <2>3, NoCallKnows, CallMoves
<1>3. ASSUME NEW d \in Dirs, NEW r \in Remotes, RemoteAdd(d, r) PROVE RegistryInv'
  BY <1>3 DEF RemoteAdd, RegistryInv, TypeOK, Origins, RoomsRooted, OneActiveRoomPerRepository,
              CallKnows, Exists, Active, StoredScope
<1>4. ASSUME NEW from \in Dirs, NEW to \in Dirs, CopyCheckout(from, to) PROVE RegistryInv'
  BY <1>4 DEF CopyCheckout, RegistryInv, TypeOK, RoomsRooted, OneActiveRoomPerRepository,
              CallKnows, Exists, Active, StoredScope
<1>5. ASSUME NEW k \in Keys, NEW d \in Unchecked, RegisterWorkspace(k, d) PROVE RegistryInv'
  BY <1>5, RegistryAssumption DEF RegisterWorkspace, RegistryInv, TypeOK, RoomsRooted,
              OneActiveRoomPerRepository, CallKnows, Exists, Active, StoredScope
<1> QED BY <1>1, <1>2, <1>3, <1>4, <1>5

LEMMA InitRegistry == Init => RegistryInv
<1> SUFFICES ASSUME Init PROVE RegistryInv
  OBVIOUS
<1>1. TypeOK
  BY NoCallKnows DEF Init, TypeOK, CallRows, Origins
<1> QED
  BY <1>1, NoCallKnows DEF Init, RegistryInv, RoomsRooted, OneActiveRoomPerRepository, Exists, Active

LEMMA NextRegistry == RegistryInv /\ [Next]_vars => RegistryInv'
<1> SUFFICES ASSUME RegistryInv, [Next]_vars PROVE RegistryInv'
  OBVIOUS
<1>1. CASE UNCHANGED vars
  BY <1>1 DEF vars, RegistryInv, TypeOK, RoomsRooted, OneActiveRoomPerRepository,
              CallKnows, Exists, Active, StoredScope
<1>2. CASE Next
  BY <1>2, ResolveKeeps, CreateKeeps, ReadHealKeeps, ArchiveKeeps, DeleteKeeps, RegisterKeeps,
     StartKeeps, OtherStepKeeps DEF Next
<1> QED BY <1>1, <1>2

-------------------------------------------------------------------------------
\* Rooms, registrations and calls under way keep their types, for any number of
\* them.
THEOREM RegistryTypeCorrect == Spec => []TypeOK
<1>1. RegistryInv => TypeOK
  BY DEF RegistryInv
<1> QED BY InitRegistry, NextRegistry, <1>1, PTL DEF Spec

\* No repository has two active Rooms, however joins, creations, restores and
\* healing reads overlap with one another and with git.
THEOREM AlwaysOneActiveRoom == Spec => []OneActiveRoomPerRepository
<1>1. RegistryInv => OneActiveRoomPerRepository
  BY DEF RegistryInv
<1> QED BY InitRegistry, NextRegistry, <1>1, PTL DEF Spec

-------------------------------------------------------------------------------
\* A call that leaves "resolve" with a Room in hand has taken the first
\* alternative of its own Resolve.
LEMMA StepKeepsPin ==
    ASSUME RegistryInv, [Next]_vars, NEW c \in Calls,
           At(c, "resolve"), call'[c].pc = "register", call[c].pin # None, Active(call[c].pin)
    PROVE  call'[c].room = call[c].pin
<1>1. call[c].pc = "resolve" /\ call[c].pc # "idle" /\ call[c].pin \in Keys
  BY DEF At, RegistryInv, TypeOK
<1>2. Resolve(c)
  <2>1. ~UNCHANGED call
    BY <1>1
  <2>2. PICK b \in Calls :
          \/ \E d \in Dirs : \/ \E kind \in {"join", "bootstrap"} : JoinStart(b, d, kind)
                            \/ ManageCreate(b, d)
                            \/ MatchStart(b, d)
          \/ \E k \in Keys : SelectStart(b, k) \/ ReadProbe(b, k) \/ DeleteStart(b, k)
          \/ Resolve(b) \/ Create(b) \/ Register(b) \/ Enter(b)
          \/ ReadOwner(b) \/ ReadHeal(b) \/ Delete(b) \/ Cleanup(b)
    BY <2>1 DEF Next, vars, RemoteAdd, CopyCheckout, Archive, RegisterWorkspace
  <2>3. b # c => call'[c] = call[c]
    BY <2>2 DEF JoinStart, ManageCreate, MatchStart, SelectStart, ReadProbe, DeleteStart, Resolve, Create, Register,
                Enter, ReadOwner, ReadHeal, Delete, Cleanup, Found, Given, Return, Goto, RegistryInv, TypeOK
  <2>4. b = c
    BY <1>1, <2>3
  <2> QED
    BY <1>1, <2>2, <2>4 DEF At, JoinStart, ManageCreate, MatchStart, SelectStart, ReadProbe, DeleteStart, Create,
                            Register, Enter, ReadOwner, ReadHeal, Delete, Cleanup
<1> DEFINE owners == InScope(CandidateScope(call[c].dir, call[c].remote))
           heals == Healable(c, owners)
           found == IF heals # {} THEN heals ELSE owners
<1>3. PICK k \in ActiveIn(found) :
         /\ ~PinnedElsewhere(c, owners)
         /\ ActiveIn(found) = {k}
         /\ call'[c].room = k
  <2>1. call[c] \in CallRows /\ call \in [Calls -> CallRows]
    BY DEF RegistryInv, TypeOK, CallRows
  <2>2. ~Return(c)
    BY <2>1 DEF Return, NoCall
  <2>3. call' # [call EXCEPT ![c].pc = "create", ![c].remote = Origin(call[c].dir)]
    BY <2>1 DEF CallRows
  <2>4. PICK k \in ActiveIn(found) :
           /\ ~PinnedElsewhere(c, owners)
           /\ ActiveIn(found) = {k}
           /\ Found(c, k, IF heals # {} THEN call[c].remote ELSE rooms[k].remote)
    BY <1>2, <2>2, <2>3 DEF Resolve
  <2>5. call'[c].room = k
    BY <2>1, <2>4 DEF Found, Given, CallRows
  <2> QED BY <2>4, <2>5
<1>4. CASE heals # {}
  <2>1. heals \subseteq {call[c].pin}
    BY <1>1, <1>4 DEF Healable
  <2> QED BY <1>3, <1>4, <2>1 DEF ActiveIn
<1>5. CASE heals = {}
  <2>1. call[c].pin \in owners
    BY <1>1, <1>3, <1>5 DEF PinnedElsewhere, ActiveIn, Active, Exists
  <2> QED BY <1>1, <1>3, <1>5, <2>1 DEF ActiveIn
<1> QED BY <1>3, <1>4, <1>5

\* A checkout that is registered to an active Room is led to no other one.
THEOREM PinnedJoinsAlwaysStay == Spec => PinnedJoinsStay
<1>1. RegistryInv /\ [Next]_vars =>
        [\A c \in Calls :
           (At(c, "resolve") /\ call'[c].pc = "register" /\ call[c].pin # None /\ Active(call[c].pin))
           => call'[c].room = call[c].pin]_vars
  BY StepKeepsPin
<1> QED BY InitRegistry, NextRegistry, <1>1, PTL DEF Spec, PinnedJoinsStay

-------------------------------------------------------------------------------
(* Who is in a Room works on its repository or was named for it.  A Room     *)
(* keeps its root, and a remote that it or a directory has got; so what      *)
(* fitted when a call found its Room fits when the call enters it, and a     *)
(* directory that was named stays named as long as the Room exists.          *)

RoomsTrue ==
    \A k \in Keys :
        /\ rooms[k].status = "absent" => rooms[k].remote = None
        /\ rooms[k].status # "absent" => rooms[k].root \in Dirs
        /\ rooms[k].remote # None => Origin(rooms[k].root) = rooms[k].remote

\* A directory of the Room's repository, or one that somebody named for it.
Admitted(k, d) == SameRepository(k, d) \/ <<k, d>> \in named

CallTrue(r) ==
    /\ r.pc \in {"resolve", "create", "own", "heal"} /\ r.remote # None =>
          r.dir \in Dirs /\ Origin(r.dir) = r.remote
    /\ r.pc \in {"register", "enter"} =>
          /\ rooms[r.room].status # "absent"
          /\ Exists(r.room) => Admitted(r.room, r.dir)

SharedInv ==
    /\ RoomsTrue
    /\ \A c \in Calls : CallTrue(call[c])
    /\ \A s \in sessions : rooms[s[1]].status # "absent" /\ Admitted(s[1], s[2])

\* What no step takes back.
Steady ==
    /\ \A k \in Keys : rooms[k].status # "absent" =>
          /\ rooms'[k].status # "absent"
          /\ rooms'[k].root = rooms[k].root
          /\ rooms[k].remote # None => rooms'[k].remote = rooms[k].remote
          /\ Exists(k)' => Exists(k)
    /\ \A d \in Dirs : Origin(d) # None => Origin(d)' = Origin(d)

LEMMA FitsStays ==
    ASSUME RegistryInv, RoomsTrue, Steady, NEW k \in Keys, NEW d \in Dirs,
           rooms[k].status # "absent", SameRepository(k, d)
    PROVE  rooms'[k].status # "absent" /\ SameRepository(k, d)'
<1>1. CASE rooms[k].root = d
  BY <1>1 DEF SameRepository, Steady
<1>2. CASE rooms[k].remote # None /\ StoredScope(k) = CheckoutScope(d)
  <2>1. Origin(d) # None
    BY <1>2 DEF StoredScope, RoomScope, CheckoutScope, Git, Path
  <2>2. CheckoutScope(d)' = CheckoutScope(d)
    BY <2>1 DEF Steady, CheckoutScope
  <2>3. StoredScope(k)' = StoredScope(k)
    BY <1>2 DEF Steady, StoredScope, RoomScope
  <2> QED BY <1>2, <2>2, <2>3 DEF SameRepository, Steady
<1> QED BY <1>1, <1>2 DEF SameRepository

\* The owners of a directory's scope fit it.
LEMMA OwnersFit ==
    ASSUME RegistryInv, RoomsTrue, NEW d \in Dirs, NEW r \in Origins,
           r # None => Origin(d) = r,
           NEW k \in InScope(CandidateScope(d, r))
    PROVE  k \in Keys /\ rooms[k].status # "absent" /\ SameRepository(k, d)
<1>1. /\ k \in Keys /\ rooms[k].status # "absent" /\ rooms[k].root \in Dirs
      /\ RoomScope(rooms[k].root, rooms[k].remote) = CandidateScope(d, r)
  BY DEF InScope, Exists, StoredScope, RoomsTrue
<1>2. CASE r # None
  BY <1>1, <1>2 DEF SameRepository, StoredScope, RoomScope, CandidateScope, CheckoutScope, Git, Path
<1>3. CASE r = None
  <2>1. rooms[k].root = GitRoot[d] /\ LogicalPath[rooms[k].root] = LogicalPath[d]
    BY <1>1, <1>3 DEF RoomScope, CandidateScope, Git, Path
  <2>2. rooms[k].root = d
    BY <1>1, <2>1, CheckoutAssumption
  <2> QED BY <1>1, <2>2 DEF SameRepository
<1> QED BY <1>2, <1>3

\* The rooms and the remotes after a step.
LEMMA RoomsStep ==
    ASSUME RegistryInv, SharedInv, [Next]_vars
    PROVE  Steady /\ RoomsTrue'
<1>1. ASSUME UNCHANGED <<rooms, remoteOf>> PROVE Steady /\ RoomsTrue'
  BY <1>1 DEF SharedInv, Steady, RoomsTrue, Origin, Exists
<1>2. ASSUME NEW k \in Keys, Exists(k), UNCHANGED remoteOf,
             NEW status \in {"active", "archived", "deleted"},
             rooms' = [rooms EXCEPT ![k].status = status]
      PROVE  Steady /\ RoomsTrue'
  BY <1>2 DEF SharedInv, Steady, RoomsTrue, Origin, Exists, RegistryInv, TypeOK
<1>3. ASSUME NEW k \in Keys, rooms[k].status # "absent", UNCHANGED remoteOf,
             NEW r \in Origins, r # None, Origin(rooms[k].root) = r, Heal(k, r)
      PROVE  Steady /\ RoomsTrue'
  BY <1>3 DEF Heal, SharedInv, Steady, RoomsTrue, Origin, Exists, RegistryInv, TypeOK
<1>4. ASSUME NEW c \in Calls, Resolve(c) PROVE Steady /\ RoomsTrue'
  <2> DEFINE owners == InScope(CandidateScope(call[c].dir, call[c].remote))
             heals == Healable(c, owners)
  <2>1. CASE UNCHANGED rooms
    BY <1>1, <1>4, <2>1 DEF Resolve
  <2>2. CASE ~UNCHANGED rooms
    <3>1. PICK k \in ActiveIn(IF heals # {} THEN heals ELSE owners) :
             heals # {} /\ Heal(k, call[c].remote)
      BY <1>4, <2>2 DEF Resolve
    <3>2. /\ k \in Keys /\ rooms[k].status # "absent" /\ rooms[k].root = call[c].dir
          /\ call[c].remote # None /\ call[c].pc = "resolve"
      BY <1>4, <3>1 DEF ActiveIn, Active, Healable, RootedAt, Resolve, At, RegistryInv, TypeOK
    <3>3. call[c].remote \in Origins /\ Origin(call[c].dir) = call[c].remote
      BY <3>2 DEF SharedInv, CallTrue, RegistryInv, TypeOK
    <3> QED BY <1>3, <1>4, <3>1, <3>2, <3>3 DEF Resolve
  <2> QED BY <2>1, <2>2
<1>5. ASSUME NEW c \in Calls, Create(c) PROVE Steady /\ RoomsTrue'
  <2>1. CASE UNCHANGED rooms
    BY <1>1, <1>5, <2>1 DEF Create
  <2>2. CASE \E k \in InScope(CandidateScope(call[c].dir, call[c].remote)) :
                rooms' = [rooms EXCEPT ![k].status = "active"]
    BY <1>2, <1>5, <2>2 DEF Create, InScope, Exists
  <2>3. ASSUME NEW k \in Keys, rooms[k].status = "absent",
               rooms' = [rooms EXCEPT ![k] = [status |-> "active", root |-> call[c].dir,
                                              remote |-> call[c].remote]]
        PROVE  Steady /\ RoomsTrue'
    <3>1. /\ call[c].dir \in Dirs /\ UNCHANGED remoteOf
          /\ call[c].remote # None => Origin(call[c].dir) = call[c].remote
      BY <1>5 DEF Create, At, SharedInv, CallTrue, RegistryInv, CallKnows
    <3> QED BY <2>3, <3>1 DEF SharedInv, Steady, RoomsTrue, Origin, Exists, RegistryInv, TypeOK
  <2> QED BY <1>5, <2>1, <2>2, <2>3 DEF Create
<1>6. ASSUME NEW c \in Calls, ReadHeal(c) PROVE Steady /\ RoomsTrue'
  <2>1. CASE UNCHANGED rooms
    BY <1>1, <1>6, <2>1 DEF ReadHeal
  <2>2. CASE Heal(call[c].room, call[c].remote)
    <3>1. call[c].pc = "heal" /\ UNCHANGED remoteOf
      BY <1>6 DEF ReadHeal, At
    <3>2. /\ call[c].room \in Keys /\ rooms[call[c].room].status # "absent"
          /\ call[c].remote \in Origins /\ call[c].remote # None
          /\ Origin(rooms[call[c].room].root) = call[c].remote
      BY <3>1, RegistryAssumption DEF SharedInv, CallTrue, RegistryInv, CallKnows, Origins
    <3> QED BY <1>3, <2>2, <3>1, <3>2
  <2> QED BY <1>6, <2>1, <2>2 DEF ReadHeal
<1>7. ASSUME NEW k \in Keys, Archive(k) PROVE Steady /\ RoomsTrue'
  BY <1>2, <1>7 DEF Archive, Active, Exists
<1>8. ASSUME NEW c \in Calls, Delete(c) PROVE Steady /\ RoomsTrue'
  <2>1. call[c].room \in Keys
    BY <1>8 DEF Delete, At, RegistryInv, CallKnows
  <2>2. CASE Exists(call[c].room)
    BY <1>2, <1>8, <2>1, <2>2 DEF Delete, Exists
  <2>3. CASE ~Exists(call[c].room)
    BY <1>1, <1>8, <2>3 DEF Delete
  <2> QED BY <2>2, <2>3
<1>9. ASSUME NEW d \in Dirs, NEW r \in Remotes, RemoteAdd(d, r) PROVE Steady /\ RoomsTrue'
  <2>1. /\ UNCHANGED rooms
        /\ \A e \in Dirs : Origin(e) # None => Origin(e)' = Origin(e)
    BY <1>9, RegistryAssumption DEF RemoteAdd, Origin, RegistryInv, TypeOK
  <2>2. \A k \in Keys : rooms[k].remote # None => rooms[k].root \in Dirs
    BY DEF SharedInv, RoomsTrue
  <2> QED BY <2>1, <2>2 DEF SharedInv, Steady, RoomsTrue, Exists
<1>10. ASSUME NEW c \in Calls, NEW d \in Dirs,
              \/ \E kind \in {"join", "bootstrap"} : JoinStart(c, d, kind)
              \/ ManageCreate(c, d) \/ MatchStart(c, d)
       PROVE  Steady /\ RoomsTrue'
  BY <1>1, <1>10 DEF JoinStart, ManageCreate, MatchStart
<1>11. ASSUME NEW c \in Calls,
              \/ \E k \in Keys : SelectStart(c, k) \/ ReadProbe(c, k) \/ DeleteStart(c, k)
              \/ Register(c) \/ Enter(c) \/ ReadOwner(c) \/ Cleanup(c)
       PROVE  Steady /\ RoomsTrue'
  BY <1>1, <1>11 DEF SelectStart, ReadProbe, DeleteStart, Register, Enter, ReadOwner, Cleanup
<1>12. ASSUME NEW from \in Dirs, NEW to \in Dirs, CopyCheckout(from, to) PROVE Steady /\ RoomsTrue'
  BY <1>1, <1>12 DEF CopyCheckout
<1>13. ASSUME NEW k \in Keys, NEW d \in Unchecked, RegisterWorkspace(k, d)
       PROVE  Steady /\ RoomsTrue'
  BY <1>1, <1>13 DEF RegisterWorkspace
<1>14. CASE UNCHANGED vars
  BY <1>1, <1>14 DEF vars
<1> QED
  BY <1>4, <1>5, <1>6, <1>7, <1>8, <1>9, <1>10, <1>11, <1>12, <1>13, <1>14 DEF Next

\* Only the deletion of the Room takes the name of a directory back.
LEMMA NamedStays ==
    ASSUME RegistryInv, [Next]_vars, NEW k \in Keys, NEW d \in Dirs, <<k, d>> \in named, Exists(k)'
    PROVE  <<k, d>> \in named'
<1>1. ASSUME NEW c \in Calls, Delete(c) PROVE <<k, d>> \in named'
  <2>1. call[c].room \in Keys
    BY <1>1 DEF Delete, At, RegistryInv, CallKnows
  <2>2. CASE Exists(call[c].room)
    <3>1. call[c].room # k
      BY <1>1, <2>1, <2>2 DEF Delete, Exists, RegistryInv, TypeOK
    <3> QED BY <1>1, <2>2, <3>1 DEF Delete
  <2>3. CASE ~Exists(call[c].room)
    BY <1>1, <2>3 DEF Delete
  <2> QED BY <2>2, <2>3
<1>2. ASSUME NEW c \in Calls,
             \/ \E e \in Dirs : \/ \E kind \in {"join", "bootstrap"} : JoinStart(c, e, kind)
                               \/ ManageCreate(c, e)
                               \/ MatchStart(c, e)
             \/ \E j \in Keys : SelectStart(c, j) \/ ReadProbe(c, j) \/ DeleteStart(c, j)
             \/ Resolve(c) \/ Create(c) \/ Register(c) \/ Enter(c)
             \/ ReadOwner(c) \/ ReadHeal(c) \/ Cleanup(c)
      PROVE  <<k, d>> \in named'
  BY <1>2 DEF JoinStart, ManageCreate, MatchStart, SelectStart, ReadProbe, DeleteStart, Resolve, Create,
              Register, Enter, ReadOwner, ReadHeal, Cleanup
<1>3. ASSUME \/ UNCHANGED vars
             \/ \E e \in Dirs, r \in Remotes : RemoteAdd(e, r)
             \/ \E from, to \in Dirs : CopyCheckout(from, to)
             \/ \E j \in Keys : Archive(j)
             \/ \E j \in Keys, e \in Unchecked : RegisterWorkspace(j, e)
      PROVE  <<k, d>> \in named'
  BY <1>3 DEF vars, RemoteAdd, CopyCheckout, Archive, RegisterWorkspace
<1> QED BY <1>1, <1>2, <1>3 DEF Next

LEMMA AdmittedStays ==
    ASSUME RegistryInv, RoomsTrue, Steady, [Next]_vars, NEW k \in Keys, NEW d \in Dirs,
           rooms[k].status # "absent", Exists(k)', Admitted(k, d)
    PROVE  Admitted(k, d)'
<1>1. CASE SameRepository(k, d)
  <2>1. SameRepository(k, d)'
    BY <1>1, FitsStays
  <2> QED BY <2>1 DEF Admitted
<1>2. CASE <<k, d>> \in named
  BY <1>2, NamedStays DEF Admitted
<1> QED BY <1>1, <1>2 DEF Admitted

\* A call that does not move keeps what it knows.
LEMMA CallStays ==
    ASSUME RegistryInv, SharedInv, Steady, [Next]_vars, NEW b \in Calls, call'[b] = call[b]
    PROVE  CallTrue(call[b])'
<1>1. CallTrue(call[b]) /\ CallKnows(call[b], rooms) /\ RoomsTrue
  BY DEF SharedInv, RegistryInv
<1>2. call[b].pc \in {"resolve", "create", "own", "heal"} /\ call[b].remote # None =>
         call[b].dir \in Dirs /\ Origin(call[b].dir)' = call[b].remote
  BY <1>1 DEF CallTrue, Steady
<1>3. ASSUME NEW k \in Keys, NEW d \in Dirs, k = call[b].room, d = call[b].dir,
             call[b].pc \in {"register", "enter"}
      PROVE  rooms'[k].status # "absent" /\ (Exists(k)' => Admitted(k, d)')
  <2>1. rooms[k].status # "absent" /\ (Exists(k) => Admitted(k, d))
    BY <1>1, <1>3 DEF CallTrue
  <2>2. Exists(k)' => Exists(k)
    BY <2>1 DEF Steady
  <2> QED BY <1>1, <2>1, <2>2, AdmittedStays DEF Steady
<1>4. call[b].pc \in {"register", "enter"} => call[b].room \in Keys /\ call[b].dir \in Dirs
  BY <1>1 DEF CallKnows
<1> QED BY <1>2, <1>3, <1>4 DEF CallTrue, Admitted, SameRepository, Exists, StoredScope, CheckoutScope, Origin

\* The call that moves.
LEMMA FoundFits ==
    ASSUME RegistryInv, SharedInv, Steady, NEW c \in Calls, NEW k \in Keys, NEW d \in Dirs,
           call[c].dir = d, NEW r, Found(c, k, r),
           \/ rooms[k].status # "absent" /\ SameRepository(k, d)
           \/ rooms'[k].status # "absent" /\ rooms'[k].root = d
    PROVE  CallTrue(call[c])'
<1>1. /\ call'[c].pc = "register" /\ call'[c].room = k /\ call'[c].dir = d
  BY CallTyped DEF Found, Given, RegistryInv, TypeOK, CallRows
<1>2. rooms'[k].status # "absent" /\ SameRepository(k, d)'
  BY FitsStays DEF SharedInv, SameRepository
<1>3. SameRepository(call[c].room, call[c].dir)'
  BY <1>1, <1>2 DEF SameRepository, StoredScope, CheckoutScope, Origin
<1> QED BY <1>1, <1>2, <1>3 DEF CallTrue, Admitted

LEMMA CallsStep ==
    ASSUME RegistryInv, SharedInv, [Next]_vars, NEW c \in Calls
    PROVE  CallTrue(call[c])'
<1>0. Steady /\ RoomsTrue /\ call[c] \in CallRows /\ call \in [Calls -> CallRows]
      /\ CallKnows(call[c], rooms) /\ CallTrue(call[c])
  BY RoomsStep, CallTyped DEF SharedInv, RegistryInv, TypeOK, CallRows
<1>1. ASSUME Return(c) PROVE CallTrue(call[c])'
  <2>1. call'[c].pc = "idle"
    BY <1>0, <1>1 DEF Return, NoCall
  <2> QED BY <2>1 DEF CallTrue
<1>2. ASSUME NEW d \in Dirs, \E kind \in {"join", "bootstrap"} : JoinStart(c, d, kind)
      PROVE  CallTrue(call[c])'
  <2>1. call'[c].pc = "resolve" /\ call'[c].dir = d /\ call'[c].remote = Origin(d) /\ remoteOf' = remoteOf
    BY <1>0, <1>2 DEF JoinStart, NoCall
  <2> QED BY <2>1 DEF CallTrue, Origin
<1>3. ASSUME NEW d \in Dirs, ManageCreate(c, d) PROVE CallTrue(call[c])'
  <2>1. call'[c].pc = "create" /\ call'[c].dir = d /\ call'[c].remote = Origin(d) /\ remoteOf' = remoteOf
    BY <1>0, <1>3 DEF ManageCreate, NoCall
  <2> QED BY <2>1 DEF CallTrue, Origin
<1>4. ASSUME NEW d \in Dirs, MatchStart(c, d) PROVE CallTrue(call[c])'
  <2>1. PICK k \in Matching(d) :
           /\ call'[c].pc = "register" /\ call'[c].room = k /\ call'[c].dir = d
           /\ UNCHANGED <<rooms, remoteOf, named>>
    BY <1>0, <1>4 DEF MatchStart, NoCall
  <2>2. k \in Keys /\ rooms[k].status # "absent" /\ Admitted(k, d)
    <3>1. CASE k \in Keys /\ Active(k) /\ (rooms[k].root = d \/ <<k, d>> \in sessions)
      BY <3>1 DEF SharedInv, Active, SameRepository, Admitted
    <3>2. CASE k \in ActiveIn(InScope(CheckoutScope(d)))
      <4>1. CheckoutScope(d) = CandidateScope(d, Origin(d)) /\ Origin(d) \in Origins
        BY OriginTyped DEF CheckoutScope, CandidateScope, RegistryInv
      <4> QED BY <1>0, <3>2, <4>1, OwnersFit DEF ActiveIn, Admitted
    <3> QED BY <2>1, <3>1, <3>2 DEF Matching
  <2> QED BY <2>1, <2>2 DEF CallTrue, Admitted, SameRepository, StoredScope, CheckoutScope, Origin
<1>5. ASSUME NEW k \in Keys, ReadProbe(c, k) PROVE CallTrue(call[c])'
  <2>1. /\ call'[c].pc = "own" /\ call'[c].dir = rooms[k].root
        /\ call'[c].remote = Origin(rooms[k].root) /\ remoteOf' = remoteOf
        /\ rooms[k].root \in Dirs
    BY <1>0, <1>5 DEF ReadProbe, NoCall, Active, RoomsTrue
  <2> QED BY <2>1 DEF CallTrue, Origin
<1>6. ASSUME NEW k \in Keys, DeleteStart(c, k) PROVE CallTrue(call[c])'
  <2>1. call'[c].pc = "delete"
    BY <1>0, <1>6 DEF DeleteStart, NoCall
  <2> QED BY <2>1 DEF CallTrue
<1>7. ASSUME Resolve(c) PROVE CallTrue(call[c])'
  <2> DEFINE d == call[c].dir
             r == call[c].remote
             owners == InScope(CandidateScope(d, r))
             heals == Healable(c, owners)
             found == IF heals # {} THEN heals ELSE owners
  <2>1. call[c].pc = "resolve" /\ d \in Dirs /\ r \in Origins /\ (r # None => Origin(d) = r)
        /\ remoteOf' = remoteOf
    BY <1>0, <1>7 DEF Resolve, At, CallTrue, CallKnows, CallRows
  <2>2. ASSUME NEW k \in ActiveIn(found), Found(c, k, IF heals # {} THEN r ELSE rooms[k].remote)
        PROVE  CallTrue(call[c])'
    <3>1. k \in Keys /\ rooms[k].status # "absent" /\ SameRepository(k, d)
      <4>1. CASE heals # {}
        BY <2>2, <4>1 DEF ActiveIn, Active, Healable, RootedAt, SameRepository, RegistryInv, TypeOK
      <4>2. CASE heals = {}
        BY <1>0, <2>1, <2>2, <4>2, OwnersFit DEF ActiveIn
      <4> QED BY <4>1, <4>2
    <3> QED BY <1>0, <2>1, <2>2, <3>1, FoundFits
  <2>3. ASSUME call' = [call EXCEPT ![c].pc = "create", ![c].remote = Origin(d)]
        PROVE  CallTrue(call[c])'
    <3>1. call'[c].pc = "create" /\ call'[c].remote = Origin(d) /\ call'[c].dir = d
      BY <1>0, <2>3 DEF CallRows
    <3> QED BY <2>1, <3>1 DEF CallTrue, Origin
  <2> QED BY <1>1, <1>7, <2>2, <2>3 DEF Resolve
<1>8. ASSUME Create(c) PROVE CallTrue(call[c])'
  <2> DEFINE d == call[c].dir
             r == call[c].remote
             owners == InScope(CandidateScope(d, r))
  <2>1. call[c].pc = "create" /\ d \in Dirs /\ r \in Origins /\ (r # None => Origin(d) = r)
    BY <1>0, <1>8 DEF Create, At, CallTrue, CallKnows, CallRows
  <2>2. ASSUME NEW k \in owners, Found(c, k, rooms[k].remote) PROVE CallTrue(call[c])'
    <3>1. k \in Keys /\ rooms[k].status # "absent" /\ SameRepository(k, d)
      BY <1>0, <2>1, OwnersFit
    <3> QED BY <1>0, <2>1, <2>2, <3>1, FoundFits
  <2>3. ASSUME NEW k \in Keys,
               rooms' = [rooms EXCEPT ![k] = [status |-> "active", root |-> d, remote |-> r]],
               Given(c, k, RoomScope(d, r))
        PROVE  CallTrue(call[c])'
    <3>1. /\ call'[c].pc = "register" /\ call'[c].room = k /\ call'[c].dir = d
          /\ rooms'[k].status # "absent" /\ rooms'[k].root = d
      BY <1>0, <2>3 DEF Given, CallRows, RegistryInv, TypeOK
    <3> QED BY <3>1 DEF CallTrue, Admitted, SameRepository
  <2> QED BY <1>1, <1>8, <2>2, <2>3 DEF Create, ActiveIn
<1>9. ASSUME Register(c) PROVE CallTrue(call[c])'
  <2>1. CASE Return(c)
    BY <1>1, <2>1
  <2>2. CASE ~Return(c)
    <3>1. /\ call[c].pc = "register" /\ UNCHANGED <<rooms, remoteOf, named>>
          /\ call'[c].room = call[c].room /\ call'[c].dir = call[c].dir
      BY <1>0, <1>9, <2>2 DEF Register, At, Goto, CallRows
    <3>2. /\ rooms[call[c].room].status # "absent"
          /\ Exists(call[c].room) => Admitted(call[c].room, call[c].dir)
      BY <1>0, <3>1 DEF CallTrue
    <3>3. /\ rooms'[call'[c].room].status # "absent"
          /\ Exists(call[c].room)' => Admitted(call[c].room, call[c].dir)'
      BY <3>1, <3>2 DEF Admitted, SameRepository, Exists, StoredScope, CheckoutScope, Origin
    <3>4. call'[c].pc \notin {"resolve", "create", "own", "heal"}
      BY <1>0, <1>9, <2>2 DEF Register, Goto, CallRows
    <3> QED BY <3>3, <3>4 DEF CallTrue
  <2> QED BY <2>1, <2>2
<1>10. ASSUME Enter(c) \/ ReadHeal(c) \/ Cleanup(c) PROVE CallTrue(call[c])'
  BY <1>1, <1>10 DEF Enter, ReadHeal, Cleanup
<1>11. ASSUME ReadOwner(c) PROVE CallTrue(call[c])'
  <2>1. CASE Return(c)
    BY <1>1, <2>1
  <2>2. CASE ~Return(c)
    <3>1. /\ call[c].pc = "own" /\ remoteOf' = remoteOf /\ call'[c].pc = "heal"
          /\ call'[c].remote = call[c].remote /\ call'[c].dir = call[c].dir
      BY <1>0, <1>11, <2>2 DEF ReadOwner, At, Goto, CallRows
    <3> QED BY <1>0, <3>1 DEF CallTrue, Origin
  <2> QED BY <2>1, <2>2
<1>12. ASSUME Delete(c) PROVE CallTrue(call[c])'
  <2>1. call'[c].pc \in {"idle", "cleanup"}
    BY <1>0, <1>12 DEF Delete, Goto, Return, NoCall, CallRows
  <2> QED BY <2>1 DEF CallTrue
<1>13. CASE call'[c] = call[c]
  BY <1>0, <1>13, CallStays
<1>14. ASSUME NEW b \in Calls, b # c,
              \/ \E d \in Dirs : \/ \E kind \in {"join", "bootstrap"} : JoinStart(b, d, kind)
                                \/ ManageCreate(b, d)
                                \/ MatchStart(b, d)
              \/ \E k \in Keys : SelectStart(b, k) \/ ReadProbe(b, k) \/ DeleteStart(b, k)
              \/ Resolve(b) \/ Create(b) \/ Register(b) \/ Enter(b)
              \/ ReadOwner(b) \/ ReadHeal(b) \/ Delete(b) \/ Cleanup(b)
       PROVE  call'[c] = call[c]
  BY <1>0, <1>14 DEF JoinStart, ManageCreate, MatchStart, SelectStart, ReadProbe, DeleteStart, Resolve, Create,
                     Register, Enter, ReadOwner, ReadHeal, Delete, Cleanup, Found, Given, Return, Goto
<1>15. CASE UNCHANGED vars \/ (\E d \in Dirs, r \in Remotes : RemoteAdd(d, r))
            \/ (\E from, to \in Dirs : CopyCheckout(from, to)) \/ (\E k \in Keys : Archive(k))
            \/ (\E k \in Keys, d \in Unchecked : RegisterWorkspace(k, d))
  BY <1>13, <1>15 DEF vars, RemoteAdd, CopyCheckout, Archive, RegisterWorkspace
<1>16. ASSUME NEW k \in Keys, SelectStart(c, k) PROVE CallTrue(call[c])'
  <2>1. /\ call'[c].pc = "register" /\ call'[c].room = k /\ call'[c].dir = rooms[k].root
        /\ UNCHANGED <<rooms, remoteOf>> /\ rooms[k].status # "absent"
    BY <1>0, <1>16 DEF SelectStart, NoCall, Exists
  <2> QED BY <2>1 DEF CallTrue, Admitted, SameRepository
<1> QED
  BY <1>2, <1>3, <1>4, <1>5, <1>6, <1>7, <1>8, <1>9, <1>10, <1>11, <1>12, <1>13, <1>14, <1>15, <1>16
     DEF Next

LEMMA SessionsStep ==
    ASSUME RegistryInv, SharedInv, [Next]_vars
    PROVE  \A s \in sessions' : rooms'[s[1]].status # "absent" /\ Admitted(s[1], s[2])'
<1>0. Steady /\ RoomsTrue
  BY RoomsStep DEF SharedInv
\* The Room of a session that stays, stays.
<1>1. ASSUME NEW k \in Keys, NEW d \in Dirs, <<k, d>> \in sessions, <<k, d>> \in sessions'
      PROVE  rooms'[k].status # "absent" /\ Admitted(k, d)'
  <2>1. rooms[k].status # "absent" /\ Admitted(k, d)
    BY <1>1 DEF SharedInv
  <2>2. CASE SameRepository(k, d)
    BY <1>0, <2>1, <2>2, FitsStays DEF Admitted
  <2>3. CASE <<k, d>> \in named
    <3>1. ASSUME NEW c \in Calls, Delete(c) PROVE <<k, d>> \in named'
      BY <1>1, <2>3, <3>1 DEF Delete
    <3>2. ASSUME ~\E c \in Calls : Delete(c) PROVE named \subseteq named'
      BY <3>2 DEF Next, vars, JoinStart, ManageCreate, MatchStart, SelectStart, ReadProbe, DeleteStart,
                  Resolve, Create, Register, Enter, ReadOwner, ReadHeal, Cleanup, RemoteAdd,
                  CopyCheckout, Archive, RegisterWorkspace
    <3> QED BY <1>0, <2>1, <2>3, <3>1, <3>2 DEF Admitted, Steady
  <2> QED BY <2>1, <2>2, <2>3 DEF Admitted
<1>2. ASSUME NEW k \in Keys, NEW d \in Dirs, <<k, d>> \notin sessions, <<k, d>> \in sessions'
      PROVE  rooms'[k].status # "absent" /\ Admitted(k, d)'
  <2>1. ASSUME NEW c \in Calls,
               \/ \E e \in Dirs : \/ \E kind \in {"join", "bootstrap"} : JoinStart(c, e, kind)
                                 \/ ManageCreate(c, e)
                                 \/ MatchStart(c, e)
               \/ \E j \in Keys : SelectStart(c, j) \/ ReadProbe(c, j) \/ DeleteStart(c, j)
               \/ Resolve(c) \/ Create(c) \/ Register(c)
               \/ ReadOwner(c) \/ ReadHeal(c) \/ Delete(c) \/ Cleanup(c)
        PROVE  sessions' \subseteq sessions
    BY <2>1 DEF JoinStart, ManageCreate, MatchStart, SelectStart, ReadProbe, DeleteStart, Resolve, Create,
                Register, ReadOwner, ReadHeal, Delete, Cleanup
  <2>2. ASSUME \/ UNCHANGED vars
               \/ \E e \in Dirs, r \in Remotes : RemoteAdd(e, r)
               \/ \E from, to \in Dirs : CopyCheckout(from, to)
               \/ \E j \in Keys : Archive(j)
        PROVE  sessions' \subseteq sessions
    BY <2>2 DEF vars, RemoteAdd, CopyCheckout, Archive
  <2>3. ASSUME NEW j \in Keys, NEW e \in Unchecked, RegisterWorkspace(j, e)
        PROVE  rooms'[k].status # "absent" /\ Admitted(k, d)'
    <3>1. k = j /\ d = e
      BY <1>2, <2>3 DEF RegisterWorkspace
    <3>2. rooms'[j].status # "absent" /\ <<j, e>> \in named'
      BY <2>3 DEF RegisterWorkspace, Exists
    <3> QED BY <3>1, <3>2 DEF Admitted
  <2>4. ASSUME NEW c \in Calls, Enter(c)
        PROVE  rooms'[k].status # "absent" /\ Admitted(k, d)'
    <3>1. /\ call[c].pc = "enter" /\ k = call[c].room /\ Exists(k) /\ UNCHANGED rooms
          /\ d = call[c].dir \/ <<k, d>> \in named'
      <4>1. PICK e \in Worktrees(c) :
               /\ Exists(call[c].room)
               /\ sessions' = sessions \cup {<<call[c].room, e>>}
               /\ named' = IF e = call[c].dir THEN named ELSE named \cup {<<call[c].room, e>>}
        BY <1>2, <2>4 DEF Enter
      <4>2. k = call[c].room /\ d = e
        BY <1>2, <4>1
      <4> QED BY <2>4, <4>1, <4>2 DEF Enter, At
    <3>2. CASE d = call[c].dir
      <4>1. rooms[k].status # "absent" /\ Admitted(k, d)
        BY <3>1, <3>2 DEF SharedInv, CallTrue
      <4>2. Exists(k)'
        BY <3>1 DEF Exists
      <4> QED BY <1>0, <4>1, <4>2, AdmittedStays DEF Exists
    <3>3. CASE <<k, d>> \in named'
      BY <3>1, <3>3 DEF Admitted, Exists
    <3> QED BY <3>1, <3>2, <3>3
  <2> QED BY <1>2, <2>1, <2>2, <2>3, <2>4 DEF Next
<1>3. sessions' \subseteq Keys \X Dirs
  <2>1. RegistryInv'
    BY NextRegistry
  <2> QED BY <2>1 DEF RegistryInv, TypeOK
<1>4. SUFFICES ASSUME NEW k \in Keys, NEW d \in Dirs, <<k, d>> \in sessions'
               PROVE  rooms'[k].status # "absent" /\ Admitted(k, d)'
  BY <1>3
<1> QED BY <1>1, <1>2, <1>4

LEMMA NextShared == RegistryInv /\ SharedInv /\ [Next]_vars => SharedInv'
<1> SUFFICES ASSUME RegistryInv, SharedInv, [Next]_vars PROVE SharedInv'
  OBVIOUS
<1>1. RoomsTrue'
  BY RoomsStep
<1>2. \A c \in Calls : CallTrue(call[c])'
  BY CallsStep
<1>3. \A s \in sessions' : rooms'[s[1]].status # "absent" /\ Admitted(s[1], s[2])'
  BY SessionsStep
<1> QED BY <1>1, <1>2, <1>3 DEF SharedInv

LEMMA InitShared == Init => SharedInv
BY DEF Init, SharedInv, RoomsTrue, CallTrue, NoCall

\* A session of a Room is in the repository of the Room or in a directory that
\* somebody named for this Room, although the directory was looked at long
\* before the session was entered: what is matched, healed, copied or read too
\* early adds no stranger.
THEOREM StrangersWereAlwaysNamed == Spec => []StrangersWereNamed
<1>1. RegistryInv /\ SharedInv => StrangersWereNamed
  <2> SUFFICES ASSUME RegistryInv, SharedInv, NEW s \in sessions
               PROVE  SameRepository(s[1], s[2]) \/ s \in named
    BY DEF StrangersWereNamed
  <2>1. Admitted(s[1], s[2]) /\ s = <<s[1], s[2]>>
    BY DEF SharedInv, RegistryInv, TypeOK
  <2> QED BY <2>1 DEF Admitted
<1> QED BY InitRegistry, NextRegistry, InitShared, NextShared, <1>1, PTL DEF Spec

-------------------------------------------------------------------------------
(* What a registration says is what the root of its Room is, or was before    *)
(* it got its origin; and a directory that says the same is of that           *)
(* repository.                                                                *)

\* What the Room of a call was, as the call was given it.
GivenScope(k, scope) ==
    LET e == rooms[k].root IN
    \/ scope = Path(e, LogicalPath[e])
    \/ Origin(e) # None /\ scope = Git(Origin(e), LogicalPath[e])

\* What is written into a registration file.
HomeScope(k, scope) ==
    LET e == rooms[k].root IN
    \/ scope = Path(GitRoot[e], LogicalPath[e])
    \/ Origin(e) # None /\ scope = Git(Origin(e), LogicalPath[e])

Home(entry) == rooms[entry.key].status # "absent" /\ HomeScope(entry.key, entry.scope)

HomeInv ==
    /\ \A c \in Calls : At(c, "register") => GivenScope(call[c].room, call[c].scope)
    /\ \A d \in Dirs : registration[d] # None => Home(registration[d])

LEMMA ScopeStays ==
    ASSUME RoomsTrue, Steady, NEW k \in Keys, NEW scope, rooms[k].status # "absent"
    PROVE  /\ GivenScope(k, scope) => GivenScope(k, scope)'
           /\ HomeScope(k, scope) => HomeScope(k, scope)'
<1>1. PICK e \in Dirs : rooms[k].root = e /\ rooms'[k].root = e
  BY DEF RoomsTrue, Steady
<1>2. Origin(e) # None => Origin(e)' = Origin(e)
  BY DEF Steady
<1>3. /\ GivenScope(k, scope) <=> \/ scope = Path(e, LogicalPath[e])
                                  \/ Origin(e) # None /\ scope = Git(Origin(e), LogicalPath[e])
      /\ HomeScope(k, scope) <=> \/ scope = Path(GitRoot[e], LogicalPath[e])
                                 \/ Origin(e) # None /\ scope = Git(Origin(e), LogicalPath[e])
  BY <1>1 DEF GivenScope, HomeScope
<1>4. /\ GivenScope(k, scope)' <=> \/ scope = Path(e, LogicalPath[e])
                                   \/ Origin(e)' # None /\ scope = Git(Origin(e)', LogicalPath[e])
      /\ HomeScope(k, scope)' <=> \/ scope = Path(GitRoot[e], LogicalPath[e])
                                  \/ Origin(e)' # None /\ scope = Git(Origin(e)', LogicalPath[e])
  BY <1>1 DEF GivenScope, HomeScope, Origin, Git, Path
<1> QED BY <1>2, <1>3, <1>4

LEMMA GivenByRoom ==
    ASSUME RoomsTrue, NEW k \in Keys
    PROVE  GivenScope(k, StoredScope(k))
BY DEF GivenScope, StoredScope, RoomScope, RoomsTrue

\* A checkout that fits what the call was given is where the Room is, or a
\* clone of it.
LEMMA FittingIsHome ==
    ASSUME RegistryInv, RoomsTrue, NEW k \in Keys, NEW d \in Dirs, NEW scope,
           rooms[k].status # "absent", GivenScope(k, scope), Accepts(d, scope)
    PROVE  HomeScope(k, CheckoutScope(d))
<1> DEFINE e == rooms[k].root
<1>0. e \in Dirs
  BY DEF RoomsTrue
<1>1. CASE scope = CheckoutScope(d) /\ scope = Path(e, LogicalPath[e])
  <2>1. e = GitRoot[d]
    BY <1>1 DEF CheckoutScope, Git, Path
  <2>2. GitRoot[e] = e
    BY <2>1, CheckoutAssumption
  <2> QED BY <1>1, <2>2 DEF HomeScope
<1>2. CASE scope = CheckoutScope(d) /\ Origin(e) # None /\ scope = Git(Origin(e), LogicalPath[e])
  BY <1>2 DEF HomeScope
<1>3. CASE PathToGitUpgrade(d, scope, CheckoutScope(d))
  <2>1. scope = Path(e, LogicalPath[e]) /\ e = d
    BY <1>3 DEF PathToGitUpgrade, GivenScope, Git, Path
  <2>2. CheckoutScope(d) = Git(Origin(d), LogicalPath[d]) /\ Origin(d) # None
    BY <1>3 DEF PathToGitUpgrade, CheckoutScope, Path
  <2> QED BY <2>1, <2>2 DEF HomeScope
<1> QED BY <1>1, <1>2, <1>3 DEF Accepts, GivenScope

LEMMA CallsGiven ==
    ASSUME RegistryInv, SharedInv, HomeInv, [Next]_vars, NEW c \in Calls, At(c, "register")'
    PROVE  GivenScope(call[c].room, call[c].scope)'
<1>0. Steady /\ RoomsTrue /\ RoomsTrue' /\ CallKnows(call[c], rooms) /\ call[c] \in CallRows
      /\ call \in [Calls -> CallRows]
  BY RoomsStep DEF SharedInv, RegistryInv, TypeOK, CallRows
\* A Room whose copy is true when it is given.
<1>1. ASSUME NEW k \in Keys, call'[c].room = k, call'[c].scope = StoredScope(k)',
             rooms'[k].status # "absent"
      PROVE  GivenScope(call[c].room, call[c].scope)'
  BY <1>0, <1>1 DEF GivenScope, StoredScope, RoomScope, RoomsTrue, Origin
<1>2. ASSUME NEW k \in Keys, NEW r, Found(c, k, r), rooms'[k].root = rooms[k].root,
             rooms'[k].remote = r, rooms'[k].status # "absent"
      PROVE  GivenScope(call[c].room, call[c].scope)'
  <2>1. call'[c].room = k /\ call'[c].scope = RoomScope(rooms[k].root, r)
    BY <1>0, <1>2 DEF Found, Given, CallRows
  <2>2. call'[c].scope = StoredScope(k)'
    BY <1>2, <2>1 DEF StoredScope, RoomScope
  <2> QED BY <1>1, <1>2, <2>1, <2>2
<1>3. ASSUME Resolve(c) PROVE GivenScope(call[c].room, call[c].scope)'
  <2> DEFINE owners == InScope(CandidateScope(call[c].dir, call[c].remote))
             heals == Healable(c, owners)
             found == IF heals # {} THEN heals ELSE owners
  <2>1. PICK k \in ActiveIn(found) :
           /\ IF heals # {} THEN Heal(k, call[c].remote) ELSE UNCHANGED rooms
           /\ Found(c, k, IF heals # {} THEN call[c].remote ELSE rooms[k].remote)
    <3>1. ~Return(c)
      BY <1>0 DEF Return, NoCall, At
    <3>2. call' # [call EXCEPT ![c].pc = "create", ![c].remote = Origin(call[c].dir)]
      BY <1>0 DEF CallRows, At
    <3> QED BY <1>3, <3>1, <3>2 DEF Resolve
  <2>2. k \in Keys /\ rooms[k].status = "active"
    <3>1. k \in Keys
      <4>1. call[c].pin \in Keys \cup {None}
        BY <1>0 DEF CallRows
      <4>2. heals \subseteq Keys
        BY <4>1 DEF Healable, Exists, RootedAt
      <4>3. owners \subseteq Keys
        BY DEF InScope
      <4> QED BY <2>1, <4>2, <4>3 DEF ActiveIn
    <3> QED BY <2>1, <3>1 DEF ActiveIn, Active
  <2>3. CASE heals # {}
    BY <1>2, <2>1, <2>2, <2>3 DEF Heal, RegistryInv, TypeOK
  <2>4. CASE heals = {}
    BY <1>2, <2>1, <2>2, <2>4
  <2> QED BY <2>3, <2>4
<1>4. ASSUME Create(c) PROVE GivenScope(call[c].room, call[c].scope)'
  <2> DEFINE d == call[c].dir
             r == call[c].remote
             owners == InScope(CandidateScope(d, r))
  <2>1. ASSUME NEW k \in owners, Found(c, k, rooms[k].remote),
               UNCHANGED rooms \/ rooms' = [rooms EXCEPT ![k].status = "active"]
        PROVE  GivenScope(call[c].room, call[c].scope)'
    <3>1. k \in Keys /\ rooms[k].status # "absent"
      BY DEF InScope, Exists
    <3> QED BY <1>2, <2>1, <3>1 DEF RegistryInv, TypeOK
  <2>2. ASSUME NEW k \in Keys,
               rooms' = [rooms EXCEPT ![k] = [status |-> "active", root |-> d, remote |-> r]],
               Given(c, k, RoomScope(d, r))
        PROVE  GivenScope(call[c].room, call[c].scope)'
    <3>1. call'[c].room = k /\ call'[c].scope = RoomScope(d, r)
      BY <1>0, <2>2 DEF Given, CallRows
    <3>2. rooms'[k].status # "absent" /\ call'[c].scope = StoredScope(k)'
      BY <2>2, <3>1 DEF StoredScope, RegistryInv, TypeOK
    <3> QED BY <1>1, <3>1, <3>2
  <2>3. ~Return(c)
    BY <1>0 DEF Return, NoCall, At
  <2> QED BY <1>4, <2>1, <2>2, <2>3 DEF Create, ActiveIn
<1>5. ASSUME NEW k \in Keys, NEW d \in Dirs \cup {None}, rooms[k].status # "absent", UNCHANGED rooms,
             call' = [call EXCEPT ![c] = [NoCall EXCEPT !.pc = "register", !.kind = "bootstrap", !.dir = d,
                                                        !.room = k, !.scope = StoredScope(k)]]
      PROVE  GivenScope(call[c].room, call[c].scope)'
  <2>1. call'[c].room = k /\ call'[c].scope = StoredScope(k)'
    BY <1>0, <1>5 DEF NoCall, StoredScope
  <2> QED BY <1>1, <1>5, <2>1
<1>6. ASSUME NEW d \in Dirs, MatchStart(c, d) PROVE GivenScope(call[c].room, call[c].scope)'
  <2>1. PICK k \in Matching(d) :
           /\ UNCHANGED rooms
           /\ call' = [call EXCEPT ![c] = [NoCall EXCEPT !.pc = "register", !.kind = "bootstrap", !.dir = d,
                                                         !.room = k, !.scope = StoredScope(k)]]
    BY <1>6 DEF MatchStart
  <2>2. k \in Keys /\ rooms[k].status # "absent"
    BY DEF Matching, ActiveIn, Active, InScope
  <2> QED BY <1>5, <2>1, <2>2
<1>7. ASSUME NEW k \in Keys, SelectStart(c, k) PROVE GivenScope(call[c].room, call[c].scope)'
  <2>1. call'[c].room = k /\ call'[c].scope = StoredScope(k)' /\ rooms'[k].status # "absent"
    BY <1>0, <1>7 DEF SelectStart, NoCall, StoredScope, Exists
  <2> QED BY <1>1, <2>1
<1>8. CASE call'[c] = call[c]
  <2>1. PICK k \in Keys : call[c].room = k
    BY <1>0, <1>8 DEF At, CallKnows
  <2>2. GivenScope(k, call[c].scope) /\ rooms[k].status # "absent"
    BY <1>8, <2>1 DEF At, HomeInv, SharedInv, CallTrue
  <2>3. PICK scope : scope = call[c].scope /\ scope = call'[c].scope
    BY <1>8
  <2>4. GivenScope(k, scope)'
    BY <1>0, <2>2, <2>3, ScopeStays
  <2> QED BY <1>8, <2>1, <2>3, <2>4 DEF GivenScope, Origin
<1>9. ASSUME \/ \E d \in Dirs : ManageCreate(c, d) \/ \E kind \in {"join", "bootstrap"} : JoinStart(c, d, kind)
             \/ \E k \in Keys : ReadProbe(c, k) \/ DeleteStart(c, k)
             \/ Register(c) \/ Enter(c) \/ ReadOwner(c) \/ ReadHeal(c) \/ Delete(c) \/ Cleanup(c)
      PROVE  FALSE
  <2>1. call'[c].pc = "register"
    BY DEF At
  <2>2. ASSUME NEW d \in Dirs, ManageCreate(c, d) \/ \E kind \in {"join", "bootstrap"} : JoinStart(c, d, kind)
        PROVE  FALSE
    BY <1>0, <2>1, <2>2 DEF ManageCreate, JoinStart, NoCall
  <2>3. ASSUME NEW k \in Keys, ReadProbe(c, k) \/ DeleteStart(c, k) PROVE FALSE
    BY <1>0, <2>1, <2>3 DEF ReadProbe, DeleteStart, NoCall
  <2>4. ~Return(c)
    BY <1>0, <2>1 DEF Return, NoCall
  <2>5. /\ ~Goto(c, "heal") /\ ~Goto(c, "cleanup")
        /\ call' # [call EXCEPT ![c].pc = "enter", ![c].scope = None]
    BY <1>0, <2>1 DEF Goto, CallRows
  <2> QED
    BY <1>9, <2>2, <2>3, <2>4, <2>5 DEF Register, Enter, ReadOwner, ReadHeal, Delete, Cleanup
<1>10. ASSUME NEW b \in Calls, b # c,
              \/ \E d \in Dirs : \/ \E kind \in {"join", "bootstrap"} : JoinStart(b, d, kind)
                                \/ ManageCreate(b, d)
                                \/ MatchStart(b, d)
              \/ \E k \in Keys : SelectStart(b, k) \/ ReadProbe(b, k) \/ DeleteStart(b, k)
              \/ Resolve(b) \/ Create(b) \/ Register(b) \/ Enter(b)
              \/ ReadOwner(b) \/ ReadHeal(b) \/ Delete(b) \/ Cleanup(b)
       PROVE  call'[c] = call[c]
  BY <1>0, <1>10 DEF JoinStart, ManageCreate, MatchStart, SelectStart, ReadProbe, DeleteStart, Resolve, Create,
                     Register, Enter, ReadOwner, ReadHeal, Delete, Cleanup, Found, Given, Return, Goto
<1>11. CASE UNCHANGED vars \/ (\E d \in Dirs, r \in Remotes : RemoteAdd(d, r))
            \/ (\E from, to \in Dirs : CopyCheckout(from, to)) \/ (\E k \in Keys : Archive(k))
            \/ (\E k \in Keys, d \in Unchecked : RegisterWorkspace(k, d))
  BY <1>8, <1>11 DEF vars, RemoteAdd, CopyCheckout, Archive, RegisterWorkspace
<1> QED BY <1>3, <1>4, <1>6, <1>7, <1>8, <1>9, <1>10, <1>11 DEF Next

LEMMA RegistrationsStep ==
    ASSUME RegistryInv, SharedInv, HomeInv, [Next]_vars, NEW d \in Dirs, registration'[d] # None
    PROVE  Home(registration[d])'
<1>0. Steady /\ RoomsTrue
  BY RoomsStep DEF SharedInv
\* What was true of an entry stays true of it.
<1>1. ASSUME NEW e \in Dirs, registration[e] # None, registration'[d] = registration[e]
      PROVE  Home(registration[d])'
  <2>1. PICK k \in Keys, scope \in Scopes : k = registration[e].key /\ scope = registration[e].scope
    BY <1>1 DEF RegistryInv, TypeOK, Registered
  <2>2. rooms[k].status # "absent" /\ HomeScope(k, scope)
    BY <1>1, <2>1 DEF HomeInv, Home
  <2>3. rooms'[k].status # "absent" /\ HomeScope(k, scope)'
    BY <1>0, <2>2, ScopeStays DEF Steady
  <2> QED BY <1>1, <2>1, <2>3 DEF Home, HomeScope, Origin
<1>2. ASSUME NEW c \in Calls, Register(c) PROVE Home(registration[d])'
  <2>1. CASE registration'[d] = registration[d]
    BY <1>1, <2>1
  <2>2. CASE registration'[d] # registration[d]
    <3>1. /\ call[c].pc = "register" /\ d = call[c].dir /\ FitsCheckout(c)
          /\ registration'[d] = [key |-> call[c].room, scope |-> CheckoutScope(d)]
          /\ UNCHANGED <<rooms, remoteOf>>
      BY <1>2, <2>2 DEF Register, At, RegistryInv, TypeOK
    <3>2. PICK k \in Keys : k = call[c].room /\ rooms[k].status # "absent" /\ GivenScope(k, call[c].scope)
      BY <3>1 DEF RegistryInv, CallKnows, SharedInv, CallTrue, HomeInv, At
    <3>3. Accepts(d, call[c].scope)
      BY <3>1 DEF FitsCheckout
    <3>4. HomeScope(k, CheckoutScope(d))
      BY <1>0, <3>2, <3>3, FittingIsHome
    <3> QED BY <3>1, <3>2, <3>4 DEF Home, HomeScope, Origin
  <2> QED BY <2>1, <2>2
<1>3. ASSUME NEW c \in Calls, Cleanup(c) PROVE Home(registration[d])'
  BY <1>1, <1>3 DEF Cleanup
<1>4. ASSUME NEW from \in Dirs, NEW to \in Dirs, CopyCheckout(from, to) PROVE Home(registration[d])'
  BY <1>1, <1>4 DEF CopyCheckout, RegistryInv, TypeOK
<1>5. CASE UNCHANGED registration
  BY <1>1, <1>5
<1>6. ASSUME \/ UNCHANGED vars
             \/ \E e \in Dirs, r \in Remotes : RemoteAdd(e, r)
             \/ \E k \in Keys : Archive(k)
             \/ \E k \in Keys, e \in Unchecked : RegisterWorkspace(k, e)
             \/ \E c \in Calls :
                   \/ \E e \in Dirs : \/ \E kind \in {"join", "bootstrap"} : JoinStart(c, e, kind)
                                     \/ ManageCreate(c, e)
                                     \/ MatchStart(c, e)
                   \/ \E k \in Keys : SelectStart(c, k) \/ ReadProbe(c, k) \/ DeleteStart(c, k)
                   \/ Resolve(c) \/ Create(c) \/ Enter(c) \/ ReadOwner(c) \/ ReadHeal(c) \/ Delete(c)
      PROVE  UNCHANGED registration
  BY <1>6 DEF vars, RemoteAdd, Archive, RegisterWorkspace, JoinStart, ManageCreate, MatchStart, SelectStart,
              ReadProbe, DeleteStart, Resolve, Create, Enter, ReadOwner, ReadHeal, Delete
<1> QED BY <1>2, <1>3, <1>4, <1>5, <1>6 DEF Next

LEMMA NextHome == RegistryInv /\ SharedInv /\ HomeInv /\ [Next]_vars => HomeInv'
<1> SUFFICES ASSUME RegistryInv, SharedInv, HomeInv, [Next]_vars PROVE HomeInv'
  OBVIOUS
<1>1. ASSUME NEW c \in Calls, At(c, "register")' PROVE GivenScope(call[c].room, call[c].scope)'
  BY <1>1, CallsGiven
<1>2. ASSUME NEW d \in Dirs, registration'[d] # None PROVE Home(registration[d])'
  BY <1>2, RegistrationsStep
<1> QED BY <1>1, <1>2 DEF HomeInv

LEMMA InitHome == Init => HomeInv
BY DEF Init, HomeInv, NoCall, At

\* A registration that agrees with its checkout names a Room of the checkout's
\* repository: a match by an unchecked workspace lets a call into a Room and
\* leaves no registration behind that would lead later calls there.
THEOREM RegistrationsAlwaysLeadHome == Spec => []RegistrationsLeadHome
<1>1. RegistryInv /\ SharedInv /\ HomeInv => RegistrationsLeadHome
  <2> SUFFICES ASSUME RegistryInv, SharedInv, HomeInv, NEW d \in Dirs,
                      registration[d] # None, registration[d].scope = CheckoutScope(d)
               PROVE  CheckoutScope(rooms[registration[d].key].root) = CheckoutScope(d)
    BY DEF RegistrationsLeadHome
  <2>1. PICK k \in Keys : k = registration[d].key
    BY DEF RegistryInv, TypeOK, Registered
  <2>2. rooms[k].status # "absent" /\ HomeScope(k, CheckoutScope(d))
    BY <2>1 DEF HomeInv, Home
  <2>3. PICK e \in Dirs : e = rooms[k].root
    BY <2>2 DEF SharedInv, RoomsTrue
  <2>4. CASE CheckoutScope(d) = Path(GitRoot[e], LogicalPath[e])
    <3>1. GitRoot[d] = GitRoot[e] /\ LogicalPath[d] = LogicalPath[e]
      BY <2>4 DEF CheckoutScope, Git, Path
    <3>2. d = e
      BY <3>1, CheckoutAssumption
    <3> QED BY <2>1, <2>3, <3>2
  <2>5. CASE Origin(e) # None /\ CheckoutScope(d) = Git(Origin(e), LogicalPath[e])
    BY <2>1, <2>3, <2>5 DEF CheckoutScope
  <2> QED BY <2>2, <2>3, <2>4, <2>5 DEF HomeScope
<1> QED
  BY InitRegistry, NextRegistry, InitShared, NextShared, InitHome, NextHome, <1>1, PTL DEF Spec
===============================================================================
