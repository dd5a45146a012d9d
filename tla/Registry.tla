------------------------------- MODULE Registry -------------------------------
(***************************************************************************)
(* Which Room a checkout belongs to: the projects table, the registration  *)
(* file in every checkout, the git remotes on disk, and the handlers that  *)
(* read them at one moment and write at another (services.py,              *)
(* project_registration.py, bootstrap.py, mcp_server.py, api.py).          *)
(*                                                                         *)
(* A call is a process: it reads the disk, runs its transactions and       *)
(* writes the registration file in steps of their own, so that calls       *)
(* overlap with one another and with the user's git.                       *)
(***************************************************************************)
EXTENDS Absence

CONSTANTS Keys,        \* project keys; none is given out twice
          Dirs,        \* directories a Room or a session can be rooted in
          GitRoot,     \* the work tree of a directory
          LogicalPath, \* its path inside that work tree
          Remotes,     \* normalized remotes
          Unchecked,   \* bound: the directories that callers name without a check
          Calls        \* the calls in flight

ASSUME RegistryAssumption ==
    /\ GitRoot \in [Dirs -> Dirs]
    /\ Unchecked \subseteq Dirs
    /\ None \notin Keys \cup Dirs \cup Remotes

\* A work tree is its own root, and a logical path names one directory of it.
ASSUME CheckoutAssumption ==
    /\ \A d \in Dirs : GitRoot[GitRoot[d]] = GitRoot[d]
    /\ \A d, e \in Dirs : GitRoot[d] = GitRoot[e] /\ LogicalPath[d] = LogicalPath[e] => d = e

VARIABLES rooms,         \* the projects table
          remoteOf,      \* the origin of a work tree
          registration,  \* .agentchatroom/project.json of a directory
          sessions,      \* <<key, directory>> of the workspaces and sessions
          named,         \* history: those that somebody named and nobody checked
          call           \* what each call has read, and its next step

vars == <<rooms, remoteOf, registration, sessions, named, call>>

Origins == Remotes \cup {None}
Scopes == [kind : {"git", "path"}, id : Remotes \cup Dirs, logical : {LogicalPath[d] : d \in Dirs}]
Registered == [key : Keys, scope : Scopes]
Kinds == {"join", "bootstrap", "manage", "read", "delete"}
Steps == {"idle", "resolve", "create", "register", "enter", "own", "heal", "delete", "cleanup"}

NoCall == [pc |-> "idle", kind |-> "read", dir |-> None, pin |-> None, remote |-> None,
           room |-> None, scope |-> None, dirs |-> {}]

TypeOK ==
    /\ rooms \in [Keys -> [status : {"absent", "active", "archived", "deleted"},
                           root : Dirs \cup {None}, remote : Origins]]
    /\ remoteOf \in [Dirs -> Origins]
    /\ registration \in [Dirs -> Registered \cup {None}]
    /\ sessions \in SUBSET (Keys \X Dirs)
    /\ named \in SUBSET (Keys \X Dirs)
    /\ call \in [Calls -> [pc : Steps, kind : Kinds, dir : Dirs \cup {None}, pin : Keys \cup {None},
                           remote : Origins, room : Keys \cup {None},
                           scope : Scopes \cup {None}, dirs : SUBSET Dirs]]

Init ==
    /\ rooms = [k \in Keys |-> [status |-> "absent", root |-> None, remote |-> None]]
    /\ remoteOf \in [Dirs -> Origins]
    /\ registration = [d \in Dirs |-> None]
    /\ sessions = {}
    /\ named = {}
    /\ call = [c \in Calls |-> NoCall]

-----------------------------------------------------------------------------
(* Scopes. *)

Git(r, path) == [kind |-> "git", id |-> r, logical |-> path]
Path(d, path) == [kind |-> "path", id |-> d, logical |-> path]

Origin(d) == remoteOf[GitRoot[d]]

\* What a checkout is, read from disk.
CheckoutScope(d) ==
    IF Origin(d) # None THEN Git(Origin(d), LogicalPath[d]) ELSE Path(GitRoot[d], LogicalPath[d])

\* The same, with the origin a call has read before its transaction.
CandidateScope(d, r) ==
    IF r # None THEN Git(r, LogicalPath[d]) ELSE Path(GitRoot[d], LogicalPath[d])

Exists(k) == rooms[k].status \in {"active", "archived"}
Active(k) == rooms[k].status = "active"

\* What a Room is: a path Room is its own root, not the work tree around it.
RoomScope(d, r) == IF r # None THEN Git(r, LogicalPath[d]) ELSE Path(d, LogicalPath[d])
StoredScope(k) == RoomScope(rooms[k].root, rooms[k].remote)

InScope(scope) == {k \in Keys : Exists(k) /\ StoredScope(k) = scope}
ActiveIn(S) == {k \in S : Active(k)}
Several(S) == \E j, k \in S : j # k

\* A directory that was registered without an origin and has one now.
PathToGitUpgrade(d, old, new) == old.kind = "path" /\ new.kind = "git" /\ old.id = d

Accepts(d, scope) == scope = CheckoutScope(d) \/ PathToGitUpgrade(d, scope, CheckoutScope(d))

-----------------------------------------------------------------------------
(* The control of a call. *)

At(c, pc) == call[c].pc = pc
Goto(c, pc) == call' = [call EXCEPT ![c].pc = pc]
Return(c) == call' = [call EXCEPT ![c] = NoCall]

\* The Room is returned to the caller, who forgets what led there.
Given(c, k, scope) ==
    call' = [call EXCEPT ![c].pc = "register", ![c].room = k, ![c].scope = scope,
                         ![c].pin = None, ![c].remote = None]

\* A Room has been found: it is returned as it is now.
Found(c, k, remote) == Given(c, k, RoomScope(rooms[k].root, remote))

Heal(k, r) == rooms' = [rooms EXCEPT ![k].remote = r]

-----------------------------------------------------------------------------
(* The user's side: git, and copies of a checkout with everything in it. *)

RemoteAdd(d, r) ==
    /\ GitRoot[d] = d
    /\ remoteOf[d] = None
    /\ remoteOf' = [remoteOf EXCEPT ![d] = r]
    /\ UNCHANGED <<rooms, registration, sessions, named, call>>

CopyCheckout(from, to) ==
    /\ LogicalPath[from] = LogicalPath[to]
    /\ registration[from] # None
    /\ registration[to] = None
    /\ registration' = [registration EXCEPT ![to] = registration[from]]
    /\ UNCHANGED <<rooms, remoteOf, sessions, named, call>>

-----------------------------------------------------------------------------
(* Resolving the Room of a checkout, and creating one. *)

\* room_join and the stdio bootstrap read the registration file first, and
\* stop when it was written for another repository; a bootstrap needs one.
JoinStart(c, d, kind) ==
    LET pinned == registration[d] IN
    /\ At(c, "idle")
    /\ kind \in {"join", "bootstrap"}
    /\ kind = "bootstrap" => pinned # None
    /\ pinned # None => Accepts(d, pinned.scope)
    /\ call' = [call EXCEPT ![c] = [NoCall EXCEPT !.pc = "resolve", !.kind = kind, !.dir = d,
                                        !.pin = IF pinned = None THEN None ELSE pinned.key,
                                        !.remote = Origin(d)]]
    /\ UNCHANGED <<rooms, remoteOf, registration, sessions, named>>

\* Fault: the registration is a hint, the scope decides.
PinIgnored(c, owners) == FALSE

\* Fail closed: the registered Room exists and does not own this scope.
PinnedElsewhere(c, owners) ==
    /\ owners # {}
    /\ call[c].pin # None
    /\ call[c].pin \notin owners
    /\ Exists(call[c].pin)

\* The path Rooms rooted in the checkout itself.
RootedAt(d) == {k \in Keys : Active(k) /\ rooms[k].remote = None /\ rooms[k].root = d}

\* The Room that a checkout whose scope nobody owns can make its own: the one
\* it is registered to, or without a registration the only one rooted there.
Healable(c, owners) ==
    LET d == call[c].dir IN
    IF owners # {} \/ call[c].remote = None THEN {}
    ELSE IF call[c].pin # None THEN {k \in {call[c].pin} : Exists(k) /\ rooms[k].root = d}
    ELSE {k \in Keys : RootedAt(d) = {k}}

\* One transaction. A refusal rolls back the heal, so an archived Room that is
\* healed on the way to being refused stays as it was.
Resolve(c) ==
    LET owners == InScope(CandidateScope(call[c].dir, call[c].remote))
        heals == Healable(c, owners)
        found == IF heals # {} THEN heals ELSE owners
    IN
    /\ At(c, "resolve")
    /\ \/ /\ ~PinnedElsewhere(c, owners)
          /\ \E k \in ActiveIn(found) :
                /\ ActiveIn(found) = {k}
                /\ IF heals # {} THEN Heal(k, call[c].remote) ELSE UNCHANGED rooms
                /\ Found(c, k, IF heals # {} THEN call[c].remote ELSE rooms[k].remote)
       \/ /\ found = {}
          /\ call[c].pin = None
          /\ call' = [call EXCEPT ![c].pc = "create", ![c].remote = Origin(call[c].dir)]
          /\ UNCHANGED rooms
       \/ /\ \/ PinnedElsewhere(c, owners)
             \/ Several(ActiveIn(found))
             \/ ActiveIn(found) = {} /\ (found # {} \/ call[c].pin # None)
          /\ Return(c)
          /\ UNCHANGED rooms
    /\ UNCHANGED <<remoteOf, registration, sessions, named>>

\* POST /projects: the management console creates a Room for a directory.
ManageCreate(c, d) ==
    /\ At(c, "idle")
    /\ call' = [call EXCEPT ![c] = [NoCall EXCEPT !.pc = "create", !.kind = "manage", !.dir = d,
                                        !.remote = Origin(d)]]
    /\ UNCHANGED <<rooms, remoteOf, registration, sessions, named>>

\* One transaction: the active Room of the scope is returned, the only
\* archived one restored, and a new one inserted when there is none.
Create(c) ==
    LET d == call[c].dir
        owners == InScope(CandidateScope(d, call[c].remote))
    IN
    /\ At(c, "create")
    /\ \/ \E k \in ActiveIn(owners) :
            /\ ActiveIn(owners) = {k}
            /\ Found(c, k, rooms[k].remote)
            /\ UNCHANGED rooms
       \/ /\ ActiveIn(owners) = {}
          /\ \E k \in owners :
                /\ owners = {k}
                /\ rooms' = [rooms EXCEPT ![k].status = "active"]
                /\ Found(c, k, rooms[k].remote)
       \/ /\ owners = {}
          /\ \E k \in Keys :
                /\ rooms[k].status = "absent"
                /\ rooms' = [rooms EXCEPT ![k] = [status |-> "active", root |-> d,
                                                  remote |-> call[c].remote]]
                /\ Given(c, k, RoomScope(d, call[c].remote))
       \/ /\ \/ Several(ActiveIn(owners))
             \/ ActiveIn(owners) = {} /\ Several(owners)
          /\ Return(c)
          /\ UNCHANGED rooms
    /\ UNCHANGED <<remoteOf, registration, sessions, named>>

-----------------------------------------------------------------------------
(* What a joining call does with the Room it was given. *)

\* Fault: the Room of a bootstrap is taken at its word.
FitsAsGiven(c) == call[c].kind = "bootstrap" \/ Accepts(call[c].dir, call[c].scope)

\* The Room, as the call was given it, has the scope of the checkout.
FitsCheckout(c) == Accepts(call[c].dir, call[c].scope)

\* Room_join and POST /projects refuse a Room of another scope, judged by the
\* copy they were given; a bootstrap rewrites a registration that no longer
\* says what the checkout is, and goes on whether or not it could.
Register(c) ==
    LET d == call[c].dir
        pinned == registration[d]
        fits == FitsCheckout(c)
        entry == [key |-> call[c].room, scope |-> CheckoutScope(d)]
        mustFit == call[c].kind \in {"join", "manage"}
    IN
    /\ At(c, "register")
    /\ \/ /\ mustFit /\ ~fits
          /\ Return(c)
          /\ UNCHANGED registration
       \/ /\ mustFit => fits
          /\ IF fits /\ (mustFit \/ pinned = None \/ pinned.scope # CheckoutScope(d))
             THEN registration' = [registration EXCEPT ![d] = entry]
             ELSE UNCHANGED registration
          /\ IF call[c].kind = "manage" THEN Return(c)
             ELSE call' = [call EXCEPT ![c].pc = "enter", ![c].scope = None]
    /\ UNCHANGED <<rooms, remoteOf, sessions, named>>

\* The directory a call registers: a join may name any worktree, and only its
\* project path has been checked.
Worktrees(c) == {call[c].dir} \cup IF call[c].kind = "join" THEN Unchecked ELSE {}

\* register_workspace and join_room ask only that the Room exists.  A call that
\* restores the session it holds, or is refused, registers nothing.
Enter(c) ==
    /\ At(c, "enter")
    /\ \/ UNCHANGED <<sessions, named>>
       \/ \E d \in Worktrees(c) :
             /\ Exists(call[c].room)
             /\ sessions' = sessions \cup {<<call[c].room, d>>}
             /\ named' = IF d = call[c].dir THEN named ELSE named \cup {<<call[c].room, d>>}
    /\ Return(c)
    /\ UNCHANGED <<rooms, remoteOf, registration>>

\* A remote room_join and POST /projects/{id}/workspaces register any path, which
\* need not exist on the server, and look at no scope.
RegisterWorkspace(k, d) ==
    /\ Exists(k)
    /\ sessions' = sessions \cup {<<k, d>>}
    /\ named' = named \cup {<<k, d>>}
    /\ UNCHANGED <<rooms, remoteOf, registration, call>>

\* Fault: without a match the only Room there is will do.
MatchesAnything(d) ==
    LET here == {k \in Keys : Active(k) /\ (rooms[k].root = d \/ <<k, d>> \in sessions)} IN
    IF here # {} THEN here ELSE ActiveIn(Keys)

\* A bootstrap over HTTP looks for the directory in the database first: by the
\* roots and workspaces of the active Rooms, then by scope; more than one match
\* is ambiguous, none leaves the registration file to decide.
Matching(d) ==
    LET here == {k \in Keys : Active(k) /\ (rooms[k].root = d \/ <<k, d>> \in sessions)} IN
    IF here # {} THEN here ELSE ActiveIn(InScope(CheckoutScope(d)))

MatchStart(c, d) ==
    /\ At(c, "idle")
    /\ \E k \in Matching(d) :
          /\ Matching(d) = {k}
          /\ call' = [call EXCEPT ![c] = [NoCall EXCEPT !.pc = "register", !.kind = "bootstrap", !.dir = d,
                                              !.room = k, !.scope = StoredScope(k)]]
    /\ UNCHANGED <<rooms, remoteOf, registration, sessions, named>>

\* A bootstrap may name a Project, archived or not; without workspace roots it
\* goes to the Room's own root.
SelectStart(c, k) ==
    /\ At(c, "idle")
    /\ Exists(k)
    /\ call' = [call EXCEPT ![c] = [NoCall EXCEPT !.pc = "register", !.kind = "bootstrap", !.room = k,
                                        !.dir = rooms[k].root, !.scope = StoredScope(k)]]
    /\ UNCHANGED <<rooms, remoteOf, registration, sessions, named>>

-----------------------------------------------------------------------------
(* get_project: a read that turns a path Room into a git Room. *)

\* The first read and the probe of the disk.
ReadProbe(c, k) ==
    /\ At(c, "idle")
    /\ Active(k)
    /\ rooms[k].remote = None
    /\ Origin(rooms[k].root) # None
    /\ call' = [call EXCEPT ![c] = [NoCall EXCEPT !.pc = "own", !.dir = rooms[k].root, !.room = k,
                                        !.remote = Origin(rooms[k].root)]]
    /\ UNCHANGED <<rooms, remoteOf, registration, sessions, named>>

StillPath(k) == Active(k) /\ rooms[k].remote = None

\* Other active Rooms in the scope that this Room is about to take.
Rivals(c) == ActiveIn(InScope(CandidateScope(call[c].dir, call[c].remote))) \ {call[c].room}

\* The second read: nobody else owns the scope or the directory, and the
\* checkout is registered here or nowhere.
ReadOwner(c) ==
    LET k == call[c].room
        d == call[c].dir
        clear == /\ StillPath(k)
                 /\ Rivals(c) = {}
                 /\ \A j \in Keys \ {k} : Active(j) => rooms[j].root # d
                 /\ registration[d] # None => registration[d].key = k
    IN
    /\ At(c, "own")
    /\ IF clear THEN Goto(c, "heal") ELSE Return(c)
    /\ UNCHANGED <<rooms, remoteOf, registration, sessions, named>>

\* Fault: the write trusts the ownership that was read before it.
HealsUnchecked(c) == StillPath(call[c].room)

\* What the write transaction looks at again.
HealHolds(c) == StillPath(call[c].room) /\ Rivals(c) = {}

ReadHeal(c) ==
    /\ At(c, "heal")
    /\ IF HealHolds(c) THEN Heal(call[c].room, call[c].remote) ELSE UNCHANGED rooms
    /\ Return(c)
    /\ UNCHANGED <<remoteOf, registration, sessions, named>>

-----------------------------------------------------------------------------
(* Archiving and deleting. *)

Archive(k) ==
    /\ Active(k)
    /\ rooms' = [rooms EXCEPT ![k].status = "archived"]
    /\ UNCHANGED <<remoteOf, registration, sessions, named, call>>

\* The directories to clean are read before the Room is deleted.
DeleteStart(c, k) ==
    /\ At(c, "idle")
    /\ Exists(k)
    /\ call' = [call EXCEPT ![c] = [NoCall EXCEPT !.pc = "delete", !.kind = "delete", !.room = k,
                      !.dirs = {rooms[k].root} \cup {d \in Dirs : <<k, d>> \in sessions}]]
    /\ UNCHANGED <<rooms, remoteOf, registration, sessions, named>>

Delete(c) ==
    LET k == call[c].room IN
    /\ At(c, "delete")
    /\ IF Exists(k)
       THEN /\ rooms' = [rooms EXCEPT ![k].status = "deleted"]
            /\ sessions' = {s \in sessions : s[1] # k}
            /\ named' = {s \in named : s[1] # k}
            /\ Goto(c, "cleanup")
       ELSE /\ Return(c)
            /\ UNCHANGED <<rooms, sessions, named>>
    /\ UNCHANGED <<remoteOf, registration>>

Cleanup(c) ==
    /\ At(c, "cleanup")
    /\ registration' = [d \in Dirs |->
          IF /\ d \in call[c].dirs
             /\ registration[d] # None
             /\ registration[d].key = call[c].room
          THEN None ELSE registration[d]]
    /\ Return(c)
    /\ UNCHANGED <<rooms, remoteOf, sessions, named>>

-----------------------------------------------------------------------------

Next ==
    \/ \E d \in Dirs, r \in Remotes : RemoteAdd(d, r)
    \/ \E from, to \in Dirs : CopyCheckout(from, to)
    \/ \E k \in Keys : Archive(k)
    \/ \E k \in Keys, d \in Unchecked : RegisterWorkspace(k, d)
    \/ \E c \in Calls :
          \/ \E d \in Dirs : \/ \E kind \in {"join", "bootstrap"} : JoinStart(c, d, kind)
                            \/ ManageCreate(c, d)
                            \/ MatchStart(c, d)
          \/ \E k \in Keys : SelectStart(c, k) \/ ReadProbe(c, k) \/ DeleteStart(c, k)
          \/ Resolve(c)
          \/ Create(c)
          \/ Register(c)
          \/ Enter(c)
          \/ ReadOwner(c)
          \/ ReadHeal(c)
          \/ Delete(c)
          \/ Cleanup(c)

Spec == Init /\ [][Next]_vars

-----------------------------------------------------------------------------
(* Properties. *)

\* However joins, creations, healing reads and git overlap, no repository scope
\* has two active Rooms.
OneActiveRoomPerRepository ==
    \A j, k \in Keys :
        /\ Active(j) /\ Active(k)
        /\ rooms[j].remote # None /\ rooms[k].remote # None
        /\ StoredScope(j) = StoredScope(k)
        => j = k

\* A checkout registered to an active Room is never led to another one: its
\* call gets that Room or is refused (#166, fail closed).
PinnedJoinsStay ==
    [][\A c \in Calls :
         (At(c, "resolve") /\ call'[c].pc = "register" /\ call[c].pin # None /\ Active(call[c].pin))
         => call'[c].room = call[c].pin]_vars

SameRepository(k, d) ==
    \/ rooms[k].root = d
    \/ rooms[k].remote # None /\ StoredScope(k) = CheckoutScope(d)

\* A directory of another repository is in a Room only because somebody named it
\* for this Room: no match, no heal, no copied registration and no overlap of
\* calls brings one in (match_registered_projects, resolve_project_for_join).
StrangersWereNamed == \A s \in sessions : SameRepository(s[1], s[2]) \/ s \in named

\* A registration that says truly what its checkout is leads to a Room of the
\* same repository, also where the database has matched the checkout to another
\* Room by a workspace nobody checked (register_checkout_project).
RegistrationsLeadHome ==
    \A d \in Dirs :
        registration[d] # None /\ registration[d].scope = CheckoutScope(d)
        => CheckoutScope(rooms[registration[d].key].root) = CheckoutScope(d)
=============================================================================
