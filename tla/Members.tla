------------------------------- MODULE Members -------------------------------
(***************************************************************************)
(* Who may act in a Room: project members (software identities), the agent *)
(* credentials they connect with, the sessions a credential or a local     *)
(* process opens, and the task intakes that are addressed to a member      *)
(* (services.py; bootstrap.py for the HTTP bootstrap).                     *)
(*                                                                         *)
(* A remote join and an HTTP bootstrap authenticate in one transaction and *)
(* join in a later one: the credential can be revoked, linked, rotated,    *)
(* purged or stripped of its permission, and its member suspended or       *)
(* revoked, in between.                                                    *)
(***************************************************************************)
EXTENDS Absence

CONSTANTS Members,   \* software identities: a member key has one row for good
          SameName,  \* pairs of identities that use the same name
          Creds,
          Sessions,
          Intakes,
          Calls      \* joins in flight

ASSUME MembersAssumption ==
    /\ None \notin Members \cup Creds \cup Sessions
    /\ SameName \subseteq Members \X Members

VARIABLES member,    \* project_members.status
          cred,      \* agent_credentials
          session,   \* agent_sessions
          intake,    \* task_intakes
          call       \* what a joining call has read, and its next step

vars == <<member, cred, session, intake, call>>

\* "invited" is, like "suspended", neither active nor revoked.
Statuses == {"absent", "active", "suspended", "revoked"}
\* "declined" stands for "blocked" as well.
Answers == {"accepted", "declined"}

\* joins: "room:join" is among the permissions of the credential.
NoCred == [state |-> "absent", member |-> None, joins |-> FALSE]
NoSession == [member |-> None, cred |-> None]
NoIntake == [status |-> "absent", member |-> None, session |-> None]
NoCall == [stage |-> "idle", cred |-> None, pin |-> None, as |-> None]

CredType == [state : {"absent", "live", "expired", "revoked"},
             member : Members \cup {None}, joins : BOOLEAN]
CallType == [stage : {"idle", "verified", "bundled", "joining"}, cred : Creds \cup {None},
             pin : Members \cup {None}, as : Members \cup {None}]

TypeOK ==
    /\ member \in [Members -> Statuses]
    /\ cred \in [Creds -> CredType]
    /\ session \in [Sessions -> [member : Members \cup {None}, cred : Creds \cup {None}]]
    /\ intake \in [Intakes -> [status : {"absent", "pending", "defined"} \cup Answers,
                               member : Members \cup {None}, session : Sessions \cup {None}]]
    /\ call \in [Calls -> CallType]

Init ==
    /\ member = [m \in Members |-> "absent"]
    /\ cred = [c \in Creds |-> NoCred]
    /\ session = [s \in Sessions |-> NoSession]
    /\ intake = [i \in Intakes |-> NoIntake]
    /\ call = [p \in Calls |-> NoCall]

-----------------------------------------------------------------------------
(* Members. *)

CreateMember(m, status) ==
    /\ member[m] = "absent"
    /\ status \in Statuses \ {"absent"}
    /\ member' = [member EXCEPT ![m] = status]
    /\ UNCHANGED <<cred, session, intake, call>>

\* A revoked member keeps its status; every other one can take any.
MayBecome(m, status) == member[m] # "absent" /\ (member[m] = "revoked" => status = "revoked")

UpdateMember(m, status) ==
    /\ MayBecome(m, status)
    /\ status \in Statuses \ {"absent", member[m]}
    /\ member' = [member EXCEPT ![m] = status]
    /\ UNCHANGED <<cred, session, intake, call>>

\* _ensure_software_member: the identity of a join that names no member. It is
\* created unless another active member has its name.
CanEnsure(m) ==
    \/ member[m] = "active"
    \/ /\ member[m] = "absent"
       /\ \A n \in Members : <<m, n>> \in SameName => member[n] # "active"

Ensure(m) == member' = [member EXCEPT ![m] = "active"]

-----------------------------------------------------------------------------
(* Credentials. *)

Issued(c) == cred[c].state # "absent"
Usable(c) == cred[c].state = "live"

Issue(c, m, joins) ==
    /\ cred[c] = NoCred
    /\ m # None => member[m] = "active"
    /\ cred' = [cred EXCEPT ![c] = [state |-> "live", member |-> m, joins |-> joins]]
    /\ UNCHANGED <<member, session, intake, call>>

RevokeCred(c) ==
    /\ cred[c].state \in {"live", "expired"}
    /\ cred' = [cred EXCEPT ![c].state = "revoked"]
    /\ UNCHANGED <<member, session, intake, call>>

\* An expired credential cannot be extended; it can be rotated.
Expire(c) ==
    /\ Usable(c)
    /\ cred' = [cred EXCEPT ![c].state = "expired"]
    /\ UNCHANGED <<member, session, intake, call>>

\* An expired credential may change, a revoked one may not.
UpdatePermissions(c, joins) ==
    /\ cred[c].state \in {"live", "expired"}
    /\ cred[c].joins # joins
    /\ cred' = [cred EXCEPT ![c].joins = joins]
    /\ UNCHANGED <<member, session, intake, call>>

\* The replacement keeps the member, whatever has become of it, and the
\* permissions.
Rotate(c, new) ==
    /\ cred[c].state \in {"live", "expired"}
    /\ cred[new] = NoCred
    /\ cred' = [cred EXCEPT ![c].state = "revoked",
                            ![new] = [cred[c] EXCEPT !.state = "live"]]
    /\ UNCHANGED <<member, session, intake, call>>

\* Start-up removes the dead credentials that no session refers to.
PurgeCreds ==
    LET dead == {c \in Creds : /\ Issued(c) /\ ~Usable(c)
                               /\ \A s \in Sessions : session[s].cred # c}
    IN
    /\ dead # {}
    /\ cred' = [c \in Creds |-> IF c \in dead THEN NoCred ELSE cred[c]]
    /\ UNCHANGED <<member, session, intake, call>>

\* link_credential_member: the first link stays.
CanLink(c, m) == Issued(c) /\ member[m] = "active" /\ cred[c].member \in {None, m}

Link(c, m) ==
    IF CanLink(c, m) THEN cred' = [cred EXCEPT ![c].member = m] ELSE UNCHANGED cred

-----------------------------------------------------------------------------
(* Joining. *)

Return(p) == call' = [call EXCEPT ![p] = NoCall]

\* A process of this host joins as its configured identity, in one transaction.
LocalJoin(s, m) ==
    /\ session[s] = NoSession
    /\ CanEnsure(m)
    /\ Ensure(m)
    /\ session' = [session EXCEPT ![s] = [member |-> m, cred |-> None]]
    /\ UNCHANGED <<cred, intake, call>>

\* join_remote_room authenticates, and passes on the member that is linked at
\* that moment.
JoinStart(p, c, m) ==
    LET pin == cred[c].member IN
    /\ call[p] = NoCall
    /\ Usable(c) /\ cred[c].joins
    /\ call' = [call EXCEPT ![p] = [stage |-> "joining", cred |-> c, pin |-> pin,
                                    as |-> IF pin = None THEN m ELSE None]]
    /\ UNCHANGED <<member, cred, session, intake>>

\* Whom a credential speaks for: nobody, once its member is revoked.
Speaks(c) ==
    IF cred[c].member # None /\ member[cred[c].member] # "revoked" THEN cred[c].member ELSE None

\* The headers of a request may state an identity, which the credential must
\* not contradict.
Identified(c, m) == Speaks(c) \in {None, m}

\* A request over HTTP comes with a token or with a bundle of them, from which
\* the bootstrap chooses by name. A dead token disables its own Project only.
Offered(c, how) == Usable(c) /\ (how = "verified" => cred[c].joins)

\* The permissions of a single token are those of this moment.
Verify(p, c, m, how) ==
    /\ call[p] = NoCall
    /\ how \in {"verified", "bundled"}
    /\ Offered(c, how)
    /\ Identified(c, m)
    /\ call' = [call EXCEPT ![p] = [stage |-> how, cred |-> c, pin |-> None, as |-> m]]
    /\ UNCHANGED <<member, cred, session, intake>>

\* The permissions of a bundle are read again.
Authorized(p) ==
    \/ call[p].stage = "verified"
    \/ call[p].stage = "bundled" /\ Usable(call[p].cred) /\ cred[call[p].cred].joins

\* The bootstrap reads the link before it joins, and refuses a credential that
\* is linked to another identity than the client's.
Bootstrap(p) ==
    LET pin == cred[call[p].cred].member IN
    /\ call[p].stage \in {"verified", "bundled"}
    /\ IF Authorized(p) /\ pin \in {None, call[p].as}
       THEN call' = [call EXCEPT ![p].stage = "joining", ![p].pin = pin,
                                 ![p].as = IF pin = None THEN @ ELSE None]
       ELSE Return(p)
    /\ UNCHANGED <<member, cred, session, intake>>

\* Fault: the join trusts what the authentication read.
PinnedAtStart(p) == IF call[p].pin # None THEN call[p].pin ELSE call[p].as

\* Whom the transaction joins: the link is read again, and only a credential
\* that still has none leaves the choice to the identity the client states.
JoinsAs(p) ==
    LET linked == cred[call[p].cred].member IN
    IF call[p].pin # None THEN call[p].pin
    ELSE IF linked # None THEN linked ELSE call[p].as

\* Fault: the member's status is not looked at again.
MayJoinUnchecked(p, m) == Issued(call[p].cred)

MayJoin(p, m) ==
    LET linked == cred[call[p].cred].member IN
    /\ Issued(call[p].cred)
    /\ call[p].pin # None => linked \in {None, call[p].pin}
    /\ IF call[p].pin # None \/ linked # None THEN member[m] = "active" ELSE CanEnsure(m)

\* The join transaction: the session is inserted and the credential linked.
\* Neither its revocation nor its expiry is looked at again. A bootstrap links
\* once more in a transaction of its own, which finds nothing left to do.
Join(p) ==
    LET m == JoinsAs(p) IN
    /\ call[p].stage = "joining"
    /\ Return(p)
    /\ \/ /\ MayJoin(p, m)
          /\ \E s \in Sessions :
                /\ session[s] = NoSession
                /\ session' = [session EXCEPT ![s] = [member |-> m, cred |-> call[p].cred]]
          /\ Ensure(m)
          /\ cred' = [cred EXCEPT ![call[p].cred].member = m]
       \/ /\ ~MayJoin(p, m)
          /\ UNCHANGED <<member, cred, session>>
    /\ UNCHANGED intake

\* A bootstrap over a transport that still holds a session returns to it, and
\* links the credential to the session's member or is refused.
RestoreBinding(p, s) ==
    /\ call[p].stage \in {"verified", "bundled"}
    /\ Authorized(p)
    /\ session[s].cred # None
    /\ Link(call[p].cred, session[s].member)
    /\ Return(p)
    /\ UNCHANGED <<member, session, intake>>

-----------------------------------------------------------------------------
(* Task intakes. *)

\* _require_intake_target: the member need not be connected. Which of its
\* sessions is written down while the intake is pending decides nothing: any
\* session of the member may answer, and the answer replaces it.
CanTarget(m) == member[m] \in {"active", "suspended"}

Address(i, m) ==
    /\ CanTarget(m)
    /\ intake' = [intake EXCEPT ![i] = [status |-> "pending", member |-> m, session |-> None]]
    /\ UNCHANGED <<member, cred, session, call>>

SubmitIntake(i, m) ==
    /\ intake[i] = NoIntake
    /\ Address(i, m)

\* Fault: a reassignment keeps the answer of the previous target.
ReassignKeepsAnswer(i, m) ==
    /\ intake[i].status \notin {"absent", "defined"}
    /\ CanTarget(m)
    /\ intake' = [intake EXCEPT ![i].member = m]
    /\ UNCHANGED <<member, cred, session, call>>

ReassignIntake(i, m) ==
    /\ intake[i].status \notin {"absent", "defined"}
    /\ Address(i, m)

\* A session still acts after its member was suspended or revoked.
AcknowledgeIntake(i, s, response) ==
    /\ session[s] # NoSession
    /\ intake[i].status = "pending"
    /\ intake[i].member = session[s].member
    /\ intake' = [intake EXCEPT ![i].status = response, ![i].session = s]
    /\ UNCHANGED <<member, cred, session, call>>

\* Any session of the target defines the task; creating and assigning it are
\* part of the transaction.
DefineIntake(i, s) ==
    /\ session[s] # NoSession
    /\ intake[i].status = "accepted"
    /\ intake[i].member = session[s].member
    /\ intake' = [intake EXCEPT ![i].status = "defined"]
    /\ UNCHANGED <<member, cred, session, call>>

-----------------------------------------------------------------------------

MemberNext ==
    \E m \in Members, status \in Statuses : CreateMember(m, status) \/ UpdateMember(m, status)

CredNext ==
    \/ \E c \in Creds :
          \/ \E m \in Members \cup {None}, joins \in BOOLEAN : Issue(c, m, joins)
          \/ RevokeCred(c)
          \/ Expire(c)
          \/ \E joins \in BOOLEAN : UpdatePermissions(c, joins)
          \/ \E new \in Creds : Rotate(c, new)
    \/ PurgeCreds
    \/ \E p \in Calls :
          \/ \E c \in Creds, m \in Members :
                \/ JoinStart(p, c, m)
                \/ \E how \in {"verified", "bundled"} : Verify(p, c, m, how)
          \/ Bootstrap(p)
          \/ \E s \in Sessions : RestoreBinding(p, s)
          \/ Join(p)

SessionNext ==
    \/ \E s \in Sessions, m \in Members : LocalJoin(s, m)
    \/ \E i \in Intakes :
          \/ \E m \in Members : SubmitIntake(i, m) \/ ReassignIntake(i, m)
          \/ \E s \in Sessions : \/ \E response \in Answers : AcknowledgeIntake(i, s, response)
                                 \/ DefineIntake(i, s)

Next == MemberNext \/ CredNext \/ SessionNext

Spec == Init /\ [][Next]_vars

-----------------------------------------------------------------------------
(* Properties. *)

\* "instead of drifting": whatever overlaps with a join, all the sessions that a
\* credential has opened are sessions of the member it is linked to.
OneIdentityPerCredential ==
    \A s \in Sessions : session[s].cred # None => cred[session[s].cred].member = session[s].member

\* A member that was suspended or revoked while a join was under way gets no
\* session from it, and a revoked one never comes back.
OutsidersStayOut ==
    [][/\ \A s \in Sessions :
             session[s] = NoSession /\ session'[s] # NoSession
             => member[session'[s].member] \in {"absent", "active"}
       /\ \A m \in Members : member[m] = "revoked" => member'[m] = "revoked"]_vars

\* An answered intake was answered by the Agent it is addressed to now: what an
\* earlier target said is not carried over.
AnsweredByTheTarget ==
    \A i \in Intakes :
        intake[i].status \in Answers \cup {"defined"}
        => /\ intake[i].session # None
           /\ session[intake[i].session].member = intake[i].member
=============================================================================
